----------------------------- MODULE ApproverStub -----------------------------
(***************************************************************************)
(* The approver stub (aimxs_approver_stub/stub.py) beside the gateway: a   *)
(* process of its own that polls the list of pending approvals and posts a *)
(* verdict on each of them with the approver's token.  It decides by the   *)
(* list it was given, which may be stale when it posts; it does not look   *)
(* at the status of the answer, only at whether one came in time.          *)
(***************************************************************************)
EXTENDS GatewayProperties

CONSTANT StubThreads    \* the admin threads that serve the stub's requests

ASSUME StubConstants == StubThreads \subseteq Threads /\ ApproverToken \in Tokens

VARIABLES
  todo,      \* what is left of the list it works through
  posting,   \* the call of the request it waits for, or NoCall
  via,       \* the threads that serve a request it still waits for
  said       \* what it last printed about each call

stubVars == <<todo, posting, via, said>>

StubTypeOK ==
  /\ TypeOK
  /\ todo \subseteq Calls
  /\ posting \in Calls \cup {NoCall}
  /\ via \subseteq StubThreads
  /\ said \in [Calls -> {"nothing", "Approved", "Denied"}]

StubInit ==
  /\ Init
  /\ todo = {}
  /\ posting = NoCall
  /\ via = {}
  /\ said = [c \in Calls |-> "nothing"]
------------------------------------------------------------------------------
InCapability(c) ==
  /\ call[c].tool \in AllowedTools
  /\ RiskOrder[Verdict(c).risk] <= RiskOrder[MaxRisk]

StubVerdict(c) == IF InCapability(c) THEN "approved" ELSE "denied"

(* GET /v1/approvals/pending: what is pending and not past its expiry.     *)
ListPending == {c \in Calls : status[c] = "pending" /\ ~Expired(c)}

Poll ==
  /\ Alive /\ LockFree
  /\ todo = {} /\ posting = NoCall
  /\ todo' = ListPending
  /\ UNCHANGED <<vars, posting, via, said>>

Post(c, t) ==
  /\ Alive
  /\ posting = NoCall /\ c \in todo
  /\ Submit(t, [token |-> ApproverToken, verdict |-> StubVerdict(c), id |-> c])
  /\ posting' = c
  /\ via' = {t}
  /\ todo' = todo \ {c}
  /\ UNCHANGED <<call, gwVars, said>>

(* A mutant of Says: the verdict that was sent is printed as it is. *)
SaysVerdict(c) == StubVerdict(c)

Says(c) == IF InCapability(c) THEN "Approved" ELSE "Denied"

(* An answer, whatever it is, is printed as the verdict that was asked.    *)
Hear(t) ==
  /\ Alive
  /\ t \in via
  /\ Release(t)
  /\ said' = [said EXCEPT ![posting] = Says(posting)]
  /\ posting' = NoCall
  /\ via' = {}
  /\ UNCHANGED <<call, gwVars, todo>>

(* A mutant of GiveUp: the line is printed before the answer is known.     *)
GiveUpLoudly ==
  /\ Alive
  /\ posting # NoCall
  /\ said' = [said EXCEPT ![posting] = Says(posting)]
  /\ posting' = NoCall /\ via' = {} /\ todo' = {}
  /\ UNCHANGED vars

(* No answer in five seconds: the exception drops the rest of the list.    *)
(* The request goes on, and its answer finds nobody.                       *)
GiveUp ==
  /\ Alive
  /\ posting # NoCall
  /\ posting' = NoCall /\ via' = {} /\ todo' = {}
  /\ UNCHANGED <<vars, said>>

AnswerDropped(t) ==
  /\ Alive
  /\ t \notin via
  /\ Release(t)
  /\ UNCHANGED <<call, gwVars, stubVars>>

(* Everybody else: the approver's token is the stub's alone.               *)
Others(t) ==
  /\ Alive
  /\ Handle(t) \/ Release(t) \/ \E j \in Jobs : j.token # ApproverToken /\ Submit(t, j)
  /\ UNCHANGED <<call, gwVars, stubVars>>

StubNext ==
  \/ Poll \/ GiveUp
  \/ \E t \in StubThreads :
       \/ \E c \in Calls : Post(c, t)
       \/ Hear(t) \/ AnswerDropped(t)
       \/ Alive /\ Handle(t) /\ UNCHANGED <<call, gwVars, stubVars>>
  \/ \E t \in Threads \ StubThreads : Others(t)
  \/ /\ (\E c \in Calls : Read(c)) \/ Serve \/ Exit \/ Tick \/ AdjustClock
     /\ UNCHANGED stubVars

StubSpec == StubInit /\ [][StubNext]_<<vars, stubVars>>
------------------------------------------------------------------------------
(* The stub can only ever approve: every decision the store accepts from   *)
(* the approver's principal is an approval, because a request the stub     *)
(* wants denied is outside the capability the API asks of a denial, too.   *)
StubOnlyApproves ==
  \A c \in Calls : approver[c] = ApproverPrincipal => decision[c] = "approved"

(* When the stub says it approved a call of somebody else, the call is     *)
(* decided, if not always by it: the list it worked from may be stale, but *)
(* no request of its is lost between the answer and the record.            *)
ApprovedMeansDecided ==
  \A c \in Calls :
    said[c] = "Approved" /\ call[c].requestor # ApproverPrincipal => decision[c] # "none"

(* stub.py:45-48 of a request outside its capability: "deterministic deny",*)
(* after which it prints that it denied the request.  So stated, a request *)
(* it says it denied has been decided.                                     *)
DeniedMeansDecided ==
  \A c \in Calls : said[c] = "Denied" => decision[c] # "none"
==============================================================================
