----------------------------- MODULE ProxyGateway -----------------------------
(***************************************************************************)
(* Proxy mode from end to end: the gateway with the client of a downstream *)
(* server in the place of a tool that takes one step.  While it serves a   *)
(* tools/call or a listing, the server thread goes through the steps of a  *)
(* request; the child works on by itself, and may carry a call out after   *)
(* the gateway has given it up, answered it and gone on to the next.       *)
(*                                                                         *)
(* A request is named by the message it is made for.  main starts the      *)
(* server before it reads the first message, and nobody stops it.          *)
(***************************************************************************)
EXTENDS GatewayProperties, Sequences

CONSTANTS NoRequest, NoMessage, InputSize, OutputSize

VARIABLES phase, pending, signal, holder, answer, alive, reader, found,
          child, input, output, taken, done

D == INSTANCE Downstream WITH Requests <- Calls, event <- signal

ASSUME InProxyMode == ProxyMode

ASSUME ClientConstants ==
  /\ NoRequest \notin Calls
  /\ NoMessage \notin D!Lines
  /\ InputSize \in Nat /\ OutputSize \in Nat

clientVars == <<phase, pending, signal, holder, answer, alive, reader, found,
                child, input, output, taken, done>>

allVars == <<vars, clientVars>>

ProxyInit == Init /\ D!Init

(* Where the server thread waits for its downstream server. *)
InRequest ==
  \/ gw = "execute"
  \/ gw = "simple" /\ call[cur].method = "tools/list"

(* Whether a request has reached the server, or is on its way to it.       *)
Handed(c) == c \in taken \/ \E i \in DOMAIN input : input[i] = c

(* A mutant of Succeeded: a response that holds an error will do. *)
SucceededUnchecked(c) == phase[c] = "returned"

Succeeded(c) == phase[c] = "returned" /\ answer[c].kind = "result"

StartServer == D!Start /\ UNCHANGED vars

(* The steps of request, while the gateway stays where it is.              *)
StepRequest ==
  /\ InRequest
  /\ child # "none" /\ D!Request(cur)
  /\ UNCHANGED vars

(* Mutants of ReturnCall: the exception leaves the handler; the gateway    *)
(* gives the call up while its request still waits.                        *)
ReturnUncaught ==
  /\ gw = "execute" /\ phase[cur] \in D!Ended
  /\ IF Succeeded(cur) THEN Proceed("record") ELSE Finish("internal_error")
  /\ runs' = [runs EXCEPT ![cur] = @ + 1]
  /\ UNCHANGED <<adminVars, call, waitLeft, clientVars>>

ReturnEarly ==
  /\ gw = "execute"
  /\ Proceed(IF Succeeded(cur) THEN "record" ELSE "recordfail")
  /\ runs' = [runs EXCEPT ![cur] = IF Handed(cur) THEN @ + 1 ELSE @]
  /\ UNCHANGED <<adminVars, call, waitLeft, clientVars>>

(* route_call returns the result, or raises - at once, if the name leads   *)
(* to no server - and the handler goes on to one line of evidence or the   *)
(* other.  What was written before it raised may have arrived: runs counts *)
(* what the server was handed, which the gateway itself cannot tell.       *)
ReturnCall ==
  /\ gw = "execute"
  /\ phase[cur] \in D!Ended \cup {"new"}
  /\ Proceed(IF Succeeded(cur) THEN "record" ELSE "recordfail")
  /\ runs' = [runs EXCEPT ![cur] = IF Handed(cur) THEN @ + 1 ELSE @]
  /\ UNCHANGED <<adminVars, call, waitLeft, clientVars>>

(* A listing is answered with the server's tools, or fails with it.  A     *)
(* result that is no list of tools makes it fail as well.                  *)
ReturnListing ==
  /\ gw = "simple" /\ call[cur].method = "tools/list"
  /\ phase[cur] \in D!Ended
  /\ (Succeeded(cur) /\ Finish("result")) \/ Finish("internal_error")
  /\ UNCHANGED <<adminVars, call, waitLeft, runs, clientVars>>

(* Everything else the gateway does, it does as ever.                      *)
ServeElse ==
  /\ Serve
  /\ ~InRequest
  /\ UNCHANGED clientVars

ReadMessage ==
  /\ child # "none"
  /\ \E c \in Calls : Read(c)
  /\ UNCHANGED clientVars

Beside ==
  /\ Exit \/ Tick \/ AdjustClock \/ \E t \in Threads : Admin(t)
  /\ UNCHANGED clientVars

(* The reader thread dies with the gateway; the child need not.            *)
Downstream ==
  /\ (Alive /\ D!ReadLoop) \/ D!Server
  /\ UNCHANGED vars

ProxyNext ==
  \/ StartServer \/ ReadMessage \/ StepRequest \/ ReturnCall \/ ReturnListing
  \/ ServeElse \/ Beside \/ Downstream

ProxySpec == ProxyInit /\ [][ProxyNext]_allVars

(* The gateway's thread is scheduled, and time passes.  Nothing is assumed *)
(* of the child, and nothing is needed of the reader thread.               *)
ProxyFairness ==
  /\ WF_allVars(StepRequest \/ ReturnCall \/ ReturnListing \/ ServeElse)
  /\ WF_allVars(Tick /\ UNCHANGED clientVars)

ProxyFairSpec == ProxySpec /\ ProxyFairness
------------------------------------------------------------------------------
(* What a downstream server really does for a call, however late, was      *)
(* permitted and is accounted for: also when the gateway has long answered *)
(* the call with an error, serves another one, or has exited.              *)
EffectsPermitted ==
  \A c \in Calls : IsCall(c) /\ done[c] > 0 =>
    /\ Recorded("tool_call_proposed", c) /\ Recorded("decision_made", c)
    /\ ~Recorded("tool_call_blocked", c)
    /\ \/ Verdict(c).action = "allow"
       \/ /\ Verdict(c).action = "require_approval"
          /\ Recorded("approval_required", c)
          /\ decision[c] = "approved" /\ MayDecide(approver[c], c)

(* What the client is told, and the log says, was executed has happened,   *)
(* once, for this call and not for one that waited for its answer before.  *)
ResultsHappened ==
  \A c \in Calls :
    IsCall(c) /\ (reply[c] = "result" \/ Recorded("tool_call_executed", c)) => done[c] = 1

(* How far a call has got, by its answer and by what the log holds of it.  *)
Progress(c) ==
  CASE reply[c] = "unread" -> "new"
    [] reply[c] = "serving" -> "open"
    [] reply[c] \in Answers /\ IsCall(c) /\ Recorded("tool_call_executed", c) -> "done"
    [] reply[c] \in Answers /\ IsCall(c) /\ Recorded("tool_call_blocked", c) -> "refused"
    [] OTHER -> "ended"

(* From end to end: what a server does for a call, with all that lies      *)
(* between, follows the contract of module Mediation - granted first, once *)
(* at most, never after a refusal, and before it is recorded as done.      *)
Promise == INSTANCE Mediation WITH
  permit <- [c \in Calls |-> Verdict(c).action],
  eligible <- [c \in Calls |-> {p \in Principals : MayDecide(p, c)}],
  stage <- [c \in Calls |-> Progress(c)],
  grant <- decision,
  grantedBy <- approver,
  effects <- [c \in Calls |-> IF IsCall(c) THEN done[c] ELSE 0]

MediationContract == Promise!Spec

(* With its downstream client in the place of Execute and of ListTools the *)
(* gateway still does only what module Gateway lets it do: whatever ends a *)
(* request, the call is recorded as executed only if the server had it,    *)
(* the exception is caught, and nothing is handed over twice.              *)
GatewayKept == Spec

(* The gateway uses its client as module Downstream asks: it starts the    *)
(* server once, and makes no request before the last has ended, however    *)
(* that ended and however many messages are waiting.                       *)
ClientKept == D!Spec

(* Every message is answered though its server hangs, dies or says         *)
(* nonsense - but for one that leaves its pipe full for good.              *)
AnsweredUnlessStuffed ==
  []<>(D!Unread \/ Len(input) < InputSize) => CallsAnswered
==============================================================================
