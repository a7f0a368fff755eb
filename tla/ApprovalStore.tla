---------------------------- MODULE ApprovalStore ----------------------------
(***************************************************************************)
(* The in-memory store of step-up approvals (approval/store.py).           *)
(*                                                                         *)
(* One PendingApproval exists for each tool call that needs approval, so a *)
(* record is named here by the call it was created for.  The store is      *)
(* shared by the gateway thread, which creates records, waits for their    *)
(* events and marks them executed, and by the worker threads of the admin  *)
(* API, which approve and deny them.                                       *)
(*                                                                         *)
(* approve and deny read the clock and write the record in one critical    *)
(* section, but time passes inside it, and the waiter's Event.wait does    *)
(* not need the lock: the section is therefore two steps, BeginDecision    *)
(* and CommitDecision.  Every other critical section is one step.          *)
(*                                                                         *)
(* The two timestamps of a record are represented by the time it has left: *)
(* remaining[c] is expires_at - time.time(), in ticks.                     *)
(***************************************************************************)
EXTENDS Integers

CONSTANTS
  Calls,        \* tool calls, and the approval records created for them
  Threads,      \* worker threads that serve the admin API
  Principals,   \* who may propose calls or decide on them
  NoPrincipal,  \* None
  NoSection,    \* nobody is inside approve or deny
  TTL,          \* approval_ttl_seconds, in ticks
  WallSteps,    \* adjustments time.time() may undergo, in ticks
  Horizon       \* bound: how far past its expiry a record's age is followed

ASSUME StoreConstants ==
  /\ NoPrincipal \notin Principals
  /\ TTL \in Nat
  /\ Horizon \in Nat
  /\ WallSteps \subseteq Int

VARIABLES
  section,      \* the approve or deny that holds the lock
  status,       \* PendingApproval.status
  approver,     \* PendingApproval.approver_principal
  decision,     \* _decisions
  event,        \* whether the record's threading.Event is set
  remaining     \* expires_at - time.time()

storeVars == <<section, status, approver, decision, event, remaining>>

Verdicts == {"approved", "denied"}
Decisions == Verdicts \cup {"expired"}

(* "built" is a PendingApproval that create has not yet inserted. *)
Statuses == {"absent", "built", "pending", "executed"} \cup Decisions

Sections == [thread : Threads, id : Calls, verdict : Verdicts,
             by : Principals, live : BOOLEAN]

ASSUME NoSectionIsNone == NoSection \notin Sections

LockFree == section = NoSection

(* Whether the store has a record of c: _pending.get(c) is not None. *)
Known(c) == status[c] \notin {"absent", "built"}

Expired(c) == remaining[c] <= 0

StoreTypeOK ==
  /\ section \in Sections \cup {NoSection}
  /\ status \in [Calls -> Statuses]
  /\ approver \in [Calls -> Principals \cup {NoPrincipal}]
  /\ decision \in [Calls -> Decisions \cup {"none"}]
  /\ event \in [Calls -> BOOLEAN]
  /\ remaining \in [Calls -> (-Horizon)..(TTL + Horizon)]

StoreInit ==
  /\ section = NoSection
  /\ status = [c \in Calls |-> "absent"]
  /\ approver = [c \in Calls |-> NoPrincipal]
  /\ decision = [c \in Calls |-> "none"]
  /\ event = [c \in Calls |-> FALSE]
  /\ remaining = [c \in Calls |-> -Horizon]
------------------------------------------------------------------------------
(* create reads the clock and builds the record before it takes the lock. *)
BuildRecord(c) ==
  /\ status[c] = "absent"
  /\ status' = [status EXCEPT ![c] = "built"]
  /\ remaining' = [remaining EXCEPT ![c] = TTL]
  /\ UNCHANGED <<section, approver, decision, event>>

InsertRecord(c) ==
  /\ LockFree
  /\ status[c] = "built"
  /\ status' = [status EXCEPT ![c] = "pending"]
  /\ event' = [event EXCEPT ![c] = FALSE]
  /\ decision' = [decision EXCEPT ![c] = "none"]
  /\ UNCHANGED <<section, approver, remaining>>
------------------------------------------------------------------------------
Enter(t, c, v, p, live) ==
  /\ LockFree
  /\ section' = [thread |-> t, id |-> c, verdict |-> v, by |-> p, live |-> live]
  /\ UNCHANGED <<status, approver, decision, event, remaining>>

(* Mutants of BeginDecision: the status is not checked inside the lock; a  *)
(* record expires a tick early; a record may be approved as it expires.    *)
BeginUnchecked(t, c, v, p) == Enter(t, c, v, p, ~Expired(c))
BeginTickEarly(t, c, v, p) == status[c] = "pending" /\ Enter(t, c, v, p, remaining[c] > 1)
BeginAtExpiry(t, c, v, p) == status[c] = "pending" /\ Enter(t, c, v, p, remaining[c] >= 0)

(* A thread enters approve or deny, finds the record pending, and compares *)
(* its expiry with the clock.                                              *)
BeginDecision(t, c, v, p) ==
  /\ status[c] = "pending"
  /\ Enter(t, c, v, p, ~Expired(c))

(* approve and deny return False at once when the record was decided. *)
AlreadyDecided(c) == LockFree /\ status[c] # "pending"

(* A mutant of Settle: the waiter is not signalled. *)
SettleSilently(c, v, p) ==
  /\ status' = [status EXCEPT ![c] = v]
  /\ approver' = [approver EXCEPT ![c] = p]
  /\ decision' = [decision EXCEPT ![c] = v]
  /\ UNCHANGED event

Settle(c, v, p) ==
  /\ status' = [status EXCEPT ![c] = v]
  /\ approver' = [approver EXCEPT ![c] = p]
  /\ decision' = [decision EXCEPT ![c] = v]
  /\ event' = [event EXCEPT ![c] = TRUE]

(* A mutant of CommitDecision: the expiry is written to the record alone. *)
CommitStatusOnly(t) ==
  /\ section # NoSection
  /\ section.thread = t
  /\ IF section.live THEN Settle(section.id, section.verdict, section.by)
     ELSE /\ status' = [status EXCEPT ![section.id] = "expired"]
          /\ UNCHANGED <<approver, decision, event>>
  /\ section' = NoSection
  /\ UNCHANGED remaining

(* The thread writes the record, signals the waiter and releases the lock. *)
CommitDecision(t) ==
  /\ section # NoSection
  /\ section.thread = t
  /\ IF section.live THEN Settle(section.id, section.verdict, section.by)
     ELSE Settle(section.id, "expired", approver[section.id])
  /\ section' = NoSection
  /\ UNCHANGED remaining
------------------------------------------------------------------------------
(* What wait_for_decision returns once the event is set. *)
DecisionRead(c) == IF decision[c] = "none" THEN "timeout" ELSE decision[c]

MarkExecuted(c) ==
  /\ LockFree
  /\ status' = [status EXCEPT ![c] = IF Known(c) THEN "executed" ELSE @]
  /\ UNCHANGED <<section, approver, decision, event, remaining>>
------------------------------------------------------------------------------
(* One tick of real time.  Ages beyond -Horizon are not told apart. *)
Age ==
  /\ remaining' = [c \in Calls |->
                     IF status[c] # "absent" /\ remaining[c] > -Horizon
                     THEN remaining[c] - 1 ELSE remaining[c]]
  /\ UNCHANGED <<section, status, approver, decision, event>>

(* The wall clock that time.time() reads is set d ticks forward. *)
SetWallClock(d) ==
  LET Clipped(n) == IF n < -Horizon THEN -Horizon
                    ELSE IF n > TTL + Horizon THEN TTL + Horizon ELSE n
  IN  /\ remaining' = [c \in Calls |-> IF status[c] = "absent" THEN remaining[c]
                                       ELSE Clipped(remaining[c] - d)]
      /\ UNCHANGED <<section, status, approver, decision, event>>
------------------------------------------------------------------------------
(* The store under the contract its callers keep: a record is marked       *)
(* executed only after an approval.  That the gateway keeps it is checked  *)
(* as the property StoreSpec of the composed system.                       *)
StoreNext ==
  \/ \E c \in Calls :
       \/ BuildRecord(c)
       \/ InsertRecord(c)
       \/ decision[c] = "approved" /\ MarkExecuted(c)
  \/ \E t \in Threads :
       \/ CommitDecision(t)
       \/ \E c \in Calls, v \in Verdicts, p \in Principals : BeginDecision(t, c, v, p)
  \/ Age
  \/ \E d \in WallSteps : SetWallClock(d)

StoreSpec == StoreInit /\ [][StoreNext]_storeVars
------------------------------------------------------------------------------
(* The three places a decision leaves its trace never disagree: the status *)
(* the admin API reports, the decision the waiter reads and the event that *)
(* wakes it.  A decision in progress is about a record still pending.      *)
StoreConsistent ==
  /\ \A c \in Calls :
       /\ status[c] \in {"absent", "built", "pending"} => decision[c] = "none"
       /\ status[c] \in Decisions => decision[c] = status[c]
       /\ status[c] = "executed" => decision[c] = "approved"
       /\ event[c] <=> decision[c] # "none"
       /\ approver[c] # NoPrincipal <=> decision[c] \in Verdicts
  /\ section # NoSection => status[section.id] = "pending"

(* The first decision on a record is the last: whatever the order of       *)
(* approvals, denials, expiries and ticks, neither the decision nor the    *)
(* principal that took it is ever replaced, and an executed record stays   *)
(* executed.                                                               *)
DecisionFinal ==
  [][\A c \in Calls :
       /\ decision[c] # "none" => /\ decision'[c] = decision[c]
                                  /\ approver'[c] = approver[c]
       /\ status[c] = "executed" => status'[c] = "executed"]_storeVars

(* A record is not approved late: once its TTL is over and no thread is    *)
(* inside a decision begun earlier, no approve succeeds any more.          *)
NoLateApproval ==
  \A c \in Calls :
    [](status[c] = "pending" /\ Expired(c) /\ LockFree => [](decision[c] # "approved"))

(* A record is not lost early: "expired" is only decided on a record whose *)
(* TTL is over.                                                            *)
NoEarlyExpiry ==
  \A c \in Calls : decision[c] = "expired" => Expired(c)
==============================================================================
