-------------------------- MODULE GatewayProperties ---------------------------
(***************************************************************************)
(* What the composed gateway guarantees.  AdminApi and ApprovalStore state *)
(* the properties that are about their own state alone.                    *)
(***************************************************************************)
EXTENDS Gateway

IsCall(c) == call[c].method = "tools/call"

(* A tool runs only if policy allows the call, or policy requires approval *)
(* and the store holds one by a principal entitled to give it, whatever    *)
(* the interleaving of waiter, deciders, clock and failing evidence.       *)
RunsOnlyIfPermitted ==
  \A c \in Calls : runs[c] > 0 =>
    \/ Verdict(c).action = "allow"
    \/ /\ Verdict(c).action = "require_approval"
       /\ decision[c] = "approved"
       /\ MayDecide(approver[c], c)

(* No tool runs before the log holds what led to it: the proposal, the     *)
(* decision and, for a step-up, the request for approval.  This is what    *)
(* makes a failing sink stop the call instead of running it unrecorded.    *)
EvidenceBeforeRun ==
  \A c \in Calls : runs[c] > 0 =>
    /\ Recorded("tool_call_proposed", c)
    /\ Recorded("decision_made", c)
    /\ Verdict(c).action = "require_approval" => Recorded("approval_required", c)

(* The client is never told an outcome that the log does not hold, and the *)
(* log never holds an outcome that is not the call's.  A call may be       *)
(* recorded both as executed and as failed, when the sink raised after it  *)
(* had written the first line; its client is then not told of a result.    *)
OutcomeRecorded ==
  \A c \in Calls : IsCall(c) =>
    /\ reply[c] = "result" => /\ Recorded("tool_call_executed", c)
                              /\ ~Recorded("tool_call_failed", c)
    /\ reply[c] \in {"denied", "blocked"} => Recorded("tool_call_blocked", c)
    /\ reply[c] = "error" => Recorded("tool_call_failed", c)
    /\ Recorded("tool_call_blocked", c) => runs[c] = 0
    /\ Recorded("tool_call_executed", c) => runs[c] > 0

(* How far a call got, as the contract sees it.                            *)
Stage(c) == CASE reply[c] = "unread" -> "new"
              [] reply[c] = "serving" -> "open"
              [] OTHER -> "closed"

(* The gateway implements the step-up contract: behind the locks, events,  *)
(* clocks and evidence of the code, each call is opened, decided at most   *)
(* once by an eligible principal, run at most once while it is open and    *)
(* permitted, and closed.                                                  *)
Contract == INSTANCE StepUp WITH
  permit <- [c \in Calls |-> Verdict(c).action],
  eligible <- [c \in Calls |-> {p \in Principals : MayDecide(p, c)}],
  stage <- [c \in Calls |-> Stage(c)],
  grant <- decision,
  grantedBy <- approver

StepUpContract == Contract!Spec

(* Every message that is read is answered in the end, even if no approver  *)
(* ever decides: the wait is bounded by the TTL.                           *)
CallsAnswered ==
  \A c \in Calls : reply[c] = "serving" ~> reply[c] \in Answers

(* An approval given while the gateway waits for it is not lost: the       *)
(* waiter wakes with it and the call goes on to its execution.             *)
ApprovalTakesEffect ==
  \A c \in Calls :
    (gw = "waiting" /\ cur = c /\ decision[c] = "approved") ~>
    (status[c] = "executed" /\ reply[c] \in {"result", "error"})

(* Its safety half, which asks nothing of the scheduler: once the approval *)
(* is there and the wait is not over, the server thread has one way to go. *)
OnwardToRun == {<<"waiting", "collect">>, <<"collect", "mark">>, <<"mark", "execute">>}

ApprovalNotDropped ==
  [][\A c \in Calls :
       cur = c /\ decision[c] = "approved" /\ gw \in {"waiting", "collect", "mark"} =>
         cur' = c /\ (gw' = gw \/ <<gw, gw'>> \in OnwardToRun)]_vars

(* Unless the gateway exits, every decision taken is recorded in the end.  *)
DecisionsRecordedInTheEnd ==
  \A c \in Calls :
    /\ decision[c] = "approved" ~> Recorded("approval_granted", c) \/ ~Alive
    /\ decision[c] = "denied" ~> Recorded("approval_denied", c) \/ ~Alive

(* README.md:96 of every allow, deny or step-up decision: it is recorded.  *)
(* Stated of the file the gateway leaves behind when it has exited.        *)
DecisionsRecordedAtExit ==
  ~Alive => \A c \in Calls :
    /\ decision[c] = "approved" => Recorded("approval_granted", c)
    /\ decision[c] = "denied" => Recorded("approval_denied", c)
==============================================================================
