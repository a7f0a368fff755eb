----------------------------- MODULE EvidenceSink -----------------------------
(***************************************************************************)
(* The append-only evidence file (evidence/sink_jsonl.py), shared by the   *)
(* gateway thread and the admin threads.  An emit opens the file for       *)
(* append, writes one line and closes it: one step.  The log is the set of *)
(* lines written; timestamps are left out, and the order of two lines is   *)
(* the order of the steps that add them.                                   *)
(*                                                                         *)
(* Opening, writing or closing may fail, and emit then raises - before the *)
(* line is in the file, or after it.  A line counts as there when all of   *)
(* its text is; half a line is none.                                       *)
(***************************************************************************)
CONSTANT SinkMayFail    \* whether runs include a full disk, a lost volume...

ASSUME SinkConstants == SinkMayFail \in BOOLEAN

VARIABLE evidence

Events == {"initialize", "tool_call_proposed", "decision_made", "approval_required",
           "tool_call_blocked", "tool_call_executed", "tool_call_failed",
           "approval_rejected", "approval_granted", "approval_failed",
           "deny_rejected", "approval_denied", "deny_failed"}

SinkInit == evidence = {}

Emit(what, c, p) ==
  evidence' = evidence \cup {[event |-> what, call |-> c, by |-> p]}

EmitRaises(what, c, p) == SinkMayFail /\ (UNCHANGED evidence \/ Emit(what, c, p))

Recorded(what, c) == \E e \in evidence : e.event = what /\ e.call = c
==============================================================================
