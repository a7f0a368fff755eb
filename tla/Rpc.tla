--------------------------------- MODULE Rpc ----------------------------------
(***************************************************************************)
(* What a downstream client promises its caller, whatever threads, pipes   *)
(* and timeouts lie between: requests are made one at a time, each is      *)
(* carried out at most once, and one that succeeds has been carried out.   *)
(* One that raises says nothing: it may have been carried out, or may be   *)
(* carried out still, when its caller has long gone on.                    *)
(***************************************************************************)
EXTENDS Naturals

CONSTANT Requests

VARIABLES
  stage,     \* "new", "open", "result", "error" or "raised"
  done       \* how many times the server carried each request out

vars == <<stage, done>>

Init ==
  /\ stage = [r \in Requests |-> "new"]
  /\ done = [r \in Requests |-> 0]

Open(r) ==
  /\ stage[r] = "new"
  /\ \A q \in Requests : stage[q] # "open"
  /\ stage' = [stage EXCEPT ![r] = "open"]
  /\ UNCHANGED done

CarryOut(r) ==
  /\ stage[r] \in {"open", "raised"}
  /\ done[r] = 0
  /\ done' = [done EXCEPT ![r] = 1]
  /\ UNCHANGED stage

Succeed(r) ==
  /\ stage[r] = "open"
  /\ done[r] = 1
  /\ stage' = [stage EXCEPT ![r] = "result"]
  /\ UNCHANGED done

Fail(r) ==
  /\ stage[r] = "open"
  /\ stage' = [stage EXCEPT ![r] = "error"]
  /\ UNCHANGED done

Raise(r) ==
  /\ stage[r] \in {"new", "open"}
  /\ stage' = [stage EXCEPT ![r] = "raised"]
  /\ UNCHANGED done

Next == \E r \in Requests : Open(r) \/ CarryOut(r) \/ Succeed(r) \/ Fail(r) \/ Raise(r)

Spec == Init /\ [][Next]_vars
==============================================================================
