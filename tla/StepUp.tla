-------------------------------- MODULE StepUp --------------------------------
(***************************************************************************)
(* What the gateway promises about every call: it is handed to its tool at *)
(* most once, only while it is open, and only if policy allows it outright *)
(* or requires an approval that an eligible principal has granted.  A call *)
(* has at most one decision.  How the decision travels - locks, events,    *)
(* clocks, evidence - is left to the implementation.                       *)
(***************************************************************************)
CONSTANTS Calls, Principals, NoPrincipal

VARIABLES
  permit,     \* what policy says of the call; never changes
  eligible,   \* who may decide on it; never changes
  stage,      \* "new", "open" or "closed"
  grant,      \* the decision taken on it
  grantedBy,  \* who took it
  runs        \* how many times it was handed to its tool

vars == <<permit, eligible, stage, grant, grantedBy, runs>>

Init ==
  /\ permit \in [Calls -> {"allow", "deny", "require_approval"}]
  /\ eligible \in [Calls -> SUBSET Principals]
  /\ stage = [c \in Calls |-> "new"]
  /\ grant = [c \in Calls |-> "none"]
  /\ grantedBy = [c \in Calls |-> NoPrincipal]
  /\ runs = [c \in Calls |-> 0]

Open(c) ==
  /\ stage[c] = "new"
  /\ stage' = [stage EXCEPT ![c] = "open"]
  /\ UNCHANGED <<permit, eligible, grant, grantedBy, runs>>

(* A decision may also come after the call was closed; it is then moot. *)
Grant(c, v, p) ==
  /\ stage[c] # "new"
  /\ permit[c] = "require_approval"
  /\ grant[c] = "none"
  /\ p \in eligible[c]
  /\ grant' = [grant EXCEPT ![c] = v]
  /\ grantedBy' = [grantedBy EXCEPT ![c] = p]
  /\ UNCHANGED <<permit, eligible, stage, runs>>

Expire(c) ==
  /\ stage[c] # "new"
  /\ permit[c] = "require_approval"
  /\ grant[c] = "none"
  /\ grant' = [grant EXCEPT ![c] = "expired"]
  /\ UNCHANGED <<permit, eligible, stage, grantedBy, runs>>

Run(c) ==
  /\ stage[c] = "open"
  /\ runs[c] = 0
  /\ \/ permit[c] = "allow"
     \/ permit[c] = "require_approval" /\ grant[c] = "approved"
  /\ runs' = [runs EXCEPT ![c] = 1]
  /\ UNCHANGED <<permit, eligible, stage, grant, grantedBy>>

Close(c) ==
  /\ stage[c] = "open"
  /\ stage' = [stage EXCEPT ![c] = "closed"]
  /\ UNCHANGED <<permit, eligible, grant, grantedBy, runs>>

Next ==
  \E c \in Calls :
    \/ Open(c) \/ Expire(c) \/ Run(c) \/ Close(c)
    \/ \E v \in {"approved", "denied"}, p \in Principals : Grant(c, v, p)

Spec == Init /\ [][Next]_vars
==============================================================================
