------------------------------ MODULE Mediation -------------------------------
(***************************************************************************)
(* What proxy mode promises of every tool call, from the client to the     *)
(* downstream server and its effect: there is at most one, policy or an    *)
(* eligible principal has permitted it before, and a call that went on     *)
(* record as done has had it, one that was refused never will.             *)
(*                                                                         *)
(* Of a call that ended otherwise the promise says less: the gateway gave  *)
(* it up, or could not tell or record what became of it, and a permitted   *)
(* effect may come yet.  This is StepUp with the effect in the place of    *)
(* the handing over, which is all that the gateway itself can time.        *)
(***************************************************************************)
EXTENDS Naturals

CONSTANTS Calls, Principals, NoPrincipal

VARIABLES
  permit,     \* what policy says of the call; never changes
  eligible,   \* who may decide on it; never changes
  stage,      \* "new", "open", "done", "refused" or "ended"
  grant,      \* the decision taken on it
  grantedBy,  \* who took it
  effects     \* how many times a server carried it out

vars == <<permit, eligible, stage, grant, grantedBy, effects>>

Init ==
  /\ permit \in [Calls -> {"allow", "deny", "require_approval"}]
  /\ eligible \in [Calls -> SUBSET Principals]
  /\ stage = [c \in Calls |-> "new"]
  /\ grant = [c \in Calls |-> "none"]
  /\ grantedBy = [c \in Calls |-> NoPrincipal]
  /\ effects = [c \in Calls |-> 0]

Open(c) ==
  /\ stage[c] = "new"
  /\ stage' = [stage EXCEPT ![c] = "open"]
  /\ UNCHANGED <<permit, eligible, grant, grantedBy, effects>>

(* A call is decided on once; the record may outlive the call.             *)
Grant(c, v, p) ==
  /\ grant[c] = "none" /\ permit[c] = "require_approval" /\ stage[c] # "new"
  /\ p \in eligible[c]
  /\ grant' = [grant EXCEPT ![c] = v]
  /\ grantedBy' = [grantedBy EXCEPT ![c] = p]
  /\ UNCHANGED <<permit, eligible, stage, effects>>

Expire(c) ==
  /\ grant[c] = "none" /\ permit[c] = "require_approval" /\ stage[c] # "new"
  /\ grant' = [grant EXCEPT ![c] = "expired"]
  /\ UNCHANGED <<permit, eligible, stage, grantedBy, effects>>

Effect(c) ==
  /\ effects[c] = 0
  /\ stage[c] \in {"open", "ended"}
  /\ \/ permit[c] = "allow"
     \/ permit[c] = "require_approval" /\ grant[c] = "approved"
  /\ effects' = [effects EXCEPT ![c] = 1]
  /\ UNCHANGED <<permit, eligible, stage, grant, grantedBy>>

Close(c) ==
  /\ stage[c] = "open"
  /\ \E s \in {"done", "refused", "ended"} :
       /\ s = "done" => effects[c] = 1
       /\ s = "refused" => effects[c] = 0
       /\ stage' = [stage EXCEPT ![c] = s]
  /\ UNCHANGED <<permit, eligible, grant, grantedBy, effects>>

Next ==
  \E c \in Calls :
    \/ Open(c) \/ Expire(c) \/ Effect(c) \/ Close(c)
    \/ \E v \in {"approved", "denied"}, p \in Principals : Grant(c, v, p)

Spec == Init /\ [][Next]_vars
==============================================================================
