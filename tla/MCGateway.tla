------------------------------ MODULE MCGateway -------------------------------
(* Small instances of the gateway for TLC. *)
EXTENDS GatewayProperties, TLC

CONSTANTS admin, approver_stub, agent,            \* principals
          admin_tok, approver_tok, wrong_tok,     \* tokens
          t_allow, t_deny, t_ask, t_high          \* tools

MCPrincipals == {admin, approver_stub, agent}
MCTokens == {admin_tok, approver_tok, wrong_tok}
MCTools == {t_allow, t_deny, t_ask, t_high}

(* t_ask is within the approver's capability, t_high exceeds its risk. *)
MCPolicy ==
  (t_allow :> [action |-> "allow", risk |-> "low"]) @@
  (t_deny :> [action |-> "deny", risk |-> "forbidden"]) @@
  (t_ask :> [action |-> "require_approval", risk |-> "medium"]) @@
  (t_high :> [action |-> "require_approval", risk |-> "high"])

MCAllowed == {t_ask, t_high}

ToolCall(t, p) == [method |-> "tools/call", tool |-> t, requestor |-> p]
Other(m) == [method |-> m, tool |-> t_allow, requestor |-> agent]

(* Step-ups by an agent and by a principal that is also an approver. *)
StepUps == {ToolCall(t_ask, agent), ToolCall(t_high, agent),
            ToolCall(t_ask, approver_stub), ToolCall(t_ask, admin)}

(* The admin's own calls are left to the run of all messages.              *)
Raced == StepUps \ {ToolCall(t_ask, admin)}

AllMessages == StepUps \cup {ToolCall(t_allow, agent), ToolCall(t_deny, agent)}
                 \cup {Other(m) : m \in Methods \ {"tools/call"}}

OneStepUp == {ToolCall(t_ask, agent)}

NoSteps == {}
BothWays == {-1, 1}

Symmetry == Permutations(Calls) \cup Permutations(Threads)
==============================================================================
