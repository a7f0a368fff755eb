-------------------------------- MODULE MCStub --------------------------------
(* Small instances of the gateway and the approver stub for TLC. *)
EXTENDS ApproverStub, TLC

CONSTANTS admin, approver_stub, agent, admin_tok, approver_tok, t_ask, t_high

MCPrincipals == {admin, approver_stub, agent}
MCTokens == {admin_tok, approver_tok}
MCTools == {t_ask, t_high}

(* t_ask is within the approver's capability, t_high exceeds its risk. *)
MCPolicy ==
  (t_ask :> [action |-> "require_approval", risk |-> "medium"]) @@
  (t_high :> [action |-> "require_approval", risk |-> "high"])

ToolCall(t, p) == [method |-> "tools/call", tool |-> t, requestor |-> p]

AskAndHigh == {ToolCall(t_ask, agent), ToolCall(t_high, agent)}

(* Also a call of the stub's own principal. *)
AskOrSelf == AskAndHigh \cup {ToolCall(t_ask, approver_stub)}

NoSteps == {}
==============================================================================
