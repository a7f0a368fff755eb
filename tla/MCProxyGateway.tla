----------------------------- MODULE MCProxyGateway ----------------------------
(* Small instances of the gateway with its downstream client for TLC. *)
EXTENDS ProxyGateway, TLC

CONSTANTS admin, approver_stub, agent, admin_tok, approver_tok, t_allow, t_ask

MCPrincipals == {admin, approver_stub, agent}
MCTokens == {admin_tok, approver_tok}
MCTools == {t_allow, t_ask}

MCPolicy ==
  (t_allow :> [action |-> "allow", risk |-> "low"]) @@
  (t_ask :> [action |-> "require_approval", risk |-> "medium"])

Message(m, t) == [method |-> m, tool |-> t, requestor |-> agent]

AllowedAndAsked == {Message("tools/call", t_allow), Message("tools/call", t_ask)}

WithListing == AllowedAndAsked \cup {Message("tools/list", t_allow)}

NoSteps == {}
==============================================================================
