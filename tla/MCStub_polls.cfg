SPECIFICATION StubSpec
CONSTANTS
  Calls = {c1}
  Threads = {h1, h2, h3}
  StubThreads = {h1, h2}
  admin = admin
  approver_stub = approver_stub
  agent = agent
  admin_tok = admin_tok
  approver_tok = approver_tok
  t_ask = t_ask
  t_high = t_high
  Principals <- MCPrincipals
  Tools <- MCTools
  Tokens <- MCTokens
  Policy <- MCPolicy
  AllowedTools <- MCTools
  MaxRisk = "medium"
  AdminToken = admin_tok
  ApproverToken = approver_tok
  AdminPrincipal = admin
  ApproverPrincipal = approver_stub
  Messages <- AskOrSelf
  NoPrincipal = NoPrincipal
  NoSection = NoSection
  NoJob = NoJob
  NoCall = NoCall
  Notifications = {}
  ProxyMode = TRUE
  SinkMayFail = FALSE
  TTL = 1
  WallSteps <- NoSteps
  Horizon = 0
INVARIANTS
  StubTypeOK
  StubOnlyApproves
  OneAcceptedDecision
  ApprovedMeansDecided
CHECK_DEADLOCK FALSE
