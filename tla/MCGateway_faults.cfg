SPECIFICATION Spec
CONSTANTS
  Calls = {c1}
  Threads = {h1}
  admin = admin
  approver_stub = approver_stub
  agent = agent
  admin_tok = admin_tok
  approver_tok = approver_tok
  wrong_tok = wrong_tok
  t_allow = t_allow
  t_deny = t_deny
  t_ask = t_ask
  t_high = t_high
  Principals <- MCPrincipals
  Tools <- MCTools
  Policy <- MCPolicy
  AllowedTools <- MCAllowed
  MaxRisk = "medium"
  AdminToken = admin_tok
  ApproverToken = approver_tok
  AdminPrincipal = admin
  ApproverPrincipal = approver_stub
  NoPrincipal = NoPrincipal
  NoSection = NoSection
  NoJob = NoJob
  NoCall = NoCall
  Tokens <- MCTokens
  Messages <- AllMessages
  Notifications = {}
  ProxyMode = TRUE
  SinkMayFail = TRUE
  TTL = 1
  WallSteps <- BothWays
  Horizon = 1
INVARIANTS
  TypeOK
  RunsOnlyIfPermitted
  EvidenceBeforeRun
  OutcomeRecorded
PROPERTIES
  StepUpContract
  StoreSpec
CHECK_DEADLOCK FALSE
