SPECIFICATION ProxySpec
CONSTANTS
  Calls = {c1}
  Threads = {h1}
  admin = admin
  approver_stub = approver_stub
  agent = agent
  admin_tok = admin_tok
  approver_tok = approver_tok
  t_allow = t_allow
  t_ask = t_ask
  Principals <- MCPrincipals
  Tools <- MCTools
  Policy <- MCPolicy
  AllowedTools = {t_ask}
  MaxRisk = "medium"
  AdminToken = admin_tok
  ApproverToken = approver_tok
  AdminPrincipal = admin
  ApproverPrincipal = approver_stub
  NoPrincipal = NoPrincipal
  NoSection = NoSection
  NoJob = NoJob
  NoCall = NoCall
  NoRequest = NoRequest
  NoMessage = NoMessage
  Tokens = {approver_tok}
  Messages <- WithListing
  Notifications = {}
  ProxyMode = TRUE
  SinkMayFail = TRUE
  TTL = 1
  WallSteps <- NoSteps
  Horizon = 0
  InputSize = 1
  OutputSize = 1
PROPERTIES
  MediationContract
CHECK_DEADLOCK FALSE
