SPECIFICATION Spec
CONSTANTS
  a = a
  b = b
  x = x
  NoPattern = NoPattern
  Names <- MCNames
  Rules <- MCRules
  Glob <- MCGlob
  Lower <- MCLower
  DefaultAction = "deny"
  Servers <- TwoServers
  ToolNames <- MCTools
  CallNames <- MCCalls
INVARIANTS
  TypeOK
  CorrectRoute
  ClosedServersUntouched
PROPERTIES
  RouteStable
CHECK_DEADLOCK FALSE
