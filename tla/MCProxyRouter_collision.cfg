SPECIFICATION Spec
CONSTANTS
  a = a
  b = b
  x = x
  NoPattern = NoPattern
  Names <- MCNames
  Rules <- MCRules
  Glob <- MCGlob
  Lower <- MCLower
  DefaultAction = "deny"
  Servers <- Nested
  ToolNames <- MCTools
  CallNames <- MCCalls
INVARIANTS
  CorrectRoute
CHECK_DEADLOCK FALSE
