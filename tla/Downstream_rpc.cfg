SPECIFICATION FairSpec
CONSTANTS
  Requests = {r1, r2}
  NoRequest = NoRequest
  NoMessage = NoMessage
  InputSize = 1
  OutputSize = 2
INVARIANTS
  TypeOK
  AnswerIsOwn
  NeverMalformed
  PendingExact
PROPERTIES
  RpcContract
  RequestsEnd
CHECK_DEADLOCK FALSE
