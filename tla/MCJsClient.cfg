SPECIFICATION Spec
CONSTANTS
  MaxReconnectAttempts = 1
  MaxSockets = 3
  MaxCalls = 2
  Kind <- MCKind
CHECK_DEADLOCK FALSE
INVARIANTS
  TypeOK
  OneSocket
  
  RequestsAccounted
  HangsOnlyDisconnected
  NotStranded
  RetriesLimited
  OnlyOwedTimersConnect
PROPERTIES
  RefinesLedger
  ConnectSettles
  RequestSettles
