SPECIFICATION Spec
CONSTANTS
  a = a
  b = b
  Apps = {a, b}
  MaxReconnectAttempts = 1
  MaxConns = 2
  MaxSends = 2
INVARIANTS
  TypeOK
  RequestsAccounted
  QueueHasSender
  
  CrashTakesDisconnect
PROPERTIES
  RefinesLedger
  LossNoticed
  LossFollowedUp
