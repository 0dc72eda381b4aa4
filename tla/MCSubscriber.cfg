SPECIFICATION Spec
CONSTANTS
  p1 = p1
  h = h
  Callers = {p1, h}
  Handler = h
  WriteLoop = w
  NoOne = none
  QueueSize = 2
  MaxCalls = 3
INVARIANTS
  TypeOK
  CloseOnce
  FlagIsTruth
  AcceptedAccounted
PROPERTIES
  RefinesPipe
  NoGoroutineLeak
  SlowConsumerHandled
