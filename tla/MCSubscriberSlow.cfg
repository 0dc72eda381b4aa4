SPECIFICATION Spec
CONSTANTS
  p1 = p1
  h = h
  Callers = {p1, h}
  Handler = h
  WriteLoop = w
  NoOne = none
  QueueSize = 1
  MaxCalls = 2
PROPERTY
  SlowConsumerDisconnected
