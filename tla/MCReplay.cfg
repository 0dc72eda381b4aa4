SPECIFICATION Spec
CONSTANTS
  p1 = p1
  p2 = p2
  s1 = s1
  Publishers = {p1, p2}
  Subscribers = {s1}
  QueueSize = 2
  ReplaySize = 2
  LastN = 2
  MaxPublishes = 1
  MaxTopics = 2
  MaxRestarts = 1
  Torn = torn
  NoMessage = nomessage
SYMMETRY PublisherSymmetry
CHECK_DEADLOCK FALSE
INVARIANTS
  TypeOK
  ListHoldsNewest
  AcknowledgedIsStored
  
  
