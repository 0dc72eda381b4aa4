SPECIFICATION Safety
CONSTANTS
  c1 = c1
  c2 = c2
  t1 = t1
  a = a
  Clients = {c1, c2}
  Topics = {t1}
  Admins = {a}
  NoTopic = notopic
  NoOne = none
  Shards <- OneShard
  ShardOf <- AllInOneShard
  QueueSize = 1
  MaxSubscribersPerTopic = 2
  MaxIncarnations = 2
  MaxRequests = 4
SYMMETRY ClientSymmetry
INVARIANTS
  TypeOK
  MembersKnowTheirTopics
  NoGhost
  
