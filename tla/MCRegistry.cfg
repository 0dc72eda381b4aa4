SPECIFICATION Spec
CONSTANTS
  x = x
  y = y
  z = z
  l = l
  Names = {1, 2, 3, 4}
  ShardCount = 2
  ShardOf <- OddAndEven
  MaxTopicsLimit = 1
  Creators = {x, y, z}
  Listers = {l}
  NoName = 0
SYMMETRY CreatorSymmetry
INVARIANTS
  LimitOvershoot
  ListComplete
