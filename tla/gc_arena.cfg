SPECIFICATION Spec
CHECK_DEADLOCK FALSE
CONSTANTS
  u1 = u1
  u2 = u2
  l1 = l1
  l2 = l2
  ArenaSize = 10
  GcHeader = 4
  BlockHeader = 2
  RefSize = 2
  Users = {u1, u2}
  Lists = {l1, l2}
  ItemSize <- ItemSizes
  FirstCapacity = 1
  Sizes = {1, 9}
  FailsModulus = 8
  MaxRefs = 2
  MaxBlocks = 4
  MaxLength = 5
  MaxFaults = 1
INVARIANTS
  NoOverlap
  Accounted
  ChunksKept
  ListsFit
