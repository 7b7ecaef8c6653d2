SPECIFICATION Spec
CONSTANTS
  a = a
  b = b
  c = c
  Ids = {a, b, c}
  NShards = 2
  ShardOf <- MCShardOf
  MaxWindows = 1
  Writers = {w1, w2}
  PrunedCap = 1
  MaxUpdates = 3
  MaxPrunes = 1
  MaxResets = 1
INVARIANTS
  TypeOK
  ActiveNotAbove
  SoftCap
PROPERTIES
  UpdateCompletes
  EvictsOldest
