SPECIFICATION Spec
CONSTANTS
  Threads = {t1, t2}
  NPages = 4
  PageSize = 2
  HugePages = 2
  SizeMod = 9
  CountMod = 3
  Sizes = {2, 3}
  PoolSizes = {3}
  PoolRequests = {1, 2, 8}
INVARIANTS
  BlocksMapped
  OnlyBigStranded
  CountsBalance
  PoolDisjoint
