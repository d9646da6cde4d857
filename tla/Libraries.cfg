SPECIFICATION MCSpec
CONSTANTS
  Threads = {t1, t2}
  Settings <- UserSettings
  Tags <- MCTags
  Object <- MCObject
  Machines <- MCMachines
  Kinds = {"inference", "gaming"}
  MaxOpen = 2
  MaxSets = 1
  Blocks = {b1, b2, b3}
  Count = 2
  MaxTotal = 5
  Managers = {m1, m2}
  MaxMounts = 2
  Objects = {o1, o2}
  Probes = {"alloc_pages", "free_pages"}
  Counting = "alloc_pages"
  MaxLinks = 2
  MaxAllocated = 4
  Possible = {0, 1, 2}
  NodeMemory = 1
SYMMETRY Symmetry
INVARIANTS
  TypeOK
  ContextsRestore
  BlocksOnce
  TagsCoverCurrent
  TmpfsOwned
  RestoresWhatOthersSet
  DetectionSettles
  SnapshotWhole
  NodeInfoBalances
  
  LoaderSound
