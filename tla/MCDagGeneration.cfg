SPECIFICATION Spec
CONSTANTS
  Word = 8
  HashWords = 2
  BlockSize = 2
  InitialItems = 3
  GrowthItems = 1
  InitialCacheItems = 2
  GrowthCacheItems = 0
  SearchItems = 3
  Epochs = {0, 1, 2}
  DagParents = 2
  None = None
INVARIANTS
  AccessesInside
  CacheOutlivesReads
  WholeUpToWord
