SPECIFICATION Spec
CONSTANTS
  Width = 3
  MixParts = 2
  MaxBatches = 3
  Garbage = Garbage
INVARIANTS
  ValidShares
  NoShareTwice
  NoLaunchWasted
PROPERTIES
  ImplementsSearch
