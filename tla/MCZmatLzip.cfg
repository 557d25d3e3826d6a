SPECIFICATION Spec
CONSTANTS
  Lens = {1, 4, 8, 9}
  NThreads = {1, 2, 3}
  MaxThreads = 3
  MinChunk = 3
  MaxAlloc = 8
  Faults <- AllFaults
INVARIANTS
  SlicesTile
  NoThreadLeftBehind
  LossNeedsLostMemory
PROPERTIES
  Termination
