CONSTANTS
  Sizes = {1, 47}
  History = 1
  Opts = 1
  MatchMax = 2
  NumHash = 2
  HashBlock = 4
  HashBlocks = 2
  BtBlock = 11
  BtBlocks = 2
  After = 1
  Reserve = 3
  Align = 2
  Faults = 1
SPECIFICATION Spec
INVARIANTS
  InOrder
  WindowHolds
  WholeOrError
PROPERTIES
  Termination
