SPECIFICATION Spec
CONSTANTS
  MaxThreads = 3
  Sizes = {1, 3, 8}
  MinBlock = 2
  Widths = {}
  Faults = 2
INVARIANTS
  WholeOrError
  BuffersApart
  QuietAtEnd
  TurnNeverWaits
PROPERTIES
  Termination
