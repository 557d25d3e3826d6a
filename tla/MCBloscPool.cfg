SPECIFICATION Spec
CONSTANTS
  MaxThreads = 3
  Sizes = {1, 10}
  BlockSize = 4
  Results <- MCResults
  Header = 2
  MinBuffer = 2
  Calls = 2
INVARIANTS
  JobSeparated
  OutputTiles
  AnswerAsSerial
  PoolFits
PROPERTIES
  Returns
