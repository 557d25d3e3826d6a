SPECIFICATION Spec
CONSTANTS
  BlockSize = 3
  SegLen <- MCSegLen
  Sizes = {3, 5, 6, 8}
  MaxAlloc = 6
  ReqThreads <- MCReqThreads
  MaxCalls = 3
  Accidents = TRUE
INVARIANTS
  NothingLeaks
  OwnIndexDecodes
  SerialIsTried
