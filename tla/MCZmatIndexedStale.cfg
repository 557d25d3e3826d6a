SPECIFICATION Spec
CONSTANTS
  BlockSize = 3
  SegLen <- MCSegLen
  Sizes = {6, 9}
  MaxAlloc = 20
  ReqThreads <- MCReqThreads
  MaxCalls = 3
  Accidents = FALSE
INVARIANT
  StaleIndexIsHarmless
