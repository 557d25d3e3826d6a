SPECIFICATION SerialSpec
CONSTANTS
  Codecs <- MCCodecs
  GzipInputs <- MCGzipInputs
  XzInputs <- MCXzInputs
  Base64Inputs <- MCBase64Inputs
  Documents <- MCDocuments
  Modes <- MCModes
  Sizes = {0, 1, 8, 9, 10, 21}
  PackedSizes = {1, 10, 13, 21}
  Bound = 52
  MinOut = 4
  MaxAlloc = 9
  MaxRounds = 2
  SizeMod = 64
  UIntMod = 20
  Lz4Max = 8
  ErrorCodes = 8
  OutBuf = 4
  LineLen = 8
INVARIANTS
  AllOrNothing
  DecodesTheWhole
  LimitsAreTheCap
  StaysInside
  RoundTrip
PROPERTIES
  ImplementsRun
  Termination
