SPECIFICATION Spec
CONSTANTS
  Codecs <- MCCodecs
  Sizes = {3, 15, 31, 33, 63}
  PackedSizes = {1, 2}
  Bound = 2
  MinOut = 2
  MaxAlloc = 8
  MaxRounds = 2
  SizeMod = 128
  UIntMod = 32
  Lz4Max = 14
  ErrorCodes = 2
INVARIANT
  InputIsWhole
