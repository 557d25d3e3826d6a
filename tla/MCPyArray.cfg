SPECIFICATION ASpec
CONSTANTS
  Methods <- MCMethods
  Blocked = {"zlib"}
  Lax = {"base64", "lz4"}
  Blosc = {"blosc2zstd"}
  Arrays <- MCArrays
  Levels <- MCLevels
  RawCalls <- MCRawCalls
INVARIANTS
  NothingKept
  ErrorOrResult
  ArrayComesBack
