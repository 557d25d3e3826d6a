------------------------------ MODULE MCZmatRun ------------------------------
(***************************************************************************)
(* ZmatRun alone for TLC: codecs of each shape and one method that is none,  *)
(* documents on both sides of the width of the codecs' counts.               *)
(***************************************************************************)
EXTENDS ZmatRun

MCCodecs ==
  {"zlib", "gzip", "base64", "lzma", "lzip", "xz", "lz4", "zstd", "blosc2", "none"}
=============================================================================
