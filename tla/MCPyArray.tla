----------------------------- MODULE MCPyArray -----------------------------
(***************************************************************************)
(* PyArray for TLC: arrays of none to three elements of one to three bytes,  *)
(* levels that fit a char and levels that do not, and every kind of index    *)
(* with every function of the extension.                                    *)
(***************************************************************************)
EXTENDS PyArray

MCMethods == {"zlib", "lz4", "base64", "blosc2zstd"}

MCArrays ==
  {[typesize |-> ts, content |-> [i \in 1 .. ts * n |-> i], order |-> o] :
     ts \in 1 .. 3, n \in 0 .. 3, o \in {"C", "F"}}

MCLevels == {1, 9, 0, -9, 256, -300}

MCRawCalls ==
  [fn : {"zmat", "compress", "decompress", "encode", "decode"},
   data : {Raw(<<>>), Raw(<<1, 2>>), PackedBy("zlib", <<1, 2>>)},
   method : {"zlib", "base64", "none"}, level : {1, 0, -9}, nthread : {0, 8, 200},
   offsets : {"none"}, pair : {FALSE}]
  \cup
  [fn : {"zmat"}, data : {Raw(<<1, 2>>), PackedBy("zlib", <<1, 2>>)}, method : {"zlib"},
   level : {1, 0}, nthread : {0, 200},
   offsets : {"none", "short", "no sequence", "no number", "good"}, pair : BOOLEAN]
=============================================================================
