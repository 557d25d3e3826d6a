---------------------------- MODULE MCZmatIndexed ----------------------------
(***************************************************************************)
(* ZmatIndexed for TLC: blocks of three units, versions on both sides of a  *)
(* block boundary and of the threshold, and two compressions before a       *)
(* decompression, so that an index may belong to another version.           *)
(***************************************************************************)
EXTENDS ZmatIndexed

\* A short block compresses to less than a full one, and no block to nothing.
MCSegLen == <<1, 2, 2>>

\* single stream, no request, one thread
MCReqThreads == {-1, 0, 1}
=============================================================================
