----------------------------- MODULE MCZmatPool -----------------------------
(***************************************************************************)
(* ZmatPool for TLC: three threads and four blocks, so that a thread takes  *)
(* a second block while the others hold theirs.                             *)
(***************************************************************************)
EXTENDS ZmatPool
=============================================================================
