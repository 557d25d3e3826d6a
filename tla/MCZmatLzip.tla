----------------------------- MODULE MCZmatLzip -----------------------------
(***************************************************************************)
(* ZmatLzip for TLC: lengths on both sides of the threshold for three       *)
(* threads, one (8) with a short last slice and one (1) below the threads.  *)
(***************************************************************************)
EXTENDS ZmatLzip
=============================================================================
