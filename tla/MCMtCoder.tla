----------------------------- MODULE MCMtCoder -----------------------------
(***************************************************************************)
(* MtCoder for TLC: up to three threads, documents of one block, of two and *)
(* three, whole and cut, up to two failures.                                *)
(***************************************************************************)
EXTENDS MtCoder
=============================================================================
