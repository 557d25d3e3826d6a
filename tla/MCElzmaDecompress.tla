-------------------------- MODULE MCElzmaDecompress --------------------------
(***************************************************************************)
(* ElzmaDecompress for TLC: data of up to more than two input buffers, with *)
(* the footer at every offset in them, and content of up to three output    *)
(* buffers.                                                                 *)
(***************************************************************************)
EXTENDS ElzmaDecompress
=============================================================================
