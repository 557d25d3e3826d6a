----------------------------- MODULE MCBloscPool -----------------------------
(***************************************************************************)
(* BloscPool for TLC: two calls of one process with up to three threads,    *)
(* on documents of one block and of three, the last of them short.          *)
(***************************************************************************)
EXTENDS BloscPool

\* They fit, do not fit for their sum, fail, or do one after the other.
MCResults == {<<1>>, <<-1>>, <<1, 1, 4>>, <<4, 1, 4>>, <<1, -1, 0>>, <<4, 4, -1>>}
=============================================================================
