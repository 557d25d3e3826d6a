----------------------------- MODULE MCLzFindMt -----------------------------
(***************************************************************************)
(* LzFindMt on a window of a few dozen positions: the document is long      *)
(* enough for the window to be moved while blocks wait in both rings.       *)
(***************************************************************************)
EXTENDS LzFindMt
=============================================================================
