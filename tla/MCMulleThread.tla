--------------------------- MODULE MCMulleThread ----------------------------
(* MulleThread for TLC. *)
EXTENDS MulleThread
=============================================================================
