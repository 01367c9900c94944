--------------------------- MODULE MCPointerFifo ---------------------------
(* PointerFifo on a ring of three slots and three pointers. *)
EXTENDS PointerFifo
=============================================================================
