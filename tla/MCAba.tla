------------------------------- MODULE MCAba --------------------------------
(* Aba for TLC, with the two entries per storage and the one storage per   *)
(* world of the DEBUG build.                                               *)
EXTENDS Aba, TLC

Symmetry == Permutations(Threads) \union Permutations(Pointers)
=============================================================================
