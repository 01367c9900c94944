----------------------- MODULE MCConcurrentLinkedList -----------------------
(* ConcurrentLinkedList for TLC. *)
EXTENDS ConcurrentLinkedList
=============================================================================
