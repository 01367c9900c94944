------------------------- MODULE MCLockingMultiFifo -------------------------
(* LockingMultiFifo for TLC. *)
EXTENDS LockingMultiFifo
=============================================================================
