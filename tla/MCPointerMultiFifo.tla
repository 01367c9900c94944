------------------------- MODULE MCPointerMultiFifo -------------------------
(* PointerMultiFifo for TLC: a new fifo, and one that has been used until  *)
(* its counters are about to pass the range of the index.                  *)
EXTENDS PointerMultiFifo

Used ==
    /\ read = UIntRange - 1 /\ write = read
    /\ storage = [s \in Slots |-> NULL]
    /\ pc = [t \in Threads |-> "idle"]
    /\ arg = [t \in Threads |-> NULL]
    /\ ai = [t \in Threads |-> 0]
    /\ wret = [t \in Threads |-> "none"]
    /\ rret = [t \in Threads |-> NULL]
    /\ calls = 0
    /\ queue = <<>>

MCSpec == (Init \/ Used) /\ [][Next]_vars /\ \A t \in Threads : WF_vars(Step(t))
=============================================================================
