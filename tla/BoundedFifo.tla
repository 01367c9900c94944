---------------------------- MODULE BoundedFifo ----------------------------
(***************************************************************************)
(* What every pointer fifo of mulle-core promises its users, seen as one   *)
(* atomic step per call: a queue of at most Size pointers, written by      *)
(* Writers and read by Readers, in the order of the writes.                *)
(*                                                                         *)
(* A constant distinguishes the two strengths of the promise.  The single  *)
(* producer fifo and the locking fifo report "full" and "empty" exactly;   *)
(* the lock-free multififo may fail spuriously under contention.           *)
(***************************************************************************)
EXTENDS Naturals, Sequences

CONSTANTS
    Readers, Writers,   \* the threads that call read and write
    Pointers,           \* the non-NULL pointers that can be written
    NULL,               \* what read returns when there is nothing to read
    Size,               \* number of slots
    Spurious            \* TRUE: a call may fail although it need not

VARIABLES
    queue,   \* the pointers written and not yet read
    wret,    \* wret[t]: what the last write call of t returned
    rret     \* rret[t]: what the last read call of t returned

vars == <<queue, wret, rret>>

Init ==
    /\ queue = <<>>
    /\ wret = [t \in Writers |-> "none"]
    /\ rret = [t \in Readers |-> NULL]

Write(t, v) ==
    /\ Len(queue) < Size
    /\ queue' = Append(queue, v)
    /\ wret' = [wret EXCEPT ![t] = "ok"]
    /\ UNCHANGED rret

WriteFull(t) ==
    /\ Spurious \/ Len(queue) = Size
    /\ wret' = [wret EXCEPT ![t] = "full"]
    /\ UNCHANGED <<queue, rret>>

WriteInvalid(t) ==
    /\ wret' = [wret EXCEPT ![t] = "invalid"]
    /\ UNCHANGED <<queue, rret>>

Read(t) ==
    /\ queue # <<>>
    /\ rret' = [rret EXCEPT ![t] = Head(queue)]
    /\ queue' = Tail(queue)
    /\ UNCHANGED wret

ReadEmpty(t) ==
    /\ Spurious \/ queue = <<>>
    /\ rret' = [rret EXCEPT ![t] = NULL]
    /\ UNCHANGED <<queue, wret>>

Next ==
    \/ \E t \in Writers : \/ \E v \in Pointers : Write(t, v)
                          \/ WriteFull(t)
                          \/ WriteInvalid(t)
    \/ \E t \in Readers : Read(t) \/ ReadEmpty(t)

Spec == Init /\ [][Next]_vars
=============================================================================
