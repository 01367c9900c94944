-------------------------- MODULE PointerMultiFifo --------------------------
(***************************************************************************)
(* mulle-multififo, the lock-free variant: any number of threads read and  *)
(* write a ring of pointers.  One action per atomic access to the counters *)
(* read and write and to a storage slot.                                   *)
(*                                                                         *)
(* A slot is NULL (free), NOTYET (a thread is working on it) or a pointer. *)
(* A thread first swaps NOTYET into the slot its copy a_i of the counter   *)
(* names, then moves the counter from a_i to a_i + 1; if the counter has   *)
(* moved in between, it puts back what it found and starts over.           *)
(***************************************************************************)
EXTENDS Integers, Sequences

CONSTANTS
    Threads,
    Pointers,      \* the pointers that are written
    NULL, NOTYET,  \* the two words that cannot be written
    Size,          \* p->size
    UIntRange,     \* 2^32: (unsigned int) a_i drops the upper half
    MaxCalls       \* bound on the number of calls, hence on the counters

ASSUME MultiFifoAssumption ==
    /\ Size \in Nat /\ Size >= 2        \* assert( size >= 2) in init
    /\ UIntRange \in Nat /\ UIntRange > 0
    /\ MaxCalls \in Nat
    /\ NULL \notin Pointers /\ NOTYET \notin Pointers /\ NULL # NOTYET

VARIABLES
    read, write,   \* the shared counters
    storage,       \* the shared slots
    pc, arg, ai,   \* per thread: where it is, its pointer, its copy of a counter
    wret, rret,    \* per thread: what the last write and read returned
    calls,         \* number of calls made so far
    queue          \* auxiliary: the pointers written and not yet read, where a
                   \* write takes effect when it moves the counter, a read too

shared == <<read, write, storage>>
vars == <<read, write, storage, pc, arg, ai, wret, rret, calls, queue>>

Slots == 0 .. Size - 1
Words == Pointers \union {NULL, NOTYET}

(* i = (unsigned int) a_i % p->size *)
Slot(i) == (i % UIntRange) % Size

WriterAt == {"w_index", "w_reserve", "w_advance", "w_undo", "w_publish"}
ReaderAt == {"r_index", "r_load", "r_reserve", "r_advance", "r_undo", "r_clear"}

(* Types; no read returns the NOTYET of a slot in work. *)
TypeOK ==
    /\ read \in Nat /\ write \in Nat
    /\ storage \in [Slots -> Words]
    /\ pc \in [Threads -> {"idle"} \union WriterAt \union ReaderAt]
    /\ arg \in [Threads -> Words]
    /\ ai \in [Threads -> Nat]
    /\ wret \in [Threads -> {"none", "ok", "full", "invalid"}]
    /\ rret \in [Threads -> Pointers \union {NULL}]
    /\ calls \in 0 .. MaxCalls
    /\ queue \in Seq(Pointers)

-----------------------------------------------------------------------------
Init ==
    /\ read = 0 /\ write = 0
    /\ storage = [s \in Slots |-> NULL]
    /\ pc = [t \in Threads |-> "idle"]
    /\ arg = [t \in Threads |-> NULL]
    /\ ai = [t \in Threads |-> 0]
    /\ wret = [t \in Threads |-> "none"]
    /\ rret = [t \in Threads |-> NULL]
    /\ calls = 0
    /\ queue = <<>>

Goto(t, l) == pc' = [pc EXCEPT ![t] = l]

Call(t) ==
    /\ pc[t] = "idle"
    /\ calls < MaxCalls
    /\ calls' = calls + 1

(* __mulle_atomic_pointer_cas( &p->storage[ i], new, old) of thread t, when *)
(* it swaps.                                                                *)
Swap(t, old, new) ==
    /\ storage[Slot(ai[t])] = old
    /\ storage' = [storage EXCEPT ![Slot(ai[t])] = new]

-----------------------------------------------------------------------------
(* _mulle_pointermultififo_write *)

(* A call with a pointer that cannot be stored fails at once. *)
WriteCall(t, v) ==
    /\ Call(t)
    /\ arg' = [arg EXCEPT ![t] = v]
    /\ \/ /\ v \in {NULL, NOTYET}
          /\ wret' = [wret EXCEPT ![t] = "invalid"]
          /\ UNCHANGED pc
       \/ /\ v \notin {NULL, NOTYET}
          /\ Goto(t, "w_index")
          /\ UNCHANGED wret
    /\ UNCHANGED <<shared, ai, rret, queue>>

WriteIndex(t) ==
    /\ pc[t] = "w_index"
    /\ ai' = [ai EXCEPT ![t] = write]
    /\ Goto(t, "w_reserve")
    /\ UNCHANGED <<shared, arg, wret, rret, calls, queue>>

(* Mutant: a slot in work counts as free. *)
WriteReserveBusy(t) ==
    /\ pc[t] = "w_reserve"
    /\ \/ /\ storage[Slot(ai[t])] \in {NULL, NOTYET}
          /\ storage' = [storage EXCEPT ![Slot(ai[t])] = NOTYET]
          /\ Goto(t, "w_advance")
          /\ UNCHANGED wret
       \/ /\ storage[Slot(ai[t])] \in Pointers
          /\ Goto(t, "idle")
          /\ wret' = [wret EXCEPT ![t] = "full"]
          /\ UNCHANGED storage
    /\ UNCHANGED <<read, write, arg, ai, rret, calls, queue>>

(* Mutant: the counters, not the slot, tell whether there is room. *)
WriteReserveByCount(t) ==
    /\ pc[t] = "w_reserve"
    /\ \/ /\ write - read < Size
          /\ storage' = [storage EXCEPT ![Slot(ai[t])] = NOTYET]
          /\ Goto(t, "w_advance")
          /\ UNCHANGED wret
       \/ /\ write - read >= Size
          /\ Goto(t, "idle")
          /\ wret' = [wret EXCEPT ![t] = "full"]
          /\ UNCHANGED storage
    /\ UNCHANGED <<read, write, arg, ai, rret, calls, queue>>

(* Swap NOTYET into a free slot.  A slot in work is tried again, a slot    *)
(* with a pointer means EBUSY.                                             *)
WriteReserve(t) ==
    /\ pc[t] = "w_reserve"
    /\ \/ /\ Swap(t, NULL, NOTYET)
          /\ Goto(t, "w_advance")
          /\ UNCHANGED wret
       \/ /\ storage[Slot(ai[t])] = NOTYET
          /\ Goto(t, "w_index")
          /\ UNCHANGED <<storage, wret>>
       \/ /\ storage[Slot(ai[t])] \in Pointers
          /\ Goto(t, "idle")
          /\ wret' = [wret EXCEPT ![t] = "full"]
          /\ UNCHANGED storage
    /\ UNCHANGED <<read, write, arg, ai, rret, calls, queue>>

WriteAdvance(t) ==
    /\ pc[t] = "w_advance"
    /\ \/ /\ write = ai[t]
          /\ write' = ai[t] + 1
          /\ queue' = Append(queue, arg[t])
          /\ Goto(t, "w_publish")
       \/ /\ write # ai[t]
          /\ Goto(t, "w_undo")
          /\ UNCHANGED <<write, queue>>
    /\ UNCHANGED <<read, storage, arg, ai, wret, rret, calls>>

(* Mutant: the NOTYET stays when the counter has moved. *)
WriteUndoForgotten(t) ==
    /\ pc[t] = "w_undo"
    /\ Goto(t, "w_index")
    /\ UNCHANGED <<shared, arg, ai, wret, rret, calls, queue>>

WriteUndo(t) ==
    /\ pc[t] = "w_undo"
    /\ Swap(t, NOTYET, NULL)
    /\ Goto(t, "w_index")
    /\ UNCHANGED <<read, write, arg, ai, wret, rret, calls, queue>>

WritePublish(t) ==
    /\ pc[t] = "w_publish"
    /\ Swap(t, NOTYET, arg[t])
    /\ Goto(t, "idle")
    /\ wret' = [wret EXCEPT ![t] = "ok"]
    /\ UNCHANGED <<read, write, arg, ai, rret, calls, queue>>

-----------------------------------------------------------------------------
(* _mulle_pointermultififo_read_barrier; arg is the local variable pointer *)

ReadCall(t) ==
    /\ Call(t)
    /\ Goto(t, "r_index")
    /\ UNCHANGED <<shared, arg, ai, wret, rret, queue>>

ReadIndex(t) ==
    /\ pc[t] = "r_index"
    /\ ai' = [ai EXCEPT ![t] = read]
    /\ Goto(t, "r_load")
    /\ UNCHANGED <<shared, arg, wret, rret, calls, queue>>

ReadLoad(t) ==
    /\ pc[t] = "r_load"
    /\ arg' = [arg EXCEPT ![t] = storage[Slot(ai[t])]]
    /\ \/ /\ arg'[t] = NULL
          /\ Goto(t, "idle")
          /\ rret' = [rret EXCEPT ![t] = NULL]
       \/ /\ arg'[t] = NOTYET
          /\ Goto(t, "r_index")
          /\ UNCHANGED rret
       \/ /\ arg'[t] \in Pointers
          /\ Goto(t, "r_reserve")
          /\ UNCHANGED rret
    /\ UNCHANGED <<shared, ai, wret, calls, queue>>

ReadReserve(t) ==
    /\ pc[t] = "r_reserve"
    /\ \/ /\ Swap(t, arg[t], NOTYET)
          /\ Goto(t, "r_advance")
       \/ /\ storage[Slot(ai[t])] # arg[t]
          /\ Goto(t, "r_index")
          /\ UNCHANGED storage
    /\ UNCHANGED <<read, write, arg, ai, wret, rret, calls, queue>>

(* Mutant: a failed move of the counter is taken for a success. *)
ReadAdvanceUnchecked(t) ==
    /\ pc[t] = "r_advance"
    /\ \/ /\ read = ai[t]
          /\ read' = ai[t] + 1
          /\ queue' = Tail(queue)
       \/ /\ read # ai[t]
          /\ UNCHANGED <<read, queue>>
    /\ Goto(t, "r_clear")
    /\ UNCHANGED <<write, storage, arg, ai, wret, rret, calls>>

ReadAdvance(t) ==
    /\ pc[t] = "r_advance"
    /\ \/ /\ read = ai[t]
          /\ read' = ai[t] + 1
          /\ queue' = Tail(queue)
          /\ Goto(t, "r_clear")
       \/ /\ read # ai[t]
          /\ Goto(t, "r_undo")
          /\ UNCHANGED <<read, queue>>
    /\ UNCHANGED <<write, storage, arg, ai, wret, rret, calls>>

ReadUndo(t) ==
    /\ pc[t] = "r_undo"
    /\ Swap(t, NOTYET, arg[t])
    /\ Goto(t, "r_index")
    /\ UNCHANGED <<read, write, arg, ai, wret, rret, calls, queue>>

ReadClear(t) ==
    /\ pc[t] = "r_clear"
    /\ Swap(t, NOTYET, NULL)
    /\ Goto(t, "idle")
    /\ rret' = [rret EXCEPT ![t] = arg[t]]
    /\ UNCHANGED <<read, write, arg, ai, wret, calls, queue>>

Begin(t) == ReadCall(t) \/ \E v \in Words : WriteCall(t, v)

Step(t) ==
    \/ WriteIndex(t) \/ WriteReserve(t) \/ WriteAdvance(t)
    \/ WriteUndo(t) \/ WritePublish(t)
    \/ ReadIndex(t) \/ ReadLoad(t) \/ ReadReserve(t) \/ ReadAdvance(t)
    \/ ReadUndo(t) \/ ReadClear(t)

Next == \E t \in Threads : Begin(t) \/ Step(t)

Spec == Init /\ [][Next]_vars

(* Every thread that is inside a call is scheduled again; no thread has to *)
(* make a call.                                                            *)
FairSpec == Spec /\ \A t \in Threads : WF_vars(Step(t))

-----------------------------------------------------------------------------
(* Threads between their successful swap of NOTYET and the swap back. *)
Holds(t) == pc[t] \in {"w_advance", "w_undo", "w_publish",
                       "r_advance", "r_undo", "r_clear"}

(* The asserts of the two functions, "this can't fail... brave words...":  *)
(* whoever undoes, clears or publishes finds its NOTYET in the slot.  A    *)
(* NOTYET belongs to exactly one thread, and none is left behind.          *)
NotYetIsOwned ==
    /\ \A t \in Threads : Holds(t) => storage[Slot(ai[t])] = NOTYET
    /\ \A t, u \in Threads :
         Holds(t) /\ Holds(u) /\ Slot(ai[t]) = Slot(ai[u]) => t = u
    /\ \A s \in Slots :
         storage[s] = NOTYET => \E t \in Threads : Holds(t) /\ Slot(ai[t]) = s

(* Slot s belongs to an unread pointer, the pointer v; slot s belongs to   *)
(* none.                                                                   *)
InWindow(s, v) == \E i \in read .. write - 1 : s = Slot(i) /\ v = queue[i - read + 1]
Free(s) == \A i \in read .. write - 1 : s # Slot(i)

(* The unread pointers and the slots agree although counter and slot move  *)
(* in separate steps: pending pointers never share a slot, not even when   *)
(* the 32 bit index wraps; what a slot holds, or what its owner will put   *)
(* there, is the pointer that was written for it.                          *)
WindowOK ==
    /\ write = read + Len(queue)
    /\ \A i, j \in read .. write - 1 : Slot(i) = Slot(j) => i = j
    /\ \A s \in Slots :
         /\ storage[s] = NULL => Free(s)
         /\ storage[s] \in Pointers => InWindow(s, storage[s])
    /\ \A t \in Threads :
         /\ pc[t] \in {"w_publish", "r_advance", "r_undo"} => InWindow(Slot(ai[t]), arg[t])
         /\ pc[t] \in {"w_advance", "w_undo", "r_clear"} => Free(Slot(ai[t]))
         /\ pc[t] \in WriterAt \union {"r_reserve", "r_advance", "r_undo", "r_clear"}
              => arg[t] \in Pointers

(* Calls take effect atomically between their beginning and their end, as  *)
(* the operations of a bounded queue that may fail without need.           *)
Fifo == INSTANCE BoundedFifo WITH
            Readers <- Threads, Writers <- Threads, Spurious <- TRUE,
            wret <- [t \in Threads |-> IF pc[t] = "w_publish" THEN "ok" ELSE wret[t]],
            rret <- [t \in Threads |-> IF pc[t] = "r_clear" THEN arg[t] ELSE rret[t]]

FifoSpec == Fifo!Spec

(* No livelock: while threads keep being scheduled and no new calls come   *)
(* in, every call returns, however often they undo and retry.              *)
EveryCallReturns ==
    \A t \in Threads : pc[t] # "idle" ~> pc[t] = "idle"
=============================================================================
