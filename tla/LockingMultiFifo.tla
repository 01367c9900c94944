-------------------------- MODULE LockingMultiFifo --------------------------
(***************************************************************************)
(* mulle-multififo, the variant with a mutex: a ring of pointers with an   *)
(* element count n and two unsigned int counters that are reduced modulo   *)
(* the size only when a slot is addressed.  The counters wrap at 2^32.     *)
(*                                                                         *)
(* mulle_thread_mutex_do is a loop that runs once, locks before and        *)
(* unlocks after its body; a break leaves an inner loop, so that every way *)
(* out of the body passes the unlock.                                      *)
(***************************************************************************)
EXTENDS Integers, Sequences

CONSTANTS
    Threads,
    Pointers,       \* the pointers that are written
    NULL, Future,   \* NULL, and the all-ones pointer, which is refused
    Size,           \* p->size
    UIntRange,      \* 2^32, where n, read and write wrap
    MaxCalls        \* bound on the number of calls

ASSUME LockingAssumption ==
    /\ Size \in Nat /\ Size >= 2        \* assert( size >= 2) in init
    /\ UIntRange \in Nat /\ UIntRange > Size
    /\ MaxCalls \in Nat
    /\ NULL \notin Pointers /\ Future \notin Pointers /\ NULL # Future
    /\ NULL \notin Threads

VARIABLES
    lock,            \* p->lock: the thread that has it, or NULL
    n, read, write,  \* the counters
    storage,         \* the slots
    pc, arg,         \* per thread: where it is, its pointer
    wret, rret,      \* per thread: what the last write and read returned
    counted,         \* per thread: what the last get_count returned
    calls,           \* number of calls made so far
    queue            \* auxiliary: the pointers written and not yet read

fifo == <<n, read, write, storage>>
results == <<wret, rret, counted>>
vars == <<lock, n, read, write, storage, pc, arg, wret, rret, counted, calls, queue>>

Slots == 0 .. Size - 1
Words == Pointers \union {NULL}

Slot(i) == i % Size
UInt(i) == i % UIntRange

Locked == {"w_test", "w_count", "w_unlock", "r_test", "r_count", "r_unlock", "c_read"}

(* Types; the count stays within the size. *)
TypeOK ==
    /\ lock \in Threads \union {NULL}
    /\ n \in 0 .. Size
    /\ read \in 0 .. UIntRange - 1 /\ write \in 0 .. UIntRange - 1
    /\ storage \in [Slots -> Words]
    /\ pc \in [Threads -> {"idle", "w_lock", "r_lock", "c_lock"} \union Locked]
    /\ arg \in [Threads -> Words]
    /\ wret \in [Threads -> {"none", "ok", "full", "invalid"}]
    /\ rret \in [Threads -> Words]
    /\ counted \in [Threads -> 0 .. Size]
    /\ calls \in 0 .. MaxCalls
    /\ queue \in Seq(Pointers)

-----------------------------------------------------------------------------
Init ==
    /\ lock = NULL
    /\ n = 0 /\ read = 0 /\ write = 0
    /\ storage = [s \in Slots |-> NULL]
    /\ pc = [t \in Threads |-> "idle"]
    /\ arg = [t \in Threads |-> NULL]
    /\ wret = [t \in Threads |-> "none"]
    /\ rret = [t \in Threads |-> NULL]
    /\ counted = [t \in Threads |-> 0]
    /\ calls = 0
    /\ queue = <<>>

Goto(t, l) == pc' = [pc EXCEPT ![t] = l]

Call(t) ==
    /\ pc[t] = "idle"
    /\ calls < MaxCalls
    /\ calls' = calls + 1

(* mulle_thread_mutex_lock and mulle_thread_mutex_unlock *)
Lock(t, from, to) ==
    /\ pc[t] = from
    /\ lock = NULL
    /\ lock' = t
    /\ Goto(t, to)
    /\ UNCHANGED <<fifo, arg, results, calls, queue>>

Unlock(t, from) ==
    /\ pc[t] = from
    /\ lock' = NULL
    /\ Goto(t, "idle")

-----------------------------------------------------------------------------
(* _write: the test for the all-ones pointer comes before the lock *)
WriteCall(t, v) ==
    /\ Call(t)
    /\ \/ /\ v = Future
          /\ wret' = [wret EXCEPT ![t] = "invalid"]
          /\ UNCHANGED <<pc, arg>>
       \/ /\ v # Future
          /\ arg' = [arg EXCEPT ![t] = v]
          /\ Goto(t, "w_lock")
          /\ UNCHANGED wret
    /\ UNCHANGED <<lock, fifo, rret, counted, queue>>

(* Mutant: the test for a full fifo is missing. *)
WriteTestMissing(t) ==
    /\ pc[t] = "w_test"
    /\ storage' = [storage EXCEPT ![Slot(write)] = arg[t]]
    /\ Goto(t, "w_count")
    /\ UNCHANGED <<lock, n, read, write, arg, results, calls, queue>>

(* EBUSY, or storage[ write % size] = pointer *)
WriteTest(t) ==
    /\ pc[t] = "w_test"
    /\ \/ /\ n = Size
          /\ wret' = [wret EXCEPT ![t] = "full"]
          /\ Goto(t, "w_unlock")
          /\ UNCHANGED storage
       \/ /\ n # Size
          /\ storage' = [storage EXCEPT ![Slot(write)] = arg[t]]
          /\ Goto(t, "w_count")
          /\ UNCHANGED wret
    /\ UNCHANGED <<lock, n, read, write, arg, rret, counted, calls, queue>>

(* Mutant: write is not advanced. *)
WriteCountOnly(t) ==
    /\ pc[t] = "w_count"
    /\ n' = UInt(n + 1)
    /\ wret' = [wret EXCEPT ![t] = "ok"]
    /\ queue' = Append(queue, arg[t])
    /\ Goto(t, "w_unlock")
    /\ UNCHANGED <<lock, read, write, storage, arg, rret, counted, calls>>

(* ++p->n; ++p->write *)
WriteCount(t) ==
    /\ pc[t] = "w_count"
    /\ n' = UInt(n + 1)
    /\ write' = UInt(write + 1)
    /\ wret' = [wret EXCEPT ![t] = "ok"]
    /\ queue' = Append(queue, arg[t])
    /\ Goto(t, "w_unlock")
    /\ UNCHANGED <<lock, read, storage, arg, rret, counted, calls>>

WriteUnlock(t) ==
    /\ Unlock(t, "w_unlock")
    /\ UNCHANGED <<fifo, arg, results, calls, queue>>

-----------------------------------------------------------------------------
(* _read_barrier *)
ReadCall(t) ==
    /\ Call(t)
    /\ Goto(t, "r_lock")
    /\ UNCHANGED <<lock, fifo, arg, results, queue>>

(* NULL, or pointer = storage[ read % size] *)
ReadTest(t) ==
    /\ pc[t] = "r_test"
    /\ \/ /\ n = 0
          /\ rret' = [rret EXCEPT ![t] = NULL]
          /\ Goto(t, "r_unlock")
          /\ UNCHANGED arg
       \/ /\ n # 0
          /\ arg' = [arg EXCEPT ![t] = storage[Slot(read)]]
          /\ Goto(t, "r_count")
          /\ UNCHANGED rret
    /\ UNCHANGED <<lock, fifo, wret, counted, calls, queue>>

(* --p->n; ++p->read *)
ReadCount(t) ==
    /\ pc[t] = "r_count"
    /\ n' = UInt(n - 1)
    /\ read' = UInt(read + 1)
    /\ rret' = [rret EXCEPT ![t] = arg[t]]
    /\ queue' = Tail(queue)
    /\ Goto(t, "r_unlock")
    /\ UNCHANGED <<lock, write, storage, arg, wret, counted, calls>>

(* Mutant: the break on an empty fifo skips the unlock. *)
ReadUnlockSkipped(t) ==
    /\ pc[t] = "r_unlock"
    /\ lock' = IF rret[t] = NULL THEN lock ELSE NULL
    /\ Goto(t, "idle")
    /\ UNCHANGED <<fifo, arg, results, calls, queue>>

ReadUnlock(t) ==
    /\ Unlock(t, "r_unlock")
    /\ UNCHANGED <<fifo, arg, results, calls, queue>>

-----------------------------------------------------------------------------
(* _get_count *)
CountCall(t) ==
    /\ Call(t)
    /\ Goto(t, "c_lock")
    /\ UNCHANGED <<lock, fifo, arg, results, queue>>

CountUnlock(t) ==
    /\ Unlock(t, "c_read")
    /\ counted' = [counted EXCEPT ![t] = n]
    /\ UNCHANGED <<fifo, arg, wret, rret, calls, queue>>

Begin(t) ==
    ReadCall(t) \/ CountCall(t) \/ \E v \in Pointers \union {Future} : WriteCall(t, v)

Step(t) ==
    \/ Lock(t, "w_lock", "w_test") \/ WriteTest(t) \/ WriteCount(t) \/ WriteUnlock(t)
    \/ Lock(t, "r_lock", "r_test") \/ ReadTest(t) \/ ReadCount(t) \/ ReadUnlock(t)
    \/ Lock(t, "c_lock", "c_read") \/ CountUnlock(t)

Next == \E t \in Threads : Begin(t) \/ Step(t)

Spec == Init /\ [][Next]_vars

(* A thread inside a call is scheduled again when it can take a step. *)
FairSpec == Spec /\ \A t \in Threads : WF_vars(Step(t))

-----------------------------------------------------------------------------
(* What a thread with the lock relies on: the types hold, only it is       *)
(* inside, and between two calls count, counters, slots and the unread     *)
(* pointers agree.                                                         *)
FifoConsistent ==
    /\ TypeOK
    /\ \A t \in Threads : pc[t] \in Locked <=> lock = t
    /\ n = Len(queue)
    /\ write = UInt(read + n)
    /\ \A k \in 1 .. n : storage[Slot(UInt(read + k - 1))] = queue[k]

(* Calls are the operations of an exact bounded queue: nothing is lost,    *)
(* duplicated or reordered, EBUSY means full, NULL means empty.            *)
Fifo == INSTANCE BoundedFifo WITH
            Readers <- Threads, Writers <- Threads, Spurious <- FALSE

FifoSpec == Fifo!Spec

(* Every call gets the mutex and returns, whatever way out of the body the *)
(* calls before it took.                                                   *)
EveryCallReturns ==
    \A t \in Threads : pc[t] # "idle" ~> pc[t] = "idle"
=============================================================================
