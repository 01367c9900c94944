---------------------------- MODULE PointerFifo ----------------------------
(***************************************************************************)
(* mulle-fifo: the single producer / single consumer ring of pointers.     *)
(* mulle_pointerfifo takes its size at init time, the generated            *)
(* mulle__pointerfifo4 ... mulle__pointerfifo8192 are the same code with a *)
(* fixed size.                                                             *)
(*                                                                         *)
(* One action per access to shared memory: the atomic counter n and a      *)
(* storage slot.  write is only touched by the producer and read only by   *)
(* the consumer, so they move in the step of the neighbouring access.      *)
(***************************************************************************)
EXTENDS Integers

CONSTANTS
    Size,       \* p->size
    Pointers,   \* the pointers the producer writes
    NULL

ASSUME FifoAssumption ==
    /\ Size \in Nat /\ Size >= 2     \* assert( size >= 2) in init
    /\ NULL \notin Pointers

VARIABLES
    n,          \* number of readable slots, the only synchronisation
    write,      \* index of the next slot to fill
    read,       \* index of the next slot to read
    storage,    \* the slots
    ppc, parg,  \* producer: where it is in _write, and its argument
    wret,       \* what the producer's last call returned
    cpc, cptr,  \* consumer: where it is in _read, and its local pointer
    rret        \* what the consumer's last call returned

shared == <<n, write, read, storage>>
producer == <<ppc, parg, wret>>
consumer == <<cpc, cptr, rret>>
vars == <<n, write, read, storage, ppc, parg, wret, cpc, cptr, rret>>

Slots == 0 .. Size - 1
Words == Pointers \union {NULL}

(* Indices run around the ring. *)
Slot(i) == i % Size

(* Types; the count stays within the size although two threads move it. *)
TypeOK ==
    /\ n \in 0 .. Size
    /\ write \in Slots /\ read \in Slots
    /\ storage \in [Slots -> Words]
    /\ ppc \in {"idle", "store", "increment"} /\ parg \in Words
    /\ wret \in {"none", "ok", "full", "invalid"}
    /\ cpc \in {"idle", "load", "decrement"} /\ cptr \in Words
    /\ rret \in Words

-----------------------------------------------------------------------------
(* init: the storage comes from malloc, so a slot holds anything. *)
Init ==
    /\ n = 0 /\ write = 0 /\ read = 0
    /\ storage \in [Slots -> Words]
    /\ ppc = "idle" /\ parg = NULL /\ wret = "none"
    /\ cpc = "idle" /\ cptr = NULL /\ rret = NULL

(* Mutant: the full test is off by one. *)
WriteBeginOffByOne(v) ==
    /\ ppc = "idle"
    /\ parg' = v
    /\ \/ v = NULL /\ wret' = "invalid" /\ UNCHANGED ppc
       \/ v # NULL /\ n > Size /\ wret' = "full" /\ UNCHANGED ppc
       \/ v # NULL /\ n <= Size /\ ppc' = "store" /\ UNCHANGED wret
    /\ UNCHANGED <<shared, consumer>>

(* _write, up to the test of the count: NULL is refused, a full fifo too. *)
WriteBegin(v) ==
    /\ ppc = "idle"
    /\ parg' = v
    /\ \/ v = NULL /\ wret' = "invalid" /\ UNCHANGED ppc
       \/ v # NULL /\ n = Size /\ wret' = "full" /\ UNCHANGED ppc
       \/ v # NULL /\ n # Size /\ ppc' = "store" /\ UNCHANGED wret
    /\ UNCHANGED <<shared, consumer>>

(* Mutant: the index is advanced before the slot is filled. *)
WriteStoreLate ==
    /\ ppc = "store"
    /\ write' = Slot(write + 1)
    /\ storage' = [storage EXCEPT ![write'] = parg]
    /\ ppc' = "increment"
    /\ UNCHANGED <<n, read, parg, wret, consumer>>

(* storage[ write] = pointer; write = (write + 1) % size *)
WriteStore ==
    /\ ppc = "store"
    /\ storage' = [storage EXCEPT ![write] = parg]
    /\ write' = Slot(write + 1)
    /\ ppc' = "increment"
    /\ UNCHANGED <<n, read, parg, wret, consumer>>

(* _mulle_atomic_pointer_increment( &n); return( 0) *)
WriteIncrement ==
    /\ ppc = "increment"
    /\ n' = n + 1
    /\ ppc' = "idle" /\ wret' = "ok"
    /\ UNCHANGED <<write, read, storage, parg, consumer>>

(* Mutant: the empty test is missing. *)
ReadBeginUntested ==
    /\ cpc = "idle"
    /\ cpc' = "load"
    /\ UNCHANGED <<shared, producer, cptr, rret>>

(* _read, up to the test of the count. *)
ReadBegin ==
    /\ cpc = "idle"
    /\ \/ n = 0 /\ rret' = NULL /\ UNCHANGED cpc
       \/ n # 0 /\ cpc' = "load" /\ UNCHANGED rret
    /\ UNCHANGED <<shared, producer, cptr>>

(* pointer = storage[ read]; read = (read + 1) % size *)
ReadLoad ==
    /\ cpc = "load"
    /\ cptr' = storage[read]
    /\ read' = Slot(read + 1)
    /\ cpc' = "decrement"
    /\ UNCHANGED <<n, write, storage, rret, producer>>

(* _mulle_atomic_pointer_decrement( &n); return( pointer) *)
ReadDecrement ==
    /\ cpc = "decrement"
    /\ n' = n - 1
    /\ cpc' = "idle" /\ rret' = cptr
    /\ UNCHANGED <<write, read, storage, cptr, producer>>

Producer == (\E v \in Words : WriteBegin(v)) \/ WriteStore \/ WriteIncrement
Consumer == ReadBegin \/ ReadLoad \/ ReadDecrement
Next == Producer \/ Consumer

Spec == Init /\ [][Next]_vars

-----------------------------------------------------------------------------
(* The slot that holds the oldest unread pointer: a consumer that has      *)
(* loaded its pointer has moved read already, but not yet given up the slot. *)
First == IF cpc = "decrement" THEN Slot(read + Size - 1) ELSE read

(* The contents of the fifo, oldest first. *)
Queue == [i \in 1 .. n |-> storage[Slot(First + i - 1)]]

(* Slots the producer has filled and not yet counted. *)
Uncounted == IF ppc = "increment" THEN 1 ELSE 0

(* The ring is consistent: write is always n slots after the oldest unread *)
(* pointer (one more between the producer's store and its increment), a    *)
(* producer in the middle of a call still has its free slot, a consumer in *)
(* the middle of a call still has its pointer.                             *)
RingOK ==
    /\ write = Slot(First + n + Uncounted)
    /\ ppc # "idle" => n < Size /\ parg # NULL
    /\ ppc = "increment" => storage[Slot(First + n)] = parg
    /\ cpc # "idle" => n > 0
    /\ cpc = "decrement" => cptr = storage[First]

(* The producer never overwrites a slot the consumer may still read: while *)
(* a store is pending, the slot at write is not one of the n unread ones.  *)
(* The count was tested before, the consumer may have run since.           *)
NoOverwrite ==
    ppc = "store" => \A i \in 1 .. n : Slot(First + i - 1) # write

(* Reads and writes together are the atomic bounded queue: nothing is lost, *)
(* duplicated or reordered, -1 means full, NULL means empty.               *)
Fifo == INSTANCE BoundedFifo WITH
            Readers <- {"consumer"}, Writers <- {"producer"},
            Spurious <- FALSE, queue <- Queue,
            wret <- [t \in {"producer"} |-> wret],
            rret <- [t \in {"consumer"} |-> rret]

FifoSpec == Fifo!Spec
=============================================================================
