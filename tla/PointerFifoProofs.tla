------------------------- MODULE PointerFifoProofs -------------------------
(***************************************************************************)
(* For every ring size and every set of pointers: the single producer /    *)
(* single consumer fifo is type correct, never overwrites a slot in use    *)
(* and implements the atomic bounded queue.                                *)
(***************************************************************************)
EXTENDS PointerFifo, SequenceTheorems, TLAPS

(* An index that runs at most one lap ahead is folded back by one          *)
(* subtraction: all the modular arithmetic of the ring is of this kind.    *)
Fold(a) == IF a < Size THEN a ELSE a - Size

LEMMA Wrap ==
    ASSUME NEW a \in 0 .. 2 * Size - 1
    PROVE  Slot(a) = Fold(a) /\ Slot(a) \in Slots
  BY FifoAssumption DEF Slot, Slots, Fold

(* The inductive invariant: types and the consistency of the ring. *)
IInv == TypeOK /\ RingOK

(* First is a slot, and moving read forward does not move First until the  *)
(* counter is decremented.                                                 *)
LEMMA FirstSlot ==
    ASSUME TypeOK
    PROVE  First \in Slots
  BY FifoAssumption, Wrap, read + Size - 1 \in 0 .. 2 * Size - 1
     DEF TypeOK, First, Slots

(* init establishes the invariant. *)
LEMMA InitIInv == Init => IInv
  BY FifoAssumption, Wrap, 0 \in 0 .. 2 * Size - 1 DEF Fold, Init, IInv, TypeOK, RingOK, First, Uncounted, Slots, Words

(* Every step of the producer and of the consumer keeps the types and the  *)
(* consistency of the ring.                                                *)
LEMMA NextIInv == IInv /\ [Next]_vars => IInv'
<1> SUFFICES ASSUME IInv, [Next]_vars PROVE IInv'
  OBVIOUS
<1> USE FifoAssumption
<1>0. /\ TypeOK /\ RingOK
      /\ First \in Slots
      /\ Size \in Nat /\ Size >= 2
  BY FirstSlot DEF IInv
<1>1. ASSUME NEW v \in Words, WriteBegin(v) PROVE IInv'
  BY <1>0, <1>1 DEF IInv, TypeOK, RingOK, First, Uncounted, WriteBegin, shared, consumer, Words
<1>2. CASE WriteStore
  <2>1. write = Slot(First + n) /\ n \in 0 .. Size - 1
    BY <1>0, <1>2 DEF WriteStore, RingOK, TypeOK, Uncounted, Slots
  <2>2. /\ First + n \in 0 .. 2 * Size - 1
        /\ First + n + 1 \in 0 .. 2 * Size - 1
        /\ write + 1 \in 0 .. 2 * Size - 1
    BY <1>0, <2>1 DEF TypeOK, Slots
  <2>3. /\ Slot(First + n) = Fold(First + n)
        /\ Slot(First + n + 1) = Fold(First + n + 1)
        /\ Slot(write + 1) = Fold(write + 1) /\ Slot(write + 1) \in Slots
    BY <2>2, Wrap
  <2>4. Slot(write + 1) = Slot(First + n + 1)
    BY <1>0, <2>1, <2>3 DEF Fold, Slots
  <2>5. First' = First
    BY <1>2 DEF WriteStore, First, consumer
  <2>6. cpc = "decrement" => First # write
    BY <1>0, <2>1, <2>3 DEF RingOK, Fold, Slots
  <2>7. TypeOK'
    BY <1>0, <1>2, <2>3 DEF WriteStore, TypeOK, Words, consumer
  <2>8. RingOK'
    BY <1>0, <1>2, <2>1, <2>4, <2>5, <2>6
       DEF RingOK, WriteStore, TypeOK, Uncounted, consumer
  <2> QED BY <2>7, <2>8 DEF IInv
<1>3. CASE WriteIncrement
  <2>1. First' = First
    BY <1>3 DEF WriteIncrement, First, consumer
  <2>2. TypeOK'
    BY <1>0, <1>3 DEF WriteIncrement, TypeOK, RingOK, consumer
  <2>3. n' + Uncounted' = n + Uncounted /\ n \in Nat
    BY <1>0, <1>3 DEF WriteIncrement, Uncounted, TypeOK
  <2>4. First' + n' + Uncounted' = First + n + Uncounted
    BY <1>0, <1>3, <2>1, <2>3 DEF WriteIncrement, Uncounted, Slots
  <2> QED
    BY <1>0, <1>3, <2>1, <2>2, <2>4 DEF IInv, RingOK, WriteIncrement, TypeOK, consumer
<1>4. CASE ReadBegin
  <2>1. First' = First
    BY <1>4 DEF ReadBegin, First, shared
  <2> QED
    BY <1>0, <1>4, <2>1 DEF IInv, RingOK, ReadBegin, TypeOK, Uncounted, shared, producer, Words
<1>5. CASE ReadLoad
  <2>1. read \in Slots /\ read + 1 \in 0 .. 2 * Size - 1
    BY <1>0 DEF TypeOK, Slots
  <2>2. Slot(read + 1) = Fold(read + 1) /\ Slot(read + 1) \in Slots
    BY <2>1, Wrap
  <2>3. Slot(read + 1) + Size - 1 \in 0 .. 2 * Size - 1
    BY <1>0, <2>2 DEF Slots
  <2>4. Slot(Slot(read + 1) + Size - 1) = Fold(Slot(read + 1) + Size - 1)
    BY <2>3, Wrap
  <2>5. Fold(Fold(read + 1) + Size - 1) = read
    BY <1>0, <2>1 DEF Fold, Slots
  <2>6. First = read /\ First' = read
    BY <1>5, <2>2, <2>4, <2>5 DEF ReadLoad, First
  <2> QED
    BY <1>0, <1>5, <2>2, <2>6 DEF IInv, RingOK, ReadLoad, TypeOK, Uncounted, producer, Words
<1>6. CASE ReadDecrement
  <2>1. read \in Slots /\ read + Size - 1 \in 0 .. 2 * Size - 1
    BY <1>0 DEF TypeOK, Slots
  <2>2. Slot(read + Size - 1) = Fold(read + Size - 1)
    BY <2>1, Wrap
  <2>3. First' = read /\ First = Fold(read + Size - 1)
    BY <1>6, <2>2 DEF ReadDecrement, First
  <2>4. ASSUME NEW k \in 0 .. 1, n + k <= Size
        PROVE  Slot(read + (n - 1) + k) = Slot(First + n + k)
    <3>1. n \in 1 .. Size
      BY <1>0, <1>6 DEF ReadDecrement, TypeOK, RingOK
    <3>2. read + (n - 1) + k \in 0 .. 2 * Size - 1 /\ First + n + k \in 0 .. 2 * Size - 1
      BY <1>0, <2>1, <2>4, <3>1 DEF Slots
    <3>3. /\ Slot(read + (n - 1) + k) = Fold(read + (n - 1) + k)
          /\ Slot(First + n + k) = Fold(First + n + k)
      BY <3>2, Wrap
    <3>4. Fold(read + (n - 1) + k) = Fold(Fold(read + Size - 1) + n + k)
      BY <1>0, <2>1, <2>4, <3>1 DEF Fold, Slots
    <3> QED BY <2>3, <3>3, <3>4
  <2>5. Slot(read + (n - 1) + Uncounted) = Slot(First + n + Uncounted)
    BY <1>0, <2>4 DEF Uncounted, RingOK, TypeOK
  <2>6. n < Size => Slot(read + (n - 1) + 0) = Slot(First + n + 0)
    BY <1>0, <2>4 DEF TypeOK
  <2>7. n < Size => Slot(read + (n - 1)) = Slot(First + n)
    BY <1>0, <2>1, <2>6 DEF TypeOK, Slots
  <2>8. n' = n - 1 /\ Uncounted' = Uncounted
    BY <1>6 DEF ReadDecrement, Uncounted, producer
  <2>9. TypeOK'
    BY <1>0, <1>6 DEF ReadDecrement, TypeOK, RingOK, producer, Words
  <2> QED
    BY <1>0, <1>6, <2>3, <2>5, <2>7, <2>8, <2>9 DEF IInv, RingOK, ReadDecrement, TypeOK, producer
<1>7. CASE UNCHANGED vars
  BY <1>0, <1>7 DEF IInv, TypeOK, RingOK, First, Uncounted, vars
<1> QED
  BY <1>1, <1>2, <1>3, <1>4, <1>5, <1>6, <1>7 DEF Next, Producer, Consumer

(* In every behaviour of the fifo the ring is consistent. *)
THEOREM RingIsConsistent == Spec => [](TypeOK /\ RingOK)
<1>1. Init => IInv
  BY InitIInv
<1>2. IInv /\ [Next]_vars => IInv'
  BY NextIInv
<1> QED BY <1>1, <1>2, PTL DEF Spec, IInv

(* A pending store never hits a slot that holds an unread pointer, whatever *)
(* the consumer did since the producer tested the count.                    *)
THEOREM NeverOverwrites == Spec => []NoOverwrite
<1>1. IInv => NoOverwrite
  <2> SUFFICES ASSUME IInv, ppc = "store", NEW i \in 1 .. n
               PROVE  Slot(First + i - 1) # write
    BY DEF NoOverwrite
  <2>1. /\ First \in Slots /\ n \in 0 .. Size - 1 /\ Size \in Nat
        /\ write = Slot(First + n)
    BY FirstSlot, FifoAssumption DEF IInv, TypeOK, RingOK, Uncounted, Slots
  <2>2. First + i - 1 \in 0 .. 2 * Size - 1 /\ First + n \in 0 .. 2 * Size - 1
    BY <2>1 DEF Slots
  <2>3. Slot(First + i - 1) = Fold(First + i - 1) /\ Slot(First + n) = Fold(First + n)
    BY <2>2, Wrap
  <2>4. Fold(First + i - 1) # Fold(First + n)
    BY <2>1 DEF Fold, Slots
  <2> QED BY <2>1, <2>3, <2>4
<1>2. Spec => []IInv
  BY RingIsConsistent DEF IInv
<1> QED BY <1>1, <1>2, PTL

-----------------------------------------------------------------------------
(* The queue a state stands for, and how the visible steps change it. *)

QueueOK ==
    /\ Queue \in Seq(Words) /\ Len(Queue) = n
    /\ \A i \in 1 .. n : Queue[i] = storage[Slot(First + i - 1)]

LEMMA QueueIsSeq == IInv => QueueOK
<1> SUFFICES ASSUME IInv PROVE QueueOK
  OBVIOUS
<1>1. First \in Slots /\ n \in 0 .. Size /\ Size \in Nat /\ storage \in [Slots -> Words]
  BY FirstSlot, FifoAssumption DEF IInv, TypeOK
<1>2. \A i \in 1 .. n : Slot(First + i - 1) \in Slots
  <2> TAKE i \in 1 .. n
  <2>1. First + i - 1 \in 0 .. 2 * Size - 1
    BY <1>1 DEF Slots
  <2> QED BY <2>1, Wrap
<1> QED BY <1>1, <1>2 DEF Queue, QueueOK

(* Counting a stored pointer appends it to the queue. *)
LEMMA IncrementAppends ==
    ASSUME IInv, IInv', WriteIncrement
    PROVE  Queue' = Append(Queue, parg)
<1>1. First' = First /\ storage' = storage /\ n' = n + 1
  BY DEF WriteIncrement, First, consumer
<1>2. n \in Nat /\ First \in Nat /\ storage[Slot(First + n)] = parg
  BY FirstSlot DEF IInv, TypeOK, RingOK, WriteIncrement, Slots
<1>3. Queue' = [i \in 1 .. n + 1 |-> storage[Slot(First + i - 1)]]
  BY <1>1 DEF Queue
<1>4. Queue'[n + 1] = parg
  <2>1. First + (n + 1) - 1 = First + n
    BY <1>2
  <2> QED BY <1>2, <1>3, <2>1
<1>5. Len(Queue) = n /\ Queue \in Seq(Words)
  BY QueueIsSeq DEF QueueOK
<1>6. parg \in Words
  BY DEF IInv, TypeOK
<1>7. /\ Append(Queue, parg) \in Seq(Words) /\ Len(Append(Queue, parg)) = n + 1
      /\ Append(Queue, parg)[n + 1] = parg
      /\ \A i \in 1 .. n : Append(Queue, parg)[i] = Queue[i]
  BY <1>2, <1>5, <1>6
<1>8. QueueOK'
  BY QueueIsSeq, PTL
<1>9. Queue' \in Seq(Words) /\ Len(Queue') = n + 1
  BY <1>1, <1>8 DEF QueueOK
<1>10. \A i \in 1 .. n : Queue'[i] = Queue[i]
  <2>1. \A i \in 1 .. n + 1 : Queue'[i] = storage[Slot(First + i - 1)]
    BY <1>3
  <2>2. \A i \in 1 .. n : Queue[i] = storage[Slot(First + i - 1)]
    BY DEF Queue
  <2>3. \A i \in 1 .. n : i \in 1 .. n + 1
    BY <1>2
  <2> QED BY <2>1, <2>2, <2>3
<1>11. \A i \in 1 .. n + 1 : Queue'[i] = Append(Queue, parg)[i]
  BY <1>2, <1>4, <1>7, <1>10
<1> QED BY <1>5, <1>7, <1>9, <1>11, SeqEqual

(* Giving up the oldest slot removes the head of the queue, and the pointer *)
(* handed to the caller is that head.                                       *)
LEMMA DecrementTakesHead ==
    ASSUME IInv, IInv', ReadDecrement
    PROVE  Queue # <<>> /\ Queue' = Tail(Queue) /\ cptr = Head(Queue)
<1>1. /\ read \in Slots /\ n \in 1 .. Size /\ Size \in Nat
      /\ First \in Slots /\ cptr = storage[First] /\ Size >= 2
  BY FirstSlot, FifoAssumption DEF IInv, TypeOK, RingOK, ReadDecrement
<1>2. /\ First = Slot(read + Size - 1) /\ First' = read
      /\ storage' = storage /\ n' = n - 1
  BY DEF ReadDecrement, First
<1>3. read + Size - 1 \in 0 .. 2 * Size - 1
  BY <1>1 DEF Slots
<1>4. First = Fold(read + Size - 1)
  BY <1>2, <1>3, Wrap
<1>5. /\ Len(Queue) = n /\ Queue \in Seq(Words)
      /\ \A i \in 1 .. n : Queue[i] = storage[Slot(First + i - 1)]
      /\ Len(Queue') = n - 1 /\ Queue' \in Seq(Words)
      /\ \A i \in 1 .. n - 1 : Queue'[i] = storage[Slot(read + i - 1)]
  <2>1. QueueOK'
    BY QueueIsSeq, PTL
  <2> QED BY QueueIsSeq, <1>2, <2>1 DEF QueueOK
<1>6. ASSUME NEW i \in 1 .. n - 1
      PROVE  Slot(First + (i + 1) - 1) = Slot(read + i - 1)
  <2>1. First + (i + 1) - 1 \in 0 .. 2 * Size - 1 /\ read + i - 1 \in 0 .. 2 * Size - 1
    BY <1>1 DEF Slots
  <2>2. /\ Slot(First + (i + 1) - 1) = Fold(First + (i + 1) - 1)
        /\ Slot(read + i - 1) = Fold(read + i - 1)
    BY <2>1, Wrap
  <2>3. Fold(Fold(read + Size - 1) + (i + 1) - 1) = Fold(read + i - 1)
    BY <1>1 DEF Fold, Slots
  <2> QED BY <1>4, <2>2, <2>3
<1>7. Queue # <<>> /\ Head(Queue) = Queue[1]
  BY <1>1, <1>5
<1>8. Queue[1] = cptr
  <2>1. First + 1 - 1 = First /\ First \in 0 .. 2 * Size - 1 /\ Fold(First) = First
    BY <1>1 DEF Slots, Fold
  <2>2. Slot(First + 1 - 1) = First
    BY <2>1, Wrap
  <2> QED BY <1>1, <1>5, <2>2
<1>9. /\ Tail(Queue) \in Seq(Words) /\ Len(Tail(Queue)) = n - 1
      /\ \A i \in 1 .. n - 1 : Tail(Queue)[i] = Queue[i + 1]
  BY <1>1, <1>5, <1>7
<1>10. \A i \in 1 .. n - 1 : Tail(Queue)[i] = Queue'[i]
  <2> TAKE i \in 1 .. n - 1
  <2>1. i + 1 \in 1 .. n
    BY <1>1
  <2>2. Queue[i + 1] = storage[Slot(First + (i + 1) - 1)]
    BY <1>5, <2>1
  <2> QED BY <1>5, <1>6, <1>9, <2>2
<1>11. Tail(Queue) = Queue'
  BY <1>5, <1>9, <1>10, SeqEqual
<1> QED BY <1>7, <1>8, <1>11

(* The single producer / single consumer fifo implements the atomic bounded *)
(* queue: pointers come out once, in order, -1 means full, NULL means empty. *)
THEOREM ImplementsFifo == Spec => FifoSpec
<1>1. Init => Fifo!Init
  BY FifoAssumption DEF Init, Fifo!Init, Queue
<1>2. IInv /\ IInv' /\ [Next]_vars => [Fifo!Next]_Fifo!vars
  <2> SUFFICES ASSUME IInv, IInv', [Next]_vars PROVE [Fifo!Next]_Fifo!vars
    OBVIOUS
  <2>0. Len(Queue) = n /\ n \in 0 .. Size /\ Queue \in Seq(Words)
    BY QueueIsSeq DEF QueueOK, IInv, TypeOK
  <2>1. ASSUME NEW v \in Words, WriteBegin(v) PROVE [Fifo!Next]_Fifo!vars
    <3>1. Queue' = Queue /\ rret' = rret
      BY <2>1 DEF WriteBegin, Queue, First, shared, consumer
    <3>2. CASE wret' = "invalid"
      BY <3>1, <3>2 DEF Fifo!Next, Fifo!WriteInvalid
    <3>3. CASE n = Size /\ wret' = "full"
      BY <2>0, <3>1, <3>3 DEF Fifo!Next, Fifo!WriteFull
    <3>4. CASE wret' = wret
      BY <3>1, <3>4 DEF Fifo!vars
    <3> QED BY <2>1, <3>2, <3>3, <3>4 DEF WriteBegin
  <2>2. CASE WriteStore
    <3>1. ASSUME NEW i \in 1 .. n PROVE Slot(First + i - 1) # write
      <4>1. /\ First \in Slots /\ n \in 0 .. Size - 1 /\ Size \in Nat
            /\ write = Slot(First + n)
        BY <2>2, FirstSlot, FifoAssumption DEF IInv, TypeOK, RingOK, Uncounted, Slots, WriteStore
      <4>2. First + i - 1 \in 0 .. 2 * Size - 1 /\ First + n \in 0 .. 2 * Size - 1
        BY <4>1 DEF Slots
      <4>3. Slot(First + i - 1) = Fold(First + i - 1) /\ Slot(First + n) = Fold(First + n)
        BY <4>2, Wrap
      <4>4. Fold(First + i - 1) # Fold(First + n)
        BY <4>1 DEF Fold, Slots
      <4> QED BY <4>1, <4>3, <4>4
    <3>2. n' = n /\ First' = First
      BY <2>2 DEF WriteStore, First, consumer
    <3>3. \A i \in 1 .. n : storage'[Slot(First + i - 1)] = storage[Slot(First + i - 1)]
      BY <2>2, <3>1 DEF WriteStore, IInv, TypeOK
    <3>4. Queue' = Queue
      BY <3>2, <3>3 DEF Queue
    <3> QED BY <2>2, <3>4 DEF WriteStore, consumer, Fifo!vars
  <2>3. CASE WriteIncrement
    <3>1. Queue' = Append(Queue, parg)
      BY <2>3, IncrementAppends
    <3>2. n < Size /\ parg \in Pointers
      BY <2>3 DEF WriteIncrement, IInv, TypeOK, RingOK, Words
    <3>3. Fifo!Write("producer", parg)
      BY <2>0, <2>3, <3>1, <3>2 DEF WriteIncrement, consumer, Fifo!Write
    <3> QED BY <3>2, <3>3 DEF Fifo!Next
  <2>4. CASE ReadBegin
    <3>1. Queue' = Queue /\ wret' = wret
      BY <2>4 DEF ReadBegin, Queue, First, shared, producer
    <3>2. CASE n = 0 /\ rret' = NULL
      BY <2>0, <3>1, <3>2 DEF Fifo!Next, Fifo!ReadEmpty
    <3>3. CASE rret' = rret
      BY <3>1, <3>3 DEF Fifo!vars
    <3> QED BY <2>4, <3>2, <3>3 DEF ReadBegin
  <2>5. CASE ReadLoad
    <3>1. read \in Slots /\ read + 1 \in 0 .. 2 * Size - 1 /\ Size \in Nat /\ Size >= 2
      BY FifoAssumption DEF IInv, TypeOK, Slots
    <3>2. Slot(read + 1) = Fold(read + 1) /\ Slot(read + 1) \in Slots
      BY <3>1, Wrap
    <3>3. Slot(read + 1) + Size - 1 \in 0 .. 2 * Size - 1
      BY <3>1, <3>2 DEF Slots
    <3>4. Slot(Slot(read + 1) + Size - 1) = Fold(Slot(read + 1) + Size - 1)
      BY <3>3, Wrap
    <3>5. Fold(Fold(read + 1) + Size - 1) = read
      BY <3>1 DEF Fold, Slots
    <3>6. First' = First
      BY <2>5, <3>2, <3>4, <3>5 DEF ReadLoad, First
    <3> QED BY <2>5, <3>6 DEF ReadLoad, Queue, producer, Fifo!vars
  <2>6. CASE ReadDecrement
    <3>1. Queue # <<>> /\ Queue' = Tail(Queue) /\ cptr = Head(Queue)
      BY <2>6, DecrementTakesHead
    <3> QED BY <2>6, <3>1 DEF ReadDecrement, producer, Fifo!Next, Fifo!Read
  <2>7. CASE UNCHANGED vars
    BY <2>7 DEF vars, Queue, First, Fifo!vars
  <2> QED
    BY <2>1, <2>2, <2>3, <2>4, <2>5, <2>6, <2>7 DEF Next, Producer, Consumer
<1>3. Spec => []IInv
  BY RingIsConsistent DEF IInv
<1> QED BY <1>1, <1>2, <1>3, PTL DEF Spec, FifoSpec, Fifo!Spec

=============================================================================
