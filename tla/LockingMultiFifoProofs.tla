----------------------- MODULE LockingMultiFifoProofs -----------------------
(***************************************************************************)
(* The multififo with the mutex, for any threads, size and integer range:  *)
(* where the size divides the range of an unsigned int, the ring agrees    *)
(* with the unread pointers across every wrap of its counters, and it      *)
(* implements the exact bounded queue.                                     *)
(***************************************************************************)
EXTENDS LockingMultiFifo, SequenceTheorems, TLAPS

(* A size whose slots continue where the counters wrap, such as every      *)
(* power of two.  Nothing in the code asks for it, and the run             *)
(* lockingfifo_wrap shows what happens to any other size.                  *)
SizeDivides == \E d \in Nat : UIntRange = Size * d

-----------------------------------------------------------------------------
(* Lemmas about the counters *)

(* The values an addition of two counters takes. *)
LEMMA UIntValue ==
    ASSUME NEW i \in Nat, i < 2 * UIntRange
    PROVE  UInt(i) = IF i < UIntRange THEN i ELSE i - UIntRange
<1> USE LockingAssumption DEF UInt
<1>1. CASE i < UIntRange
  BY <1>1
<1>2. CASE i >= UIntRange
  <2> DEFINE j == i - UIntRange
  <2>1. j \in 0 .. UIntRange - 1 /\ i = UIntRange + j
    BY <1>2
  <2> HIDE DEF j
  <2>2. (UIntRange + j) % UIntRange = j
    BY <2>1
  <2> QED BY <1>2, <2>1, <2>2
<1> QED BY <1>1, <1>2

(* A counter stays within the range of an unsigned int. *)
LEMMA UIntType == ASSUME NEW i \in Int PROVE UInt(i) \in 0 .. UIntRange - 1
  BY LockingAssumption DEF UInt

(* A counter addresses a slot. *)
LEMMA SlotType == ASSUME NEW i \in Int PROVE Slot(i) \in Slots
  BY LockingAssumption DEF Slot, Slots

(* Two counters address one slot only if they are a multiple of the size   *)
(* apart.                                                                  *)
LEMMA SameSlot ==
    ASSUME NEW i \in Int, NEW j \in Int, Slot(i) = Slot(j)
    PROVE  \E m \in Int : i - j = Size * m
<1> USE LockingAssumption
<1> DEFINE a == i \div Size
           b == j \div Size
<1>1. i = Size * a + (i % Size) /\ j = Size * b + (j % Size) /\ a \in Int /\ b \in Int
  OBVIOUS
<1>2. i % Size = j % Size /\ i % Size \in Int
  BY DEF Slot
<1> HIDE DEF a, b
<1>3. i - j = Size * (a - b) /\ a - b \in Int
  BY <1>1, <1>2
<1> QED BY <1>3

(* No multiple of the size but zero is nearer to zero than the size. *)
LEMMA NearMultiple ==
    ASSUME NEW m \in Int, - Size < Size * m, Size * m < Size
    PROVE  m = 0
<1> USE LockingAssumption
<1>1. CASE m >= 1
  <2>1. Size * m = Size + Size * (m - 1)
    OBVIOUS
  <2>2. Size * (m - 1) >= 0
    BY <1>1
  <2> QED BY <2>1, <2>2
<1>2. CASE m <= -1
  <2>1. Size * m = Size * (m + 1) - Size
    OBVIOUS
  <2>2. Size * (m + 1) <= 0
    BY <1>2
  <2> QED BY <2>1, <2>2
<1> QED BY <1>1, <1>2

(* The slots of up to Size consecutive counters differ, whether or not the *)
(* counter wraps between them.                                             *)
LEMMA SlotsApart ==
    ASSUME SizeDivides, NEW r \in 0 .. UIntRange - 1,
           NEW i \in 0 .. Size - 1, NEW j \in 0 .. Size - 1,
           Slot(UInt(r + i)) = Slot(UInt(r + j))
    PROVE  i = j
<1> USE LockingAssumption
<1>1. PICK d \in Nat : UIntRange = Size * d
  BY DEF SizeDivides
<1>2. \E e \in {-1, 0, 1} : UInt(r + i) - UInt(r + j) = (i - j) + e * UIntRange
  BY UIntValue
<1>3. PICK e \in {-1, 0, 1} : UInt(r + i) - UInt(r + j) = (i - j) + e * UIntRange
  BY <1>2
<1>4. UInt(r + i) \in Int /\ UInt(r + j) \in Int
  BY UIntValue
<1>5. PICK m \in Int : UInt(r + i) - UInt(r + j) = Size * m
  BY <1>4, SameSlot
<1>6. i - j = Size * (m - e * d)
  <2>1. i - j = Size * m - e * (Size * d)
    BY <1>1, <1>3, <1>5
  <2>2. Size * m - e * (Size * d) = Size * (m - e * d)
    OBVIOUS
  <2> QED BY <2>1, <2>2
<1>7. m - e * d \in Int
  OBVIOUS
<1>8. m - e * d = 0
  BY <1>6, <1>7, NearMultiple
<1> QED BY <1>6, <1>8

-----------------------------------------------------------------------------
(* What a thread in a call has found out under the lock and relies on. *)
CallAt(t) ==
    /\ pc[t] \in {"w_lock", "w_test", "w_count"} => arg[t] \in Pointers
    /\ pc[t] = "w_count" => n # Size /\ storage[Slot(write)] = arg[t]
    /\ pc[t] = "r_count" => n # 0 /\ queue # <<>> /\ arg[t] = Head(queue)

(* The inductive invariant. *)
IInv == FifoConsistent /\ \A t \in Threads : CallAt(t)

LEMMA InitIInv == Init => IInv
<1> SUFFICES ASSUME Init PROVE IInv
  OBVIOUS
<1> USE LockingAssumption DEF Init
<1>1. UInt(0) = 0
  BY UIntValue
<1>2. TypeOK
  BY DEF TypeOK, Words
<1>3. FifoConsistent
  BY <1>1, <1>2 DEF FifoConsistent, Locked
<1> QED BY <1>3 DEF IInv, CallAt

(* Every action keeps the types. *)
LEMMA NextTypeOK == IInv /\ [Next]_vars => TypeOK'
<1> SUFFICES ASSUME IInv, [Next]_vars PROVE TypeOK'
  OBVIOUS
<1> USE LockingAssumption DEF Goto, Locked, Words, fifo, results
<1>0. TypeOK /\ \A t \in Threads : CallAt(t)
  BY DEF IInv, FifoConsistent
<1>1. ASSUME NEW t \in Threads, NEW v \in Pointers \union {Future}, WriteCall(t, v)
      PROVE  TypeOK'
  <2>1. calls' \in 0 .. MaxCalls
    BY <1>0, <1>1 DEF WriteCall, Call, TypeOK
  <2>2. /\ arg' \in [Threads -> Words]
        /\ wret' \in [Threads -> {"none", "ok", "full", "invalid"}]
    <3>1. CASE v = Future
      BY <1>0, <1>1, <3>1 DEF WriteCall, TypeOK
    <3>2. CASE v # Future
      BY <1>0, <1>1, <3>2 DEF WriteCall, TypeOK
    <3> QED BY <3>1, <3>2
  <2>3. pc' \in [Threads -> {"idle", "w_lock", "r_lock", "c_lock"} \union Locked]
    BY <1>0, <1>1 DEF WriteCall, TypeOK
  <2> QED BY <1>0, <1>1, <2>1, <2>2, <2>3 DEF WriteCall, TypeOK
<1>2. ASSUME NEW t \in Threads, ReadCall(t) \/ CountCall(t) PROVE TypeOK'
  <2>1. calls' \in 0 .. MaxCalls
    BY <1>0, <1>2 DEF ReadCall, CountCall, Call, TypeOK
  <2> QED BY <1>0, <1>2, <2>1 DEF ReadCall, CountCall, TypeOK
<1>3. ASSUME NEW t \in Threads, NEW from, NEW to \in Locked, Lock(t, from, to) PROVE TypeOK'
  BY <1>0, <1>3 DEF Lock, TypeOK
<1>4. ASSUME NEW t \in Threads, WriteTest(t) PROVE TypeOK'
  BY <1>0, <1>4, SlotType DEF WriteTest, TypeOK
<1>5. ASSUME NEW t \in Threads, WriteCount(t) PROVE TypeOK'
  <2>1. n' = n + 1 /\ n < Size
    BY <1>0, <1>5, UIntValue DEF WriteCount, CallAt, TypeOK
  <2>2. write' \in 0 .. UIntRange - 1
    BY <1>0, <1>5, UIntType DEF WriteCount, TypeOK
  <2>3. queue' \in Seq(Pointers)
    <3>1. Append(queue, arg[t]) \in Seq(Pointers)
      BY <1>0, <1>5 DEF WriteCount, CallAt, TypeOK
    <3> QED BY <1>5, <3>1 DEF WriteCount
  <2> QED BY <1>0, <1>5, <2>1, <2>2, <2>3 DEF WriteCount, TypeOK
<1>6. ASSUME NEW t \in Threads, WriteUnlock(t) \/ ReadUnlock(t) PROVE TypeOK'
  BY <1>0, <1>6 DEF WriteUnlock, ReadUnlock, Unlock, TypeOK
<1>7. ASSUME NEW t \in Threads, ReadTest(t) PROVE TypeOK'
  <2>1. storage[Slot(read)] \in Words
    BY <1>0, SlotType DEF TypeOK
  <2> QED BY <1>0, <1>7, <2>1 DEF ReadTest, TypeOK
<1>8. ASSUME NEW t \in Threads, ReadCount(t) PROVE TypeOK'
  <2>1. n' = n - 1 /\ n > 0
    BY <1>0, <1>8, UIntValue DEF ReadCount, CallAt, TypeOK
  <2>2. read' \in 0 .. UIntRange - 1
    BY <1>0, <1>8, UIntType DEF ReadCount, TypeOK
  <2>3. queue' \in Seq(Pointers)
    <3>1. queue # <<>>
      BY <1>0, <1>8 DEF ReadCount, CallAt
    <3>2. Tail(queue) \in Seq(Pointers)
      BY <1>0, <3>1 DEF TypeOK
    <3> QED BY <1>8, <3>2 DEF ReadCount
  <2> QED BY <1>0, <1>8, <2>1, <2>2, <2>3 DEF ReadCount, TypeOK
<1>9. ASSUME NEW t \in Threads, CountUnlock(t) PROVE TypeOK'
  BY <1>0, <1>9 DEF CountUnlock, Unlock, TypeOK
<1>10. CASE UNCHANGED vars
  BY <1>0, <1>10 DEF TypeOK, vars
<1> QED
  BY <1>1, <1>2, <1>3, <1>4, <1>5, <1>6, <1>7, <1>8, <1>9, <1>10 DEF Next, Begin, Step

(* A step that leaves the ring alone: the call, the lock, the unlock and   *)
(* the tests that find the fifo full or empty.                             *)
LEMMA RingFrame ==
    ASSUME IInv, TypeOK', NEW t \in Threads, UNCHANGED <<fifo, queue>>,
           pc'[t] \in Locked <=> lock' = t, CallAt(t)',
           \A u \in Threads \ {t} :
              /\ pc'[u] = pc[u] /\ arg'[u] = arg[u]
              /\ lock = u <=> lock' = u
    PROVE  IInv'
<1>1. \A u \in Threads : pc'[u] \in Locked <=> lock' = u
  BY DEF IInv, FifoConsistent
<1>2. FifoConsistent'
  BY <1>1 DEF IInv, FifoConsistent, fifo
<1>3. ASSUME NEW u \in Threads PROVE CallAt(u)'
  BY DEF IInv, CallAt, fifo
<1> QED BY <1>2, <1>3 DEF IInv

(* Every step keeps the inductive invariant. *)
LEMMA NextIInv == ASSUME SizeDivides PROVE IInv /\ [Next]_vars => IInv'
<1> SUFFICES ASSUME IInv, [Next]_vars PROVE IInv'
  OBVIOUS
<1> USE LockingAssumption
<1>0. TypeOK /\ TypeOK' /\ FifoConsistent
  BY NextTypeOK DEF IInv, FifoConsistent
<1>0a. ASSUME NEW t \in Threads PROVE CallAt(t)
  BY DEF IInv
<1>0b. ASSUME NEW t \in Threads PROVE pc[t] \in Locked <=> lock = t
  BY <1>0 DEF FifoConsistent
<1>1. ASSUME NEW t \in Threads, NEW v \in Pointers \union {Future}, WriteCall(t, v)
      PROVE  IInv'
  <2>1. CallAt(t)'
    BY <1>0, <1>1 DEF WriteCall, Call, Goto, CallAt, TypeOK
  <2>2. pc'[t] \in Locked <=> lock' = t
    BY <1>0, <1>0b, <1>1 DEF WriteCall, Call, Goto, Locked, TypeOK
  <2> QED BY <1>0, <1>1, <2>1, <2>2, RingFrame DEF WriteCall, Goto, TypeOK
<1>2. ASSUME NEW t \in Threads, ReadCall(t) \/ CountCall(t) PROVE IInv'
  <2>1. CallAt(t)' /\ (pc'[t] \in Locked <=> lock' = t)
    BY <1>0, <1>0b, <1>2 DEF ReadCall, CountCall, Call, Goto, CallAt, Locked, TypeOK
  <2> QED BY <1>0, <1>2, <2>1, RingFrame DEF ReadCall, CountCall, Goto, TypeOK
<1>3. ASSUME NEW t \in Threads,
             \/ Lock(t, "w_lock", "w_test") \/ Lock(t, "r_lock", "r_test")
             \/ Lock(t, "c_lock", "c_read")
      PROVE  IInv'
  <2>1. CallAt(t)' /\ (pc'[t] \in Locked <=> lock' = t)
    BY <1>0, <1>0a, <1>3 DEF Lock, Goto, CallAt, Locked, TypeOK
  <2> QED BY <1>0, <1>3, <2>1, RingFrame DEF Lock, Goto, TypeOK
<1>4. ASSUME NEW t \in Threads, WriteTest(t) PROVE IInv'
  <2>1. lock = t /\ arg[t] \in Pointers
    BY <1>0a, <1>0b, <1>4 DEF WriteTest, Locked, CallAt
  <2>2. CASE n = Size
    <3>1. CallAt(t)' /\ (pc'[t] \in Locked <=> lock' = t)
      BY <1>0, <1>4, <2>1, <2>2 DEF WriteTest, Goto, CallAt, Locked, TypeOK
    <3> QED BY <1>0, <1>4, <2>2, <3>1, RingFrame DEF WriteTest, Goto, TypeOK, fifo
  <2>3. CASE n # Size
    <3>1. /\ storage' = [storage EXCEPT ![Slot(write)] = arg[t]]
          /\ pc' = [pc EXCEPT ![t] = "w_count"]
          /\ UNCHANGED <<lock, n, read, write, arg, queue>>
      BY <1>4, <2>3 DEF WriteTest, Goto
    <3>2. ASSUME NEW k \in 1 .. n PROVE storage'[Slot(UInt(read + k - 1))] = queue[k]
      <4>1. Slot(UInt(read + k - 1)) # Slot(write)
        <5>1. k - 1 \in 0 .. Size - 1 /\ n \in 0 .. Size - 1 /\ k - 1 # n
          BY <1>0, <2>3 DEF TypeOK
        <5>2. read + k - 1 = read + (k - 1) /\ write = UInt(read + n)
          BY <1>0, <5>1 DEF FifoConsistent, TypeOK
        <5> QED BY <1>0, <5>1, <5>2, SlotsApart DEF TypeOK
      <4>2. UInt(read + k - 1) \in Int
        BY <1>0, UIntValue DEF TypeOK
      <4>3. Slot(UInt(read + k - 1)) \in Slots
        BY <4>2, SlotType
      <4> QED BY <1>0, <3>1, <4>1, <4>3 DEF FifoConsistent, TypeOK
    <3>3. \A u \in Threads : pc'[u] \in Locked <=> lock' = u
      BY <1>0, <1>0b, <2>1, <3>1 DEF TypeOK, Locked
    <3>4. FifoConsistent'
      BY <1>0, <3>1, <3>2, <3>3 DEF FifoConsistent
    <3>5. ASSUME NEW u \in Threads PROVE CallAt(u)'
      <4>1. Slot(write) \in Slots
        BY <1>0, SlotType DEF TypeOK
      <4>2. CASE u = t
        BY <1>0, <2>1, <2>3, <3>1, <4>1, <4>2 DEF CallAt, TypeOK
      <4>3. CASE u # t
        <5>1. pc'[u] = pc[u] /\ pc[u] \notin Locked
          BY <1>0, <1>0b, <2>1, <3>1, <4>3 DEF TypeOK
        <5> QED BY <1>0a, <3>1, <5>1 DEF CallAt, Locked
      <4> QED BY <4>2, <4>3
    <3> QED BY <3>4, <3>5 DEF IInv
  <2> QED BY <2>2, <2>3
<1>5. ASSUME NEW t \in Threads, WriteCount(t) PROVE IInv'
  <2>1. lock = t /\ arg[t] \in Pointers /\ n < Size /\ storage[Slot(write)] = arg[t]
    BY <1>0, <1>0a, <1>0b, <1>5 DEF WriteCount, Locked, CallAt, TypeOK
  <2>2. n' = n + 1 /\ write' = UInt(read + n + 1)
    <3>1. n' = n + 1
      BY <1>0, <1>5, <2>1, UIntValue DEF WriteCount, TypeOK
    <3>2. write' = UInt(UInt(read + n) + 1)
      BY <1>0, <1>5 DEF WriteCount, FifoConsistent
    <3>3. UInt(UInt(read + n) + 1) = UInt(read + n + 1)
      BY <1>0, <2>1, UIntValue DEF TypeOK
    <3> QED BY <3>1, <3>2, <3>3
  <2>3. /\ queue' = Append(queue, arg[t]) /\ Len(queue') = n + 1
        /\ \A k \in 1 .. n : queue'[k] = queue[k]
        /\ queue'[n + 1] = arg[t]
    BY <1>0, <1>5, <2>1 DEF WriteCount, FifoConsistent, TypeOK
  <2>4. pc' = [pc EXCEPT ![t] = "w_unlock"] /\ UNCHANGED <<lock, read, storage, arg>>
    BY <1>5 DEF WriteCount, Goto
  <2>5. ASSUME NEW k \in 1 .. n + 1 PROVE storage[Slot(UInt(read + k - 1))] = queue'[k]
    <3>1. CASE k = n + 1
      <4>1. read + k - 1 = read + n
        BY <1>0, <3>1 DEF TypeOK
      <4> QED BY <1>0, <2>1, <2>3, <3>1, <4>1 DEF FifoConsistent
    <3>2. CASE k \in 1 .. n
      BY <1>0, <2>3, <3>2 DEF FifoConsistent
    <3> QED BY <1>0, <3>1, <3>2 DEF TypeOK
  <2>6. \A u \in Threads : pc'[u] \in Locked <=> lock' = u
    BY <1>0, <1>0b, <2>1, <2>4 DEF TypeOK, Locked
  <2>7. FifoConsistent'
    <3>1. n' = Len(queue') /\ write' = UInt(read' + n')
      BY <1>0, <2>2, <2>3, <2>4 DEF TypeOK
    <3>2. \A k \in 1 .. n' : storage'[Slot(UInt(read' + k - 1))] = queue'[k]
      BY <2>2, <2>4, <2>5
    <3> QED BY <1>0, <2>6, <3>1, <3>2 DEF FifoConsistent
  <2>8. ASSUME NEW u \in Threads PROVE CallAt(u)'
    <3>1. pc'[u] \notin {"w_test", "w_count", "r_count"} /\ (pc'[u] = "w_lock" => pc[u] = "w_lock")
      BY <1>0, <1>0b, <2>1, <2>4 DEF TypeOK, Locked
    <3> QED BY <1>0a, <2>4, <3>1 DEF CallAt
  <2> QED BY <2>7, <2>8 DEF IInv
<1>6. ASSUME NEW t \in Threads, WriteUnlock(t) \/ ReadUnlock(t) \/ CountUnlock(t) PROVE IInv'
  <2>1. pc[t] \in Locked /\ lock = t
    BY <1>0b, <1>6 DEF WriteUnlock, ReadUnlock, CountUnlock, Unlock, Locked
  <2>2. CallAt(t)' /\ (pc'[t] \in Locked <=> lock' = t)
    BY <1>0, <1>6 DEF WriteUnlock, ReadUnlock, CountUnlock, Unlock, Goto, CallAt, Locked, TypeOK
  <2> QED
    BY <1>0, <1>6, <2>1, <2>2, RingFrame
       DEF WriteUnlock, ReadUnlock, CountUnlock, Unlock, Goto, TypeOK
<1>7. ASSUME NEW t \in Threads, ReadTest(t) PROVE IInv'
  <2>1. lock = t
    BY <1>0b, <1>7 DEF ReadTest, Locked
  <2>2. pc'[t] \in Locked <=> lock' = t
    BY <1>0, <1>7, <2>1 DEF ReadTest, Goto, Locked, TypeOK
  <2>3. CallAt(t)'
    <3>1. CASE n = 0
      BY <1>0, <1>7, <3>1 DEF ReadTest, Goto, CallAt, TypeOK
    <3>2. CASE n # 0
      <4>1. UInt(read + 1 - 1) = read
        BY <1>0, UIntValue DEF TypeOK
      <4>2. queue # <<>> /\ storage[Slot(read)] = Head(queue)
        <5>1. 1 \in 1 .. n /\ n = Len(queue)
          BY <1>0, <3>2 DEF FifoConsistent, TypeOK
        <5>2. queue # <<>> /\ Head(queue) = queue[1]
          BY <1>0, <5>1 DEF TypeOK
        <5>3. storage[Slot(UInt(read + 1 - 1))] = queue[1]
          BY <1>0, <5>1 DEF FifoConsistent
        <5> QED BY <4>1, <5>2, <5>3
      <4> QED BY <1>0, <1>7, <3>2, <4>2 DEF ReadTest, Goto, CallAt, TypeOK, fifo
    <3> QED BY <3>1, <3>2
  <2> QED BY <1>0, <1>7, <2>1, <2>2, <2>3, RingFrame DEF ReadTest, Goto, TypeOK
<1>8. ASSUME NEW t \in Threads, ReadCount(t) PROVE IInv'
  <2>1. lock = t /\ n > 0 /\ queue # <<>>
    BY <1>0, <1>0a, <1>0b, <1>8 DEF ReadCount, Locked, CallAt, TypeOK
  <2>2. n' = n - 1 /\ read' = UInt(read + 1)
    BY <1>0, <1>8, <2>1, UIntValue DEF ReadCount, TypeOK
  <2>3. /\ queue' = Tail(queue) /\ Len(queue') = n - 1
        /\ \A k \in 1 .. n - 1 : queue'[k] = queue[k + 1]
    BY <1>0, <1>8, <2>1 DEF ReadCount, FifoConsistent, TypeOK
  <2>4. pc' = [pc EXCEPT ![t] = "r_unlock"] /\ UNCHANGED <<lock, write, storage, arg>>
    BY <1>8 DEF ReadCount, Goto
  <2>5. write' = UInt(read' + n')
    <3>1. UInt(UInt(read + 1) + (n - 1)) = UInt(read + n)
      BY <1>0, <2>1, UIntValue DEF TypeOK
    <3> QED BY <1>0, <2>2, <2>4, <3>1 DEF FifoConsistent
  <2>6. ASSUME NEW k \in 1 .. n - 1 PROVE storage[Slot(UInt(read' + k - 1))] = queue'[k]
    <3>1. UInt(UInt(read + 1) + k - 1) = UInt(read + (k + 1) - 1)
      BY <1>0, <2>1, UIntValue DEF TypeOK
    <3>2. k + 1 \in 1 .. n
      BY <1>0, <2>1 DEF TypeOK
    <3> QED BY <1>0, <2>2, <2>3, <3>1, <3>2 DEF FifoConsistent
  <2>7. \A u \in Threads : pc'[u] \in Locked <=> lock' = u
    BY <1>0, <1>0b, <2>1, <2>4 DEF TypeOK, Locked
  <2>8. FifoConsistent'
    BY <1>0, <2>2, <2>3, <2>4, <2>5, <2>6, <2>7 DEF FifoConsistent
  <2>9. ASSUME NEW u \in Threads PROVE CallAt(u)'
    <3>1. pc'[u] \notin {"w_test", "w_count", "r_count"} /\ (pc'[u] = "w_lock" => pc[u] = "w_lock")
      BY <1>0, <1>0b, <2>1, <2>4 DEF TypeOK, Locked
    <3> QED BY <1>0a, <2>4, <3>1 DEF CallAt
  <2> QED BY <2>8, <2>9 DEF IInv
<1>9. CASE UNCHANGED vars
  BY <1>0, <1>0a, <1>9 DEF vars, IInv, FifoConsistent, CallAt
<1> QED
  BY <1>1, <1>2, <1>3, <1>4, <1>5, <1>6, <1>7, <1>8, <1>9 DEF Next, Begin, Step

(* Under the mutex, with a size that divides the range of the counters:    *)
(* one thread is inside, and count, counters, slots and the unread         *)
(* pointers agree however often the counters have wrapped.                 *)
THEOREM Consistency == ASSUME SizeDivides PROVE Spec => []FifoConsistent
<1>1. IInv => FifoConsistent
  BY DEF IInv
<1>2. IInv /\ [Next]_vars => IInv'
  BY NextIInv
<1> QED BY <1>1, <1>2, InitIInv, PTL DEF Spec

(* With such a size the multififo with the mutex implements the exact      *)
(* bounded queue: every call takes effect in one step, EBUSY means full    *)
(* and NULL means empty.                                                   *)
THEOREM Refinement == ASSUME SizeDivides PROVE Spec => FifoSpec
<1> USE LockingAssumption
<1>1. Init => Fifo!Init
  BY DEF Init, Fifo!Init
<1>2. IInv /\ [Next]_vars => [Fifo!Next]_Fifo!vars
  <2> SUFFICES ASSUME IInv, [Next]_vars PROVE [Fifo!Next]_Fifo!vars
    OBVIOUS
  <2>0. FifoConsistent /\ TypeOK
    BY DEF IInv, FifoConsistent
  <2>0a. ASSUME NEW t \in Threads PROVE CallAt(t)
    BY DEF IInv
  <2>1. ASSUME NEW t \in Threads, NEW v, WriteCall(t, v) PROVE [Fifo!Next]_Fifo!vars
    <3>1. CASE UNCHANGED wret
      BY <2>1, <3>1 DEF WriteCall, Fifo!vars
    <3>2. CASE ~UNCHANGED wret
      <4>1. Fifo!WriteInvalid(t)
        BY <2>1, <3>2 DEF WriteCall, Fifo!WriteInvalid
      <4> QED BY <4>1 DEF Fifo!Next
    <3> QED BY <3>1, <3>2
  <2>2. ASSUME NEW t \in Threads,
               \/ ReadCall(t) \/ CountCall(t) \/ Lock(t, "w_lock", "w_test")
               \/ Lock(t, "r_lock", "r_test") \/ Lock(t, "c_lock", "c_read")
               \/ WriteUnlock(t) \/ ReadUnlock(t) \/ CountUnlock(t)
        PROVE  UNCHANGED Fifo!vars
    BY <2>2 DEF ReadCall, CountCall, Lock, WriteUnlock, ReadUnlock, CountUnlock, results, Fifo!vars
  <2>3. ASSUME NEW t \in Threads, WriteTest(t) PROVE [Fifo!Next]_Fifo!vars
    <3>1. CASE n = Size
      <4>1. Fifo!WriteFull(t)
        BY <2>0, <2>3, <3>1 DEF WriteTest, Fifo!WriteFull, FifoConsistent
      <4> QED BY <4>1 DEF Fifo!Next
    <3>2. CASE n # Size
      BY <2>3, <3>2 DEF WriteTest, Fifo!vars
    <3> QED BY <3>1, <3>2
  <2>4. ASSUME NEW t \in Threads, WriteCount(t) PROVE [Fifo!Next]_Fifo!vars
    <3>1. arg[t] \in Pointers /\ Len(queue) < Size
      BY <2>0, <2>0a, <2>4 DEF WriteCount, CallAt, FifoConsistent, TypeOK
    <3>2. Fifo!Write(t, arg[t])
      BY <2>4, <3>1 DEF WriteCount, Fifo!Write
    <3> QED BY <3>1, <3>2 DEF Fifo!Next
  <2>5. ASSUME NEW t \in Threads, ReadTest(t) PROVE [Fifo!Next]_Fifo!vars
    <3>1. CASE n = 0
      <4>1. queue = <<>>
        BY <2>0, <3>1, EmptySeq DEF FifoConsistent, TypeOK
      <4>2. Fifo!ReadEmpty(t)
        BY <2>5, <3>1, <4>1 DEF ReadTest, Fifo!ReadEmpty
      <4> QED BY <4>2 DEF Fifo!Next
    <3>2. CASE n # 0
      BY <2>5, <3>2 DEF ReadTest, Fifo!vars
    <3> QED BY <3>1, <3>2
  <2>6. ASSUME NEW t \in Threads, ReadCount(t) PROVE [Fifo!Next]_Fifo!vars
    <3>1. queue # <<>> /\ arg[t] = Head(queue)
      BY <2>0a, <2>6 DEF ReadCount, CallAt
    <3>2. Fifo!Read(t)
      BY <2>6, <3>1 DEF ReadCount, Fifo!Read
    <3> QED BY <3>2 DEF Fifo!Next
  <2>7. CASE UNCHANGED vars
    BY <2>7 DEF vars, Fifo!vars
  <2> QED
    BY <2>1, <2>2, <2>3, <2>4, <2>5, <2>6, <2>7 DEF Next, Begin, Step
<1>3. IInv /\ [Next]_vars => IInv'
  BY NextIInv
<1> QED BY <1>1, <1>2, <1>3, InitIInv, PTL DEF Spec, FifoSpec, Fifo!Spec
=============================================================================
