---------------------- MODULE PointerMultiFifoProofs ----------------------
(***************************************************************************)
(* For every number of threads, every ring size and every range of the     *)
(* index: the asserts of the lock-free multififo hold, its slots agree     *)
(* with the unread pointers, and it implements the bounded queue that may  *)
(* fail without need.                                                      *)
(***************************************************************************)
EXTENDS PointerMultiFifo, FiniteSetTheorems, SequenceTheorems, TLAPS

(* The index computed from a counter is the index of a slot.  Nothing else *)
(* about it is used below, so nothing below depends on how it wraps.       *)
LEMMA SlotType == ASSUME NEW i \in Nat PROVE Slot(i) \in Slots
  BY MultiFifoAssumption DEF Slot, Slots

(* The inductive invariant. *)
IInv == TypeOK /\ NotYetIsOwned /\ WindowOK

LEMMA InitIInv == Init => IInv
  BY MultiFifoAssumption, SlotType
     DEF Init, IInv, TypeOK, NotYetIsOwned, WindowOK, Holds, InWindow, Free,
         Words, WriterAt, ReaderAt

(* Steps that neither move a counter nor touch a slot: they change one     *)
(* thread that holds no slot before or after.                              *)
LEMMA LocalStep ==
    ASSUME IInv, TypeOK', NEW t \in Threads,
           UNCHANGED <<read, write, storage, queue>>,
           ~ Holds(t), ~ Holds(t)',
           pc'[t] \in WriterAt \union {"r_reserve"} => arg'[t] \in Pointers,
           \A u \in Threads \ {t} :
              pc'[u] = pc[u] /\ arg'[u] = arg[u] /\ ai'[u] = ai[u]
    PROVE  IInv'
<1>1. \A s, v : InWindow(s, v)' <=> InWindow(s, v)
  BY DEF InWindow
<1>2. \A s : Free(s)' <=> Free(s)
  BY DEF Free
<1>3. NotYetIsOwned'
  BY DEF IInv, NotYetIsOwned, Holds
<1>4. WindowOK'
  BY <1>1, <1>2 DEF IInv, WindowOK, Holds
<1> QED BY <1>3, <1>4 DEF IInv

(* Every action keeps the types. *)
LEMMA NextTypeOK == IInv /\ [Next]_vars => TypeOK'
<1> SUFFICES ASSUME IInv, [Next]_vars PROVE TypeOK'
  OBVIOUS
<1> USE MultiFifoAssumption
<1>0. TypeOK
  BY DEF IInv
<1>0a. \A t \in Threads : Slot(ai[t]) \in Slots
  BY <1>0, SlotType DEF TypeOK
<1>1. ASSUME NEW t \in Threads, NEW v \in Words, WriteCall(t, v) PROVE TypeOK'
  <2>1. calls' \in 0 .. MaxCalls
    BY <1>0, <1>1 DEF WriteCall, Call, TypeOK
  <2>2. /\ pc' \in [Threads -> {"idle"} \union WriterAt \union ReaderAt]
        /\ wret' \in [Threads -> {"none", "ok", "full", "invalid"}]
        /\ arg' \in [Threads -> Words]
    BY <1>0, <1>1 DEF WriteCall, Goto, TypeOK, WriterAt
  <2> QED BY <1>0, <1>1, <2>1, <2>2 DEF WriteCall, TypeOK, shared
<1>2. ASSUME NEW t \in Threads, ReadCall(t) PROVE TypeOK'
  BY <1>0, <1>2 DEF ReadCall, Call, Goto, TypeOK, shared, ReaderAt
<1>3. ASSUME NEW t \in Threads, WriteIndex(t) \/ ReadIndex(t) PROVE TypeOK'
  <2>1. CASE WriteIndex(t)
    BY <1>0, <2>1 DEF WriteIndex, Goto, TypeOK, shared, WriterAt
  <2>2. CASE ReadIndex(t)
    BY <1>0, <2>2 DEF ReadIndex, Goto, TypeOK, shared, ReaderAt
  <2> QED BY <1>3, <2>1, <2>2
<1>4. ASSUME NEW t \in Threads, WriteReserve(t) PROVE TypeOK'
  BY <1>0, <1>0a, <1>4 DEF WriteReserve, Swap, Goto, TypeOK, WriterAt, Words
<1>5. ASSUME NEW t \in Threads, WriteAdvance(t) PROVE TypeOK'
  <2>1. arg[t] \in Pointers
    BY <1>5 DEF WriteAdvance, IInv, WindowOK, WriterAt
  <2>2. queue' \in Seq(Pointers)
    <3>1. Append(queue, arg[t]) \in Seq(Pointers)
      BY <1>0, <2>1 DEF TypeOK
    <3> QED BY <1>0, <1>5, <3>1 DEF WriteAdvance, TypeOK
  <2>3. write' \in Nat
    BY <1>0, <1>5 DEF WriteAdvance, TypeOK
  <2>4. pc' \in [Threads -> {"idle"} \union WriterAt \union ReaderAt]
    BY <1>0, <1>5 DEF WriteAdvance, Goto, TypeOK, WriterAt
  <2> QED BY <1>0, <1>5, <2>2, <2>3, <2>4 DEF WriteAdvance, TypeOK
<1>6. ASSUME NEW t \in Threads, WriteUndo(t) PROVE TypeOK'
  BY <1>0, <1>0a, <1>6 DEF WriteUndo, Swap, Goto, TypeOK, WriterAt, Words
<1>7. ASSUME NEW t \in Threads, WritePublish(t) PROVE TypeOK'
  BY <1>0, <1>0a, <1>7 DEF WritePublish, Swap, Goto, TypeOK
<1>8. ASSUME NEW t \in Threads, ReadLoad(t) PROVE TypeOK'
  BY <1>0, <1>0a, <1>8 DEF ReadLoad, Goto, TypeOK, shared, ReaderAt
<1>9. ASSUME NEW t \in Threads, ReadReserve(t) PROVE TypeOK'
  BY <1>0, <1>0a, <1>9 DEF ReadReserve, Swap, Goto, TypeOK, ReaderAt, Words
<1>10. ASSUME NEW t \in Threads, ReadAdvance(t) PROVE TypeOK'
  <2>1. CASE read = ai[t] /\ queue' = Tail(queue)
    <3>1. queue # <<>>
      <4>1. Len(queue) > 0
        BY <1>0, <1>10 DEF ReadAdvance, IInv, WindowOK, InWindow, TypeOK
      <4> QED BY <4>1
    <3>2. Tail(queue) \in Seq(Pointers)
      BY <1>0, <3>1 DEF TypeOK
    <3>3. read' \in Nat
      BY <1>0, <1>10 DEF ReadAdvance, TypeOK
    <3>4. pc' \in [Threads -> {"idle"} \union WriterAt \union ReaderAt]
      BY <1>0, <1>10 DEF ReadAdvance, Goto, TypeOK, ReaderAt
    <3> QED BY <1>0, <1>10, <2>1, <3>2, <3>3, <3>4 DEF ReadAdvance, TypeOK
  <2>2. CASE read # ai[t]
    BY <1>0, <1>10, <2>2 DEF ReadAdvance, Goto, TypeOK, ReaderAt
  <2> QED BY <1>10, <2>1, <2>2 DEF ReadAdvance
<1>11. ASSUME NEW t \in Threads, ReadUndo(t) PROVE TypeOK'
  BY <1>0, <1>0a, <1>11 DEF ReadUndo, Swap, Goto, TypeOK, ReaderAt
<1>12. ASSUME NEW t \in Threads, ReadClear(t) PROVE TypeOK'
  <2>1. arg[t] \in Pointers
    BY <1>12 DEF ReadClear, IInv, WindowOK
  <2> QED BY <1>0, <1>0a, <1>12, <2>1 DEF ReadClear, Swap, Goto, TypeOK, Words
<1>13. CASE UNCHANGED vars
  BY <1>0, <1>13 DEF TypeOK, vars
<1> QED
  BY <1>1, <1>2, <1>3, <1>4, <1>5, <1>6, <1>7, <1>8, <1>9, <1>10, <1>11, <1>12, <1>13
     DEF Next, Begin, Step

(* A successful swap of NOTYET into a slot, by a thread that held none. *)
LEMMA TakeStep ==
    ASSUME IInv, TypeOK', NEW t \in Threads, NEW old \in Words,
           UNCHANGED <<read, write, queue, arg, ai>>,
           pc[t] \in {"w_reserve", "r_reserve"},
           Swap(t, old, NOTYET),
           \/ old = NULL /\ pc[t] = "w_reserve" /\ pc'[t] = "w_advance"
           \/ old = arg[t] /\ pc[t] = "r_reserve" /\ pc'[t] = "r_advance",
           \A u \in Threads \ {t} : pc'[u] = pc[u]
    PROVE  IInv'
<1> USE MultiFifoAssumption
<1>1. \A s, v : InWindow(s, v)' <=> InWindow(s, v)
  BY DEF InWindow
<1>2. \A s : Free(s)' <=> Free(s)
  BY DEF Free
<1>3. \A u \in Threads : Slot(ai[u]) \in Slots
  BY SlotType DEF IInv, TypeOK
<1>4. storage \in [Slots -> Words] /\ arg[t] \in Pointers
  BY DEF IInv, TypeOK, WindowOK, WriterAt
<1>5. old # NOTYET
  BY <1>4
<1>6. NotYetIsOwned'
  BY <1>3, <1>4, <1>5 DEF IInv, NotYetIsOwned, Swap, Holds
<1>7. old = NULL => Free(Slot(ai[t]))
  BY <1>3 DEF IInv, WindowOK, Swap
<1>8. old = arg[t] => InWindow(Slot(ai[t]), arg[t])
  BY <1>3, <1>4 DEF IInv, WindowOK, Swap
<1>9. WindowOK'
  BY <1>1, <1>2, <1>3, <1>4, <1>7, <1>8 DEF IInv, WindowOK, Swap, WriterAt
<1> QED BY <1>6, <1>9 DEF IInv

(* The swap back: NULL into a free slot, the pointer into its own slot. *)
LEMMA ReleaseStep ==
    ASSUME IInv, TypeOK', NEW t \in Threads,
           UNCHANGED <<read, write, queue, arg, ai>>,
           pc[t] \in {"w_undo", "r_clear", "w_publish", "r_undo"},
           pc[t] \in {"w_undo", "r_clear"} => Swap(t, NOTYET, NULL),
           pc[t] \in {"w_publish", "r_undo"} => Swap(t, NOTYET, arg[t]),
           pc'[t] = CASE pc[t] = "w_undo" -> "w_index"
                      [] pc[t] = "r_undo" -> "r_index"
                      [] OTHER -> "idle",
           \A u \in Threads \ {t} : pc'[u] = pc[u]
    PROVE  IInv'
<1> USE MultiFifoAssumption
<1>1. \A s, v : InWindow(s, v)' <=> InWindow(s, v)
  BY DEF InWindow
<1>2. \A s : Free(s)' <=> Free(s)
  BY DEF Free
<1>3. \A u \in Threads : Slot(ai[u]) \in Slots
  BY SlotType DEF IInv, TypeOK
<1>4. storage \in [Slots -> Words] /\ arg[t] \in Pointers
  BY DEF IInv, TypeOK, WindowOK, WriterAt
<1>5. /\ pc[t] \in {"w_undo", "r_clear"} => Free(Slot(ai[t]))
      /\ pc[t] \in {"w_publish", "r_undo"} => InWindow(Slot(ai[t]), arg[t])
  BY DEF IInv, WindowOK
<1>6. NotYetIsOwned'
  BY <1>3, <1>4 DEF IInv, NotYetIsOwned, Swap, Holds
<1>7. WindowOK'
  BY <1>1, <1>2, <1>3, <1>4, <1>5 DEF IInv, WindowOK, Swap, WriterAt
<1> QED BY <1>6, <1>7 DEF IInv

(* A failed move of a counter changes nothing but the label of its thread. *)
LEMMA MissedStep ==
    ASSUME IInv, TypeOK', NEW t \in Threads,
           UNCHANGED <<read, write, storage, queue, arg, ai>>,
           \/ pc[t] = "w_advance" /\ pc'[t] = "w_undo"
           \/ pc[t] = "r_advance" /\ pc'[t] = "r_undo",
           \A u \in Threads \ {t} : pc'[u] = pc[u]
    PROVE  IInv'
<1>1. \A s, v : InWindow(s, v)' <=> InWindow(s, v)
  BY DEF InWindow
<1>2. \A s : Free(s)' <=> Free(s)
  BY DEF Free
<1>3. \A u \in Threads : Holds(u)' <=> Holds(u)
  BY DEF Holds
<1>4. NotYetIsOwned'
  BY <1>3 DEF IInv, NotYetIsOwned
<1>5. WindowOK'
  BY <1>1, <1>2 DEF IInv, WindowOK, WriterAt
<1> QED BY <1>4, <1>5 DEF IInv

(* InWindow and Free over any values of the counters and the queue, so     *)
(* that a slot can be followed from one state to the next.                 *)
At(s, v, r, w, q) == \E i \in r .. w - 1 : s = Slot(i) /\ v = q[i - r + 1]
Off(s, r, w) == \A i \in r .. w - 1 : s # Slot(i)

LEMMA WindowForm ==
    WindowOK <=>
      /\ write = read + Len(queue)
      /\ \A i, j \in read .. write - 1 : Slot(i) = Slot(j) => i = j
      /\ \A s \in Slots :
           /\ storage[s] = NULL => Off(s, read, write)
           /\ storage[s] \in Pointers => At(s, storage[s], read, write, queue)
      /\ \A t \in Threads :
           /\ pc[t] \in {"w_publish", "r_advance", "r_undo"}
                => At(Slot(ai[t]), arg[t], read, write, queue)
           /\ pc[t] \in {"w_advance", "w_undo", "r_clear"}
                => Off(Slot(ai[t]), read, write)
           /\ pc[t] \in WriterAt \union {"r_reserve", "r_advance", "r_undo", "r_clear"}
                => arg[t] \in Pointers
  BY DEF WindowOK, InWindow, Free, At, Off

(* A write takes effect: the slot its thread holds gets into the window. *)
LEMMA WriteAdvanceStep ==
    ASSUME IInv, TypeOK', NEW t \in Threads, WriteAdvance(t)
    PROVE  IInv'
<1>0. /\ TypeOK /\ Len(queue) \in Nat /\ queue \in Seq(Pointers)
      /\ read \in Nat /\ write \in Nat /\ write = read + Len(queue)
      /\ read' = read /\ storage' = storage /\ ai' = ai /\ arg' = arg
      /\ \A u \in Threads \ {t} : pc'[u] = pc[u]
  BY DEF IInv, TypeOK, WindowOK, WriteAdvance, Goto
<1>1. CASE write # ai[t]
  BY <1>0, <1>1, MissedStep DEF WriteAdvance, Goto, TypeOK
<1>2. CASE write = ai[t]
  <2>1. arg[t] \in Pointers /\ pc'[t] = "w_publish" /\ pc[t] = "w_advance"
        /\ queue' = Append(queue, arg[t]) /\ write' = write + 1
    BY <1>0, <1>2 DEF WriteAdvance, Goto, TypeOK, IInv, WindowOK, WriterAt
  <2>2. /\ Len(queue') = Len(queue) + 1 /\ queue'[Len(queue) + 1] = arg[t]
        /\ \A k \in 1 .. Len(queue) : queue'[k] = queue[k]
    BY <1>0, <2>1
  <2>3. Off(Slot(write), read, write) /\ write - read + 1 = Len(queue) + 1
    BY <1>0, <1>2, <2>1, WindowForm DEF IInv
  <2>4. \A i : i \in read' .. write' - 1 <=> i \in read .. write - 1 \/ i = write
    BY <1>0, <2>1
  <2>5. \A s : Off(s, read, write) /\ s # Slot(write) => Off(s, read', write')
    BY <1>0, <2>4 DEF Off
  <2>6. ASSUME NEW s, NEW v, At(s, v, read, write, queue)
        PROVE  At(s, v, read', write', queue')
    <3>1. PICK i \in read .. write - 1 : s = Slot(i) /\ v = queue[i - read + 1]
      BY <2>6 DEF At
    <3>2. i - read + 1 \in 1 .. Len(queue)
      BY <1>0
    <3>3. v = queue'[i - read' + 1] /\ i \in read' .. write' - 1
      BY <1>0, <2>2, <2>4, <3>1, <3>2
    <3> QED BY <3>1, <3>3 DEF At
  <2>7. At(Slot(write), arg[t], read', write', queue')
    <3>1. write \in read' .. write' - 1 /\ queue'[write - read' + 1] = arg[t]
      BY <1>0, <2>2, <2>3, <2>4
    <3> QED BY <3>1 DEF At
  <2>8. \A u \in Threads : Holds(u)' <=> Holds(u)
    BY <1>0, <2>1 DEF Holds
  <2>9. NotYetIsOwned'
    BY <1>0, <2>8 DEF IInv, NotYetIsOwned
  <2>10. \A i, j \in read' .. write' - 1 : Slot(i) = Slot(j) => i = j
    BY <2>3, <2>4 DEF IInv, WindowOK, Off
  <2>11. \A u \in Threads \ {t} : Holds(u) => Slot(ai[u]) # Slot(write)
    BY <1>2, <2>1 DEF IInv, NotYetIsOwned, Holds
  <2>12. storage[Slot(write)] = NOTYET
    BY <1>2, <2>1 DEF IInv, NotYetIsOwned, Holds
  <2>13. \A s \in Slots :
           /\ storage[s] = NULL => Off(s, read', write')
           /\ storage[s] \in Pointers => At(s, storage[s], read', write', queue')
    BY <2>5, <2>6, <2>12, WindowForm, MultiFifoAssumption DEF IInv
  <2>14. \A u \in Threads :
           /\ pc'[u] \in {"w_publish", "r_advance", "r_undo"}
                => At(Slot(ai[u]), arg[u], read', write', queue')
           /\ pc'[u] \in {"w_advance", "w_undo", "r_clear"}
                => Off(Slot(ai[u]), read', write')
           /\ pc'[u] \in WriterAt \union {"r_reserve", "r_advance", "r_undo", "r_clear"}
                => arg[u] \in Pointers
    <3>1. \A u \in Threads \ {t} :
            pc[u] \in {"w_advance", "w_undo", "r_clear"} => Slot(ai[u]) # Slot(write)
      BY <2>11 DEF Holds
    <3> QED BY <1>0, <1>2, <2>1, <2>5, <2>6, <2>7, <3>1, WindowForm DEF IInv
  <2>15. write' = read' + Len(queue')
    BY <1>0, <2>1, <2>2
  <2>16. WindowOK'
    BY <1>0, <2>10, <2>13, <2>14, <2>15 DEF WindowOK, InWindow, Free, At, Off
  <2> QED BY <2>9, <2>16 DEF IInv
<1> QED BY <1>1, <1>2

(* A read takes effect: the oldest pointer is the one its thread holds,    *)
(* and its slot leaves the window.                                         *)
LEMMA ReadAdvanceStep ==
    ASSUME IInv, TypeOK', NEW t \in Threads, ReadAdvance(t)
    PROVE  /\ IInv'
           /\ read = ai[t] => queue # <<>> /\ arg[t] = Head(queue)
<1>0. /\ TypeOK /\ Len(queue) \in Nat /\ queue \in Seq(Pointers)
      /\ read \in Nat /\ write \in Nat /\ write = read + Len(queue)
      /\ write' = write /\ storage' = storage /\ ai' = ai /\ arg' = arg
      /\ \A u \in Threads \ {t} : pc'[u] = pc[u]
  BY DEF IInv, TypeOK, WindowOK, ReadAdvance, Goto
<1>1. CASE read # ai[t]
  BY <1>0, <1>1, MissedStep DEF ReadAdvance, Goto, TypeOK
<1>2. CASE read = ai[t]
  <2>1. pc'[t] = "r_clear" /\ pc[t] = "r_advance" /\ arg[t] \in Pointers
        /\ queue' = Tail(queue) /\ read' = read + 1
    BY <1>0, <1>2 DEF ReadAdvance, Goto, TypeOK, IInv, WindowOK
  <2>2. At(Slot(read), arg[t], read, write, queue)
    BY <1>2, <2>1, WindowForm DEF IInv
  <2>3. PICK i \in read .. write - 1 : Slot(read) = Slot(i) /\ arg[t] = queue[i - read + 1]
    BY <2>2 DEF At
  <2>4. read \in read .. write - 1 /\ Len(queue) > 0
    BY <1>0
  <2>5. i = read
    BY <2>3, <2>4 DEF IInv, WindowOK
  <2>6. arg[t] = queue[1] /\ queue # <<>>
    <3>1. read - read + 1 = 1
      BY <1>0
    <3> QED BY <2>3, <2>4, <2>5, <3>1
  <2>7. /\ Len(queue') = Len(queue) - 1
        /\ \A k \in 1 .. Len(queue) - 1 : queue'[k] = queue[k + 1]
    BY <1>0, <2>1, <2>6
  <2>8. \A j : j \in read' .. write' - 1 <=> j \in read .. write - 1 /\ j # read
    BY <1>0, <2>1
  <2>9. \A s : Off(s, read, write) => Off(s, read', write')
    BY <2>8 DEF Off
  <2>10. ASSUME NEW s, NEW v, At(s, v, read, write, queue), s # Slot(read)
         PROVE  At(s, v, read', write', queue')
    <3>1. PICK j \in read .. write - 1 : s = Slot(j) /\ v = queue[j - read + 1]
      BY <2>10 DEF At
    <3>2. j # read
      BY <2>10, <3>1
    <3>3. j \in read' .. write' - 1
      BY <2>8, <3>2
    <3>4. j - read' + 1 \in 1 .. Len(queue) - 1 /\ (j - read' + 1) + 1 = j - read + 1
      BY <1>0, <2>1, <3>2
    <3>5. v = queue'[j - read' + 1]
      BY <2>7, <3>1, <3>4
    <3> QED BY <3>1, <3>3, <3>5 DEF At
  <2>11. Off(Slot(read), read', write')
    BY <2>4, <2>8 DEF Off, IInv, WindowOK
  <2>12. \A u \in Threads : Holds(u)' <=> Holds(u)
    BY <1>0, <2>1 DEF Holds
  <2>13. NotYetIsOwned'
    BY <1>0, <2>12 DEF IInv, NotYetIsOwned
  <2>14. \A j, k \in read' .. write' - 1 : Slot(j) = Slot(k) => j = k
    BY <2>8 DEF IInv, WindowOK
  <2>15. \A u \in Threads \ {t} : Holds(u) => Slot(ai[u]) # Slot(read)
    BY <1>2, <2>1 DEF IInv, NotYetIsOwned, Holds
  <2>16. storage[Slot(read)] = NOTYET
    BY <1>2, <2>1 DEF IInv, NotYetIsOwned, Holds
  <2>17. \A s \in Slots :
           /\ storage[s] = NULL => Off(s, read', write')
           /\ storage[s] \in Pointers => At(s, storage[s], read', write', queue')
    BY <2>9, <2>10, <2>16, WindowForm, MultiFifoAssumption DEF IInv
  <2>18. \A u \in Threads :
           /\ pc'[u] \in {"w_publish", "r_advance", "r_undo"}
                => At(Slot(ai[u]), arg[u], read', write', queue')
           /\ pc'[u] \in {"w_advance", "w_undo", "r_clear"}
                => Off(Slot(ai[u]), read', write')
           /\ pc'[u] \in WriterAt \union {"r_reserve", "r_advance", "r_undo", "r_clear"}
                => arg[u] \in Pointers
    <3>1. \A u \in Threads \ {t} :
            pc[u] \in {"w_publish", "r_advance", "r_undo"} => Slot(ai[u]) # Slot(read)
      BY <2>15 DEF Holds
    <3> QED BY <1>0, <1>2, <2>1, <2>9, <2>10, <2>11, <3>1, WindowForm DEF IInv
  <2>19. write' = read' + Len(queue')
    <3>1. read' = read + 1
      BY <2>1
    <3>2. \A n \in Nat : write' = read + n => write' = (read + 1) + (n - 1)
      BY <1>0
    <3> QED BY <1>0, <2>7, <3>1, <3>2
  <2>20. WindowOK'
    BY <1>0, <2>14, <2>17, <2>18, <2>19 DEF WindowOK, InWindow, Free, At, Off
  <2>21. arg[t] = Head(queue)
    BY <1>0, <2>6
  <2> QED BY <2>6, <2>13, <2>20, <2>21 DEF IInv
<1> QED BY <1>1, <1>2

(* Every step keeps the invariant: by the kind of step, not by the action. *)
LEMMA NextIInv == IInv /\ [Next]_vars => IInv'
<1> SUFFICES ASSUME IInv, [Next]_vars PROVE IInv'
  OBVIOUS
<1> USE MultiFifoAssumption
<1>0. TypeOK /\ TypeOK'
  BY NextTypeOK DEF IInv
<1>1. ASSUME NEW t \in Threads, NEW v \in Words, WriteCall(t, v) PROVE IInv'
  BY <1>0, <1>1, LocalStep DEF WriteCall, Call, Goto, TypeOK, shared, Holds, WriterAt, Words
<1>2. ASSUME NEW t \in Threads, ReadCall(t) PROVE IInv'
  BY <1>0, <1>2, LocalStep DEF ReadCall, Call, Goto, TypeOK, shared, Holds, WriterAt
<1>3. ASSUME NEW t \in Threads, WriteIndex(t) PROVE IInv'
  <2>1. arg[t] \in Pointers
    BY <1>3 DEF WriteIndex, IInv, WindowOK, WriterAt
  <2> QED BY <1>0, <1>3, <2>1, LocalStep DEF WriteIndex, Goto, TypeOK, shared, Holds, WriterAt
<1>4. ASSUME NEW t \in Threads, ReadIndex(t) PROVE IInv'
  BY <1>0, <1>4, LocalStep DEF ReadIndex, Goto, TypeOK, shared, Holds, WriterAt
<1>5. ASSUME NEW t \in Threads, WriteReserve(t) PROVE IInv'
  <2>1. arg[t] \in Pointers
    BY <1>5 DEF WriteReserve, IInv, WindowOK, WriterAt
  <2>2. CASE Swap(t, NULL, NOTYET) /\ Goto(t, "w_advance")
    BY <1>0, <1>5, <2>2, TakeStep DEF WriteReserve, Goto, TypeOK, Words
  <2>3. CASE UNCHANGED storage /\ (Goto(t, "w_index") \/ Goto(t, "idle"))
    BY <1>0, <1>5, <2>1, <2>3, LocalStep DEF WriteReserve, Goto, TypeOK, Holds, WriterAt
  <2> QED BY <1>5, <2>2, <2>3 DEF WriteReserve
<1>6. ASSUME NEW t \in Threads, WriteAdvance(t) PROVE IInv'
  BY <1>0, <1>6, WriteAdvanceStep
<1>7. ASSUME NEW t \in Threads, WriteUndo(t) PROVE IInv'
  BY <1>0, <1>7, ReleaseStep DEF WriteUndo, Swap, Goto, TypeOK
<1>8. ASSUME NEW t \in Threads, WritePublish(t) PROVE IInv'
  BY <1>0, <1>8, ReleaseStep DEF WritePublish, Swap, Goto, TypeOK
<1>9. ASSUME NEW t \in Threads, ReadLoad(t) PROVE IInv'
  BY <1>0, <1>9, LocalStep DEF ReadLoad, Goto, TypeOK, shared, Holds, WriterAt
<1>10. ASSUME NEW t \in Threads, ReadReserve(t) PROVE IInv'
  <2>1. CASE Swap(t, arg[t], NOTYET) /\ Goto(t, "r_advance")
    <3>1. arg[t] \in Words
      BY <1>0 DEF TypeOK
    <3> QED BY <1>0, <1>10, <2>1, <3>1, TakeStep DEF ReadReserve, Goto, TypeOK
  <2>2. CASE UNCHANGED storage /\ Goto(t, "r_index")
    BY <1>0, <1>10, <2>2, LocalStep DEF ReadReserve, Goto, TypeOK, Holds, WriterAt
  <2> QED BY <1>10, <2>1, <2>2 DEF ReadReserve
<1>11. ASSUME NEW t \in Threads, ReadAdvance(t) PROVE IInv'
  BY <1>0, <1>11, ReadAdvanceStep
<1>12. ASSUME NEW t \in Threads, ReadUndo(t) PROVE IInv'
  BY <1>0, <1>12, ReleaseStep DEF ReadUndo, Swap, Goto, TypeOK
<1>13. ASSUME NEW t \in Threads, ReadClear(t) PROVE IInv'
  BY <1>0, <1>13, ReleaseStep DEF ReadClear, Swap, Goto, TypeOK
<1>14. CASE UNCHANGED vars
  <2>1. NotYetIsOwned'
    BY <1>14 DEF IInv, NotYetIsOwned, Holds, vars
  <2>2. WindowOK'
    BY <1>14 DEF IInv, WindowOK, InWindow, Free, vars
  <2> QED BY <1>0, <2>1, <2>2 DEF IInv
<1> QED
  BY <1>1, <1>2, <1>3, <1>4, <1>5, <1>6, <1>7, <1>8, <1>9, <1>10, <1>11, <1>12, <1>13, <1>14
     DEF Next, Begin, Step

(* The asserts of read_barrier and write never fail: who undoes, clears or *)
(* publishes finds its own NOTYET, and no NOTYET is left without an owner. *)
THEOREM AssertsHold == Spec => []NotYetIsOwned
<1>1. Init => IInv
  BY InitIInv
<1>2. IInv /\ [Next]_vars => IInv'
  BY NextIInv
<1>3. IInv => NotYetIsOwned
  BY DEF IInv
<1> QED BY <1>1, <1>2, <1>3, PTL DEF Spec

(* The slots and the unread pointers agree in every state. *)
THEOREM WindowIsConsistent == Spec => [](TypeOK /\ WindowOK)
<1>1. Init => IInv
  BY InitIInv
<1>2. IInv /\ [Next]_vars => IInv'
  BY NextIInv
<1>3. IInv => TypeOK /\ WindowOK
  BY DEF IInv
<1> QED BY <1>1, <1>2, <1>3, PTL DEF Spec

-----------------------------------------------------------------------------
(* Pending pointers have different slots, so there are at most Size. *)
CapacityOK == Len(queue) <= Size

LEMMA Capacity == IInv => CapacityOK
<1> SUFFICES ASSUME IInv PROVE Len(queue) <= Size
  BY DEF CapacityOK
<1>1. /\ read \in Nat /\ write \in Nat /\ Len(queue) \in Nat /\ write = read + Len(queue)
      /\ Size \in Nat /\ Size >= 2
  BY MultiFifoAssumption DEF IInv, TypeOK, WindowOK
<1> DEFINE f == [i \in read .. write - 1 |-> Slot(i)]
<1>2. \A i \in read .. write - 1 : Slot(i) \in Slots
  BY <1>1, SlotType
<1>3. f \in Injection(read .. write - 1, Slots)
  <2>1. f \in [read .. write - 1 -> Slots]
    BY <1>2
  <2>2. \A i, j \in read .. write - 1 : f[i] = f[j] => i = j
    BY DEF IInv, WindowOK
  <2> QED BY <2>1, <2>2 DEF Injection, IsInjective
<1>4. IsFiniteSet(Slots) /\ Cardinality(Slots) = Size
  <2>1. 0 \in Int /\ Size - 1 \in Int /\ ~(0 > Size - 1) /\ (Size - 1) - 0 + 1 = Size
    BY <1>1
  <2> QED BY <2>1, FS_Interval DEF Slots
<1>5. Cardinality(read .. write - 1) <= Cardinality(Slots)
  <2> HIDE DEF f
  <2> QED BY <1>3, <1>4, FS_Injection
<1>6. Cardinality(read .. write - 1) = Len(queue)
  <2>1. /\ read \in Int /\ write - 1 \in Int
        /\ Len(queue) = IF read > write - 1 THEN 0 ELSE (write - 1) - read + 1
    BY <1>1
  <2> QED BY <2>1, FS_Interval
<1> QED BY <1>1, <1>4, <1>5, <1>6

(* The lock-free multififo implements the bounded queue: no pointer is     *)
(* lost, duplicated or overtaken, however the threads interleave.          *)
THEOREM ImplementsFifo == Spec => FifoSpec
<1>1. Init => Fifo!Init
  BY DEF Init, Fifo!Init
<1>2. IInv /\ IInv' /\ [Next]_vars => [Fifo!Next]_Fifo!vars
  <2> SUFFICES ASSUME IInv, IInv', [Next]_vars PROVE [Fifo!Next]_Fifo!vars
    OBVIOUS
  <2> USE MultiFifoAssumption
  <2> DEFINE W == [t \in Threads |-> IF pc[t] = "w_publish" THEN "ok" ELSE wret[t]]
             R == [t \in Threads |-> IF pc[t] = "r_clear" THEN arg[t] ELSE rret[t]]
  <2>0. TypeOK /\ TypeOK'
    BY DEF IInv
  <2>1. ASSUME NEW t \in Threads, NEW v \in Words, WriteCall(t, v)
        PROVE  [Fifo!Next]_Fifo!vars
    <3>1. queue' = queue /\ R' = R
      BY <2>0, <2>1 DEF WriteCall, Call, Goto, TypeOK
    <3>2. W' = W \/ W' = [W EXCEPT ![t] = "invalid"]
      <4>1. CASE UNCHANGED wret
        BY <2>0, <2>1, <4>1 DEF WriteCall, Call, Goto, TypeOK
      <4>2. CASE ~UNCHANGED wret
        <5>1. wret' = [wret EXCEPT ![t] = "invalid"] /\ pc[t] = "idle"
              /\ (pc' = pc \/ pc' = [pc EXCEPT ![t] = "idle"])
          BY <2>1, <4>2 DEF WriteCall, Call, Goto
        <5>2. \A u \in Threads :
                (IF pc'[u] = "w_publish" THEN "ok" ELSE wret'[u])
                  = IF u = t THEN "invalid" ELSE W[u]
          BY <2>0, <5>1 DEF TypeOK
        <5>3. W' = [W EXCEPT ![t] = "invalid"]
          BY <5>2
        <5> QED BY <5>3
      <4> QED BY <4>1, <4>2
    <3>3. CASE W' = W
      BY <3>1, <3>3 DEF Fifo!vars
    <3>4. CASE W' = [W EXCEPT ![t] = "invalid"]
      <4>1. Fifo!WriteInvalid(t)
        BY <3>1, <3>4 DEF Fifo!WriteInvalid
      <4> QED BY <4>1 DEF Fifo!Next
    <3> QED BY <3>2, <3>3, <3>4
  <2>2. ASSUME NEW t \in Threads,
               ReadCall(t) \/ WriteIndex(t) \/ ReadIndex(t) \/ ReadReserve(t)
                 \/ WriteUndo(t) \/ ReadUndo(t)
        PROVE  UNCHANGED Fifo!vars
    <3>1. queue' = queue /\ R' = R /\ W' = W
      BY <2>0, <2>2 DEF ReadCall, Call, WriteIndex, ReadIndex, ReadReserve, WriteUndo,
                        ReadUndo, Goto, TypeOK
    <3> QED BY <3>1 DEF Fifo!vars
  <2>3. ASSUME NEW t \in Threads, WriteReserve(t) PROVE [Fifo!Next]_Fifo!vars
    <3>1. queue' = queue /\ R' = R
      BY <2>0, <2>3 DEF WriteReserve, Goto, TypeOK
    <3>2. W' = W \/ W' = [W EXCEPT ![t] = "full"]
      <4>1. CASE UNCHANGED wret
        BY <2>0, <2>3, <4>1 DEF WriteReserve, Goto, TypeOK
      <4>2. CASE ~UNCHANGED wret
        <5>1. wret' = [wret EXCEPT ![t] = "full"] /\ pc[t] = "w_reserve"
              /\ (pc' = pc \/ pc' = [pc EXCEPT ![t] = "idle"])
          BY <2>3, <4>2 DEF WriteReserve, Goto
        <5>2. \A u \in Threads :
                (IF pc'[u] = "w_publish" THEN "ok" ELSE wret'[u])
                  = IF u = t THEN "full" ELSE W[u]
          BY <2>0, <5>1 DEF TypeOK
        <5>3. W' = [W EXCEPT ![t] = "full"]
          BY <5>2
        <5> QED BY <5>3
      <4> QED BY <4>1, <4>2
    <3>3. CASE W' = W
      BY <3>1, <3>3 DEF Fifo!vars
    <3>4. CASE W' = [W EXCEPT ![t] = "full"]
      <4>1. Fifo!WriteFull(t)
        BY <3>1, <3>4 DEF Fifo!WriteFull
      <4> QED BY <4>1 DEF Fifo!Next
    <3> QED BY <3>2, <3>3, <3>4
  <2>4. ASSUME NEW t \in Threads, WriteAdvance(t) PROVE [Fifo!Next]_Fifo!vars
    <3>1. CASE write # ai[t]
      <4>1. queue' = queue /\ R' = R /\ W' = W
        BY <2>0, <2>4, <3>1 DEF WriteAdvance, Goto, TypeOK
      <4> QED BY <4>1 DEF Fifo!vars
    <3>2. CASE write = ai[t]
      <4>0. /\ pc' = [pc EXCEPT ![t] = "w_publish"]
            /\ pc \in [Threads -> {"idle"} \union WriterAt \union ReaderAt]
            /\ pc[t] = "w_advance" /\ arg' = arg /\ wret' = wret /\ rret' = rret
        BY <2>0, <2>4, <3>2 DEF WriteAdvance, Goto, TypeOK
      <4>1. R' = R /\ W' = [W EXCEPT ![t] = "ok"]
        BY <4>0
      <4>2. queue' = Append(queue, arg[t]) /\ arg[t] \in Pointers
        BY <2>4, <3>2 DEF WriteAdvance, IInv, WindowOK, WriterAt
      <4>3. Len(queue) < Size
        <5>1. CapacityOK'
          BY Capacity, PTL
        <5>2. Len(queue') = Len(queue) + 1 /\ Len(queue) \in Nat
          BY <2>0, <4>2 DEF TypeOK
        <5> QED BY <5>1, <5>2 DEF CapacityOK
      <4>4. \E v \in Pointers : Fifo!Write(t, v)
        BY <4>1, <4>2, <4>3 DEF Fifo!Write
      <4> QED BY <4>4 DEF Fifo!Next
    <3> QED BY <3>1, <3>2
  <2>5. ASSUME NEW t \in Threads, WritePublish(t) PROVE UNCHANGED Fifo!vars
    <3>1. queue' = queue /\ R' = R /\ W' = W
      BY <2>0, <2>5 DEF WritePublish, Goto, TypeOK
    <3> QED BY <3>1 DEF Fifo!vars
  <2>6. ASSUME NEW t \in Threads, ReadLoad(t) PROVE [Fifo!Next]_Fifo!vars
    <3>1. queue' = queue /\ W' = W
      BY <2>0, <2>6 DEF ReadLoad, Goto, TypeOK
    <3>2. R' = R \/ R' = [R EXCEPT ![t] = NULL]
      <4>1. CASE UNCHANGED rret
        BY <2>0, <2>6, <4>1 DEF ReadLoad, Goto, TypeOK
      <4>2. CASE ~UNCHANGED rret
        <5>1. rret' = [rret EXCEPT ![t] = NULL] /\ pc[t] = "r_load"
              /\ (\A u \in Threads \ {t} : arg'[u] = arg[u])
              /\ (pc' = pc \/ pc' = [pc EXCEPT ![t] = "idle"])
          BY <2>0, <2>6, <4>2 DEF ReadLoad, Goto, TypeOK
        <5>2. \A u \in Threads :
                (IF pc'[u] = "r_clear" THEN arg'[u] ELSE rret'[u])
                  = IF u = t THEN NULL ELSE R[u]
          BY <2>0, <5>1 DEF TypeOK
        <5>3. R' = [R EXCEPT ![t] = NULL]
          BY <5>2
        <5> QED BY <5>3
      <4> QED BY <4>1, <4>2
    <3>3. CASE R' = R
      BY <3>1, <3>3 DEF Fifo!vars
    <3>4. CASE R' = [R EXCEPT ![t] = NULL]
      <4>1. Fifo!ReadEmpty(t)
        BY <3>1, <3>4 DEF Fifo!ReadEmpty
      <4> QED BY <4>1 DEF Fifo!Next
    <3> QED BY <3>2, <3>3, <3>4
  <2>7. ASSUME NEW t \in Threads, ReadAdvance(t) PROVE [Fifo!Next]_Fifo!vars
    <3>1. CASE read # ai[t]
      <4>1. queue' = queue /\ R' = R /\ W' = W
        BY <2>0, <2>7, <3>1 DEF ReadAdvance, Goto, TypeOK
      <4> QED BY <4>1 DEF Fifo!vars
    <3>2. CASE read = ai[t]
      <4>0. /\ pc' = [pc EXCEPT ![t] = "r_clear"]
            /\ pc \in [Threads -> {"idle"} \union WriterAt \union ReaderAt]
            /\ pc[t] = "r_advance" /\ arg' = arg /\ wret' = wret /\ rret' = rret
        BY <2>0, <2>7, <3>2 DEF ReadAdvance, Goto, TypeOK
      <4>1. W' = W /\ R' = [R EXCEPT ![t] = arg[t]]
        BY <4>0
      <4>2. queue' = Tail(queue) /\ queue # <<>> /\ arg[t] = Head(queue)
        BY <2>0, <2>7, <3>2, ReadAdvanceStep DEF ReadAdvance
      <4> QED BY <4>1, <4>2 DEF Fifo!Next, Fifo!Read
    <3> QED BY <3>1, <3>2
  <2>8. ASSUME NEW t \in Threads, ReadClear(t) PROVE UNCHANGED Fifo!vars
    <3>1. queue' = queue /\ R' = R /\ W' = W
      BY <2>0, <2>8 DEF ReadClear, Goto, TypeOK
    <3> QED BY <3>1 DEF Fifo!vars
  <2>9. CASE UNCHANGED vars
    BY <2>9 DEF vars, Fifo!vars
  <2> QED
    BY <2>1, <2>2, <2>3, <2>4, <2>5, <2>6, <2>7, <2>8, <2>9 DEF Next, Begin, Step
<1>3. Spec => []IInv
  BY InitIInv, NextIInv, PTL DEF Spec
<1> QED BY <1>1, <1>2, <1>3, PTL DEF Spec, FifoSpec, Fifo!Spec

=============================================================================
