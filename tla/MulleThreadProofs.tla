------------------------- MODULE MulleThreadProofs -------------------------
(***************************************************************************)
(* For any threads, calls and depths: an initializer runs once and is      *)
(* waited for, and the recursive mutex has one owner and the right depth.  *)
(***************************************************************************)
EXTENDS MulleThread, TLAPS

(* Where a thread wants the lock and has room for one more. *)
Locking == {"l_read", "t_read", "l_mutex", "t_mutex", "l_owner", "t_owner", "depth"}

(* What a thread at each label of the recursive mutex has. *)
MutexAt(t) ==
    /\ pc[t] \in Locking => hold[t] < MaxDepth
    /\ pc[t] \in {"l_owner", "t_owner", "u_mutex"} => mutex = t /\ thread_id = None
    /\ pc[t] \in {"depth", "u_clear"} => mutex = t /\ thread_id = t
    /\ pc[t] \in {"u_clear", "u_mutex"} => hold[t] = 0
    /\ hold[t] > 0 => mutex = t /\ thread_id = t

MutexInv ==
    /\ \A t \in Threads : MutexAt(t)
    /\ depth = IF mutex = None THEN 0 ELSE hold[mutex]
    /\ thread_id # None => mutex = thread_id

(* Who runs which initializer, and what a caller that is not in one sees.  *)
OnceAt(t) ==
    /\ pc[t] \in {"idle", "o_swap", "o_wait"} => within[t] = None
    /\ pc[t] \in {"init", "o_done"} => within[t] # None
    /\ pc[t] \in {"o_owner", "o_clear"} => within[t] = "recursive"
    /\ pc[t] = "o_read" => within[t] # "once"
    /\ pc[t] \in {"o_read", "o_swap", "o_wait"} => cur[t].once \in Onces
    /\ once_thread = t => within[t] = "recursive" /\ pc[t] # "o_done"
    /\ within[t] = "recursive" /\ pc[t] \notin {"o_owner", "o_done"} => once_thread = t
    /\ \A o \in saw[t] : state[o] = "done"

(* The states of a once, by how far its only initializer has come. *)
StateAt(o) ==
    /\ state[o] = "data" => ran[o] = 0
    /\ state[o] # "data" => ran[o] = 1
    /\ state[o] = "data" => ready[o] = 0
    /\ state[o] = "done" => ready[o] = 1
    /\ \A t \in Threads : within[t] = o =>
          /\ state[o] = "busy"
          /\ ready[o] = IF pc[t] \in {"o_clear", "o_done"} THEN 1 ELSE 0

OnceInv ==
    /\ \A t \in Threads : OnceAt(t)
    /\ \A o \in Onces : StateAt(o)
    /\ \A t, u \in Threads : within[t] = within[u] /\ within[t] # None => t = u

(* The inductive invariant. *)
IInv == TypeOK /\ MutexInv /\ OnceInv

LEMMA InitIInv == Init => IInv
  BY MulleThreadAssumption
     DEF Init, IInv, TypeOK, MutexInv, MutexAt, OnceInv, OnceAt, StateAt, Onces, Labels, Locking

(* Every action keeps the types. *)
LEMMA NextTypeOK == IInv /\ [Next]_vars => TypeOK'
<1> SUFFICES ASSUME IInv, [Next]_vars PROVE TypeOK'
  OBVIOUS
<1> USE MulleThreadAssumption DEF Labels, Onces, once_vars, mutex_vars, Goto
<1>0. TypeOK
  BY DEF IInv
<1>0a. ASSUME NEW t \in Threads PROVE OnceAt(t) /\ MutexAt(t)
  BY DEF IInv, OnceInv, MutexInv
<1>0b. ASSUME NEW t \in Threads, OnceReturns(t), cur[t].once \in Onces
       PROVE  /\ pc' \in [Threads -> Labels] /\ saw' \in [Threads -> SUBSET Onces]
              /\ cur' \in [Threads -> [once : Onces \union {None}, block : BOOLEAN]]
  <2>1. pc' \in [Threads -> Labels]
    BY <1>0, <1>0b DEF OnceReturns, Return, TypeOK
  <2>2. cur' \in [Threads -> [once : Onces \union {None}, block : BOOLEAN]]
    BY <1>0, <1>0b DEF OnceReturns, TypeOK
  <2>3. saw[t] \union {cur[t].once} \in SUBSET Onces
    BY <1>0, <1>0b DEF TypeOK
  <2>4. saw' = saw \/ saw' = [saw EXCEPT ![t] = @ \union {cur[t].once}]
    BY <1>0b, Zenon DEF OnceReturns
  <2>5. saw' \in [Threads -> SUBSET Onces]
    BY <1>0, <2>3, <2>4 DEF TypeOK
  <2> QED BY <2>1, <2>2, <2>5
<1>1. ASSUME NEW t \in Threads, NEW o \in Onces, NEW b \in BOOLEAN, OnceCall(t, o, b)
      PROVE  TypeOK'
  BY <1>0, <1>1 DEF OnceCall, TypeOK
<1>2. ASSUME NEW t \in Threads, NEW l \in {"l_read", "t_read"}, LockCall(t, l) PROVE TypeOK'
  BY <1>0, <1>2 DEF LockCall, TypeOK
<1>3. ASSUME NEW t \in Threads, OnceRead(t) PROVE TypeOK'
  <2>1. cur[t].once \in Onces
    BY <1>0a, <1>3 DEF OnceRead, OnceAt
  <2>2. CASE OnceReturns(t)
    BY <1>0, <1>0b, <1>3, <2>1, <2>2 DEF OnceRead, TypeOK
  <2>3. CASE Goto(t, "o_swap") /\ UNCHANGED <<cur, saw>>
    BY <1>0, <1>3, <2>3 DEF OnceRead, TypeOK
  <2> QED BY <1>3, <2>2, <2>3 DEF OnceRead
<1>4. ASSUME NEW t \in Threads, OnceSwap(t) PROVE TypeOK'
  <2>1. cur[t].once \in Onces
    BY <1>0a, <1>4 DEF OnceSwap, OnceAt
  <2>2. CASE OnceReturns(t) /\ UNCHANGED <<state, within, ran>>
    BY <1>0, <1>0b, <1>4, <2>1, <2>2 DEF OnceSwap, TypeOK
  <2>3. CASE UNCHANGED <<cur, saw>>
    BY <1>0, <1>4, <2>1, <2>3 DEF OnceSwap, OnceReturns, Return, TypeOK
  <2> QED BY <1>4, <2>2, <2>3 DEF OnceSwap
<1>5. ASSUME NEW t \in Threads, OnceWait(t) PROVE TypeOK'
  <2>1. cur[t].once \in Onces
    BY <1>0a, <1>5 DEF OnceWait, OnceAt
  <2> QED BY <1>0, <1>0b, <1>5, <2>1 DEF OnceWait, TypeOK
<1>6. ASSUME NEW t \in Threads, OnceOwner(t) \/ OnceClear(t) PROVE TypeOK'
  BY <1>0, <1>6 DEF OnceOwner, OnceClear, TypeOK
<1>7. ASSUME NEW t \in Threads, InitReturns(t) PROVE TypeOK'
  BY <1>0, <1>0a, <1>7 DEF InitReturns, TypeOK, OnceAt
<1>8. ASSUME NEW t \in Threads, OnceDone(t) PROVE TypeOK'
  BY <1>0, <1>0a, <1>8 DEF OnceDone, Return, TypeOK, OnceAt
<1>9. ASSUME NEW t \in Threads, LockRead(t) \/ LockMutex(t) \/ LockOwner(t) PROVE TypeOK'
  BY <1>0, <1>9 DEF LockRead, LockMutex, LockOwner, TypeOK
<1>10. ASSUME NEW t \in Threads, TryMutex(t) PROVE TypeOK'
  BY <1>0, <1>10 DEF TryMutex, Return, TypeOK
<1>11. ASSUME NEW t \in Threads, LockDepth(t) PROVE TypeOK'
  <2>1. hold[t] < MaxDepth /\ depth = hold[t]
    BY <1>0a, <1>11 DEF LockDepth, MutexAt, Locking, IInv, MutexInv
  <2> QED BY <1>0, <1>11, <2>1 DEF LockDepth, Return, TypeOK
<1>12. ASSUME NEW t \in Threads, Unlock(t) PROVE TypeOK'
  <2>1. depth = hold[t]
    BY <1>0a, <1>12 DEF Unlock, MutexAt, IInv, MutexInv
  <2>2. depth' \in 0 .. MaxDepth /\ hold' \in [Threads -> 0 .. MaxDepth]
    BY <1>0, <1>12, <2>1 DEF Unlock, TypeOK
  <2>3. pc' \in [Threads -> Labels]
    BY <1>0, <1>12 DEF Unlock, Return, TypeOK
  <2> QED BY <1>0, <1>12, <2>2, <2>3 DEF Unlock, TypeOK
<1>13. ASSUME NEW t \in Threads, UnlockClear(t) PROVE TypeOK'
  BY <1>0, <1>13 DEF UnlockClear, TypeOK
<1>14. ASSUME NEW t \in Threads, UnlockMutex(t) PROVE TypeOK'
  BY <1>0, <1>14 DEF UnlockMutex, Return, TypeOK
<1>15. CASE UNCHANGED vars
  BY <1>0, <1>15 DEF TypeOK, vars
<1> QED
  BY <1>1, <1>2, <1>3, <1>4, <1>5, <1>6, <1>7, <1>8, <1>9, <1>10, <1>11, <1>12,
     <1>13, <1>14, <1>15
     DEF Next, Step, Call

(* A step of a once, or the call of one, leaves the mutex alone. *)
LEMMA MutexFrame ==
    ASSUME IInv, NEW t \in Threads, UNCHANGED mutex_vars,
           pc'[t] \notin Locking \union {"u_clear", "u_mutex"},
           \A u \in Threads \ {t} : pc'[u] = pc[u]
    PROVE  MutexInv'
<1>1. ASSUME NEW u \in Threads PROVE MutexAt(u)'
  <2>1. MutexAt(u)
    BY DEF IInv, MutexInv
  <2>2. CASE u = t
    BY <2>1, <2>2 DEF MutexAt, mutex_vars, Locking
  <2>3. CASE u # t
    BY <2>1, <2>3 DEF MutexAt, mutex_vars, Locking
  <2> QED BY <2>2, <2>3
<1> QED BY <1>1 DEF IInv, MutexInv, mutex_vars

(* Every action keeps the owner and the depth of the recursive mutex. *)
LEMMA NextMutexInv == IInv /\ [Next]_vars => MutexInv'
<1> SUFFICES ASSUME IInv, [Next]_vars PROVE MutexInv'
  OBVIOUS
<1> USE MulleThreadAssumption
<1>0. TypeOK /\ MutexInv /\ TypeOK'
  BY NextTypeOK DEF IInv
<1>1. ASSUME NEW t \in Threads, NEW o, NEW b, OnceCall(t, o, b) PROVE MutexInv'
  BY <1>0, <1>1, MutexFrame DEF OnceCall, Goto, TypeOK, Locking
<1>2. ASSUME NEW t \in Threads,
             OnceRead(t) \/ OnceSwap(t) \/ OnceWait(t) \/ OnceOwner(t)
             \/ InitReturns(t) \/ OnceClear(t) \/ OnceDone(t)
      PROVE  MutexInv'
  <2>1. UNCHANGED mutex_vars
    BY <1>2 DEF OnceRead, OnceSwap, OnceWait, OnceOwner, InitReturns, OnceClear, OnceDone
  <2>2. \E l \in {"idle", "init", "o_swap", "o_wait", "o_owner", "o_clear", "o_done"} : Goto(t, l)
    BY <1>2 DEF OnceRead, OnceSwap, OnceWait, OnceOwner, InitReturns, OnceClear, OnceDone,
                OnceReturns, Return
  <2>3. /\ pc'[t] \notin Locking \union {"u_clear", "u_mutex"}
        /\ \A u \in Threads \ {t} : pc'[u] = pc[u]
    BY <1>0, <2>2 DEF Goto, TypeOK, Locking
  <2> QED BY <2>1, <2>3, MutexFrame
<1> USE DEF MutexInv, MutexAt, Locking, Goto, TypeOK
<1>3. ASSUME NEW t \in Threads, NEW l \in {"l_read", "t_read"}, LockCall(t, l) PROVE MutexInv'
  BY <1>0, <1>3 DEF LockCall, mutex_vars
<1>4. ASSUME NEW t \in Threads, LockRead(t) PROVE MutexInv'
  BY <1>0, <1>4 DEF LockRead, mutex_vars
<1>5. ASSUME NEW t \in Threads, LockMutex(t) PROVE MutexInv'
  BY <1>0, <1>5 DEF LockMutex
<1>6. ASSUME NEW t \in Threads, TryMutex(t) PROVE MutexInv'
  <2>1. CASE mutex = None
    BY <1>0, <1>6, <2>1 DEF TryMutex
  <2>2. CASE mutex # None
    <3>1. UNCHANGED mutex_vars /\ (Goto(t, "idle") \/ Goto(t, "init"))
      BY <1>6, <2>2 DEF TryMutex, mutex_vars, Return
    <3> QED BY <1>0, <3>1, MutexFrame
  <2> QED BY <2>1, <2>2
<1>7. ASSUME NEW t \in Threads, LockOwner(t) PROVE MutexInv'
  BY <1>0, <1>7 DEF LockOwner
<1>8. ASSUME NEW t \in Threads, LockDepth(t) PROVE MutexInv'
  <2>1. Goto(t, "idle") \/ Goto(t, "init")
    BY <1>8 DEF LockDepth, Return
  <2> QED BY <1>0, <1>8, <2>1 DEF LockDepth
<1>9. ASSUME NEW t \in Threads, Unlock(t) PROVE MutexInv'
  <2>1. mutex = t /\ thread_id = t /\ depth = hold[t]
    BY <1>0, <1>9 DEF Unlock
  <2>2. CASE depth > 1
    <3>1. Goto(t, "idle") \/ Goto(t, "init")
      BY <1>9, <2>2 DEF Unlock, Return
    <3> QED BY <1>0, <1>9, <2>1, <2>2, <3>1 DEF Unlock
  <2>3. CASE ~(depth > 1)
    BY <1>0, <1>9, <2>1, <2>3 DEF Unlock
  <2> QED BY <2>2, <2>3
<1>10. ASSUME NEW t \in Threads, UnlockClear(t) PROVE MutexInv'
  BY <1>0, <1>10 DEF UnlockClear
<1>11. ASSUME NEW t \in Threads, UnlockMutex(t) PROVE MutexInv'
  <2>1. Goto(t, "idle") \/ Goto(t, "init")
    BY <1>11 DEF UnlockMutex, Return
  <2> QED BY <1>0, <1>11, <2>1 DEF UnlockMutex
<1>12. CASE UNCHANGED vars
  BY <1>0, <1>12 DEF vars, mutex_vars
<1> QED
  BY <1>1, <1>2, <1>3, <1>4, <1>5, <1>6, <1>7, <1>8, <1>9, <1>10, <1>11, <1>12
     DEF Next, Step, Call

(* A step of the mutex leaves the onces alone, and returns to where the    *)
(* thread came from.                                                       *)
LEMMA OnceFrame ==
    ASSUME IInv, NEW t \in Threads, UNCHANGED <<once_vars, cur, saw>>,
           pc[t] \notin {"o_read", "o_swap", "o_wait", "o_owner", "o_clear", "o_done"},
           pc'[t] \notin {"o_read", "o_swap", "o_wait", "o_owner", "o_clear", "o_done"},
           pc'[t] = "idle" => within[t] = None,
           pc'[t] = "init" => within[t] # None,
           \A u \in Threads \ {t} : pc'[u] = pc[u]
    PROVE  OnceInv'
<1>1. ASSUME NEW u \in Threads PROVE OnceAt(u)'
  <2>1. OnceAt(u)
    BY DEF IInv, OnceInv
  <2>2. CASE u = t
    BY <2>1, <2>2 DEF OnceAt, once_vars
  <2>3. CASE u # t
    BY <2>1, <2>3 DEF OnceAt, once_vars
  <2> QED BY <2>2, <2>3
<1>2. ASSUME NEW o \in Onces PROVE StateAt(o)'
  <2>1. StateAt(o)
    BY DEF IInv, OnceInv
  <2> QED BY <2>1 DEF StateAt, once_vars
<1>3. \A u, v \in Threads : within'[u] = within'[v] /\ within'[u] # None => u = v
  BY DEF IInv, OnceInv, once_vars
<1> QED BY <1>1, <1>2, <1>3 DEF OnceInv

(* A call of a once returns: it is no initializer's end, and a blocking    *)
(* call from outside has found the once done.                              *)
LEMMA ReturnFrame ==
    ASSUME IInv, TypeOK', NEW t \in Threads, UNCHANGED once_vars, OnceReturns(t),
           pc[t] \in {"o_read", "o_swap", "o_wait"},
           cur[t].block /\ within[t] = None => state[cur[t].once] = "done"
    PROVE  OnceInv'
<1>0. TypeOK /\ OnceInv
  BY DEF IInv
<1>1. pc' = [pc EXCEPT ![t] = IF within[t] = None THEN "idle" ELSE "init"]
  BY DEF OnceReturns, Return, Goto, once_vars
<1>2. ASSUME NEW u \in Threads, NEW o \in saw'[u] PROVE state[o] = "done"
  <2>1. CASE cur[t].block /\ within[t] = None
    <3>1. saw' = [saw EXCEPT ![t] = @ \union {cur[t].once}]
      BY <2>1 DEF OnceReturns
    <3>2. o \in saw[u] \/ o = cur[t].once
      BY <1>0, <1>2, <3>1 DEF TypeOK
    <3> QED BY <1>0, <2>1, <3>2 DEF OnceInv, OnceAt
  <2>2. CASE ~(cur[t].block /\ within[t] = None)
    <3>1. saw' = saw
      BY <2>2 DEF OnceReturns
    <3> QED BY <1>0, <1>2, <3>1 DEF OnceInv, OnceAt
  <2> QED BY <2>1, <2>2
<1>3. ASSUME NEW u \in Threads PROVE OnceAt(u)'
  <2>1. OnceAt(u)
    BY <1>0 DEF OnceInv
  <2>2. CASE u = t
    BY <1>0, <1>1, <1>2, <2>1, <2>2, MulleThreadAssumption DEF OnceAt, once_vars, TypeOK
  <2>3. CASE u # t
    <3>1. pc'[u] = pc[u] /\ cur'[u] = cur[u]
      BY <1>0, <1>1, <2>3 DEF TypeOK, OnceReturns
    <3> QED BY <1>2, <2>1, <3>1 DEF OnceAt, once_vars
  <2> QED BY <2>2, <2>3
<1>4. ASSUME NEW o \in Onces PROVE StateAt(o)'
  <2>1. StateAt(o)
    BY <1>0 DEF OnceInv
  <2> QED BY <1>0, <1>1, <2>1 DEF StateAt, once_vars, TypeOK
<1>5. \A u, v \in Threads : within'[u] = within'[v] /\ within'[u] # None => u = v
  BY <1>0 DEF OnceInv, once_vars
<1> QED BY <1>3, <1>4, <1>5 DEF OnceInv

(* Every action keeps what is known of the onces. *)
LEMMA NextOnceInv == IInv /\ [Next]_vars => OnceInv'
<1> SUFFICES ASSUME IInv, [Next]_vars PROVE OnceInv'
  OBVIOUS
<1> USE MulleThreadAssumption DEF Goto, once_vars, Onces
<1>0. TypeOK /\ OnceInv /\ TypeOK'
  BY NextTypeOK DEF IInv
<1>1. ASSUME NEW t \in Threads, NEW o \in Onces, NEW b \in BOOLEAN, OnceCall(t, o, b)
      PROVE  OnceInv'
  BY <1>0, <1>1 DEF OnceCall, TypeOK, OnceInv, OnceAt, StateAt
<1>2. ASSUME NEW t \in Threads, OnceRead(t) PROVE OnceInv'
  <2>1. CASE once_thread = t /\ OnceReturns(t)
    <3>1. within[t] # None
      BY <1>0, <2>1 DEF OnceInv, OnceAt
    <3> QED BY <1>0, <1>2, <2>1, <3>1, ReturnFrame DEF OnceRead
  <2>2. CASE once_thread # t /\ Goto(t, "o_swap") /\ UNCHANGED <<cur, saw>>
    BY <1>0, <1>2, <2>2 DEF OnceRead, TypeOK, OnceInv, OnceAt, StateAt
  <2> QED BY <1>2, <2>1, <2>2 DEF OnceRead
<1>3. ASSUME NEW t \in Threads, OnceSwap(t) PROVE OnceInv'
  <2> DEFINE o == cur[t].once
  <2>1. o \in Onces /\ within[t] = None
    BY <1>0, <1>3 DEF OnceSwap, OnceInv, OnceAt
  <2>2. CASE state[o] = "data"
    <3>1. /\ state' = [state EXCEPT ![o] = "busy"] /\ within' = [within EXCEPT ![t] = o]
          /\ ran' = [ran EXCEPT ![o] = @ + 1] /\ UNCHANGED <<once_thread, ready, cur, saw>>
          /\ pc' = [pc EXCEPT ![t] = IF o = "recursive" THEN "o_owner" ELSE "init"]
      BY <1>3, <2>2 DEF OnceSwap
    <3>2. \A u \in Threads : within[u] # o
      BY <1>0, <2>1, <2>2 DEF OnceInv, StateAt
    <3> HIDE DEF o
    <3>3. ASSUME NEW u \in Threads PROVE OnceAt(u)'
      <4>1. OnceAt(u)
        BY <1>0 DEF OnceInv
      <4>2. \A p \in saw[u] : state'[p] = "done"
        BY <1>0, <2>1, <2>2, <3>1, <4>1 DEF TypeOK, OnceAt
      <4>3. CASE u = t
        BY <1>0, <2>1, <3>1, <4>1, <4>2, <4>3 DEF TypeOK, OnceAt
      <4>4. CASE u # t
        BY <1>0, <2>1, <3>1, <4>1, <4>2, <4>4 DEF TypeOK, OnceAt
      <4> QED BY <4>3, <4>4
    <3>4. ASSUME NEW p \in Onces PROVE StateAt(p)'
      <4>1. StateAt(p)
        BY <1>0 DEF OnceInv
      <4> QED BY <1>0, <2>1, <2>2, <3>1, <3>2, <4>1 DEF TypeOK, StateAt
    <3>5. \A u, v \in Threads : within'[u] = within'[v] /\ within'[u] # None => u = v
      BY <1>0, <3>1, <3>2 DEF OnceInv, TypeOK
    <3> QED BY <3>3, <3>4, <3>5 DEF OnceInv
  <2>3. CASE /\ state[o] = "done" \/ (state[o] = "busy" /\ ~cur[t].block)
             /\ UNCHANGED <<state, within, ran>> /\ OnceReturns(t)
    BY <1>0, <1>3, <2>3, ReturnFrame DEF OnceSwap
  <2>4. CASE Goto(t, "o_wait") /\ UNCHANGED <<state, within, ran, cur, saw>>
    BY <1>0, <1>3, <2>1, <2>4 DEF OnceSwap, TypeOK, OnceInv, OnceAt, StateAt
  <2> QED BY <1>3, <2>2, <2>3, <2>4 DEF OnceSwap
<1>4. ASSUME NEW t \in Threads, OnceWait(t) PROVE OnceInv'
  BY <1>0, <1>4, ReturnFrame DEF OnceWait
<1>5. ASSUME NEW t \in Threads, OnceOwner(t) PROVE OnceInv'
  <2>1. within[t] = "recursive" /\ \A u \in Threads : within[u] = "recursive" => u = t
    BY <1>0, <1>5 DEF OnceOwner, OnceInv, OnceAt
  <2> QED BY <1>0, <1>5, <2>1 DEF OnceOwner, TypeOK, OnceInv, OnceAt, StateAt
<1>6. ASSUME NEW t \in Threads, InitReturns(t) PROVE OnceInv'
  <2>1. within[t] \in Onces /\ \A u \in Threads : within[u] = within[t] => u = t
    BY <1>0, <1>6 DEF InitReturns, OnceInv, OnceAt, TypeOK
  <2>2. ready[within[t]] = 0
    BY <1>0, <1>6, <2>1 DEF InitReturns, OnceInv, StateAt
  <2>3. ASSUME NEW u \in Threads PROVE OnceAt(u)'
    <3>1. OnceAt(u)
      BY <1>0 DEF OnceInv
    <3> QED BY <1>0, <1>6, <2>1, <3>1 DEF InitReturns, TypeOK, OnceAt
  <2>4. ASSUME NEW o \in Onces PROVE StateAt(o)'
    <3>1. StateAt(o)
      BY <1>0 DEF OnceInv
    <3> QED BY <1>0, <1>6, <2>1, <2>2, <3>1 DEF InitReturns, TypeOK, StateAt
  <2> QED BY <1>0, <1>6, <2>3, <2>4 DEF InitReturns, OnceInv
<1>7. ASSUME NEW t \in Threads, OnceClear(t) PROVE OnceInv'
  <2>1. within[t] = "recursive" /\ \A u \in Threads : within[u] = "recursive" => u = t
    BY <1>0, <1>7 DEF OnceClear, OnceInv, OnceAt
  <2> QED BY <1>0, <1>7, <2>1 DEF OnceClear, TypeOK, OnceInv, OnceAt, StateAt
<1>8. ASSUME NEW t \in Threads, OnceDone(t) PROVE OnceInv'
  <2> DEFINE o == within[t]
  <2>1. o \in Onces /\ (\A u \in Threads : within[u] = o => u = t) /\ state[o] = "busy"
        /\ ready[o] = 1 /\ ran[o] = 1
    BY <1>0, <1>8 DEF OnceDone, OnceInv, OnceAt, StateAt, TypeOK
  <2>2. /\ state' = [state EXCEPT ![o] = "done"] /\ within' = [within EXCEPT ![t] = None]
        /\ saw' = [saw EXCEPT ![t] = @ \union {o}]
        /\ cur' = [cur EXCEPT ![t] = [once |-> None, block |-> FALSE]]
        /\ UNCHANGED <<once_thread, ran, ready>>
    BY <1>0, <1>8, <2>1 DEF OnceDone, TypeOK
  <2>3. pc' = [pc EXCEPT ![t] = "idle"]
    BY <1>0, <1>8, <2>2 DEF OnceDone, Return, TypeOK
  <2>4. pc[t] = "o_done" /\ once_thread # t
    BY <1>0, <1>8 DEF OnceDone, OnceInv, OnceAt
  <2> HIDE DEF o
  <2>5. ASSUME NEW u \in Threads PROVE OnceAt(u)'
    <3>1. OnceAt(u)
      BY <1>0 DEF OnceInv
    <3>2. \A p \in saw'[u] : state'[p] = "done"
      BY <1>0, <2>1, <2>2, <3>1 DEF TypeOK, OnceAt
    <3> QED BY <1>0, <2>1, <2>2, <2>3, <2>4, <3>1, <3>2 DEF TypeOK, OnceAt
  <2>6. ASSUME NEW p \in Onces PROVE StateAt(p)'
    <3>1. StateAt(p)
      BY <1>0 DEF OnceInv
    <3> QED BY <1>0, <2>1, <2>2, <2>3, <3>1 DEF TypeOK, StateAt
  <2>7. \A u, v \in Threads : within'[u] = within'[v] /\ within'[u] # None => u = v
    BY <1>0, <2>2 DEF OnceInv, TypeOK
  <2> QED BY <2>5, <2>6, <2>7 DEF OnceInv
<1>9. ASSUME NEW t \in Threads,
             \/ \E l \in {"l_read", "t_read"} : LockCall(t, l)
             \/ LockRead(t) \/ LockMutex(t) \/ TryMutex(t) \/ LockOwner(t)
             \/ LockDepth(t) \/ Unlock(t) \/ UnlockClear(t) \/ UnlockMutex(t)
      PROVE  OnceInv'
  <2>1. UNCHANGED <<once_vars, cur, saw>>
    BY <1>9 DEF LockCall, LockRead, LockMutex, TryMutex, LockOwner, LockDepth, Unlock,
                UnlockClear, UnlockMutex
  <2>2. pc[t] \in Locking \union {"idle", "init", "u_clear", "u_mutex"}
    BY <1>9 DEF LockCall, LockRead, LockMutex, TryMutex, LockOwner, LockDepth, Unlock,
                UnlockClear, UnlockMutex, Locking
  <2>3. \/ \E l \in Locking \union {"u_clear", "u_mutex"} : Goto(t, l)
        \/ Goto(t, IF within[t] = None THEN "idle" ELSE "init")
    BY <1>9 DEF LockCall, LockRead, LockMutex, TryMutex, LockOwner, LockDepth, Unlock,
                UnlockClear, UnlockMutex, Locking, Return
  <2>4. /\ pc'[t] = "idle" => within[t] = None
        /\ pc'[t] = "init" => within[t] # None
        /\ pc'[t] \notin {"o_read", "o_swap", "o_wait", "o_owner", "o_clear", "o_done"}
        /\ \A u \in Threads \ {t} : pc'[u] = pc[u]
    BY <1>0, <2>3 DEF TypeOK, Locking
  <2> QED BY <2>1, <2>2, <2>4, OnceFrame DEF Locking
<1>10. CASE UNCHANGED vars
  BY <1>0, <1>10 DEF vars, OnceInv, OnceAt, StateAt
<1> QED
  BY <1>1, <1>2, <1>3, <1>4, <1>5, <1>6, <1>7, <1>8, <1>9, <1>10 DEF Next, Step, Call

(* Every step keeps the inductive invariant. *)
LEMMA NextIInv == IInv /\ [Next]_vars => IInv'
  BY NextTypeOK, NextMutexInv, NextOnceInv DEF IInv

(* The types, and what is known at every label, hold throughout.           *)
THEOREM Invariance == Spec => []IInv
  BY InitIInv, NextIInv, PTL DEF Spec

(* mulle_thread_once and its variants call the initializer at most once,   *)
(* and a blocking call that has returned to a thread outside any           *)
(* initializer returned after the initializer did, whichever threads race. *)
THEOREM OnceProtected == Spec => []OnceProtects
<1>1. IInv => OnceProtects
  BY DEF IInv, TypeOK, OnceInv, OnceAt, StateAt, OnceProtects
<1> QED BY <1>1, Invariance, PTL

(* The recursive mutex: whoever has been given a lock is the mutex's and   *)
(* the recorded owner, the depth is the number of its locks, and the       *)
(* asserts of lock and unlock hold.                                        *)
THEOREM OwnerIsExact == Spec => []OwnerExact
<1>1. IInv => OwnerExact
  BY DEF IInv, MutexInv, MutexAt, OwnerExact
<1> QED BY <1>1, Invariance, PTL
=============================================================================
