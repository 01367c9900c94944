---------------------------- MODULE MulleThread -----------------------------
(***************************************************************************)
(* mulle-thread: the once variants and the recursive mutex.                *)
(*                                                                         *)
(* "once" is a mulle_thread_once_t, "recursive" a                          *)
(* mulle_thread_once_recursive_t, whose initializer may call the once      *)
(* again.  An initializer may use the mutex; a thread that has the mutex   *)
(* does not wait for a once.  Rounds of a spin loop that change nothing    *)
(* are left out.                                                           *)
(***************************************************************************)
EXTENDS Integers, FiniteSets

CONSTANTS
    Threads,
    None,          \* no thread, no once
    MaxCalls,      \* bound on the calls, unlock not counted
    MaxDepth       \* bound on the locks a thread has

ASSUME MulleThreadAssumption ==
    None \notin Threads /\ None \notin {"once", "recursive"}
    /\ MaxCalls \in Nat /\ MaxDepth \in Nat

VARIABLES
    state,         \* of each once: "data", "busy", "done"
    once_thread,   \* the recursive once's _thread_id
    mutex,         \* who has _mutex
    thread_id,     \* the recursive mutex's _thread_id
    depth,         \* and _depth
    pc,
    cur,           \* per thread: the once it calls, whether it waits
    within,        \* the once whose initializer it runs
    hold,          \* the locks it has
    ran, ready,    \* of each once: how often init was called, has returned
    saw,           \* the onces whose blocking call has returned to the thread
    calls

once_vars == <<state, once_thread, within, ran, ready>>
mutex_vars == <<mutex, thread_id, depth, hold>>
vars == <<once_vars, mutex_vars, pc, cur, saw, calls>>

Onces == {"once", "recursive"}

Labels == {"idle", "init", "o_read", "o_swap", "o_wait", "o_owner", "o_clear", "o_done",
           "l_read", "l_mutex", "l_owner", "t_read", "t_mutex", "t_owner", "depth",
           "u_clear", "u_mutex"}

Init ==
    /\ state = [o \in Onces |-> "data"] /\ once_thread = None
    /\ mutex = None /\ thread_id = None /\ depth = 0
    /\ pc = [t \in Threads |-> "idle"]
    /\ cur = [t \in Threads |-> [once |-> None, block |-> FALSE]]
    /\ within = [t \in Threads |-> None]
    /\ hold = [t \in Threads |-> 0]
    /\ ran = [o \in Onces |-> 0] /\ ready = [o \in Onces |-> 0]
    /\ saw = [t \in Threads |-> {}]
    /\ calls = 0

Goto(t, l) == pc' = [pc EXCEPT ![t] = l]

(* Back to the client, or to the initializer the thread was in. *)
Return(t) == Goto(t, IF within'[t] = None THEN "idle" ELSE "init")

(* A call of a once returns; saw does not count the calls that may return  *)
(* early: noblock, and the initializer's own.                              *)
OnceReturns(t) ==
    /\ Return(t)
    /\ cur' = [cur EXCEPT ![t] = [once |-> None, block |-> FALSE]]
    /\ saw' = IF cur[t].block /\ within[t] = None
              THEN [saw EXCEPT ![t] = @ \union {cur[t].once}] ELSE saw

-----------------------------------------------------------------------------
(* once, once_call, once_noblock, once_call_recursive *)

OnceCall(t, o, block) ==
    /\ pc[t] = "idle" \/ (pc[t] = "init" /\ within[t] = "recursive" /\ o = "recursive")
    /\ calls < MaxCalls /\ hold[t] = 0
    /\ calls' = calls + 1
    /\ cur' = [cur EXCEPT ![t] = [once |-> o, block |-> block]]
    /\ Goto(t, IF o = "recursive" THEN "o_read" ELSE "o_swap")
    /\ UNCHANGED <<once_vars, mutex_vars, saw>>

(* "If same thread owns it, return immediately (recursive call)" *)
OnceRead(t) ==
    /\ pc[t] = "o_read"
    /\ UNCHANGED once_vars
    /\ \/ once_thread = t /\ OnceReturns(t)
       \/ once_thread # t /\ Goto(t, "o_swap") /\ UNCHANGED <<cur, saw>>
    /\ UNCHANGED <<mutex_vars, calls>>

OnceSwap(t) ==
    /\ pc[t] = "o_swap"
    /\ LET o == cur[t].once
       IN \/ /\ state[o] = "data"
             /\ state' = [state EXCEPT ![o] = "busy"]
             /\ within' = [within EXCEPT ![t] = o]
             /\ ran' = [ran EXCEPT ![o] = @ + 1]
             /\ Goto(t, IF o = "recursive" THEN "o_owner" ELSE "init")
             /\ UNCHANGED <<cur, saw>>
          \/ /\ state[o] = "done" \/ (state[o] = "busy" /\ ~cur[t].block)
             /\ UNCHANGED <<state, within, ran>>
             /\ OnceReturns(t)
          \/ /\ state[o] = "busy" /\ cur[t].block
             /\ Goto(t, "o_wait") /\ UNCHANGED <<state, within, ran, cur, saw>>
    /\ UNCHANGED <<once_thread, ready, mutex_vars, calls>>

(* Mutant: it waits until the state is not DATA. *)
OnceWaitBusy(t) ==
    /\ pc[t] = "o_wait" /\ state[cur[t].once] # "data"
    /\ UNCHANGED once_vars
    /\ OnceReturns(t)
    /\ UNCHANGED <<mutex_vars, calls>>

(* do yield while state != DONE *)
OnceWait(t) ==
    /\ pc[t] = "o_wait" /\ state[cur[t].once] = "done"
    /\ UNCHANGED once_vars
    /\ OnceReturns(t)
    /\ UNCHANGED <<mutex_vars, calls>>

(* Mutant: the thread ID is not stored. *)
OnceOwnerForgotten(t) ==
    /\ pc[t] = "o_owner"
    /\ Goto(t, "init")
    /\ UNCHANGED <<once_vars, mutex_vars, cur, saw, calls>>

OnceOwner(t) ==
    /\ pc[t] = "o_owner"
    /\ once_thread' = t
    /\ Goto(t, "init")
    /\ UNCHANGED <<state, within, ran, ready, mutex_vars, cur, saw, calls>>

(* init returns. *)
InitReturns(t) ==
    /\ pc[t] = "init" /\ hold[t] = 0
    /\ ready' = [ready EXCEPT ![within[t]] = @ + 1]
    /\ cur' = [cur EXCEPT ![t] = [once |-> within[t], block |-> TRUE]]
    /\ Goto(t, IF within[t] = "recursive" THEN "o_clear" ELSE "o_done")
    /\ UNCHANGED <<state, once_thread, within, ran, mutex_vars, saw, calls>>

OnceClear(t) ==
    /\ pc[t] = "o_clear"
    /\ once_thread' = None
    /\ Goto(t, "o_done")
    /\ UNCHANGED <<state, within, ran, ready, mutex_vars, cur, saw, calls>>

OnceDone(t) ==
    /\ pc[t] = "o_done"
    /\ state' = [state EXCEPT ![within[t]] = IF @ = "busy" THEN "done" ELSE @]
    /\ within' = [within EXCEPT ![t] = None]
    /\ Return(t)
    /\ saw' = [saw EXCEPT ![t] = @ \union {within[t]}]
    /\ cur' = [cur EXCEPT ![t] = [once |-> None, block |-> FALSE]]
    /\ UNCHANGED <<once_thread, ran, ready, mutex_vars, calls>>

-----------------------------------------------------------------------------
(* The recursive mutex *)

LockCall(t, l) ==
    /\ pc[t] \in {"idle", "init"} /\ calls < MaxCalls /\ hold[t] < MaxDepth
    /\ calls' = calls + 1
    /\ Goto(t, l)
    /\ UNCHANGED <<once_vars, mutex_vars, cur, saw>>

(* lock and trylock: is this thread the owner? *)
LockRead(t) ==
    /\ pc[t] \in {"l_read", "t_read"}
    /\ Goto(t, IF thread_id = t THEN "depth"
               ELSE IF pc[t] = "l_read" THEN "l_mutex" ELSE "t_mutex")
    /\ UNCHANGED <<once_vars, mutex_vars, cur, saw, calls>>

LockMutex(t) ==
    /\ pc[t] = "l_mutex" /\ mutex = None
    /\ mutex' = t
    /\ Goto(t, "l_owner")
    /\ UNCHANGED <<once_vars, thread_id, depth, hold, cur, saw, calls>>

TryMutex(t) ==
    /\ pc[t] = "t_mutex"
    /\ UNCHANGED <<once_vars, thread_id, depth, hold>>
    /\ \/ mutex = None /\ mutex' = t /\ Goto(t, "t_owner")
       \/ mutex # None /\ Return(t) /\ UNCHANGED mutex
    /\ UNCHANGED <<cur, saw, calls>>

LockOwner(t) ==
    /\ pc[t] \in {"l_owner", "t_owner"}
    /\ thread_id' = t
    /\ Goto(t, "depth")
    /\ UNCHANGED <<once_vars, mutex, depth, hold, cur, saw, calls>>

LockDepth(t) ==
    /\ pc[t] = "depth"
    /\ depth' = depth + 1
    /\ hold' = [hold EXCEPT ![t] = @ + 1]
    /\ UNCHANGED <<once_vars, mutex, thread_id>>
    /\ Return(t)
    /\ UNCHANGED <<cur, saw, calls>>

(* decrement returns the depth there was *)
Unlock(t) ==
    /\ pc[t] \in {"idle", "init"} /\ hold[t] > 0
    /\ depth' = depth - 1
    /\ hold' = [hold EXCEPT ![t] = @ - 1]
    /\ UNCHANGED <<once_vars, mutex, thread_id>>
    /\ IF depth > 1 THEN Return(t) ELSE Goto(t, "u_clear")
    /\ UNCHANGED <<cur, saw, calls>>

(* Mutant: the owner stays. *)
UnlockClearForgotten(t) ==
    /\ pc[t] = "u_clear"
    /\ Goto(t, "u_mutex")
    /\ UNCHANGED <<once_vars, mutex_vars, cur, saw, calls>>

UnlockClear(t) ==
    /\ pc[t] = "u_clear"
    /\ thread_id' = None
    /\ Goto(t, "u_mutex")
    /\ UNCHANGED <<once_vars, mutex, depth, hold, cur, saw, calls>>

UnlockMutex(t) ==
    /\ pc[t] = "u_mutex"
    /\ mutex' = None
    /\ UNCHANGED <<once_vars, thread_id, depth, hold>>
    /\ Return(t)
    /\ UNCHANGED <<cur, saw, calls>>

-----------------------------------------------------------------------------
Step(t) ==
    \/ OnceRead(t) \/ OnceSwap(t) \/ OnceWait(t) \/ OnceOwner(t) \/ InitReturns(t)
    \/ OnceClear(t) \/ OnceDone(t)
    \/ LockRead(t) \/ LockMutex(t) \/ TryMutex(t) \/ LockOwner(t) \/ LockDepth(t)
    \/ Unlock(t) \/ UnlockClear(t) \/ UnlockMutex(t)

Call(t) ==
    \/ OnceCall(t, "once", TRUE) \/ OnceCall(t, "once", FALSE) \/ OnceCall(t, "recursive", TRUE)
    \/ LockCall(t, "l_read") \/ LockCall(t, "t_read")

Next == \E t \in Threads : Step(t) \/ Call(t)

Spec == Init /\ [][Next]_vars

(* Threads keep running, initializers return, and who has the mutex gives  *)
(* it back.                                                                *)
FairSpec == Spec /\ \A t \in Threads : WF_vars(Step(t))

-----------------------------------------------------------------------------
TypeOK ==
    /\ state \in [Onces -> {"data", "busy", "done"}]
    /\ {once_thread, mutex, thread_id} \subseteq Threads \union {None}
    /\ depth \in 0 .. MaxDepth /\ hold \in [Threads -> 0 .. MaxDepth]
    /\ pc \in [Threads -> Labels]
    /\ cur \in [Threads -> [once : Onces \union {None}, block : BOOLEAN]]
    /\ within \in [Threads -> Onces \union {None}]
    /\ ran \in [Onces -> Nat] /\ ready \in [Onces -> Nat]
    /\ saw \in [Threads -> SUBSET Onces] /\ calls \in 0 .. MaxCalls

(* The initializer runs once, and nobody returns from a blocking call      *)
(* before it has returned.                                                 *)
OnceProtects ==
    /\ \A o \in Onces : ran[o] <= 1
    /\ \A t \in Threads : \A o \in saw[t] : ready[o] = 1

(* The types hold, the threads whose lock calls have returned exclude each *)
(* other, the depth counts those calls, and the asserts of lock and unlock *)
(* hold.                                                                   *)
OwnerExact ==
    /\ TypeOK
    /\ \A t \in Threads : hold[t] > 0 => mutex = t /\ thread_id = t
    /\ depth = IF mutex = None THEN 0 ELSE hold[mutex]
    /\ \A t \in Threads : pc[t] = "l_owner" => thread_id = None
    /\ thread_id # None => mutex = thread_id

(* Every call returns, if the initializers and the holders of the mutex    *)
(* do: nobody spins on a once that nobody runs, the initializer that calls *)
(* its own once does not wait for itself, and no unlock leaves the mutex   *)
(* behind.                                                                 *)
EveryCallReturns == \A t \in Threads : pc[t] # "idle" ~> pc[t] = "idle"
=============================================================================
