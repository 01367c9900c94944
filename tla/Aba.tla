-------------------------------- MODULE Aba ---------------------------------
(***************************************************************************)
(* mulle-aba: memory that other threads may still read is freed once every *)
(* thread that was registered has checked in.                              *)
(*                                                                         *)
(* One atomic word points to the world, a struct that is never changed but *)
(* copied and swapped, and has two bits: "bit", set when a thread has      *)
(* checked in since the timestamp was advanced, and "lock", which keeps a  *)
(* world alive for a thread that is not registered yet.  The worlds share  *)
(* the timestamp storages; an entry of a storage has the pointers to free  *)
(* and counts the threads that have not checked in.  Old worlds are freed  *)
(* through the very same entries.                                          *)
(*                                                                         *)
(* One action per access to the world word, to a retain count or to a      *)
(* pointer list.  What a thread computes from a world, and a failed swap   *)
(* and the read after it, are one step.  The world and storage structs are *)
(* numbers, and a freed number is used again by the next allocation.  The  *)
(* lists of free entries and cached worlds are ConcurrentLinkedList's.     *)
(***************************************************************************)
EXTENDS Integers, Sequences, FiniteSets

LOCAL INSTANCE SequencesExt

CONSTANTS
    Threads,
    Pointers,      \* what the clients free
    None,          \* no pointer, no call
    NEntries,      \* _mulle_aba_timestampstorage_n_entries
    InitSize,      \* storages the first world has room for
    Starts,        \* timestamps to start with, 0 for a fresh mulle_aba
    Worlds,        \* bound: the structs there is memory for
    Storages,
    MaxCalls,      \* bound on the calls
    MaxTs          \* bound on the timestamp

ASSUME AbaAssumption ==
    /\ NEntries \in Nat /\ NEntries >= 2 /\ InitSize \in Nat \ {0}
    /\ Worlds \subseteq Nat \ {0} /\ Storages \subseteq Nat \ {0}
    /\ Starts \subseteq Nat /\ Starts # {}
    /\ \A ts \in Starts : 1 .. ts \div NEntries + 1 \subseteq Storages
    /\ 1 \in Worlds /\ MaxCalls \in Nat /\ MaxTs \in Nat
    /\ None \notin Pointers

VARIABLES
    world,         \* the word: [w, bit, lock]
    heap,          \* heap[w]: what is in world w, Zero if it is not in use
    entry,         \* entry[s][i]: entry i of storage s
    allocated,     \* the storages in use
    leaks,         \* q->_leaks
    tss,           \* per thread: its timestamp, 0 if it is not registered
    pc, my,        \* per thread: where it is, its local variables
    linked,        \* clients: the pointers a thread can get hold of
    holds,         \* clients: the pointers a thread may have
    freed,         \* how often a pointer was freed
    calls          \* calls so far

memory == <<heap, entry, allocated, leaks>>
clients == <<linked, holds>>
vars == <<world, heap, entry, allocated, leaks, tss, pc, my, linked, holds, freed, calls>>

(* What calloc, and memset after the last use, leave in a world. *)
Zero == [ts |-> 0, n_threads |-> 0, size |-> 0, offset |-> 0, storages |-> <<>>]

Fresh == [i \in 0 .. NEntries - 1 |-> [used |-> FALSE, retain_count_1 |-> -1, list |-> <<>>]]

Live(w) == heap[w] # Zero

NoWord == [w |-> 0, bit |-> FALSE, lock |-> FALSE]

(* The locals of a thread: the call, the words it works with (the one it   *)
(* has read, the one it made, the one it comes back to), the intent of its *)
(* swap, the storage it has allocated and the size it grows to; of free,   *)
(* the item, the worlds it frees with it and what follows; of check_       *)
(* timerange, the range and the list it took; register's dealloced worlds. *)
NoLocals ==
    [call |-> None, wp |-> NoWord, new |-> NoWord, keep |-> NoWord, intent |-> "none",
     s |-> 0, target |-> 0, item |-> None, worlds |-> <<>>, then |-> "idle",
     cur |-> 0, upto |-> 0, list |-> <<>>, dealloced |-> <<>>]

Labels ==
    {"idle", "lock_read", "lock", "prep", "swap", "free_read", "free_test", "free_loop",
     "add_rc", "list_add", "read", "test", "bit_cas", "range_read", "dec", "cut",
     "cut_free", "unlock", "omega", "omega_unlock", "leak"}

-----------------------------------------------------------------------------
(* The entries of a world: storage k of <<s1, s2, ...>> has NEntries       *)
(* timestamps from offset + (k - 1) * NEntries on.                         *)

StorageIndex(wd, ts) == (ts - wd.offset) \div NEntries + 1

HasEntry(wd, ts) == ts # 0 /\ StorageIndex(wd, ts) <= Len(wd.storages)

Storage(wd, ts) == wd.storages[StorageIndex(wd, ts)]

Unused(s) == \A i \in 0 .. NEntries - 1 : ~entry[s][i].used

(* reuse_storages: for every i before the storage of the current           *)
(* timestamp, the first storage is moved to the end if number i is unused. *)
Rotate(wd) ==
    [wd EXCEPT !.storages = Append(Tail(@), Head(@)), !.offset = @ + NEntries]

ReuseStorages(wd) ==
    FoldLeft(LAMBDA d, i : IF Unused(d.storages[i]) THEN Rotate(d) ELSE d,
             wd, [i \in 1 .. StorageIndex(wd, wd.ts) - 1 |-> i])

Reusable(wd) ==
    wd.ts # 0 /\ \E i \in 1 .. StorageIndex(wd, wd.ts) - 1 : Unused(wd.storages[i])

-----------------------------------------------------------------------------
(* A fresh mulle_aba, or one with every thread registered, the timestamp   *)
(* at start and everything checked in.                                     *)
Init ==
    \E start \in Starts :
       LET n == start \div NEntries + 1
       IN /\ world = [w |-> 1, bit |-> start # 0, lock |-> FALSE]
          /\ heap = [w \in Worlds |->
               IF w # 1 THEN Zero
               ELSE IF start = 0 THEN [Zero EXCEPT !.size = InitSize]
               ELSE [ts |-> start, n_threads |-> Cardinality(Threads), offset |-> 0,
                     size |-> IF n > InitSize THEN n ELSE InitSize,
                     storages |-> [k \in 1 .. n |-> k]]]
          /\ entry = [s \in Storages |-> Fresh]
          /\ allocated = IF start = 0 THEN {} ELSE 1 .. n
          /\ leaks = {}
          /\ tss = [t \in Threads |-> IF start = 0 THEN 0 ELSE start + 1]
          /\ pc = [t \in Threads |-> "idle"]
          /\ my = [t \in Threads |-> NoLocals]
          /\ linked = Pointers
          /\ holds = [t \in Threads |-> IF start = 0 THEN {} ELSE Pointers]
          /\ freed = [p \in Pointers |-> 0]
          /\ calls = 0

Goto(t, l) == pc' = [pc EXCEPT ![t] = l]

(* The call is over; a thread that is registered may again get hold of     *)
(* what is linked.                                                         *)
Return(t) ==
    /\ Goto(t, "idle")
    /\ my' = [my EXCEPT ![t] = NoLocals]
    /\ holds' = [holds EXCEPT ![t] =
                   CASE my[t].call = "free" -> @ [] tss'[t] = 0 -> {} [] OTHER -> linked]

Call(t, c) ==
    /\ pc[t] = "idle" /\ calls < MaxCalls
    /\ calls' = calls + 1
    /\ my' = [my EXCEPT ![t] = [NoLocals EXCEPT !.call = c]]

Register(t) ==
    /\ Call(t, "register") /\ tss[t] = 0
    /\ Goto(t, "lock_read")
    /\ UNCHANGED <<world, memory, tss, clients, freed>>

(* checkin and unregister: the thread promises not to use the pointers it  *)
(* has.                                                                    *)
Promise(t, c) ==
    /\ Call(t, c) /\ tss[t] # 0
    /\ holds' = [holds EXCEPT ![t] = {}]
    /\ Goto(t, "read")
    /\ UNCHANGED <<world, memory, tss, linked, freed>>

(* The client unlinks a pointer and frees it. *)
Free(t, p) ==
    /\ pc[t] = "idle" /\ calls < MaxCalls /\ tss[t] # 0 /\ p \in linked
    /\ calls' = calls + 1
    /\ linked' = linked \ {p}
    /\ holds' = [holds EXCEPT ![t] = @ \ {p}]
    /\ my' = [my EXCEPT ![t] = [NoLocals EXCEPT !.call = "free", !.item = p]]
    /\ Goto(t, "free_read")
    /\ UNCHANGED <<world, memory, tss, freed>>

-----------------------------------------------------------------------------
(* The parts that all operations share *)

(* The callbacks of what is freed; a world goes back to calloc. *)
Dispose(items) ==
    /\ freed' = [p \in Pointers |-> freed[p] + Cardinality({k \in DOMAIN items : items[k] = p})]
    /\ heap' = [w \in Worlds |-> IF \E k \in DOMAIN items : items[k] = w THEN Zero ELSE heap[w]]

NewWorld(t) ==
    IF my[t].new # NoWord THEN my[t].new.w
    ELSE CHOOSE w \in Worlds : ~Live(w) /\ \A v \in Worlds : ~Live(v) => w <= v

NewStorage(t) ==
    IF my[t].s # 0 THEN my[t].s
    ELSE CHOOSE s \in Storages \ allocated : \A r \in Storages \ allocated : s <= r

(* A copy of the world is made, with content wd, for the word [bit, lock]; *)
(* s is the storage allocated for it.                                      *)
Prepared(t, wd, bit, lock, intent, s) ==
    LET w == NewWorld(t)
    IN /\ heap' = [heap EXCEPT ![w] = wd]
       /\ my' = [my EXCEPT ![t].new = [w |-> w, bit |-> bit, lock |-> lock],
                           ![t].intent = intent, ![t].s = s]
       /\ Goto(t, "swap")

(* free_owned_pointer returns, to free_world_chain with the next of the    *)
(* worlds that register has locked.                                        *)
FreeReturns(t) ==
    CASE my[t].then = "idle" -> Return(t)
      [] my[t].then = "chain" ->
           IF my[t].dealloced = <<>> THEN Return(t)
           ELSE /\ my' = [my EXCEPT ![t] = [NoLocals EXCEPT !.call = my[t].call, !.then = "chain",
                             !.item = Head(my[t].dealloced), !.dealloced = Tail(my[t].dealloced)]]
                /\ Goto(t, "free_read") /\ UNCHANGED holds
      [] OTHER ->
           /\ my' = [my EXCEPT ![t] = [NoLocals EXCEPT !.call = my[t].call, !.keep = my[t].keep,
                        !.cur = my[t].cur, !.upto = my[t].upto]]
           /\ Goto(t, my[t].then) /\ UNCHANGED holds

(* Where checkin and unregister go on after the bit is set: checkin reads  *)
(* the world once more, unregister takes the one it has.                   *)
AfterBit(t) == IF my[t].call = "checkin" THEN "range_read" ELSE "dec"

(* world := new, if it is the one the thread has prepared for.  If not,    *)
(* register locks the new one first, and the others prepare again.         *)
Swap(t) ==
    /\ pc[t] = "swap"
    /\ LET won == world = my[t].wp
           old == my[t].wp.w
           dealloced == IF my[t].dealloced # <<>> /\ Head(my[t].dealloced) = old
                        THEN my[t].dealloced ELSE <<old>> \o my[t].dealloced
       IN /\ world' = IF won THEN my[t].new ELSE world
          /\ \/ /\ my[t].intent = "register" /\ won
                /\ tss' = [tss EXCEPT ![t] = heap[my[t].new.w].ts + 1]
                /\ my' = [my EXCEPT ![t] = [NoLocals EXCEPT !.call = "register",
                            !.item = Head(dealloced), !.dealloced = Tail(dealloced),
                            !.then = "chain"]]
                /\ Goto(t, "free_read")
             \/ /\ my[t].intent = "register" /\ ~won
                /\ my' = [my EXCEPT ![t].dealloced = dealloced]
                /\ Goto(t, "lock_read") /\ UNCHANGED tss
             \/ /\ my[t].intent = "bit" /\ won
                /\ my' = [my EXCEPT ![t] = [NoLocals EXCEPT !.call = my[t].call,
                            !.keep = my[t].new, !.cur = my[t].cur, !.upto = my[t].upto,
                            !.item = IF my[t].wp.lock THEN None ELSE old,
                            !.then = IF my[t].wp.lock THEN "idle" ELSE AfterBit(t)]]
                /\ Goto(t, IF my[t].wp.lock THEN AfterBit(t) ELSE "free_read")
                /\ UNCHANGED tss
             \/ /\ my[t].intent = "unregister" /\ won
                /\ tss' = [tss EXCEPT ![t] = 0]
                /\ Goto(t, IF heap[old].n_threads = 1 THEN "omega" ELSE "leak")
                /\ UNCHANGED my
             \/ /\ my[t].intent \in {"inc", "add", "reorg", "grow"} /\ won
                /\ Goto(t, "add_rc") /\ UNCHANGED <<my, tss>>
             \/ /\ my[t].intent # "register" /\ ~won
                /\ my' = [my EXCEPT ![t].wp = world]
                /\ Goto(t, "prep") /\ UNCHANGED tss
    /\ UNCHANGED <<memory, clients, freed, calls>>

(* try_set_lock( 1): a world that is locked already or has been swapped    *)
(* makes register and unregister start over.                               *)
LockRead(t) ==
    /\ pc[t] = "lock_read"
    /\ my' = [my EXCEPT ![t].wp = world]
    /\ Goto(t, "lock")
    /\ UNCHANGED <<world, memory, tss, clients, freed, calls>>

Lock(t) ==
    /\ pc[t] = "lock"
    /\ LET old == my[t].wp
           again == IF my[t].call = "register" THEN "lock_read" ELSE "read"
       IN \/ /\ world = old /\ ~old.lock
             /\ world' = [old EXCEPT !.lock = TRUE]
             /\ my' = [my EXCEPT ![t].wp = world', ![t].intent = my[t].call,
                   ![t].keep = IF my[t].call = "unregister" THEN world' ELSE NoWord]
             /\ Goto(t, "prep")
          \/ /\ old.lock \/ world.w # old.w
             /\ Goto(t, again) /\ UNCHANGED <<world, my>>
          \/ /\ ~old.lock /\ world.w = old.w /\ world # old
             /\ my' = [my EXCEPT ![t].wp = world]
             /\ UNCHANGED <<world, pc>>
    /\ UNCHANGED <<memory, tss, clients, freed, calls>>

-----------------------------------------------------------------------------
(* register *)

(* Mutant: the new thread's world has no bit. *)
PrepRegisterNoBit(t) ==
    /\ pc[t] = "prep" /\ my[t].intent = "register"
    /\ Prepared(t, [heap[my[t].wp.w] EXCEPT !.n_threads = @ + 1], FALSE, FALSE, my[t].intent, 0)
    /\ UNCHANGED <<world, entry, allocated, leaks, tss, clients, freed, calls>>

(* add_thread *)
PrepRegister(t) ==
    /\ pc[t] = "prep" /\ my[t].intent = "register"
    /\ Prepared(t, [heap[my[t].wp.w] EXCEPT !.n_threads = @ + 1], TRUE, FALSE, my[t].intent, 0)
    /\ UNCHANGED <<world, entry, allocated, leaks, tss, clients, freed, calls>>

-----------------------------------------------------------------------------
(* checkin, and unregister's check in *)

Read(t) ==
    /\ pc[t] = "read"
    /\ my' = [my EXCEPT ![t] = [NoLocals EXCEPT !.call = my[t].call, !.wp = world]]
    /\ Goto(t, "test")
    /\ UNCHANGED <<world, memory, tss, clients, freed, calls>>

(* change_worldpointer with set_bit, for the word wp: a locked world is    *)
(* copied, starting with the word first read; a bit that is set stays.     *)
SetBit(t, first, wp) ==
    LET m == [NoLocals EXCEPT !.call = my[t].call, !.cur = tss[t],
                !.upto = IF first THEN heap[wp.w].ts ELSE my[t].upto]
        read == IF first THEN wp ELSE my[t].keep
    IN \/ /\ wp.lock
          /\ my' = [my EXCEPT ![t] = [m EXCEPT !.wp = read, !.intent = "bit"]]
          /\ Goto(t, "prep")
       \/ /\ ~wp.lock /\ wp.bit
          /\ my' = [my EXCEPT ![t] = [m EXCEPT !.keep = wp]]
          /\ Goto(t, AfterBit(t))
       \/ /\ ~wp.lock /\ ~wp.bit
          /\ my' = [my EXCEPT ![t] = [m EXCEPT !.wp = wp, !.keep = read]]
          /\ Goto(t, "bit_cas")

(* Nothing to do if the timestamp has not moved since; unregister goes on  *)
(* with the lock.                                                          *)
Test(t) ==
    /\ pc[t] = "test"
    /\ LET ts == heap[my[t].wp.w].ts
       IN \/ tss[t] > ts /\ my[t].call = "checkin" /\ tss' = tss /\ Return(t)
          \/ /\ tss[t] > ts /\ my[t].call = "unregister"
             /\ my' = [my EXCEPT ![t].upto = ts]
             /\ Goto(t, "lock") /\ UNCHANGED <<tss, holds>>
          \/ tss[t] <= ts /\ SetBit(t, TRUE, my[t].wp) /\ UNCHANGED <<tss, holds>>
    /\ UNCHANGED <<world, memory, linked, freed, calls>>

BitCas(t) ==
    /\ pc[t] = "bit_cas"
    /\ \/ /\ world = my[t].wp
          /\ world' = [world EXCEPT !.bit = TRUE]
          /\ my' = [my EXCEPT ![t].keep = world', ![t].wp = NoWord]
          /\ Goto(t, AfterBit(t))
       \/ world # my[t].wp /\ SetBit(t, FALSE, world) /\ UNCHANGED world
    /\ UNCHANGED <<memory, tss, clients, freed, calls>>

PrepBit(t) ==
    /\ pc[t] = "prep" /\ my[t].intent = "bit"
    /\ Prepared(t, heap[my[t].wp.w], TRUE, FALSE, my[t].intent, 0)
    /\ UNCHANGED <<world, entry, allocated, leaks, tss, clients, freed, calls>>

RangeRead(t) ==
    /\ pc[t] = "range_read"
    /\ my' = [my EXCEPT ![t].keep = world]
    /\ Goto(t, "dec")
    /\ UNCHANGED <<world, memory, tss, clients, freed, calls>>

(* check_timerange is done with cur; after the last timestamp, checkin     *)
(* returns and unregister goes on.                                         *)
NextTimestamp(t) ==
    \/ /\ my[t].cur < my[t].upto
       /\ my' = [my EXCEPT ![t].cur = @ + 1, ![t].list = <<>>]
       /\ Goto(t, "dec") /\ UNCHANGED <<tss, holds>>
    \/ /\ my[t].cur = my[t].upto
       /\ tss' = [tss EXCEPT ![t] = my[t].upto + 1]
       /\ \/ my[t].call = "checkin" /\ Return(t)
          \/ /\ my[t].call = "unregister"
             /\ my' = [my EXCEPT ![t] = [NoLocals EXCEPT !.call = "unregister",
                         !.wp = my[t].keep, !.upto = my[t].upto]]
             /\ Goto(t, "lock") /\ UNCHANGED holds

Cur(t) == [s |-> Storage(heap[my[t].keep.w], my[t].cur), i |-> my[t].cur % NEntries]

(* Mutant: the count that says one less is read as the count. *)
DecOffByOne(t) ==
    /\ pc[t] = "dec"
    /\ LET e == Cur(t)
       IN /\ entry' = [entry EXCEPT ![e.s][e.i].retain_count_1 = @ - 1]
          /\ \/ entry[e.s][e.i].retain_count_1 # 1 /\ NextTimestamp(t)
             \/ /\ entry[e.s][e.i].retain_count_1 = 1
                /\ Goto(t, "cut") /\ UNCHANGED <<my, tss, holds>>
    /\ UNCHANGED <<world, heap, allocated, leaks, linked, freed, calls>>

Dec(t) ==
    /\ pc[t] = "dec"
    /\ LET e == Cur(t)
       IN /\ entry' = [entry EXCEPT ![e.s][e.i].retain_count_1 = @ - 1]
          /\ \/ entry[e.s][e.i].retain_count_1 # 0 /\ NextTimestamp(t)
             \/ /\ entry[e.s][e.i].retain_count_1 = 0
                /\ Goto(t, "cut") /\ UNCHANGED <<my, tss, holds>>
    /\ UNCHANGED <<world, heap, allocated, leaks, linked, freed, calls>>

(* The last one takes the list: "atomic not needed as we should be single  *)
(* threaded here in terms of ts_entry".                                    *)
Cut(t) ==
    /\ pc[t] = "cut"
    /\ my' = [my EXCEPT ![t].list = entry[Cur(t).s][Cur(t).i].list]
    /\ Goto(t, "cut_free")
    /\ UNCHANGED <<world, memory, tss, clients, freed, calls>>

(* The entry loses its list and its usage bit, and what was taken is       *)
(* freed.                                                                  *)
CutFree(t) ==
    /\ pc[t] = "cut_free"
    /\ entry' = [entry EXCEPT ![Cur(t).s][Cur(t).i].list = <<>>, ![Cur(t).s][Cur(t).i].used = FALSE]
    /\ Dispose(my[t].list)
    /\ NextTimestamp(t)
    /\ UNCHANGED <<world, allocated, leaks, linked, calls>>

-----------------------------------------------------------------------------
(* unregister *)

(* Mutant: the last thread does not reset the timestamp. *)
PrepRemoveKeepsTs(t) ==
    /\ pc[t] = "prep" /\ my[t].intent = "unregister"
    /\ my[t].wp.lock /\ heap[my[t].wp.w].ts = my[t].upto /\ my[t].wp.w = my[t].keep.w
    /\ Prepared(t, [heap[my[t].wp.w] EXCEPT !.n_threads = @ - 1],
                heap[my[t].wp.w].n_threads > 1, heap[my[t].wp.w].n_threads = 1, my[t].intent, 0)
    /\ UNCHANGED <<world, entry, allocated, leaks, tss, clients, freed, calls>>

(* remove_thread: EAGAIN if the world is not the locked one any more, or   *)
(* not the one checked in to.  The last thread resets the world, locked.   *)
PrepRemove(t) ==
    /\ pc[t] = "prep" /\ my[t].intent = "unregister"
    /\ LET wd == heap[my[t].wp.w]
       IN \/ /\ ~my[t].wp.lock \/ wd.ts # my[t].upto \/ my[t].wp.w # my[t].keep.w
             /\ heap' = IF my[t].new = NoWord THEN heap ELSE [heap EXCEPT ![my[t].new.w] = Zero]
             /\ my' = [my EXCEPT ![t].wp = my[t].keep, ![t].new = NoWord]
             /\ Goto(t, "unlock")
          \/ /\ my[t].wp.lock /\ wd.ts = my[t].upto /\ my[t].wp.w = my[t].keep.w
             /\ IF wd.n_threads > 1
                THEN Prepared(t, [wd EXCEPT !.n_threads = @ - 1], TRUE, FALSE, my[t].intent, 0)
                ELSE Prepared(t, [Zero EXCEPT !.size = wd.size], FALSE, TRUE, my[t].intent, 0)
    /\ UNCHANGED <<world, entry, allocated, leaks, tss, clients, freed, calls>>

(* try_set_lock( 0), and all over again.  A world that was swapped while   *)
(* this thread had it locked is this thread's to free.                     *)
Unlock(t) ==
    /\ pc[t] = "unlock"
    /\ IF world = my[t].wp
       THEN world' = [world EXCEPT !.lock = FALSE] /\ Goto(t, "read") /\ UNCHANGED my
       ELSE /\ UNCHANGED world
            /\ IF world.w = my[t].wp.w /\ world.lock
               THEN my' = [my EXCEPT ![t].wp = world] /\ UNCHANGED pc
               ELSE /\ my' = [my EXCEPT ![t] = [NoLocals EXCEPT !.call = "unregister",
                                !.item = my[t].keep.w, !.then = "read"]]
                    /\ Goto(t, "free_read")
    /\ UNCHANGED <<memory, tss, clients, freed, calls>>

(* Mutant: the leaked worlds are forgotten. *)
OmegaForgetsLeaks(t) ==
    /\ pc[t] = "omega"
    /\ allocated' = {} /\ entry' = [s \in Storages |-> Fresh]
    /\ heap' = [heap EXCEPT ![my[t].wp.w] = Zero]
    /\ leaks' = {}
    /\ Goto(t, "omega_unlock")
    /\ UNCHANGED <<world, tss, my, clients, freed, calls>>

(* "I am the omega man": all storages, the leaked worlds and the locked    *)
(* one are freed, then the new world is unlocked.                          *)
Omega(t) ==
    /\ pc[t] = "omega"
    /\ LET old == heap[my[t].wp.w].storages
           gone == {old[k] : k \in DOMAIN old}
       IN /\ allocated' = allocated \ gone
          /\ entry' = [s \in Storages |-> IF s \in gone THEN Fresh ELSE entry[s]]
    /\ heap' = [w \in Worlds |-> IF w \in leaks \union {my[t].wp.w} THEN Zero ELSE heap[w]]
    /\ leaks' = {}
    /\ Goto(t, "omega_unlock")
    /\ UNCHANGED <<world, tss, my, clients, freed, calls>>

OmegaUnlock(t) ==
    /\ pc[t] = "omega_unlock"
    /\ world' = IF world = my[t].new THEN [world EXCEPT !.lock = FALSE] ELSE world
    /\ tss' = tss /\ Return(t)
    /\ UNCHANGED <<memory, linked, freed, calls>>

Leak(t) ==
    /\ pc[t] = "leak"
    /\ leaks' = leaks \union {my[t].wp.w}
    /\ tss' = tss /\ Return(t)
    /\ UNCHANGED <<world, heap, entry, allocated, linked, freed, calls>>

-----------------------------------------------------------------------------
(* free_owned_pointer *)

FreeRead(t) ==
    /\ pc[t] = "free_read"
    /\ my' = [my EXCEPT ![t].wp = world]
    /\ Goto(t, "free_test")
    /\ UNCHANGED <<world, memory, tss, clients, freed, calls>>

(* The world with the place for one timestamp more. *)
Enlarged(t, intent, wd) ==
    CASE intent = "inc" -> wd
      [] intent = "add" -> [wd EXCEPT !.storages = Append(@, NewStorage(t))]
      [] intent = "reorg" -> ReuseStorages(wd)
      [] intent = "grow" -> [wd EXCEPT !.storages = Append(@, NewStorage(t)),
                                       !.size = my[t].target]

(* The entries after storage s, allocated in vain, is freed: who gets it   *)
(* next gets it from calloc.                                               *)
Without(s) == [r \in Storages |-> IF r = s THEN Fresh ELSE entry[r]]

(* increment_timestamp, add_storage_, reorganize_storage_and_increment_    *)
(* timestamp: EBUSY starts the loop over, EAGAIN means that this thread is *)
(* the only one by now.  A retry keeps the storage it has allocated, if    *)
(* the world to copy has the same size.                                    *)
Increment(t, intent) ==
    LET wp == my[t].wp
        wd == heap[wp.w]
        large == Enlarged(t, intent, wd)
        full == CASE intent = "add" -> Len(wd.storages) >= wd.size
                  [] intent = "reorg" -> ~Reusable(wd)
                  [] OTHER -> FALSE
        others == intent = "grow" /\ wd.size >= my[t].target
        added == IF intent \in {"add", "grow"} THEN NewStorage(t) ELSE 0
        resized == my[t].new # NoWord /\ intent # "grow" /\ heap[my[t].new.w].size # wd.size
        again == ~others /\ wd.n_threads <= 1
        busy == others \/ (~again /\ ~(wp.bit /\ ~full /\ HasEntry(large, wd.ts + 1)))
    IN \/ /\ ~again /\ ~busy /\ wd.ts < MaxTs
          /\ LET ts == wd.ts + 1
             IN /\ entry' = [(IF resized THEN Without(my[t].s) ELSE entry)
                              EXCEPT ![Storage(large, ts)][ts % NEntries].used = TRUE]
                /\ Prepared(t, [large EXCEPT !.ts = ts], FALSE, FALSE, intent, added)
          /\ allocated' = (allocated \union {added}) \ {0}
          /\ UNCHANGED <<freed, tss, holds>>
       \/ /\ busy
          /\ heap' = IF my[t].new = NoWord THEN heap ELSE [heap EXCEPT ![my[t].new.w] = Zero]
          /\ allocated' = allocated \ {my[t].s} /\ entry' = Without(my[t].s)
          /\ my' = [my EXCEPT ![t] = [@ EXCEPT !.wp = world, !.new = NoWord, !.s = 0,
                                               !.target = 0, !.intent = "none"]]
          /\ Goto(t, "free_loop")
          /\ UNCHANGED <<freed, tss, holds>>
       \/ /\ again
          /\ Dispose(<<my[t].item>> \o my[t].worlds \o
                     IF my[t].new = NoWord THEN <<>> ELSE <<my[t].new.w>>)
          /\ allocated' = allocated \ {my[t].s} /\ entry' = Without(my[t].s)
          /\ tss' = tss /\ FreeReturns(t)

(* A word without bit has an entry that counts this thread.  If not, the   *)
(* timestamp is advanced, with a new storage if there is room for one, the *)
(* oldest ones if they are not in use any more, or a larger world, for     *)
(* which the word is read once more.                                       *)
Loop(t) ==
    LET wp == my[t].wp
        wd == heap[wp.w]
        ts == IF wp.bit THEN wd.ts + 1 ELSE wd.ts
        intent == IF HasEntry(wd, ts) THEN "inc"
                  ELSE IF Len(wd.storages) < wd.size THEN "add"
                  ELSE IF Reusable(wd) THEN "reorg" ELSE "grow"
    IN \/ /\ ~wp.bit /\ HasEntry(wd, ts)
          /\ Goto(t, "list_add")
          /\ UNCHANGED <<my, heap, entry, allocated, freed, tss, holds>>
       \/ (wp.bit \/ ~HasEntry(wd, ts)) /\ intent # "grow" /\ Increment(t, intent)
       \/ /\ (wp.bit \/ ~HasEntry(wd, ts)) /\ intent = "grow"
          /\ my' = [my EXCEPT ![t].intent = "grow", ![t].target = wd.size + 1, ![t].wp = world]
          /\ Goto(t, "prep")
          /\ UNCHANGED <<heap, entry, allocated, freed, tss, holds>>

(* The only thread frees at once. *)
FreeTest(t) ==
    /\ pc[t] = "free_test"
    /\ \/ /\ heap[my[t].wp.w].n_threads <= 1
          /\ Dispose(<<my[t].item>>)
          /\ tss' = tss /\ FreeReturns(t)
          /\ UNCHANGED <<entry, allocated>>
       \/ heap[my[t].wp.w].n_threads > 1 /\ Loop(t)
    /\ UNCHANGED <<world, leaks, linked, calls>>

FreeLoop(t) ==
    /\ pc[t] = "free_loop"
    /\ Loop(t)
    /\ UNCHANGED <<world, leaks, linked, calls>>

PrepFree(t) ==
    /\ pc[t] = "prep" /\ my[t].intent \in {"inc", "add", "reorg", "grow"}
    /\ Increment(t, my[t].intent)
    /\ UNCHANGED <<world, leaks, linked, calls>>

(* Mutants: the freeing thread is not counted; a locked world is freed.    *)
AddRcOfOthers(t) ==
    /\ pc[t] = "add_rc"
    /\ LET wd == heap[my[t].new.w]
           s == Storage(wd, wd.ts)
       IN entry' = [entry EXCEPT ![s][wd.ts % NEntries].retain_count_1 = @ + wd.n_threads - 1]
    /\ my' = [my EXCEPT ![t] = [@ EXCEPT !.wp = my[t].new, !.new = NoWord, !.s = 0,
                !.target = 0, !.intent = "none",
                !.worlds = IF my[t].wp.lock THEN @ ELSE <<my[t].wp.w>> \o @]]
    /\ Goto(t, "list_add")
    /\ UNCHANGED <<world, heap, allocated, leaks, tss, clients, freed, calls>>

AddRcIgnoresLock(t) ==
    /\ pc[t] = "add_rc"
    /\ LET wd == heap[my[t].new.w]
           s == Storage(wd, wd.ts)
       IN entry' = [entry EXCEPT ![s][wd.ts % NEntries].retain_count_1 = @ + wd.n_threads]
    /\ my' = [my EXCEPT ![t] = [@ EXCEPT !.wp = my[t].new, !.new = NoWord, !.s = 0,
                !.target = 0, !.intent = "none", !.worlds = <<my[t].wp.w>> \o @]]
    /\ Goto(t, "list_add")
    /\ UNCHANGED <<world, heap, allocated, leaks, tss, clients, freed, calls>>

(* The entry counts the threads, and may have been counted down already.   *)
(* The world that was swapped is freed with the item, if it is not locked. *)
(* The new word is without bit, so the loop is over.                       *)
AddRc(t) ==
    /\ pc[t] = "add_rc"
    /\ LET wd == heap[my[t].new.w]
           s == Storage(wd, wd.ts)
       IN entry' = [entry EXCEPT ![s][wd.ts % NEntries].retain_count_1 = @ + wd.n_threads]
    /\ my' = [my EXCEPT ![t] = [@ EXCEPT !.wp = my[t].new, !.new = NoWord, !.s = 0,
                !.target = 0, !.intent = "none",
                !.worlds = IF my[t].wp.lock THEN @ ELSE <<my[t].wp.w>> \o @]]
    /\ Goto(t, "list_add")
    /\ UNCHANGED <<world, heap, allocated, leaks, tss, clients, freed, calls>>

(* Mutant: the list is replaced. *)
ListAddOver(t) ==
    /\ pc[t] = "list_add"
    /\ LET wd == heap[my[t].wp.w]
           s == Storage(wd, wd.ts)
       IN entry' = [entry EXCEPT ![s][wd.ts % NEntries].list = my[t].worlds \o <<my[t].item>>]
    /\ tss' = tss /\ FreeReturns(t)
    /\ UNCHANGED <<world, heap, allocated, leaks, linked, freed, calls>>

ListAdd(t) ==
    /\ pc[t] = "list_add"
    /\ LET wd == heap[my[t].wp.w]
           s == Storage(wd, wd.ts)
       IN entry' = [entry EXCEPT ![s][wd.ts % NEntries].list = my[t].worlds \o <<my[t].item>> \o @]
    /\ tss' = tss /\ FreeReturns(t)
    /\ UNCHANGED <<world, heap, allocated, leaks, linked, freed, calls>>

-----------------------------------------------------------------------------
Step(t) ==
    \/ LockRead(t) \/ Lock(t) \/ PrepRegister(t) \/ PrepBit(t) \/ PrepRemove(t) \/ PrepFree(t)
    \/ Swap(t) \/ Read(t) \/ Test(t) \/ BitCas(t) \/ RangeRead(t) \/ Dec(t) \/ Cut(t) \/ CutFree(t)
    \/ Unlock(t) \/ Omega(t) \/ OmegaUnlock(t) \/ Leak(t)
    \/ FreeRead(t) \/ FreeTest(t) \/ FreeLoop(t) \/ AddRc(t) \/ ListAdd(t)

Next == \E t \in Threads :
    \/ Step(t) \/ Register(t) \/ Promise(t, "checkin") \/ Promise(t, "unregister")
    \/ \E p \in Pointers : Free(t, p)

Spec == Init /\ [][Next]_vars

-----------------------------------------------------------------------------
(* Types; the world is one the asserts of assert_sanity let pass. *)
TypeOK ==
    /\ world \in [w : Worlds, bit : BOOLEAN, lock : BOOLEAN] /\ Live(world.w)
    /\ \A w \in Worlds :
         /\ heap[w].ts \in Nat /\ heap[w].n_threads \in 0 .. Cardinality(Threads)
         /\ heap[w].offset \in Nat /\ Len(heap[w].storages) <= heap[w].size
         /\ heap[w].n_threads = 0 => heap[w].ts = 0
         /\ heap[w].ts = 0 => heap[w].offset = 0
         /\ heap[w].ts # 0 => heap[w].ts >= heap[w].offset /\ HasEntry(heap[w], heap[w].ts)
    /\ \A s \in Storages : entry[s] \in
         [0 .. NEntries - 1 -> [used : BOOLEAN, retain_count_1 : Int, list : Seq(Worlds \union Pointers)]]
    /\ allocated \subseteq Storages /\ leaks \subseteq Worlds
    /\ tss \in [Threads -> Nat]
    /\ \A t \in Threads : pc[t] \in Labels /\ holds[t] \subseteq Pointers
    /\ linked \subseteq Pointers /\ freed \in [Pointers -> Nat] /\ calls \in 0 .. MaxCalls

(* What mulle-aba is for: a pointer is freed once at most, and not as long *)
(* as a thread may have it.                                                *)
NoPrematureFree ==
    \A p \in Pointers :
       freed[p] # 0 => /\ freed[p] = 1 /\ p \notin linked
                      /\ \A t \in Threads : p \notin holds[t]

(* The first timestamp whose entry t has not been counted down in. *)
Due(t) ==
    CASE pc[t] = "dec" -> my[t].cur
      [] pc[t] \in {"cut", "cut_free"} -> my[t].cur + 1
      [] OTHER -> tss[t]

(* The world counts the threads that are registered, and the entry of each *)
(* timestamp those that have not checked in to it, once n_threads has been *)
(* added; before, the count may be negative.  No storage that is still     *)
(* counted in is rotated away.                                             *)
CountsExact ==
    LET wd == heap[world.w]
    IN /\ wd.n_threads = Cardinality({t \in Threads : tss[t] # 0})
       /\ \A ts \in 1 .. wd.ts :
            LET waiting == {t \in Threads : tss[t] # 0 /\ Due(t) <= ts}
                adding == {t \in Threads : pc[t] = "add_rc" /\ heap[my[t].new.w].ts = ts}
                n == IF adding = {} THEN 0 ELSE heap[my[CHOOSE t \in adding : TRUE].new.w].n_threads
                e == entry[Storage(wd, ts)][ts % NEntries]
            IN IF ts < wd.offset THEN waiting = {}
               ELSE /\ e.retain_count_1 + 1 + n = Cardinality(waiting)
                    /\ waiting # {} => e.used

(* A pointer that is unlinked is freed, or on the list of one entry of the *)
(* current world, or in the hands of one thread.  The list an entry loses  *)
(* is the one its last thread has taken.                                   *)
NothingLost ==
    \A p \in Pointers \ linked :
       LET storages == {heap[world.w].storages[k] : k \in DOMAIN heap[world.w].storages}
           lists == {<<s, i>> \in storages \X (0 .. NEntries - 1) :
                       \E k \in DOMAIN entry[s][i].list : entry[s][i].list[k] = p}
           hands == {t \in Threads : my[t].item = p}
       IN freed[p] + Cardinality(lists) + Cardinality(hands) = 1

(* When every thread has unregistered, everything has been freed and the   *)
(* world is as it was at the start.  A world that was leaked late may stay *)
(* until the next time.                                                    *)
CleanAtTheEnd ==
    (\A t \in Threads : pc[t] = "idle" /\ tss[t] = 0) =>
       /\ world = [w |-> world.w, bit |-> FALSE, lock |-> FALSE]
       /\ heap[world.w] = [Zero EXCEPT !.size = heap[world.w].size]
       /\ {w \in Worlds : Live(w)} = {world.w} \union leaks
       /\ allocated = {}
       /\ \A p \in Pointers \ linked : freed[p] = 1

(* _mulle_aba_worldpointer_state *)
State(word, wd) ==
    (IF word.bit THEN 1 ELSE 0) + (IF word.lock THEN 2 ELSE 0)
    + (IF wd.ts # 0 THEN 4 ELSE 0) + (IF wd.n_threads > 1 THEN 8 ELSE 0)

(* assert_valid_transition *)
Transitions ==
    {<<0, 2>>, <<1, 3>>, <<2, 0>>, <<2, 1>>, <<3, 1>>, <<3, 2>>, <<3, 9>>, <<5, 7>>, <<5, 5>>,
     <<7, 2>>, <<7, 5>>, <<7, 13>>, <<9, 11>>, <<9, 12>>, <<11, 1>>, <<11, 9>>, <<11, 12>>,
     <<12, 13>>, <<12, 14>>, <<13, 12>>, <<13, 13>>, <<13, 15>>, <<14, 5>>, <<14, 12>>,
     <<14, 13>>, <<14, 14>>, <<15, 5>>, <<15, 12>>, <<15, 13>>}

(* The asserts on every swap of the world: the states of the word follow   *)
(* the table, and the timestamp moves on by one, only when the bit was     *)
(* set, or is reset.                                                       *)
SwapsAsserted ==
    [][world' # world =>
         LET old == heap[world.w]
             new == heap'[world'.w]
         IN /\ <<State(world, old), State(world', new)>> \in Transitions
            /\ new.ts # old.ts => new.ts = 0 \/ (world.bit /\ new.ts = old.ts + 1)]_vars

(* The worlds t will look into, or expects the word to point to as long as *)
(* it is registered.                                                       *)
Reads(t) ==
    CASE pc[t] \in {"prep", "swap"} -> {my[t].wp.w, my[t].keep.w}
      [] pc[t] \in {"free_test", "free_loop", "list_add", "test", "bit_cas"} ->
           {my[t].wp.w, my[t].keep.w}
      [] pc[t] = "add_rc" -> {my[t].new.w, my[t].wp.w}
      [] pc[t] \in {"dec", "cut", "cut_free", "unlock"} -> {my[t].keep.w}
      [] pc[t] = "lock" /\ tss[t] # 0 -> {my[t].wp.w}
      [] OTHER -> {}

(* Worlds are freed like any pointer: none is, as long as a thread reads   *)
(* it, has it locked, or compares the word with it.                        *)
WorldsOutliveReaders == \A t \in Threads : \A w \in Reads(t) \ {0} : Live(w)
=============================================================================
