# Verification of mulle-core

mulle-core is an amalgamation of some thirty C libraries, the *constituents*,
each in a directory of its own under `src/` of the repository. Most of them are
sequential helpers. The constituents whose correctness is hard to see and hard
to test are the concurrent ones: the fifos, the concurrent linked list, the
lock-free containers of mulle-concurrent, the deferred free of mulle-aba, and
the thread primitives below them all. This project models those in TLA+,
checks the models on small instances with TLC, and proves what matters most
with TLAPS for every value of the constants.

`PROJECT.json` lists the components, the runs, the line of the source each
definition stands for, the hazards and the theorems. Source paths below are
relative to the repository's `src/`.

## 1. Inventory

### The concurrent constituents

**mulle-fifo** (`mulle-fifo/mulle-pointerfifo.h`). A ring of pointers for one
producer and one consumer. State: a storage of `size` slots, the index `write`
(the producer's), the index `read` (the consumer's) and an atomic count `n`,
the only synchronisation. Operations: `init`, `write`, `read`, `get_count`.
Hard: the count is tested before and moved after the slot is accessed, so index
and count disagree for a moment. Correct if: no unread slot is overwritten, the
reads return what was written in order, -1 means full, NULL means empty.

**mulle-multififo, lock-free** (`mulle-multififo/mulle-pointermultififo.c`). A
ring for any number of readers and writers. State: atomic counters `read` and
`write` that only grow, atomic slots that hold NULL, a pointer, or `NOTYET`.
Operations: `init`, `write`, `read_barrier`. A call reserves a slot with one
compare-and-swap and moves the counter with a second one; if the second fails
it puts back what it found and retries. Hard: the counter a call works with is
stale when it is used; the asserts ("this can't fail... brave words...") claim
nobody touches a reserved slot; the counter is cut to 32 bits before the
modulo. Correct if: the asserts hold, no pointer is lost, doubled or reordered,
and no call retries for ever.

**mulle-multififo, locking** (`mulle-multififo/mulle-lockingpointermultififo.c`).
The same under a mutex, with `n`, `read` and `write` as plain unsigned ints.
Operations: `init`, `write`, `read_barrier`, `get_count`. Hard: the wrap of the
counters; the ways out of `mulle_thread_mutex_do`. Correct if: it is an exact
bounded queue and the mutex is always given back.

**mulle-linkedlist, concurrent** (`mulle-linkedlist/mulle-concurrent-linkedlist.h`, `.c`).
An atomic head and intrusive entries owned by the caller. Operations: `add`,
`remove_all`, `remove_one` (detaches the whole list, keeps one entry, appends
what it detached before, puts the rest back when the list is empty), `walk`.
Hard: heads that return (ABA), several `remove_one` that hold parts of the list
at a time. Correct if: no entry is lost or handed out twice and no chain gets a
cycle.

**mulle-concurrent, hashmap** (`mulle-concurrent/mulle-concurrent-hashmap.c`).
A table of (hash, value) slots, both words atomic, with linear probing. State:
the current and the next storage of a map, the slots, a count of claimed slots
per storage. Operations: `insert`, `register`, `lookup`, enumerators, and the
single-threaded `patch` and `remove`. Any thread that finds the table half full,
exhausted or frozen migrates it: allocates a storage of twice the size, copies
every value, replaces it by `REDIRECT_VALUE`, and makes the new storage the
current one. Hard: everything is done by all threads at once and any of them may
sleep anywhere, so that copies arrive in storages that were retired meanwhile.
Correct if: a hash has one slot and one value, a migration loses nothing, the
old storage is freed once, every call is linearizable and wait-free.

**mulle-concurrent, pointerarray** (`mulle-concurrent/mulle-concurrent-pointerarray.c`).
An array that only grows. State: the current and the next storage, atomic
entries, and an atomic count `n` per storage. Operations: `add`, `get`,
`get_count`, an enumerator in each direction. `add` fills the first free slot
and then *publishes* it by moving the count; any thread publishes for any other.
A full storage is migrated as in the hashmap. Hard: slot and count are changed
one after the other while others freeze the slots and copy them, and a copier
may sleep through whole generations. Correct if: no element is lost, doubled or
moved, the count never goes back, and what the count covers can be read.

**mulle-concurrent, hashtable** (`mulle-concurrent/mulle-concurrent-hashtable.c`).
The hashmap with a concurrent `remove`. A migration freezes the hash word of a
slot, then seals its value word, and carries the value into the successor if no
value was ever there; a removed entry leaves a tombstone, so that a late copy
does not bring it back. A table that is half claimed migrates to twice the
size. Operations: `insert`, `register`, `remove`, `lookup`, enumerators, and
`migrate_same_size`. Hard: freeze and seal are two steps, and a writer may
store between them. Correct if: every call takes effect at one moment and no
removed entry returns.

**mulle-concurrent, pointerset.** The protocol of the hashmap with one word per
slot.

**mulle-aba** (`mulle-aba/mulle-aba.c`, `mulle-aba-storage.c`). Deferred free: a
pointer given to it is released when every registered thread has checked in
afterwards. State: one atomic word that points to a *world* and has two bits,
"bit" (somebody has checked in since the timestamp was advanced) and "lock" (a
thread that is not registered yet reads the world). A world (timestamp, number
of threads, storages) is copied and swapped, never changed. The worlds share
the timestamp storages, whose entries have a list of pointers and the number of
threads that must still check in. Operations: register, check-in, unregister,
`free_owned_pointer`. Old worlds are freed through the entries too. Hard: the
number of threads is added to an entry after the timestamp has been advanced,
so that the count may pass through the value that means "free"; storages are
reused while threads with older worlds count in them; a locked world is
replaced by others. Correct if: nothing is freed while a thread can hold it,
nothing is forgotten, and all is freed when the last thread unregisters. The
containers above free their old storages through it (`abafree` of
mulle-allocator).

**mulle-thread** (`mulle-thread/mulle-thread.c`, `.h`, `mulle-atomic-*.h`). The
atomics and the mutex all others are built on, `once` in a plain, a
non-blocking and a recursive form, a recursive mutex, thread-local storage,
threads. Hard: the losers of the race for a once spin; the owner fields of the
recursive forms are read by threads that do not have the lock. Correct if: an
initializer runs once and has returned before a blocking call does, locks
exclude each other, and all calls return.

### The sequential constituents

mulle-allocator (malloc with a failure handler), mulle-c11 and mulle-vararg
(macros), mulle-data (ranges, hashes), mulle-storage (arena, struct arrays,
indexed storage with a free list), mulle-container and -debug (hash maps, sets,
queues, arrays), mulle-rbtree and -debug, mulle-linkedlist (sequential list),
mulle-buffer, mulle-utf, mulle-unicode, mulle-slug, mulle-url, mulle-regex,
mulle-dtostr, mulle-sprintf, mulle-fprintf (text), mulle-time, mulle-mmap,
mulle-socket, mulle-dlfcn, mulle-http (a vendored parser), mulle-spawn (fork,
exec and a poll loop with a deadline), mulle-core (the umbrella). They interact
by calls only. Why each is left out, or when it is planned, is in
`PROJECT.json` under "components".

### How the concurrent ones interact

mulle-thread supplies the atomics and the mutex. mulle-concurrent allocates its
storages from an allocator and releases old ones with `abafree`, that is with
mulle-aba; mulle-aba itself keeps its free storages in mulle-linkedlist's
concurrent list. The fifos depend on mulle-thread and an allocator only.

## 2. What the modules model

Conventions of all of them:

* One action per atomic access; what a thread computes between two accesses
  belongs to the action of one of them. `pc` says where in the code a thread is.
* The models are sequentially consistent, as the atomics of mulle-thread are
  unless their name says otherwise. The exceptions in the modelled code are the
  relaxed load of the list's head, whose value the (sequentially consistent)
  compare-and-swap behind it confirms; the relaxed accesses of `patch`, which
  runs alone; and loads with acquire or relaxed order in the pointerarray and
  the hashtable. The last are modelled as sequentially consistent,
  that is, reorderings of weak memory are not examined.
* A read of memory from `malloc` is any value (`Init` of PointerFifo).
* Operators whose comment begins with "Mutant" are altered forms of the
  definition behind them. No specification uses them. They are there to show
  that a property can fail.

| Module | Models | Uses |
|---|---|---|
| `BoundedFifo` | abstract: a bounded queue, one step per call; `Spurious` says whether a call may fail without need | |
| `PointerFifo` | mulle-fifo | `BoundedFifo` |
| `PointerMultiFifo` | lock-free mulle-multififo | `BoundedFifo` |
| `LockingMultiFifo` | locking mulle-multififo | `BoundedFifo` |
| `ConcurrentLinkedList` | concurrent mulle-linkedlist | |
| `WriteOnceMap` | abstract: a map, each call takes effect at one moment | |
| `ConcurrentHashmap` | hashmap of mulle-concurrent | `WriteOnceMap` |
| `AppendOnlyArray` | abstract: a sequence that grows at its end | |
| `ConcurrentPointerArray` | pointerarray of mulle-concurrent | `AppendOnlyArray` |
| `RemovableMap` | abstract: a map with remove, each call takes effect at one moment | |
| `ConcurrentHashtable` | hashtable of mulle-concurrent | `RemovableMap` |
| `Aba` | mulle-aba | |
| `MulleThread` | once and recursive mutex of mulle-thread | |
| `MC*` | instances for TLC: symmetry, the calls of each thread | |
| `PointerFifoProofs`, `PointerMultiFifoProofs`, `LockingMultiFifoProofs`, `ConcurrentLinkedListProofs`, `MulleThreadProofs`, `ConcurrentPointerArrayProofs`, `ConcurrentHashmapProofs`, `ConcurrentHashtableProofs` | theorems and proofs about the module they are named after | that module |

**PointerFifo.** `WriteBegin`, `WriteStore`, `WriteIncrement` are the test of the
count, the store with the advance of `write`, and the atomic increment;
`ReadBegin`, `ReadLoad`, `ReadDecrement` likewise. The queue it implements is
read off the ring: `First` is the oldest unread slot, which is one behind `read`
between the consumer's load and its decrement.

**PointerMultiFifo.** A write is `WriteCall` (refuses NULL and NOTYET),
`WriteIndex`, `WriteReserve` (NULL to NOTYET, or EBUSY, or retry),
`WriteAdvance`, then `WritePublish` or `WriteUndo`. A read has `ReadLoad` before
its reserve. A write takes effect when it moves the counter, before its pointer
is visible in the slot; readers that find NOTYET wait. That is why the
refinement maps the result of a thread at `w_publish` to "ok" already. `Slot` is
`(unsigned int) a_i % size`, with `UIntRange` for 2^32. The counter `n` in the
source only makes the thread yield, which changes no state.

**LockingMultiFifo.** Taking the mutex, the body's accesses and the unlock are
separate actions; `WriteTest` and `ReadTest` have the `break` that leaves the body
early. `n`, `read` and `write` wrap at `UIntRange`.

**ConcurrentLinkedList.** The callers are part of the model: a thread adds only
entries it holds, takes apart what it removed and adds it again, so that an old
head can come back. `weakcas` may fail without reason, `MaxSpurious` times.
The plain accesses to `_next` are folded into the neighbouring access to the
head; `EntriesAccounted` shows they concern entries no other thread reaches, and
`LinksPrivate` that no step writes a `_next` another thread may read.

**ConcurrentHashmap.** A storage is a generation number: `migrate_storage`
installs a successor by compare-and-swap only for the storage that is the last
one, and a storage that loses this race is freed unseen. Generation 0 is the
const empty storage, which has one slot that cannot be written; `Size[g]` is
`Grown` from generation to generation, that is doubled and at least 4, and the
size of the first storage that is allocated is what the caller asked for. A
behaviour starts in one of the situations in `Starts`: the generation the map
begins with, the entries it holds, the calls of each thread, and the bounds on
calls and patches. `Load`, `Check`, `Look*` are lookup and the
occupancy check, `Claim*` and `Fill` store an entry, `Mig*`, `Copy*`, `Put`,
`PutFollow`, `Freeze` and `Swap` are the migration, `Enum*` the enumerator and
`Patch` the single-threaded patch and remove, which need all threads idle. `my[t]`
are the local variables. `content` is auxiliary, the map a caller sees. The
model assumes of mulle-aba that a storage given to `abafree` stays readable
while a thread holds it; how often it is given away is what `freed` counts.

**ConcurrentPointerArray.** Storages are generations as in the hashmap, with
their sizes in `Size`; size 0 is the const empty storage. `AddN` and `AddCas` find and fill the slot, `PubN`,
`PubEntry` and `PubCas` are `publish`, which both `add` and `put` run, so
`my[t].then` says where it returns to. `Migrate`, `Mig*`, `Copy`, `Put`,
`PutFollow`, `Freeze` and `Swap` are the migration, `GetN` and `GetEntry` are `get`,
on which the enumerators (`next`, `prev`) are built. The refinement maps the array
a caller sees to the counted prefix of the current storage, where a frozen slot
stands for its copy: an `add` takes effect when its slot is counted, whoever
counts it.

**ConcurrentHashtable.** The hash word is `hash` with `frozen`, the value word is
`value` with `sealed`; a bit changes with its word only. `FindOrClaim`, `Claim*`
look for a slot, `ReadValue` and `ValueCas` are the ends of insert and register,
`Rem*` is remove, `Freeze*`, `Seal*`, `Carry`, `CarryProbe`, `CarryOn` and `Swap` the
migration. `migrate` as a call is `migrate_same_size`. `content` and `my[t].seen` are
auxiliary: what the map holds, and what it has held for a hash since the call
began. EEXIST is an answer to any moment of the call at which the entry was
there: insert returns it for a word it has read earlier.

**Aba.** `world` is the word; `heap[w]` is the struct behind it. A thread prepares a
new world (`PrepRegister`, `PrepRemove`, `PrepBit`, `PrepFree`) and swaps it in
(`Swap`); in case of failure it goes back to where the code goes back. `Lock` and
`Unlock` are the lock bit. `SetBit` and `BitCas` set the bit of a check-in; `Dec`, `Cut`
and `CutFree` are `check_timerange`: the last thread to count an entry down takes
its list and frees it. `FreeRead`, `FreeTest`, `FreeLoop`, `Increment`, `AddRc` and
`ListAdd` are `free_owned_pointer`, which frees at once if there is one thread only,
and otherwise advances the timestamp if the bit is set, growing or rotating the storages if there is
no entry left (`Enlarged`, `ReuseStorages`). `Leak` and `Omega` are the end of
unregister. Clients are part of the model: a thread that is registered may hold
any linked pointer (`Promise`, at its check-in, ends that), `Free` unlinks one. Freed
worlds and storages are used again by the next allocation, so that a pointer to
an old one can meet a new one.

**MulleThread.** `state` is the atomic word of each once. `OnceRead`, `OnceSwap`,
`OnceWait`, `OnceOwner`, `OnceClear` and `OnceDone` are the accesses of the forms of
once; the initializer may call the once it belongs to, and the mutex. `Lock*`,
`TryMutex` and `Unlock*` are the recursive mutex, with the read of `_thread_id` as
a step of its own. A round of a spin loop that changes nothing is left out. The
clients do not wait for a once while they have the mutex, as an initializer that
uses the mutex would then deadlock with them by the clients' own doing.

## 3. The runs

`CHECK_DEADLOCK FALSE` is set where the number of calls is bounded: then all
threads may be idle for good. In `pointerfifo` calls are not bounded and
deadlock is checked.

| Run | Instance | Properties |
|---|---|---|
| `pointerfifo` | 3 slots, 3 pointers, unbounded calls | `RingOK`, `NoOverwrite`, `FifoSpec` |
| `multififo` | 3 threads, 3 slots, range 4, 4 calls, a new fifo or a used one | `NotYetIsOwned`, `WindowOK`, `FifoSpec`, `EveryCallReturns` |
| `lockingfifo` | 2 threads, 2 slots, range 4, 7 calls | `FifoConsistent`, `FifoSpec`, `EveryCallReturns` |
| `lockingfifo_wrap` | 1 thread, 3 slots, range 4, 9 calls | `FifoSpec`, violated |
| `linkedlist` | 3 threads, 3 entries, 4 adds, 2 removes, 1 spurious failure | `EntriesAccounted`, `ChainsEnd`, `EveryCallReturns` |
| `hashmap` | 2 threads, three situations, see below | `SlotsOK`, `GenerationsOK`, `NoOneLeftBehind`, `VirginReserve`, `NeverBackwards`, `MapSpec`, `RunnerReturns` |
| `hashmap_enum_end` | 2 threads, an enumerator, 4 to 8 slots | `EndIsComplete`, violated |
| `pointerarray` | 2 threads, storages of 0, 1, 2, 4, 8 slots, 5 calls | `GenerationsOK`, `DensePrefix`, `EnumeratorsMeetNoHole`, `ArraySpec`, `RunnerReturns` |
| `hashtable` | 2 threads, 4 slots, hashes 1 and 5, up to 3 migrations and 8 slots, 4 calls | `SlotsOK`, `GenerationsOK`, `NoResurrection`, `MapSpec`, `RunnerReturns` |
| `hashtable_full` | 3 threads, 4 slots, no migration | `EveryProbeTerminates`, violated |
| `aba` | 2 threads, 2 pointers, 4 calls, from timestamp 0 and from 3, timestamp up to 4 | `TypeOK`, `NoPrematureFree`, `CountsExact`, `NothingLost`, `CleanAtTheEnd`, `WorldsOutliveReaders`, `SwapsAsserted` |
| `thread` | 3 threads, 4 calls, depth 2 | `OnceProtects`, `OwnerExact`, `EveryCallReturns` |

`TypeOK` is a conjunct of the first invariant about the state in each module
(`FifoConsistent`, `EntriesAccounted`, `SlotsOK`, `DensePrefix`, `OwnerExact`); for the
two fifos that are proved about it is part of the theorems.

Why the bounds are enough for what the runs are about:

* *Fifos.* The rings go round at least once and the counters pass their range.
  Three threads are needed in `multififo` for the worst case of the undo: one
  thread with a stale counter, and two that move the counter and refill the slot
  in the meantime. A size of 3 and a range of 4 is the smallest instance in
  which the truncated index jumps; 2 slots and a range of 4 is one in which it
  does not. The safety properties of the fifos are also proved for every size,
  number of threads and range, so that here TLC is the quick check, not the
  argument. The same holds for the safety properties of the hashmap, the
  pointerarray and mulle-thread, `MapSpec` and `ArraySpec` included.
* *Linked list.* With three entries a `remove_one` can hold two, find a third in
  the list and append; four adds of three entries mean one of them is reused, the
  case of ABA.
* *Hashmap.* The situation `race` has two hashes that collide (1 and 5 in 4
  slots), the race for a hash between insert and register, and the migration
  from the const storage, which is special because it cannot be frozen. A
  removal leaves a slot with a hash and without a value, which a later insert
  fills or a migration carries on. `grow` begins with a half-full storage, so
  that one thread can go through two migrations while the other sleeps in the
  first. In `enum` entries change places between 4 and 8 slots.
* *Pointerarray.* `MinSize` is 1 in place of the 8 of the code, so that a few adds
  fill several storages: one thread can be asleep in the first migration while
  the other completes two more. The sizes occur in no comparison but with the
  count.
* *Hashtable.* One entry is in the table from the start; both threads remove it,
  put it back and migrate. Three migrations let a copier sleep for two
  generations and come back to a storage whose entry was removed meanwhile.
  `hashtable_full` needs three threads that pass the occupancy check together.
* *mulle-aba.* Two entries per storage and room for one storage are the values of
  the DEBUG build of the source. From timestamp 0 threads register while others
  already free; from 3 (all registered, the second storage in use) the next
  timestamps need storages to be added or rotated. Two threads suffice for one
  that lags a timestamp behind and one that advances, frees and unregisters. The
  ten worlds and four storages are never used up.
* *mulle-thread.* Three threads: one runs the initializer, one waits, one comes
  later, and likewise at the mutex.

Symmetry in threads and pointers is used only in `aba`, a run without liveness
properties; its initial states and calls are symmetric. In the runs of
mulle-concurrent the threads make different calls, see the `MC` modules.

### Fairness

`multififo`, `lockingfifo`, `linkedlist` and `thread` assume weak fairness of
`Step(t)` for each thread: a thread that is inside a call and can take a step
gets to run. That is what a preemptive scheduler gives. No fairness is assumed of
making calls, nor of a particular outcome. Weak fairness suffices at the mutex
because the number of calls is bounded: a thread can be passed over only so
often. The result is freedom from livelock and deadlock, not from starvation
under an endless stream of calls of others, which none of these algorithms
gives. In `multififo` it is less than one may want: a reader or writer that meets
`NOTYET` spins until the slot's owner goes on, and these runs assume that the
owner is scheduled. With an owner that stops for good others may spin for ever;
no property denies it. In `thread`, `Step` includes the return of an initializer and the unlock by
who has the mutex, which is the clients' part of the bargain.

`hashmap`, `pointerarray` and `hashtable` assume weak fairness of one thread only,
`RunnerSpec`. All others may stop for good at any access, in the middle of a
migration too. `RunnerReturns` therefore says what mulle-concurrent means by
wait-free, as far as the bounded number of migrations lets one see it.

`aba` states no liveness property. Two threads that unregister at a time can
keep copying the world the other has locked and advance the timestamp to free
it; the timestamp then grows without limit, and a finite instance has to cut
this off (`MaxTs`).

### What the properties say

* `NoOverwrite`, `RingOK`: the producer's store, decided on an old count, still
  hits a free slot; a consumer still finds its pointer.
* `NotYetIsOwned`: the asserts in the undo, publish and clear paths hold, and no
  `NOTYET` is left behind. `WindowOK`: each pending pointer is in its slot, or in
  the hands of the one thread that owns the slot.
* `FifoConsistent`: count, counters, slots and unread pointers agree, and only
  the owner of the lock is inside.
* `FifoSpec`: the calls are those of `BoundedFifo`.
* `EntriesAccounted`, `ChainsEnd`: each entry is in one place, chains end.
* `SlotsOK`: one slot per hash and storage, reachable by probing. `GenerationsOK`:
  one migration at a time, retired storages frozen and freed exactly once.
  `NoOneLeftBehind` (the words are the source's): each value is in the current
  storage or in the next one, and in both it is the same. `VirginReserve`: the count of claimed slots lags only by claims in progress,
  and each thread takes at most one slot beyond the half. It bounds the overshoot;
  that a virgin slot remains follows only where there are no more threads than
  half of the storage has slots. Where there are more, a probe of the hashmap can
  come round and migrates; for the hashtable see `hashtable_full`. `NeverBackwards`: a
  hash word never changes, a value word moves from NULL to a value to REDIRECT.
  `MapSpec`: the calls are those of `WriteOnceMap`.
* Pointerarray: `GenerationsOK`, a storage is retired only when it is full and its
  count says so, is then frozen in every slot and freed once. `DensePrefix`:
  counted slots are filled, and a copy is at the index of its original.
  `EnumeratorsMeetNoHole`: the asserts of the enumerators; what a count has
  covered in one storage, `get` finds in whichever it reads. `ArraySpec`: the calls
  are those of `AppendOnlyArray`.
* Hashtable: `NoResurrection`, the current storage has exactly the entries that
  were inserted and not removed, at every moment of a migration. `SlotsOK` and
  `GenerationsOK`: seal after freeze, a successor before both, one slot per hash.
  `MapSpec`: the calls are those of `RemovableMap`, also for an enumerator that
  comes to its end.
* mulle-aba: `NoPrematureFree`, nothing is freed twice or while a thread may have
  it. `CountsExact`: the count of an entry is the number of threads that have not
  checked in to it, less what is about to be added; it is the invariant the
  first rests on. `NothingLost`: an unlinked pointer is on one list, in one pair
  of hands, or freed. `CleanAtTheEnd`: after the last unregister all is freed.
  `WorldsOutliveReaders`: the worlds, too, are not freed while they are used.
  `SwapsAsserted`: the table of state changes in `assert_valid_transition`.
* mulle-thread: `OnceProtects`, one run of the initializer, complete before a
  blocking call returns. `OwnerExact`: lock holders exclude each other, depth and
  owner are theirs.
* `EveryCallReturns`, `RunnerReturns`: see Fairness.

### Where code and documentation disagree

* `lockingfifo_wrap`: if the size does not divide 2^32, the slot index jumps when
  the unsigned counters wrap, and a write that has room destroys an unread
  pointer. With a size that is a power of two it cannot happen (`lockingfifo`).
* `hashmap_enum_end`: an enumerator that has returned nothing yet does not notice
  a migration. It goes on in the new storage from the index it had reached,
  skips entries and ends normally, though the header promises it "will tell you".
* `hashtable_full`: the occupancy is compared with half of the size before the
  claim, so that three threads can claim all of four slots. A lookup of an absent
  hash then comes round: it fails an assert, and without assertions goes on until
  another thread migrates the table. The comment says "a virgin slot always
  remains and every linear probe terminates".

The lock-free fifo is weaker than its docs ("returns NULL if empty") in one more
way: `read_barrier` can return NULL although the fifo was at no moment of the call
empty, when the reader's copy of the counter was stale and it saw a slot another
reader had cleared. This is why it implements `BoundedFifo` only with
`Spurious = TRUE`.

## 4. What is proved

All theorems hold for every value of the constants that satisfies the named
`ASSUME` of the module, which TLC evaluates in the runs too.

**PointerFifoProofs**, from `FifoAssumption` (size at least 2, NULL is no
pointer). The inductive invariant is `IInv == TypeOK /\ RingOK`: `NoOverwrite`
alone is not inductive, because it says nothing of the relation of `write` to
`read` and `n` after the store. `RingOK` fixes this relation in each of the
moments in which a call has moved one of them and not yet the other.
`Wrap` and `FirstSlot` are the lemmas about the modulo.

* `RingIsConsistent`: `Spec => [](TypeOK /\ RingOK)`.
* `NeverOverwrites`: `Spec => []NoOverwrite`.
* `ImplementsFifo`: `Spec => FifoSpec`. `IncrementAppends` and
  `DecrementTakesHead` show that the increment appends to the queue read off the
  ring and the decrement takes its head; all other steps stutter or fail exactly
  when the queue is full or empty.

**PointerMultiFifoProofs**, from `MultiFifoAssumption` (size at least 2, a positive
range, three disjoint kinds of words), for any set of threads. The invariant is
`IInv == TypeOK /\ NotYetIsOwned /\ WindowOK`. The two halves need each other:
that a slot with NOTYET has one owner shows that others leave the window alone,
and that a reserved slot is free or pending, whatever the counter does, shows
that the owner may put back what it found. It is remarkable that the range of
the index need not be a multiple of the size: a write that advances the counter
has found its slot NULL, so `WindowOK` gives that no pending pointer shares it.
The steps fall into five kinds, each with its lemma: those that change nothing
shared (`LocalStep`), take a slot (`TakeStep`), give it back (`ReleaseStep`), miss
the counter (`MissedStep`) or move it (`WriteAdvanceStep`, `ReadAdvanceStep`).

* `AssertsHold`: `Spec => []NotYetIsOwned`.
* `WindowIsConsistent`: `Spec => [](TypeOK /\ WindowOK)`.
* `ImplementsFifo`: `Spec => FifoSpec`; `Capacity` bounds the pending pointers by
  the number of slots.

The bound `MaxCalls` is a constant of the module and arbitrary in the proofs.

**LockingMultiFifoProofs**, from `LockingAssumption`, for any number of threads
and any size and range. Its theorems have one more hypothesis, `SizeDivides`:
the range of the unsigned counters is a multiple of the size. Nothing in the code
asks for it, and the run `lockingfifo_wrap` shows that without it the property is
false; it is satisfied by every power of two. The lemmas about the counters
(`UIntValue`, `SameSlot`, `NearMultiple`, `SlotsApart`) say that under it two
counters less than a size apart never share a slot, also across the wrap. The
invariant is `FifoConsistent` and what is known between the steps of a critical
section: who has the mutex, and what it has read.

* `Consistency`: `SizeDivides` gives `Spec => []FifoConsistent`.
* `Refinement`: `SizeDivides` gives `Spec => FifoSpec`.

**MulleThreadProofs**, from `MulleThreadAssumption`, for any number of threads,
onces, calls and depth. The invariant is `TypeOK /\ MutexInv /\ OnceInv`. Its
parts say of each label what a thread there has: `OwnerExact` is not inductive,
because the owner is recorded a step after the mutex is taken and cleared a step
before it is released, and `OnceProtects` is not, because the word of a once does
not tell how far its initializer has come. `OnceInv` ties the three: who runs it,
the word, and what callers have seen.

* `OnceProtected`: `Spec => []OnceProtects`.
* `OwnerIsExact`: `Spec => []OwnerExact`.

**ConcurrentLinkedListProofs**, from `ListAssumption` (finitely many entries), for
any number of threads and calls. The model follows chains with a recursive
function, and half of the module is about what such a walk is. `Least`, every set
of naturals has a least element, follows from the library's `WFMin` and stands in
for induction: it gives that the walk exists (`PathExists`), that a chain is the
smallest set that has its head and is closed under the links (`MembersLeast`,
`MembersClosed`), and that it ends if and only if its entries can be numbered so
that the numbers fall along the links (`RankedEnds`, by the pigeonhole principle,
and `EndsRanked`). From this what the operations do to a chain follows without
further walking: a link elsewhere leaves it alone (`ChainKept`), an entry is pushed
(`ChainPush`), the head lopped off (`ChainRest`), a chain appended (`ChainAppended`).

The invariant `IInv` says that every entry has an owner, a place (`Owner`), and that
the list and the detached chains are chains of exactly the entries they own. The
local part `LocalInv` says what `entry`, `chain` and `seen` are at each label. It
says nothing of the list being what it was when it was read: an `add` whose `_next`
is the head may be overtaken by any number of removes and adds, and if the same
head is back the push is right nevertheless. So ABA is harmless here.

* `Accounted`: `Spec => []EntriesAccounted`. `NoCycle`: `Spec => []ChainsEnd`.
* `LinksPrivate`: `Spec => [][OwnersLink]_vars`, which no run states: a step writes
  no `_next` of an entry that another thread has or that stays in the list. This is
  what allows the model to make plain accesses to `_next` in the step of the
  neighbouring access to the head.

**ConcurrentPointerArrayProofs**, from `PointerArrayAssumption`, for any number
of threads, calls, migrations and sizes. The invariant is `TypeInv`, `GenInv` (the
generations), `DenseInv` (counted slots are filled), `MigratorInv` (an unfinished
migration is in some thread's hands), and for each thread what it has read that
is still true. The last is where the argument lies: a thread may sleep through
any number of migrations, so what it knows of its storage must be something no
migration takes back. `Forward` lists these: storages, counts, filled and frozen
slots, and elements. Every step is shown to keep the invariant for the thread
that takes it, and `Forward` gives all others at once.

* `NothingTakenBack`: `Spec => [][Forward]_vars`, which no run states.
* `StoragesRetireFull`: `Spec => []GenerationsOK`. `CountedIsFilled`:
  `Spec => []DensePrefix`. `NoHoles`: `Spec => []EnumeratorsMeetNoHole`.

The second half of the module ends in `ImplementsArray`, `Spec => ArraySpec`. The
array a caller sees is the counted part of the current storage, where a frozen
slot stands for its copy. On top of the above it needs `TailInv`: beyond the count
there is at most one filled slot, and exactly one `add` in progress is waiting
for it to be counted. This is what makes the move of a count, by whichever
thread, the moment at which that add takes effect, and why adds that are counted
by others do not take effect twice. `WonAt` and `KnownAt` say where this add is
and that a call never relies on a count greater than the current one.

**ConcurrentHashmapProofs**, from `HashmapAssumption` (the sizes grow as the
source makes them grow, a situation begins with at most a half-full table whose
entries are in their home slots), for any number of threads, hashes, migrations
and sizes. The invariant `IInv` has these parts, each needed by the others:

* `SlotInv`, that a hash has one slot and its probe meets no gap before it. A
  claim keeps this because its thread has met only other hashes on its way
  (`ProbeAt`), and a hash word never changes again.
* `GenInv`, the generations, as of the pointerarray; and that the next storage has
  only hashes of the current one, which makes it empty when a migration begins.
* `ContentInv`, that each value is in the current storage or, behind a redirect,
  in the next one, and that neither storage has another value for it.
* `CopyAt`, what a copier may rely on: the slots it has passed are frozen, what it
  carries is what the map has for that hash, and if the storage it carries it to
  has been retired meanwhile, that storage has a slot with the hash already. So a
  copier that is generations behind changes nothing but counts and redirects.
* `MigratorInv` and `CallAt`, as for the pointerarray.

A step never takes a hash, value or redirect back (`Forward`), except in a
patch, which runs alone (`PatchStep`). For the count there is `CountInv` on top:
threads that have passed the check of the occupancy (`Entitled`) and have not
claimed, and threads that have claimed and not counted (`Counting`), are disjoint
from each other. The claims of copiers do not pass the check. They are bounded by
the pigeonhole lemma `KeysFit`: they bring only hashes of the previous storage,
which has no more slots than half of this one.

* `Generations`: `Spec => []GenerationsOK`. `NothingLeftBehind`:
  `Spec => []NoOneLeftBehind`. `SlotsRight`: `Spec => []SlotsOK`.
* `SlotsMoveForward`: `Spec => NeverBackwards`.
* `ReserveSuffices`: `Spec => []VirginReserve`.

The last part of the module ends in `ImplementsMap`, `Spec => MapSpec`. Which step of
a call is the moment at which it takes effect follows from `ContentInv`: the CAS
of the value that finds NULL in the current storage (`FillRef`), the load of a
value that is no redirect (`ValueAnswers`), the virgin slot that ends a probe
(`LookAbsent`). All other steps are invisible (`InsideStep`). The invariant `RInv`
adds to `IInv` what these moments rely on:

* `LookAt`, that no value is taken from under a call: what the map had for its
  hash when the call began it still has, and a lookup that began with a value is in
  a storage with that hash, at a slot that its probe has not passed yet. So it
  may come late, to a storage long retired, but not miss the value.
* `RoverAt`, that an enumerator has returned only hashes of slots which it has left
  behind, in a storage of the size it remembers; `SizesInv`, that no two storages
  have the same size, so that the size tells the storage. Without the latter the
  `mask` that the enumerator keeps would not protect it from returning an entry
  twice.

`HashmapAssumption` says of `Idle`, which stands for "not in a call", that it is
not a call and not an answer.

**ConcurrentHashtableProofs**, from `HashtableAssumption` (finitely many threads;
`Idle`, which stands for "not in a call", is no call; the first storage has a power
of two of slots, at least 4, as `_mulle_concurrent_hashtablestorage_alloc` makes
it; `MaxSize`, the bound on what migrations grow it to, is any number from there
up; the entries `Filled` at the start, possibly none, sit in their home slots and
fill at most half of it), for any number of threads, hashes and migrations. No
proof uses more of the sizes than that they are positive: every fact about
probes holds for any number of slots. The invariant `IInv` has the parts of the hashmap's, but a slot has more states, and a value can
go away again:

* `SlotInv`: a claimed slot comes before the first virgin one of its hash's probe,
  and what has a value or a seal is claimed, what is sealed is frozen.
* `GenInv`: the generations. A migration is `Done` with a slot that is frozen and,
  if claimed, sealed, and whose value, if it is one, has `Settled` in the next
  storage; a retired storage is done throughout. A successor has no tombstones and
  nothing frozen until it is the table's storage.
* `ContentInv`: what the map has for a hash is in the hash's slot of the current
  storage, and nothing else is; the successor has only values which are sealed in
  the current storage. A value that is carried stays where it was, so that there
  is no moment at which a migration has it in hand only.
* `CallAt`, `ProbeAt` and `CopyAt` say for each label what its thread may rely on.
  The heart is `CopyAt`: a copier has a value `cv` of a sealed slot, and the storage
  it carries it to is either the direct successor that is not the table's yet,
  where nothing but that value can be stored, or it has been the table's
  meanwhile, and then the hash has a slot there that is no longer NULL. NULL is
  what the copier compares with, and a slot never returns to it: a remove leaves
  a tombstone. So the copier that lags behind does nothing. `CopyAt` also says that
  a copier never leaves the direct successor: the branches of `carry` that follow
  a retired storage to the next one (`CarryOn`) are never taken.

`Forward` lists what no step takes back (claims, freezes, seals, and that a value
word is not NULL); all a thread knows is made of these. Hence a step is checked
for the thread that takes it, and `Forward` gives the rest.

* `Generations`: `Spec => []GenerationsOK`. `SlotsRight`: `Spec => []SlotsOK`.
* `NothingResurrected`: `Spec => []NoResurrection`.
* `Counted`: `Spec => []CountInv`, the occupancy count is the number of claimed
  slots less the claims that are not counted yet. `SlotsOK` needs it for its type
  part, and it needs finitely many threads.
* `NothingTakenBack`: `Spec => [][Forward]_vars`, which no run states.

The last part of the module ends in `ImplementsMap`, `Spec => MapSpec`. What the
callers see of a step is one of these: a store, the CAS of the value by an insert or
register (`ValueCasRef`); a removal, the CAS to the tombstone (`RemCasRef`); the
return of a call that changes nothing; the start of a call or of an enumerator.
Every other step, all of a migration among them, is shown to be invisible: claims,
counts, freezing, sealing, carrying and the swap of the storage (`HiddenStep`,
`MigrationRef`). A call that changes nothing may answer for any moment since it
began, which the map of `RemovableMap` records in `seen`. The invariant `RInv` adds
to `IInv` why it has seen what it answers:

* `SeenLast`: a call under way has seen what the map has for its hash now. With it
  an answer that is read from the current storage is right.
* `LookAt`: what a lookup will find in the storage it is in, it has seen. It may be
  in a storage long retired, whose values were removed from its successor since.
  They are sealed there, and were the map's when they were sealed, and a lookup that
  starts meets only the storage that is current.
* `StoreAt`: when the CAS of an insert or register fails because the word is no
  longer NULL, the map has had a value for the hash in the meantime, also if it has
  been removed again.
* `RoverAt`: an enumerator has returned only hashes of slots it has left behind,
  and what has been in the table since it began and is not returned yet is still
  ahead of it. It keeps its storage until the end, hence needs no sizes to tell
  the storage, as the hashmap's does.

`KnowsOn` carries what another thread knows across a step: `Forward` keeps what it
is about, and its `seen` only grows. `OthersKnow` is the case of a step that leaves
the map alone, and `WriteRef` that of a store or a removal, which all calls under
way for the same hash get to see at once.

**Only model-checked:**

* Liveness, `EveryCallReturns` and `RunnerReturns`: fairness and ENABLED are out of
  reach of the prover.
* Aba: its invariants have not been attempted in the prover. They sum over the
  entries of storages that are rotated and used again (`ReuseStorages` is a fold),
  and each needs all others: a count is only right if no world is freed too early,
  and the other way round.

## 5. What is not modelled

* Weak memory, see the conventions in section 2.
* Failure of allocation: the allocator's failure handler aborts by default. The
  ENOMEM paths of a client allocator that returns NULL are left out.
* `walk` of the linked list and `done` of all containers, which need exclusive
  access; `get_size`; `count` and `lookup_any`, which are loops over the enumerator;
  `find` and `map` of the array, loops over `next`; the argument checks of wrappers.
* A new storage of a hashtable at the address of one that was freed: generations
  are numbers that do not come back. `hashtableenumerator_next` compares storages by
  address between calls and names this caveat in a comment; the promise about
  enumerators holds without such a coincidence.
* Of mulle-aba: the wrap of the timestamp, the lists of spare entries and worlds
  (their protocol is ConcurrentLinkedList's), and the global API on top.
* Of mulle-thread: threads, thread-local storage, condition variables, the Windows
  port.
* The fixed-size fifos of mulle-fifo, the same code with a constant size.
* The order of the concurrent list and the times at which the lock-free fifo
  reports EBUSY: neither is stated beyond what `FifoSpec` with `Spurious` and
  `EntriesAccounted` say.
* The sequential constituents, see `PROJECT.json`.

## 6. Plan

In the order of importance:

1. The composition of `Aba` with a container, to discharge what the modules of
   mulle-concurrent assume of `abafree`.
2. `ConcurrentPointerSet`, the hashmap's protocol with one word per slot.
3. mulle-spawn's poll loop with its deadline; mulle-storage's free list; the
   red-black tree checked as a pure algorithm against a reference.

Proofs to come: `CountsExact` and, from it, `NoPrematureFree` of mulle-aba.
