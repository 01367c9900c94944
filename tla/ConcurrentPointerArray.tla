----------------------- MODULE ConcurrentPointerArray -----------------------
(***************************************************************************)
(* mulle-concurrent, the pointerarray: an array that any number of threads *)
(* append to, read and enumerate, and that any thread that finds it full   *)
(* migrates into a storage of twice the size.                              *)
(*                                                                         *)
(* As in ConcurrentHashmap a storage is the number of its generation, one  *)
(* action stands for one atomic access, and a storage given to abafree     *)
(* stays readable while a thread can hold it.                              *)
(***************************************************************************)
EXTENDS Integers, FiniteSets

CONSTANTS
    Threads,
    Values,
    NULL,          \* MULLE_CONCURRENT_NO_POINTER
    REDIRECT,      \* REDIRECT_VALUE
    Idle,          \* no call
    Calls,         \* Calls[t]: the calls thread t makes, each [op, arg]
    MinSize,       \* the smallest storage alloc_pointerarraystorage makes
    Size,          \* Size[g]: slots of storage g, Size[0] = 0 for the const empty one
    MaxGen,        \* bound on the migrations
    MaxCalls       \* bound on the calls

Gens == 0 .. MaxGen

(* migrate_storage allocates twice the size, and at least MinSize *)
Grown(size) == IF 2 * size < MinSize THEN MinSize ELSE 2 * size

ASSUME PointerArrayAssumption ==
    /\ NULL \notin Values /\ REDIRECT \notin Values /\ NULL # REDIRECT
    /\ Idle \notin Values \union Nat \union {NULL} /\ \A t \in Threads : Idle \notin Calls[t]
    /\ Idle \notin [op : {"add", "get", "count"}, arg : Values \union Nat, before : Nat, added : BOOLEAN]
    /\ \A t \in Threads : \A c \in Calls[t] :
         \/ c.op = "add" /\ c.arg \in Values
         \/ c.op = "get" /\ c.arg \in 0 .. Size[MaxGen]
         \/ c.op \in {"count", "next", "prev"} /\ c.arg = 0
    /\ MinSize \in Nat \ {0}
    /\ Size \in [Gens -> Nat] /\ (Size[0] = 0 \/ Size[0] >= MinSize)
    /\ \A g \in 1 .. MaxGen : Size[g] = Grown(Size[g - 1])
    /\ MaxGen \in Nat /\ MaxCalls \in Nat

VARIABLES
    storage, next_storage,   \* array->storage, array->next_storage
    n, entries,              \* n[g], entries[g][i] of storage g
    freed,                   \* freed[g]: how often g went to abafree
    pc, my,                  \* per thread: where it is, its local variables
    index, rindex,           \* per thread: its enumerator, its reverse one
    answer,                  \* per thread: what its last call returned
    calls                    \* calls so far

world == <<storage, next_storage, freed>>
rovers == <<index, rindex>>
vars == <<storage, next_storage, n, entries, freed, pc, my, index, rindex, answer, calls>>

Index(g) == 0 .. Size[g] - 1

(* The locals of a thread: the call and the count at its start             *)
(* (auxiliary), the index i of add and get, whether add won its slot or    *)
(* next has seen a count above its index, p and q of migrate_storage,      *)
(* copy's index c, dst and value, publish's k and where it returns to.     *)
NoLocals ==
    [call |-> Idle, before |-> 0, i |-> 0, won |-> FALSE, p |-> 0, q |-> 0,
     c |-> 0, dst |-> 0, value |-> NULL, k |-> 0, then |-> "idle"]

Labels ==
    {"idle", "load", "count", "add_n", "add_cas", "get_n", "get_entry", "pub_n",
     "pub_entry", "pub_cas", "migrate", "mig_next", "mig_alloc", "copy", "put",
     "follow", "freeze", "swap"}

-----------------------------------------------------------------------------
Init ==
    /\ storage = 0 /\ next_storage = 0
    /\ n = [g \in Gens |-> 0]
    /\ entries = [g \in Gens |-> [i \in Index(g) |-> NULL]]
    /\ freed = [g \in Gens |-> 0]
    /\ pc = [t \in Threads |-> "idle"]
    /\ my = [t \in Threads |-> NoLocals]
    /\ index = [t \in Threads |-> 0] /\ rindex = [t \in Threads |-> 0]
    /\ answer = [t \in Threads |-> Idle]
    /\ calls = 0

Goto(t, l) == pc' = [pc EXCEPT ![t] = l]

Return(t, a) ==
    /\ Goto(t, "idle")
    /\ my' = [my EXCEPT ![t] = NoLocals]
    /\ answer' = [answer EXCEPT ![t] = a]

(* __mulle_atomic_pointer_cas( &storage->entries[ i], new, expect) *)
CasEntry(g, i, new, expect) ==
    entries' = [entries EXCEPT ![g][i] = IF @ = expect THEN new ELSE @]

(* A thread calls add, get, get_count or the next of one of its            *)
(* enumerators.  find and map call next until it returns NULL.  A reverse  *)
(* enumerator is made from the count of an earlier get_count.              *)
Call(t, c) ==
    /\ pc[t] = "idle" /\ calls < MaxCalls
    /\ c.op = "prev" => rindex[t] > 0
    /\ calls' = calls + 1
    /\ rindex' = [rindex EXCEPT ![t] = IF c.op = "prev" THEN @ - 1 ELSE @]
    /\ my' = [my EXCEPT ![t] = [NoLocals EXCEPT !.call = c, !.before = n[storage],
                !.i = CASE c.op = "get" -> c.arg
                        [] c.op = "next" -> index[t]
                        [] c.op = "prev" -> rindex[t] - 1
                        [] OTHER -> 0]]
    /\ answer' = [answer EXCEPT ![t] = Idle]
    /\ Goto(t, "load")
    /\ UNCHANGED <<world, n, entries, index>>

(* retry: p = array->storage.  next calls get_count before get. *)
Load(t) ==
    /\ pc[t] = "load"
    /\ my' = [my EXCEPT ![t].p = storage]
    /\ Goto(t, CASE my[t].call.op = "add" -> "add_n"
                 [] my[t].call.op = "count" -> "count"
                 [] my[t].call.op = "next" /\ ~my[t].won -> "count"
                 [] OTHER -> "get_n")
    /\ UNCHANGED <<world, n, entries, rovers, answer, calls>>

(* get_count; next goes on with get if its index is within the count. *)
Count(t) ==
    /\ pc[t] = "count"
    /\ LET c == n[my[t].p]
       IN \/ /\ my[t].call.op = "count"
             /\ rindex' = [rindex EXCEPT ![t] = c]
             /\ Return(t, c)
          \/ /\ my[t].call.op = "next" /\ my[t].i >= c
             /\ Return(t, NULL) /\ UNCHANGED rindex
          \/ /\ my[t].call.op = "next" /\ my[t].i < c
             /\ my' = [my EXCEPT ![t].won = TRUE]
             /\ Goto(t, "load") /\ UNCHANGED <<rindex, answer>>
    /\ UNCHANGED <<world, n, entries, index, calls>>

-----------------------------------------------------------------------------
(* storage_get *)

GetN(t) ==
    /\ pc[t] = "get_n"
    /\ \/ my[t].i >= n[my[t].p] /\ Return(t, NULL)
       \/ my[t].i < n[my[t].p] /\ Goto(t, "get_entry") /\ UNCHANGED <<my, answer>>
    /\ UNCHANGED <<world, n, entries, rovers, calls>>

(* Mutant: a frozen entry is read again until somebody has migrated it. *)
GetEntryWaits(t) ==
    /\ pc[t] = "get_entry"
    /\ LET v == entries[my[t].p][my[t].i]
       IN \/ v # REDIRECT /\ Return(t, v)
          \/ v = REDIRECT /\ Goto(t, "load") /\ UNCHANGED <<my, answer>>
    /\ UNCHANGED <<world, n, entries, rovers, calls>>

GetEntry(t) ==
    /\ pc[t] = "get_entry"
    /\ LET v == entries[my[t].p][my[t].i]
       IN \/ /\ v # REDIRECT
             /\ Return(t, v)
             /\ index' = [index EXCEPT ![t] = IF my[t].call.op = "next" THEN @ + 1 ELSE @]
          \/ v = REDIRECT /\ Goto(t, "migrate") /\ UNCHANGED <<my, answer, index>>
    /\ UNCHANGED <<world, n, entries, rindex, calls>>

-----------------------------------------------------------------------------
(* storage_add *)

(* Mutant: the last slot counts as no space. *)
AddNEarly(t) ==
    /\ pc[t] = "add_n"
    /\ LET i == n[my[t].p]
       IN /\ my' = [my EXCEPT ![t].i = i]
          /\ Goto(t, IF i >= Size[my[t].p] - 1 THEN "migrate" ELSE "add_cas")
    /\ UNCHANGED <<world, n, entries, rovers, answer, calls>>

AddN(t) ==
    /\ pc[t] = "add_n"
    /\ LET i == n[my[t].p]
       IN /\ my' = [my EXCEPT ![t].i = i]
          /\ Goto(t, IF i >= Size[my[t].p] THEN "migrate" ELSE "add_cas")
    /\ UNCHANGED <<world, n, entries, rovers, answer, calls>>

(* Mutant: add returns with its slot filled, the count to be advanced by   *)
(* whoever comes next.                                                     *)
AddCasUnpublished(t) ==
    /\ pc[t] = "add_cas"
    /\ LET found == entries[my[t].p][my[t].i]
       IN \/ found = REDIRECT /\ Goto(t, "migrate") /\ UNCHANGED <<my, answer>>
          \/ found = NULL /\ Return(t, 0)
          \/ /\ found \in Values
             /\ my' = [my EXCEPT ![t].dst = my[t].p, ![t].then = "add_n"]
             /\ Goto(t, "pub_n") /\ UNCHANGED answer
    /\ CasEntry(my[t].p, my[t].i, my[t].call.arg, NULL)
    /\ UNCHANGED <<world, n, rovers, calls>>

(* The slot is filled, by this thread or by another one: publish, and      *)
(* return or try the next slot.                                            *)
AddCas(t) ==
    /\ pc[t] = "add_cas"
    /\ LET found == entries[my[t].p][my[t].i]
       IN \/ found = REDIRECT /\ Goto(t, "migrate") /\ UNCHANGED my
          \/ /\ found # REDIRECT
             /\ my' = [my EXCEPT ![t].won = found = NULL, ![t].dst = my[t].p,
                                 ![t].then = IF found = NULL THEN "idle" ELSE "add_n"]
             /\ Goto(t, "pub_n")
    /\ CasEntry(my[t].p, my[t].i, my[t].call.arg, NULL)
    /\ UNCHANGED <<world, n, rovers, answer, calls>>

-----------------------------------------------------------------------------
(* storage_publish( dst): n moves over the slots that are filled *)

PublishReturns(t) ==
    \/ my[t].then = "idle" /\ Return(t, 0)
    \/ my[t].then # "idle" /\ Goto(t, my[t].then) /\ UNCHANGED <<my, answer>>

PubN(t) ==
    /\ pc[t] = "pub_n"
    /\ LET k == n[my[t].dst]
       IN \/ k >= Size[my[t].dst] /\ PublishReturns(t)
          \/ /\ k < Size[my[t].dst]
             /\ my' = [my EXCEPT ![t].k = k]
             /\ Goto(t, "pub_entry") /\ UNCHANGED answer
    /\ UNCHANGED <<world, n, entries, rovers, calls>>

PubEntry(t) ==
    /\ pc[t] = "pub_entry"
    /\ IF entries[my[t].dst][my[t].k] \in {NULL, REDIRECT}
       THEN PublishReturns(t)
       ELSE Goto(t, "pub_cas") /\ UNCHANGED <<my, answer>>
    /\ UNCHANGED <<world, n, entries, rovers, calls>>

(* Mutant: the count is incremented rather than moved on from k. *)
PubCasBlind(t) ==
    /\ pc[t] = "pub_cas"
    /\ n' = [n EXCEPT ![my[t].dst] = IF @ < Size[my[t].dst] THEN @ + 1 ELSE @]
    /\ Goto(t, "pub_n")
    /\ UNCHANGED <<world, my, entries, rovers, answer, calls>>

PubCas(t) ==
    /\ pc[t] = "pub_cas"
    /\ n' = [n EXCEPT ![my[t].dst] = IF @ = my[t].k THEN @ + 1 ELSE @]
    /\ Goto(t, "pub_n")
    /\ UNCHANGED <<world, my, entries, rovers, answer, calls>>

-----------------------------------------------------------------------------
(* migrate_storage( p) *)

(* A stale source must not copy. *)
Migrate(t) ==
    /\ pc[t] = "migrate"
    /\ Goto(t, IF storage = my[t].p THEN "mig_next" ELSE "load")
    /\ UNCHANGED <<world, my, n, entries, rovers, answer, calls>>

(* storage_copy starts; the const storage is not written to. *)
StartCopy(t, q) ==
    /\ my' = [my EXCEPT ![t].q = q, ![t].dst = q, ![t].c = 0]
    /\ Goto(t, IF Size[my[t].p] = 0 THEN "swap" ELSE "copy")

MigNext(t) ==
    /\ pc[t] = "mig_next"
    /\ IF next_storage = my[t].p
       THEN Goto(t, "mig_alloc") /\ UNCHANGED my
       ELSE StartCopy(t, next_storage)
    /\ UNCHANGED <<world, n, entries, rovers, answer, calls>>

(* The new storage becomes the next one, unless another thread was faster. *)
MigAlloc(t) ==
    /\ pc[t] = "mig_alloc" /\ my[t].p < MaxGen
    /\ \/ /\ next_storage = my[t].p
          /\ next_storage' = my[t].p + 1
          /\ StartCopy(t, my[t].p + 1)
       \/ /\ next_storage # my[t].p
          /\ StartCopy(t, next_storage)
          /\ UNCHANGED next_storage
    /\ UNCHANGED <<storage, freed, n, entries, rovers, answer, calls>>

(* copy is done with slot c; after the last one it publishes dst. *)
CopyNext(t) ==
    LET last == my[t].c = Size[my[t].p] - 1
    IN /\ my' = [my EXCEPT ![t].c = @ + 1, ![t].value = NULL, ![t].k = 0,
                           ![t].then = IF last THEN "swap" ELSE "idle"]
       /\ Goto(t, IF last THEN "pub_n" ELSE "copy")

(* The inner loop of copy with v for value: a frozen slot is done with, a  *)
(* value is put into dst before its slot is frozen, an empty slot is       *)
(* frozen.                                                                 *)
CopyLoop(t, v) ==
    IF v = REDIRECT
    THEN CopyNext(t)
    ELSE /\ my' = [my EXCEPT ![t].value = v]
         /\ Goto(t, IF v = NULL THEN "freeze" ELSE "put")

Copy(t) ==
    /\ pc[t] = "copy"
    /\ CopyLoop(t, entries[my[t].p][my[t].c])
    /\ UNCHANGED <<world, n, entries, rovers, answer, calls>>

(* Mutant: put appends where dst has its end. *)
PutAppends(t) ==
    /\ pc[t] = "put"
    /\ my' = [my EXCEPT ![t].then = "freeze"]
    /\ Goto(t, "pub_n")
    /\ CasEntry(my[t].dst, n[my[t].dst], my[t].value, NULL)
    /\ UNCHANGED <<world, n, rovers, answer, calls>>

Put(t) ==
    /\ pc[t] = "put"
    /\ \/ /\ entries[my[t].dst][my[t].c] = REDIRECT
          /\ Goto(t, "follow") /\ UNCHANGED my
       \/ /\ entries[my[t].dst][my[t].c] # REDIRECT
          /\ my' = [my EXCEPT ![t].then = "freeze"]
          /\ Goto(t, "pub_n")
    /\ CasEntry(my[t].dst, my[t].c, my[t].value, NULL)
    /\ UNCHANGED <<world, n, rovers, answer, calls>>

(* dst is being retired itself. *)
PutFollow(t) ==
    /\ pc[t] = "follow"
    /\ my' = [my EXCEPT ![t].dst = next_storage]
    /\ Goto(t, "put")
    /\ UNCHANGED <<world, n, entries, rovers, answer, calls>>

(* The slot is frozen if it still has the value that was copied. *)
Freeze(t) ==
    /\ pc[t] = "freeze"
    /\ LET v == entries[my[t].p][my[t].c]
       IN IF v = my[t].value THEN CopyNext(t) ELSE CopyLoop(t, v)
    /\ CasEntry(my[t].p, my[t].c, REDIRECT, my[t].value)
    /\ UNCHANGED <<world, n, rovers, answer, calls>>

(* array->storage becomes q; the thread that changes it frees p. *)
Swap(t) ==
    /\ pc[t] = "swap"
    /\ storage' = IF storage = my[t].p THEN my[t].q ELSE storage
    /\ freed' = [freed EXCEPT ![my[t].p] =
                   IF storage = my[t].p /\ Size[my[t].p] # 0 THEN @ + 1 ELSE @]
    /\ my' = [my EXCEPT ![t].q = 0, ![t].c = 0, ![t].dst = 0, ![t].then = "idle"]
    /\ Goto(t, "load")
    /\ UNCHANGED <<next_storage, n, entries, rovers, answer, calls>>

-----------------------------------------------------------------------------
Step(t) ==
    \/ Load(t) \/ Count(t) \/ GetN(t) \/ GetEntry(t) \/ AddN(t) \/ AddCas(t)
    \/ PubN(t) \/ PubEntry(t) \/ PubCas(t)
    \/ Migrate(t) \/ MigNext(t) \/ MigAlloc(t) \/ Copy(t)
    \/ Put(t) \/ PutFollow(t) \/ Freeze(t) \/ Swap(t)

Next == \E t \in Threads : Step(t) \/ \E c \in Calls[t] : Call(t, c)

Spec == Init /\ [][Next]_vars

(* One thread that keeps running once it is in a call; the others may stop *)
(* anywhere for good.                                                      *)
Runner == CHOOSE t \in Threads : TRUE

RunnerSpec == Spec /\ WF_vars(Step(Runner))

-----------------------------------------------------------------------------
(* Types; no call ever returns the REDIRECT of a frozen slot. *)
TypeOK ==
    /\ storage \in Gens /\ next_storage \in Gens
    /\ \A g \in Gens :
         /\ entries[g] \in [Index(g) -> Values \union {NULL, REDIRECT}]
         /\ n[g] \in 0 .. Size[g]
         /\ freed[g] \in Nat
    /\ \A t \in Threads :
         /\ pc[t] \in Labels
         /\ my[t].call \in Calls[t] \union {Idle}
         /\ my[t].p \in Gens /\ my[t].q \in Gens /\ my[t].dst \in Gens
         /\ my[t].value \in Values \union {NULL}
         /\ answer[t] \in Values \union Nat \union {NULL, Idle}
         /\ index[t] \in Nat /\ rindex[t] \in Nat
    /\ calls \in 0 .. MaxCalls

(* The generations: a storage is retired only when it is full and its      *)
(* count says so, which is why an add never finds its slot frozen under it *)
(* and returns with its value counted.  A storage before the current one   *)
(* is frozen in every slot and was freed once; what the array can reach is *)
(* not freed.  With no call in progress no migration is either, so that    *)
(* done has one storage to free.                                           *)
GenerationsOK ==
    /\ next_storage \in {storage, storage + 1}
    /\ \A g \in 0 .. storage - 1 :
         /\ freed[g] = IF Size[g] = 0 THEN 0 ELSE 1
         /\ n[g] = Size[g] /\ \A i \in Index(g) : entries[g][i] = REDIRECT
    /\ \A g \in storage .. MaxGen : freed[g] = 0
    /\ next_storage # storage => n[storage] = Size[storage]
    /\ \A g \in next_storage .. MaxGen : \A i \in Index(g) :
         entries[g][i] # NULL => g = next_storage /\ entries[g][i] # REDIRECT
    /\ (\A t \in Threads : pc[t] = "idle") => next_storage = storage

(* The element at index i: in the storage or, if it is frozen there, in    *)
(* the next one.                                                           *)
Element(i) ==
    IF entries[storage][i] = REDIRECT THEN entries[next_storage][i] ELSE entries[storage][i]

(* The types hold, the counted slots are filled, and what has been carried *)
(* to the next storage is at the index it had.                             *)
DensePrefix ==
    /\ TypeOK
    /\ \A g \in Gens : \A i \in 0 .. n[g] - 1 : entries[g][i] # NULL
    /\ \A i \in Index(storage) :
         next_storage # storage =>
            /\ Element(i) \in Values
            /\ entries[next_storage][i] \in {NULL, Element(i)}

(* assert( value != MULLE_CONCURRENT_NO_POINTER) in both enumerators: what *)
(* a count has covered, in whichever storage, get finds.                   *)
EnumeratorsMeetNoHole ==
    \A t \in Threads :
       /\ \/ my[t].call # Idle /\ my[t].call.op = "prev"
          \/ my[t].call # Idle /\ my[t].call.op = "next" /\ my[t].won
       /\ pc[t] \in {"get_n", "get_entry"}
       => my[t].i < n[my[t].p] /\ entries[my[t].p][my[t].i] # NULL

(* The array the callers see.  The value of an add is in it once its slot  *)
(* is below the count of the storage.                                      *)
Contract == INSTANCE AppendOnlyArray WITH
    Indices <- UNION {0 .. Size[g] : g \in Gens},
    seq <- [j \in 1 .. n[storage] |-> Element(j - 1)],
    call <- [t \in Threads |->
               IF my[t].call = Idle THEN Idle
               ELSE [op |-> IF my[t].call.op \in {"next", "prev"} THEN "get" ELSE my[t].call.op,
                     arg |-> IF my[t].call.op = "add" THEN my[t].call.arg
                             ELSE IF my[t].call.op = "count" THEN 0 ELSE my[t].i,
                     before |-> my[t].before,
                     added |-> my[t].call.op = "add" /\ my[t].won /\ my[t].i < n[storage]]],
    answer <- answer

(* Every behaviour is one of an array that only grows at its end: no add   *)
(* is lost, doubled, moved or overwritten by a migration or by a copier    *)
(* that lags behind it, an add that has returned is seen by every later    *)
(* call, and a count never goes back.                                      *)
ArraySpec == Contract!Spec

(* A call returns, even if all other threads have stopped in the middle of *)
(* a migration.                                                            *)
RunnerReturns == pc[Runner] # "idle" ~> pc[Runner] = "idle"
=============================================================================
