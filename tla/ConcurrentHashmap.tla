------------------------- MODULE ConcurrentHashmap --------------------------
(***************************************************************************)
(* mulle-concurrent, the hashmap: a table of (hash, value) slots with      *)
(* linear probing, which any number of threads fill, read and enumerate,   *)
(* and which any thread that finds it half full or frozen migrates into a  *)
(* table of twice the size.                                                *)
(*                                                                         *)
(* The storages form a line of generations: migrate_storage allocates a    *)
(* successor only for the storage that is the last one, so a storage is    *)
(* modelled by its number.  A storage that lost the race to become the     *)
(* successor was never visible and leaves no trace.                        *)
(*                                                                         *)
(* One action per atomic access.  What a thread computes between two       *)
(* accesses belongs to the first of them.  The accesses are sequentially   *)
(* consistent in the code.  A storage handed to abafree stays readable as  *)
(* long as a thread can hold it, which is what mulle-aba is for.           *)
(***************************************************************************)
EXTENDS Integers, FiniteSets

CONSTANTS
    Threads,
    Hashes,        \* the hashes in use, NO_HASH = 0 is not one of them
    Values,
    NULL,          \* MULLE_CONCURRENT_NO_POINTER
    REDIRECT,      \* REDIRECT_VALUE
    Idle,          \* no call
    FillValue,     \* the value of the hashes that are in from the beginning
    Size,          \* Size[g]: slots of storage g, a power of two
    MaxGen,        \* bound on the migrations
    Starts         \* the situations to start from, by name

(* A situation: the first storage of the map, 0 for the const empty one    *)
(* and 1 for one that init or a migration has allocated; the hashes that   *)
(* are in; calls[t], the calls thread t makes, each [op, hash, value]; and *)
(* bounds on the calls and the single-threaded patches.                    *)
Fields == {"first", "filled", "calls", "max_calls", "max_patches"}

NO_HASH == 0

Gens == 0 .. MaxGen

(* migrate_storage allocates twice the size, alloc_hashmapstorage at least 4 *)
Grown(size) == IF 2 * size < 4 THEN 4 ELSE 2 * size

Mask(g) == Size[g] - 1
Index(g) == 0 .. Mask(g)

(* is_const: the empty storage, whose n_hashs is -1 *)
IsConst(g) == g = 0

(* get_max_n_hashs: half of the storage *)
MaxNHashs(g) == Size[g] - Size[g] \div 2

(* The slot a probe for h looks at after k others. *)
Probe(g, h, k) == (h + k) % Size[g]

ASSUME HashmapAssumption ==
    /\ IsFiniteSet(Threads) /\ Threads # {}
    /\ MaxGen \in Nat /\ Size \in [Gens -> Nat] /\ Size[0] = 1
    /\ MaxGen > 0 => Size[1] >= Grown(Size[0])
    /\ \A g \in 2 .. MaxGen : Size[g] = Grown(Size[g - 1])
    /\ Hashes \subseteq Nat \ {NO_HASH}
    /\ NULL \notin Values /\ REDIRECT \notin Values /\ NULL # REDIRECT
    /\ Idle \notin Values \union {NULL}
    /\ Idle # [op |-> "next"]
    /\ Idle \notin [op : {"insert", "register", "lookup"}, hash : Hashes,
                    value : Values \union {NULL}, before : Values \union {NULL}]
    /\ FillValue \in Values
    /\ \A st \in {Starts[k] : k \in DOMAIN Starts} :
         /\ DOMAIN st = Fields
         /\ st.first \in Gens \intersect {0, 1}
         /\ st.filled \subseteq Hashes /\ (st.first = 0 => st.filled = {})
         /\ \A h, k \in st.filled : Probe(st.first, h, 0) = Probe(st.first, k, 0) => h = k
         /\ Cardinality(st.filled) <= MaxNHashs(st.first)
         /\ \A t \in Threads : Idle \notin st.calls[t]
         /\ \A t \in Threads : \A c \in st.calls[t] :
              \/ c = [op |-> "next"]
              \/ /\ c.op \in {"insert", "register", "lookup"}
                 /\ c.hash \in Hashes /\ c.value \in Values \union {NULL}
                 /\ c.op # "lookup" => c.value \in Values
         /\ {st.max_calls, st.max_patches} \subseteq Nat

VARIABLES
    storage, next_storage,   \* map->storage, map->next_storage
    hash, value,             \* hash[g][i], value[g][i]: slot i of storage g
    n_hashs,                 \* n_hashs[g]: claimed slots that were counted
    freed,                   \* freed[g]: how often g went to abafree
    pc,                      \* per thread: where it is
    my,                      \* per thread: its local variables
    rover,                   \* per thread: its enumerator
    answer,                  \* per thread: what its last call returned
    content,                 \* auxiliary: the value each hash was given
    calls, patches,          \* calls and patches so far
    start                    \* the situation this began with

slots == <<hash, value, n_hashs>>
world == <<storage, next_storage, freed>>
rest == <<content, calls, patches, start>>
vars == <<storage, next_storage, hash, value, n_hashs, freed, pc, my, rover, answer,
          content, calls, patches, start>>

(* The situation, fixed by Init. *)
Scene == Starts[start]

Key(t) == IF my[t].then = "put" THEN my[t].ch ELSE my[t].call.hash

(* The locals of a thread: the call and what the map held for its hash     *)
(* before (auxiliary), p and q of migrate_storage, the storage d in which  *)
(* it claims and the position of its probe, what follows the claim, and    *)
(* copy's slot i with its hash and its value.                              *)
NoLocals ==
    [call |-> Idle, before |-> NULL, p |-> 0, q |-> 0, d |-> 0, at |-> 0,
     then |-> "fill", i |-> 0, ch |-> NO_HASH, cv |-> NULL]

(* An enumerator: index and mask, and what was in the map when it started  *)
(* and what it returned (auxiliary).                                       *)
NoRover == [on |-> FALSE, index |-> 0, mask |-> 0, start |-> {}, got |-> {}]

Labels ==
    {"idle", "load", "check", "look_hash", "look_value", "claim", "claim_cas", "claim_inc",
     "fill", "put", "follow", "mig_next", "mig_alloc", "copy_hash", "copy_virgin",
     "copy_rehash", "copy_value", "freeze", "swap", "enum_hash", "enum_value"}

-----------------------------------------------------------------------------
(* init, and a thread that has filled in some hashes; they do not collide  *)
(* and are at most as many as the storage takes without a migration.       *)
Init ==
    /\ start \in DOMAIN Starts
    /\ storage = Scene.first /\ next_storage = Scene.first
    /\ hash = [g \in Gens |-> [i \in Index(g) |->
                 IF \E h \in Scene.filled : g = Scene.first /\ Probe(g, h, 0) = i
                 THEN CHOOSE h \in Scene.filled : Probe(g, h, 0) = i ELSE NO_HASH]]
    /\ value = [g \in Gens |-> [i \in Index(g) |->
                  IF hash[g][i] = NO_HASH THEN NULL ELSE FillValue]]
    /\ n_hashs = [g \in Gens |->
                    IF IsConst(g) THEN -1
                    ELSE IF g = Scene.first THEN Cardinality(Scene.filled) ELSE 0]
    /\ freed = [g \in Gens |-> 0]
    /\ pc = [t \in Threads |-> "idle"]
    /\ my = [t \in Threads |-> NoLocals]
    /\ rover = [t \in Threads |-> NoRover]
    /\ answer = [t \in Threads |-> Idle]
    /\ content = [h \in Hashes |-> IF h \in Scene.filled THEN FillValue ELSE NULL]
    /\ calls = 0 /\ patches = 0

Goto(t, l) == pc' = [pc EXCEPT ![t] = l]

Return(t, a) ==
    /\ Goto(t, "idle")
    /\ my' = [my EXCEPT ![t] = NoLocals]
    /\ answer' = [answer EXCEPT ![t] = a]

(* __mulle_atomic_pointer_cas( &entry->value, new, expect) in slot i of g; *)
(* it returns what was there.                                              *)
CasValue(g, i, new, expect) ==
    value' = [value EXCEPT ![g][i] = IF @ = expect THEN new ELSE @]

-----------------------------------------------------------------------------
(* A thread calls insert, register, lookup or the enumerator's next. *)
Call(t, c) ==
    /\ pc[t] = "idle"
    /\ c.op = "next" => rover[t].on
    /\ calls < Scene.max_calls /\ calls' = calls + 1
    /\ my' = [my EXCEPT ![t] = [NoLocals EXCEPT
                !.call = c, !.before = IF c.op = "next" THEN NULL ELSE content[c.hash]]]
    /\ answer' = [answer EXCEPT ![t] = Idle]
    /\ Goto(t, "load")
    /\ UNCHANGED <<world, slots, rover, content, patches, start>>

(* hashmap_enumerate, which touches nothing but the new enumerator *)
Enumerate(t) ==
    /\ pc[t] = "idle" /\ ~rover[t].on /\ [op |-> "next"] \in Scene.calls[t]
    /\ rover' = [rover EXCEPT ![t] = [NoRover EXCEPT !.on = TRUE, !.start = {h \in Hashes : content[h] # NULL}]]
    /\ UNCHANGED <<world, slots, pc, my, answer, rest>>

(* retry: p = map->storage.  The enumerator gives up in a storage of       *)
(* another size, once it has returned something.                           *)
Load(t) ==
    /\ pc[t] = "load"
    /\ \/ /\ my[t].call.op = "next" /\ rover[t].mask # 0 /\ Mask(storage) # rover[t].mask
          /\ Return(t, "ECANCELED")
          /\ rover' = [rover EXCEPT ![t].on = FALSE, ![t].index = 0, ![t].mask = 0]
       \/ /\ my[t].call.op = "next" => rover[t].mask \in {0, Mask(storage)}
          /\ my' = [my EXCEPT ![t].p = storage, ![t].d = storage, ![t].at = 0, ![t].then = "fill"]
          /\ Goto(t, CASE my[t].call.op = "lookup" -> "look_hash"
                       [] my[t].call.op = "next" -> "enum_hash"
                       [] OTHER -> "check")
          /\ UNCHANGED <<rover, answer>>
    /\ UNCHANGED <<world, slots, rest>>

(* Mutant: the storage is migrated one entry too late. *)
CheckOffByOne(t) ==
    /\ pc[t] = "check"
    /\ LET n == n_hashs[my[t].p]
       IN Goto(t, IF n = -1 \/ n > MaxNHashs(my[t].p) THEN "mig_next" ELSE "claim")
    /\ UNCHANGED <<world, slots, my, rover, answer, rest>>

(* insert and register: a storage with half of its slots claimed is        *)
(* migrated first.  The -1 of the const storage is the largest unsigned.   *)
Check(t) ==
    /\ pc[t] = "check"
    /\ LET n == n_hashs[my[t].p]
       IN Goto(t, IF n = -1 \/ n >= MaxNHashs(my[t].p) THEN "mig_next" ELSE "claim")
    /\ UNCHANGED <<world, slots, my, rover, answer, rest>>

-----------------------------------------------------------------------------
(* storage_lookup *)

(* The next slot of the probe; one that has seen all slots migrates. *)
LookNext(t) ==
    /\ my' = [my EXCEPT ![t].at = @ + 1]
    /\ Goto(t, IF my[t].at = Mask(my[t].p) THEN "mig_next" ELSE "look_hash")
    /\ UNCHANGED answer

LookHash(t) ==
    /\ pc[t] = "look_hash"
    /\ LET h == hash[my[t].p][Probe(my[t].p, my[t].call.hash, my[t].at)]
       IN \/ h = NO_HASH /\ Return(t, NULL)
          \/ h = my[t].call.hash /\ Goto(t, "look_value") /\ UNCHANGED <<my, answer>>
          \/ h \notin {NO_HASH, my[t].call.hash} /\ LookNext(t)
    /\ UNCHANGED <<world, slots, rover, rest>>

(* Mutant: a frozen slot counts as absent. *)
LookValueFrozen(t) ==
    /\ pc[t] = "look_value"
    /\ LET v == value[my[t].p][Probe(my[t].p, my[t].call.hash, my[t].at)]
       IN Return(t, IF v = REDIRECT THEN NULL ELSE v)
    /\ UNCHANGED <<world, slots, rover, rest>>

(* Mutant: a frozen slot is read again until somebody has migrated it. *)
LookValueWaits(t) ==
    /\ pc[t] = "look_value"
    /\ LET v == value[my[t].p][Probe(my[t].p, my[t].call.hash, my[t].at)]
       IN \/ v # REDIRECT /\ Return(t, v)
          \/ v = REDIRECT /\ Goto(t, "load") /\ UNCHANGED <<my, answer>>
    /\ UNCHANGED <<world, slots, rover, rest>>

LookValue(t) ==
    /\ pc[t] = "look_value"
    /\ LET v == value[my[t].p][Probe(my[t].p, my[t].call.hash, my[t].at)]
       IN \/ v # REDIRECT /\ Return(t, v)
          \/ v = REDIRECT /\ Goto(t, "mig_next") /\ UNCHANGED <<my, answer>>
    /\ UNCHANGED <<world, slots, rover, rest>>

-----------------------------------------------------------------------------
(* storage_claim in storage d, for insert, register and put *)

ClaimSlot(t) == Probe(my[t].d, Key(t), my[t].at)

(* The slot belongs to another hash: the next one.  A probe that has seen  *)
(* all slots is EBUSY for insert and register, and put gives up.           *)
ClaimNext(t) ==
    /\ my' = [my EXCEPT ![t].at = @ + 1]
    /\ Goto(t, IF my[t].at # Mask(my[t].d) THEN "claim"
               ELSE IF my[t].then = "put" THEN "freeze" ELSE "mig_next")

ClaimRead(t) ==
    /\ pc[t] = "claim"
    /\ LET h == hash[my[t].d][ClaimSlot(t)]
       IN \/ h = NO_HASH /\ Goto(t, "claim_cas") /\ UNCHANGED my
          \/ h = Key(t) /\ Goto(t, my[t].then) /\ UNCHANGED my
          \/ h \notin {NO_HASH, Key(t)} /\ ClaimNext(t)
    /\ UNCHANGED <<world, slots, rover, answer, rest>>

(* Mutant: the claim does not compare. *)
ClaimCasBlind(t) ==
    /\ pc[t] = "claim_cas"
    /\ hash' = [hash EXCEPT ![my[t].d][ClaimSlot(t)] = Key(t)]
    /\ Goto(t, "claim_inc")
    /\ UNCHANGED <<world, my, value, n_hashs, rover, answer, rest>>

ClaimCas(t) ==
    /\ pc[t] = "claim_cas"
    /\ LET h == hash[my[t].d][ClaimSlot(t)]
       IN \/ /\ h = NO_HASH
             /\ hash' = [hash EXCEPT ![my[t].d][ClaimSlot(t)] = Key(t)]
             /\ Goto(t, "claim_inc") /\ UNCHANGED my
          \/ h = Key(t) /\ Goto(t, my[t].then) /\ UNCHANGED <<my, hash>>
          \/ h \notin {NO_HASH, Key(t)} /\ ClaimNext(t) /\ UNCHANGED hash
    /\ UNCHANGED <<world, value, n_hashs, rover, answer, rest>>

ClaimInc(t) ==
    /\ pc[t] = "claim_inc"
    /\ n_hashs' = [n_hashs EXCEPT ![my[t].d] = @ + 1]
    /\ Goto(t, my[t].then)
    /\ UNCHANGED <<world, my, hash, value, rover, answer, rest>>

(* storage_fill, and what insert and register make of it *)
Fill(t) ==
    /\ pc[t] = "fill"
    /\ LET found == value[my[t].d][ClaimSlot(t)]
       IN \/ /\ found = NULL
             /\ content' = [content EXCEPT ![my[t].call.hash] = my[t].call.value]
             /\ Return(t, IF my[t].call.op = "insert" THEN "0" ELSE NULL)
          \/ found = REDIRECT /\ Goto(t, "mig_next") /\ UNCHANGED <<my, answer, content>>
          \/ /\ found \in Values
             /\ Return(t, IF my[t].call.op = "insert" THEN "EEXIST" ELSE found)
             /\ UNCHANGED content
    /\ CasValue(my[t].d, ClaimSlot(t), my[t].call.value, NULL)
    /\ UNCHANGED <<world, hash, n_hashs, rover, calls, patches, start>>

-----------------------------------------------------------------------------
(* migrate_storage( p) *)

CopyFrom(p) == IF IsConst(p) THEN "swap" ELSE "copy_hash"

MigNext(t) ==
    /\ pc[t] = "mig_next"
    /\ my' = [my EXCEPT ![t].q = next_storage, ![t].i = 0, ![t].d = 0, ![t].at = 0]
    /\ Goto(t, IF next_storage = my[t].p THEN "mig_alloc" ELSE CopyFrom(my[t].p))
    /\ UNCHANGED <<world, slots, rover, answer, rest>>

(* The new storage becomes the next one, unless another thread was faster. *)
MigAlloc(t) ==
    /\ pc[t] = "mig_alloc"
    /\ my[t].p < MaxGen
    /\ \/ /\ next_storage = my[t].p
          /\ next_storage' = my[t].p + 1
          /\ my' = [my EXCEPT ![t].q = my[t].p + 1]
       \/ /\ next_storage # my[t].p
          /\ my' = [my EXCEPT ![t].q = next_storage]
          /\ UNCHANGED next_storage
    /\ Goto(t, CopyFrom(my[t].p))
    /\ UNCHANGED <<storage, freed, slots, rover, answer, rest>>

(* copy is done with slot i. *)
CopyNext(t) ==
    /\ my' = [my EXCEPT ![t].i = @ + 1, ![t].ch = NO_HASH, ![t].cv = NULL,
                        ![t].d = 0, ![t].at = 0, ![t].then = "fill"]
    /\ Goto(t, IF my[t].i = Mask(my[t].p) THEN "swap" ELSE "copy_hash")

(* The head of copy's inner loop, with h and v for hash and value: a slot  *)
(* without a value is frozen, a frozen one is done with, and a value is    *)
(* put into the next storage before its slot is frozen.                    *)
CopyLoop(t, h, v) ==
    \/ v = REDIRECT /\ CopyNext(t)
    \/ /\ v = NULL
       /\ my' = [my EXCEPT ![t].ch = h, ![t].cv = v]
       /\ Goto(t, "freeze")
    \/ /\ v \in Values
       /\ my' = [my EXCEPT ![t].ch = h, ![t].cv = v, ![t].d = my[t].q, ![t].at = 0,
                           ![t].then = "put"]
       /\ Goto(t, "claim")

CopyHash(t) ==
    /\ pc[t] = "copy_hash"
    /\ LET h == hash[my[t].p][my[t].i]
       IN /\ my' = [my EXCEPT ![t].ch = h]
          /\ Goto(t, IF h = NO_HASH THEN "copy_virgin" ELSE "copy_value")
    /\ UNCHANGED <<world, slots, rover, answer, rest>>

(* Mutant: a virgin slot is passed over. *)
CopyVirginSkipped(t) ==
    /\ pc[t] = "copy_virgin"
    /\ CopyNext(t)
    /\ UNCHANGED <<world, slots, rover, answer, rest>>

CopyVirgin(t) ==
    /\ pc[t] = "copy_virgin"
    /\ LET v == value[my[t].p][my[t].i]
       IN \/ v \in {NULL, REDIRECT} /\ CopyNext(t)
          \/ /\ v \in Values
             /\ my' = [my EXCEPT ![t].cv = v]
             /\ Goto(t, "copy_rehash")
    /\ CasValue(my[t].p, my[t].i, REDIRECT, NULL)
    /\ UNCHANGED <<world, hash, n_hashs, rover, answer, rest>>

CopyRehash(t) ==
    /\ pc[t] = "copy_rehash"
    /\ CopyLoop(t, hash[my[t].p][my[t].i], my[t].cv)
    /\ UNCHANGED <<world, slots, rover, answer, rest>>

CopyValue(t) ==
    /\ pc[t] = "copy_value"
    /\ CopyLoop(t, my[t].ch, value[my[t].p][my[t].i])
    /\ UNCHANGED <<world, slots, rover, answer, rest>>

(* Mutant: put overwrites what it finds. *)
PutOverwrites(t) ==
    /\ pc[t] = "put"
    /\ value' = [value EXCEPT ![my[t].d][ClaimSlot(t)] = my[t].cv]
    /\ Goto(t, "freeze")
    /\ UNCHANGED <<world, my, hash, n_hashs, rover, answer, rest>>

(* put leaves a value that is there alone; a frozen slot means that the    *)
(* storage is being migrated itself.                                       *)
Put(t) ==
    /\ pc[t] = "put"
    /\ Goto(t, IF value[my[t].d][ClaimSlot(t)] = REDIRECT THEN "follow" ELSE "freeze")
    /\ CasValue(my[t].d, ClaimSlot(t), my[t].cv, NULL)
    /\ UNCHANGED <<world, my, hash, n_hashs, rover, answer, rest>>

PutFollow(t) ==
    /\ pc[t] = "follow"
    /\ my' = [my EXCEPT ![t].d = next_storage, ![t].at = 0]
    /\ Goto(t, "claim")
    /\ UNCHANGED <<world, slots, rover, answer, rest>>

(* The slot is frozen if it still has the value that was copied. *)
Freeze(t) ==
    /\ pc[t] = "freeze"
    /\ LET v == value[my[t].p][my[t].i]
       IN \/ v = my[t].cv /\ CopyNext(t)
          \/ v # my[t].cv /\ CopyLoop(t, my[t].ch, v)
    /\ CasValue(my[t].p, my[t].i, REDIRECT, my[t].cv)
    /\ UNCHANGED <<world, hash, n_hashs, rover, answer, rest>>

(* Mutant: whoever gets here frees the old storage. *)
SwapFreesAlways(t) ==
    /\ pc[t] = "swap"
    /\ storage' = IF storage = my[t].p THEN my[t].q ELSE storage
    /\ freed' = [freed EXCEPT ![my[t].p] = IF ~IsConst(my[t].p) THEN @ + 1 ELSE @]
    /\ my' = [my EXCEPT ![t].p = 0, ![t].q = 0, ![t].i = 0]
    /\ Goto(t, "load")
    /\ UNCHANGED <<next_storage, slots, rover, answer, rest>>

(* map->storage becomes q; the thread that changes it frees p. *)
Swap(t) ==
    /\ pc[t] = "swap"
    /\ storage' = IF storage = my[t].p THEN my[t].q ELSE storage
    /\ freed' = [freed EXCEPT ![my[t].p] =
                   IF storage = my[t].p /\ ~IsConst(my[t].p) THEN @ + 1 ELSE @]
    /\ my' = [my EXCEPT ![t].p = 0, ![t].q = 0, ![t].i = 0]
    /\ Goto(t, "load")
    /\ UNCHANGED <<next_storage, slots, rover, answer, rest>>

-----------------------------------------------------------------------------
(* search_next, for the enumerator *)

(* next_pair: the next claimed slot from index on.  The index is written   *)
(* only when there is one.                                                 *)
EnumHash(t) ==
    /\ pc[t] = "enum_hash"
    /\ LET i == rover[t].index + my[t].at
       IN \/ /\ i > Mask(my[t].p)
             /\ Return(t, "end")
             /\ rover' = [rover EXCEPT ![t].on = FALSE, ![t].index = 0, ![t].mask = 0]
          \/ /\ i \in Index(my[t].p) /\ hash[my[t].p][i] = NO_HASH
             /\ my' = [my EXCEPT ![t].at = @ + 1]
             /\ UNCHANGED <<pc, rover, answer>>
          \/ /\ i \in Index(my[t].p) /\ hash[my[t].p][i] # NO_HASH
             /\ rover' = [rover EXCEPT ![t].index = i + 1]
             /\ my' = [my EXCEPT ![t].at = 0]
             /\ Goto(t, "enum_value") /\ UNCHANGED answer
    /\ UNCHANGED <<world, slots, rest>>

(* The value of that slot: a frozen one migrates and retries, without      *)
(* going back in the index.  The hash is read again after the value, and   *)
(* it never changes.                                                       *)
EnumValue(t) ==
    /\ pc[t] = "enum_value"
    /\ LET i == rover[t].index - 1
           v == value[my[t].p][i]
       IN \/ v = REDIRECT /\ Goto(t, "mig_next") /\ UNCHANGED <<my, rover, answer>>
          \/ v = NULL /\ Goto(t, "enum_hash") /\ UNCHANGED <<my, rover, answer>>
          \/ /\ v \in Values
             /\ rover' = [rover EXCEPT ![t].got = @ \union {hash[my[t].p][i]},
                             ![t].mask = IF @ = 0 THEN Mask(my[t].p) ELSE @]
             /\ Return(t, v)
    /\ UNCHANGED <<world, slots, rest>>

-----------------------------------------------------------------------------
(* patch, and remove which patches NULL: only while no other thread uses   *)
(* the map                                                                 *)
Patch(h, v) ==
    /\ \A t \in Threads : pc[t] = "idle"
    /\ patches < Scene.max_patches /\ patches' = patches + 1
    /\ \E k \in Index(storage) :
         /\ hash[storage][Probe(storage, h, k)] = h
         /\ value' = [value EXCEPT ![storage][Probe(storage, h, k)] = v]
    /\ content' = [content EXCEPT ![h] = v]
    /\ UNCHANGED <<world, hash, n_hashs, pc, my, rover, answer, calls, start>>

Step(t) ==
    \/ Load(t) \/ Check(t) \/ LookHash(t) \/ LookValue(t)
    \/ ClaimRead(t) \/ ClaimCas(t) \/ ClaimInc(t) \/ Fill(t)
    \/ MigNext(t) \/ MigAlloc(t) \/ CopyHash(t) \/ CopyVirgin(t) \/ CopyRehash(t)
    \/ CopyValue(t) \/ Put(t) \/ PutFollow(t) \/ Freeze(t) \/ Swap(t)
    \/ EnumHash(t) \/ EnumValue(t)

Next ==
    \/ \E t \in Threads : Step(t) \/ Enumerate(t) \/ \E c \in Scene.calls[t] : Call(t, c)
    \/ \E h \in Hashes, v \in Values \union {NULL} : Patch(h, v)

Spec == Init /\ [][Next]_vars

(* One thread that keeps running once it is in a call; the others may stop *)
(* anywhere for good.                                                      *)
Runner == CHOOSE t \in Threads : TRUE

RunnerSpec == Spec /\ WF_vars(Step(Runner))

-----------------------------------------------------------------------------
(* Types; no call ever returns the REDIRECT of a frozen slot. *)
TypeOK ==
    /\ storage \in Gens /\ next_storage \in Gens
    /\ \A g \in Gens :
         /\ hash[g] \in [Index(g) -> Hashes \union {NO_HASH}]
         /\ value[g] \in [Index(g) -> Values \union {NULL, REDIRECT}]
         /\ n_hashs[g] \in -1 .. Size[g]
         /\ freed[g] \in Nat
    /\ \A t \in Threads :
         /\ pc[t] \in Labels
         /\ my[t].call \in Scene.calls[t] \union {Idle}
         /\ my[t].p \in Gens /\ my[t].q \in Gens /\ my[t].d \in Gens
         /\ my[t].cv \in Values \union {NULL}
         /\ answer[t] \in Values \union {NULL, Idle, "0", "EEXIST", "end", "ECANCELED"}
         /\ rover[t].start \subseteq Hashes /\ rover[t].got \subseteq Hashes
    /\ content \in [Hashes -> Values \union {NULL}]
    /\ calls \in 0 .. Scene.max_calls /\ patches \in 0 .. Scene.max_patches

(* The slots that are claimed in storage g, and how many. *)
Claimed(g) == {i \in Index(g) : hash[g][i] # NO_HASH}

(* The slot table of hashmap.h: the types hold, and a value has a hash.  A *)
(* hash has one slot per storage, whoever claimed it, and a probe for it   *)
(* does not meet a virgin slot on the way there.                           *)
SlotsOK ==
    /\ TypeOK
    /\ \A g \in Gens :
       /\ \A i \in Index(g) : value[g][i] \in Values => hash[g][i] # NO_HASH
       /\ \A i, j \in Claimed(g) : hash[g][i] = hash[g][j] => i = j
       /\ \A i \in Claimed(g) : \A k \in Index(g) : Probe(g, hash[g][i], k) = i =>
            \A j \in 0 .. k - 1 : Probe(g, hash[g][i], j) \in Claimed(g)

(* The generations: at most one migration is under way.  A storage before  *)
(* the current one is frozen in every slot, was freed once and is not      *)
(* freed again; what can be reached from the map is not freed.  The next   *)
(* storage has nothing but what was carried there from the current one.    *)
(* When no call is in progress no migration is either.                     *)
GenerationsOK ==
    /\ next_storage \in {storage, storage + 1}
    /\ \A g \in 0 .. storage - 1 :
         /\ freed[g] = IF IsConst(g) THEN 0 ELSE 1
         /\ ~IsConst(g) => \A i \in Index(g) : value[g][i] = REDIRECT
    /\ \A g \in storage .. MaxGen : freed[g] = 0
    /\ \A g \in storage + 1 .. MaxGen : \A i \in Index(g) :
         value[g][i] # NULL =>
            /\ g = next_storage
            /\ \E j \in Index(storage) : /\ hash[storage][j] = hash[g][i]
                                         /\ value[storage][j] \in {value[g][i], REDIRECT}
    /\ (\A t \in Threads : pc[t] = "idle") => next_storage = storage

(* Only claims in progress are not counted in n_hashs. *)
CountsOK ==
    \A g \in Gens : ~IsConst(g) =>
       Cardinality(Claimed(g)) =
          n_hashs[g] + Cardinality({t \in Threads : pc[t] = "claim_inc" /\ my[t].d = g})

(* get_max_n_hashs: the count lags behind by the claims in progress only,  *)
(* and the unused half is the reserve for the threads that have passed the *)
(* check, so each of them takes at most one slot of it.                    *)
VirginReserve ==
    /\ CountsOK
    /\ \A g \in Gens : Cardinality(Claimed(g)) < MaxNHashs(g) + Cardinality(Threads)

(* No one gets left behind: what a hash was given is in the storage or, if *)
(* a migration has frozen it there, in the next storage, and neither has   *)
(* another value for it.                                                   *)
Held(g, h) == {value[g][i] : i \in {j \in Index(g) : hash[g][j] = h}} \intersect Values

NoOneLeftBehind ==
    \A h \in Hashes :
       UNION {Held(g, h) : g \in storage .. next_storage} = {content[h]} \ {NULL}

(* A hash word never changes again, and a value word only moves on, from   *)
(* NULL to a value to REDIRECT, unless it is patched.                      *)
NeverBackwards ==
    [][\A g \in Gens : \A i \in Index(g) :
         /\ hash[g][i] # NO_HASH => hash'[g][i] = hash[g][i]
         /\ \/ patches' # patches
            \/ value'[g][i] = value[g][i]
            \/ value[g][i] = NULL
            \/ value[g][i] \in Values /\ value'[g][i] = REDIRECT]_<<hash, value>>

(* The map the callers see. *)
Contract == INSTANCE WriteOnceMap WITH
    content <- content,
    call <- [t \in Threads |->
               IF my[t].call = Idle THEN Idle
               ELSE IF my[t].call.op = "next" THEN [op |-> "next"]
               ELSE [op |-> my[t].call.op, hash |-> my[t].call.hash,
                     value |-> my[t].call.value, before |-> my[t].before]],
    answer <- answer,
    got <- [t \in Threads |-> rover[t].got]

(* Every behaviour is one of a map in which each call takes effect at      *)
(* once: one insert or register wins a hash, all others get to know its    *)
(* value, no lookup misses a value that was there when it began, and an    *)
(* enumerator returns no entry twice, whatever migrations are under way.   *)
MapSpec == Contract!Spec

(* Wait-free: a call returns, even if all other threads have stopped in    *)
(* the middle of a migration.                                              *)
RunnerReturns == pc[Runner] # "idle" ~> pc[Runner] = "idle"

(* hashmap.h: "If the map grows, the rover is equally unhappy", that is it *)
(* stops and will tell you.  So one that comes to its end without a word   *)
(* has returned all that was there when it started.                        *)
EndIsComplete ==
    \A t \in Threads : answer[t] = "end" /\ ~rover[t].on => rover[t].start \subseteq rover[t].got
=============================================================================
