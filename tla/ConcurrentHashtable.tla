------------------------ MODULE ConcurrentHashtable -------------------------
(***************************************************************************)
(* mulle-concurrent, the hashtable: the map with a concurrent remove.  A   *)
(* migration freezes the hash word of a slot, then seals its value word,   *)
(* and carries the sealed value into the successor of its own storage, if  *)
(* no value ever was there.                                                *)
(*                                                                         *)
(* As in ConcurrentHashmap a storage is the number of its generation, one  *)
(* action stands for one atomic access, and a storage given to abafree     *)
(* stays readable while a thread can hold it.  The FROZEN and SEALED bits  *)
(* belong to the hash and the value word and change with them only.  The   *)
(* arguments of the calls are valid ones.                                  *)
(***************************************************************************)
EXTENDS Integers, FiniteSets

CONSTANTS
    Threads,
    Hashes,        \* the hashes in use, NO_HASH = 0 is not one of them
    Values,
    NULL,          \* EMPTY_VALUE
    TOMB,          \* map->tombstone
    Idle,          \* no call
    Calls,         \* Calls[t]: the calls thread t makes, each [op, hash, value]
    InitSize,      \* slots of the first storage: a power of two, 4 or more
    Filled,        \* hashes inserted before the threads start
    FillValue,     \* their value
    MaxGen,        \* bound on the migrations
    MaxSize,       \* bound on the size of a storage
    MaxCalls       \* bound on the calls

NO_HASH == 0

ASSUME HashtableAssumption ==
    /\ Hashes \subseteq Nat \ {NO_HASH}
    /\ NULL \notin Values /\ TOMB \notin Values /\ NULL # TOMB
    /\ IsFiniteSet(Threads)
    /\ Idle \notin Values \union {NULL} /\ Idle # [op |-> "next"]
    /\ Idle \notin [op : {"insert", "register", "remove", "lookup"}, hash : Hashes,
                    value : Values \union {NULL}, seen : SUBSET (Values \union {NULL})]
    /\ \A t \in Threads : Idle \notin Calls[t]
    /\ \A t \in Threads : \A c \in Calls[t] :
         \/ c.op \in {"next", "migrate"}
         \/ c.op = "lookup" /\ c.hash \in Hashes /\ c.value = NULL
         \/ c.op \in {"insert", "register", "remove"} /\ c.hash \in Hashes /\ c.value \in Values
    /\ InitSize \in Nat /\ \E k \in 2 .. InitSize : InitSize = 2 ^ k
    /\ Filled \subseteq Hashes /\ FillValue \in Values
    /\ \A h, k \in Filled : h % InitSize = k % InitSize => h = k
    /\ Cardinality(Filled) <= InitSize \div 2
    /\ MaxGen \in Nat /\ MaxSize \in Nat /\ MaxSize >= InitSize /\ MaxCalls \in Nat

VARIABLES
    storage,         \* map->storage
    size,            \* size[g]: mask + 1 of storage g, 0 as long as there is none
    hash, frozen,    \* the hash word of slot i of storage g
    value, sealed,   \* its value word
    n_hashs,         \* n_hashs[g]: claimed slots that were counted
    freed,           \* freed[g]: how often g went to abafree
    pc, my,          \* per thread: where it is, its local variables
    rover,           \* per thread: its enumerator
    answer,          \* per thread: what its last call returned
    content,         \* auxiliary: the value each hash has
    calls            \* calls so far

words == <<hash, frozen, value, sealed, n_hashs>>
world == <<storage, size, freed>>
vars == <<storage, size, hash, frozen, value, sealed, n_hashs, freed, pc, my, rover, answer,
          content, calls>>

Gens == 0 .. MaxGen
Slots == 0 .. MaxSize - 1
Index(g) == 0 .. size[g] - 1

(* get_max_n_hashs: half of the storage *)
MaxNHashs(g) == size[g] - size[g] \div 2

(* storage->next: the generations form a line, g + 1 follows g. *)
HasNext(g) == g < MaxGen /\ size[g + 1] # 0

(* The locals of a thread: the call and what the map held for its hash     *)
(* since it began (auxiliary), p, the storage d in which it claims, the    *)
(* number of slots its probe has passed, what follows the claim, what it   *)
(* read of a value word, and copy's slot i with its hash and value.        *)
NoLocals ==
    [call |-> Idle, seen |-> {}, p |-> 0, d |-> 0, at |-> 0, then |-> "value",
     expect |-> NULL, i |-> 0, ch |-> NO_HASH, cv |-> NULL]

(* An enumerator: its storage, -1 if it has none yet, its index, and what  *)
(* it returned and what stayed in the map since it started (auxiliary).    *)
NoRover == [on |-> FALSE, storage |-> -1, index |-> 0, got |-> {}, stay |-> {}]

Labels ==
    {"idle", "load", "check", "look_hash", "look_value", "claim", "claim_cas", "claim_inc",
     "value", "value_cas", "rem_hash", "rem_cas", "mig_next", "mig_alloc", "freeze",
     "freeze_cas", "seal", "seal_cas", "carry", "swap", "enum_hash", "enum_value"}

Key(t) == IF my[t].then = "carry" THEN my[t].ch ELSE my[t].call.hash

(* The slot a probe for the thread's hash is at. *)
Slot(t, g) == (Key(t) + my[t].at) % size[g]

Live(v) == v \in Values

-----------------------------------------------------------------------------
(* init, and a thread that has filled in some hashes. *)
Init ==
    /\ storage = 0
    /\ size = [g \in Gens |-> IF g = 0 THEN InitSize ELSE 0]
    /\ hash = [g \in Gens |-> [i \in Slots |->
                 IF \E h \in Filled : g = 0 /\ h % InitSize = i
                 THEN CHOOSE h \in Filled : h % InitSize = i ELSE NO_HASH]]
    /\ value = [g \in Gens |-> [i \in Slots |->
                  IF hash[g][i] = NO_HASH THEN NULL ELSE FillValue]]
    /\ frozen = [g \in Gens |-> [i \in Slots |-> FALSE]]
    /\ sealed = [g \in Gens |-> [i \in Slots |-> FALSE]]
    /\ n_hashs = [g \in Gens |-> IF g = 0 THEN Cardinality(Filled) ELSE 0]
    /\ freed = [g \in Gens |-> 0]
    /\ pc = [t \in Threads |-> "idle"]
    /\ my = [t \in Threads |-> NoLocals]
    /\ rover = [t \in Threads |-> NoRover]
    /\ answer = [t \in Threads |-> Idle]
    /\ content = [h \in Hashes |-> IF h \in Filled THEN FillValue ELSE NULL]
    /\ calls = 0

Goto(t, l) == pc' = [pc EXCEPT ![t] = l]

Answer(t, a) == Goto(t, "idle") /\ answer' = [answer EXCEPT ![t] = a]

Return(t, a) ==
    /\ Answer(t, a)
    /\ my' = [my EXCEPT ![t] = NoLocals]

(* The call of t has given h the value v and returns a.  Auxiliary: the    *)
(* map has changed, for the calls and the enumerators under way too.       *)
ReturnWritten(t, h, v, a) ==
    /\ Answer(t, a)
    /\ content' = [content EXCEPT ![h] = v]
    /\ my' = [u \in Threads |->
                IF u = t THEN NoLocals
                ELSE IF my[u].call # Idle /\ my[u].call.op \notin {"next", "migrate"}
                        /\ my[u].call.hash = h
                THEN [my[u] EXCEPT !.seen = @ \union {v}] ELSE my[u]]
    /\ rover' = [u \in Threads |->
                   IF v = NULL THEN [rover[u] EXCEPT !.stay = @ \ {h}] ELSE rover[u]]

-----------------------------------------------------------------------------
(* A thread calls insert, register, remove, lookup, the enumerator's next  *)
(* or migrate_same_size.                                                   *)
Call(t, c) ==
    /\ pc[t] = "idle" /\ calls < MaxCalls
    /\ c.op = "next" => rover[t].on
    /\ calls' = calls + 1
    /\ my' = [my EXCEPT ![t] = [NoLocals EXCEPT !.call = c,
                !.seen = IF c.op \in {"next", "migrate"} THEN {} ELSE {content[c.hash]}]]
    /\ answer' = [answer EXCEPT ![t] = IF c.op = "migrate" THEN @ ELSE Idle]
    /\ Goto(t, "load")
    /\ UNCHANGED <<world, words, rover, content>>

Enumerate(t) ==
    /\ pc[t] = "idle" /\ ~rover[t].on /\ \E c \in Calls[t] : c.op = "next"
    /\ rover' = [rover EXCEPT ![t] = [NoRover EXCEPT
                   !.on = TRUE, !.stay = {h \in Hashes : content[h] # NULL}]]
    /\ UNCHANGED <<world, words, pc, my, answer, content, calls>>

(* p = map->storage.  The enumerator gives up in another storage than the  *)
(* one it started in.                                                      *)
Load(t) ==
    /\ pc[t] = "load"
    /\ \/ /\ my[t].call.op = "next" /\ rover[t].storage \notin {-1, storage}
          /\ Return(t, "ECANCELED")
          /\ rover' = [rover EXCEPT ![t].on = FALSE]
       \/ /\ my[t].call.op = "next" => rover[t].storage \in {-1, storage}
          /\ my' = [my EXCEPT ![t].p = storage, ![t].d = storage, ![t].at = 0, ![t].then = "value"]
          /\ rover' = IF my[t].call.op = "next"
                      THEN [rover EXCEPT ![t].storage = storage] ELSE rover
          /\ Goto(t, CASE my[t].call.op \in {"insert", "register"} -> "check"
                       [] my[t].call.op = "remove" -> "rem_hash"
                       [] my[t].call.op = "lookup" -> "look_hash"
                       [] my[t].call.op = "migrate" -> "mig_next"
                       [] my[t].call.op = "next" -> "enum_hash")
          /\ UNCHANGED answer
    /\ UNCHANGED <<world, words, content, calls>>

(* insert and register: a storage with half of its slots claimed is        *)
(* migrated first.                                                         *)
Check(t) ==
    /\ pc[t] = "check"
    /\ Goto(t, IF n_hashs[my[t].p] >= MaxNHashs(my[t].p) THEN "mig_next" ELSE "claim")
    /\ UNCHANGED <<world, words, my, rover, answer, content, calls>>

(* The probe moves on.  It asserts that it has not come round; without     *)
(* assertions it goes round once more.                                     *)
ProbeNext(t, g) == my' = [my EXCEPT ![t].at = (@ % size[g]) + 1]

-----------------------------------------------------------------------------
(* storage_lookup: a frozen or sealed slot is read like any other. *)

LookHash(t) ==
    /\ pc[t] = "look_hash"
    /\ LET h == hash[my[t].p][Slot(t, my[t].p)]
       IN \/ h = NO_HASH /\ Return(t, NULL)
          \/ h = Key(t) /\ Goto(t, "look_value") /\ UNCHANGED <<my, answer>>
          \/ h \notin {NO_HASH, Key(t)} /\ ProbeNext(t, my[t].p) /\ UNCHANGED <<pc, answer>>
    /\ UNCHANGED <<world, words, rover, content, calls>>

LookValue(t) ==
    /\ pc[t] = "look_value"
    /\ LET v == value[my[t].p][Slot(t, my[t].p)]
       IN Return(t, IF v = TOMB THEN NULL ELSE v)
    /\ UNCHANGED <<world, words, rover, content, calls>>

-----------------------------------------------------------------------------
(* claim in storage d, in the probe of find_or_claim and in that of carry *)

(* What find_or_claim does with the hash word <<h, f>> of the slot. *)
FindOrClaim(t, h, f) ==
    \/ f /\ Goto(t, "mig_next") /\ UNCHANGED my
    \/ ~f /\ h = Key(t) /\ Goto(t, "value") /\ UNCHANGED my
    \/ /\ ~f /\ h # Key(t)
       /\ ProbeNext(t, my[t].d)
       /\ Goto(t, IF my[t].at + 1 = size[my[t].d] THEN "mig_next" ELSE "claim")

(* carry goes on in the successor of d, which is there once a slot of d is *)
(* frozen, and is never changed.                                           *)
CarryOn(t) == my' = [my EXCEPT ![t].d = @ + 1, ![t].at = 0]

(* What carry does with it: a frozen virgin means that d is retired. *)
CarryProbe(t, h) ==
    /\ Goto(t, IF h = Key(t) THEN "carry" ELSE "claim")
    /\ CASE h = Key(t) -> UNCHANGED my
         [] h = NO_HASH -> CarryOn(t)
         [] OTHER -> ProbeNext(t, my[t].d)

Claimed(t, h, f) ==
    \/ my[t].then = "value" /\ FindOrClaim(t, h, f)
    \/ my[t].then = "carry" /\ CarryProbe(t, h)

ClaimRead(t) ==
    /\ pc[t] = "claim"
    /\ LET g == my[t].d
           i == Slot(t, g)
       IN \/ hash[g][i] = NO_HASH /\ ~frozen[g][i] /\ Goto(t, "claim_cas") /\ UNCHANGED my
          \/ (hash[g][i] # NO_HASH \/ frozen[g][i]) /\ Claimed(t, hash[g][i], frozen[g][i])
    /\ UNCHANGED <<world, words, rover, answer, content, calls>>

ClaimCas(t) ==
    /\ pc[t] = "claim_cas"
    /\ LET g == my[t].d
           i == Slot(t, g)
       IN \/ /\ hash[g][i] = NO_HASH /\ ~frozen[g][i]
             /\ hash' = [hash EXCEPT ![g][i] = Key(t)]
             /\ Goto(t, "claim_inc") /\ UNCHANGED my
          \/ /\ hash[g][i] # NO_HASH \/ frozen[g][i]
             /\ Claimed(t, hash[g][i], frozen[g][i]) /\ UNCHANGED hash
    /\ UNCHANGED <<world, frozen, value, sealed, n_hashs, rover, answer, content, calls>>

ClaimInc(t) ==
    /\ pc[t] = "claim_inc"
    /\ n_hashs' = [n_hashs EXCEPT ![my[t].d] = @ + 1]
    /\ Goto(t, my[t].then)
    /\ UNCHANGED <<world, hash, frozen, value, sealed, my, rover, answer, content, calls>>

-----------------------------------------------------------------------------
(* storage_insert and storage_register, once they have their slot *)

Exists(t, v) == Return(t, IF my[t].call.op = "insert" THEN "EEXIST" ELSE v)

ReadValue(t) ==
    /\ pc[t] = "value"
    /\ LET g == my[t].p
           i == Slot(t, g)
       IN \/ sealed[g][i] /\ Goto(t, "mig_next") /\ UNCHANGED <<my, answer>>
          \/ ~sealed[g][i] /\ Live(value[g][i]) /\ Exists(t, value[g][i])
          \/ /\ ~sealed[g][i] /\ ~Live(value[g][i])
             /\ my' = [my EXCEPT ![t].expect = value[g][i]]
             /\ Goto(t, "value_cas") /\ UNCHANGED answer
    /\ UNCHANGED <<world, words, rover, content, calls>>

(* Mutant: the sealed bit is not compared. *)
ValueCasSealed(t) ==
    /\ pc[t] = "value_cas"
    /\ LET g == my[t].p
           i == Slot(t, g)
       IN \/ /\ value[g][i] = my[t].expect
             /\ value' = [value EXCEPT ![g][i] = my[t].call.value]
             /\ ReturnWritten(t, my[t].call.hash, my[t].call.value,
                              IF my[t].call.op = "insert" THEN "0" ELSE NULL)
          \/ /\ value[g][i] # my[t].expect
             /\ Exists(t, value[g][i]) /\ UNCHANGED <<value, content, rover>>
    /\ UNCHANGED <<world, hash, frozen, sealed, n_hashs, calls>>

(* The value is stored where nothing is.  If the word has changed, insert  *)
(* takes it for a value, and register looks again.                         *)
ValueCas(t) ==
    /\ pc[t] = "value_cas"
    /\ LET g == my[t].p
           i == Slot(t, g)
       IN \/ /\ value[g][i] = my[t].expect /\ ~sealed[g][i]
             /\ value' = [value EXCEPT ![g][i] = my[t].call.value]
             /\ ReturnWritten(t, my[t].call.hash, my[t].call.value,
                              IF my[t].call.op = "insert" THEN "0" ELSE NULL)
          \/ /\ sealed[g][i]
             /\ Goto(t, "mig_next") /\ UNCHANGED <<my, answer, value, content, rover>>
          \/ /\ value[g][i] # my[t].expect /\ ~sealed[g][i]
             /\ IF my[t].call.op = "insert" \/ Live(value[g][i])
                THEN Exists(t, value[g][i])
                ELSE /\ my' = [my EXCEPT ![t].expect = value[g][i]]
                     /\ UNCHANGED <<pc, answer>>
             /\ UNCHANGED <<value, content, rover>>
    /\ UNCHANGED <<world, hash, frozen, sealed, n_hashs, calls>>

-----------------------------------------------------------------------------
(* storage_remove *)

(* Mutant: remove waits for a migration instead of helping it. *)
RemHashWaits(t) ==
    /\ pc[t] = "rem_hash"
    /\ LET g == my[t].p
           i == Slot(t, g)
       IN \/ frozen[g][i] /\ Goto(t, "load") /\ UNCHANGED <<my, answer>>
          \/ ~frozen[g][i] /\ hash[g][i] = NO_HASH /\ Return(t, "ENOENT")
          \/ ~frozen[g][i] /\ hash[g][i] = Key(t) /\ Goto(t, "rem_cas") /\ UNCHANGED <<my, answer>>
          \/ /\ ~frozen[g][i] /\ hash[g][i] \notin {NO_HASH, Key(t)}
             /\ ProbeNext(t, g) /\ UNCHANGED <<pc, answer>>
    /\ UNCHANGED <<world, words, rover, content, calls>>

RemHash(t) ==
    /\ pc[t] = "rem_hash"
    /\ LET g == my[t].p
           i == Slot(t, g)
       IN \/ frozen[g][i] /\ Goto(t, "mig_next") /\ UNCHANGED <<my, answer>>
          \/ ~frozen[g][i] /\ hash[g][i] = NO_HASH /\ Return(t, "ENOENT")
          \/ ~frozen[g][i] /\ hash[g][i] = Key(t) /\ Goto(t, "rem_cas") /\ UNCHANGED <<my, answer>>
          \/ /\ ~frozen[g][i] /\ hash[g][i] \notin {NO_HASH, Key(t)}
             /\ ProbeNext(t, g) /\ UNCHANGED <<pc, answer>>
    /\ UNCHANGED <<world, words, rover, content, calls>>

(* The pair is replaced by TOMB, if it is there. *)
RemCas(t) ==
    /\ pc[t] = "rem_cas"
    /\ LET g == my[t].p
           i == Slot(t, g)
       IN \/ /\ value[g][i] = my[t].call.value /\ ~sealed[g][i]
             /\ value' = [value EXCEPT ![g][i] = TOMB]
             /\ ReturnWritten(t, my[t].call.hash, NULL, "0")
          \/ /\ sealed[g][i]
             /\ Goto(t, "mig_next") /\ UNCHANGED <<my, answer, value, content, rover>>
          \/ /\ value[g][i] # my[t].call.value /\ ~sealed[g][i]
             /\ Return(t, "ENOENT") /\ UNCHANGED <<value, content, rover>>
    /\ UNCHANGED <<world, hash, frozen, sealed, n_hashs, calls>>

-----------------------------------------------------------------------------
(* migrate_storage( p) and migrate_same_size *)

StartCopy(t) ==
    /\ my' = [my EXCEPT ![t].i = 0, ![t].at = 0, ![t].expect = NULL]
    /\ Goto(t, "freeze")

(* get_next reads p->next. *)
MigNext(t) ==
    /\ pc[t] = "mig_next"
    /\ IF HasNext(my[t].p) THEN StartCopy(t) ELSE Goto(t, "mig_alloc") /\ UNCHANGED my
    /\ UNCHANGED <<world, words, rover, answer, content, calls>>

(* It sets p->next to a new storage, unless another thread was faster. *)
MigAlloc(t) ==
    /\ pc[t] = "mig_alloc" /\ my[t].p < MaxGen
    /\ LET new == IF my[t].call.op = "migrate" THEN size[my[t].p] ELSE 2 * size[my[t].p]
       IN /\ new <= MaxSize
          /\ size' = [size EXCEPT ![my[t].p + 1] = IF @ = 0 THEN new ELSE @]
    /\ StartCopy(t)
    /\ UNCHANGED <<storage, freed, words, rover, answer, content, calls>>

(* copy is done with slot i. *)
CopyNext(t) ==
    /\ my' = [my EXCEPT ![t].i = @ + 1, ![t].ch = NO_HASH, ![t].cv = NULL, ![t].expect = NULL,
                        ![t].d = 0, ![t].at = 0, ![t].then = "value"]
    /\ Goto(t, IF my[t].i = size[my[t].p] - 1 THEN "swap" ELSE "freeze")

(* The slot is frozen, with the hash h. *)
Frozen(t, h) ==
    \/ h = NO_HASH /\ CopyNext(t)
    \/ /\ h # NO_HASH
       /\ my' = [my EXCEPT ![t].ch = h]
       /\ Goto(t, "seal")

FreezeRead(t) ==
    /\ pc[t] = "freeze"
    /\ LET g == my[t].p
           i == my[t].i
       IN \/ frozen[g][i] /\ Frozen(t, hash[g][i])
          \/ /\ ~frozen[g][i]
             /\ my' = [my EXCEPT ![t].ch = hash[g][i]]
             /\ Goto(t, "freeze_cas")
    /\ UNCHANGED <<world, words, rover, answer, content, calls>>

(* Mutant: the frozen word is written over whatever is there by now. *)
FreezeCasBlind(t) ==
    /\ pc[t] = "freeze_cas"
    /\ hash' = [hash EXCEPT ![my[t].p][my[t].i] = my[t].ch]
    /\ frozen' = [frozen EXCEPT ![my[t].p][my[t].i] = TRUE]
    /\ Frozen(t, my[t].ch)
    /\ UNCHANGED <<world, value, sealed, n_hashs, rover, answer, content, calls>>

FreezeCas(t) ==
    /\ pc[t] = "freeze_cas"
    /\ LET g == my[t].p
           i == my[t].i
       IN \/ /\ hash[g][i] = my[t].ch /\ ~frozen[g][i]
             /\ frozen' = [frozen EXCEPT ![g][i] = TRUE]
             /\ Frozen(t, hash[g][i])
          \/ /\ hash[g][i] # my[t].ch \/ frozen[g][i]
             /\ Goto(t, "freeze") /\ UNCHANGED <<my, frozen>>
    /\ UNCHANGED <<world, hash, value, sealed, n_hashs, rover, answer, content, calls>>

(* The slot is sealed, with the value v: a live one is carried into p's    *)
(* own successor.                                                          *)
Sealed(t, v) ==
    \/ ~Live(v) /\ CopyNext(t)
    \/ /\ Live(v)
       /\ my' = [my EXCEPT ![t].cv = v, ![t].expect = NULL, ![t].d = my[t].p + 1, ![t].at = 0,
                           ![t].then = "carry"]
       /\ Goto(t, "claim")

SealRead(t) ==
    /\ pc[t] = "seal"
    /\ LET g == my[t].p
           i == my[t].i
       IN \/ sealed[g][i] /\ Sealed(t, value[g][i])
          \/ /\ ~sealed[g][i]
             /\ my' = [my EXCEPT ![t].expect = value[g][i]]
             /\ Goto(t, "seal_cas")
    /\ UNCHANGED <<world, words, rover, answer, content, calls>>

SealCas(t) ==
    /\ pc[t] = "seal_cas"
    /\ LET g == my[t].p
           i == my[t].i
       IN \/ /\ value[g][i] = my[t].expect /\ ~sealed[g][i]
             /\ sealed' = [sealed EXCEPT ![g][i] = TRUE]
             /\ Sealed(t, value[g][i])
          \/ /\ value[g][i] # my[t].expect \/ sealed[g][i]
             /\ Goto(t, "seal") /\ UNCHANGED <<my, sealed>>
    /\ UNCHANGED <<world, hash, frozen, value, n_hashs, rover, answer, content, calls>>

(* Mutant: a removed entry is carried to like an empty one. *)
CarryOverTomb(t) ==
    /\ pc[t] = "carry"
    /\ LET g == my[t].d
           i == Slot(t, g)
           empty == value[g][i] \in {NULL, TOMB}
       IN IF empty /\ sealed[g][i]
          THEN CarryOn(t) /\ Goto(t, "claim") /\ UNCHANGED value
          ELSE /\ value' = [value EXCEPT ![g][i] = IF empty THEN my[t].cv ELSE @]
               /\ CopyNext(t)
    /\ UNCHANGED <<world, hash, frozen, sealed, n_hashs, rover, answer, content, calls>>

(* The value is stored if there never was one; a sealed empty slot means   *)
(* that d is retired, anything else that it is settled.                    *)
Carry(t) ==
    /\ pc[t] = "carry"
    /\ LET g == my[t].d
           i == Slot(t, g)
       IN IF value[g][i] = NULL /\ sealed[g][i]
          THEN CarryOn(t) /\ Goto(t, "claim") /\ UNCHANGED value
          ELSE /\ value' = [value EXCEPT ![g][i] = IF @ = NULL THEN my[t].cv ELSE @]
               /\ CopyNext(t)
    /\ UNCHANGED <<world, hash, frozen, sealed, n_hashs, rover, answer, content, calls>>

(* Mutant: whoever gets here frees the old storage. *)
SwapFreesAlways(t) ==
    /\ pc[t] = "swap"
    /\ storage' = IF storage = my[t].p THEN my[t].p + 1 ELSE storage
    /\ freed' = [freed EXCEPT ![my[t].p] = @ + 1]
    /\ \/ my[t].call.op = "migrate" /\ my' = [my EXCEPT ![t] = NoLocals] /\ Goto(t, "idle")
       \/ /\ my[t].call.op # "migrate"
          /\ my' = [my EXCEPT ![t].p = 0, ![t].i = 0]
          /\ Goto(t, "load")
    /\ UNCHANGED <<size, words, rover, answer, content, calls>>

(* map->storage moves on to the successor; the thread that changes it      *)
(* frees p.  The call starts over.                                         *)
Swap(t) ==
    /\ pc[t] = "swap"
    /\ storage' = IF storage = my[t].p THEN my[t].p + 1 ELSE storage
    /\ freed' = [freed EXCEPT ![my[t].p] = IF storage = my[t].p THEN @ + 1 ELSE @]
    /\ \/ my[t].call.op = "migrate" /\ my' = [my EXCEPT ![t] = NoLocals] /\ Goto(t, "idle")
       \/ /\ my[t].call.op # "migrate"
          /\ my' = [my EXCEPT ![t].p = 0, ![t].i = 0]
          /\ Goto(t, "load")
    /\ UNCHANGED <<size, words, rover, answer, content, calls>>

-----------------------------------------------------------------------------
(* enumerator_next *)

(* The enumerator returns a, and is over. *)
RoverEnds(t, a) ==
    /\ Return(t, a)
    /\ rover' = [rover EXCEPT ![t].on = FALSE]

EnumHash(t) ==
    /\ pc[t] = "enum_hash"
    /\ LET g == my[t].p
           i == rover[t].index
       IN \/ i >= size[g] /\ RoverEnds(t, "end")
          \/ i < size[g] /\ frozen[g][i] /\ RoverEnds(t, "ECANCELED")
          \/ /\ i < size[g] /\ ~frozen[g][i]
             /\ rover' = [rover EXCEPT ![t].index = i + 1]
             /\ Goto(t, IF hash[g][i] = NO_HASH THEN "enum_hash" ELSE "enum_value")
             /\ UNCHANGED <<my, answer>>
    /\ UNCHANGED <<world, words, content, calls>>

EnumValue(t) ==
    /\ pc[t] = "enum_value"
    /\ LET g == my[t].p
           i == rover[t].index - 1
       IN \/ sealed[g][i] /\ RoverEnds(t, "ECANCELED")
          \/ ~sealed[g][i] /\ ~Live(value[g][i]) /\ Goto(t, "enum_hash") /\ UNCHANGED <<my, answer, rover>>
          \/ /\ ~sealed[g][i] /\ Live(value[g][i])
             /\ rover' = [rover EXCEPT ![t].got = @ \union {hash[g][i]}]
             /\ Return(t, value[g][i])
    /\ UNCHANGED <<world, words, content, calls>>

Step(t) ==
    \/ Load(t) \/ Check(t) \/ LookHash(t) \/ LookValue(t)
    \/ ClaimRead(t) \/ ClaimCas(t) \/ ClaimInc(t) \/ ReadValue(t) \/ ValueCas(t)
    \/ RemHash(t) \/ RemCas(t)
    \/ MigNext(t) \/ MigAlloc(t) \/ FreezeRead(t) \/ FreezeCas(t) \/ SealRead(t) \/ SealCas(t)
    \/ Carry(t) \/ Swap(t)
    \/ EnumHash(t) \/ EnumValue(t)

Next == \E t \in Threads : Step(t) \/ Enumerate(t) \/ \E c \in Calls[t] : Call(t, c)

Spec == Init /\ [][Next]_vars

(* One thread that keeps running once it is in a call; the others may stop *)
(* anywhere for good.                                                      *)
Runner == CHOOSE t \in Threads : TRUE

RunnerSpec == Spec /\ WF_vars(Step(Runner))

-----------------------------------------------------------------------------
(* Types; no call ever returns the TOMB of a removed entry. *)
TypeOK ==
    /\ storage \in Gens
    /\ \A g \in Gens :
         /\ size[g] \in 0 .. MaxSize
         /\ hash[g] \in [Slots -> Hashes \union {NO_HASH}] /\ frozen[g] \in [Slots -> BOOLEAN]
         /\ value[g] \in [Slots -> Values \union {NULL, TOMB}] /\ sealed[g] \in [Slots -> BOOLEAN]
         /\ n_hashs[g] \in 0 .. size[g] /\ freed[g] \in Nat
    /\ \A t \in Threads :
         /\ pc[t] \in Labels
         /\ my[t].call \in Calls[t] \union {Idle}
         /\ my[t].p \in Gens /\ my[t].d \in Gens
         /\ my[t].cv \in Values \union {NULL} /\ my[t].expect \in Values \union {NULL, TOMB}
         /\ answer[t] \in Values \union {NULL, Idle, "0", "EEXIST", "ENOENT", "end", "ECANCELED"}
         /\ rover[t].storage \in Gens \union {-1} /\ rover[t].got \subseteq Hashes
    /\ content \in [Hashes -> Values \union {NULL}]
    /\ calls \in 0 .. MaxCalls

(* The slot table of hashtable.h: the types hold, only a claimed slot has  *)
(* a value or is sealed, and only a frozen one is sealed.  A hash has one  *)
(* slot per storage.                                                       *)
SlotsOK ==
    /\ TypeOK
    /\ \A g \in Gens : \A i \in Index(g) :
       /\ value[g][i] # NULL \/ sealed[g][i] => hash[g][i] # NO_HASH
       /\ sealed[g][i] => frozen[g][i]
       /\ hash[g][i] # NO_HASH =>
            \A j \in Index(g) : hash[g][j] = hash[g][i] => j = i

(* "a frozen or sealed slot implies a successor", and the generations: a   *)
(* storage before the current one is frozen in every slot and sealed in    *)
(* every claimed one, and was freed once.  What can be reached from the    *)
(* map is not freed, and there is at most one successor.                   *)
GenerationsOK ==
    /\ \A g \in 0 .. storage - 1 :
         /\ freed[g] = 1
         /\ \A i \in Index(g) : frozen[g][i] /\ (hash[g][i] # NO_HASH => sealed[g][i])
    /\ \A g \in storage .. MaxGen : freed[g] = 0
    /\ \A g \in Gens : (\E i \in Index(g) : frozen[g][i]) => HasNext(g)
    /\ \A g \in storage + 1 .. MaxGen :
         /\ size[g] # 0 => g = storage + 1
         /\ \A i \in Index(g) : ~frozen[g][i] /\ value[g][i] # TOMB

(* What a hash has is in its slot of the current storage, sealed or not,   *)
(* and a removed or absent one is not: no copier that lags behind brings   *)
(* it back.                                                                *)
NoResurrection ==
    \A h \in Hashes :
       {value[storage][i] : i \in {j \in Index(storage) : hash[storage][j] = h}} \intersect Values
          = {content[h]} \ {NULL}

(* get_max_n_hashs: "so a virgin slot always remains and every linear      *)
(* probe terminates"; the probes of lookup, remove and carry assert it.    *)
EveryProbeTerminates ==
    \A t \in Threads :
       /\ pc[t] \in {"look_hash", "rem_hash"} => my[t].at < size[my[t].p]
       /\ pc[t] = "claim" => my[t].at < size[my[t].d]

(* The map the callers see.  migrate_same_size is no call to it. *)
Contract == INSTANCE RemovableMap WITH
    call <- [t \in Threads |->
               IF my[t].call = Idle \/ my[t].call.op = "migrate" THEN Idle
               ELSE IF my[t].call.op = "next" THEN [op |-> "next"]
               ELSE [op |-> my[t].call.op, hash |-> my[t].call.hash,
                     value |-> my[t].call.value, seen |-> my[t].seen]],
    got <- [t \in Threads |-> rover[t].got],
    stay <- [t \in Threads |-> rover[t].stay]

(* Every behaviour is one of a map in which each call takes effect at one  *)
(* moment: a remove takes an entry away once and for good, an insert       *)
(* succeeds only where nothing is, and an enumerator that comes to its end *)
(* has returned all that was there from its start, whatever migrations     *)
(* are under way.                                                          *)
MapSpec == Contract!Spec

(* Wait-free: a call returns, even if all other threads have stopped in    *)
(* the middle of a migration.                                              *)
RunnerReturns == pc[Runner] # "idle" ~> pc[Runner] = "idle"
=============================================================================
