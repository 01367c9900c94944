----------------------- MODULE ConcurrentHashmapProofs -----------------------
(***************************************************************************)
(* The hashmap, for any threads, hashes, sizes and number of migrations: a *)
(* hash has one slot per storage, storages are replaced one at a time, no  *)
(* value is left behind by a migration, the count of the claimed slots     *)
(* lags behind by the claims in progress only, and the hashmap implements  *)
(* WriteOnceMap.                                                           *)
(***************************************************************************)
EXTENDS ConcurrentHashmap, FiniteSetTheorems, TLAPS

Words == Values \union {NULL, REDIRECT}

Keys == Hashes \union {NO_HASH}

AllCalls == UNION {UNION {Starts[k].calls[t] : t \in Threads} : k \in DOMAIN Starts}

Locals ==
    [call : AllCalls \union {Idle}, before : Values \union {NULL}, p : Gens, q : Gens, d : Gens,
     at : Nat, then : {"fill", "put"}, i : Nat, ch : Keys, cv : Values \union {NULL}]

Rovers == [on : BOOLEAN, index : Nat, mask : Nat, start : SUBSET Hashes, got : SUBSET Hashes]

(* TypeOK without the bound of the count, and with what it leaves open. *)
TypeInv ==
    /\ start \in DOMAIN Starts
    /\ storage \in Gens /\ next_storage \in Gens
    /\ hash = [g \in Gens |-> hash[g]] /\ value = [g \in Gens |-> value[g]]
    /\ \A g \in Gens : hash[g] \in [Index(g) -> Keys] /\ value[g] \in [Index(g) -> Words]
    /\ n_hashs \in [Gens -> Int] /\ freed \in [Gens -> Nat]
    /\ pc \in [Threads -> Labels]
    /\ my \in [Threads -> Locals]
    /\ \A t \in Threads : my[t].call \in Scene.calls[t] \union {Idle}
    /\ rover \in [Threads -> Rovers]
    /\ answer \in [Threads -> Values \union {NULL, Idle, "0", "EEXIST", "end", "ECANCELED"}]
    /\ content \in [Hashes -> Values \union {NULL}]
    /\ calls \in 0 .. Scene.max_calls /\ patches \in 0 .. Scene.max_patches

-----------------------------------------------------------------------------
(* The slots *)

(* Hash h has a slot in storage g. *)
Has(g, h) == \E j \in Index(g) : hash[g][j] = h

(* It has one with value v. *)
Maps(g, h, v) == \E j \in Index(g) : hash[g][j] = h /\ value[g][j] = v

SlotInv ==
    \A g \in Gens :
       /\ \A i \in Index(g) : value[g][i] \in Values => hash[g][i] # NO_HASH
       /\ \A i, j \in Index(g) : hash[g][i] = hash[g][j] /\ hash[g][i] # NO_HASH => i = j
       /\ \A i, k \in Index(g) : hash[g][i] # NO_HASH /\ Probe(g, hash[g][i], k) = i =>
            \A j \in 0 .. k - 1 : hash[g][Probe(g, hash[g][i], j)] # NO_HASH

(* The storages: the const one is never written to, a retired one is       *)
(* frozen, the last one has nothing frozen, and one that is not made yet   *)
(* is empty.  The next storage has only hashes of the current one.         *)
GenInv ==
    /\ next_storage \in {storage, storage + 1}
    /\ \A g \in 0 .. storage - 1 :
         /\ freed[g] = IF IsConst(g) THEN 0 ELSE 1
         /\ ~IsConst(g) => \A i \in Index(g) : value[g][i] = REDIRECT
    /\ \A g \in storage .. MaxGen : freed[g] = 0
    /\ \A g \in next_storage .. MaxGen : \A i \in Index(g) : value[g][i] # REDIRECT
    /\ \A g \in next_storage + 1 .. MaxGen : \A i \in Index(g) :
         hash[g][i] = NO_HASH /\ value[g][i] = NULL
    /\ n_hashs[0] = -1 /\ \A i \in Index(0) : hash[0][i] = NO_HASH /\ value[0][i] = NULL
    /\ next_storage # storage =>
         \A i \in Index(next_storage) :
            hash[next_storage][i] # NO_HASH => Has(storage, hash[next_storage][i])

(* What a hash was given is in the storage or has been carried, and there  *)
(* is no other value.                                                      *)
ContentInv ==
    /\ \A h \in Hashes : content[h] # NULL =>
         \/ Maps(storage, h, content[h])
         \/ /\ next_storage # storage
            /\ Maps(storage, h, REDIRECT) /\ Maps(next_storage, h, content[h])
    /\ \A g \in storage .. next_storage : \A i \in Index(g) :
         value[g][i] \in Values => value[g][i] = content[hash[g][i]]

-----------------------------------------------------------------------------
(* Where a thread is *)

Claiming(t) == pc[t] \in {"claim", "claim_cas", "claim_inc"}

(* It carries a value to another storage. *)
Carrying(t) == my[t].then = "put"

Migrating(t) ==
    \/ pc[t] \in {"copy_hash", "copy_virgin", "copy_rehash", "copy_value", "freeze", "swap"}
    \/ Carrying(t)

(* A migration that has begun is in some thread's hands until it is done. *)
MigratorInv ==
    next_storage # storage => \E t \in Threads : Migrating(t) /\ my[t].p = storage

CallAt(t) ==
    /\ my[t].p <= storage
    /\ pc[t] # "idle" => my[t].call \in Scene.calls[t]
    /\ pc[t] \in {"look_hash", "look_value"} => my[t].call.op = "lookup"
    /\ pc[t] \in {"enum_hash", "enum_value"} => my[t].call.op = "next"
    /\ pc[t] \in {"check", "fill"} \/ (Claiming(t) /\ ~Carrying(t)) =>
         my[t].call.op \in {"insert", "register"}
    /\ pc[t] = "check" => my[t].at = 0 /\ my[t].d = my[t].p
    /\ pc[t] = "mig_alloc" => my[t].i = 0
    /\ pc[t] = "enum_value" =>
         /\ rover[t].index >= 1 /\ rover[t].index <= Size[my[t].p]
         /\ hash[my[t].p][rover[t].index - 1] # NO_HASH

(* A probe has met other hashes only, and ends at the slot of its own. *)
ProbeAt(t) ==
    /\ pc[t] \in {"claim", "claim_cas"} =>
         /\ my[t].at < Size[my[t].d]
         /\ \A k \in 0 .. my[t].at - 1 :
              hash[my[t].d][Probe(my[t].d, Key(t), k)] \notin {NO_HASH, Key(t)}
    /\ pc[t] \in {"claim_inc", "fill", "put"} => hash[my[t].d][ClaimSlot(t)] = Key(t)
    /\ pc[t] = "fill" \/ (Claiming(t) /\ ~Carrying(t)) => my[t].d = my[t].p /\ ~IsConst(my[t].d)
    /\ Carrying(t) => Claiming(t) \/ pc[t] \in {"put", "follow", "freeze"}
    /\ pc[t] \in {"put", "follow"} => Carrying(t)

(* A copier: the slots before its own are frozen; what it carries is what  *)
(* its hash was given, and a storage it lags behind in has that hash.      *)
CopyAt(t) ==
    /\ Migrating(t) =>
         /\ my[t].p < my[t].q /\ my[t].q <= next_storage
         /\ \A j \in 0 .. my[t].i - 1 : value[my[t].p][j] = REDIRECT
         /\ pc[t] # "swap" => ~IsConst(my[t].p) /\ my[t].i < Size[my[t].p]
         /\ pc[t] = "swap" => IF IsConst(my[t].p) THEN my[t].i = 0 ELSE my[t].i = Size[my[t].p]
    /\ pc[t] \in {"copy_value", "freeze"} \/ Carrying(t) =>
         my[t].ch = hash[my[t].p][my[t].i] /\ my[t].ch # NO_HASH
    /\ pc[t] = "copy_rehash" =>
         /\ hash[my[t].p][my[t].i] # NO_HASH
         /\ my[t].cv \in Values /\ content[hash[my[t].p][my[t].i]] = my[t].cv
         /\ my[t].q < storage => Has(my[t].q, hash[my[t].p][my[t].i])
    /\ Carrying(t) =>
         /\ my[t].cv \in Values /\ content[my[t].ch] = my[t].cv
         /\ my[t].p < my[t].d /\ my[t].d <= next_storage
         /\ my[t].d < storage => Has(my[t].d, my[t].ch)
    /\ pc[t] = "freeze" /\ ~Carrying(t) => my[t].cv = NULL
    /\ pc[t] = "freeze" /\ Carrying(t) /\ my[t].p = storage =>
         Maps(next_storage, my[t].ch, my[t].cv)

ThreadAt(t) == CallAt(t) /\ ProbeAt(t) /\ CopyAt(t)

(* The inductive invariant. *)
IInv ==
    /\ TypeInv /\ SlotInv /\ GenInv /\ ContentInv /\ MigratorInv
    /\ \A t \in Threads : ThreadAt(t)

-----------------------------------------------------------------------------
(* The count *)

Counting(g) == {t \in Threads : pc[t] = "claim_inc" /\ my[t].d = g}

(* The threads that have passed the check and may claim a slot. *)
Entitled(g) == {t \in Threads : pc[t] \in {"claim", "claim_cas"} /\ my[t].d = g /\ ~Carrying(t)}

(* CountsOK, and the bound from which VirginReserve follows. *)
CountInv ==
    \A g \in 1 .. MaxGen :
       /\ n_hashs[g] \in Nat
       /\ Cardinality(Claimed(g)) = n_hashs[g] + Cardinality(Counting(g))
       /\ Cardinality(Claimed(g)) + Cardinality(Entitled(g)) < MaxNHashs(g) + Cardinality(Threads)

-----------------------------------------------------------------------------
(* Slots and probes *)

(* The constants. *)
LEMMA ConstFacts ==
    /\ NULL \notin Values /\ REDIRECT \notin Values /\ NULL # REDIRECT
    /\ Idle \notin Values \union {NULL}
    /\ MaxGen \in Nat /\ 0 \in Gens /\ NO_HASH \notin Hashes /\ NO_HASH = 0
    /\ Hashes \subseteq Nat /\ Keys \subseteq Nat
    /\ FillValue \in Values
  BY HashmapAssumption DEF Gens, NO_HASH, Keys

(* A storage has a slot, and its successor at least twice as many. *)
LEMMA Sizes ==
    ASSUME NEW g \in Gens
    PROVE  /\ g \in Nat /\ Size[g] \in Nat /\ Size[g] > 0
           /\ \A i : i \in Index(g) <=> i \in Nat /\ i < Size[g]
           /\ Index(g) = 0 .. Size[g] - 1
           /\ MaxNHashs(g) \in Nat /\ MaxNHashs(g) > 0
           /\ g + 1 \in Gens => Size[g + 1] >= 2 * Size[g] /\ MaxNHashs(g + 1) >= Size[g]
<1> USE HashmapAssumption DEF Gens
<1>1. g \in Nat /\ \A h \in Gens : Size[h] \in Nat
  OBVIOUS
<1>2. ASSUME NEW s \in Nat PROVE Grown(s) \in Nat /\ Grown(s) >= 2 * s /\ Grown(s) >= 4
  BY DEF Grown
<1>3. Size[g] > 0
  <2>1. CASE g = 0
    BY <2>1
  <2>2. CASE g = 1
    BY <1>1, <1>2, <2>2
  <2>3. CASE g > 1
    <3>1. g \in 2 .. MaxGen /\ g - 1 \in Gens
      BY <2>3
    <3>2. Size[g] = Grown(Size[g - 1]) /\ Size[g - 1] \in Nat
      BY <1>1, <3>1
    <3>3. Grown(Size[g - 1]) >= 4 /\ Grown(Size[g - 1]) \in Nat
      BY <1>2, <3>2
    <3> QED BY <3>2, <3>3
  <2> QED BY <1>1, <2>1, <2>2, <2>3
<1>4. Index(g) = 0 .. Size[g] - 1 /\ \A i : i \in Index(g) <=> i \in Nat /\ i < Size[g]
  BY <1>1 DEF Index, Mask
<1>5. ASSUME NEW s \in Nat, s > 0 PROVE s - s \div 2 \in Nat /\ s - s \div 2 > 0
  BY <1>5
<1>6. MaxNHashs(g) \in Nat /\ MaxNHashs(g) > 0
  BY <1>1, <1>3, <1>5 DEF MaxNHashs
<1>7. ASSUME g + 1 \in Gens
      PROVE  Size[g + 1] >= 2 * Size[g] /\ MaxNHashs(g + 1) >= Size[g]
  <2>1. Size[g + 1] \in Nat /\ Size[g] \in Nat
    BY <1>1, <1>7
  <2>2. Size[g + 1] >= 2 * Size[g]
    <3>1. CASE g = 0
      <4>1. Size[0] = 1 /\ Size[0 + 1] >= Grown(Size[0]) /\ Grown(Size[0]) >= 4
        BY <1>2, <1>7, <2>1, <3>1
      <4>2. Grown(Size[0]) \in Nat
        BY <1>2, <2>1, <3>1
      <4> QED BY <2>1, <3>1, <4>1, <4>2
    <3>2. CASE g # 0
      <4>1. g + 1 \in 2 .. MaxGen /\ (g + 1) - 1 = g
        BY <1>1, <1>7, <3>2
      <4>2. Size[g + 1] = Grown(Size[g])
        BY <4>1
      <4> QED BY <1>2, <2>1, <4>2
    <3> QED BY <3>1, <3>2
  <2>3. ASSUME NEW s \in Nat, NEW r \in Nat, r >= 2 * s PROVE r - r \div 2 >= s
    BY <2>3
  <2> QED BY <2>1, <2>2, <2>3 DEF MaxNHashs
<1> QED BY <1>1, <1>3, <1>4, <1>6, <1>7

(* What is less than a divisor is its own remainder. *)
LEMMA Remainder ==
    ASSUME NEW s \in Nat, s > 0, NEW m \in Nat, NEW i \in Nat, i < s
    PROVE  (s * m + i) % s = i
<1> DEFINE a == s * m + i
<1>1. a \in Nat
  OBVIOUS
<1>2. a = s * (a \div s) + (a % s) /\ a % s \in Nat /\ a % s < s /\ a \div s \in Nat
  BY <1>1
<1> DEFINE q == a \div s
           r == a % s
<1> HIDE DEF q, r
<1>3. s * m + i = s * q + r /\ r \in Nat /\ r < s /\ q \in Nat
  BY <1>2 DEF q, r
<1>4. m = q
  <2>1. CASE m < q
    <3>1. q >= m + 1
      BY <1>3, <2>1
    <3>2. s * q >= s * (m + 1)
      BY <1>3, <3>1
    <3>3. s * (m + 1) = s * m + s
      OBVIOUS
    <3> QED BY <1>3, <3>2, <3>3
  <2>2. CASE q < m
    <3>1. m >= q + 1
      BY <1>3, <2>2
    <3>2. s * m >= s * (q + 1)
      BY <1>3, <3>1
    <3>3. s * (q + 1) = s * q + s
      BY <1>3
    <3> QED BY <1>3, <3>2, <3>3
  <2> QED BY <1>3, <2>1, <2>2
<1>5. r = i
  BY <1>3, <1>4
<1> QED BY <1>5 DEF r

(* A probe looks at slots of the storage, at each of them, and at none     *)
(* twice.                                                                  *)
LEMMA Probes ==
    ASSUME NEW g \in Gens, NEW h \in Nat
    PROVE  /\ \A k \in Nat : Probe(g, h, k) \in Index(g)
           /\ \A i \in Index(g) : \E k \in Index(g) : Probe(g, h, k) = i
           /\ \A j, k \in Index(g) : Probe(g, h, j) = Probe(g, h, k) => j = k
<1> DEFINE s == Size[g]
           r == h % s
           q == h \div s
<1>1. s \in Nat /\ s > 0 /\ \A i : i \in Index(g) <=> i \in Nat /\ i < s
  BY Sizes
<1>2. /\ \A k : Probe(g, h, k) = (h + k) % s
  BY DEF Probe
<1> HIDE DEF s
<1>3. h = s * q + r /\ r \in Nat /\ r < s /\ q \in Nat
  BY <1>1
<1> HIDE DEF r, q
<1>4. ASSUME NEW k \in Nat PROVE Probe(g, h, k) \in Index(g)
  <2>1. h + k \in Nat
    OBVIOUS
  <2>2. (h + k) % s \in Nat /\ (h + k) % s < s
    BY <1>1, <2>1
  <2> QED BY <1>1, <1>2, <2>2
<1>5. ASSUME NEW k \in Nat, k < s
      PROVE  (h + k) % s = IF r + k < s THEN r + k ELSE r + k - s
  <2>1. CASE r + k < s
    <3>1. h + k = s * q + (r + k) /\ r + k \in Nat
      BY <1>1, <1>3
    <3> QED BY <1>1, <1>3, <2>1, <3>1, Remainder
  <2>2. CASE ~(r + k < s)
    <3>1. s * (q + 1) = s * q + s
      BY <1>1, <1>3
    <3>2. h + k = s * (q + 1) + (r + k - s) /\ r + k - s \in Nat /\ r + k - s < s
      <4> DEFINE x == s * q
                 y == s * (q + 1)
      <4>1. h = x + r /\ y = x + s /\ x \in Int /\ y \in Int
        BY <1>1, <1>3, <3>1
      <4> HIDE DEF x, y
      <4> QED BY <1>1, <1>3, <1>5, <2>2, <4>1
    <3>3. (s * (q + 1) + (r + k - s)) % s = r + k - s
      <4>1. q + 1 \in Nat
        BY <1>3
      <4> QED BY <1>1, <3>2, <4>1, Remainder
    <3> QED BY <2>2, <3>2, <3>3
  <2> QED BY <2>1, <2>2
<1>6. ASSUME NEW i \in Index(g) PROVE \E k \in Index(g) : Probe(g, h, k) = i
  <2>1. i \in Nat /\ i < s
    BY <1>1
  <2>2. CASE i >= r
    <3>1. i - r \in Nat /\ i - r < s /\ r + (i - r) = i
      BY <1>1, <1>3, <2>1, <2>2
    <3>2. (h + (i - r)) % s = i
      BY <1>5, <2>1, <3>1
    <3> QED BY <1>1, <1>2, <3>1, <3>2
  <2>3. CASE i < r
    <3> DEFINE k == i - r + s
    <3>1. k \in Nat /\ k < s /\ ~(r + k < s) /\ r + k - s = i
      BY <1>1, <1>3, <2>1, <2>3
    <3>2. (h + k) % s = i
      BY <1>5, <3>1
    <3> QED BY <1>1, <1>2, <3>1, <3>2
  <2> QED BY <1>3, <2>1, <2>2, <2>3
<1>7. ASSUME NEW j \in Index(g), NEW k \in Index(g), Probe(g, h, j) = Probe(g, h, k) PROVE j = k
  <2>1. j \in Nat /\ j < s /\ k \in Nat /\ k < s /\ (h + j) % s = (h + k) % s
    BY <1>1, <1>2, <1>7
  <2>2. /\ (h + j) % s = IF r + j < s THEN r + j ELSE r + j - s
        /\ (h + k) % s = IF r + k < s THEN r + k ELSE r + k - s
    BY <1>5, <2>1
  <2> QED BY <1>1, <1>3, <2>1, <2>2
<1> QED BY <1>4, <1>6, <1>7

-----------------------------------------------------------------------------
(* Types *)

(* A call of the situation. *)
LEMMA CallFacts ==
    ASSUME start \in DOMAIN Starts, NEW t \in Threads, NEW c \in Scene.calls[t]
    PROVE  /\ c \in AllCalls
           /\ c.op \in {"insert", "register", "lookup", "next"}
           /\ c.op # "next" => c.hash \in Hashes
           /\ c.op \in {"insert", "register"} => c.value \in Values
<1> DEFINE st == Starts[start]
<1>1. st \in {Starts[k] : k \in DOMAIN Starts} /\ Scene = st
  BY DEF Scene
<1>2. c \in st.calls[t]
  BY <1>1
<1>3. c \in AllCalls
  BY <1>2 DEF AllCalls
<1>4. \/ c = [op |-> "next"]
      \/ /\ c.op \in {"insert", "register", "lookup"}
         /\ c.hash \in Hashes /\ c.value \in Values \union {NULL}
         /\ c.op # "lookup" => c.value \in Values
  BY <1>1, <1>2, HashmapAssumption
<1> QED BY <1>3, <1>4

SetHash(g, i, x) == hash' = [hash EXCEPT ![g][i] = x]

(* What a claim does. *)
LEMMA ClaimFacts ==
    ASSUME TypeInv, NEW g \in Gens, NEW i \in Index(g), NEW x \in Keys, SetHash(g, i, x)
    PROVE  /\ hash' = [h \in Gens |-> hash'[h]]
           /\ \A h \in Gens : hash'[h] \in [Index(h) -> Keys]
           /\ hash'[g][i] = x
           /\ \A h \in Gens : \A j \in Index(h) :
                 h # g \/ j # i => hash'[h][j] = hash[h][j]
<1>1. hash = [h \in Gens |-> hash[h]] /\ \A h \in Gens : hash[h] \in [Index(h) -> Keys]
  BY DEF TypeInv
<1>2. hash' = [hash EXCEPT ![g] = [hash[g] EXCEPT ![i] = x]] /\ x \in Keys
  BY <1>1 DEF SetHash
<1>3. hash' = [h \in Gens |-> hash'[h]] /\ \A h \in Gens \ {g} : hash'[h] = hash[h]
  BY <1>1, <1>2
<1>4. hash'[g] = [hash[g] EXCEPT ![i] = x]
  BY <1>1, <1>2
<1>5. \A h \in Gens : hash'[h] \in [Index(h) -> Keys]
  BY <1>1, <1>2, <1>3, <1>4
<1>6. hash'[g][i] = x
  BY <1>1, <1>4
<1>7. ASSUME NEW h \in Gens, NEW j \in Index(h), h # g \/ j # i
      PROVE  hash'[h][j] = hash[h][j]
  <2>1. CASE h # g
    BY <1>3, <2>1
  <2>2. CASE h = g
    BY <1>1, <1>4, <1>7, <2>2
  <2> QED BY <2>1, <2>2
<1> QED BY <1>3, <1>5, <1>6, <1>7

(* What a compare and swap of a value does. *)
LEMMA CasFacts ==
    ASSUME TypeInv, NEW g \in Gens, NEW i \in Index(g), NEW new \in Words, NEW expect,
           CasValue(g, i, new, expect)
    PROVE  /\ value' = [h \in Gens |-> value'[h]]
           /\ \A h \in Gens : value'[h] \in [Index(h) -> Words]
           /\ value'[g][i] = IF value[g][i] = expect THEN new ELSE value[g][i]
           /\ \A h \in Gens : \A j \in Index(h) :
                 h # g \/ j # i => value'[h][j] = value[h][j]
           /\ value[g][i] # expect => value' = value
<1> DEFINE x == IF value[g][i] = expect THEN new ELSE value[g][i]
<1>1. value = [h \in Gens |-> value[h]] /\ \A h \in Gens : value[h] \in [Index(h) -> Words]
  BY DEF TypeInv
<1>2. value' = [value EXCEPT ![g] = [value[g] EXCEPT ![i] = x]] /\ x \in Words
  BY <1>1 DEF CasValue
<1>3. value' = [h \in Gens |-> value'[h]] /\ \A h \in Gens \ {g} : value'[h] = value[h]
  BY <1>1, <1>2
<1>4. value'[g] = [value[g] EXCEPT ![i] = x]
  BY <1>1, <1>2
<1>5. \A h \in Gens : value'[h] \in [Index(h) -> Words]
  BY <1>1, <1>2, <1>3, <1>4
<1>6. value'[g][i] = x
  BY <1>1, <1>4
<1>7. ASSUME NEW h \in Gens, NEW j \in Index(h), h # g \/ j # i
      PROVE  value'[h][j] = value[h][j]
  <2>1. CASE h # g
    BY <1>3, <2>1
  <2>2. CASE h = g
    BY <1>1, <1>4, <1>7, <2>2
  <2> QED BY <2>1, <2>2
<1>8. ASSUME value[g][i] # expect PROVE value' = value
  <2>1. x = value[g][i]
    BY <1>8
  <2>2. value' = [value EXCEPT ![g] = [value[g] EXCEPT ![i] = value[g][i]]]
    BY <1>2, <2>1
  <2>3. [value[g] EXCEPT ![i] = value[g][i]] = value[g]
    BY <1>1
  <2> QED BY <1>1, <2>2, <2>3
<1> QED BY <1>3, <1>5, <1>6, <1>7, <1>8

(* What is known of a thread and of the storages before a step. *)
LEMMA Basics ==
    ASSUME IInv, NEW t \in Threads
    PROVE  /\ TypeInv /\ SlotInv /\ GenInv /\ ContentInv
           /\ CallAt(t) /\ ProbeAt(t) /\ CopyAt(t)
           /\ storage \in Nat /\ next_storage \in Nat /\ storage \in Gens /\ next_storage \in Gens
           /\ next_storage \in {storage, storage + 1}
           /\ my[t].p \in Gens /\ my[t].p \in Nat /\ my[t].q \in Gens /\ my[t].q \in Nat
           /\ my[t].d \in Gens /\ my[t].d \in Nat /\ my[t].at \in Nat /\ my[t].i \in Nat
           /\ my[t].p <= storage
           /\ my[t].then \in {"fill", "put"} /\ my[t].ch \in Keys
           /\ my[t].cv \in Values \union {NULL}
           /\ rover[t].index \in Nat
           /\ start \in DOMAIN Starts
<1>1. TypeInv /\ SlotInv /\ GenInv /\ ContentInv /\ ThreadAt(t) /\ my[t] \in Locals /\ rover[t] \in Rovers
  BY DEF IInv, TypeInv
<1>2. /\ storage \in Nat /\ next_storage \in Nat /\ storage \in Gens /\ next_storage \in Gens
      /\ start \in DOMAIN Starts
  BY <1>1 DEF TypeInv, Gens
<1>3. /\ my[t].p \in Gens /\ my[t].p \in Nat /\ my[t].q \in Gens /\ my[t].q \in Nat
      /\ my[t].d \in Gens /\ my[t].d \in Nat /\ my[t].at \in Nat /\ my[t].i \in Nat
      /\ my[t].then \in {"fill", "put"} /\ my[t].ch \in Keys /\ my[t].cv \in Values \union {NULL}
  BY <1>1 DEF Locals, Gens
<1>4. rover[t].index \in Nat
  BY <1>1 DEF Rovers
<1> QED BY <1>1, <1>2, <1>3, <1>4 DEF ThreadAt, CallAt, GenInv

(* The slots the threads address exist. *)
LEMMA Addressed ==
    ASSUME IInv, NEW t \in Threads
    PROVE  /\ pc[t] \in {"look_hash", "look_value"} =>
                /\ my[t].call.hash \in Hashes
                /\ Probe(my[t].p, my[t].call.hash, my[t].at) \in Index(my[t].p)
           /\ Claiming(t) \/ pc[t] \in {"fill", "put"} =>
                Key(t) \in Hashes /\ ClaimSlot(t) \in Index(my[t].d)
           /\ Carrying(t) => Key(t) = my[t].ch
           /\ ~Carrying(t) => Key(t) = my[t].call.hash
           /\ pc[t] = "fill" => my[t].call.value \in Values
           /\ pc[t] \in {"copy_hash", "copy_virgin", "copy_rehash", "copy_value", "freeze"} \/ Carrying(t) =>
                my[t].i \in Index(my[t].p)
           /\ pc[t] = "enum_value" => rover[t].index - 1 \in Index(my[t].p)
<1>1. Carrying(t) => Key(t) = my[t].ch
  BY DEF Carrying, Key
<1>2. ~Carrying(t) => Key(t) = my[t].call.hash
  BY DEF Carrying, Key
<1>3. ASSUME pc[t] \in {"look_hash", "look_value"}
      PROVE  /\ my[t].call.hash \in Hashes
             /\ Probe(my[t].p, my[t].call.hash, my[t].at) \in Index(my[t].p)
  <2>1. my[t].call \in Scene.calls[t] /\ my[t].call.op = "lookup"
    BY <1>3, Basics DEF CallAt
  <2>2. my[t].call.hash \in Hashes
    BY <2>1, Basics, CallFacts
  <2> QED BY <2>2, Basics, ConstFacts, Probes
<1>4. ASSUME Claiming(t) \/ pc[t] \in {"fill", "put"}
      PROVE  Key(t) \in Hashes /\ ClaimSlot(t) \in Index(my[t].d)
  <2>1. Key(t) \in Hashes
    <3>1. CASE Carrying(t)
      BY <1>1, <3>1, Basics DEF CopyAt, Keys
    <3>2. CASE ~Carrying(t)
      <4>1. pc[t] # "idle" /\ my[t].call.op \in {"insert", "register"}
        BY <1>4, <3>2, Basics DEF CallAt, ProbeAt, Claiming
      <4>2. my[t].call \in Scene.calls[t]
        BY <4>1, Basics DEF CallAt
      <4> QED BY <1>2, <3>2, <4>1, <4>2, Basics, CallFacts
    <3> QED BY <3>1, <3>2
  <2> QED BY <2>1, Basics, ConstFacts, Probes DEF ClaimSlot
<1>5. ASSUME pc[t] = "fill" PROVE my[t].call.value \in Values
  <2>1. my[t].call \in Scene.calls[t] /\ my[t].call.op \in {"insert", "register"}
    BY <1>5, Basics DEF CallAt
  <2> QED BY <2>1, Basics, CallFacts
<1>6. ASSUME pc[t] \in {"copy_hash", "copy_virgin", "copy_rehash", "copy_value", "freeze"} \/ Carrying(t)
      PROVE  my[t].i \in Index(my[t].p)
  <2>1. Migrating(t) /\ pc[t] # "swap"
    BY <1>6, Basics DEF Migrating, ProbeAt, Claiming
  <2>2. my[t].i < Size[my[t].p]
    BY <2>1, Basics DEF CopyAt
  <2> QED BY <2>2, Basics, Sizes
<1>7. ASSUME pc[t] = "enum_value" PROVE rover[t].index - 1 \in Index(my[t].p)
  <2>1. rover[t].index >= 1 /\ rover[t].index <= Size[my[t].p]
    BY <1>7, Basics DEF CallAt
  <2>2. rover[t].index - 1 \in Nat /\ rover[t].index - 1 < Size[my[t].p]
    BY <2>1, Basics, Sizes
  <2> QED BY <2>2, Basics, Sizes
<1> QED BY <1>1, <1>2, <1>3, <1>4, <1>5, <1>6, <1>7

-----------------------------------------------------------------------------
(* The beginning: the hashes that are in do not collide, so each is at the *)
(* first slot of its probe.                                                *)
LEMMA InitSlots ==
    ASSUME Init
    PROVE  /\ start \in DOMAIN Starts
           /\ Scene.first \in Gens /\ Scene.filled \subseteq Hashes
           /\ Scene.first = 0 => Scene.filled = {}
           /\ Scene.max_calls \in Nat /\ Scene.max_patches \in Nat
           /\ Cardinality(Scene.filled) <= MaxNHashs(Scene.first)
           /\ storage = Scene.first /\ next_storage = Scene.first
           /\ \A g \in Gens : hash[g] \in [Index(g) -> Keys] /\ value[g] \in [Index(g) -> Words]
           /\ \A g \in Gens : \A i \in Index(g) :
                /\ value[g][i] = IF hash[g][i] = NO_HASH THEN NULL ELSE FillValue
                /\ hash[g][i] # NO_HASH =>
                      /\ g = Scene.first /\ hash[g][i] \in Scene.filled
                      /\ Probe(g, hash[g][i], 0) = i
           /\ \A h \in Scene.filled : hash[Scene.first][Probe(Scene.first, h, 0)] = h
<1> USE DEF Init
<1>1. start \in DOMAIN Starts /\ Scene \in {Starts[k] : k \in DOMAIN Starts}
  BY DEF Scene
<1>2. /\ Scene.first \in Gens /\ Scene.filled \subseteq Hashes
      /\ Scene.first = 0 => Scene.filled = {}
      /\ \A h, k \in Scene.filled : Probe(Scene.first, h, 0) = Probe(Scene.first, k, 0) => h = k
      /\ Cardinality(Scene.filled) <= MaxNHashs(Scene.first)
      /\ Scene.max_calls \in Nat /\ Scene.max_patches \in Nat
  BY <1>1, HashmapAssumption
<1>3. ASSUME NEW g \in Gens, NEW i \in Index(g)
      PROVE  /\ hash[g][i] = IF \E h \in Scene.filled : g = Scene.first /\ Probe(g, h, 0) = i
                             THEN CHOOSE h \in Scene.filled : Probe(g, h, 0) = i ELSE NO_HASH
             /\ value[g][i] = IF hash[g][i] = NO_HASH THEN NULL ELSE FillValue
  OBVIOUS
<1>4. ASSUME NEW g \in Gens, NEW i \in Index(g)
      PROVE  /\ hash[g][i] \in Keys
             /\ hash[g][i] # NO_HASH =>
                   /\ g = Scene.first /\ hash[g][i] \in Scene.filled
                   /\ Probe(g, hash[g][i], 0) = i
  <2>1. CASE \E h \in Scene.filled : g = Scene.first /\ Probe(g, h, 0) = i
    <3>1. hash[g][i] = CHOOSE h \in Scene.filled : Probe(g, h, 0) = i
      BY <1>3, <2>1
    <3>2. hash[g][i] \in Scene.filled /\ Probe(g, hash[g][i], 0) = i
      BY <2>1, <3>1
    <3> QED BY <1>2, <2>1, <3>2 DEF Keys
  <2>2. CASE ~\E h \in Scene.filled : g = Scene.first /\ Probe(g, h, 0) = i
    BY <1>3, <2>2 DEF Keys
  <2> QED BY <2>1, <2>2
<1>5. ASSUME NEW g \in Gens
      PROVE  hash[g] \in [Index(g) -> Keys] /\ value[g] \in [Index(g) -> Words]
  <2>1. hash[g] = [i \in Index(g) |-> hash[g][i]] /\ value[g] = [i \in Index(g) |-> value[g][i]]
    OBVIOUS
  <2>2. \A i \in Index(g) : hash[g][i] \in Keys /\ value[g][i] \in Words
    BY <1>3, <1>4, ConstFacts DEF Words
  <2> QED BY <2>1, <2>2
<1>6. ASSUME NEW h \in Scene.filled PROVE hash[Scene.first][Probe(Scene.first, h, 0)] = h
  <2> DEFINE i == Probe(Scene.first, h, 0)
  <2>1. i \in Index(Scene.first)
    BY <1>2, ConstFacts, Probes
  <2>2. hash[Scene.first][i] = CHOOSE k \in Scene.filled : Probe(Scene.first, k, 0) = i
    BY <1>2, <1>3, <2>1
  <2>3. hash[Scene.first][i] \in Scene.filled /\ Probe(Scene.first, hash[Scene.first][i], 0) = i
    BY <2>2
  <2> QED BY <1>2, <2>3
<1> QED BY <1>1, <1>2, <1>3, <1>4, <1>5, <1>6

(* The claimed slots are as many as the hashes that are in. *)
LEMMA FilledCounted ==
    ASSUME Init
    PROVE  /\ IsFiniteSet(Claimed(Scene.first))
           /\ Cardinality(Claimed(Scene.first)) = Cardinality(Scene.filled)
           /\ Cardinality(Scene.filled) \in Nat
<1> DEFINE g == Scene.first
           F == Scene.filled
           f == [i \in Claimed(g) |-> hash[g][i]]
<1>1. /\ g \in Gens /\ F \subseteq Hashes
      /\ \A i \in Index(g) : hash[g][i] # NO_HASH => hash[g][i] \in F /\ Probe(g, hash[g][i], 0) = i
      /\ \A h \in F : hash[g][Probe(g, h, 0)] = h
  BY InitSlots
<1> HIDE DEF g, F
<1>2. \A i \in Claimed(g) : i \in Index(g) /\ hash[g][i] \in F /\ Probe(g, hash[g][i], 0) = i
  BY <1>1 DEF Claimed
<1>3. f \in [Claimed(g) -> F] /\ \A i \in Claimed(g) : f[i] = hash[g][i]
  BY <1>2
<1>4. ASSUME NEW h \in F PROVE \E i \in Claimed(g) : f[i] = h
  <2>1. h # NO_HASH /\ Probe(g, h, 0) \in Index(g) /\ hash[g][Probe(g, h, 0)] = h
    BY <1>1, ConstFacts, Probes
  <2>2. Probe(g, h, 0) \in Claimed(g)
    BY <2>1 DEF Claimed
  <2> QED BY <1>3, <2>1, <2>2
<1>5. \A i, j \in Claimed(g) : f[i] = f[j] => i = j
  BY <1>2, <1>3
<1> HIDE DEF f
<1>6. f \in Bijection(Claimed(g), F)
  BY <1>3, <1>4, <1>5 DEF Bijection, Injection, Surjection, IsInjective
<1>7. ExistsBijection(Claimed(g), F)
  BY <1>6 DEF ExistsBijection
<1>8. IsFiniteSet(Claimed(g))
  <2>1. Claimed(g) \subseteq 0 .. Size[g] - 1 /\ Size[g] \in Nat
    BY <1>1, Sizes DEF Claimed
  <2>2. IsFiniteSet(0 .. Size[g] - 1)
    BY <2>1, FS_Interval
  <2> QED BY <2>1, <2>2, FS_Subset
<1>9. Cardinality(F) = Cardinality(Claimed(g)) /\ Cardinality(Claimed(g)) \in Nat
  BY <1>7, <1>8, FS_Bijection, FS_CardinalityType
<1> QED BY <1>8, <1>9 DEF g, F

LEMMA InitIInv == Init => IInv
<1> SUFFICES ASSUME Init PROVE IInv
  OBVIOUS
<1> USE ConstFacts
<1> DEFINE first == Scene.first
<1>0. /\ n_hashs = [g \in Gens |-> IF IsConst(g) THEN -1
                                  ELSE IF g = first THEN Cardinality(Scene.filled) ELSE 0]
      /\ freed = [g \in Gens |-> 0]
      /\ pc = [t \in Threads |-> "idle"] /\ my = [t \in Threads |-> NoLocals]
      /\ rover = [t \in Threads |-> NoRover] /\ answer = [t \in Threads |-> Idle]
      /\ content = [h \in Hashes |-> IF h \in Scene.filled THEN FillValue ELSE NULL]
      /\ calls = 0 /\ patches = 0
  BY DEF Init
<1>1. /\ start \in DOMAIN Starts /\ first \in Gens /\ Scene.filled \subseteq Hashes
      /\ first = 0 => Scene.filled = {}
      /\ Scene.max_calls \in Nat /\ Scene.max_patches \in Nat
      /\ storage = first /\ next_storage = first
      /\ \A g \in Gens : hash[g] \in [Index(g) -> Keys] /\ value[g] \in [Index(g) -> Words]
      /\ \A g \in Gens : \A i \in Index(g) :
           /\ value[g][i] = IF hash[g][i] = NO_HASH THEN NULL ELSE FillValue
           /\ hash[g][i] # NO_HASH =>
                 /\ g = first /\ hash[g][i] \in Scene.filled
                 /\ Probe(g, hash[g][i], 0) = i
      /\ \A h \in Scene.filled : hash[first][Probe(first, h, 0)] = h
  BY InitSlots
<1>2. first \in {0, 1} /\ first \in Nat
  <2>1. Scene \in {Starts[k] : k \in DOMAIN Starts}
    BY <1>1 DEF Scene
  <2> QED BY <2>1, HashmapAssumption
<1>3. NoLocals \in Locals /\ NoRover \in Rovers
  BY DEF NoLocals, Locals, Keys, NoRover, Rovers
<1>4. TypeInv
  <2>1. n_hashs \in [Gens -> Int] /\ freed \in [Gens -> Nat]
    <3>1. Cardinality(Scene.filled) \in Int
      BY FilledCounted
    <3> QED BY <1>0, <3>1
  <2>2. pc \in [Threads -> Labels] /\ my \in [Threads -> Locals] /\ rover \in [Threads -> Rovers]
        /\ answer \in [Threads -> Values \union {NULL, Idle, "0", "EEXIST", "end", "ECANCELED"}]
    BY <1>0, <1>3 DEF Labels
  <2>3. \A t \in Threads : my[t].call \in Scene.calls[t] \union {Idle}
    BY <1>0 DEF NoLocals
  <2>4. content \in [Hashes -> Values \union {NULL}] /\ calls \in 0 .. Scene.max_calls
        /\ patches \in 0 .. Scene.max_patches
    BY <1>0, <1>1
  <2>5. hash = [g \in Gens |-> hash[g]] /\ value = [g \in Gens |-> value[g]]
    BY DEF Init
  <2> QED BY <1>1, <2>1, <2>2, <2>3, <2>4, <2>5 DEF TypeInv
<1>5. SlotInv
  <2>1. ASSUME NEW g \in Gens, NEW i \in Index(g), NEW k \in Index(g),
               hash[g][i] # NO_HASH, Probe(g, hash[g][i], k) = i
        PROVE  k = 0
    <3>1. Probe(g, hash[g][i], 0) = i /\ hash[g][i] \in Nat /\ 0 \in Index(g)
      BY <1>1, <2>1, Sizes
    <3> QED BY <2>1, <3>1, Probes
  <2>2. ASSUME NEW g \in Gens, NEW i \in Index(g), NEW k \in Index(g),
               hash[g][i] # NO_HASH, Probe(g, hash[g][i], k) = i
        PROVE  \A j \in 0 .. k - 1 : hash[g][Probe(g, hash[g][i], j)] # NO_HASH
    BY <2>1, <2>2
  <2>3. \A g \in Gens : \A i, j \in Index(g) : hash[g][i] = hash[g][j] /\ hash[g][i] # NO_HASH => i = j
    BY <1>1
  <2>4. \A g \in Gens : \A i \in Index(g) : value[g][i] \in Values => hash[g][i] # NO_HASH
    BY <1>1
  <2> QED BY <2>2, <2>3, <2>4 DEF SlotInv
<1>6. GenInv
  <2>1. \A g \in Gens : \A i \in Index(g) :
          value[g][i] # REDIRECT /\ (g # first \/ first = 0 => hash[g][i] = NO_HASH /\ value[g][i] = NULL)
    BY <1>1
  <2>2. /\ \A g \in first .. MaxGen : g \in Gens
        /\ \A g \in first + 1 .. MaxGen : g \in Gens /\ g # first
    BY <1>2 DEF Gens
  <2>3. n_hashs[0] = -1 /\ \A i \in Index(0) : hash[0][i] = NO_HASH /\ value[0][i] = NULL
    BY <1>0, <1>2, <2>1 DEF IsConst
  <2>4. ASSUME NEW g \in 0 .. first - 1
        PROVE  freed[g] = 0 /\ IsConst(g)
    <3>1. g = 0
      BY <1>2
    <3> QED BY <1>0, <3>1 DEF IsConst
  <2>5. \A g \in first .. MaxGen : freed[g] = 0
    BY <1>0, <2>2
  <2> QED BY <1>1, <1>2, <2>1, <2>2, <2>3, <2>4, <2>5 DEF GenInv
<1>7. ContentInv
  <2>1. ASSUME NEW h \in Hashes, content[h] # NULL PROVE Maps(storage, h, content[h])
    <3>1. h \in Scene.filled /\ content[h] = FillValue /\ h \in Nat
      BY <1>0, <2>1
    <3>2. Probe(first, h, 0) \in Index(first) /\ hash[first][Probe(first, h, 0)] = h
      BY <1>1, <3>1, Probes
    <3>3. value[first][Probe(first, h, 0)] = FillValue
      <4>1. h # NO_HASH
        OBVIOUS
      <4> QED BY <1>1, <3>2, <4>1
    <3> QED BY <1>1, <3>1, <3>2, <3>3 DEF Maps
  <2>2. ASSUME NEW i \in Index(first), value[first][i] \in Values
        PROVE  value[first][i] = content[hash[first][i]]
    <3>1. hash[first][i] # NO_HASH /\ value[first][i] = FillValue
      BY <1>1, <2>2
    <3>2. hash[first][i] \in Scene.filled /\ hash[first][i] \in Hashes
      BY <1>1, <3>1
    <3> QED BY <1>0, <3>1, <3>2
  <2>3. \A g \in storage .. next_storage : g = first
    BY <1>1, <1>2
  <2> QED BY <2>1, <2>2, <2>3 DEF ContentInv
<1>8. MigratorInv
  BY <1>1 DEF MigratorInv
<1>9. ASSUME NEW t \in Threads PROVE ThreadAt(t)
  <2>1. pc[t] = "idle" /\ my[t].p = 0 /\ my[t].then = "fill"
    BY <1>0 DEF NoLocals
  <2>2. ~Migrating(t) /\ ~Carrying(t) /\ ~Claiming(t)
    BY <2>1 DEF Migrating, Carrying, Claiming
  <2> QED BY <1>1, <1>2, <2>1, <2>2 DEF ThreadAt, CallAt, ProbeAt, CopyAt
<1> QED BY <1>4, <1>5, <1>6, <1>7, <1>8, <1>9 DEF IInv

-----------------------------------------------------------------------------
(* Every action keeps the types. *)

Answers == Values \union {NULL, Idle, "0", "EEXIST", "end", "ECANCELED"}

(* The threads' part of the types, and that of their calls. *)
ThreadTypes ==
    /\ pc \in [Threads -> Labels] /\ my \in [Threads -> Locals]
    /\ \A t \in Threads : my[t].call \in Scene.calls[t] \union {Idle}

CallTypes ==
    /\ rover \in [Threads -> Rovers] /\ answer \in [Threads -> Answers]
    /\ calls \in 0 .. Scene.max_calls /\ patches \in 0 .. Scene.max_patches

(* A call that returns has no locals. *)
LEMMA ReturnTypes ==
    ASSUME TypeInv, NEW t \in Threads, NEW a \in Answers, Return(t, a), start' = start
    PROVE  /\ ThreadTypes' /\ answer' \in [Threads -> Answers]
           /\ pc'[t] = "idle" /\ my'[t] = NoLocals
           /\ \A u \in Threads \ {t} : pc'[u] = pc[u] /\ my'[u] = my[u]
<1>1. NoLocals \in Locals /\ NoLocals.call = Idle
  BY ConstFacts DEF NoLocals, Locals, Keys
<1>2. pc' = [pc EXCEPT ![t] = "idle"] /\ my' = [my EXCEPT ![t] = NoLocals]
      /\ answer' = [answer EXCEPT ![t] = a] /\ Scene' = Scene
  BY DEF Return, Goto, Scene
<1>3. pc \in [Threads -> Labels] /\ my \in [Threads -> Locals] /\ answer \in [Threads -> Answers]
      /\ \A u \in Threads : my[u].call \in Scene.calls[u] \union {Idle}
  BY DEF TypeInv, Answers
<1> HIDE DEF NoLocals
<1>4. pc' \in [Threads -> Labels] /\ pc'[t] = "idle"
  BY <1>2, <1>3 DEF Labels
<1> QED BY <1>1, <1>2, <1>3, <1>4 DEF ThreadTypes

(* A thread that moves to label l with the locals m. *)
LEMMA Moved ==
    ASSUME TypeInv, NEW t \in Threads, NEW l \in Labels, NEW m \in Locals, m.call = my[t].call,
           Goto(t, l), my' = [my EXCEPT ![t] = m], start' = start
    PROVE  /\ ThreadTypes'
           /\ pc'[t] = l /\ my'[t] = m
           /\ \A u \in Threads \ {t} : pc'[u] = pc[u] /\ my'[u] = my[u]
<1>1. pc' = [pc EXCEPT ![t] = l] /\ Scene' = Scene
  BY DEF Goto, Scene
<1>2. pc \in [Threads -> Labels] /\ my \in [Threads -> Locals]
      /\ \A u \in Threads : my[u].call \in Scene.calls[u] \union {Idle}
  BY DEF TypeInv
<1> QED BY <1>1, <1>2 DEF ThreadTypes

(* A thread that moves to label l with its locals as they are. *)
LEMMA Gone ==
    ASSUME TypeInv, NEW t \in Threads, NEW l \in Labels, Goto(t, l), my' = my, start' = start
    PROVE  /\ ThreadTypes'
           /\ pc'[t] = l /\ \A u \in Threads \ {t} : pc'[u] = pc[u]
<1>1. pc' = [pc EXCEPT ![t] = l] /\ Scene' = Scene
  BY DEF Goto, Scene
<1>2. pc \in [Threads -> Labels] /\ my \in [Threads -> Locals]
      /\ \A u \in Threads : my[u].call \in Scene.calls[u] \union {Idle}
  BY DEF TypeInv
<1> QED BY <1>1, <1>2 DEF ThreadTypes

(* The next position of a probe. *)
LEMMA NextAt ==
    ASSUME TypeInv, NEW t \in Threads
    PROVE  LET m == [my[t] EXCEPT !.at = @ + 1]
           IN  /\ m \in Locals /\ m.at = my[t].at + 1
               /\ m.call = my[t].call /\ m.p = my[t].p /\ m.q = my[t].q /\ m.d = my[t].d
               /\ m.then = my[t].then /\ m.i = my[t].i /\ m.ch = my[t].ch /\ m.cv = my[t].cv
<1>1. my[t] \in Locals /\ my[t].at + 1 \in Nat
  BY DEF TypeInv, Locals
<1> QED BY <1>1 DEF Locals

(* What LookNext and ClaimNext do. *)
LEMMA ProbeNext ==
    ASSUME TypeInv, NEW t \in Threads, LookNext(t) \/ ClaimNext(t), start' = start
    PROVE  /\ ThreadTypes'
           /\ LookNext(t) =>
                pc'[t] = IF my[t].at = Mask(my[t].p) THEN "mig_next" ELSE "look_hash"
           /\ ClaimNext(t) =>
                pc'[t] = IF my[t].at # Mask(my[t].d) THEN "claim"
                         ELSE IF my[t].then = "put" THEN "freeze" ELSE "mig_next"
           /\ my'[t].at = my[t].at + 1
           /\ my'[t].call = my[t].call /\ my'[t].p = my[t].p /\ my'[t].q = my[t].q
           /\ my'[t].d = my[t].d /\ my'[t].then = my[t].then /\ my'[t].i = my[t].i
           /\ my'[t].ch = my[t].ch /\ my'[t].cv = my[t].cv
           /\ \A u \in Threads \ {t} : pc'[u] = pc[u] /\ my'[u] = my[u]
<1> DEFINE m == [my[t] EXCEPT !.at = @ + 1]
           l == IF my[t].at = Mask(my[t].p) THEN "mig_next" ELSE "look_hash"
           k == IF my[t].at # Mask(my[t].d) THEN "claim"
                ELSE IF my[t].then = "put" THEN "freeze" ELSE "mig_next"
<1>1. /\ m \in Locals /\ m.at = my[t].at + 1
      /\ m.call = my[t].call /\ m.p = my[t].p /\ m.q = my[t].q /\ m.d = my[t].d
      /\ m.then = my[t].then /\ m.i = my[t].i /\ m.ch = my[t].ch /\ m.cv = my[t].cv
  BY NextAt
<1>2. my' = [my EXCEPT ![t] = m]
  BY DEF LookNext, ClaimNext
<1> HIDE DEF m
<1>3. LookNext(t) => Goto(t, l)
  BY DEF LookNext
<1>4. ClaimNext(t) => Goto(t, k)
  BY DEF ClaimNext
<1>5. l \in Labels /\ k \in Labels
  BY DEF Labels
<1> HIDE DEF l, k
<1>6. CASE LookNext(t)
  <2>1. /\ ThreadTypes'
        /\ pc'[t] = l /\ my'[t] = m
        /\ \A u \in Threads \ {t} : pc'[u] = pc[u] /\ my'[u] = my[u]
    BY <1>1, <1>2, <1>3, <1>5, <1>6, Moved
  <2>2. ClaimNext(t) => pc'[t] = k
    BY <1>4 DEF TypeInv, Goto
  <2> QED BY <1>1, <2>1, <2>2 DEF l, k
<1>7. CASE ClaimNext(t)
  <2>1. /\ ThreadTypes'
        /\ pc'[t] = k /\ my'[t] = m
        /\ \A u \in Threads \ {t} : pc'[u] = pc[u] /\ my'[u] = my[u]
    BY <1>1, <1>2, <1>4, <1>5, <1>7, Moved
  <2>2. LookNext(t) => pc'[t] = l
    BY <1>3 DEF TypeInv, Goto
  <2> QED BY <1>1, <2>1, <2>2 DEF l, k
<1> QED BY <1>6, <1>7

(* What CopyNext does. *)
LEMMA CopyNextFacts ==
    ASSUME TypeInv, NEW t \in Threads, CopyNext(t), start' = start
    PROVE  /\ ThreadTypes'
           /\ pc'[t] = IF my[t].i = Mask(my[t].p) THEN "swap" ELSE "copy_hash"
           /\ my'[t].i = my[t].i + 1 /\ my'[t].then = "fill"
           /\ my'[t].call = my[t].call /\ my'[t].p = my[t].p /\ my'[t].q = my[t].q
           /\ \A u \in Threads \ {t} : pc'[u] = pc[u] /\ my'[u] = my[u]
<1> DEFINE m == [my[t] EXCEPT !.i = @ + 1, !.ch = NO_HASH, !.cv = NULL, !.d = 0, !.at = 0,
                              !.then = "fill"]
           l == IF my[t].i = Mask(my[t].p) THEN "swap" ELSE "copy_hash"
<1>1. my' = [my EXCEPT ![t] = m] /\ Goto(t, l)
  BY DEF CopyNext
<1>2. my[t] \in Locals /\ my[t].i + 1 \in Nat /\ NO_HASH \in Keys /\ 0 \in Gens
  BY ConstFacts DEF TypeInv, Locals, Keys
<1>3. m \in Locals /\ m.i = my[t].i + 1 /\ m.then = "fill"
      /\ m.call = my[t].call /\ m.p = my[t].p /\ m.q = my[t].q
  BY <1>2 DEF Locals
<1> HIDE DEF m
<1>4. l \in Labels
  BY DEF Labels
<1> HIDE DEF l
<1>5. /\ ThreadTypes'
      /\ pc'[t] = l /\ my'[t] = m
      /\ \A u \in Threads \ {t} : pc'[u] = pc[u] /\ my'[u] = my[u]
  BY <1>1, <1>3, <1>4, Moved
<1> QED BY <1>3, <1>5 DEF l

(* What CopyLoop does with a slot that is not frozen. *)
LEMMA CopyLoopFacts ==
    ASSUME TypeInv, NEW t \in Threads, NEW h \in Keys, NEW v \in Values \union {NULL},
           CopyLoop(t, h, v), start' = start
    PROVE  /\ ThreadTypes'
           /\ my'[t].ch = h /\ my'[t].cv = v
           /\ my'[t].i = my[t].i
           /\ my'[t].call = my[t].call /\ my'[t].p = my[t].p /\ my'[t].q = my[t].q
           /\ v = NULL => pc'[t] = "freeze" /\ my'[t].then = my[t].then
           /\ v # NULL => /\ pc'[t] = "claim" /\ my'[t].then = "put"
                          /\ my'[t].d = my[t].q /\ my'[t].at = 0
           /\ \A u \in Threads \ {t} : pc'[u] = pc[u] /\ my'[u] = my[u]
<1>1. my[t] \in Locals /\ my[t].q \in Gens
  BY DEF TypeInv, Locals
<1>2. CASE v = NULL
  <2> DEFINE m == [my[t] EXCEPT !.ch = h, !.cv = v]
  <2>1. my' = [my EXCEPT ![t] = m] /\ Goto(t, "freeze")
    BY <1>2, ConstFacts DEF CopyLoop
  <2>2. /\ m \in Locals /\ m.ch = h /\ m.cv = v /\ m.then = my[t].then
        /\ m.call = my[t].call /\ m.p = my[t].p /\ m.q = my[t].q /\ m.i = my[t].i
    BY <1>1 DEF Locals
  <2> HIDE DEF m
  <2>3. /\ ThreadTypes'
        /\ pc'[t] = "freeze" /\ my'[t] = m
        /\ \A u \in Threads \ {t} : pc'[u] = pc[u] /\ my'[u] = my[u]
    <3>1. "freeze" \in Labels
      BY DEF Labels
    <3> QED BY <2>1, <2>2, <3>1, Moved
  <2> QED BY <1>2, <2>2, <2>3
<1>3. CASE v # NULL
  <2> DEFINE m == [my[t] EXCEPT !.ch = h, !.cv = v, !.d = my[t].q, !.at = 0, !.then = "put"]
  <2>1. my' = [my EXCEPT ![t] = m] /\ Goto(t, "claim")
    BY <1>3, ConstFacts DEF CopyLoop
  <2>2. /\ m \in Locals /\ m.ch = h /\ m.cv = v /\ m.then = "put" /\ m.d = my[t].q /\ m.at = 0
        /\ m.call = my[t].call /\ m.p = my[t].p /\ m.q = my[t].q /\ m.i = my[t].i
    BY <1>1 DEF Locals
  <2> HIDE DEF m
  <2>3. /\ ThreadTypes'
        /\ pc'[t] = "claim" /\ my'[t] = m
        /\ \A u \in Threads \ {t} : pc'[u] = pc[u] /\ my'[u] = my[u]
    <3>1. "claim" \in Labels
      BY DEF Labels
    <3> QED BY <2>1, <2>2, <3>1, Moved
  <2> QED BY <1>3, <2>2, <2>3
<1> QED BY <1>2, <1>3

-----------------------------------------------------------------------------
(* What a step does to the storages *)

(* Storages move on, hash words stay, value words move on to REDIRECT, and *)
(* what a hash was given stays.                                            *)
Forward ==
    /\ start' = start
    /\ storage <= storage' /\ storage' \in {storage, next_storage}
    /\ next_storage <= next_storage'
    /\ \A g \in Gens : \A i \in Index(g) :
         /\ hash[g][i] # NO_HASH => hash'[g][i] = hash[g][i]
         /\ value[g][i] = REDIRECT => value'[g][i] = REDIRECT
         /\ value[g][i] \in Values => value'[g][i] \in {value[g][i], REDIRECT}
    /\ \A h \in Hashes : content[h] # NULL => content'[h] = content[h]

(* A hash keeps its slot. *)
LEMMA HasStable ==
    ASSUME Forward, NEW g \in Gens, NEW h, h # NO_HASH, Has(g, h)
    PROVE  Has(g, h)'
  BY DEF Forward, Has

(* A hash that was given something has a slot in the current storage. *)
LEMMA ContentHas ==
    ASSUME IInv, NEW h \in Hashes, content[h] # NULL
    PROVE  Has(storage, h)
  BY DEF IInv, ContentInv, Maps, Has

(* So a storage that becomes an old one, or was one, has that hash. *)
LEMMA OldHas ==
    ASSUME IInv, Forward, storage' \in Nat, NEW g \in Gens, NEW h \in Hashes, content[h] # NULL,
           g < storage => Has(g, h), g < storage'
    PROVE  Has(g, h)'
<1>1. storage \in Nat /\ next_storage \in {storage, storage + 1} /\ g \in Nat /\ storage \in Gens
  BY DEF IInv, TypeInv, GenInv, Gens
<1>2. g <= storage
  BY <1>1 DEF Forward
<1>3. Has(g, h)
  BY <1>1, <1>2, ContentHas
<1> QED BY <1>3, HasStable, ConstFacts

(* What a thread relies on survives the steps of the others. *)
LEMMA ThreadStable ==
    ASSUME IInv, TypeInv', GenInv', Forward, NEW u \in Threads,
           pc'[u] = pc[u], my'[u] = my[u], rover'[u].index = rover[u].index
    PROVE  ThreadAt(u)'
<1>1. /\ storage' \in Nat /\ next_storage' \in Nat /\ storage' \in Gens /\ next_storage' \in Gens
      /\ next_storage' \in {storage', storage' + 1}
  BY DEF TypeInv, GenInv, Gens
<1>2. /\ start' = start /\ storage <= storage' /\ storage' \in {storage, next_storage}
      /\ next_storage <= next_storage'
      /\ \A g \in Gens : \A i \in Index(g) : hash[g][i] # NO_HASH => hash'[g][i] = hash[g][i]
      /\ \A g \in Gens : \A i \in Index(g) : value[g][i] = REDIRECT => value'[g][i] = REDIRECT
  BY DEF Forward
<1>3. CallAt(u)'
  <2>1. my[u].p <= storage'
    BY <1>1, <1>2, Basics
  <2>2. pc[u] = "enum_value" => hash'[my[u].p][rover[u].index - 1] # NO_HASH
    BY <1>2, Basics, Addressed DEF CallAt
  <2>3. (Claiming(u)' <=> Claiming(u)) /\ (Carrying(u)' <=> Carrying(u)) /\ Scene' = Scene
    BY <1>2 DEF Claiming, Carrying, Scene
  <2> QED BY <2>1, <2>2, <2>3, Basics DEF CallAt
<1>4. ProbeAt(u)'
  <2>1. /\ (Claiming(u)' <=> Claiming(u)) /\ (Carrying(u)' <=> Carrying(u))
        /\ Key(u)' = Key(u) /\ ClaimSlot(u)' = ClaimSlot(u)
    BY DEF Claiming, Carrying, Key, ClaimSlot
  <2>2. ASSUME pc[u] \in {"claim", "claim_cas"}, NEW k \in 0 .. my[u].at - 1
        PROVE  hash'[my[u].d][Probe(my[u].d, Key(u), k)] \notin {NO_HASH, Key(u)}
    <3>1. hash[my[u].d][Probe(my[u].d, Key(u), k)] \notin {NO_HASH, Key(u)}
      BY <2>2, Basics DEF ProbeAt
    <3>2. Key(u) \in Nat /\ k \in Nat
      <4>1. Key(u) \in Hashes
        BY <2>2, Addressed DEF Claiming
      <4>2. my[u].at \in Nat
        BY Basics
      <4>3. Hashes \subseteq Nat
        BY ConstFacts
      <4>4. Key(u) \in Nat
        BY <4>1, <4>3
      <4>5. \A n \in Nat : k \in 0 .. n - 1 => k \in Nat
        OBVIOUS
      <4>6. k \in Nat
        BY <2>2, <4>2, <4>5
      <4> QED BY <4>4, <4>6
    <3>3. Probe(my[u].d, Key(u), k) \in Index(my[u].d)
      BY <3>2, Basics, Probes
    <3> QED BY <1>2, <3>1, <3>3, Basics
  <2>3. ASSUME pc[u] \in {"claim_inc", "fill", "put"}
        PROVE  hash'[my[u].d][ClaimSlot(u)] = Key(u)
    <3>1. hash[my[u].d][ClaimSlot(u)] = Key(u) /\ Key(u) # NO_HASH /\ ClaimSlot(u) \in Index(my[u].d)
      BY <2>3, Basics, Addressed, ConstFacts DEF ProbeAt, Claiming
    <3> QED BY <1>2, <3>1, Basics
  <2> QED BY <2>1, <2>2, <2>3, Basics DEF ProbeAt
<1>5. CopyAt(u)'
  <2>1. /\ (Migrating(u)' <=> Migrating(u)) /\ (Carrying(u)' <=> Carrying(u))
    BY DEF Migrating, Carrying
  <2>2. ASSUME Migrating(u)
        PROVE  /\ my[u].p < my[u].q /\ my[u].q <= next_storage'
               /\ \A j \in 0 .. my[u].i - 1 : value'[my[u].p][j] = REDIRECT
               /\ pc[u] # "swap" => ~IsConst(my[u].p) /\ my[u].i < Size[my[u].p]
               /\ pc[u] = "swap" => IF IsConst(my[u].p) THEN my[u].i = 0 ELSE my[u].i = Size[my[u].p]
    <3>1. /\ my[u].p < my[u].q /\ my[u].q <= next_storage
          /\ \A j \in 0 .. my[u].i - 1 : value[my[u].p][j] = REDIRECT
          /\ pc[u] # "swap" => ~IsConst(my[u].p) /\ my[u].i < Size[my[u].p]
          /\ pc[u] = "swap" => IF IsConst(my[u].p) THEN my[u].i = 0 ELSE my[u].i = Size[my[u].p]
      BY <2>2, Basics DEF CopyAt
    <3>2. my[u].i <= Size[my[u].p]
      BY <3>1, Basics, Sizes
    <3>3. \A j \in 0 .. my[u].i - 1 : j \in Index(my[u].p)
      BY <3>2, Basics, Sizes
    <3>4. my[u].q <= next_storage'
      BY <1>1, <1>2, <3>1, Basics
    <3> QED BY <1>2, <3>1, <3>3, <3>4, Basics
  <2>3. ASSUME pc[u] \in {"copy_value", "freeze"} \/ Carrying(u)
        PROVE  my[u].ch = hash'[my[u].p][my[u].i] /\ my[u].ch # NO_HASH
    <3>1. my[u].ch = hash[my[u].p][my[u].i] /\ my[u].ch # NO_HASH /\ my[u].i \in Index(my[u].p)
      BY <2>3, Basics, Addressed DEF CopyAt
    <3> QED BY <1>2, <3>1, Basics
  <2>4. ASSUME pc[u] = "copy_rehash"
        PROVE  /\ hash'[my[u].p][my[u].i] # NO_HASH
               /\ my[u].cv \in Values /\ content'[hash'[my[u].p][my[u].i]] = my[u].cv
               /\ my[u].q < storage' => Has(my[u].q, hash[my[u].p][my[u].i])'
    <3> DEFINE h == hash[my[u].p][my[u].i]
    <3>1. /\ h # NO_HASH /\ my[u].cv \in Values /\ content[h] = my[u].cv
          /\ my[u].q < storage => Has(my[u].q, h)
      BY <2>4, Basics DEF CopyAt
    <3>2. my[u].i \in Index(my[u].p) /\ h \in Keys
      BY <2>4, Basics, Addressed DEF TypeInv
    <3>3. h \in Hashes /\ content[h] # NULL /\ hash'[my[u].p][my[u].i] = h
      BY <1>2, <3>1, <3>2, Basics, ConstFacts DEF Keys
    <3> HIDE DEF h
    <3>4. content'[h] = content[h]
      BY <3>3 DEF Forward
    <3>5. PICK g \in Gens : g = my[u].q
      BY Basics
    <3>6. PICK k \in Hashes : k = h
      BY <3>3
    <3>7. g < storage' => Has(g, k)'
      BY <1>1, <3>1, <3>3, <3>5, <3>6, OldHas
    <3>8. Has(g, k)' => Has(my[u].q, hash[my[u].p][my[u].i])'
      BY <3>3, <3>5, <3>6 DEF Has
    <3> QED BY <3>1, <3>3, <3>4, <3>5, <3>7, <3>8
  <2>5. ASSUME Carrying(u)
        PROVE  /\ my[u].cv \in Values /\ content'[my[u].ch] = my[u].cv
               /\ my[u].p < my[u].d /\ my[u].d <= next_storage'
               /\ my[u].d < storage' => Has(my[u].d, my[u].ch)'
    <3>1. /\ my[u].cv \in Values /\ content[my[u].ch] = my[u].cv
          /\ my[u].p < my[u].d /\ my[u].d <= next_storage
          /\ my[u].d < storage => Has(my[u].d, my[u].ch)
          /\ my[u].ch # NO_HASH
      BY <2>5, Basics DEF CopyAt
    <3>2. my[u].ch \in Hashes /\ content[my[u].ch] # NULL
      BY <3>1, Basics, ConstFacts DEF Keys
    <3>3. content'[my[u].ch] = content[my[u].ch]
      BY <3>2 DEF Forward
    <3>4. my[u].d < storage' => Has(my[u].d, my[u].ch)'
      <4>1. PICK g \in Gens : g = my[u].d
        BY Basics
      <4>2. PICK k \in Hashes : k = my[u].ch
        BY <3>2
      <4>3. g < storage' => Has(g, k)'
        BY <1>1, <3>1, <3>2, <4>1, <4>2, OldHas
      <4>4. Has(g, k)' => Has(my[u].d, my[u].ch)'
        BY <4>1, <4>2 DEF Has
      <4> QED BY <4>1, <4>3, <4>4
    <3>5. my[u].d <= next_storage'
      BY <1>1, <1>2, <3>1, Basics
    <3> QED BY <3>1, <3>3, <3>4, <3>5
  <2>6. ASSUME pc[u] = "freeze", Carrying(u), my[u].p = storage'
        PROVE  Maps(next_storage, my[u].ch, my[u].cv)'
    <3>1. Migrating(u) /\ my[u].p < my[u].q /\ my[u].q <= next_storage
      BY <2>6, Basics DEF Migrating, CopyAt
    <3>2. my[u].p = storage /\ next_storage' = next_storage
      <4>1. my[u].p = storage
        BY <1>1, <1>2, <2>6, Basics
      <4>2. next_storage = storage + 1
        BY <3>1, <4>1, Basics
      <4> QED BY <1>1, <1>2, <2>6, <4>1, <4>2, Basics
    <3>3. Maps(next_storage, my[u].ch, my[u].cv) /\ my[u].cv \in Values /\ my[u].ch # NO_HASH
      BY <2>6, <3>2, Basics DEF CopyAt
    <3>4. PICK j \in Index(next_storage) :
            hash[next_storage][j] = my[u].ch /\ value[next_storage][j] = my[u].cv
      BY <3>3 DEF Maps
    <3>5. hash'[next_storage][j] = my[u].ch
      BY <1>2, <3>3, <3>4, Basics
    <3>6. value'[next_storage][j] \in {my[u].cv, REDIRECT}
      BY <3>3, <3>4, Basics DEF Forward
    <3>7. value'[next_storage][j] # REDIRECT
      <4>1. next_storage \in next_storage' .. MaxGen
        BY <3>2, Basics, ConstFacts DEF Gens
      <4> QED BY <4>1 DEF GenInv
    <3> QED BY <3>2, <3>4, <3>5, <3>6, <3>7 DEF Maps
  <2>7. pc[u] = "freeze" /\ ~Carrying(u) => my[u].cv = NULL
    BY Basics DEF CopyAt
  <2> QED BY <2>1, <2>2, <2>3, <2>4, <2>5, <2>6, <2>7 DEF CopyAt, IsConst, Has
<1> QED BY <1>3, <1>4, <1>5 DEF ThreadAt

-----------------------------------------------------------------------------
(* The parts of a step that are the same for many actions *)

storages == <<storage, next_storage, hash, value, n_hashs, freed, content, start>>

Others(t) ==
    \A u \in Threads \ {t} : pc'[u] = pc[u] /\ my'[u] = my[u] /\ rover'[u] = rover[u]

(* A migration stays in a thread's hands. *)
LEMMA MigratorStable ==
    ASSUME IInv, NEW t \in Threads, UNCHANGED <<storage, next_storage>>, Others(t),
           Migrating(t) /\ my[t].p = storage => Migrating(t)' /\ my'[t].p = my[t].p
    PROVE  MigratorInv'
<1>1. SUFFICES ASSUME next_storage # storage
               PROVE  \E u \in Threads : Migrating(u)' /\ my'[u].p = storage
  BY DEF MigratorInv
<1>2. PICK u \in Threads : Migrating(u) /\ my[u].p = storage
  BY <1>1 DEF IInv, MigratorInv
<1>3. CASE u = t
  BY <1>2, <1>3
<1>4. CASE u # t
  BY <1>2, <1>4 DEF Migrating, Carrying, Others
<1> QED BY <1>3, <1>4

(* The other threads' part of a step that changes the storages. *)
LEMMA SharedStep ==
    ASSUME IInv, TypeInv', SlotInv', GenInv', ContentInv', MigratorInv', Forward,
           NEW t \in Threads, Others(t), ThreadAt(t)'
    PROVE  IInv' /\ Forward
<1>1. ASSUME NEW u \in Threads PROVE ThreadAt(u)'
  BY ThreadStable DEF Others
<1> QED BY <1>1 DEF IInv

(* A step that leaves the storages alone. *)
LEMMA StillForward ==
    ASSUME IInv, UNCHANGED storages
    PROVE  SlotInv' /\ GenInv' /\ ContentInv' /\ Forward
<1>1. storage \in Nat /\ next_storage \in Nat
  BY DEF IInv, TypeInv, Gens
<1>2. Forward
  BY <1>1 DEF storages, Forward
<1> QED BY <1>2 DEF storages, IInv, SlotInv, GenInv, ContentInv, Maps, Has

LEMMA StillTyped ==
    ASSUME IInv, UNCHANGED storages, ThreadTypes', CallTypes'
    PROVE  TypeInv'
  BY DEF storages, IInv, TypeInv, ThreadTypes, CallTypes, Answers

(* A step of one thread that leaves the storages alone. *)
LEMMA LocalStep ==
    ASSUME IInv, NEW t \in Threads, UNCHANGED storages, ThreadTypes', CallTypes', Others(t),
           ThreadAt(t)',
           Migrating(t) /\ my[t].p = storage => Migrating(t)' /\ my'[t].p = my[t].p
    PROVE  IInv' /\ Forward
<1>1. UNCHANGED <<storage, next_storage>>
  BY DEF storages
<1> QED BY <1>1, StillForward, StillTyped, MigratorStable, SharedStep

(* The calls are as before. *)
LEMMA SameCalls ==
    ASSUME IInv, UNCHANGED <<rover, answer, calls, patches, start>>
    PROVE  CallTypes'
  BY DEF IInv, TypeInv, CallTypes, Answers, Scene

QuietLabels ==
    {"idle", "load", "check", "look_hash", "look_value", "mig_next", "mig_alloc",
     "enum_hash", "enum_value"}

(* A thread outside claim and copy relies on nothing about them. *)
LEMMA Quiet ==
    ASSUME NEW t \in Threads, pc'[t] \in QuietLabels, my'[t].then # "put", CallAt(t)'
    PROVE  ThreadAt(t)'
<1>1. ~Carrying(t)' /\ ~Claiming(t)' /\ ~Migrating(t)'
  BY DEF Carrying, Claiming, Migrating, QuietLabels
<1>2. ProbeAt(t)' /\ CopyAt(t)'
  BY <1>1 DEF ProbeAt, CopyAt, QuietLabels
<1> QED BY <1>2 DEF ThreadAt

(* It carries and copies nothing. *)
LEMMA QuietNow ==
    ASSUME IInv, NEW t \in Threads, pc[t] \in QuietLabels
    PROVE  ~Carrying(t) /\ ~Claiming(t) /\ ~Migrating(t) /\ my[t].then # "put"
<1>1. ~Claiming(t) /\ ~Carrying(t)
  BY Basics DEF ProbeAt, Claiming, QuietLabels
<1> QED BY <1>1 DEF Carrying, Migrating, QuietLabels

(* A call that returns leaves nothing behind. *)
LEMMA ReturnStep ==
    ASSUME IInv, NEW t \in Threads, NEW a \in Answers, Return(t, a), UNCHANGED storages,
           rover' \in [Threads -> Rovers], \A u \in Threads \ {t} : rover'[u] = rover[u],
           UNCHANGED <<calls, patches>>, pc[t] \in QuietLabels \union {"fill"}
    PROVE  IInv' /\ Forward
<1>1. start' = start /\ Scene' = Scene /\ UNCHANGED <<storage>>
  BY DEF storages, Scene
<1>2. /\ ThreadTypes' /\ answer' \in [Threads -> Answers]
      /\ pc'[t] = "idle" /\ my'[t] = NoLocals
      /\ \A u \in Threads \ {t} : pc'[u] = pc[u] /\ my'[u] = my[u]
  BY <1>1, Basics, ReturnTypes
<1>3. CallTypes'
  BY <1>1, <1>2 DEF IInv, TypeInv, CallTypes
<1>4. NoLocals.p = 0 /\ NoLocals.then = "fill"
  BY DEF NoLocals
<1>5. CallAt(t)'
  <2>1. ~Claiming(t)'
    BY <1>2 DEF Claiming
  <2> QED BY <1>1, <1>2, <1>4, <2>1, Basics DEF CallAt
<1>6. ThreadAt(t)'
  BY <1>2, <1>4, <1>5, Quiet DEF QuietLabels
<1>7. ~Migrating(t)
  <2>1. CASE pc[t] \in QuietLabels
    BY <2>1, QuietNow
  <2>2. CASE pc[t] = "fill"
    BY <2>2, Basics DEF Migrating, ProbeAt, Claiming
  <2> QED BY <2>1, <2>2
<1> QED BY <1>2, <1>3, <1>6, <1>7, LocalStep DEF Others

(* A thread that moves on with its locals as they are, outside claim and   *)
(* copy.                                                                   *)
LEMMA GotoStep ==
    ASSUME IInv, NEW t \in Threads, NEW l \in QuietLabels \ {"idle", "enum_value"}, Goto(t, l),
           UNCHANGED storages, UNCHANGED <<my, rover, answer, calls, patches>>,
           pc[t] \in (QuietLabels \ {"idle"}) \union {"fill"},
           l \in {"look_hash", "look_value"} => my[t].call.op = "lookup",
           l = "enum_hash" => my[t].call.op = "next",
           l \notin {"check", "mig_alloc"}
    PROVE  IInv' /\ Forward
<1>1. start' = start /\ Scene' = Scene /\ UNCHANGED <<storage>> /\ l \in Labels
  BY DEF storages, Scene, Labels, QuietLabels
<1>2. ThreadTypes' /\ pc'[t] = l /\ \A u \in Threads \ {t} : pc'[u] = pc[u]
  BY <1>1, Basics, Gone
<1>3. ~Migrating(t) /\ my[t].then # "put"
  <2>1. CASE pc[t] \in QuietLabels
    BY <2>1, QuietNow
  <2>2. CASE pc[t] = "fill"
    BY <2>2, Basics DEF Migrating, ProbeAt, Claiming, Carrying
  <2> QED BY <2>1, <2>2
<1>4. CallAt(t)'
  <2>1. ~Claiming(t)' /\ pc[t] # "idle"
    BY <1>2 DEF Claiming, QuietLabels
  <2> QED BY <1>1, <1>2, <2>1, Basics DEF CallAt, QuietLabels
<1>5. ThreadAt(t)'
  BY <1>2, <1>3, <1>4, Quiet
<1> QED BY <1>1, <1>2, <1>3, <1>5, SameCalls, LocalStep DEF Others

-----------------------------------------------------------------------------
(* Calls, lookups and enumerators *)

LEMMA CallStep ==
    ASSUME IInv, NEW t \in Threads, NEW c \in Scene.calls[t], Call(t, c)
    PROVE  IInv' /\ Forward
<1> DEFINE b == IF c.op = "next" THEN NULL ELSE content[c.hash]
           m == [NoLocals EXCEPT !.call = c, !.before = b]
<1>1. /\ my' = [my EXCEPT ![t] = m] /\ Goto(t, "load") /\ pc[t] = "idle"
      /\ answer' = [answer EXCEPT ![t] = Idle]
      /\ calls' = calls + 1 /\ calls < Scene.max_calls
      /\ UNCHANGED storages /\ UNCHANGED <<rover, patches>>
  BY DEF Call, storages, world, slots
<1>2. /\ start' = start /\ Scene' = Scene /\ UNCHANGED <<storage>>
      /\ c \in AllCalls /\ b \in Values \union {NULL}
  BY <1>1, Basics, CallFacts DEF storages, Scene, TypeInv
<1> HIDE DEF b
<1>3. m \in Locals /\ m.call = c /\ m.p = 0 /\ m.then = "fill"
  BY <1>2, ConstFacts DEF NoLocals, Locals, Keys
<1> HIDE DEF m
<1>4. /\ ThreadTypes' /\ pc'[t] = "load" /\ my'[t] = m
      /\ \A u \in Threads \ {t} : pc'[u] = pc[u] /\ my'[u] = my[u]
  <2>1. /\ pc' = [pc EXCEPT ![t] = "load"]
        /\ pc \in [Threads -> Labels] /\ my \in [Threads -> Locals]
        /\ \A u \in Threads : my[u].call \in Scene.calls[u] \union {Idle}
    BY <1>1 DEF Goto, IInv, TypeInv
  <2> QED BY <1>1, <1>2, <1>3, <2>1 DEF ThreadTypes, Labels
<1>5. CallTypes'
  <2>1. answer' \in [Threads -> Answers] /\ rover' \in [Threads -> Rovers] /\ patches' \in 0 .. Scene'.max_patches
    BY <1>1, <1>2 DEF IInv, TypeInv, Answers
  <2>2. calls \in 0 .. Scene.max_calls /\ Scene.max_calls \in Nat
    <3>1. Scene \in {Starts[k] : k \in DOMAIN Starts}
      BY Basics DEF Scene
    <3>2. Scene.max_calls \in Nat
      BY <3>1, HashmapAssumption
    <3> QED BY <3>2 DEF IInv, TypeInv
  <2>3. calls' \in 0 .. Scene'.max_calls
    BY <1>1, <1>2, <2>2
  <2> QED BY <2>1, <2>3 DEF CallTypes
<1>6. CallAt(t)'
  <2>1. ~Claiming(t)'
    BY <1>4 DEF Claiming
  <2> QED BY <1>2, <1>3, <1>4, <2>1, Basics DEF CallAt
<1>7. ThreadAt(t)' /\ ~Migrating(t)
  BY <1>1, <1>3, <1>4, <1>6, Quiet, QuietNow DEF QuietLabels
<1> QED BY <1>1, <1>4, <1>5, <1>7, LocalStep DEF Others

LEMMA EnumerateStep ==
    ASSUME IInv, NEW t \in Threads, Enumerate(t)
    PROVE  IInv' /\ Forward
<1> DEFINE s == {h \in Hashes : content[h] # NULL}
<1>1. PICK z : z = TRUE /\ rover' = [rover EXCEPT ![t] = [NoRover EXCEPT !.on = z, !.start = s]]
  BY DEF Enumerate
<1>2. /\ pc[t] = "idle" /\ UNCHANGED storages /\ UNCHANGED <<pc, my, answer, calls, patches>>
      /\ start' = start /\ Scene' = Scene /\ UNCHANGED <<storage>>
  BY DEF Enumerate, storages, world, slots, rest, Scene
<1>3. s \in SUBSET Hashes
  OBVIOUS
<1> HIDE DEF s
<1>4. [NoRover EXCEPT !.on = z, !.start = s] \in Rovers
  <2>1. NoRover \in Rovers
    BY DEF NoRover, Rovers
  <2>2. z \in BOOLEAN
    BY <1>1
  <2> HIDE DEF NoRover
  <2> QED BY <1>3, <2>1, <2>2 DEF Rovers
<1>5. ThreadTypes' /\ CallTypes'
  BY <1>1, <1>2, <1>4 DEF IInv, TypeInv, ThreadTypes, CallTypes, Answers
<1>6. Others(t)
  BY <1>1, <1>2 DEF Others, IInv, TypeInv
<1>7. ~Claiming(t)' /\ ~Migrating(t) /\ my[t].then # "put"
  BY <1>2, QuietNow DEF Claiming, QuietLabels
<1>8. CallAt(t)'
  BY <1>2, <1>7, Basics DEF CallAt
<1>9. ThreadAt(t)'
  BY <1>2, <1>7, <1>8, Quiet DEF QuietLabels
<1> QED BY <1>2, <1>5, <1>6, <1>7, <1>9, LocalStep

(* An enumerator that comes to its end. *)
LEMMA RoverDone ==
    ASSUME IInv, NEW t \in Threads,
           rover' = [rover EXCEPT ![t].on = FALSE, ![t].index = 0, ![t].mask = 0]
    PROVE  rover' \in [Threads -> Rovers] /\ \A u \in Threads \ {t} : rover'[u] = rover[u]
<1>1. PICK z : z = FALSE /\ rover' = [rover EXCEPT ![t].on = z, ![t].index = 0, ![t].mask = 0]
  OBVIOUS
<1> DEFINE r == [rover[t] EXCEPT !.on = z, !.index = 0, !.mask = 0]
<1>2. rover \in [Threads -> Rovers] /\ rover[t] \in Rovers
  BY DEF IInv, TypeInv
<1>3. rover' = [rover EXCEPT ![t] = r]
  BY <1>1, <1>2 DEF Rovers
<1>4. r \in Rovers
  BY <1>1, <1>2 DEF Rovers
<1> HIDE DEF r
<1> QED BY <1>2, <1>3, <1>4

LEMMA LoadStep ==
    ASSUME IInv, NEW t \in Threads, Load(t)
    PROVE  IInv' /\ Forward
<1>1. /\ pc[t] = "load" /\ UNCHANGED storages /\ UNCHANGED <<calls, patches, start, storage>>
      /\ Scene' = Scene
  BY DEF Load, storages, world, slots, rest, Scene
<1>2. CASE /\ Return(t, "ECANCELED")
           /\ rover' = [rover EXCEPT ![t].on = FALSE, ![t].index = 0, ![t].mask = 0]
  BY <1>1, <1>2, RoverDone, ReturnStep DEF QuietLabels, Answers
<1>3. CASE /\ my' = [my EXCEPT ![t].p = storage, ![t].d = storage, ![t].at = 0, ![t].then = "fill"]
           /\ Goto(t, CASE my[t].call.op = "lookup" -> "look_hash"
                       [] my[t].call.op = "next" -> "enum_hash"
                       [] OTHER -> "check")
           /\ UNCHANGED <<rover, answer>>
  <2> DEFINE m == [my[t] EXCEPT !.p = storage, !.d = storage, !.at = 0, !.then = "fill"]
  <2>1. my[t] \in Locals /\ my \in [Threads -> Locals]
    BY DEF IInv, TypeInv
  <2>2. my' = [my EXCEPT ![t] = m]
    BY <1>3, <2>1 DEF Locals
  <2>3. m \in Locals /\ m.call = my[t].call /\ m.p = storage /\ m.d = storage /\ m.at = 0 /\ m.then = "fill"
    BY <2>1, Basics DEF Locals
  <2> HIDE DEF m
  <2>4. my[t].call \in Scene.calls[t]
    BY <1>1, Basics DEF CallAt
  <2>5. PICK l \in {"look_hash", "enum_hash", "check"} :
          /\ Goto(t, l) /\ (l = "look_hash" => my[t].call.op = "lookup")
          /\ (l = "enum_hash" => my[t].call.op = "next")
          /\ (l = "check" => my[t].call.op \in {"insert", "register"})
    <3>1. my[t].call.op \in {"insert", "register", "lookup", "next"}
      BY <2>4, Basics, CallFacts
    <3> QED BY <1>3, <3>1
  <2>6. l \in Labels
    BY DEF Labels
  <2>7. /\ ThreadTypes' /\ pc'[t] = l /\ my'[t] = m
        /\ \A u \in Threads \ {t} : pc'[u] = pc[u] /\ my'[u] = my[u]
    BY <1>1, <2>2, <2>3, <2>5, <2>6, Basics, Moved
  <2>8. CallAt(t)'
    <3>1. ~Claiming(t)'
      BY <2>7 DEF Claiming
    <3> QED BY <1>1, <2>3, <2>4, <2>5, <2>7, <3>1, Basics DEF CallAt
  <2>9. ThreadAt(t)' /\ ~Migrating(t)
    BY <1>1, <2>3, <2>7, <2>8, Quiet, QuietNow DEF QuietLabels
  <2> QED BY <1>1, <1>3, <2>7, <2>9, SameCalls, LocalStep DEF Others
<1> QED BY <1>2, <1>3 DEF Load

LEMMA CheckStep ==
    ASSUME IInv, NEW t \in Threads, Check(t)
    PROVE  IInv' /\ Forward
<1>1. /\ pc[t] = "check" /\ UNCHANGED storages /\ UNCHANGED <<my, rover, answer, calls, patches, start>>
      /\ Scene' = Scene /\ UNCHANGED <<storage, hash>>
  BY DEF Check, storages, world, slots, rest, Scene
<1>2. CASE Goto(t, "mig_next")
  BY <1>1, <1>2, GotoStep DEF QuietLabels
<1>3. CASE n_hashs[my[t].p] # -1 /\ Goto(t, "claim")
  <2>1. ~IsConst(my[t].p)
    BY <1>3, Basics DEF GenInv, IsConst
  <2>2. /\ my[t].at = 0 /\ my[t].d = my[t].p /\ my[t].call.op \in {"insert", "register"}
        /\ my[t].call \in Scene.calls[t] /\ my[t].p <= storage
    BY <1>1, Basics DEF CallAt
  <2>3. ThreadTypes' /\ pc'[t] = "claim" /\ \A u \in Threads \ {t} : pc'[u] = pc[u]
    BY <1>1, <1>3, Basics, Gone DEF Labels
  <2>4. ~Migrating(t) /\ ~Carrying(t)
    BY <1>1, QuietNow DEF QuietLabels
  <2>5. ~Migrating(t)' /\ ~Carrying(t)' /\ Claiming(t)'
    BY <1>1, <2>3, <2>4 DEF Migrating, Carrying, Claiming
  <2>6. CallAt(t)'
    BY <1>1, <2>2, <2>3 DEF CallAt
  <2>7. ProbeAt(t)'
    <3>1. my[t].at < Size[my[t].d]
      BY <2>2, Basics, Sizes
    <3> QED BY <1>1, <2>1, <2>2, <2>3, <2>5, <3>1 DEF ProbeAt
  <2>8. CopyAt(t)'
    BY <2>3, <2>5 DEF CopyAt
  <2> QED BY <1>1, <2>3, <2>4, <2>6, <2>7, <2>8, SameCalls, LocalStep DEF Others, ThreadAt
<1> QED BY <1>2, <1>3 DEF Check

LEMMA LookHashStep ==
    ASSUME IInv, NEW t \in Threads, LookHash(t)
    PROVE  IInv' /\ Forward
<1>1. /\ pc[t] = "look_hash" /\ UNCHANGED storages /\ UNCHANGED <<rover, calls, patches, start, storage>>
      /\ Scene' = Scene
  BY DEF LookHash, storages, world, slots, rest, Scene
<1>2. my[t].call.op = "lookup" /\ my[t].call \in Scene.calls[t]
  BY <1>1, Basics DEF CallAt
<1>3. CASE Return(t, NULL)
  <2>1. rover' \in [Threads -> Rovers]
    BY <1>1 DEF IInv, TypeInv
  <2> QED BY <1>1, <1>3, <2>1, ReturnStep DEF QuietLabels, Answers
<1>4. CASE Goto(t, "look_value") /\ UNCHANGED <<my, answer>>
  BY <1>1, <1>2, <1>4, GotoStep DEF QuietLabels
<1>5. CASE LookNext(t)
  <2>1. /\ ThreadTypes'
        /\ pc'[t] \in {"mig_next", "look_hash"}
        /\ my'[t].call = my[t].call /\ my'[t].p = my[t].p /\ my'[t].then = my[t].then
        /\ \A u \in Threads \ {t} : pc'[u] = pc[u] /\ my'[u] = my[u]
    BY <1>1, <1>5, Basics, ProbeNext
  <2>2. UNCHANGED answer
    BY <1>5 DEF LookNext
  <2>3. CallAt(t)'
    <3>1. ~Claiming(t)'
      BY <2>1 DEF Claiming
    <3> QED BY <1>1, <1>2, <2>1, <3>1, Basics DEF CallAt
  <2>4. ThreadAt(t)' /\ ~Migrating(t)
    BY <1>1, <2>1, <2>3, Quiet, QuietNow DEF QuietLabels
  <2> QED BY <1>1, <2>1, <2>2, <2>4, SameCalls, LocalStep DEF Others
<1> QED BY <1>3, <1>4, <1>5 DEF LookHash

LEMMA LookValueStep ==
    ASSUME IInv, NEW t \in Threads, LookValue(t)
    PROVE  IInv' /\ Forward
<1> DEFINE v == value[my[t].p][Probe(my[t].p, my[t].call.hash, my[t].at)]
<1>1. /\ pc[t] = "look_value" /\ UNCHANGED storages /\ UNCHANGED <<rover, calls, patches, start, storage>>
      /\ Scene' = Scene
  BY DEF LookValue, storages, world, slots, rest, Scene
<1>2. CASE v # REDIRECT /\ Return(t, v)
  <2>1. rover' \in [Threads -> Rovers]
    BY <1>1 DEF IInv, TypeInv
  <2>2. v \in Words
    BY <1>1, Basics, Addressed DEF TypeInv
  <2>3. v \in Answers
    BY <1>2, <2>2 DEF Words, Answers
  <2> QED BY <1>1, <1>2, <2>1, <2>3, ReturnStep DEF QuietLabels
<1>3. CASE Goto(t, "mig_next") /\ UNCHANGED <<my, answer>>
  BY <1>1, <1>3, GotoStep DEF QuietLabels
<1> QED BY <1>2, <1>3 DEF LookValue

LEMMA EnumHashStep ==
    ASSUME IInv, NEW t \in Threads, EnumHash(t)
    PROVE  IInv' /\ Forward
<1> DEFINE i == rover[t].index + my[t].at
<1>1. /\ pc[t] = "enum_hash" /\ UNCHANGED storages /\ UNCHANGED <<calls, patches, start, storage, hash>>
      /\ Scene' = Scene
  BY DEF EnumHash, storages, world, slots, rest, Scene
<1>2. my[t].call.op = "next" /\ my[t].call \in Scene.calls[t] /\ ~Migrating(t) /\ my[t].then # "put"
  BY <1>1, Basics, QuietNow DEF CallAt, QuietLabels
<1>3. CASE /\ Return(t, "end")
           /\ rover' = [rover EXCEPT ![t].on = FALSE, ![t].index = 0, ![t].mask = 0]
  BY <1>1, <1>3, RoverDone, ReturnStep DEF QuietLabels, Answers
<1>4. CASE /\ my' = [my EXCEPT ![t].at = @ + 1]
           /\ UNCHANGED <<pc, rover, answer>>
  <2> DEFINE m == [my[t] EXCEPT !.at = @ + 1]
  <2>1. m \in Locals /\ m.call = my[t].call /\ m.p = my[t].p /\ m.then = my[t].then
    BY Basics, NextAt
  <2>2. my' = [my EXCEPT ![t] = m]
    BY <1>4
  <2> HIDE DEF m
  <2>3. ThreadTypes' /\ my'[t] = m /\ \A u \in Threads \ {t} : my'[u] = my[u]
    BY <1>1, <1>4, <2>1, <2>2 DEF IInv, TypeInv, ThreadTypes
  <2>4. CallAt(t)'
    <3>1. ~Claiming(t)'
      BY <1>1, <1>4 DEF Claiming
    <3> QED BY <1>1, <1>2, <1>4, <2>1, <2>3, <3>1, Basics DEF CallAt
  <2>5. ThreadAt(t)'
    BY <1>1, <1>2, <1>4, <2>1, <2>3, <2>4, Quiet DEF QuietLabels
  <2> QED BY <1>1, <1>2, <1>4, <2>3, <2>5, SameCalls, LocalStep DEF Others
<1>5. CASE /\ i \in Index(my[t].p) /\ hash[my[t].p][i] # NO_HASH
           /\ rover' = [rover EXCEPT ![t].index = i + 1]
           /\ my' = [my EXCEPT ![t].at = 0]
           /\ Goto(t, "enum_value") /\ UNCHANGED answer
  <2> DEFINE m == [my[t] EXCEPT !.at = 0]
             r == [rover[t] EXCEPT !.index = i + 1]
  <2>1. my[t] \in Locals /\ rover \in [Threads -> Rovers] /\ i + 1 \in Nat
    BY Basics DEF TypeInv
  <2>2. m \in Locals /\ m.call = my[t].call /\ m.p = my[t].p /\ m.then = my[t].then
    BY <2>1 DEF Locals
  <2>3. r \in Rovers /\ r.index = i + 1
    BY <2>1 DEF Rovers
  <2>4. my' = [my EXCEPT ![t] = m] /\ rover' = [rover EXCEPT ![t] = r]
    BY <1>5
  <2> HIDE DEF m, r
  <2>5. /\ ThreadTypes' /\ pc'[t] = "enum_value" /\ my'[t] = m
        /\ \A u \in Threads \ {t} : pc'[u] = pc[u] /\ my'[u] = my[u]
    BY <1>1, <1>5, <2>2, <2>4, Basics, Moved DEF Labels
  <2>6. /\ rover' \in [Threads -> Rovers] /\ rover'[t] = r
        /\ \A u \in Threads \ {t} : rover'[u] = rover[u]
    BY <2>1, <2>3, <2>4
  <2>7. CallTypes'
    BY <1>1, <1>5, <2>6 DEF IInv, TypeInv, CallTypes, Answers
  <2>8. CallAt(t)'
    <3>1. ~Claiming(t)'
      BY <2>5 DEF Claiming
    <3>2. i < Size[my[t].p] /\ i \in Nat /\ Size[my[t].p] \in Nat
      BY <1>5, Basics, Sizes
    <3>3. (i + 1) - 1 = i /\ i + 1 >= 1 /\ i + 1 <= Size[my[t].p]
      BY <3>2
    <3> HIDE DEF i
    <3> QED BY <1>1, <1>2, <1>5, <2>2, <2>3, <2>5, <2>6, <3>1, <3>3, Basics DEF CallAt
  <2>9. ThreadAt(t)'
    BY <1>2, <2>2, <2>5, <2>8, Quiet DEF QuietLabels
  <2> QED BY <1>1, <1>2, <2>5, <2>6, <2>7, <2>9, LocalStep DEF Others
<1> QED BY <1>3, <1>4, <1>5 DEF EnumHash

LEMMA EnumValueStep ==
    ASSUME IInv, NEW t \in Threads, EnumValue(t)
    PROVE  IInv' /\ Forward
<1> DEFINE i == rover[t].index - 1
           v == value[my[t].p][i]
           h == hash[my[t].p][i]
<1>1. /\ pc[t] = "enum_value" /\ UNCHANGED storages /\ UNCHANGED <<calls, patches, start>>
  BY DEF EnumValue, storages, world, slots, rest
<1>2. my[t].call.op = "next" /\ h # NO_HASH /\ i \in Index(my[t].p)
  BY <1>1, Basics, Addressed DEF CallAt
<1>3. CASE v = REDIRECT /\ Goto(t, "mig_next") /\ UNCHANGED <<my, rover, answer>>
  BY <1>1, <1>3, GotoStep DEF QuietLabels
<1>4. CASE v = NULL /\ Goto(t, "enum_hash") /\ UNCHANGED <<my, rover, answer>>
  BY <1>1, <1>2, <1>4, GotoStep DEF QuietLabels
<1>5. CASE /\ v \in Values
           /\ rover' = [rover EXCEPT ![t].got = @ \union {h},
                           ![t].mask = IF @ = 0 THEN Mask(my[t].p) ELSE @]
           /\ Return(t, v)
  <2>1. rover \in [Threads -> Rovers] /\ rover[t] \in Rovers
    BY DEF IInv, TypeInv
  <2>2. h \in Hashes
    BY <1>2, Basics DEF TypeInv, Keys
  <2>3. Mask(my[t].p) \in Nat
    BY Basics, Sizes DEF Mask
  <2> DEFINE r == [rover[t] EXCEPT !.got = @ \union {h},
                                   !.mask = IF @ = 0 THEN Mask(my[t].p) ELSE @]
  <2> HIDE DEF h, v
  <2>4. rover' = [rover EXCEPT ![t] = r]
    BY <1>5, <2>1 DEF Rovers
  <2>5. r \in Rovers
    <3>1. (IF rover[t].mask = 0 THEN Mask(my[t].p) ELSE rover[t].mask) \in Nat
      BY <2>1, <2>3 DEF Rovers
    <3>2. rover[t].got \union {h} \in SUBSET Hashes
      BY <2>1, <2>2 DEF Rovers
    <3> QED BY <2>1, <3>1, <3>2 DEF Rovers
  <2> HIDE DEF r
  <2>6. rover' \in [Threads -> Rovers] /\ \A u \in Threads \ {t} : rover'[u] = rover[u]
    BY <2>1, <2>4, <2>5
  <2>7. v \in Answers
    BY <1>5 DEF Answers
  <2> QED BY <1>1, <1>5, <2>6, <2>7, ReturnStep DEF QuietLabels
<1> QED BY <1>3, <1>4, <1>5 DEF EnumValue

-----------------------------------------------------------------------------
(* A copier *)

CopyLabels == {"copy_hash", "copy_virgin", "copy_rehash", "copy_value", "freeze"}

(* What is known of a copier at a slot. *)
LEMMA CopierFacts ==
    ASSUME IInv, NEW t \in Threads, pc[t] \in CopyLabels
    PROVE  /\ Migrating(t) /\ my[t].i \in Index(my[t].p) /\ ~IsConst(my[t].p)
           /\ my[t].p < my[t].q /\ my[t].q <= next_storage
           /\ \A j \in 0 .. my[t].i - 1 : j \in Index(my[t].p) /\ value[my[t].p][j] = REDIRECT
           /\ pc[t] # "freeze" => ~Carrying(t)
           /\ my[t].call \in Scene.calls[t]
           /\ hash[my[t].p][my[t].i] \in Keys /\ value[my[t].p][my[t].i] \in Words
<1>1. Migrating(t)
  BY DEF Migrating, CopyLabels
<1>2. my[t].i \in Index(my[t].p)
  BY Addressed DEF CopyLabels
<1>3. /\ my[t].p < my[t].q /\ my[t].q <= next_storage /\ ~IsConst(my[t].p)
      /\ \A j \in 0 .. my[t].i - 1 : value[my[t].p][j] = REDIRECT
  BY <1>1, Basics DEF CopyAt, CopyLabels
<1>4. \A j \in 0 .. my[t].i - 1 : j \in Index(my[t].p)
  BY <1>2, Basics, Sizes
<1>5. pc[t] # "freeze" => ~Carrying(t)
  BY Basics DEF ProbeAt, Claiming, CopyLabels
<1>6. my[t].call \in Scene.calls[t]
  BY Basics DEF CallAt, CopyLabels
<1>7. hash[my[t].p][my[t].i] \in Keys /\ value[my[t].p][my[t].i] \in Words
  BY <1>2, Basics DEF TypeInv
<1> QED BY <1>1, <1>2, <1>3, <1>4, <1>5, <1>6, <1>7

(* A slot that a copier finds not frozen is one of the current storage, and *)
(* it has what its hash was given.                                          *)
LEMMA SourceFacts ==
    ASSUME IInv, NEW t \in Threads, pc[t] \in CopyLabels,
           value[my[t].p][my[t].i] # REDIRECT
    PROVE  /\ my[t].p = storage /\ my[t].q = next_storage /\ next_storage = storage + 1
           /\ value[my[t].p][my[t].i] \in Values =>
                /\ hash[my[t].p][my[t].i] \in Hashes
                /\ content[hash[my[t].p][my[t].i]] = value[my[t].p][my[t].i]
           /\ value[my[t].p][my[t].i] = NULL /\ hash[my[t].p][my[t].i] # NO_HASH =>
                content[hash[my[t].p][my[t].i]] = NULL
<1> DEFINE p == my[t].p
           i == my[t].i
           h == hash[p][i]
<1>1. /\ i \in Index(p) /\ ~IsConst(p) /\ p < my[t].q /\ my[t].q <= next_storage /\ h \in Keys
  BY CopierFacts
<1>2. p = storage
  <2>1. SUFFICES ASSUME p # storage PROVE FALSE
    OBVIOUS
  <2>2. p \in 0 .. storage - 1
    BY <2>1, Basics
  <2> QED BY <1>1, <2>2, Basics DEF GenInv
<1>3. my[t].q = next_storage /\ next_storage = storage + 1
  BY <1>1, <1>2, Basics
<1>4. storage \in storage .. next_storage
  BY <1>3, Basics
<1>5. ASSUME value[p][i] \in Values PROVE h \in Hashes /\ content[h] = value[p][i]
  BY <1>1, <1>2, <1>4, <1>5, Basics DEF ContentInv, SlotInv, Keys
<1>6. ASSUME value[p][i] = NULL, h # NO_HASH, content[h] # NULL PROVE FALSE
  <2>1. h \in Hashes
    BY <1>1, <1>6 DEF Keys
  <2>2. PICK v \in Words \ {NULL} : Maps(storage, h, v)
    <3>1. content[h] \in Words
      BY <2>1, Basics DEF TypeInv, Words
    <3> QED BY <1>6, <2>1, <3>1, Basics, ConstFacts DEF ContentInv, Words
  <2>3. PICK j \in Index(storage) : hash[storage][j] = h /\ value[storage][j] = v
    BY <2>2 DEF Maps
  <2>4. j = i
    BY <1>1, <1>2, <1>6, <2>3, Basics DEF SlotInv
  <2> QED BY <1>2, <1>6, <2>2, <2>3, <2>4
<1> QED BY <1>2, <1>3, <1>5, <1>6

(* copy goes on to the next slot, or has seen all. *)
LEMMA CopyNextAt ==
    ASSUME IInv, NEW t \in Threads, pc[t] \in CopyLabels, CopyNext(t),
           UNCHANGED <<start, storage, next_storage>>,
           \A j \in 0 .. my[t].i : value'[my[t].p][j] = REDIRECT
    PROVE  /\ ThreadTypes' /\ ThreadAt(t)' /\ Migrating(t)' /\ my'[t].p = my[t].p
           /\ \A u \in Threads \ {t} : pc'[u] = pc[u] /\ my'[u] = my[u]
<1> DEFINE l == IF my[t].i = Mask(my[t].p) THEN "swap" ELSE "copy_hash"
<1>1. /\ ThreadTypes' /\ pc'[t] = l
      /\ my'[t].i = my[t].i + 1 /\ my'[t].then = "fill"
      /\ my'[t].call = my[t].call /\ my'[t].p = my[t].p /\ my'[t].q = my[t].q
      /\ \A u \in Threads \ {t} : pc'[u] = pc[u] /\ my'[u] = my[u]
  BY Basics, CopyNextFacts
<1>2. \/ l = "swap" /\ my[t].i + 1 = Size[my[t].p]
      \/ l = "copy_hash" /\ my[t].i + 1 < Size[my[t].p]
  <2>1. my[t].i \in Nat /\ my[t].i < Size[my[t].p] /\ Size[my[t].p] \in Nat
    BY CopierFacts, Basics, Sizes
  <2> QED BY <2>1 DEF Mask
<1> HIDE DEF l
<1>3. Migrating(t)' /\ ~Carrying(t)' /\ ~Claiming(t)' /\ Scene' = Scene
  BY <1>1, <1>2 DEF Migrating, Carrying, Claiming, Scene
<1>4. CallAt(t)'
  BY <1>1, <1>2, <1>3, CopierFacts, Basics DEF CallAt
<1>5. ProbeAt(t)'
  BY <1>1, <1>2, <1>3 DEF ProbeAt
<1>6. CopyAt(t)'
  <2>1. \A j \in 0 .. my'[t].i - 1 : value'[my'[t].p][j] = REDIRECT
    BY <1>1, Basics
  <2>2. ~IsConst(my[t].p) /\ my[t].p < my[t].q /\ my[t].q <= next_storage
    BY CopierFacts
  <2> QED BY <1>1, <1>2, <1>3, <2>1, <2>2 DEF CopyAt, IsConst
<1> QED BY <1>1, <1>3, <1>4, <1>5, <1>6 DEF ThreadAt

(* The inner loop of copy, when nothing was written. *)
LEMMA CopyLoopStep ==
    ASSUME IInv, NEW t \in Threads, pc[t] \in {"copy_rehash", "copy_value", "freeze"},
           NEW h \in Keys, NEW v \in Words, CopyLoop(t, h, v),
           UNCHANGED storages, UNCHANGED <<rover, answer, calls, patches>>,
           h = hash[my[t].p][my[t].i], h # NO_HASH,
           v = REDIRECT => value[my[t].p][my[t].i] = REDIRECT,
           v = NULL => ~Carrying(t),
           v \in Values => content[h] = v /\ (my[t].q < storage => Has(my[t].q, h))
    PROVE  IInv' /\ Forward
<1>1. /\ UNCHANGED <<start, storage, next_storage, hash, value, content>> /\ Scene' = Scene
      /\ pc[t] \in CopyLabels
  BY DEF storages, Scene, CopyLabels
<1>2. CallTypes'
  BY <1>1, SameCalls
<1>3. CASE v = REDIRECT
  <2>1. CopyNext(t)
    BY <1>3, ConstFacts DEF CopyLoop
  <2>2. \A j \in 0 .. my[t].i : value'[my[t].p][j] = REDIRECT
    <3>1. \A j \in 0 .. my[t].i : j = my[t].i \/ j \in 0 .. my[t].i - 1
      BY Basics
    <3> QED BY <1>1, <1>3, <3>1, CopierFacts
  <2>3. /\ ThreadTypes' /\ ThreadAt(t)' /\ Migrating(t)' /\ my'[t].p = my[t].p
        /\ \A u \in Threads \ {t} : pc'[u] = pc[u] /\ my'[u] = my[u]
    BY <1>1, <2>1, <2>2, CopyNextAt
  <2> QED BY <1>2, <2>3, LocalStep DEF Others
<1>4. CASE v # REDIRECT
  <2>0. v \in Values \union {NULL}
    BY <1>4 DEF Words
  <2>1. /\ ThreadTypes'
        /\ my'[t].ch = h /\ my'[t].cv = v
        /\ my'[t].i = my[t].i
        /\ my'[t].call = my[t].call /\ my'[t].p = my[t].p /\ my'[t].q = my[t].q
        /\ v = NULL => pc'[t] = "freeze" /\ my'[t].then = my[t].then
        /\ v # NULL => /\ pc'[t] = "claim" /\ my'[t].then = "put"
                       /\ my'[t].d = my[t].q /\ my'[t].at = 0
        /\ \A u \in Threads \ {t} : pc'[u] = pc[u] /\ my'[u] = my[u]
    BY <1>1, <2>0, Basics, CopyLoopFacts
  <2>2. /\ ~IsConst(my[t].p) /\ my[t].p < my[t].q /\ my[t].q <= next_storage
        /\ my[t].i < Size[my[t].p] /\ my[t].call \in Scene.calls[t] /\ my[t].p <= storage
        /\ \A j \in 0 .. my[t].i - 1 : value[my[t].p][j] = REDIRECT
    BY <1>1, CopierFacts, Basics, Sizes
  <2>3. Migrating(t)' /\ (Carrying(t)' <=> v # NULL) /\ (Claiming(t)' <=> v # NULL)
    BY <2>1 DEF Migrating, Carrying, Claiming
  <2>4. CallAt(t)'
    BY <1>1, <2>1, <2>2, <2>3 DEF CallAt
  <2>5. ProbeAt(t)'
    <3>1. 0 < Size[my[t].q] /\ \A k : k \notin 0 .. 0 - 1
      BY Basics, Sizes
    <3> QED BY <2>1, <2>3, <3>1 DEF ProbeAt
  <2>6. CopyAt(t)'
    <3>1. v # NULL => v \in Values /\ content[h] = v
      BY <2>0
    <3>2. v # NULL /\ my[t].q < storage => Has(my[t].d, my[t].ch)'
      BY <1>1, <2>0, <2>1 DEF Has
    <3>3. Migrating(t)' => /\ my'[t].p < my'[t].q /\ my'[t].q <= next_storage'
                           /\ \A j \in 0 .. my'[t].i - 1 : value'[my'[t].p][j] = REDIRECT
                           /\ ~IsConst(my'[t].p) /\ my'[t].i < Size[my'[t].p] /\ pc'[t] # "swap"
      BY <1>1, <2>1, <2>2 DEF IsConst
    <3> QED BY <1>1, <2>1, <2>2, <2>3, <3>1, <3>2, <3>3 DEF CopyAt, IsConst, Has
  <2> QED BY <1>2, <2>1, <2>3, <2>4, <2>5, <2>6, LocalStep DEF Others, ThreadAt
<1> QED BY <1>3, <1>4

LEMMA CopyRehashStep ==
    ASSUME IInv, NEW t \in Threads, CopyRehash(t)
    PROVE  IInv' /\ Forward
<1> DEFINE h == hash[my[t].p][my[t].i]
<1>1. /\ pc[t] = "copy_rehash" /\ CopyLoop(t, h, my[t].cv) /\ UNCHANGED storages
      /\ UNCHANGED <<rover, answer, calls, patches>>
  BY DEF CopyRehash, storages, world, slots, rest
<1>2. /\ h # NO_HASH /\ my[t].cv \in Values /\ content[h] = my[t].cv
      /\ my[t].q < storage => Has(my[t].q, h)
  BY <1>1, Basics DEF CopyAt
<1>3. h \in Keys
  BY <1>1, CopierFacts DEF CopyLabels
<1> HIDE DEF h
<1>4. my[t].cv \in Words /\ my[t].cv # REDIRECT /\ my[t].cv # NULL
  BY <1>2, ConstFacts DEF Words
<1> QED BY <1>1, <1>2, <1>3, <1>4, CopyLoopStep DEF h

LEMMA CopyValueStep ==
    ASSUME IInv, NEW t \in Threads, CopyValue(t)
    PROVE  IInv' /\ Forward
<1> DEFINE v == value[my[t].p][my[t].i]
           h == my[t].ch
<1>1. /\ pc[t] = "copy_value" /\ CopyLoop(t, h, v) /\ UNCHANGED storages
      /\ UNCHANGED <<rover, answer, calls, patches>>
  BY DEF CopyValue, storages, world, slots, rest
<1>2. h = hash[my[t].p][my[t].i] /\ h # NO_HASH
  BY <1>1, Basics DEF CopyAt
<1>3. h \in Keys /\ v \in Words /\ ~Carrying(t)
  BY <1>1, <1>2, CopierFacts DEF CopyLabels
<1>4. v \in Values => content[h] = v /\ my[t].q = next_storage /\ next_storage = storage + 1
  BY <1>1, <1>2, SourceFacts, ConstFacts DEF CopyLabels
<1>5. v \in Values => ~(my[t].q < storage)
  BY <1>4, Basics
<1> QED BY <1>1, <1>2, <1>3, <1>4, <1>5, CopyLoopStep

LEMMA CopyHashStep ==
    ASSUME IInv, NEW t \in Threads, CopyHash(t)
    PROVE  IInv' /\ Forward
<1> DEFINE h == hash[my[t].p][my[t].i]
           l == IF h = NO_HASH THEN "copy_virgin" ELSE "copy_value"
           m == [my[t] EXCEPT !.ch = h]
<1>1. /\ pc[t] = "copy_hash" /\ pc[t] \in CopyLabels /\ my' = [my EXCEPT ![t] = m] /\ Goto(t, l)
      /\ UNCHANGED storages /\ UNCHANGED <<rover, answer, calls, patches>>
      /\ UNCHANGED <<start, storage, next_storage, hash, value>> /\ Scene' = Scene
  BY DEF CopyHash, storages, world, slots, rest, CopyLabels, Scene
<1>2. h \in Keys
  BY <1>1, CopierFacts
<1>3. m \in Locals /\ m.ch = h /\ m.call = my[t].call /\ m.p = my[t].p /\ m.q = my[t].q
      /\ m.i = my[t].i /\ m.then = my[t].then
  <2>1. my[t] \in Locals
    BY DEF IInv, TypeInv
  <2> QED BY <1>2, <2>1 DEF Locals
<1>4. l \in Labels /\ l \in {"copy_virgin", "copy_value"} /\ (l = "copy_value" => h # NO_HASH)
  BY DEF Labels
<1> HIDE DEF m, l
<1>5. /\ ThreadTypes' /\ pc'[t] = l /\ my'[t] = m
      /\ \A u \in Threads \ {t} : pc'[u] = pc[u] /\ my'[u] = my[u]
  <2>1. TypeInv /\ m.call = my[t].call /\ Goto(t, l) /\ my' = [my EXCEPT ![t] = m] /\ start' = start
    BY <1>1, <1>3 DEF IInv
  <2> QED BY <1>3, <1>4, <2>1, Moved
<1>6. /\ ~Carrying(t) /\ ~IsConst(my[t].p) /\ my[t].p < my[t].q /\ my[t].q <= next_storage
      /\ my[t].i < Size[my[t].p] /\ my[t].call \in Scene.calls[t] /\ my[t].p <= storage
      /\ \A j \in 0 .. my[t].i - 1 : value[my[t].p][j] = REDIRECT
  BY <1>1, CopierFacts, Basics, Sizes
<1>7. Migrating(t)' /\ ~Carrying(t)' /\ ~Claiming(t)'
  BY <1>3, <1>4, <1>5, <1>6 DEF Migrating, Carrying, Claiming
<1>8. CallAt(t)' /\ ProbeAt(t)'
  BY <1>1, <1>3, <1>4, <1>5, <1>6, <1>7 DEF CallAt, ProbeAt
<1>9. CopyAt(t)'
  BY <1>1, <1>3, <1>4, <1>5, <1>6, <1>7 DEF CopyAt, IsConst
<1> QED BY <1>1, <1>3, <1>5, <1>7, <1>8, <1>9, SameCalls, LocalStep DEF Others, ThreadAt

(* A thread that begins to copy. *)
LEMMA CopyBegins ==
    ASSUME IInv, NEW t \in Threads, NEW q \in Gens, NEW m \in Locals,
           m.call = my[t].call, m.p = my[t].p, m.q = q, m.i = 0, m.then # "put",
           my' = [my EXCEPT ![t] = m], Goto(t, CopyFrom(my[t].p)), start' = start,
           storage' = storage, pc[t] \in {"mig_next", "mig_alloc"},
           my[t].p < q, q <= next_storage'
    PROVE  /\ ThreadTypes' /\ ThreadAt(t)' /\ Migrating(t)' /\ my'[t].p = my[t].p
           /\ \A u \in Threads \ {t} : pc'[u] = pc[u] /\ my'[u] = my[u]
<1> DEFINE l == CopyFrom(my[t].p)
<1>1. l \in Labels /\ l \in {"swap", "copy_hash"} /\ (l = "swap" <=> IsConst(my[t].p)) /\ Scene' = Scene
  BY DEF Labels, CopyFrom, Scene
<1> HIDE DEF l
<1>2. /\ ThreadTypes' /\ pc'[t] = l /\ my'[t] = m
      /\ \A u \in Threads \ {t} : pc'[u] = pc[u] /\ my'[u] = my[u]
  BY <1>1, Basics, Moved DEF l
<1>3. Migrating(t)' /\ ~Carrying(t)' /\ ~Claiming(t)'
  BY <1>1, <1>2 DEF Migrating, Carrying, Claiming
<1>4. CallAt(t)' /\ ProbeAt(t)'
  BY <1>1, <1>2, <1>3, Basics DEF CallAt, ProbeAt
<1>5. CopyAt(t)'
  <2>1. 0 < Size[my[t].p] /\ \A j : j \notin 0 .. 0 - 1
    BY Basics, Sizes
  <2> QED BY <1>1, <1>2, <1>3, <2>1 DEF CopyAt, IsConst
<1> QED BY <1>2, <1>3, <1>4, <1>5 DEF ThreadAt

LEMMA MigNextStep ==
    ASSUME IInv, NEW t \in Threads, MigNext(t)
    PROVE  IInv' /\ Forward
<1> DEFINE m == [my[t] EXCEPT !.q = next_storage, !.i = 0, !.d = 0, !.at = 0]
<1>1. /\ pc[t] = "mig_next" /\ my' = [my EXCEPT ![t] = m]
      /\ Goto(t, IF next_storage = my[t].p THEN "mig_alloc" ELSE CopyFrom(my[t].p))
      /\ UNCHANGED storages /\ UNCHANGED <<rover, answer, calls, patches>>
      /\ UNCHANGED <<start, storage, next_storage>> /\ Scene' = Scene
  BY DEF MigNext, storages, world, slots, rest, Scene
<1>2. m \in Locals /\ m.call = my[t].call /\ m.p = my[t].p /\ m.q = next_storage
      /\ m.i = 0 /\ m.then = my[t].then
  <2>1. my[t] \in Locals /\ next_storage \in Gens
    BY DEF IInv, TypeInv
  <2> QED BY <2>1, ConstFacts DEF Locals
<1> HIDE DEF m
<1>3. ~Migrating(t) /\ my[t].then # "put"
  BY <1>1, QuietNow DEF QuietLabels
<1>4. CASE next_storage = my[t].p
  <2>1. /\ ThreadTypes' /\ pc'[t] = "mig_alloc" /\ my'[t] = m
        /\ \A u \in Threads \ {t} : pc'[u] = pc[u] /\ my'[u] = my[u]
    BY <1>1, <1>2, <1>4, Basics, Moved DEF Labels
  <2>2. CallAt(t)'
    <3>1. ~Claiming(t)'
      BY <2>1 DEF Claiming
    <3> QED BY <1>1, <1>2, <2>1, <3>1, Basics DEF CallAt
  <2>3. ThreadAt(t)'
    BY <1>2, <1>3, <2>1, <2>2, Quiet DEF QuietLabels
  <2> QED BY <1>1, <1>3, <2>1, <2>3, SameCalls, LocalStep DEF Others
<1>5. CASE next_storage # my[t].p
  <2>1. my[t].p < next_storage /\ next_storage <= next_storage' /\ next_storage \in Gens
    BY <1>1, <1>5, Basics
  <2>2. /\ ThreadTypes' /\ ThreadAt(t)' /\ Migrating(t)' /\ my'[t].p = my[t].p
        /\ \A u \in Threads \ {t} : pc'[u] = pc[u] /\ my'[u] = my[u]
    BY <1>1, <1>2, <1>3, <1>5, <2>1, CopyBegins
  <2> QED BY <1>1, <2>2, SameCalls, LocalStep DEF Others
<1> QED BY <1>4, <1>5

LEMMA PutFollowStep ==
    ASSUME IInv, NEW t \in Threads, PutFollow(t)
    PROVE  IInv' /\ Forward
<1> DEFINE m == [my[t] EXCEPT !.d = next_storage, !.at = 0]
<1>1. /\ pc[t] = "follow" /\ my' = [my EXCEPT ![t] = m] /\ Goto(t, "claim")
      /\ UNCHANGED storages /\ UNCHANGED <<rover, answer, calls, patches>>
      /\ UNCHANGED <<start, storage, next_storage, hash, value, content>> /\ Scene' = Scene
  BY DEF PutFollow, storages, world, slots, rest, Scene
<1>2. /\ m \in Locals /\ m.call = my[t].call /\ m.p = my[t].p /\ m.q = my[t].q
      /\ m.d = next_storage /\ m.at = 0
      /\ m.i = my[t].i /\ m.then = my[t].then /\ m.ch = my[t].ch /\ m.cv = my[t].cv
  <2>1. my[t] \in Locals /\ next_storage \in Gens
    BY DEF IInv, TypeInv
  <2> QED BY <2>1 DEF Locals
<1> HIDE DEF m
<1>3. /\ ThreadTypes' /\ pc'[t] = "claim" /\ my'[t] = m
      /\ \A u \in Threads \ {t} : pc'[u] = pc[u] /\ my'[u] = my[u]
  BY <1>1, <1>2, Basics, Moved DEF Labels
<1>4. Carrying(t) /\ Migrating(t)
  BY <1>1, Basics DEF ProbeAt, Migrating
<1>5. Carrying(t)' /\ Migrating(t)' /\ Claiming(t)'
  BY <1>2, <1>3, <1>4 DEF Carrying, Migrating, Claiming
<1>6. CallAt(t)'
  BY <1>1, <1>2, <1>3, <1>5, Basics DEF CallAt
<1>7. ProbeAt(t)'
  <2>1. 0 < Size[next_storage] /\ \A k : k \notin 0 .. 0 - 1
    BY Basics, Sizes
  <2> QED BY <1>2, <1>3, <1>5, <2>1 DEF ProbeAt
<1>8. CopyAt(t)'
  <2>1. /\ my[t].p < my[t].q /\ my[t].q <= next_storage
        /\ \A j \in 0 .. my[t].i - 1 : value[my[t].p][j] = REDIRECT
        /\ ~IsConst(my[t].p) /\ my[t].i < Size[my[t].p]
        /\ my[t].ch = hash[my[t].p][my[t].i] /\ my[t].ch # NO_HASH
        /\ my[t].cv \in Values /\ content[my[t].ch] = my[t].cv
    BY <1>1, <1>4, Basics DEF CopyAt
  <2>2. my[t].p < next_storage /\ ~(next_storage < storage)
    BY <2>1, Basics
  <2>3. Migrating(t)' => /\ my'[t].p < my'[t].q /\ my'[t].q <= next_storage'
                         /\ \A j \in 0 .. my'[t].i - 1 : value'[my'[t].p][j] = REDIRECT
                         /\ ~IsConst(my'[t].p) /\ my'[t].i < Size[my'[t].p] /\ pc'[t] # "swap"
    BY <1>1, <1>2, <1>3, <2>1
  <2>4. /\ my'[t].ch = hash'[my'[t].p][my'[t].i] /\ my'[t].ch # NO_HASH
        /\ my'[t].cv \in Values /\ content'[my'[t].ch] = my'[t].cv
    BY <1>1, <1>2, <1>3, <2>1
  <2>5. /\ my'[t].p < my'[t].d /\ my'[t].d <= next_storage'
        /\ ~(my'[t].d < storage')
    BY <1>1, <1>2, <1>3, <2>1, <2>2, Basics
  <2> QED BY <1>3, <1>5, <2>3, <2>4, <2>5 DEF CopyAt, IsConst
<1> QED BY <1>1, <1>2, <1>3, <1>5, <1>6, <1>7, <1>8, SameCalls, LocalStep DEF Others, ThreadAt

-----------------------------------------------------------------------------
(* Claims *)

(* Slots of b that have different hashes, each with a slot in a, are no    *)
(* more than a has.                                                        *)
LEMMA KeysFit ==
    ASSUME NEW hs, NEW a \in Gens, NEW b \in Gens, NEW C \in SUBSET Index(b),
           \A i, j \in C : hs[b][i] = hs[b][j] => i = j,
           \A i \in C : \E j \in Index(a) : hs[a][j] = hs[b][i]
    PROVE  IsFiniteSet(C) /\ Cardinality(C) \in Nat /\ Cardinality(C) <= Size[a]
<1> DEFINE f == [i \in C |-> CHOOSE j \in Index(a) : hs[a][j] = hs[b][i]]
<1>1. \A i \in C : f[i] \in Index(a) /\ hs[a][f[i]] = hs[b][i]
  OBVIOUS
<1>2. f \in [C -> Index(a)] /\ \A i, j \in C : f[i] = f[j] => i = j
  BY <1>1
<1> HIDE DEF f
<1>3. f \in Injection(C, Index(a))
  BY <1>2 DEF Injection, IsInjective
<1>4. Index(a) = 0 .. Size[a] - 1 /\ Size[a] \in Nat /\ Size[a] > 0
  BY Sizes
<1>5. IsFiniteSet(Index(a)) /\ Cardinality(Index(a)) = Size[a]
  <2>1. IsFiniteSet(0 .. Size[a] - 1)
        /\ Cardinality(0 .. Size[a] - 1) = IF 0 > Size[a] - 1 THEN 0 ELSE (Size[a] - 1) - 0 + 1
    BY <1>4, FS_Interval
  <2> QED BY <1>4, <2>1
<1>6. IsFiniteSet(C) /\ Cardinality(C) <= Cardinality(Index(a))
  BY <1>3, <1>5, FS_Injection
<1> QED BY <1>5, <1>6, FS_CardinalityType

(* A copier finds a slot in the next storage, as that has only hashes of   *)
(* the storage it is copied from, which is smaller.                        *)
LEMMA PutFindsSlot ==
    ASSUME IInv, NEW t \in Threads, pc[t] \in {"claim", "claim_cas"}, Carrying(t),
           hash[my[t].d][ClaimSlot(t)] \notin {NO_HASH, Key(t)}, my[t].at = Mask(my[t].d),
           my[t].p = storage
    PROVE  FALSE
<1> DEFINE d == my[t].d
<1>1. d = next_storage /\ next_storage = storage + 1
  BY Basics DEF CopyAt
<1>2. Key(t) \in Nat
  BY Addressed, ConstFacts DEF Claiming
<1>3. ASSUME NEW i \in Index(d) PROVE hash[d][i] # NO_HASH
  <2>1. PICK k \in Index(d) : Probe(d, Key(t), k) = i
    <3>1. PICK g \in Gens : g = d
      BY Basics
    <3>2. PICK h \in Nat : h = Key(t)
      BY <1>2
    <3> QED BY <3>1, <3>2, Probes
  <2>2. k \in 0 .. my[t].at - 1 \/ k = my[t].at
    <3>1. k \in 0 .. Size[d] - 1 /\ my[t].at = Size[d] - 1 /\ Size[d] \in Nat
      BY Basics, Sizes DEF Mask
    <3> QED BY <3>1
  <2> QED BY <2>1, <2>2, Basics DEF ProbeAt, ClaimSlot
<1>4. \A i, j \in Index(d) : hash[d][i] = hash[d][j] => i = j
  BY <1>3, Basics DEF SlotInv
<1>5. \A i \in Index(d) : \E j \in Index(storage) : hash[storage][j] = hash[d][i]
  BY <1>1, <1>3, Basics DEF GenInv, Has
<1>6. d \in Gens /\ storage \in Gens /\ Index(d) \in SUBSET Index(d)
  BY Basics
<1>7. Cardinality(Index(d)) <= Size[storage]
  BY <1>4, <1>5, <1>6, KeysFit
<1>8. Cardinality(Index(d)) = Size[d] /\ Size[d] \in Nat
  <2>1. Index(d) = 0 .. Size[d] - 1 /\ Size[d] \in Nat /\ Size[d] > 0
    BY <1>6, Sizes
  <2>2. Cardinality(0 .. Size[d] - 1) = IF 0 > Size[d] - 1 THEN 0 ELSE (Size[d] - 1) - 0 + 1
    BY <2>1, FS_Interval
  <2> QED BY <2>1, <2>2
<1>9. Size[d] >= 2 * Size[storage] /\ Size[storage] \in Nat /\ Size[storage] > 0
  BY <1>1, <1>6, Sizes
<1> HIDE DEF d
<1> QED BY <1>7, <1>8, <1>9

(* A thread that goes on carrying its value. *)
LEMMA CarryStable ==
    ASSUME IInv, TypeInv', Forward, NEW t \in Threads, Carrying(t),
           pc'[t] \in {"claim", "claim_cas", "claim_inc", "put", "follow", "freeze"},
           my'[t].p = my[t].p, my'[t].q = my[t].q, my'[t].d = my[t].d, my'[t].i = my[t].i,
           my'[t].then = my[t].then, my'[t].ch = my[t].ch, my'[t].cv = my[t].cv,
           pc'[t] = "freeze" /\ my[t].p = storage' => Maps(next_storage, my[t].ch, my[t].cv)'
    PROVE  CopyAt(t)' /\ Carrying(t)' /\ Migrating(t)'
<1>1. /\ storage' \in Nat /\ next_storage' \in Nat /\ storage <= storage'
      /\ next_storage <= next_storage'
      /\ \A g \in Gens : \A i \in Index(g) : hash[g][i] # NO_HASH => hash'[g][i] = hash[g][i]
      /\ \A g \in Gens : \A i \in Index(g) : value[g][i] = REDIRECT => value'[g][i] = REDIRECT
  BY DEF TypeInv, Gens, Forward
<1>2. Carrying(t)' /\ Migrating(t)' /\ Migrating(t) /\ pc[t] # "swap"
  BY Basics DEF Carrying, Migrating, ProbeAt, Claiming
<1>3. /\ my[t].p < my[t].q /\ my[t].q <= next_storage
      /\ \A j \in 0 .. my[t].i - 1 : value[my[t].p][j] = REDIRECT
      /\ ~IsConst(my[t].p) /\ my[t].i < Size[my[t].p]
      /\ my[t].ch = hash[my[t].p][my[t].i] /\ my[t].ch # NO_HASH
      /\ my[t].cv \in Values /\ content[my[t].ch] = my[t].cv
      /\ my[t].p < my[t].d /\ my[t].d <= next_storage
      /\ my[t].d < storage => Has(my[t].d, my[t].ch)
  BY <1>2, Basics DEF CopyAt
<1>4. my[t].q <= next_storage' /\ my[t].d <= next_storage'
  BY <1>1, <1>3, Basics
<1>5. my[t].i \in Index(my[t].p) /\ \A j \in 0 .. my[t].i - 1 : j \in Index(my[t].p)
  BY <1>3, Basics, Sizes
<1>6. \A j \in 0 .. my[t].i - 1 : value'[my[t].p][j] = REDIRECT
  BY <1>1, <1>3, <1>5, Basics
<1>7. my[t].ch = hash'[my[t].p][my[t].i]
  BY <1>1, <1>3, <1>5, Basics
<1>8. my[t].ch \in Hashes /\ content[my[t].ch] # NULL /\ content'[my[t].ch] = my[t].cv
  <2>1. my[t].ch \in Hashes /\ content[my[t].ch] # NULL
    BY <1>3, Basics, ConstFacts DEF Keys
  <2> QED BY <1>3, <2>1 DEF Forward
<1>9. my[t].d < storage' => Has(my[t].d, my[t].ch)'
  <2>1. PICK g \in Gens : g = my[t].d
    BY Basics
  <2>2. PICK k \in Hashes : k = my[t].ch
    BY <1>8
  <2>3. g < storage' => Has(g, k)'
    BY <1>1, <1>3, <1>8, <2>1, <2>2, OldHas
  <2> QED BY <2>1, <2>2, <2>3 DEF Has
<1>10. pc'[t] = "freeze" /\ my[t].p = storage' => Maps(next_storage, my[t].ch, my[t].cv)'
  OBVIOUS
<1>11. ASSUME Migrating(t)'
       PROVE  /\ my'[t].p < my'[t].q /\ my'[t].q <= next_storage'
              /\ \A j \in 0 .. my'[t].i - 1 : value'[my'[t].p][j] = REDIRECT
              /\ ~IsConst(my'[t].p) /\ my'[t].i < Size[my'[t].p] /\ pc'[t] # "swap"
  BY <1>3, <1>4, <1>6
<1>12. /\ my'[t].ch = hash'[my'[t].p][my'[t].i] /\ my'[t].ch # NO_HASH
       /\ my'[t].cv \in Values /\ content'[my'[t].ch] = my'[t].cv
       /\ my'[t].p < my'[t].d /\ my'[t].d <= next_storage'
  BY <1>3, <1>4, <1>7, <1>8
<1> QED BY <1>2, <1>9, <1>10, <1>11, <1>12 DEF CopyAt, IsConst, Has, Maps

(* The next step of a claim. *)
LEMMA ClaimMoved ==
    ASSUME IInv, TypeInv', Forward, NEW t \in Threads, Claiming(t),
           pc'[t] \in {"claim", "claim_cas", "claim_inc", my[t].then},
           my'[t].call = my[t].call, my'[t].at \in Nat,
           my'[t].p = my[t].p, my'[t].q = my[t].q, my'[t].d = my[t].d, my'[t].i = my[t].i,
           my'[t].then = my[t].then, my'[t].ch = my[t].ch, my'[t].cv = my[t].cv,
           pc'[t] \in {"claim", "claim_cas"} =>
             /\ my'[t].at < Size[my[t].d]
             /\ \A k \in 0 .. my'[t].at - 1 :
                  hash'[my[t].d][Probe(my[t].d, Key(t), k)] \notin {NO_HASH, Key(t)},
           pc'[t] \in {"claim_inc", my[t].then} =>
             hash'[my[t].d][Probe(my[t].d, Key(t), my'[t].at)] = Key(t)
    PROVE  ThreadAt(t)' /\ (Migrating(t) => Migrating(t)')
<1>1. /\ storage' \in Nat /\ storage <= storage' /\ Scene' = Scene
  BY DEF TypeInv, Gens, Forward, Scene
<1>2. Key(t)' = Key(t) /\ ClaimSlot(t)' = Probe(my[t].d, Key(t), my'[t].at)
      /\ (Carrying(t)' <=> Carrying(t)) /\ (Carrying(t) <=> my[t].then = "put")
      /\ (Migrating(t) <=> Carrying(t))
  BY DEF Key, ClaimSlot, Carrying, Migrating, Claiming
<1>3. my[t].then \in {"fill", "put"} /\ my[t].call \in Scene.calls[t] /\ my[t].p <= storage'
      /\ (~Carrying(t) => my[t].call.op \in {"insert", "register"} /\ my[t].d = my[t].p /\ ~IsConst(my[t].d))
  <2>1. my[t].p <= storage'
    BY <1>1, Basics
  <2> QED BY <2>1, Basics DEF CallAt, ProbeAt, Claiming
<1>4. CallAt(t)'
  BY <1>1, <1>2, <1>3 DEF CallAt, Claiming
<1>5. ProbeAt(t)'
  <2>1. pc'[t] \in {"claim", "claim_cas"} =>
          /\ my'[t].at < Size[my'[t].d]
          /\ \A k \in 0 .. my'[t].at - 1 :
               hash'[my'[t].d][Probe(my'[t].d, Key(t)', k)] \notin {NO_HASH, Key(t)'}
    BY <1>2
  <2>2. pc'[t] \in {"claim_inc", "fill", "put"} => hash'[my'[t].d][ClaimSlot(t)'] = Key(t)'
    BY <1>2, <1>3
  <2>3. pc'[t] = "fill" \/ (Claiming(t)' /\ ~Carrying(t)') => my'[t].d = my'[t].p /\ ~IsConst(my'[t].d)
    BY <1>2, <1>3
  <2>4. Carrying(t)' => Claiming(t)' \/ pc'[t] \in {"put", "follow", "freeze"}
    BY <1>2, <1>3 DEF Claiming
  <2>5. pc'[t] \in {"put", "follow"} => Carrying(t)'
    BY <1>2, <1>3
  <2> QED BY <2>1, <2>2, <2>3, <2>4, <2>5 DEF ProbeAt, IsConst
<1>6. CASE Carrying(t)
  <2>1. pc'[t] \in {"claim", "claim_cas", "claim_inc", "put"}
    BY <1>2, <1>6
  <2>2. CopyAt(t)' /\ Migrating(t)'
    BY <1>6, <2>1, CarryStable
  <2> QED BY <1>4, <1>5, <2>2 DEF ThreadAt
<1>7. CASE ~Carrying(t)
  <2>1. pc'[t] \in {"claim", "claim_cas", "claim_inc", "fill"} /\ ~Carrying(t)' /\ ~Migrating(t)'
    BY <1>2, <1>3, <1>7 DEF Migrating
  <2>2. CopyAt(t)'
    BY <2>1 DEF CopyAt
  <2> QED BY <1>2, <1>4, <1>5, <1>7, <2>2 DEF ThreadAt
<1> QED BY <1>6, <1>7

(* The slots a claim has met before, and the one after them. *)
LEMMA ClaimNextStep ==
    ASSUME IInv, NEW t \in Threads, pc[t] \in {"claim", "claim_cas"}, ClaimNext(t),
           hash[my[t].d][ClaimSlot(t)] \notin {NO_HASH, Key(t)},
           UNCHANGED storages, UNCHANGED <<rover, answer, calls, patches>>
    PROVE  IInv' /\ Forward
<1>1. UNCHANGED <<start, storage, next_storage, hash, value, content>> /\ Scene' = Scene
  BY DEF storages, Scene
<1>2. /\ ThreadTypes'
      /\ pc'[t] = IF my[t].at # Mask(my[t].d) THEN "claim"
                  ELSE IF my[t].then = "put" THEN "freeze" ELSE "mig_next"
      /\ my'[t].at = my[t].at + 1
      /\ my'[t].call = my[t].call /\ my'[t].p = my[t].p /\ my'[t].q = my[t].q
      /\ my'[t].d = my[t].d /\ my'[t].then = my[t].then /\ my'[t].i = my[t].i
      /\ my'[t].ch = my[t].ch /\ my'[t].cv = my[t].cv
      /\ \A u \in Threads \ {t} : pc'[u] = pc[u] /\ my'[u] = my[u]
  BY <1>1, Basics, ProbeNext
<1>3. CallTypes' /\ Forward /\ TypeInv' /\ Claiming(t)
  BY <1>1, <1>2, SameCalls, StillForward, StillTyped DEF Claiming
<1>4. my[t].at < Size[my[t].d] /\ my[t].at \in Nat /\ Size[my[t].d] \in Nat
  BY Basics, Sizes DEF ProbeAt
<1>5. CASE my[t].at # Mask(my[t].d)
  <2>1. my'[t].at < Size[my[t].d] /\ my'[t].at \in Nat
    BY <1>2, <1>4, <1>5 DEF Mask
  <2>2. ASSUME NEW k \in 0 .. my'[t].at - 1
        PROVE  hash'[my[t].d][Probe(my[t].d, Key(t), k)] \notin {NO_HASH, Key(t)}
    <3>1. k \in 0 .. my[t].at - 1 \/ k = my[t].at
      BY <1>2, <1>4, <2>2
    <3> QED BY <1>1, <3>1, Basics DEF ProbeAt, ClaimSlot
  <2>3. pc'[t] = "claim" /\ pc'[t] # my[t].then
    BY <1>2, <1>5, Basics
  <2>4. ThreadAt(t)' /\ (Migrating(t) => Migrating(t)')
    BY <1>2, <1>3, <2>1, <2>2, <2>3, ClaimMoved
  <2> QED BY <1>1, <1>2, <1>3, <2>4, LocalStep DEF Others
<1>6. CASE my[t].at = Mask(my[t].d) /\ Carrying(t)
  <2>1. pc'[t] = "freeze"
    BY <1>2, <1>6 DEF Carrying
  <2>2. my[t].p # storage
    BY <1>6, PutFindsSlot
  <2>3. CopyAt(t)' /\ Carrying(t)' /\ Migrating(t)'
    BY <1>1, <1>2, <1>3, <1>6, <2>1, <2>2, CarryStable
  <2>4. ~Claiming(t)' /\ my[t].call \in Scene.calls[t]
    BY <1>3, <2>1, Basics DEF Claiming, CallAt
  <2>5. CallAt(t)' /\ ProbeAt(t)'
    BY <1>1, <1>2, <2>1, <2>3, <2>4, Basics DEF CallAt, ProbeAt
  <2> QED BY <1>2, <1>3, <2>3, <2>5, LocalStep DEF Others, ThreadAt
<1>7. CASE my[t].at = Mask(my[t].d) /\ ~Carrying(t)
  <2>1. pc'[t] = "mig_next" /\ my'[t].then # "put" /\ ~Migrating(t)
    BY <1>2, <1>3, <1>7 DEF Carrying, Migrating, Claiming
  <2>2. CallAt(t)'
    <3>1. ~Claiming(t)' /\ my[t].call \in Scene.calls[t]
      BY <1>3, <2>1, Basics DEF Claiming, CallAt
    <3> QED BY <1>1, <1>2, <2>1, <3>1, Basics DEF CallAt
  <2>3. ThreadAt(t)'
    BY <2>1, <2>2, Quiet DEF QuietLabels
  <2> QED BY <1>2, <1>3, <2>1, <2>3, LocalStep DEF Others
<1> QED BY <1>5, <1>6, <1>7

LEMMA ClaimReadStep ==
    ASSUME IInv, NEW t \in Threads, ClaimRead(t)
    PROVE  IInv' /\ Forward
<1> DEFINE h == hash[my[t].d][ClaimSlot(t)]
<1>1. /\ pc[t] = "claim" /\ Claiming(t) /\ UNCHANGED storages
      /\ UNCHANGED <<rover, answer, calls, patches, start, hash>>
  BY DEF ClaimRead, Claiming, storages, world, slots, rest
<1>2. CASE h \notin {NO_HASH, Key(t)} /\ ClaimNext(t)
  BY <1>1, <1>2, ClaimNextStep
<1>3. ASSUME NEW l \in {"claim_cas", my[t].then}, Goto(t, l), my' = my,
             l = my[t].then => h = Key(t)
      PROVE  IInv' /\ Forward
  <2>1. l \in Labels /\ my[t].then \notin {"claim", "claim_cas"}
    BY Basics DEF Labels
  <2>2. ThreadTypes' /\ pc'[t] = l /\ \A u \in Threads \ {t} : pc'[u] = pc[u]
    BY <1>1, <1>3, <2>1, Basics, Gone
  <2>3. CallTypes' /\ Forward /\ TypeInv'
    BY <1>1, <2>2, SameCalls, StillForward, StillTyped
  <2>4. my[t].at \in Nat
    BY Basics
  <2>5. l = "claim_cas" =>
             /\ my[t].at < Size[my[t].d]
             /\ \A k \in 0 .. my[t].at - 1 :
                  hash[my[t].d][Probe(my[t].d, Key(t), k)] \notin {NO_HASH, Key(t)}
    BY <1>1, Basics DEF ProbeAt
  <2>6. l = my[t].then => hash[my[t].d][Probe(my[t].d, Key(t), my[t].at)] = Key(t)
    BY <1>3 DEF ClaimSlot
  <2>7. ThreadAt(t)' /\ (Migrating(t) => Migrating(t)')
    BY <1>1, <1>3, <2>1, <2>2, <2>3, <2>4, <2>5, <2>6, ClaimMoved
  <2> QED BY <1>1, <1>3, <2>2, <2>3, <2>7, LocalStep DEF Others
<1>4. CASE h = NO_HASH /\ Goto(t, "claim_cas") /\ UNCHANGED my
  <2>1. "claim_cas" # my[t].then
    BY Basics
  <2> QED BY <1>3, <1>4, <2>1
<1>5. CASE h = Key(t) /\ Goto(t, my[t].then) /\ UNCHANGED my
  BY <1>3, <1>5
<1> QED BY <1>2, <1>4, <1>5 DEF ClaimRead

LEMMA ClaimIncStep ==
    ASSUME IInv, NEW t \in Threads, ClaimInc(t)
    PROVE  IInv' /\ Forward
<1>1. /\ pc[t] = "claim_inc" /\ Claiming(t) /\ Goto(t, my[t].then)
      /\ n_hashs' = [n_hashs EXCEPT ![my[t].d] = @ + 1]
      /\ UNCHANGED <<storage, next_storage, hash, value, freed, content, start>>
      /\ UNCHANGED <<my, rover, answer, calls, patches>>
  BY DEF ClaimInc, Claiming, world, slots, rest
<1>2. my[t].then \in Labels /\ my[t].then \in {"fill", "put"}
  BY Basics DEF Labels
<1>3. ThreadTypes' /\ pc'[t] = my[t].then /\ \A u \in Threads \ {t} : pc'[u] = pc[u]
  <2>1. PICK l \in Labels : l = my[t].then
    BY <1>2
  <2> QED BY <1>1, <2>1, Basics, Gone
<1>4. n_hashs' \in [Gens -> Int]
  <2>1. n_hashs \in [Gens -> Int]
    BY DEF IInv, TypeInv
  <2> QED BY <1>1, <2>1, Basics
<1>5. CallTypes'
  BY <1>1, SameCalls
<1>6. TypeInv'
  BY <1>1, <1>3, <1>4, <1>5 DEF IInv, TypeInv, ThreadTypes, CallTypes, Answers
<1>7. my[t].d # 0
  <2>1. CASE Carrying(t)
    <3>1. my[t].p < my[t].d
      BY <2>1, Basics DEF CopyAt
    <3> QED BY <3>1, Basics
  <2>2. CASE ~Carrying(t)
    BY <1>1, <2>2, Basics DEF ProbeAt, IsConst
  <2> QED BY <2>1, <2>2
<1>8. n_hashs'[0] = -1
  <2>1. n_hashs \in [Gens -> Int] /\ n_hashs[0] = -1 /\ 0 \in Gens
    BY ConstFacts DEF IInv, TypeInv, GenInv
  <2> QED BY <1>1, <1>7, <2>1
<1>9. SlotInv' /\ GenInv' /\ ContentInv'
  <2>1. GenInv /\ SlotInv /\ ContentInv
    BY DEF IInv
  <2>2. GenInv'
    BY <1>1, <1>8, <2>1 DEF GenInv, Has
  <2> QED BY <1>1, <2>1, <2>2 DEF SlotInv, ContentInv, Maps
<1>10. Forward
  BY <1>1, Basics DEF Forward
<1>11. ThreadAt(t)' /\ (Migrating(t) => Migrating(t)')
  <2>1. hash[my[t].d][Probe(my[t].d, Key(t), my[t].at)] = Key(t)
    BY <1>1, Basics DEF ProbeAt, ClaimSlot
  <2>2. my[t].at \in Nat /\ pc'[t] \notin {"claim", "claim_cas"}
    BY <1>2, <1>3, Basics
  <2> QED BY <1>1, <1>3, <1>6, <1>10, <2>1, <2>2, ClaimMoved
<1>12. MigratorInv' /\ Others(t)
  <2>1. Others(t)
    BY <1>1, <1>3 DEF Others
  <2> QED BY <1>1, <1>11, <2>1, MigratorStable
<1> QED BY <1>6, <1>9, <1>10, <1>11, <1>12, SharedStep

(* The storage in which a thread claims. *)
LEMMA ClaimGen ==
    ASSUME IInv, NEW t \in Threads, Claiming(t) \/ pc[t] \in {"fill", "put"}
    PROVE  /\ my[t].d # 0 /\ my[t].d <= next_storage
           /\ ~Carrying(t) => my[t].d = my[t].p
           /\ Carrying(t) => my[t].p < my[t].d /\ (my[t].d < storage => Has(my[t].d, Key(t)))
                             /\ Key(t) \in Hashes /\ content[Key(t)] = my[t].cv
                             /\ my[t].cv \in Values
<1>1. CASE Carrying(t)
  <2>1. /\ my[t].p < my[t].d /\ my[t].d <= next_storage
        /\ my[t].d < storage => Has(my[t].d, my[t].ch)
        /\ content[my[t].ch] = my[t].cv /\ my[t].cv \in Values
    BY <1>1, Basics DEF CopyAt
  <2>2. Key(t) = my[t].ch /\ Key(t) \in Hashes
    BY <1>1, Addressed
  <2>3. my[t].d # 0
    BY <2>1, Basics
  <2> QED BY <1>1, <2>1, <2>2, <2>3
<1>2. CASE ~Carrying(t)
  <2>1. my[t].d = my[t].p /\ ~IsConst(my[t].d)
    BY <1>2, Basics DEF ProbeAt, Claiming
  <2>2. my[t].d <= next_storage
    BY <2>1, Basics
  <2> QED BY <1>2, <2>1, <2>2 DEF IsConst
<1> QED BY <1>1, <1>2

(* A probe that meets a virgin slot is for a hash that has no slot. *)
LEMMA VirginMeans ==
    ASSUME IInv, NEW t \in Threads, pc[t] = "claim_cas", hash[my[t].d][ClaimSlot(t)] = NO_HASH
    PROVE  ~Has(my[t].d, Key(t))
<1>1. PICK g \in Gens : g = my[t].d
  BY Basics
<1>2. PICK x \in Hashes : x = Key(t)
  BY Addressed DEF Claiming
<1>3. PICK n \in Nat : n = my[t].at
  BY Basics
<1>4. x \in Nat /\ x # NO_HASH
  BY ConstFacts
<1>5. SUFFICES ASSUME NEW j \in Index(g), hash[g][j] = x PROVE FALSE
  BY <1>1, <1>2 DEF Has
<1>6. PICK k \in Index(g) : Probe(g, x, k) = j
  BY <1>4, Probes
<1>7. k \in Nat
  BY Sizes
<1>8. ~(k < n)
  <2>1. \A m \in 0 .. n - 1 : hash[g][Probe(g, x, m)] # x
    BY <1>1, <1>2, <1>3, Basics DEF ProbeAt
  <2> QED BY <1>5, <1>6, <1>7, <2>1
<1>9. hash[g][Probe(g, x, n)] = NO_HASH
  BY <1>1, <1>2, <1>3 DEF ClaimSlot
<1>10. k # n
  BY <1>4, <1>5, <1>6, <1>9
<1>11. ~(n < k)
  <2>1. SlotInv
    BY DEF IInv
  <2>2. \A m \in 0 .. k - 1 : hash[g][Probe(g, x, m)] # NO_HASH
    BY <1>4, <1>5, <1>6, <2>1 DEF SlotInv
  <2> QED BY <1>7, <1>9, <2>2
<1> QED BY <1>7, <1>8, <1>10, <1>11

(* A slot that is claimed for a hash that has none. *)
LEMMA ClaimSlots ==
    ASSUME IInv, NEW g \in Gens, NEW x \in Hashes, NEW n \in Nat, n < Size[g],
           hash[g][Probe(g, x, n)] = NO_HASH, ~Has(g, x),
           \A k \in 0 .. n - 1 : hash[g][Probe(g, x, k)] # NO_HASH,
           hash' = [hash EXCEPT ![g][Probe(g, x, n)] = x], UNCHANGED value
    PROVE  /\ hash' = [h \in Gens |-> hash'[h]]
           /\ \A h \in Gens : hash'[h] \in [Index(h) -> Keys]
           /\ hash'[g][Probe(g, x, n)] = x
           /\ \A h \in Gens : \A j \in Index(h) :
                 h # g \/ j # Probe(g, x, n) => hash'[h][j] = hash[h][j]
           /\ \A h \in Gens : \A j \in Index(h) :
                 hash[h][j] # NO_HASH => hash'[h][j] = hash[h][j]
           /\ SlotInv'
<1> DEFINE i == Probe(g, x, n)
<1>1. x \in Nat /\ x # NO_HASH /\ x \in Keys /\ i \in Index(g) /\ n \in Index(g) /\ TypeInv /\ SlotInv
  BY ConstFacts, Probes, Sizes DEF Keys, IInv
<1>2. /\ hash' = [h \in Gens |-> hash'[h]]
      /\ \A h \in Gens : hash'[h] \in [Index(h) -> Keys]
      /\ hash'[g][i] = x
      /\ \A h \in Gens : \A j \in Index(h) : h # g \/ j # i => hash'[h][j] = hash[h][j]
  <2>1. PICK s \in Index(g) : s = i
    BY <1>1
  <2>2. hash' = [hash EXCEPT ![g][s] = x] /\ TypeInv
    BY <1>1, <2>1
  <2>3. PICK y \in Keys : y = x
    BY <1>1
  <2> HIDE DEF i
  <2>4. /\ hash' = [h \in Gens |-> hash'[h]]
        /\ \A h \in Gens : hash'[h] \in [Index(h) -> Keys]
        /\ hash'[g][s] = y
        /\ \A h \in Gens : \A j \in Index(h) : h # g \/ j # s => hash'[h][j] = hash[h][j]
    <3>1. SetHash(g, s, y)
      BY <2>2, <2>3 DEF SetHash
    <3> QED BY <2>2, <3>1, ClaimFacts
  <2> QED BY <2>1, <2>3, <2>4
<1>3. \A h \in Gens : \A j \in Index(h) : hash[h][j] # NO_HASH => hash'[h][j] = hash[h][j]
  BY <1>2
<1>4. \A h \in Gens : \A j \in Index(h) : hash'[h][j] # NO_HASH => hash[h][j] # NO_HASH \/ (h = g /\ j = i)
  BY <1>2
<1>5. \A j \in Index(g) : hash[g][j] # x
  BY DEF Has
<1>6. \A h \in Gens : \A j \in Index(h) : value'[h][j] \in Values => hash'[h][j] # NO_HASH
  BY <1>1, <1>3 DEF SlotInv
<1>7. ASSUME NEW h \in Gens, NEW j \in Index(h), NEW k \in Index(h),
             hash'[h][j] = hash'[h][k], hash'[h][j] # NO_HASH
      PROVE  j = k
  <2> HIDE DEF i
  <2>1. CASE h = g /\ (j = i \/ k = i)
    BY <1>2, <1>5, <1>7, <2>1
  <2>2. CASE ~(h = g /\ (j = i \/ k = i))
    <3>1. hash'[h][j] = hash[h][j] /\ hash'[h][k] = hash[h][k]
      BY <1>2, <2>2
    <3> QED BY <1>1, <1>7, <3>1 DEF SlotInv
  <2> QED BY <2>1, <2>2
<1>8. ASSUME NEW h \in Gens, NEW j \in Index(h), NEW k \in Index(h),
             hash'[h][j] # NO_HASH, Probe(h, hash'[h][j], k) = j, NEW m \in 0 .. k - 1
      PROVE  hash'[h][Probe(h, hash'[h][j], m)] # NO_HASH
  <2>1. k \in Nat /\ m \in Nat /\ m < k
    <3>1. k \in Nat
      BY Sizes
    <3> QED BY <1>8, <3>1
  <2>2. hash'[h][j] \in Keys /\ hash'[h][j] \in Nat
    BY <1>2, ConstFacts
  <2>3. Probe(h, hash'[h][j], m) \in Index(h)
    BY <2>1, <2>2, Probes
  <2>4. hash[h][Probe(h, hash'[h][j], m)] # NO_HASH
    <3>1. CASE h = g /\ j = i
      <4>1. Probe(g, x, k) = Probe(g, x, n) /\ k \in Index(g)
        BY <1>2, <1>8, <3>1
      <4>2. k = n
        BY <1>1, <4>1, Probes
      <4>3. m \in 0 .. n - 1
        BY <4>2
      <4> QED BY <1>2, <3>1, <4>3
    <3>2. CASE ~(h = g /\ j = i)
      <4>1. hash'[h][j] = hash[h][j]
        BY <1>2, <3>2
      <4> QED BY <1>1, <1>8, <4>1 DEF SlotInv
    <3> QED BY <3>1, <3>2
  <2> QED BY <1>3, <2>3, <2>4
<1> QED BY <1>2, <1>3, <1>6, <1>7, <1>8 DEF SlotInv

LEMMA ClaimStep ==
    ASSUME IInv, NEW t \in Threads, pc[t] = "claim_cas", hash[my[t].d][ClaimSlot(t)] = NO_HASH,
           hash' = [hash EXCEPT ![my[t].d][ClaimSlot(t)] = Key(t)], Goto(t, "claim_inc"),
           UNCHANGED <<storage, next_storage, value, n_hashs, freed, content, start>>,
           UNCHANGED <<my, rover, answer, calls, patches>>
    PROVE  IInv' /\ Forward
<1>0. Claiming(t) /\ TypeInv /\ GenInv /\ ContentInv /\ SlotInv /\ pc[t] = "claim_cas"
  BY DEF Claiming, IInv
<1>1. PICK g \in Gens : g = my[t].d
  BY Basics
<1>2. PICK x \in Hashes : x = Key(t)
  BY <1>0, Addressed
<1>3. PICK n \in Nat : n = my[t].at
  BY Basics
<1>4. /\ ClaimSlot(t) = Probe(g, x, n) /\ n < Size[g] /\ ~Has(g, x)
      /\ \A k \in 0 .. n - 1 : hash[g][Probe(g, x, k)] # NO_HASH
  BY <1>0, <1>1, <1>2, <1>3, Basics, VirginMeans DEF ClaimSlot, ProbeAt
<1>5. /\ hash' = [h \in Gens |-> hash'[h]]
      /\ \A h \in Gens : hash'[h] \in [Index(h) -> Keys]
      /\ hash'[g][Probe(g, x, n)] = x
      /\ \A h \in Gens : \A j \in Index(h) :
            h # g \/ j # Probe(g, x, n) => hash'[h][j] = hash[h][j]
      /\ \A h \in Gens : \A j \in Index(h) :
            hash[h][j] # NO_HASH => hash'[h][j] = hash[h][j]
      /\ SlotInv'
  <2>1. hash[g][Probe(g, x, n)] = NO_HASH /\ hash' = [hash EXCEPT ![g][Probe(g, x, n)] = x]
    BY <1>1, <1>2, <1>4
  <2> QED BY <1>4, <2>1, ClaimSlots
<1>6. ThreadTypes' /\ pc'[t] = "claim_inc" /\ \A u \in Threads \ {t} : pc'[u] = pc[u]
  BY <1>0, Gone DEF Labels
<1>7. CallTypes'
  BY SameCalls
<1>8. TypeInv'
  BY <1>0, <1>5, <1>6, <1>7 DEF TypeInv, ThreadTypes, CallTypes, Answers
<1>9. storage \in Gens /\ next_storage \in Gens /\ storage \in Nat /\ next_storage \in {storage, storage + 1}
  BY Basics
<1>10. Forward
  BY <1>5, <1>9 DEF Forward
<1>11. g # 0 /\ g <= next_storage /\ (~Carrying(t) => g <= storage)
       /\ (Carrying(t) => Has(storage, x) \/ g < storage)
  <2>1. /\ g # 0 /\ g <= next_storage
        /\ ~Carrying(t) => g = my[t].p
        /\ Carrying(t) => content[x] = my[t].cv /\ my[t].cv \in Values
    BY <1>0, <1>1, <1>2, ClaimGen
  <2>2. Carrying(t) => Has(storage, x)
    BY <2>1, ContentHas, ConstFacts
  <2> QED BY <2>1, <2>2, Basics
<1>12. GenInv'
  <2>1. ASSUME NEW h \in next_storage + 1 .. MaxGen, NEW j \in Index(h)
        PROVE  hash'[h][j] = NO_HASH /\ value[h][j] = NULL
    <3>1. h \in Gens /\ h # g
      BY <1>9, <1>11, ConstFacts DEF Gens
    <3> QED BY <1>0, <1>5, <3>1 DEF GenInv
  <2>2. \A j \in Index(0) : hash'[0][j] = NO_HASH /\ value[0][j] = NULL
    BY <1>0, <1>5, <1>11, ConstFacts DEF GenInv
  <2>3. ASSUME next_storage # storage, NEW j \in Index(next_storage),
               hash'[next_storage][j] # NO_HASH
        PROVE  \E k \in Index(storage) : hash'[storage][k] = hash'[next_storage][j]
    <3>1. PICK y : y = hash'[next_storage][j]
      OBVIOUS
    <3>2. Has(storage, y)
      <4>1. CASE next_storage = g /\ j = Probe(g, x, n)
        <5>1. y = x
          BY <1>5, <3>1, <4>1
        <5>2. Carrying(t) /\ ~(g < storage)
          BY <1>9, <1>11, <2>3, <4>1
        <5> QED BY <1>11, <5>1, <5>2
      <4>2. CASE ~(next_storage = g /\ j = Probe(g, x, n))
        <5>1. y = hash[next_storage][j]
          BY <1>5, <1>9, <3>1, <4>2
        <5> QED BY <1>0, <2>3, <3>1, <5>1 DEF GenInv
      <4> QED BY <4>1, <4>2
    <3>3. PICK k \in Index(storage) : hash[storage][k] = y
      BY <3>2 DEF Has
    <3> QED BY <1>5, <1>9, <2>3, <3>1, <3>3
  <2> QED BY <1>0, <2>1, <2>2, <2>3 DEF GenInv, Has
<1>13. ContentInv'
  <2>1. ASSUME NEW h \in Gens, NEW y \in Hashes, NEW v, Maps(h, y, v)
        PROVE  \E j \in Index(h) : hash'[h][j] = y /\ value[h][j] = v
    BY <1>5, <2>1, ConstFacts DEF Maps
  <2>2. ASSUME NEW h \in storage .. next_storage, NEW j \in Index(h), value[h][j] \in Values
        PROVE  value[h][j] = content[hash'[h][j]]
    <3>1. h \in Gens
      BY <1>9
    <3>2. hash[h][j] # NO_HASH
      BY <1>0, <2>2, <3>1 DEF SlotInv
    <3> QED BY <1>0, <1>5, <2>2, <3>1, <3>2 DEF ContentInv
  <2>3. ASSUME NEW y \in Hashes, content[y] # NULL
        PROVE  \/ Maps(storage, y, content[y])'
               \/ /\ next_storage # storage
                  /\ Maps(storage, y, REDIRECT)' /\ Maps(next_storage, y, content[y])'
    <3>1. CASE Maps(storage, y, content[y])
      BY <1>9, <2>1, <3>1 DEF Maps
    <3>2. CASE /\ next_storage # storage
               /\ Maps(storage, y, REDIRECT) /\ Maps(next_storage, y, content[y])
      BY <1>9, <2>1, <3>2 DEF Maps
    <3> QED BY <1>0, <2>3, <3>1, <3>2 DEF ContentInv
  <2> QED BY <2>2, <2>3 DEF ContentInv, Maps
<1>14. ThreadAt(t)' /\ (Migrating(t) => Migrating(t)')
  <2>1. hash'[my[t].d][Probe(my[t].d, Key(t), my[t].at)] = Key(t)
    BY <1>1, <1>2, <1>3, <1>5
  <2> QED BY <1>0, <1>3, <1>6, <1>8, <1>10, <2>1, ClaimMoved
<1>15. MigratorInv' /\ Others(t)
  <2>1. Others(t)
    BY <1>6 DEF Others
  <2> QED BY <1>14, <2>1, MigratorStable
<1> QED BY <1>5, <1>8, <1>10, <1>12, <1>13, <1>14, <1>15, SharedStep

LEMMA ClaimCasStep ==
    ASSUME IInv, NEW t \in Threads, ClaimCas(t)
    PROVE  IInv' /\ Forward
<1> DEFINE h == hash[my[t].d][ClaimSlot(t)]
<1>1. /\ pc[t] = "claim_cas" /\ Claiming(t)
      /\ UNCHANGED <<storage, next_storage, value, n_hashs, freed, content, start>>
      /\ UNCHANGED <<rover, answer, calls, patches>>
  BY DEF ClaimCas, Claiming, world, rest
<1>2. CASE h \notin {NO_HASH, Key(t)} /\ ClaimNext(t) /\ UNCHANGED hash
  <2>1. UNCHANGED storages
    BY <1>1, <1>2 DEF storages
  <2> QED BY <1>1, <1>2, <2>1, ClaimNextStep
<1>3. CASE /\ h = NO_HASH
           /\ hash' = [hash EXCEPT ![my[t].d][ClaimSlot(t)] = Key(t)]
           /\ Goto(t, "claim_inc") /\ UNCHANGED my
  BY <1>1, <1>3, ClaimStep
<1>4. CASE h = Key(t) /\ Goto(t, my[t].then) /\ UNCHANGED <<my, hash>>
  <2>1. my[t].then \in Labels /\ my[t].then \notin {"claim", "claim_cas"} /\ UNCHANGED storages
    BY <1>1, <1>4, Basics DEF Labels, storages
  <2>2. ThreadTypes' /\ pc'[t] = my[t].then /\ \A u \in Threads \ {t} : pc'[u] = pc[u]
    <3>1. PICK l \in Labels : l = my[t].then
      BY <2>1
    <3> QED BY <1>1, <1>4, <3>1, Basics, Gone
  <2>3. CallTypes' /\ Forward /\ TypeInv'
    BY <1>1, <2>1, <2>2, SameCalls, StillForward, StillTyped
  <2>4. my[t].at \in Nat /\ hash[my[t].d][Probe(my[t].d, Key(t), my[t].at)] = Key(t)
    BY <1>4, Basics DEF ClaimSlot
  <2>5. ThreadAt(t)' /\ (Migrating(t) => Migrating(t)')
    BY <1>1, <1>4, <2>1, <2>2, <2>3, <2>4, ClaimMoved
  <2> QED BY <1>1, <1>4, <2>1, <2>2, <2>3, <2>5, LocalStep DEF Others
<1> QED BY <1>2, <1>3, <1>4 DEF ClaimCas

-----------------------------------------------------------------------------
(* Values *)

(* A slot of the current storage without a value: its hash was given none. *)
LEMMA NullMeans ==
    ASSUME IInv, NEW s \in Index(storage), hash[storage][s] \in Hashes, value[storage][s] = NULL
    PROVE  content[hash[storage][s]] = NULL
<1> DEFINE h == hash[storage][s]
<1>1. h \in Hashes /\ h # NO_HASH /\ storage \in Gens /\ TypeInv /\ SlotInv /\ ContentInv
  BY ConstFacts DEF IInv, TypeInv
<1> HIDE DEF h
<1>2. SUFFICES ASSUME content[h] # NULL PROVE FALSE
  BY DEF h
<1>3. PICK v \in Words \ {NULL} : Maps(storage, h, v)
  <2>1. content[h] \in Words
    BY <1>1 DEF TypeInv, Words
  <2> QED BY <1>1, <1>2, <2>1, ConstFacts DEF ContentInv, Words
<1>4. PICK j \in Index(storage) : hash[storage][j] = h /\ value[storage][j] = v
  BY <1>3 DEF Maps
<1>5. j = s
  BY <1>1, <1>4 DEF SlotInv, h
<1> QED BY <1>3, <1>4, <1>5

(* A value word that changes, in the types. *)
LEMMA CasTypes ==
    ASSUME IInv, NEW g \in Gens, NEW i \in Index(g), NEW new \in Words, NEW expect,
           CasValue(g, i, new, expect), ThreadTypes', CallTypes',
           UNCHANGED <<storage, next_storage, hash, n_hashs, freed, start>>,
           content' \in [Hashes -> Values \union {NULL}]
    PROVE  TypeInv'
<1>1. TypeInv
  BY DEF IInv
<1>2. value' = [h \in Gens |-> value'[h]] /\ \A h \in Gens : value'[h] \in [Index(h) -> Words]
  BY <1>1, CasFacts
<1> QED BY <1>1, <1>2 DEF TypeInv, ThreadTypes, CallTypes, Answers

(* A slot of the current storage is frozen: it has no value, or that has   *)
(* been carried to the next storage.                                       *)
LEMMA FreezeSlot ==
    ASSUME IInv, NEW t \in Threads, pc[t] \in CopyLabels, CopyNext(t),
           NEW e \in Values \union {NULL}, value[my[t].p][my[t].i] = e,
           CasValue(my[t].p, my[t].i, REDIRECT, e),
           e \in Values => Maps(next_storage, hash[my[t].p][my[t].i], e),
           UNCHANGED <<storage, next_storage, hash, n_hashs, freed, content, start>>,
           UNCHANGED <<rover, answer, calls, patches>>
    PROVE  IInv' /\ Forward
<1>1. PICK g \in Gens : g = my[t].p
  BY Basics
<1>2. PICK i \in Index(g) : i = my[t].i
  BY <1>1, CopierFacts
<1>3. TypeInv /\ SlotInv /\ GenInv /\ ContentInv
  BY DEF IInv
<1>4. e # REDIRECT /\ REDIRECT \in Words
  BY ConstFacts DEF Words
<1>5. g = storage /\ next_storage = storage + 1 /\ g # 0 /\ g \in Nat /\ next_storage \in Gens
  <2>1. value[my[t].p][my[t].i] # REDIRECT
    BY <1>4
  <2> QED BY <1>1, <2>1, SourceFacts, CopierFacts, Basics DEF IsConst
<1>6. /\ value[g][i] = e /\ value'[g][i] = REDIRECT
      /\ \A h \in Gens : \A j \in Index(h) : h # g \/ j # i => value'[h][j] = value[h][j]
  BY <1>1, <1>2, <1>3, <1>4, CasFacts
<1>7. Forward
  BY <1>4, <1>5, <1>6 DEF Forward
<1>8. \A j \in 0 .. my[t].i : value'[my[t].p][j] = REDIRECT
  <2>1. ASSUME NEW j \in 0 .. my[t].i, j # my[t].i PROVE j \in 0 .. my[t].i - 1
    BY <2>1, Basics
  <2> QED BY <1>1, <1>2, <1>6, <1>7, <2>1, CopierFacts DEF Forward
<1>9. /\ ThreadTypes' /\ ThreadAt(t)' /\ Migrating(t)' /\ my'[t].p = my[t].p
      /\ \A u \in Threads \ {t} : pc'[u] = pc[u] /\ my'[u] = my[u]
  BY <1>8, CopyNextAt
<1>10. TypeInv'
  <2>1. CallTypes'
    BY SameCalls
  <2>2. content' \in [Hashes -> Values \union {NULL}]
    BY <1>3 DEF TypeInv
  <2> QED BY <1>1, <1>2, <1>4, <1>9, <2>1, <2>2, CasTypes
<1>11. SlotInv'
  <2>1. \A h \in Gens : \A j \in Index(h) : value'[h][j] \in Values => value'[h][j] = value[h][j]
    BY <1>6, ConstFacts
  <2> QED BY <1>3, <2>1 DEF SlotInv
<1>12. GenInv'
  <2>1. \A h \in next_storage .. MaxGen : h \in Gens /\ h # g
    BY <1>5 DEF Gens
  <2>2. \A h \in next_storage + 1 .. MaxGen : h \in Gens /\ h # g
    BY <1>5 DEF Gens
  <2>3. \A h \in 0 .. storage - 1 : h \in Gens /\ h # g
    BY <1>5, ConstFacts DEF Gens
  <2>4. \A j \in Index(0) : value'[0][j] = value[0][j]
    BY <1>5, <1>6, ConstFacts
  <2>5. \A h \in 0 .. storage - 1 :
          /\ freed[h] = IF IsConst(h) THEN 0 ELSE 1
          /\ ~IsConst(h) => \A j \in Index(h) : value'[h][j] = REDIRECT
    BY <1>3, <1>6, <2>3 DEF GenInv
  <2>6. /\ \A h \in next_storage .. MaxGen : \A j \in Index(h) : value'[h][j] # REDIRECT
        /\ \A h \in next_storage + 1 .. MaxGen : \A j \in Index(h) : hash[h][j] = NO_HASH /\ value'[h][j] = NULL
    BY <1>3, <1>6, <2>1, <2>2 DEF GenInv
  <2> QED BY <1>3, <2>4, <2>5, <2>6 DEF GenInv, Has, IsConst
<1>13. ContentInv'
  <2>1. ASSUME NEW h \in storage .. next_storage, NEW j \in Index(h), value'[h][j] \in Values
        PROVE  value'[h][j] = content[hash[h][j]]
    <3>1. h \in Gens
      BY <1>5
    <3>2. value'[h][j] = value[h][j]
      BY <1>6, <2>1, <3>1, ConstFacts
    <3> QED BY <1>3, <2>1, <3>2 DEF ContentInv
  <2>2. ASSUME NEW h \in Gens, NEW y, NEW v, v # e \/ h # g, Maps(h, y, v) PROVE Maps(h, y, v)'
    <3>1. PICK j \in Index(h) : hash[h][j] = y /\ value[h][j] = v
      BY <2>2 DEF Maps
    <3>2. value'[h][j] = v
      BY <1>6, <2>2, <3>1
    <3> QED BY <3>1, <3>2 DEF Maps
  <2>3. ASSUME NEW y \in Hashes, content[y] # NULL
        PROVE  \/ Maps(storage, y, content[y])'
               \/ /\ next_storage # storage
                  /\ Maps(storage, y, REDIRECT)' /\ Maps(next_storage, y, content[y])'
    <3>1. PICK w : w = content[y]
      OBVIOUS
    <3>2. w \in Values
      BY <1>3, <2>3, <3>1 DEF TypeInv
    <3>3. CASE Maps(storage, y, w)
      <4>1. PICK j \in Index(g) : hash[g][j] = y /\ value[g][j] = w
        BY <1>5, <3>3 DEF Maps
      <4>2. CASE j = i
        <5>1. w = e /\ e \in Values /\ Maps(next_storage, y, e)
          BY <1>1, <1>2, <1>6, <3>2, <4>1, <4>2
        <5>2. Maps(next_storage, y, w)'
          BY <1>5, <2>2, <5>1
        <5>3. Maps(storage, y, REDIRECT)'
          BY <1>5, <1>6, <4>1, <4>2 DEF Maps
        <5> QED BY <1>5, <3>1, <5>2, <5>3 DEF Maps
      <4>3. CASE j # i
        BY <1>5, <1>6, <3>1, <4>1, <4>3 DEF Maps
      <4> QED BY <4>2, <4>3
    <3>4. CASE /\ next_storage # storage
               /\ Maps(storage, y, REDIRECT) /\ Maps(next_storage, y, w)
      <4>1. Maps(storage, y, REDIRECT)' /\ Maps(next_storage, y, w)'
        BY <1>4, <1>5, <2>2, <3>4
      <4> QED BY <3>1, <3>4, <4>1 DEF Maps
    <3> QED BY <1>3, <2>3, <3>1, <3>3, <3>4 DEF ContentInv
  <2> QED BY <2>1, <2>3 DEF ContentInv, Maps
<1>14. Others(t) /\ MigratorInv'
  <2>1. Others(t)
    BY <1>9 DEF Others
  <2> QED BY <1>9, <2>1, MigratorStable
<1> QED BY <1>7, <1>9, <1>10, <1>11, <1>12, <1>13, <1>14, SharedStep

LEMMA CopyVirginStep ==
    ASSUME IInv, NEW t \in Threads, CopyVirgin(t)
    PROVE  IInv' /\ Forward
<1> DEFINE v == value[my[t].p][my[t].i]
           h == hash[my[t].p][my[t].i]
<1>1. /\ pc[t] = "copy_virgin" /\ pc[t] \in CopyLabels /\ CasValue(my[t].p, my[t].i, REDIRECT, NULL)
      /\ UNCHANGED <<storage, next_storage, hash, n_hashs, freed, content, start>>
      /\ UNCHANGED <<rover, answer, calls, patches>> /\ Scene' = Scene
  BY DEF CopyVirgin, CopyLabels, world, rest, Scene
<1>2. v # NULL => value' = value
  <2>1. PICK g \in Gens : g = my[t].p
    BY Basics
  <2>2. PICK i \in Index(g) : i = my[t].i
    BY <1>1, <2>1, CopierFacts
  <2>3. REDIRECT \in Words /\ TypeInv /\ CasValue(g, i, REDIRECT, NULL)
    BY <1>1, <2>1, <2>2 DEF Words, IInv
  <2>4. value[g][i] # NULL => value' = value
    BY <2>3, CasFacts
  <2> QED BY <2>1, <2>2, <2>4
<1>3. CASE v = NULL /\ CopyNext(t)
  <2>1. NULL \in Values \union {NULL} /\ NULL \notin Values
    BY ConstFacts
  <2> QED BY <1>1, <1>3, <2>1, FreezeSlot
<1>4. CASE v = REDIRECT /\ CopyNext(t)
  <2>1. UNCHANGED storages /\ value' = value
    BY <1>1, <1>2, <1>4, ConstFacts DEF storages
  <2>2. \A j \in 0 .. my[t].i : value'[my[t].p][j] = REDIRECT
    <3>1. ASSUME NEW j \in 0 .. my[t].i, j # my[t].i PROVE j \in 0 .. my[t].i - 1
      BY <3>1, Basics
    <3> QED BY <1>1, <1>4, <2>1, <3>1, CopierFacts
  <2>3. /\ ThreadTypes' /\ ThreadAt(t)' /\ Migrating(t)' /\ my'[t].p = my[t].p
        /\ \A u \in Threads \ {t} : pc'[u] = pc[u] /\ my'[u] = my[u]
    BY <1>1, <1>4, <2>2, CopyNextAt
  <2> QED BY <1>1, <2>1, <2>3, SameCalls, LocalStep DEF Others
<1>5. CASE /\ v \in Values
           /\ my' = [my EXCEPT ![t].cv = v]
           /\ Goto(t, "copy_rehash")
  <2>1. UNCHANGED storages /\ value' = value
    BY <1>1, <1>2, <1>5, ConstFacts DEF storages
  <2> DEFINE m == [my[t] EXCEPT !.cv = v]
  <2>2. my' = [my EXCEPT ![t] = m] /\ Goto(t, "copy_rehash")
    BY <1>5
  <2>3. m \in Locals /\ m.cv = v /\ m.call = my[t].call /\ m.p = my[t].p /\ m.q = my[t].q
        /\ m.i = my[t].i /\ m.then = my[t].then
    <3>1. my[t] \in Locals
      BY DEF IInv, TypeInv
    <3> QED BY <1>5, <3>1 DEF Locals
  <2> HIDE DEF m
  <2>4. /\ ThreadTypes' /\ pc'[t] = "copy_rehash" /\ my'[t] = m
        /\ \A u \in Threads \ {t} : pc'[u] = pc[u] /\ my'[u] = my[u]
    BY <1>1, <2>2, <2>3, Basics, Moved DEF Labels
  <2>5. /\ ~Carrying(t) /\ ~IsConst(my[t].p) /\ my[t].p < my[t].q /\ my[t].q <= next_storage
        /\ my[t].i < Size[my[t].p] /\ my[t].call \in Scene.calls[t] /\ my[t].p <= storage
        /\ \A j \in 0 .. my[t].i - 1 : value[my[t].p][j] = REDIRECT
    BY <1>1, CopierFacts, Basics, Sizes
  <2>6. /\ h \in Hashes /\ h # NO_HASH /\ content[h] = v /\ my[t].q = next_storage
        /\ next_storage = storage + 1
    BY <1>1, <1>5, SourceFacts, ConstFacts
  <2>7. Migrating(t)' /\ ~Carrying(t)' /\ ~Claiming(t)'
    BY <2>3, <2>4, <2>5 DEF Migrating, Carrying, Claiming
  <2>8. CallAt(t)' /\ ProbeAt(t)'
    BY <1>1, <2>3, <2>4, <2>5, <2>7 DEF CallAt, ProbeAt
  <2>9. CopyAt(t)'
    <3>1. ~(my[t].q < storage)
      BY <2>6, Basics
    <3> QED BY <1>1, <1>5, <2>1, <2>3, <2>4, <2>5, <2>6, <2>7, <3>1 DEF CopyAt, IsConst
  <2> QED BY <1>1, <2>1, <2>3, <2>4, <2>7, <2>8, <2>9, SameCalls, LocalStep DEF Others, ThreadAt
<1> QED BY <1>3, <1>4, <1>5 DEF CopyVirgin

LEMMA FreezeStep ==
    ASSUME IInv, NEW t \in Threads, Freeze(t)
    PROVE  IInv' /\ Forward
<1> DEFINE v == value[my[t].p][my[t].i]
           h == hash[my[t].p][my[t].i]
<1>1. /\ pc[t] = "freeze" /\ pc[t] \in CopyLabels
      /\ CasValue(my[t].p, my[t].i, REDIRECT, my[t].cv)
      /\ UNCHANGED <<storage, next_storage, hash, n_hashs, freed, content, start>>
      /\ UNCHANGED <<rover, answer, calls, patches>>
  BY DEF Freeze, CopyLabels, world, rest
<1>2. /\ my[t].ch = h /\ h # NO_HASH /\ h \in Keys /\ v \in Words
      /\ Carrying(t) => my[t].cv \in Values /\ content[h] = my[t].cv
      /\ ~Carrying(t) => my[t].cv = NULL
      /\ Carrying(t) /\ my[t].p = storage => Maps(next_storage, h, my[t].cv)
  BY <1>1, CopierFacts, Basics DEF CopyAt
<1>3. CASE v = my[t].cv /\ CopyNext(t)
  <2>1. PICK e \in Values \union {NULL} : e = my[t].cv
    BY Basics
  <2>2. e # REDIRECT /\ (e \in Values => Carrying(t))
    BY <1>2, <2>1, ConstFacts
  <2>3. my[t].p = storage
    BY <1>1, <1>3, <2>1, <2>2, SourceFacts
  <2>4. e \in Values => Maps(next_storage, h, e)
    BY <1>2, <2>1, <2>2, <2>3
  <2> QED BY <1>1, <1>3, <2>1, <2>4, FreezeSlot
<1>4. CASE v # my[t].cv /\ CopyLoop(t, my[t].ch, v)
  <2>1. value' = value
    <3>1. PICK g \in Gens : g = my[t].p
      BY Basics
    <3>2. PICK i \in Index(g) : i = my[t].i
      BY <1>1, <3>1, CopierFacts
    <3>3. PICK e : e = my[t].cv
      OBVIOUS
    <3>4. REDIRECT \in Words /\ TypeInv /\ CasValue(g, i, REDIRECT, e) /\ value[g][i] # e
      BY <1>1, <1>4, <3>1, <3>2, <3>3 DEF Words, IInv
    <3> QED BY <3>4, CasFacts
  <2>2. UNCHANGED storages
    BY <1>1, <2>1 DEF storages
  <2>3. v = NULL => ~Carrying(t)
    BY <1>1, <1>2, SourceFacts, ConstFacts
  <2>4. v \in Values => content[h] = v /\ ~(my[t].q < storage)
    <3>1. v \in Values => content[h] = v /\ my[t].q = next_storage /\ next_storage = storage + 1
      BY <1>1, SourceFacts, ConstFacts
    <3> QED BY <3>1, Basics
  <2>5. PICK k \in Keys : k = my[t].ch
    BY <1>2
  <2>6. PICK w \in Words : w = v
    BY <1>2
  <2> HIDE DEF h, v
  <2> QED BY <1>1, <1>2, <1>4, <2>2, <2>3, <2>4, <2>5, <2>6, CopyLoopStep DEF h, v
<1> QED BY <1>3, <1>4 DEF Freeze

(* A slot gets its value: what its hash is given, or what it was given     *)
(* before and is carried to the next storage.                              *)
LEMMA GivenSlot ==
    ASSUME IInv, NEW g \in Gens, NEW s \in Index(g), NEW v \in Values, value[g][s] = NULL,
           CasValue(g, s, v, NULL), g # 0, hash[g][s] \in Hashes,
           \/ g = storage /\ content[hash[g][s]] = NULL
           \/ g = next_storage /\ g # storage /\ content[hash[g][s]] = v,
           UNCHANGED <<storage, next_storage, hash, n_hashs, freed, start>>,
           content' \in [Hashes -> Values \union {NULL}], content'[hash[g][s]] = v,
           \A h \in Hashes \ {hash[g][s]} : content'[h] = content[h]
    PROVE  SlotInv' /\ GenInv' /\ ContentInv' /\ Forward
<1>1. TypeInv /\ SlotInv /\ GenInv /\ ContentInv
  BY DEF IInv
<1>2. /\ storage \in Nat /\ next_storage \in Nat /\ storage \in Gens /\ next_storage \in Gens
      /\ next_storage \in {storage, storage + 1} /\ MaxGen \in Nat /\ g \in Nat
  BY <1>1, ConstFacts DEF TypeInv, GenInv, Gens
<1>3. v \in Words /\ v # REDIRECT /\ v # NULL
  BY ConstFacts DEF Words
<1>4. /\ value'[g][s] = v
      /\ \A h \in Gens : \A j \in Index(h) : h # g \/ j # s => value'[h][j] = value[h][j]
  BY <1>1, <1>3, CasFacts
<1>5. PICK x \in Hashes : x = hash[g][s] /\ x # NO_HASH
  BY ConstFacts
<1>6. Forward
  <2>1. \A h \in Gens : \A j \in Index(h) : value[h][j] # NULL => value'[h][j] = value[h][j]
    BY <1>4
  <2>2. \A h \in Hashes : content[h] # NULL => content'[h] = content[h]
    BY <1>3
  <2>3. ASSUME NEW h \in Gens, NEW j \in Index(h)
        PROVE  /\ value[h][j] = REDIRECT => value'[h][j] = REDIRECT
               /\ value[h][j] \in Values => value'[h][j] \in {value[h][j], REDIRECT}
    BY <2>1, ConstFacts
  <2>4. storage <= storage' /\ storage' \in {storage, next_storage} /\ next_storage <= next_storage'
    BY <1>2
  <2> QED BY <2>2, <2>3, <2>4 DEF Forward
<1>7. SlotInv'
  BY <1>1, <1>4, <1>5 DEF SlotInv
<1>8. GenInv'
  <2>1. ASSUME NEW h \in 0 .. storage - 1
        PROVE  /\ freed[h] = IF IsConst(h) THEN 0 ELSE 1
               /\ ~IsConst(h) => \A j \in Index(h) : value'[h][j] = REDIRECT
    <3>1. h \in Gens /\ h # g
      BY <1>2 DEF Gens
    <3> QED BY <1>1, <1>4, <3>1 DEF GenInv
  <2>2. ASSUME NEW h \in next_storage .. MaxGen, NEW j \in Index(h) PROVE value'[h][j] # REDIRECT
    <3>1. h \in Gens
      BY <1>2 DEF Gens
    <3> QED BY <1>1, <1>3, <1>4, <3>1 DEF GenInv
  <2>3. ASSUME NEW h \in next_storage + 1 .. MaxGen, NEW j \in Index(h)
        PROVE  hash[h][j] = NO_HASH /\ value'[h][j] = NULL
    <3>1. h \in Gens /\ h # g
      BY <1>2 DEF Gens
    <3> QED BY <1>1, <1>4, <3>1 DEF GenInv
  <2>4. \A j \in Index(0) : value'[0][j] = value[0][j]
    BY <1>4, ConstFacts
  <2> QED BY <1>1, <2>1, <2>2, <2>3, <2>4 DEF GenInv, Has, IsConst
<1>9. ContentInv'
  <2>1. ASSUME NEW h \in storage .. next_storage, NEW j \in Index(h), value'[h][j] \in Values
        PROVE  value'[h][j] = content'[hash[h][j]]
    <3>1. h \in Gens
      BY <1>2
    <3>2. CASE h = g /\ j = s
      BY <1>4, <3>2
    <3>3. CASE ~(h = g /\ j = s)
      <4>1. value'[h][j] = value[h][j]
        BY <1>4, <3>1, <3>3
      <4>2. hash[h][j] \in Hashes
        BY <1>1, <2>1, <3>1, <4>1 DEF SlotInv, TypeInv, Keys
      <4>3. value[h][j] = content[hash[h][j]]
        BY <1>1, <2>1, <4>1 DEF ContentInv
      <4>4. content[hash[h][j]] # NULL
        BY <2>1, <4>1, <4>3, ConstFacts
      <4> QED BY <1>6, <4>1, <4>2, <4>3, <4>4 DEF Forward
    <3> QED BY <3>2, <3>3
  <2>2. ASSUME NEW h \in Gens, NEW y, NEW w, w # NULL, Maps(h, y, w) PROVE Maps(h, y, w)'
    <3>1. PICK j \in Index(h) : hash[h][j] = y /\ value[h][j] = w
      BY <2>2 DEF Maps
    <3>2. value'[h][j] = w
      BY <1>4, <2>2, <3>1
    <3> QED BY <3>1, <3>2 DEF Maps
  <2>3. ASSUME NEW y \in Hashes, content'[y] # NULL
        PROVE  \/ Maps(storage, y, content[y])'
               \/ /\ next_storage # storage
                  /\ Maps(storage, y, REDIRECT)' /\ Maps(next_storage, y, content[y])'
    <3>1. PICK w : w = content'[y]
      OBVIOUS
    <3>2. CASE y = x /\ g = storage
      <4>1. w = v /\ value'[storage][s] = w /\ hash[storage][s] = y
        BY <1>4, <1>5, <3>1, <3>2
      <4> QED BY <3>1, <3>2, <4>1 DEF Maps
    <3>3. CASE ~(y = x /\ g = storage)
      <4>1. content[y] = w /\ w # NULL /\ w \in Values
        BY <1>1, <1>5, <2>3, <3>1, <3>3 DEF TypeInv
      <4>2. \/ Maps(storage, y, w)
            \/ /\ next_storage # storage
               /\ Maps(storage, y, REDIRECT) /\ Maps(next_storage, y, w)
        BY <1>1, <4>1 DEF ContentInv
      <4>3. CASE Maps(storage, y, w)
        <5>1. Maps(storage, y, w)'
          BY <1>2, <2>2, <4>1, <4>3
        <5> QED BY <3>1, <5>1 DEF Maps
      <4>4. CASE /\ next_storage # storage
                 /\ Maps(storage, y, REDIRECT) /\ Maps(next_storage, y, w)
        <5>1. Maps(storage, y, REDIRECT)' /\ Maps(next_storage, y, w)'
          BY <1>2, <2>2, <4>1, <4>4, ConstFacts
        <5> QED BY <3>1, <4>4, <5>1 DEF Maps
      <4> QED BY <4>2, <4>3, <4>4
    <3> QED BY <3>2, <3>3
  <2> QED BY <2>1, <2>3 DEF ContentInv, Maps
<1> QED BY <1>6, <1>7, <1>8, <1>9

(* A storage that a thread finds a slot in that is not frozen. *)
LEMMA NotRetired ==
    ASSUME IInv, NEW g \in Gens, g # 0, NEW s \in Index(g), value[g][s] # REDIRECT
    PROVE  g >= storage
<1>1. storage \in Nat /\ g \in Nat /\ GenInv
  BY DEF IInv, TypeInv, Gens
<1> QED BY <1>1 DEF GenInv, IsConst

LEMMA FillStep ==
    ASSUME IInv, NEW t \in Threads, Fill(t)
    PROVE  IInv' /\ Forward
<1>1. /\ pc[t] = "fill"
      /\ UNCHANGED <<storage, next_storage, hash, n_hashs, freed, start>>
      /\ UNCHANGED <<rover, calls, patches>> /\ Scene' = Scene
  BY DEF Fill, world, Scene
<1>2. PICK g \in Gens : g = my[t].d
  BY Basics
<1>3. PICK s \in Index(g) : s = ClaimSlot(t)
  BY <1>1, <1>2, Addressed
<1>4. PICK v \in Values : v = my[t].call.value
  BY <1>1, Addressed
<1>5. /\ TypeInv /\ v \in Words /\ v # NULL /\ ~Carrying(t) /\ ~Migrating(t)
      /\ rover' \in [Threads -> Rovers]
  <2>1. ~Carrying(t)
    BY <1>1, Basics DEF ProbeAt, Claiming
  <2> QED BY <1>1, <2>1, ConstFacts DEF IInv, TypeInv, Words, Migrating
<1>6. CasValue(g, s, v, NULL)
  BY <1>2, <1>3, <1>4 DEF Fill
<1>7. value[g][s] # NULL => value' = value
  BY <1>5, <1>6, CasFacts
<1>8. my[t].call.hash \in Hashes /\ hash[g][s] = my[t].call.hash
  BY <1>1, <1>2, <1>3, <1>5, Addressed, Basics DEF ProbeAt
<1>9. CASE /\ value[g][s] = NULL
           /\ content' = [content EXCEPT ![my[t].call.hash] = v]
           /\ \E a \in Answers : Return(t, a)
  <2>1. PICK a \in Answers : Return(t, a)
    BY <1>9
  <2>2. g # 0 /\ g = my[t].p /\ my[t].p <= storage
    BY <1>1, <1>2, <1>5, ClaimGen, Basics
  <2>3. g = storage
    <3>1. g >= storage
      BY <1>9, <2>2, NotRetired, ConstFacts
    <3> QED BY <2>2, <3>1, Basics
  <2>4. content[hash[g][s]] = NULL
    BY <1>8, <1>9, <2>3, NullMeans
  <2>5. /\ content' \in [Hashes -> Values \union {NULL}] /\ content'[hash[g][s]] = v
        /\ \A h \in Hashes \ {hash[g][s]} : content'[h] = content[h]
    BY <1>5, <1>8, <1>9 DEF TypeInv
  <2>6. SlotInv' /\ GenInv' /\ ContentInv' /\ Forward
    BY <1>1, <1>6, <1>8, <1>9, <2>2, <2>3, <2>4, <2>5, GivenSlot
  <2>7. /\ ThreadTypes' /\ answer' \in [Threads -> Answers]
        /\ pc'[t] = "idle" /\ my'[t] = NoLocals
        /\ \A u \in Threads \ {t} : pc'[u] = pc[u] /\ my'[u] = my[u]
    BY <1>1, <1>5, <2>1, ReturnTypes
  <2>8. CallTypes'
    BY <1>1, <1>5, <2>7 DEF TypeInv, CallTypes
  <2>9. TypeInv'
    BY <1>1, <1>5, <1>6, <2>5, <2>7, <2>8, CasTypes
  <2>10. ThreadAt(t)'
    <3>1. NoLocals.p = 0 /\ NoLocals.then = "fill" /\ ~Claiming(t)'
      BY <2>7 DEF NoLocals, Claiming
    <3>2. CallAt(t)'
      BY <1>1, <2>7, <3>1, Basics DEF CallAt
    <3> QED BY <2>7, <3>1, <3>2, Quiet DEF QuietLabels
  <2>11. Others(t) /\ MigratorInv'
    <3>1. Others(t)
      BY <1>1, <2>7 DEF Others
    <3> QED BY <1>1, <1>5, <3>1, MigratorStable
  <2> QED BY <2>6, <2>9, <2>10, <2>11, SharedStep
<1>10. CASE value[g][s] = REDIRECT /\ Goto(t, "mig_next") /\ UNCHANGED <<my, answer, content>>
  <2>1. UNCHANGED storages
    BY <1>1, <1>7, <1>10, ConstFacts DEF storages
  <2> QED BY <1>1, <1>10, <2>1, GotoStep DEF QuietLabels
<1>11. CASE /\ value[g][s] \in Values
            /\ \E a \in Answers : Return(t, a)
            /\ UNCHANGED content
  <2>1. UNCHANGED storages
    BY <1>1, <1>7, <1>11, ConstFacts DEF storages
  <2> QED BY <1>1, <1>5, <1>11, <2>1, ReturnStep
<1>12. \/ /\ value[g][s] = NULL
          /\ content' = [content EXCEPT ![my[t].call.hash] = v]
          /\ Return(t, IF my[t].call.op = "insert" THEN "0" ELSE NULL)
       \/ value[g][s] = REDIRECT /\ Goto(t, "mig_next") /\ UNCHANGED <<my, answer, content>>
       \/ /\ value[g][s] \in Values
          /\ Return(t, IF my[t].call.op = "insert" THEN "EEXIST" ELSE value[g][s])
          /\ UNCHANGED content
  BY <1>2, <1>3, <1>4 DEF Fill
<1>13. /\ (IF my[t].call.op = "insert" THEN "0" ELSE NULL) \in Answers
       /\ value[g][s] \in Values =>
            (IF my[t].call.op = "insert" THEN "EEXIST" ELSE value[g][s]) \in Answers
  BY DEF Answers
<1> QED BY <1>9, <1>10, <1>11, <1>12, <1>13

LEMMA PutStep ==
    ASSUME IInv, NEW t \in Threads, Put(t)
    PROVE  IInv' /\ Forward
<1>1. /\ pc[t] = "put"
      /\ UNCHANGED <<storage, next_storage, hash, n_hashs, freed, content, start>>
      /\ UNCHANGED <<my, rover, answer, calls, patches>> /\ Scene' = Scene
  BY DEF Put, world, rest, Scene
<1>2. PICK g \in Gens : g = my[t].d
  BY Basics
<1>3. PICK s \in Index(g) : s = ClaimSlot(t)
  BY <1>1, <1>2, Addressed
<1>4. Carrying(t) /\ Migrating(t)
  BY <1>1, Basics DEF ProbeAt, Migrating
<1>5. PICK v \in Values : v = my[t].cv
  BY <1>1, <1>4, ClaimGen
<1>6. PICK x \in Hashes : x = Key(t) /\ x = my[t].ch /\ hash[g][s] = x /\ content[x] = v
  BY <1>1, <1>2, <1>3, <1>4, <1>5, Addressed, ClaimGen, Basics DEF ProbeAt
<1>7. v \in Words /\ v # NULL /\ v # REDIRECT /\ TypeInv /\ CasValue(g, s, v, NULL)
  BY <1>2, <1>3, <1>5, ConstFacts DEF Put, Words, IInv
<1>8. value[g][s] # NULL => value' = value
  BY <1>7, CasFacts
<1>9. g # 0 /\ g <= next_storage /\ my[t].p < g /\ g \in Nat
  BY <1>1, <1>2, <1>4, ClaimGen, Basics
<1>10. PICK l \in {"follow", "freeze"} :
         Goto(t, l) /\ (l = "freeze" => value[g][s] # REDIRECT)
  BY <1>2, <1>3 DEF Put
<1>11. ThreadTypes' /\ pc'[t] = l /\ \A u \in Threads \ {t} : pc'[u] = pc[u]
  <2>1. l \in Labels
    BY <1>10 DEF Labels
  <2> QED BY <1>1, <1>7, <1>10, <2>1, Gone
<1>12. CallTypes' /\ TypeInv'
  <2>1. CallTypes'
    BY <1>1, SameCalls
  <2>2. content' \in [Hashes -> Values \union {NULL}]
    BY <1>1, <1>7 DEF TypeInv
  <2> QED BY <1>1, <1>7, <1>11, <2>1, <2>2, CasTypes
<1>13. value[g][s] = NULL => g = next_storage /\ g # storage
  <2>1. SUFFICES ASSUME value[g][s] = NULL PROVE g = next_storage /\ g # storage
    OBVIOUS
  <2>2. g >= storage
    BY <1>9, <2>1, NotRetired, ConstFacts
  <2>3. g # storage
    BY <1>6, <1>7, <2>1, NullMeans
  <2> QED BY <1>9, <2>2, <2>3, Basics
<1>14. SlotInv' /\ GenInv' /\ ContentInv' /\ Forward
  <2>1. CASE value[g][s] = NULL
    <3>1. /\ content' \in [Hashes -> Values \union {NULL}] /\ content'[hash[g][s]] = v
          /\ \A h \in Hashes \ {hash[g][s]} : content'[h] = content[h]
      BY <1>1, <1>6, <1>7 DEF TypeInv
    <3> QED BY <1>1, <1>6, <1>7, <1>9, <1>13, <2>1, <3>1, GivenSlot
  <2>2. CASE value[g][s] # NULL
    <3>1. UNCHANGED storages
      BY <1>1, <1>8, <2>2 DEF storages
    <3> QED BY <3>1, StillForward
  <2> QED BY <2>1, <2>2
<1>15. l = "freeze" /\ my[t].p = storage => Maps(next_storage, my[t].ch, my[t].cv)'
  <2>1. SUFFICES ASSUME l = "freeze", my[t].p = storage
                 PROVE  Maps(next_storage, my[t].ch, my[t].cv)'
    OBVIOUS
  <2>2. g = next_storage /\ g \in storage .. next_storage
    BY <1>9, <2>1, Basics
  <2>3. value'[g][s] = v
    <3>1. CASE value[g][s] = NULL
      BY <1>7, <3>1, CasFacts
    <3>2. CASE value[g][s] # NULL
      <4>1. value[g][s] \in Values
        BY <1>7, <1>10, <2>1, <3>2 DEF TypeInv, Words
      <4>2. value[g][s] = content[hash[g][s]]
        BY <2>2, <4>1 DEF IInv, ContentInv
      <4> QED BY <1>6, <1>8, <3>2, <4>2
    <3> QED BY <3>1, <3>2
  <2> QED BY <1>1, <1>5, <1>6, <2>2, <2>3 DEF Maps
<1>16. CopyAt(t)' /\ Carrying(t)' /\ Migrating(t)'
  BY <1>1, <1>4, <1>11, <1>12, <1>14, <1>15, CarryStable
<1>17. CallAt(t)' /\ ProbeAt(t)'
  <2>1. ~Claiming(t)' /\ my[t].call \in Scene.calls[t]
    BY <1>1, <1>10, <1>11, Basics DEF Claiming, CallAt
  <2> QED BY <1>1, <1>10, <1>11, <1>16, <2>1, Basics DEF CallAt, ProbeAt
<1>18. Others(t) /\ MigratorInv'
  <2>1. Others(t)
    BY <1>1, <1>11 DEF Others
  <2> QED BY <1>1, <1>16, <2>1, MigratorStable
<1> QED BY <1>12, <1>14, <1>16, <1>17, <1>18, SharedStep DEF ThreadAt

-----------------------------------------------------------------------------
(* Storages *)

LEMMA MigAllocStep ==
    ASSUME IInv, NEW t \in Threads, MigAlloc(t)
    PROVE  IInv' /\ Forward
<1>1. /\ pc[t] = "mig_alloc" /\ my[t].p < MaxGen /\ Goto(t, CopyFrom(my[t].p))
      /\ UNCHANGED <<storage, hash, value, n_hashs, freed, content, start>>
      /\ UNCHANGED <<rover, answer, calls, patches>>
  BY DEF MigAlloc, slots, rest
<1>2. /\ TypeInv /\ SlotInv /\ GenInv /\ ContentInv /\ my[t] \in Locals
      /\ my[t].i = 0 /\ my[t].then # "put" /\ ~Migrating(t)
  BY <1>1, Basics, QuietNow DEF IInv, TypeInv, CallAt, QuietLabels
<1>3. ASSUME NEW q \in Gens, my' = [my EXCEPT ![t].q = q], my[t].p < q, q <= next_storage'
      PROVE  /\ ThreadTypes' /\ ThreadAt(t)' /\ Migrating(t)' /\ my'[t].p = my[t].p
             /\ \A u \in Threads \ {t} : pc'[u] = pc[u] /\ my'[u] = my[u]
  <2> DEFINE m == [my[t] EXCEPT !.q = q]
  <2>1. my' = [my EXCEPT ![t] = m]
    BY <1>3
  <2>2. m \in Locals /\ m.call = my[t].call /\ m.p = my[t].p /\ m.q = q /\ m.i = 0 /\ m.then # "put"
    BY <1>2 DEF Locals
  <2> HIDE DEF m
  <2> QED BY <1>1, <1>3, <2>1, <2>2, CopyBegins
<1>4. CASE /\ next_storage = my[t].p
           /\ next_storage' = my[t].p + 1
           /\ my' = [my EXCEPT ![t].q = my[t].p + 1]
  <2>1. /\ my[t].p = storage /\ next_storage = storage /\ next_storage' = storage + 1
        /\ storage \in Nat /\ storage + 1 \in Gens /\ storage \in Gens /\ MaxGen \in Nat
    BY <1>1, <1>4, Basics, ConstFacts DEF Gens
  <2>2. /\ ThreadTypes' /\ ThreadAt(t)' /\ Migrating(t)' /\ my'[t].p = my[t].p
        /\ \A u \in Threads \ {t} : pc'[u] = pc[u] /\ my'[u] = my[u]
    <3>1. PICK q \in Gens : q = storage + 1
      BY <2>1
    <3>2. my' = [my EXCEPT ![t].q = q] /\ my[t].p < q /\ q <= next_storage'
      BY <1>4, <2>1, <3>1
    <3> QED BY <1>3, <3>2
  <2>3. CallTypes'
    BY <1>1, SameCalls
  <2>4. TypeInv'
    BY <1>1, <1>2, <2>1, <2>2, <2>3 DEF TypeInv, ThreadTypes, CallTypes, Answers
  <2>5. SlotInv'
    BY <1>1, <1>2 DEF SlotInv
  <2>6. \A i \in Index(storage + 1) : hash[storage + 1][i] = NO_HASH /\ value[storage + 1][i] = NULL
    <3>1. storage + 1 \in next_storage + 1 .. MaxGen
      BY <2>1 DEF Gens
    <3> QED BY <1>2, <3>1 DEF GenInv
  <2>7. GenInv'
    <3>1. ASSUME NEW g \in storage + 1 .. MaxGen, NEW i \in Index(g) PROVE value[g][i] # REDIRECT
      <4>1. g \in next_storage .. MaxGen
        BY <2>1
      <4> QED BY <1>2, <4>1 DEF GenInv
    <3>2. ASSUME NEW g \in (storage + 1) + 1 .. MaxGen, NEW i \in Index(g)
          PROVE  hash[g][i] = NO_HASH /\ value[g][i] = NULL
      <4>1. g \in next_storage + 1 .. MaxGen
        BY <2>1
      <4> QED BY <1>2, <4>1 DEF GenInv
    <3> QED BY <1>1, <1>2, <2>1, <2>6, <3>1, <3>2 DEF GenInv, Has
  <2>8. ContentInv'
    <3>1. ASSUME NEW g \in storage .. storage + 1, NEW i \in Index(g), value[g][i] \in Values
          PROVE  value[g][i] = content[hash[g][i]]
      <4>1. g = storage
        BY <2>1, <2>6, <3>1, ConstFacts
      <4>2. g \in storage .. next_storage
        BY <2>1, <4>1
      <4> QED BY <1>2, <3>1, <4>2 DEF ContentInv
    <3>2. \A h \in Hashes : content[h] # NULL => Maps(storage, h, content[h])
      BY <1>2, <2>1 DEF ContentInv
    <3> QED BY <1>1, <2>1, <3>1, <3>2 DEF ContentInv, Maps
  <2>9. MigratorInv'
    BY <1>1, <2>1, <2>2 DEF MigratorInv
  <2>10. Forward
    BY <1>1, <2>1 DEF Forward
  <2>11. Others(t)
    BY <1>1, <2>2 DEF Others
  <2> QED BY <2>2, <2>4, <2>5, <2>7, <2>8, <2>9, <2>10, <2>11, SharedStep
<1>5. CASE /\ next_storage # my[t].p
           /\ my' = [my EXCEPT ![t].q = next_storage]
           /\ UNCHANGED next_storage
  <2>1. my[t].p < next_storage /\ next_storage <= next_storage' /\ next_storage \in Gens
    BY <1>5, Basics
  <2>2. /\ ThreadTypes' /\ ThreadAt(t)' /\ Migrating(t)' /\ my'[t].p = my[t].p
        /\ \A u \in Threads \ {t} : pc'[u] = pc[u] /\ my'[u] = my[u]
    <3>1. PICK q \in Gens : q = next_storage
      BY <2>1
    <3>2. my' = [my EXCEPT ![t].q = q] /\ my[t].p < q /\ q <= next_storage'
      BY <1>5, <2>1, <3>1
    <3> QED BY <1>3, <3>2
  <2>3. UNCHANGED storages
    BY <1>1, <1>5 DEF storages
  <2> QED BY <1>1, <1>2, <2>2, <2>3, SameCalls, LocalStep DEF Others
<1> QED BY <1>4, <1>5 DEF MigAlloc

LEMMA SwapStep ==
    ASSUME IInv, NEW t \in Threads, Swap(t)
    PROVE  IInv' /\ Forward
<1>1. /\ pc[t] = "swap" /\ Goto(t, "load")
      /\ UNCHANGED <<next_storage, hash, value, n_hashs, content, start>>
      /\ UNCHANGED <<rover, answer, calls, patches>> /\ Scene' = Scene
      /\ storage' = IF storage = my[t].p THEN my[t].q ELSE storage
      /\ freed' = [freed EXCEPT ![my[t].p] =
                     IF storage = my[t].p /\ ~IsConst(my[t].p) THEN @ + 1 ELSE @]
  BY DEF Swap, slots, rest, Scene
<1>2. /\ TypeInv /\ SlotInv /\ GenInv /\ ContentInv /\ my[t] \in Locals
      /\ freed \in [Gens -> Nat]
  BY DEF IInv, TypeInv
<1>3. /\ Migrating(t) /\ ~Carrying(t) /\ my[t].then # "put"
      /\ my[t].p < my[t].q /\ my[t].q <= next_storage
      /\ \A j \in 0 .. my[t].i - 1 : value[my[t].p][j] = REDIRECT
      /\ ~IsConst(my[t].p) => my[t].i = Size[my[t].p]
  <2>1. Migrating(t) /\ ~Carrying(t)
    BY <1>1, Basics DEF Migrating, ProbeAt, Claiming
  <2> QED BY <1>1, <2>1, Basics DEF CopyAt, Carrying
<1> DEFINE m == [my[t] EXCEPT !.p = 0, !.q = 0, !.i = 0]
<1>4. my' = [my EXCEPT ![t] = m]
  BY DEF Swap
<1>5. m \in Locals /\ m.call = my[t].call /\ m.p = 0 /\ m.then = my[t].then
  BY <1>2, ConstFacts DEF Locals
<1> HIDE DEF m
<1>6. /\ ThreadTypes' /\ pc'[t] = "load" /\ my'[t] = m
      /\ \A u \in Threads \ {t} : pc'[u] = pc[u] /\ my'[u] = my[u]
  BY <1>1, <1>2, <1>4, <1>5, Moved DEF Labels
<1>7. CallTypes' /\ Others(t)
  BY <1>1, <1>6, SameCalls DEF Others
<1>8. storage' \in Nat => ThreadAt(t)'
  <2>1. ~Claiming(t)' /\ my[t].call \in Scene.calls[t]
    BY <1>1, <1>6, Basics DEF Claiming, CallAt
  <2>2. storage' \in Nat => CallAt(t)'
    BY <1>1, <1>5, <1>6, <2>1 DEF CallAt
  <2> QED BY <1>3, <1>5, <1>6, <2>2, Quiet DEF QuietLabels
<1>9. CASE storage # my[t].p
  <2>1. UNCHANGED <<storage, freed>>
    BY <1>1, <1>2, <1>9, Basics
  <2>2. UNCHANGED storages /\ storage' \in Nat
    BY <1>1, <2>1, Basics DEF storages
  <2> QED BY <1>6, <1>7, <1>8, <1>9, <2>2, LocalStep
<1>10. CASE storage = my[t].p
  <2>1. /\ storage' = storage + 1 /\ next_storage = storage + 1 /\ storage \in Nat
        /\ storage \in Gens /\ storage + 1 \in Gens /\ MaxGen \in Nat
    BY <1>1, <1>3, <1>10, Basics, ConstFacts
  <2>2. \A i \in Index(storage) :
           IF IsConst(storage) THEN hash[storage][i] = NO_HASH ELSE value[storage][i] = REDIRECT
    <3>1. CASE IsConst(storage)
      BY <1>2, <3>1 DEF GenInv, IsConst
    <3>2. CASE ~IsConst(storage)
      BY <1>3, <1>10, <2>1, <3>2, Sizes
    <3> QED BY <3>1, <3>2
  <2>3. /\ freed' \in [Gens -> Nat]
        /\ freed'[storage] = IF IsConst(storage) THEN freed[storage] ELSE freed[storage] + 1
        /\ \A g \in Gens \ {storage} : freed'[g] = freed[g]
    BY <1>1, <1>2, <1>10, <2>1
  <2>4. TypeInv'
    BY <1>1, <1>2, <1>6, <1>7, <2>1, <2>3 DEF TypeInv, ThreadTypes, CallTypes, Answers
  <2>5. SlotInv'
    BY <1>1, <1>2 DEF SlotInv
  <2>6. GenInv'
    <3>1. ASSUME NEW g \in 0 .. storage
          PROVE  /\ freed'[g] = IF IsConst(g) THEN 0 ELSE 1
                 /\ ~IsConst(g) => \A i \in Index(g) : value[g][i] = REDIRECT
      <4>1. CASE g = storage
        <5>1. storage \in storage .. MaxGen
          BY <2>1 DEF Gens
        <5>2. freed[storage] = 0
          BY <1>2, <5>1 DEF GenInv
        <5> QED BY <2>2, <2>3, <4>1, <5>2
      <4>2. CASE g # storage
        <5>1. g \in 0 .. storage - 1 /\ g \in Gens
          BY <2>1, <4>2 DEF Gens
        <5> QED BY <1>2, <2>3, <4>2, <5>1 DEF GenInv
      <4> QED BY <4>1, <4>2
    <3>2. ASSUME NEW g \in storage + 1 .. MaxGen PROVE freed'[g] = 0
      <4>1. g \in storage .. MaxGen /\ g \in Gens /\ g # storage
        BY <2>1 DEF Gens
      <4> QED BY <1>2, <2>3, <4>1 DEF GenInv
    <3>3. 0 .. storage' - 1 = 0 .. storage
      BY <2>1
    <3> QED BY <1>1, <1>2, <2>1, <3>1, <3>2, <3>3 DEF GenInv, IsConst
  <2>7. ContentInv'
    <3>1. ASSUME NEW h \in Hashes, content[h] # NULL
          PROVE  Maps(next_storage, h, content[h])
      <4>1. content[h] \in Values /\ h # NO_HASH
        BY <1>2, <3>1, ConstFacts DEF TypeInv
      <4>2. ~Maps(storage, h, content[h])
        BY <2>2, <4>1, ConstFacts DEF Maps
      <4> QED BY <1>2, <3>1, <4>2 DEF ContentInv
    <3>2. ASSUME NEW g \in storage' .. next_storage', NEW i \in Index(g), value[g][i] \in Values
          PROVE  value[g][i] = content[hash[g][i]]
      <4>1. g \in storage .. next_storage
        BY <1>1, <2>1
      <4> QED BY <1>2, <3>2, <4>1 DEF ContentInv
    <3> QED BY <1>1, <2>1, <3>1, <3>2 DEF ContentInv, Maps
  <2>8. MigratorInv'
    BY <1>1, <2>1 DEF MigratorInv
  <2>9. Forward
    BY <1>1, <2>1 DEF Forward
  <2> QED BY <1>7, <1>8, <2>1, <2>4, <2>5, <2>6, <2>7, <2>8, <2>9, SharedStep
<1> QED BY <1>9, <1>10

(* A patch writes to the current storage while no thread is in a call, and *)
(* so no migration is under way.                                           *)
LEMMA PatchStep ==
    ASSUME IInv, NEW h \in Hashes, NEW v \in Values \union {NULL}, Patch(h, v)
    PROVE  IInv'
<1>1. /\ \A t \in Threads : pc[t] = "idle"
      /\ patches < Scene.max_patches /\ patches' = patches + 1
      /\ content' = [content EXCEPT ![h] = v]
      /\ UNCHANGED <<storage, next_storage, hash, n_hashs, freed, start>>
      /\ UNCHANGED <<pc, my, rover, answer, calls>> /\ Scene' = Scene
  BY DEF Patch, world, Scene
<1>2. TypeInv /\ SlotInv /\ GenInv /\ ContentInv
  BY DEF IInv
<1>3. \A t \in Threads : ~Migrating(t) /\ ~Claiming(t) /\ my[t].then # "put"
  BY <1>1, QuietNow DEF QuietLabels
<1>4. /\ next_storage = storage /\ storage \in Gens /\ storage \in Nat /\ MaxGen \in Nat
      /\ h \in Nat /\ h # NO_HASH /\ v \in Words /\ v # REDIRECT
  BY <1>2, <1>3, ConstFacts DEF IInv, MigratorInv, TypeInv, Gens, Words
<1>5. PICK k \in Index(storage) :
        /\ hash[storage][Probe(storage, h, k)] = h
        /\ value' = [value EXCEPT ![storage][Probe(storage, h, k)] = v]
  BY DEF Patch
<1>6. PICK s \in Index(storage) : s = Probe(storage, h, k)
  <2>1. k \in Nat
    BY <1>4, Sizes
  <2> QED BY <1>4, <2>1, Probes
<1>7. hash[storage][s] = h /\ value' = [value EXCEPT ![storage][s] = v]
  BY <1>5, <1>6
<1>8. /\ value' = [g \in Gens |-> value'[g]]
      /\ \A g \in Gens : value'[g] \in [Index(g) -> Words]
      /\ value'[storage][s] = v
      /\ \A g \in Gens : \A j \in Index(g) : g # storage \/ j # s => value'[g][j] = value[g][j]
  <2>1. CasValue(storage, s, v, value[storage][s])
    <3>1. value = [g \in Gens |-> value[g]] /\ \A g \in Gens : value[g] \in [Index(g) -> Words]
      BY <1>2 DEF TypeInv
    <3> QED BY <1>4, <1>7, <3>1 DEF CasValue
  <2>2. PICK g \in Gens : g = storage
    BY <1>4
  <2>3. PICK e : e = value[storage][s]
    OBVIOUS
  <2>4. CasValue(g, s, v, e)
    BY <2>1, <2>2, <2>3
  <2>5. s \in Index(g)
    BY <2>2
  <2> QED BY <1>2, <1>4, <2>2, <2>3, <2>4, <2>5, CasFacts
<1>9. storage # 0
  BY <1>2, <1>4, <1>7 DEF GenInv
<1>10. TypeInv'
  <2>1. Scene.max_patches \in Nat /\ patches \in 0 .. Scene.max_patches
    <3>1. Scene \in {Starts[n] : n \in DOMAIN Starts}
      BY <1>2 DEF Scene, TypeInv
    <3>2. Scene.max_patches \in Nat
      BY <3>1, HashmapAssumption
    <3> QED BY <1>2, <3>2 DEF TypeInv
  <2>2. patches' \in 0 .. Scene'.max_patches
    BY <1>1, <2>1
  <2>3. content' \in [Hashes -> Values \union {NULL}]
    BY <1>1, <1>2 DEF TypeInv
  <2> QED BY <1>1, <1>2, <1>8, <2>2, <2>3 DEF TypeInv
<1>11. SlotInv'
  <2>1. \A g \in Gens : \A i \in Index(g) : value'[g][i] \in Values => hash[g][i] # NO_HASH
    BY <1>2, <1>4, <1>7, <1>8 DEF SlotInv
  <2> QED BY <1>1, <1>2, <2>1 DEF SlotInv
<1>12. GenInv'
  <2>1. ASSUME NEW g \in 0 .. storage - 1
        PROVE  ~IsConst(g) => \A i \in Index(g) : value'[g][i] = REDIRECT
    <3>1. g \in Gens /\ g # storage
      BY <1>4 DEF Gens
    <3> QED BY <1>2, <1>8, <3>1 DEF GenInv
  <2>2. ASSUME NEW g \in next_storage .. MaxGen, NEW i \in Index(g) PROVE value'[g][i] # REDIRECT
    <3>1. g \in Gens
      BY <1>4 DEF Gens
    <3> QED BY <1>2, <1>4, <1>8, <3>1 DEF GenInv
  <2>3. ASSUME NEW g \in next_storage + 1 .. MaxGen, NEW i \in Index(g)
        PROVE  hash[g][i] = NO_HASH /\ value'[g][i] = NULL
    <3>1. g \in Gens /\ g # storage
      BY <1>4 DEF Gens
    <3> QED BY <1>2, <1>8, <3>1 DEF GenInv
  <2>4. \A i \in Index(0) : value'[0][i] = value[0][i]
    BY <1>8, <1>9, ConstFacts
  <2> QED BY <1>1, <1>2, <1>4, <2>1, <2>2, <2>3, <2>4 DEF GenInv, IsConst
<1>13. ContentInv'
  <2>1. ASSUME NEW i \in Index(storage), value'[storage][i] \in Values
        PROVE  value'[storage][i] = content'[hash[storage][i]]
    <3>1. CASE i = s
      BY <1>1, <1>2, <1>7, <1>8, <3>1 DEF TypeInv
    <3>2. CASE i # s
      <4>1. value'[storage][i] = value[storage][i]
        BY <1>4, <1>8, <3>2
      <4>2. hash[storage][i] # NO_HASH /\ hash[storage][i] \in Keys
        BY <1>2, <1>4, <2>1, <4>1 DEF SlotInv, TypeInv
      <4>3. hash[storage][i] # h
        BY <1>2, <1>4, <1>7, <3>2 DEF SlotInv
      <4>4. content'[hash[storage][i]] = content[hash[storage][i]]
        BY <1>1, <1>2, <4>2, <4>3 DEF TypeInv, Keys
      <4>5. storage \in storage .. next_storage
        BY <1>4
      <4> QED BY <1>2, <2>1, <4>1, <4>4, <4>5 DEF ContentInv
    <3> QED BY <3>1, <3>2
  <2>2. ASSUME NEW y \in Hashes, content'[y] # NULL
        PROVE  \E j \in Index(storage) : hash[storage][j] = y /\ value'[storage][j] = content'[y]
    <3>1. CASE y = h
      BY <1>1, <1>2, <1>7, <1>8, <3>1 DEF TypeInv
    <3>2. CASE y # h
      <4>1. content'[y] = content[y]
        BY <1>1, <1>2, <3>2 DEF TypeInv
      <4>2. Maps(storage, y, content[y])
        BY <1>2, <1>4, <2>2, <4>1 DEF ContentInv
      <4>3. PICK j \in Index(storage) : hash[storage][j] = y /\ value[storage][j] = content[y]
        BY <4>2 DEF Maps
      <4>4. j # s
        BY <1>7, <3>2, <4>3
      <4> QED BY <1>4, <1>8, <4>1, <4>3, <4>4
    <3> QED BY <3>1, <3>2
  <2>3. \A g \in storage .. next_storage : g = storage
    BY <1>4
  <2> QED BY <1>1, <1>4, <2>1, <2>2, <2>3 DEF ContentInv, Maps
<1>14. MigratorInv'
  BY <1>1, <1>4 DEF MigratorInv
<1>15. ASSUME NEW t \in Threads PROVE ThreadAt(t)'
  <2>1. ~Claiming(t)' /\ my[t].p <= storage
    BY <1>1, Basics DEF Claiming
  <2>2. CallAt(t)'
    BY <1>1, <2>1 DEF CallAt
  <2> QED BY <1>1, <1>3, <2>2, Quiet DEF QuietLabels
<1> QED BY <1>10, <1>11, <1>12, <1>13, <1>14, <1>15 DEF IInv

-----------------------------------------------------------------------------
(* The invariant *)

(* Every step keeps the invariant, and all but a patch move forward. *)
LEMMA NextIInv ==
    ASSUME IInv, [Next]_vars
    PROVE  IInv' /\ (Forward \/ (patches' # patches /\ UNCHANGED hash))
<1>1. ASSUME NEW t \in Threads, Step(t) PROVE IInv' /\ Forward
  BY <1>1, LoadStep, CheckStep, LookHashStep, LookValueStep, ClaimReadStep, ClaimCasStep,
     ClaimIncStep, FillStep, MigNextStep, MigAllocStep, CopyHashStep, CopyVirginStep,
     CopyRehashStep, CopyValueStep, PutStep, PutFollowStep, FreezeStep, SwapStep,
     EnumHashStep, EnumValueStep DEF Step
<1>2. ASSUME NEW t \in Threads, Enumerate(t) PROVE IInv' /\ Forward
  BY <1>2, EnumerateStep
<1>3. ASSUME NEW t \in Threads, NEW c \in Scene.calls[t], Call(t, c) PROVE IInv' /\ Forward
  BY <1>3, CallStep
<1>4. ASSUME NEW h \in Hashes, NEW v \in Values \union {NULL}, Patch(h, v)
      PROVE  IInv' /\ patches' # patches /\ UNCHANGED hash
  <2>1. patches' = patches + 1 /\ patches \in Int /\ UNCHANGED hash
    BY <1>4 DEF Patch, IInv, TypeInv
  <2> QED BY <1>4, <2>1, PatchStep
<1>5. CASE UNCHANGED vars
  <2>1. UNCHANGED storages /\ UNCHANGED <<pc, my, rover, answer, calls, patches>> /\ Scene' = Scene
    BY <1>5 DEF vars, storages, Scene
  <2>2. ThreadTypes' /\ CallTypes'
    BY <2>1 DEF IInv, TypeInv, ThreadTypes, CallTypes, Answers
  <2>3. SlotInv' /\ GenInv' /\ ContentInv' /\ Forward /\ TypeInv'
    BY <2>1, <2>2, StillForward, StillTyped
  <2>4. \A u \in Threads : ThreadAt(u)'
    BY <2>1, <2>3, ThreadStable
  <2>5. MigratorInv'
    BY <2>1 DEF storages, IInv, MigratorInv, Migrating, Carrying
  <2> QED BY <2>3, <2>4, <2>5 DEF IInv
<1> QED BY <1>1, <1>2, <1>3, <1>4, <1>5 DEF Next

(* The types, the slots, the storages, the contents and what every thread  *)
(* knows of them hold in every reachable state, whatever calls the threads *)
(* make and however often a migration overtakes another.                   *)
THEOREM Invariance == Spec => []IInv
<1>1. IInv /\ [Next]_vars => IInv'
  BY NextIInv
<1> QED BY <1>1, InitIInv, PTL DEF Spec

(* What the invariant says of the storages of migrate_storage. *)
LEMMA GenerationsFollow == IInv => GenerationsOK
<1> SUFFICES ASSUME IInv PROVE GenerationsOK
  OBVIOUS
<1>1. TypeInv /\ SlotInv /\ GenInv /\ ContentInv
  BY DEF IInv
<1>2. /\ storage \in Nat /\ storage \in Gens /\ next_storage \in {storage, storage + 1}
      /\ next_storage \in Gens /\ MaxGen \in Nat
  BY <1>1, ConstFacts DEF TypeInv, GenInv, Gens
<1>3. ASSUME NEW g \in storage + 1 .. MaxGen, NEW i \in Index(g), value[g][i] # NULL
      PROVE  /\ g = next_storage
             /\ \E j \in Index(storage) : /\ hash[storage][j] = hash[g][i]
                                          /\ value[storage][j] \in {value[g][i], REDIRECT}
  <2>1. g = next_storage /\ next_storage = storage + 1 /\ g \in Gens
    <3>1. g \in Gens /\ g \in Nat
      BY <1>2 DEF Gens
    <3>2. ~(g > next_storage)
      <4>1. SUFFICES ASSUME g > next_storage PROVE FALSE
        OBVIOUS
      <4>2. g \in next_storage + 1 .. MaxGen
        BY <1>2, <3>1, <4>1
      <4> QED BY <1>1, <1>3, <4>2 DEF GenInv
    <3> QED BY <1>2, <3>1, <3>2
  <2>2. value[g][i] \in Values
    <3>1. g \in next_storage .. MaxGen
      BY <1>2, <2>1
    <3>2. value[g][i] # REDIRECT
      BY <1>1, <3>1 DEF GenInv
    <3> QED BY <1>1, <1>3, <2>1, <3>2 DEF TypeInv, Words
  <2>3. hash[g][i] \in Hashes
    BY <1>1, <2>1, <2>2 DEF SlotInv, TypeInv, Keys
  <2>4. content[hash[g][i]] = value[g][i]
    <3>1. g \in storage .. next_storage
      BY <1>2, <2>1
    <3> QED BY <1>1, <2>2, <3>1 DEF ContentInv
  <2>5. Maps(storage, hash[g][i], value[g][i]) \/ Maps(storage, hash[g][i], REDIRECT)
    BY <1>1, <2>2, <2>3, <2>4, ConstFacts DEF ContentInv
  <2> QED BY <2>1, <2>5 DEF Maps
<1>4. ASSUME \A t \in Threads : pc[t] = "idle" PROVE next_storage = storage
  <2>1. \A t \in Threads : ~Migrating(t)
    BY <1>4, QuietNow DEF QuietLabels
  <2> QED BY <2>1 DEF IInv, MigratorInv
<1> QED BY <1>1, <1>3, <1>4 DEF GenerationsOK, GenInv

(* At most one migration is under way, a storage that is replaced is       *)
(* frozen in every slot and freed once, and when all threads have returned *)
(* no migration is left half done.                                         *)
THEOREM Generations == Spec => []GenerationsOK
  BY Invariance, GenerationsFollow, PTL

(* What the invariant says of the values. *)
LEMMA ContentFollows == IInv => NoOneLeftBehind
<1> SUFFICES ASSUME IInv, NEW h \in Hashes
             PROVE  UNION {Held(g, h) : g \in storage .. next_storage} = {content[h]} \ {NULL}
  BY DEF NoOneLeftBehind
<1>1. ContentInv /\ content[h] \in Values \union {NULL} /\ NULL \notin Values
  BY ConstFacts DEF IInv, TypeInv
<1>2. storage \in storage .. next_storage /\ next_storage \in storage .. next_storage
  BY DEF IInv, TypeInv, GenInv, Gens
<1>3. ASSUME NEW g \in storage .. next_storage, NEW v \in Held(g, h)
      PROVE  v = content[h] /\ v # NULL
  BY <1>1, <1>3 DEF Held, ContentInv
<1>4. ASSUME content[h] # NULL
      PROVE  \E g \in storage .. next_storage : content[h] \in Held(g, h)
  <2>1. PICK g \in storage .. next_storage : Maps(g, h, content[h])
    BY <1>1, <1>2, <1>4 DEF ContentInv
  <2>2. content[h] \in Held(g, h)
    BY <1>1, <1>4, <2>1 DEF Maps, Held
  <2> QED BY <2>2
<1> QED BY <1>3, <1>4

(* No migration leaves behind what insert or register has put in, brings a *)
(* removed value back or gives a hash two values.                          *)
THEOREM NothingLeftBehind == Spec => []NoOneLeftBehind
  BY Invariance, ContentFollows, PTL

(* A hash word is written once, and a value word goes from empty to a      *)
(* value to frozen, in every step of every thread but a patch.             *)
THEOREM SlotsMoveForward == Spec => NeverBackwards
<1>1. ASSUME IInv, [Next]_vars
      PROVE  [\A g \in Gens : \A i \in Index(g) :
                /\ hash[g][i] # NO_HASH => hash'[g][i] = hash[g][i]
                /\ \/ patches' # patches
                   \/ value'[g][i] = value[g][i]
                   \/ value[g][i] = NULL
                   \/ value[g][i] \in Values /\ value'[g][i] = REDIRECT]_<<hash, value>>
  <2>1. ASSUME NEW g \in Gens, NEW i \in Index(g)
        PROVE  /\ hash[g][i] # NO_HASH => hash'[g][i] = hash[g][i]
               /\ \/ patches' # patches
                  \/ value'[g][i] = value[g][i]
                  \/ value[g][i] = NULL
                  \/ value[g][i] \in Values /\ value'[g][i] = REDIRECT
    <3>1. value[g][i] \in Words
      BY <1>1 DEF IInv, TypeInv
    <3>2. Forward \/ (patches' # patches /\ UNCHANGED hash)
      BY <1>1, NextIInv
    <3> QED BY <3>1, <3>2 DEF Forward, Words
  <2> QED BY <2>1
<1> QED BY <1>1, Invariance, PTL DEF Spec, NeverBackwards

-----------------------------------------------------------------------------
(* The count of the claimed slots *)

(* The sets that are counted. *)
LEMMA Finite ==
    ASSUME NEW g \in Gens
    PROVE  /\ IsFiniteSet(Claimed(g)) /\ Cardinality(Claimed(g)) \in Nat
           /\ Cardinality(Claimed(g)) <= Size[g]
           /\ IsFiniteSet(Counting(g)) /\ Cardinality(Counting(g)) \in Nat
           /\ IsFiniteSet(Entitled(g)) /\ Cardinality(Entitled(g)) \in Nat
           /\ Cardinality(Threads) \in Nat /\ Cardinality(Threads) > 0
           /\ \A t \in Threads : t \notin Counting(g) /\ t \notin Entitled(g) =>
                Cardinality(Counting(g)) + Cardinality(Entitled(g)) < Cardinality(Threads)
<1>1. IsFiniteSet(Claimed(g)) /\ Cardinality(Claimed(g)) \in Nat /\ Cardinality(Claimed(g)) <= Size[g]
  <2>1. Index(g) = 0 .. Size[g] - 1 /\ Size[g] \in Nat /\ Size[g] > 0
    BY Sizes
  <2>2. IsFiniteSet(0 .. Size[g] - 1)
        /\ Cardinality(0 .. Size[g] - 1) = IF 0 > Size[g] - 1 THEN 0 ELSE (Size[g] - 1) - 0 + 1
    BY <2>1, FS_Interval
  <2>3. Claimed(g) \in SUBSET (0 .. Size[g] - 1)
    BY <2>1 DEF Claimed
  <2>4. IsFiniteSet(Claimed(g)) /\ Cardinality(Claimed(g)) <= Cardinality(0 .. Size[g] - 1)
    BY <2>2, <2>3, FS_Subset
  <2>5. Cardinality(Claimed(g)) \in Nat
    BY <2>4, FS_CardinalityType
  <2> QED BY <2>1, <2>2, <2>4, <2>5
<1>2. IsFiniteSet(Threads) /\ Threads # {}
  BY HashmapAssumption
<1>3. Cardinality(Threads) \in Nat /\ Cardinality(Threads) > 0
  BY <1>2, FS_CardinalityType, FS_EmptySet
<1>4. Counting(g) \in SUBSET Threads /\ Entitled(g) \in SUBSET Threads
  BY DEF Counting, Entitled
<1>5. IsFiniteSet(Counting(g)) /\ IsFiniteSet(Entitled(g))
  BY <1>2, <1>4, FS_Subset
<1>6. Cardinality(Counting(g)) \in Nat /\ Cardinality(Entitled(g)) \in Nat
  BY <1>5, FS_CardinalityType
<1>7. ASSUME NEW t \in Threads, t \notin Counting(g), t \notin Entitled(g)
      PROVE  Cardinality(Counting(g)) + Cardinality(Entitled(g)) < Cardinality(Threads)
  <2> DEFINE both == Counting(g) \cup Entitled(g)
  <2>1. Counting(g) \cap Entitled(g) = {}
    BY DEF Counting, Entitled
  <2>2. Cardinality(Counting(g) \cap Entitled(g)) = 0
    BY <2>1, FS_EmptySet
  <2>3. IsFiniteSet(both) /\ Cardinality(both) = Cardinality(Counting(g)) + Cardinality(Entitled(g)) - Cardinality(Counting(g) \cap Entitled(g))
    BY <1>5, FS_Union
  <2>4. Cardinality(both) \in Nat /\ both \in SUBSET Threads /\ t \notin both
    BY <1>4, <1>7, <2>3, FS_CardinalityType
  <2> HIDE DEF both
  <2>5. Cardinality(both) <= Cardinality(Threads) /\ (Cardinality(Threads) = Cardinality(both) => Threads = both)
    BY <1>2, <2>4, FS_Subset
  <2> QED BY <1>3, <1>6, <1>7, <2>2, <2>3, <2>4, <2>5
<1> QED BY <1>1, <1>3, <1>5, <1>6, <1>7

(* A step that neither claims nor counts, nor lets a thread do so. *)
LEMMA CountKept ==
    ASSUME CountInv, NEW t \in Threads, UNCHANGED <<hash, n_hashs>>,
           \A u \in Threads \ {t} : pc'[u] = pc[u] /\ my'[u] = my[u],
           pc[t] # "claim_inc", pc'[t] # "claim_inc",
           pc'[t] \in {"claim", "claim_cas"} /\ my'[t].then # "put" =>
              pc[t] \in {"claim", "claim_cas"} /\ my[t].then # "put" /\ my'[t].d = my[t].d
    PROVE  CountInv'
<1>1. ASSUME NEW g \in 1 .. MaxGen
      PROVE  /\ Claimed(g)' = Claimed(g) /\ Counting(g)' = Counting(g)
             /\ Entitled(g)' \in SUBSET Entitled(g)
  BY DEF Claimed, Counting, Entitled, Carrying
<1>2. ASSUME NEW g \in 1 .. MaxGen
      PROVE  /\ n_hashs'[g] \in Nat
             /\ Cardinality(Claimed(g)') = n_hashs'[g] + Cardinality(Counting(g)')
             /\ Cardinality(Claimed(g)') + Cardinality(Entitled(g)') < MaxNHashs(g) + Cardinality(Threads)
  <2>1. g \in Gens
    BY ConstFacts DEF Gens
  <2>2. Cardinality(Entitled(g)') <= Cardinality(Entitled(g)) /\ Cardinality(Entitled(g)') \in Nat
    <3>1. IsFiniteSet(Entitled(g)') /\ Cardinality(Entitled(g)') <= Cardinality(Entitled(g))
      BY <1>1, <2>1, Finite, FS_Subset
    <3> QED BY <3>1, FS_CardinalityType
  <2>3. /\ n_hashs[g] \in Nat
        /\ Cardinality(Claimed(g)) = n_hashs[g] + Cardinality(Counting(g))
        /\ Cardinality(Claimed(g)) + Cardinality(Entitled(g)) < MaxNHashs(g) + Cardinality(Threads)
    BY DEF CountInv
  <2>4. Cardinality(Claimed(g)) \in Nat /\ Cardinality(Entitled(g)) \in Nat /\ MaxNHashs(g) \in Nat
        /\ Cardinality(Threads) \in Nat
    BY <2>1, Finite, Sizes
  <2>5. Cardinality(Claimed(g)') = Cardinality(Claimed(g)) /\ Cardinality(Counting(g)') = Cardinality(Counting(g))
    BY <1>1
  <2> QED BY <2>2, <2>3, <2>4, <2>5
<1> QED BY <1>2 DEF CountInv

(* The steps outside claim. *)
LEMMA CountElsewhere ==
    ASSUME IInv, CountInv, NEW t \in Threads,
           \/ Load(t) \/ LookHash(t) \/ LookValue(t) \/ Fill(t) \/ MigNext(t) \/ MigAlloc(t)
           \/ CopyHash(t) \/ CopyVirgin(t) \/ CopyRehash(t) \/ CopyValue(t) \/ Put(t)
           \/ PutFollow(t) \/ Freeze(t) \/ Swap(t) \/ EnumHash(t) \/ EnumValue(t)
           \/ Enumerate(t) \/ \E c \in Scene.calls[t] : Call(t, c)
    PROVE  CountInv'
<1>1. TypeInv /\ pc \in [Threads -> Labels] /\ my \in [Threads -> Locals]
  BY DEF IInv, TypeInv
<1>2. SUFFICES ASSUME TRUE
               PROVE  /\ UNCHANGED <<hash, n_hashs>>
                      /\ \A u \in Threads \ {t} : pc'[u] = pc[u] /\ my'[u] = my[u]
                      /\ pc[t] # "claim_inc"
                      /\ pc'[t] # "claim_inc" /\ pc'[t] # "claim_cas"
                      /\ pc'[t] = "claim" => my'[t].then = "put"
  BY CountKept
<1>3. CASE Load(t)
  <2>1. PICK l \in {"idle", "look_hash", "enum_hash", "check"} : Goto(t, l)
    BY <1>3 DEF Load, Return
  <2>2. \A u \in Threads \ {t} : my'[u] = my[u]
    BY <1>1, <1>3 DEF Load, Return
  <2> QED BY <1>1, <1>3, <2>1, <2>2 DEF Load, slots, Goto
<1>4. CASE LookHash(t) \/ LookValue(t)
  BY <1>1, <1>4 DEF LookHash, LookNext, LookValue, Return, Goto, slots
<1>5. CASE Fill(t)
  BY <1>1, <1>5 DEF Fill, Return, Goto
<1>6. CASE MigNext(t) \/ MigAlloc(t)
  BY <1>1, <1>6 DEF MigNext, MigAlloc, CopyFrom, Goto, slots
<1>7. CASE CopyHash(t)
  BY <1>1, <1>7 DEF CopyHash, Goto, slots
<1>8. ASSUME CopyNext(t)
      PROVE  /\ pc'[t] \in {"swap", "copy_hash"}
             /\ \A u \in Threads \ {t} : pc'[u] = pc[u] /\ my'[u] = my[u]
  BY <1>1, <1>8 DEF CopyNext, Goto
<1>9. CASE CopyVirgin(t)
  <2>1. UNCHANGED <<hash, n_hashs>> /\ pc[t] = "copy_virgin"
    BY <1>9 DEF CopyVirgin
  <2>2. CASE CopyNext(t)
    BY <1>8, <2>1, <2>2
  <2>3. CASE ~CopyNext(t)
    BY <1>1, <1>9, <2>1, <2>3 DEF CopyVirgin, Goto
  <2> QED BY <2>2, <2>3
<1>10. ASSUME NEW h, NEW v, CopyLoop(t, h, v)
       PROVE  /\ pc'[t] \in {"swap", "copy_hash", "freeze", "claim"}
              /\ pc'[t] = "claim" => my'[t].then = "put"
              /\ \A u \in Threads \ {t} : pc'[u] = pc[u] /\ my'[u] = my[u]
  <2>1. CASE CopyNext(t)
    BY <1>8, <2>1
  <2>2. CASE my' = [my EXCEPT ![t].ch = h, ![t].cv = v] /\ Goto(t, "freeze")
    BY <1>1, <2>2 DEF Goto
  <2>3. CASE /\ my' = [my EXCEPT ![t].ch = h, ![t].cv = v, ![t].d = my[t].q, ![t].at = 0,
                                 ![t].then = "put"]
             /\ Goto(t, "claim")
    <3>1. my[t] \in Locals
      BY <1>1
    <3>2. my'[t].then = "put"
      BY <1>1, <2>3, <3>1 DEF Locals
    <3>3. pc'[t] = "claim" /\ \A u \in Threads \ {t} : pc'[u] = pc[u] /\ my'[u] = my[u]
      BY <1>1, <2>3 DEF Goto
    <3> QED BY <3>2, <3>3
  <2> QED BY <1>10, <2>1, <2>2, <2>3 DEF CopyLoop
<1>11. CASE CopyRehash(t) \/ CopyValue(t)
  <2>1. UNCHANGED <<hash, n_hashs>> /\ pc[t] \in {"copy_rehash", "copy_value"}
        /\ \E h, v : CopyLoop(t, h, v)
    BY <1>11 DEF CopyRehash, CopyValue, slots
  <2> QED BY <1>10, <2>1
<1>12. CASE Freeze(t)
  <2>1. UNCHANGED <<hash, n_hashs>> /\ pc[t] = "freeze" /\ (CopyNext(t) \/ \E h, v : CopyLoop(t, h, v))
    BY <1>12 DEF Freeze
  <2> QED BY <1>8, <1>10, <2>1
<1>13. CASE Put(t)
  BY <1>1, <1>13 DEF Put, Goto
<1>14. CASE PutFollow(t)
  <2>1. my[t].then = "put" /\ my[t] \in Locals
    BY <1>1, <1>14, Basics DEF PutFollow, ProbeAt, Carrying
  <2>2. my'[t].then = "put"
    BY <1>1, <1>14, <2>1 DEF PutFollow, Locals
  <2>3. \A u \in Threads \ {t} : pc'[u] = pc[u] /\ my'[u] = my[u]
    BY <1>1, <1>14 DEF PutFollow, Goto
  <2> QED BY <1>1, <1>14, <2>2, <2>3 DEF PutFollow, Goto, slots
<1>15. CASE Swap(t)
  BY <1>1, <1>15 DEF Swap, Goto, slots
<1>16. CASE EnumHash(t) \/ EnumValue(t)
  BY <1>1, <1>16 DEF EnumHash, EnumValue, Return, Goto, slots
<1>17. CASE Enumerate(t)
  <2>1. pc[t] = "idle" /\ UNCHANGED <<pc, my, hash, n_hashs>>
    BY <1>17 DEF Enumerate, slots
  <2> QED BY <2>1
<1>18. CASE \E c \in Scene.calls[t] : Call(t, c)
  BY <1>1, <1>18 DEF Call, Goto, slots
<1> QED BY <1>3, <1>4, <1>5, <1>6, <1>7, <1>9, <1>11, <1>12, <1>13, <1>14, <1>15, <1>16, <1>17, <1>18

(* A thread that passes the check: fewer slots are counted than get_max_n_hashs *)
(* gives, and the others can claim at most one slot each.                      *)
LEMMA CountCheck ==
    ASSUME IInv, CountInv, NEW t \in Threads, Check(t)
    PROVE  CountInv'
<1>1. pc \in [Threads -> Labels] /\ my \in [Threads -> Locals] /\ pc[t] = "check"
      /\ UNCHANGED <<hash, n_hashs, my>>
  BY DEF IInv, TypeInv, Check, slots
<1>2. CASE Goto(t, "mig_next")
  <2>1. pc'[t] = "mig_next" /\ \A u \in Threads \ {t} : pc'[u] = pc[u]
    BY <1>1, <1>2 DEF Goto
  <2> QED BY <1>1, <2>1, CountKept
<1>3. CASE ~(n_hashs[my[t].p] >= MaxNHashs(my[t].p)) /\ Goto(t, "claim")
  <2>1. pc'[t] = "claim" /\ \A u \in Threads \ {t} : pc'[u] = pc[u]
    BY <1>1, <1>3 DEF Goto
  <2>2. my[t].d = my[t].p /\ my[t].then # "put"
    BY <1>1, Basics, QuietNow DEF CallAt, QuietLabels
  <2>3. ASSUME NEW g \in 1 .. MaxGen
        PROVE  /\ n_hashs'[g] \in Nat
               /\ Cardinality(Claimed(g)') = n_hashs'[g] + Cardinality(Counting(g)')
               /\ Cardinality(Claimed(g)') + Cardinality(Entitled(g)') < MaxNHashs(g) + Cardinality(Threads)
    <3>1. g \in Gens
      BY ConstFacts DEF Gens
    <3>2. /\ n_hashs[g] \in Nat
          /\ Cardinality(Claimed(g)) = n_hashs[g] + Cardinality(Counting(g))
          /\ Cardinality(Claimed(g)) + Cardinality(Entitled(g)) < MaxNHashs(g) + Cardinality(Threads)
      BY DEF CountInv
    <3>3. Claimed(g)' = Claimed(g) /\ Counting(g)' = Counting(g)
      BY <1>1, <2>1 DEF Claimed, Counting
    <3>4. Cardinality(Claimed(g)') = Cardinality(Claimed(g)) /\ Cardinality(Counting(g)') = Cardinality(Counting(g))
      BY <3>3
    <3>5. CASE my[t].d # g
      <4>1. Entitled(g)' = Entitled(g)
        BY <1>1, <2>1, <3>5 DEF Entitled, Carrying
      <4>2. Cardinality(Entitled(g)') = Cardinality(Entitled(g))
        BY <4>1
      <4> QED BY <1>1, <3>2, <3>4, <4>2
    <3>6. CASE my[t].d = g
      <4>1. Entitled(g)' = Entitled(g) \cup {t} /\ t \notin Entitled(g) /\ t \notin Counting(g)
        BY <1>1, <2>1, <2>2, <3>6 DEF Entitled, Counting, Carrying
      <4>2. /\ Cardinality(Claimed(g)) \in Nat /\ Cardinality(Counting(g)) \in Nat
            /\ IsFiniteSet(Entitled(g)) /\ Cardinality(Entitled(g)) \in Nat
            /\ Cardinality(Threads) \in Nat
            /\ Cardinality(Counting(g)) + Cardinality(Entitled(g)) < Cardinality(Threads)
        BY <3>1, <4>1, Finite
      <4>3. Cardinality(Entitled(g) \cup {t}) = Cardinality(Entitled(g)) + 1
        BY <4>1, <4>2, FS_AddElement
      <4>4. Cardinality(Entitled(g)') = Cardinality(Entitled(g)) + 1
        BY <4>1, <4>3
      <4>5. n_hashs[g] < MaxNHashs(g) /\ MaxNHashs(g) \in Nat
        BY <1>3, <2>2, <3>1, <3>2, <3>6, Sizes
      <4> QED BY <1>1, <3>2, <3>4, <4>2, <4>4, <4>5
    <3> QED BY <3>5, <3>6
  <2> QED BY <2>3 DEF CountInv
<1> QED BY <1>2, <1>3 DEF Check

(* A claim goes to another slot, or ends. *)
LEMMA CountMoves ==
    ASSUME IInv, CountInv, NEW t \in Threads, UNCHANGED <<hash, n_hashs, start>>,
           pc[t] \in {"claim", "claim_cas"},
           \/ ClaimNext(t)
           \/ \E l \in {"claim_cas", "fill", "put"} : Goto(t, l) /\ UNCHANGED my
    PROVE  CountInv'
<1>1. CASE ClaimNext(t)
  <2>1. /\ pc'[t] \in {"claim", "freeze", "mig_next"}
        /\ my'[t].d = my[t].d /\ my'[t].then = my[t].then
        /\ \A u \in Threads \ {t} : pc'[u] = pc[u] /\ my'[u] = my[u]
    BY <1>1, Basics, ProbeNext
  <2> QED BY <2>1, CountKept
<1>2. CASE \E l \in {"claim_cas", "fill", "put"} : Goto(t, l) /\ UNCHANGED my
  <2>1. /\ pc'[t] \in {"claim_cas", "fill", "put"} /\ UNCHANGED my
        /\ \A u \in Threads \ {t} : pc'[u] = pc[u]
    BY <1>2 DEF IInv, TypeInv, Goto
  <2> QED BY <2>1, CountKept
<1> QED BY <1>1, <1>2

(* A claim: it takes one of the slots of the reserve, or carries a hash    *)
(* from a storage that has no more slots than half of this one.            *)
LEMMA CountClaim ==
    ASSUME IInv, CountInv, GenInv', SlotInv', NEW t \in Threads, pc[t] = "claim_cas",
           hash[my[t].d][ClaimSlot(t)] = NO_HASH,
           SetHash(my[t].d, ClaimSlot(t), Key(t)), Goto(t, "claim_inc"),
           UNCHANGED <<storage, next_storage, n_hashs, my>>
    PROVE  CountInv'
<1>1. PICK d \in Gens : d = my[t].d
  BY Basics
<1>2. PICK s \in Index(d) : s = ClaimSlot(t)
  BY <1>1, Addressed DEF Claiming
<1>3. PICK x \in Hashes : x = Key(t) /\ x # NO_HASH
  BY Addressed, ConstFacts DEF Claiming
<1>4. /\ hash'[d][s] = x
      /\ \A h \in Gens : \A j \in Index(h) : h # d \/ j # s => hash'[h][j] = hash[h][j]
  <2>1. TypeInv /\ x \in Keys
    BY <1>1, <1>2, <1>3 DEF IInv, Keys
  <2>2. PICK y \in Keys : y = x
    BY <2>1
  <2>3. SetHash(d, s, y)
    BY <1>1, <1>2, <1>3, <2>2 DEF SetHash
  <2>4. /\ hash' = [h \in Gens |-> hash'[h]]
        /\ \A h \in Gens : hash'[h] \in [Index(h) -> Keys]
        /\ hash'[d][s] = y
        /\ \A h \in Gens : \A j \in Index(h) : h # d \/ j # s => hash'[h][j] = hash[h][j]
    BY <2>1, <2>3, ClaimFacts
  <2> QED BY <2>2, <2>4
<1>5. pc'[t] = "claim_inc" /\ \A u \in Threads \ {t} : pc'[u] = pc[u]
  BY DEF IInv, TypeInv, Goto
<1>6. hash[d][s] = NO_HASH
  BY <1>1, <1>2
<1>7. ASSUME NEW g \in 1 .. MaxGen
      PROVE  /\ n_hashs'[g] \in Nat
             /\ Cardinality(Claimed(g)') = n_hashs'[g] + Cardinality(Counting(g)')
             /\ Cardinality(Claimed(g)') + Cardinality(Entitled(g)') < MaxNHashs(g) + Cardinality(Threads)
  <2>1. g \in Gens
    BY ConstFacts DEF Gens
  <2>2. /\ n_hashs[g] \in Nat
        /\ Cardinality(Claimed(g)) = n_hashs[g] + Cardinality(Counting(g))
        /\ Cardinality(Claimed(g)) + Cardinality(Entitled(g)) < MaxNHashs(g) + Cardinality(Threads)
    BY DEF CountInv
  <2>3. /\ IsFiniteSet(Claimed(g)) /\ Cardinality(Claimed(g)) \in Nat
        /\ IsFiniteSet(Counting(g)) /\ Cardinality(Counting(g)) \in Nat
        /\ IsFiniteSet(Entitled(g)) /\ Cardinality(Entitled(g)) \in Nat
        /\ Cardinality(Threads) \in Nat /\ Cardinality(Threads) > 0
        /\ MaxNHashs(g) \in Nat
    BY <2>1, Finite, Sizes
  <2>4. CASE g # d
    <3>1. Claimed(g)' = Claimed(g)
      BY <1>4, <2>1, <2>4 DEF Claimed
    <3>2. Counting(g)' = Counting(g) /\ Entitled(g)' = Entitled(g)
      BY <1>1, <1>5, <2>4 DEF Counting, Entitled, Carrying
    <3>3. /\ Cardinality(Claimed(g)') = Cardinality(Claimed(g))
          /\ Cardinality(Counting(g)') = Cardinality(Counting(g))
          /\ Cardinality(Entitled(g)') = Cardinality(Entitled(g))
      BY <3>1, <3>2
    <3> QED BY <2>2, <3>3
  <2>5. CASE g = d
    <3>1. Claimed(g)' = Claimed(g) \cup {s} /\ s \notin Claimed(g)
      BY <1>3, <1>4, <1>6, <2>1, <2>5 DEF Claimed
    <3>2. Counting(g)' = Counting(g) \cup {t} /\ t \notin Counting(g)
      BY <1>1, <1>5, <2>5 DEF Counting
    <3>3. Cardinality(Claimed(g) \cup {s}) = Cardinality(Claimed(g)) + 1
      BY <2>3, <3>1, FS_AddElement
    <3>4. Cardinality(Counting(g) \cup {t}) = Cardinality(Counting(g)) + 1
      BY <2>3, <3>2, FS_AddElement
    <3>5. /\ Cardinality(Claimed(g)') = Cardinality(Claimed(g)) + 1
          /\ Cardinality(Counting(g)') = Cardinality(Counting(g)) + 1
      BY <3>1, <3>2, <3>3, <3>4
    <3>6. Cardinality(Claimed(g)') + Cardinality(Entitled(g)') < MaxNHashs(g) + Cardinality(Threads)
      <4>1. CASE ~Carrying(t)
        <5>1. Entitled(g)' = Entitled(g) \ {t} /\ t \in Entitled(g)
          BY <1>1, <1>5, <2>5, <4>1 DEF Entitled, Carrying
        <5>2. Cardinality(Entitled(g) \ {t}) = Cardinality(Entitled(g)) - 1
          BY <2>3, <5>1, FS_RemoveElement
        <5>3. Cardinality(Entitled(g)') = Cardinality(Entitled(g)) - 1
          BY <5>1, <5>2
        <5> QED BY <2>2, <2>3, <3>5, <5>3
      <4>2. CASE Carrying(t)
        <5>1. /\ d <= next_storage /\ (d < storage => Has(d, x)) /\ content[x] # NULL
          BY <1>1, <1>3, <4>2, ClaimGen, ConstFacts DEF Claiming
        <5>2. ~Has(d, x)
          BY <1>1, <1>3, VirginMeans
        <5>3. Has(storage, x)
          BY <5>1, ContentHas
        <5>4. d = next_storage /\ next_storage = storage + 1 /\ storage \in Gens /\ storage \in Nat
          <6>1. d # storage /\ ~(d < storage) /\ d \in Nat
            BY <1>1, <5>1, <5>2, <5>3, Basics
          <6> QED BY <5>1, <6>1, Basics
        <5>5. Cardinality(Claimed(g)') <= Size[storage]
          <6>1. PICK hs : hs = hash'
            OBVIOUS
          <6>2. PICK C : C = Claimed(g)'
            OBVIOUS
          <6>3. C \in SUBSET Index(g) /\ \A i \in C : hs[g][i] # NO_HASH
            BY <6>1, <6>2 DEF Claimed
          <6>4. \A i, j \in C : hs[g][i] = hs[g][j] => i = j
            BY <2>1, <6>1, <6>3 DEF SlotInv
          <6>5. \A i \in C : \E j \in Index(storage) : hs[storage][j] = hs[g][i]
            <7>1. next_storage' # storage' /\ g = next_storage' /\ storage' = storage
              BY <2>5, <5>4
            <7>2. \A i \in Index(g) : hash'[g][i] # NO_HASH =>
                     \E j \in Index(storage) : hash'[storage][j] = hash'[g][i]
              BY <7>1 DEF GenInv, Has
            <7> QED BY <6>1, <6>3, <7>2
          <6>6. Cardinality(C) <= Size[storage]
            BY <2>1, <5>4, <6>3, <6>4, <6>5, KeysFit
          <6> QED BY <6>2, <6>6
        <5>6. Size[storage] <= MaxNHashs(g) /\ Size[storage] \in Nat
          BY <2>1, <2>5, <5>4, Sizes
        <5>7. Entitled(g)' = {}
          <6>1. \A u \in Threads : my[u].d = g /\ pc[u] \in {"claim", "claim_cas"} => Carrying(u)
            <7>1. SUFFICES ASSUME NEW u \in Threads, my[u].d = g, pc[u] \in {"claim", "claim_cas"},
                                  ~Carrying(u)
                           PROVE  FALSE
              OBVIOUS
            <7>2. my[u].d = my[u].p /\ my[u].p <= storage
              BY <7>1, ClaimGen, Basics DEF Claiming
            <7> QED BY <2>5, <5>4, <7>1, <7>2
          <6> QED BY <1>5, <6>1 DEF Entitled, Carrying
        <5>8. Cardinality(Entitled(g)') = 0
          BY <5>7, FS_EmptySet
        <5> QED BY <2>3, <3>5, <5>5, <5>6, <5>8
      <4> QED BY <4>1, <4>2
    <3> QED BY <2>2, <2>3, <3>5, <3>6
  <2> QED BY <2>4, <2>5
<1> QED BY <1>7 DEF CountInv

(* A claim is counted. *)
LEMMA CountCounts ==
    ASSUME IInv, CountInv, NEW t \in Threads, ClaimInc(t)
    PROVE  CountInv'
<1>1. /\ pc[t] = "claim_inc" /\ Goto(t, my[t].then) /\ UNCHANGED <<my, hash>>
      /\ n_hashs' = [n_hashs EXCEPT ![my[t].d] = @ + 1]
      /\ n_hashs \in [Gens -> Int] /\ pc \in [Threads -> Labels]
  BY DEF ClaimInc, IInv, TypeInv
<1>2. PICK d \in Gens : d = my[t].d
  BY Basics
<1>3. pc'[t] \in {"fill", "put"} /\ \A u \in Threads \ {t} : pc'[u] = pc[u]
  BY <1>1, Basics DEF Goto
<1>4. ASSUME NEW g \in 1 .. MaxGen
      PROVE  /\ n_hashs'[g] \in Nat
             /\ Cardinality(Claimed(g)') = n_hashs'[g] + Cardinality(Counting(g)')
             /\ Cardinality(Claimed(g)') + Cardinality(Entitled(g)') < MaxNHashs(g) + Cardinality(Threads)
  <2>1. g \in Gens
    BY ConstFacts DEF Gens
  <2>2. /\ n_hashs[g] \in Nat
        /\ Cardinality(Claimed(g)) = n_hashs[g] + Cardinality(Counting(g))
        /\ Cardinality(Claimed(g)) + Cardinality(Entitled(g)) < MaxNHashs(g) + Cardinality(Threads)
    BY DEF CountInv
  <2>3. Claimed(g)' = Claimed(g) /\ Entitled(g)' = Entitled(g)
    BY <1>1, <1>3 DEF Claimed, Entitled, Carrying
  <2>4. Cardinality(Claimed(g)') = Cardinality(Claimed(g)) /\ Cardinality(Entitled(g)') = Cardinality(Entitled(g))
    BY <2>3
  <2>5. CASE g # d
    <3>1. Counting(g)' = Counting(g)
      BY <1>1, <1>2, <1>3, <2>5 DEF Counting
    <3>2. Cardinality(Counting(g)') = Cardinality(Counting(g)) /\ n_hashs'[g] = n_hashs[g]
      BY <1>1, <1>2, <2>1, <2>5, <3>1
    <3> QED BY <2>2, <2>4, <3>2
  <2>6. CASE g = d
    <3>1. Counting(g)' = Counting(g) \ {t} /\ t \in Counting(g)
      BY <1>1, <1>2, <1>3, <2>6 DEF Counting
    <3>2. IsFiniteSet(Counting(g)) /\ Cardinality(Counting(g)) \in Nat
      BY <2>1, Finite
    <3>3. Cardinality(Counting(g) \ {t}) = Cardinality(Counting(g)) - 1
      BY <3>1, <3>2, FS_RemoveElement
    <3>4. Cardinality(Counting(g)') = Cardinality(Counting(g)) - 1 /\ n_hashs'[g] = n_hashs[g] + 1
      BY <1>1, <1>2, <2>1, <2>6, <3>1, <3>3
    <3> QED BY <2>2, <2>4, <3>2, <3>4
  <2> QED BY <2>5, <2>6
<1> QED BY <1>4 DEF CountInv

LEMMA CountNext ==
    ASSUME IInv, CountInv, [Next]_vars
    PROVE  CountInv'
<1>1. IInv'
  BY NextIInv
<1>2. ASSUME NEW t \in Threads, ClaimRead(t) PROVE CountInv'
  <2>1. pc[t] = "claim" /\ UNCHANGED <<hash, n_hashs, start>>
    BY <1>2 DEF ClaimRead, slots, rest
  <2>2. \/ ClaimNext(t)
        \/ \E l \in {"claim_cas", "fill", "put"} : Goto(t, l) /\ UNCHANGED my
    BY <1>2, Basics DEF ClaimRead
  <2> QED BY <2>1, <2>2, CountMoves
<1>3. ASSUME NEW t \in Threads, ClaimCas(t) PROVE CountInv'
  <2>1. pc[t] = "claim_cas" /\ UNCHANGED <<storage, next_storage, n_hashs, start>>
    BY <1>3 DEF ClaimCas, world, rest
  <2>2. CASE /\ hash[my[t].d][ClaimSlot(t)] = NO_HASH
             /\ hash' = [hash EXCEPT ![my[t].d][ClaimSlot(t)] = Key(t)]
             /\ Goto(t, "claim_inc") /\ UNCHANGED my
    <3>1. GenInv' /\ SlotInv'
      BY <1>1 DEF IInv
    <3> QED BY <2>1, <2>2, <3>1, CountClaim DEF SetHash
  <2>3. CASE UNCHANGED hash /\ (ClaimNext(t) \/ (Goto(t, my[t].then) /\ UNCHANGED my))
    <3>1. my[t].then \in {"fill", "put"}
      BY Basics
    <3> QED BY <2>1, <2>3, <3>1, CountMoves
  <2> QED BY <1>3, <2>2, <2>3 DEF ClaimCas
<1>4. ASSUME NEW t \in Threads, Step(t) PROVE CountInv'
  BY <1>2, <1>3, <1>4, CountElsewhere, CountCheck, CountCounts DEF Step
<1>5. ASSUME NEW t \in Threads, Enumerate(t) \/ \E c \in Scene.calls[t] : Call(t, c) PROVE CountInv'
  BY <1>5, CountElsewhere
<1>6. ASSUME UNCHANGED <<hash, n_hashs, pc, my>> PROVE CountInv'
  <2>1. \A g \in 1 .. MaxGen :
          /\ Claimed(g)' = Claimed(g) /\ Counting(g)' = Counting(g) /\ Entitled(g)' = Entitled(g)
    BY <1>6 DEF Claimed, Counting, Entitled, Carrying
  <2> QED BY <1>6, <2>1 DEF CountInv
<1>7. ASSUME NEW h, NEW v, Patch(h, v) PROVE CountInv'
  BY <1>6, <1>7 DEF Patch
<1>8. CASE UNCHANGED vars
  BY <1>6, <1>8 DEF vars
<1> QED BY <1>4, <1>5, <1>7, <1>8 DEF Next

(* In the beginning nothing is claimed but what the situation says. *)
LEMMA CountInit == Init => CountInv
<1> SUFFICES ASSUME Init, NEW g \in 1 .. MaxGen
             PROVE  /\ n_hashs[g] \in Nat
                    /\ Cardinality(Claimed(g)) = n_hashs[g] + Cardinality(Counting(g))
                    /\ Cardinality(Claimed(g)) + Cardinality(Entitled(g)) < MaxNHashs(g) + Cardinality(Threads)
  BY DEF CountInv
<1>1. g \in Gens /\ ~IsConst(g)
  BY ConstFacts DEF Gens, IsConst
<1>2. Counting(g) = {} /\ Entitled(g) = {}
  BY DEF Init, Counting, Entitled
<1>3. Cardinality(Counting(g)) = 0 /\ Cardinality(Entitled(g)) = 0
  BY <1>2, FS_EmptySet
<1>4. MaxNHashs(g) \in Nat /\ MaxNHashs(g) > 0 /\ Cardinality(Threads) \in Nat /\ Cardinality(Threads) > 0
  BY <1>1, Finite, Sizes
<1>5. n_hashs[g] = IF g = Scene.first THEN Cardinality(Scene.filled) ELSE 0
  BY <1>1 DEF Init
<1>6. CASE g = Scene.first
  <2>1. Cardinality(Claimed(g)) = Cardinality(Scene.filled) /\ Cardinality(Scene.filled) \in Nat
        /\ Cardinality(Scene.filled) <= MaxNHashs(g)
    BY <1>6, FilledCounted, InitSlots
  <2> QED BY <1>3, <1>4, <1>5, <1>6, <2>1
<1>7. CASE g # Scene.first
  <2>1. Claimed(g) = {}
    BY <1>1, <1>7, InitSlots DEF Claimed
  <2>2. Cardinality(Claimed(g)) = 0
    BY <2>1, FS_EmptySet
  <2> QED BY <1>3, <1>4, <1>5, <1>7, <2>2
<1> QED BY <1>6, <1>7

(* What the invariants say of n_hashs and get_max_n_hashs. *)
LEMMA ReserveFollows == IInv /\ CountInv => VirginReserve
<1> SUFFICES ASSUME IInv, CountInv PROVE VirginReserve
  OBVIOUS
<1>1. \A g \in Gens : ~IsConst(g) => g \in 1 .. MaxGen
  BY ConstFacts DEF Gens, IsConst
<1>2. CountsOK
  BY <1>1 DEF CountInv, CountsOK, Counting
<1>3. ASSUME NEW g \in Gens PROVE Cardinality(Claimed(g)) < MaxNHashs(g) + Cardinality(Threads)
  <2>1. /\ Cardinality(Claimed(g)) \in Nat /\ Cardinality(Entitled(g)) \in Nat
        /\ Cardinality(Threads) \in Nat /\ Cardinality(Threads) > 0
        /\ MaxNHashs(g) \in Nat /\ MaxNHashs(g) > 0
    BY Finite, Sizes
  <2>2. CASE IsConst(g)
    <3>1. Claimed(g) = {}
      BY <2>2 DEF IInv, GenInv, IsConst, Claimed
    <3>2. Cardinality(Claimed(g)) = 0
      BY <3>1, FS_EmptySet
    <3> QED BY <2>1, <3>2
  <2>3. CASE ~IsConst(g)
    <3>1. Cardinality(Claimed(g)) + Cardinality(Entitled(g)) < MaxNHashs(g) + Cardinality(Threads)
      BY <1>1, <2>3 DEF CountInv
    <3> QED BY <2>1, <3>1
  <2> QED BY <2>2, <2>3
<1> QED BY <1>2, <1>3 DEF VirginReserve

(* The count that decides on a migration lags behind by the claims in      *)
(* progress only, and the unused half of a storage is a reserve from which *)
(* each thread takes at most one slot, so a claim finds one.               *)
THEOREM ReserveSuffices == Spec => []VirginReserve
<1>1. CountInv /\ IInv /\ [Next]_vars => CountInv'
  BY CountNext
<1> QED BY <1>1, CountInit, Invariance, ReserveFollows, PTL DEF Spec

(* What the invariants say of the slots. *)
LEMMA SlotsFollow == IInv /\ CountInv => SlotsOK
<1> SUFFICES ASSUME IInv, CountInv PROVE SlotsOK
  OBVIOUS
<1>1. TypeInv /\ SlotInv /\ GenInv
  BY DEF IInv
<1>2. ASSUME NEW g \in Gens PROVE n_hashs[g] \in -1 .. Size[g]
  <2>1. Size[g] \in Nat
    BY Sizes
  <2>2. CASE g = 0
    BY <1>1, <2>1, <2>2 DEF GenInv
  <2>3. CASE g # 0
    <3>1. g \in 1 .. MaxGen
      BY <2>3, ConstFacts DEF Gens
    <3>2. n_hashs[g] \in Nat /\ Cardinality(Claimed(g)) = n_hashs[g] + Cardinality(Counting(g))
      BY <3>1 DEF CountInv
    <3>3. Cardinality(Claimed(g)) <= Size[g] /\ Cardinality(Claimed(g)) \in Nat
          /\ Cardinality(Counting(g)) \in Nat
      BY Finite
    <3> QED BY <2>1, <3>2, <3>3
  <2> QED BY <2>2, <2>3
<1>3. TypeOK
  <2>1. ASSUME NEW g \in Gens
        PROVE  /\ hash[g] \in [Index(g) -> Hashes \union {NO_HASH}]
               /\ value[g] \in [Index(g) -> Values \union {NULL, REDIRECT}]
               /\ n_hashs[g] \in -1 .. Size[g]
               /\ freed[g] \in Nat
    BY <1>1, <1>2 DEF TypeInv, Keys, Words
  <2>2. ASSUME NEW t \in Threads
        PROVE  /\ pc[t] \in Labels
               /\ my[t].call \in Scene.calls[t] \union {Idle}
               /\ my[t].p \in Gens /\ my[t].q \in Gens /\ my[t].d \in Gens
               /\ my[t].cv \in Values \union {NULL}
               /\ answer[t] \in Values \union {NULL, Idle, "0", "EEXIST", "end", "ECANCELED"}
               /\ rover[t].start \subseteq Hashes /\ rover[t].got \subseteq Hashes
    <3>1. rover[t] \in Rovers
      BY <1>1 DEF TypeInv
    <3>2. rover[t].start \subseteq Hashes /\ rover[t].got \subseteq Hashes
      BY <3>1 DEF Rovers
    <3> QED BY <1>1, <3>2, Basics DEF TypeInv
  <2> QED BY <1>1, <2>1, <2>2 DEF TypeOK, TypeInv
<1>4. ASSUME NEW g \in Gens, NEW i \in Claimed(g), NEW k \in Index(g), Probe(g, hash[g][i], k) = i,
             NEW j \in 0 .. k - 1
      PROVE  Probe(g, hash[g][i], j) \in Claimed(g)
  <2>1. i \in Index(g) /\ hash[g][i] # NO_HASH
    BY DEF Claimed
  <2>2. hash[g][i] \in Nat /\ j \in Nat
    <3>1. hash[g][i] \in Keys /\ k \in Nat
      BY <1>1, <2>1, Sizes DEF TypeInv
    <3>2. j \in Nat
      BY <3>1
    <3> QED BY <3>1, <3>2, ConstFacts
  <2>3. Probe(g, hash[g][i], j) \in Index(g)
    BY <2>2, Probes
  <2>4. hash[g][Probe(g, hash[g][i], j)] # NO_HASH
    BY <1>1, <1>4, <2>1 DEF SlotInv
  <2> QED BY <2>3, <2>4 DEF Claimed
<1>5. ASSUME NEW g \in Gens
      PROVE  /\ \A i \in Index(g) : value[g][i] \in Values => hash[g][i] # NO_HASH
             /\ \A i, j \in Claimed(g) : hash[g][i] = hash[g][j] => i = j
  BY <1>1 DEF SlotInv, Claimed
<1> QED BY <1>3, <1>4, <1>5 DEF SlotsOK

(* The types hold, no call returns a frozen value, and a hash has one slot *)
(* per storage with no virgin slot on the way there, whoever claims.       *)
THEOREM SlotsRight == Spec => []SlotsOK
<1>1. CountInv /\ IInv /\ [Next]_vars => CountInv'
  BY CountNext
<1> QED BY <1>1, CountInit, Invariance, SlotsFollow, PTL DEF Spec

-----------------------------------------------------------------------------
(* Refinement *)

(* What a call knows: what the map held for its hash before is still       *)
(* there, and a lookup that began with a value is in a storage that has    *)
(* the hash, at a slot that its probe has not passed yet.                  *)
LookAt(t) ==
    /\ pc[t] = "idle" => my[t].call = Idle
    /\ pc[t] # "idle" /\ my[t].call.op # "next" /\ my[t].before # NULL =>
         content[my[t].call.hash] = my[t].before
    /\ pc[t] = "look_hash" =>
         /\ my[t].at < Size[my[t].p]
         /\ \A k \in 0 .. my[t].at - 1 :
              hash[my[t].p][Probe(my[t].p, my[t].call.hash, k)] \notin {NO_HASH, my[t].call.hash}
         /\ my[t].before # NULL => Has(my[t].p, my[t].call.hash)
    /\ pc[t] = "look_value" =>
         hash[my[t].p][Probe(my[t].p, my[t].call.hash, my[t].at)] = my[t].call.hash

(* The slots an enumerator has left behind. *)
Passed(t) == 0 .. (IF pc[t] = "enum_value" THEN rover[t].index - 1 ELSE rover[t].index) - 1

(* An enumerator that has returned something has its mind on one storage,  *)
(* and returned only hashes of slots it has left behind.                   *)
Remembers(t) ==
    rover[t].on =>
       IF rover[t].mask = 0 THEN rover[t].got = {}
       ELSE \E g \in 0 .. storage :
              /\ Mask(g) = rover[t].mask
              /\ \A h \in rover[t].got : \E j \in Index(g) : j \in Passed(t) /\ hash[g][j] = h

RoverAt(t) ==
    /\ Remembers(t)
    /\ pc[t] # "idle" /\ my[t].call.op = "next" => rover[t].on
    /\ pc[t] \in {"enum_hash", "enum_value"} => rover[t].mask \in {0, Mask(my[t].p)}

(* No two storages have the same size. *)
SizesInv == \A g, h \in 0 .. next_storage : g < h => Size[g] < Size[h]

(* The invariant of the refinement. *)
RInv == IInv /\ SizesInv /\ \A t \in Threads : LookAt(t) /\ RoverAt(t)

-----------------------------------------------------------------------------
(* The map the callers see, as ConcurrentHashmap maps it *)

CallMap(t) ==
    IF my[t].call = Idle THEN Idle
    ELSE IF my[t].call.op = "next" THEN [op |-> "next"]
    ELSE [op |-> my[t].call.op, hash |-> my[t].call.hash,
          value |-> my[t].call.value, before |-> my[t].before]

CallsMap == [t \in Threads |-> CallMap(t)]

GotMap == [t \in Threads |-> rover[t].got]

(* The steps of WriteOnceMap on it. *)
LEMMA MapStutters ==
    ASSUME content' = content, CallsMap' = CallsMap, answer' = answer, GotMap' = GotMap
    PROVE  UNCHANGED Contract!vars
  BY DEF Contract!vars, CallsMap, CallMap, GotMap

LEMMA MapBegins ==
    ASSUME NEW t \in Threads, NEW op \in {"insert", "register", "lookup"}, NEW h \in Hashes,
           NEW v \in Values \union {NULL}, CallsMap[t] = Idle,
           CallsMap' = [CallsMap EXCEPT ![t] =
                          [op |-> op, hash |-> h, value |-> v, before |-> content[h]]],
           answer' = [answer EXCEPT ![t] = Idle], content' = content, GotMap' = GotMap
    PROVE  Contract!Next
<1>1. Contract!Begin(t, op, h, v)
  BY DEF Contract!Begin, CallsMap, CallMap, GotMap
<1> QED BY <1>1 DEF Contract!Next

LEMMA MapBeginsNext ==
    ASSUME NEW t \in Threads, CallsMap[t] = Idle,
           CallsMap' = [CallsMap EXCEPT ![t] = [op |-> "next"]],
           answer' = [answer EXCEPT ![t] = Idle], content' = content, GotMap' = GotMap
    PROVE  Contract!Next
<1>1. Contract!BeginNext(t)
  BY DEF Contract!BeginNext, CallsMap, CallMap, GotMap
<1> QED BY <1>1 DEF Contract!Next

(* A call that stores nothing and finds no entry returns. *)
LEMMA MapReturns ==
    ASSUME NEW t \in Threads, NEW a, CallsMap[t] # Idle,
           \/ /\ CallsMap[t].op \in {"insert", "register"} /\ content[CallsMap[t].hash] # NULL
              /\ a = IF CallsMap[t].op = "insert" THEN "EEXIST" ELSE content[CallsMap[t].hash]
           \/ CallsMap[t].op = "lookup" /\ a \in {content[CallsMap[t].hash], CallsMap[t].before}
           \/ CallsMap[t].op = "next" /\ a \in {"end", "ECANCELED"},
           CallsMap' = [CallsMap EXCEPT ![t] = Idle],
           answer' = [answer EXCEPT ![t] = a], content' = content, GotMap' = GotMap
    PROVE  Contract!Next
<1>1. Contract!Return(t, a)
  BY DEF Contract!Return, CallsMap, CallMap
<1>2. CASE /\ CallsMap[t].op \in {"insert", "register"} /\ content[CallsMap[t].hash] # NULL
           /\ a = IF CallsMap[t].op = "insert" THEN "EEXIST" ELSE content[CallsMap[t].hash]
  <2>1. Contract!Return(t, IF CallsMap[t].op = "insert" THEN "EEXIST" ELSE content[CallsMap[t].hash])
    BY <1>1, <1>2 DEF Contract!Return
  <2>2. Contract!Exists(t)
    BY <1>2, <2>1, Zenon DEF Contract!Exists, CallsMap, CallMap, GotMap
  <2> QED BY <2>2 DEF Contract!Next
<1>3. CASE CallsMap[t].op = "lookup" /\ a \in {content[CallsMap[t].hash], CallsMap[t].before}
  <2>1. Contract!Lookup(t)
    BY <1>1, <1>3, Zenon DEF Contract!Lookup, CallsMap, CallMap, GotMap
  <2> QED BY <2>1 DEF Contract!Next
<1>4. CASE CallsMap[t].op = "next" /\ a \in {"end", "ECANCELED"}
  <2>1. Contract!NextNothing(t)
    BY <1>1, <1>4 DEF Contract!NextNothing, CallsMap, CallMap, GotMap
  <2> QED BY <2>1 DEF Contract!Next
<1> QED BY <1>2, <1>3, <1>4

LEMMA MapStores ==
    ASSUME NEW t \in Threads, CallsMap[t] # Idle, CallsMap[t].op \in {"insert", "register"},
           content[CallsMap[t].hash] = NULL,
           content' = [content EXCEPT ![CallsMap[t].hash] = CallsMap[t].value],
           CallsMap' = [CallsMap EXCEPT ![t] = Idle],
           answer' = [answer EXCEPT ![t] = IF CallsMap[t].op = "insert" THEN "0" ELSE NULL],
           GotMap' = GotMap
    PROVE  Contract!Next
<1>1. Contract!Store(t)
  BY DEF Contract!Store, Contract!Return, CallsMap, CallMap, GotMap
<1> QED BY <1>1 DEF Contract!Next

LEMMA MapEnumerates ==
    ASSUME NEW t \in Threads, CallsMap[t] = Idle, GotMap' = [GotMap EXCEPT ![t] = {}],
           CallsMap' = CallsMap, answer' = answer, content' = content
    PROVE  Contract!Next
<1>1. Contract!Enumerate(t)
  BY DEF Contract!Enumerate, CallsMap, CallMap, GotMap
<1> QED BY <1>1 DEF Contract!Next

LEMMA MapFinds ==
    ASSUME NEW t \in Threads, NEW h \in Hashes, CallsMap[t] # Idle, CallsMap[t].op = "next",
           content[h] # NULL, h \notin GotMap[t], GotMap' = [GotMap EXCEPT ![t] = @ \union {h}],
           CallsMap' = [CallsMap EXCEPT ![t] = Idle],
           answer' = [answer EXCEPT ![t] = content[h]], content' = content
    PROVE  Contract!Next
<1>1. Contract!NextEntry(t, h)
  BY DEF Contract!NextEntry, Contract!Return, CallsMap, CallMap, GotMap
<1> QED BY <1>1 DEF Contract!Next

LEMMA MapPatches ==
    ASSUME NEW h \in Hashes, NEW v \in Values \union {NULL}, \A t \in Threads : CallsMap[t] = Idle,
           content' = [content EXCEPT ![h] = v], CallsMap' = CallsMap, answer' = answer,
           GotMap' = GotMap
    PROVE  Contract!Next
<1>1. Contract!Patch(h, v)
  BY DEF Contract!Patch, CallsMap, CallMap, GotMap
<1> QED BY <1>1 DEF Contract!Next

-----------------------------------------------------------------------------
(* Calls *)

LEMMA CallShape ==
    ASSUME start \in DOMAIN Starts, NEW t \in Threads, NEW c \in Scene.calls[t]
    PROVE  /\ c # Idle
           /\ \/ c = [op |-> "next"]
              \/ /\ c.op \in {"insert", "register", "lookup"} /\ c.hash \in Hashes
                 /\ c.value \in Values \union {NULL}
                 /\ c.op # "lookup" => c.value \in Values
<1>1. Scene \in {Starts[k] : k \in DOMAIN Starts}
  BY DEF Scene
<1> QED BY <1>1, HashmapAssumption

(* A thread that is not idle is in one of its calls. *)
LEMMA Caller ==
    ASSUME IInv, NEW t \in Threads, pc[t] # "idle"
    PROVE  /\ my[t].call # Idle /\ my[t].before \in Values \union {NULL}
           /\ my[t].call.op \in {"insert", "register", "lookup", "next"}
           /\ my[t].call.op # "next" =>
                my[t].call.hash \in Hashes /\ my[t].call.value \in Values \union {NULL}
           /\ my[t].call.op \in {"insert", "register"} => my[t].call.value \in Values
<1>1. start \in DOMAIN Starts /\ my[t].call \in Scene.calls[t]
  BY Basics DEF CallAt
<1>2. PICK c \in Scene.calls[t] : c = my[t].call
  BY <1>1
<1>3. my[t].before \in Values \union {NULL}
  BY Basics DEF TypeInv, Locals
<1>4. /\ c # Idle
      /\ \/ c = [op |-> "next"]
         \/ /\ c.op \in {"insert", "register", "lookup"} /\ c.hash \in Hashes
            /\ c.value \in Values \union {NULL}
            /\ c.op # "lookup" => c.value \in Values
  BY <1>1, CallShape
<1> QED BY <1>2, <1>3, <1>4

(* It is in the same one in the map that WriteOnceMap sees. *)
LEMMA CallSeen ==
    ASSUME IInv, NEW t \in Threads, pc[t] # "idle"
    PROVE  /\ CallsMap[t] # Idle /\ CallsMap[t].op = my[t].call.op
           /\ my[t].call.op # "next" =>
                /\ CallsMap[t].hash = my[t].call.hash /\ CallsMap[t].value = my[t].call.value
                /\ CallsMap[t].before = my[t].before
<1>1. CallsMap[t] = CallMap(t)
  BY DEF CallsMap
<1>2. CASE my[t].call.op = "next"
  <2>1. CallsMap[t] = [op |-> "next"]
    BY <1>1, <1>2, Caller DEF CallMap
  <2> QED BY <1>2, <2>1, HashmapAssumption
<1>3. CASE my[t].call.op # "next"
  <2>1. CallsMap[t] = [op |-> my[t].call.op, hash |-> my[t].call.hash,
                       value |-> my[t].call.value, before |-> my[t].before]
    BY <1>1, <1>3, Caller DEF CallMap
  <2>2. CallsMap[t] \in [op : {"insert", "register", "lookup"}, hash : Hashes,
                         value : Values \union {NULL}, before : Values \union {NULL}]
    BY <1>3, <2>1, Caller
  <2>3. CallsMap[t] # Idle
    BY <2>2, HashmapAssumption
  <2> QED BY <2>1, <2>3
<1> QED BY <1>2, <1>3

(* What a thread does between its calls and in one, as WriteOnceMap sees it. *)
LEMMA CallStays ==
    ASSUME NEW t \in Threads, my'[t].call = my[t].call, my'[t].before = my[t].before,
           \A u \in Threads \ {t} : my'[u] = my[u]
    PROVE  CallsMap' = CallsMap
  BY DEF CallsMap, CallMap

LEMMA CallEnds ==
    ASSUME TypeInv, NEW t \in Threads, NEW a, Return(t, a)
    PROVE  /\ CallsMap' = [CallsMap EXCEPT ![t] = Idle]
           /\ answer' = [answer EXCEPT ![t] = a]
           /\ pc'[t] = "idle" /\ my'[t] = NoLocals
           /\ \A u \in Threads \ {t} : pc'[u] = pc[u] /\ my'[u] = my[u]
<1>1. /\ pc'[t] = "idle" /\ my'[t] = NoLocals
      /\ \A u \in Threads \ {t} : pc'[u] = pc[u] /\ my'[u] = my[u]
  BY DEF TypeInv, Return, Goto
<1>2. CallMap(t)' = Idle /\ \A u \in Threads \ {t} : CallMap(u)' = CallMap(u)
  BY <1>1 DEF CallMap, NoLocals
<1>3. CallsMap' = [CallsMap EXCEPT ![t] = Idle]
  BY <1>2 DEF CallsMap
<1> QED BY <1>1, <1>3 DEF Return

LEMMA GotStays ==
    ASSUME \A u \in Threads : rover'[u].got = rover[u].got
    PROVE  GotMap' = GotMap
  BY DEF GotMap

-----------------------------------------------------------------------------
(* What the others know stays true *)

(* No hash word changes, and storages move on. *)
Kept ==
    /\ start' = start /\ 0 .. storage \subseteq 0 .. storage'
    /\ \A g \in Gens : \A i \in Index(g) : hash[g][i] # NO_HASH => hash'[g][i] = hash[g][i]

LEMMA KeptForward ==
    ASSUME IInv, IInv', Forward
    PROVE  Kept /\ \A h \in Hashes : content[h] # NULL => content'[h] = content[h]
<1>1. storage \in Nat /\ storage' \in Nat
  BY DEF IInv, TypeInv, Gens
<1> QED BY <1>1 DEF Forward, Kept

(* At most one storage is added at a time. *)
LEMMA OneMore ==
    ASSUME NEW a \in Nat, NEW b \in Nat, NEW c \in Nat, NEW d \in Nat,
           b \in {a, a + 1}, d \in {c, c + 1}, c \in {a, b}, b <= d
    PROVE  d \in {b, b + 1}
  OBVIOUS

LEMMA SizesStable ==
    ASSUME RInv, IInv', Forward
    PROVE  SizesInv'
<1>1. /\ next_storage \in Gens /\ next_storage' \in Gens /\ next_storage \in Nat
      /\ next_storage' \in {next_storage, next_storage + 1}
  <2>1. /\ storage \in Nat /\ next_storage \in Nat /\ storage' \in Nat /\ next_storage' \in Nat
        /\ next_storage \in Gens /\ next_storage' \in Gens
    BY ConstFacts DEF RInv, IInv, TypeInv, Gens
  <2>2. next_storage \in {storage, storage + 1} /\ next_storage' \in {storage', storage' + 1}
    BY DEF RInv, IInv, GenInv
  <2>3. storage' \in {storage, next_storage} /\ next_storage <= next_storage'
    BY DEF Forward
  <2> QED BY <2>1, <2>2, <2>3, OneMore
<1>2. CASE next_storage' = next_storage
  BY <1>2 DEF RInv, SizesInv
<1>3. CASE next_storage' = next_storage + 1
  <2>1. Size[next_storage + 1] > Size[next_storage] /\ Size[next_storage] \in Nat
        /\ Size[next_storage + 1] \in Nat
    BY <1>1, <1>3, Sizes
  <2>2. ASSUME NEW g \in 0 .. next_storage PROVE Size[g] <= Size[next_storage] /\ Size[g] \in Nat
    <3>1. g \in Gens
      BY <1>1, ConstFacts DEF Gens
    <3>2. Size[g] \in Nat
      BY <3>1, Sizes
    <3> QED BY <1>1, <2>1, <3>2 DEF RInv, SizesInv
  <2>3. ASSUME NEW g \in 0 .. next_storage', NEW h \in 0 .. next_storage', g < h
        PROVE  Size[g] < Size[h]
    <3>1. CASE h = next_storage + 1
      BY <1>1, <2>1, <2>2, <2>3, <3>1
    <3>2. CASE h # next_storage + 1
      BY <1>1, <1>3, <2>3, <3>2 DEF RInv, SizesInv
    <3> QED BY <3>1, <3>2
  <2> QED BY <2>3 DEF SizesInv
<1> QED BY <1>1, <1>2, <1>3

LEMMA RememberStable ==
    ASSUME IInv, Kept, NEW u \in Threads, rover'[u] = rover[u], Passed(u) \subseteq Passed(u)',
           Remembers(u)
    PROVE  Remembers(u)'
<1>1. rover[u] \in Rovers /\ NO_HASH \notin Hashes
  BY ConstFacts DEF IInv, TypeInv
<1>2. ASSUME NEW g \in 0 .. storage, NEW h \in rover[u].got, NEW j \in Index(g), hash[g][j] = h
      PROVE  hash'[g][j] = h
  <2>1. h # NO_HASH
    BY <1>1 DEF Rovers
  <2>2. g \in Gens
    BY ConstFacts DEF IInv, TypeInv, Gens
  <2> QED BY <1>2, <2>1, <2>2 DEF Kept
<1>3. CASE rover[u].on /\ rover[u].mask # 0
  <2>1. PICK g \in 0 .. storage :
          /\ Mask(g) = rover[u].mask
          /\ \A h \in rover[u].got : \E j \in Index(g) : j \in Passed(u) /\ hash[g][j] = h
    BY <1>3 DEF Remembers
  <2>2. \A h \in rover[u].got : \E j \in Index(g) : j \in Passed(u)' /\ hash'[g][j] = h
    BY <1>2, <2>1
  <2>3. g \in 0 .. storage'
    BY <2>1 DEF Kept
  <2> QED BY <1>3, <2>1, <2>2, <2>3 DEF Remembers
<1>4. CASE ~(rover[u].on /\ rover[u].mask # 0)
  BY <1>4 DEF Remembers
<1> QED BY <1>3, <1>4

LEMMA KnownStable ==
    ASSUME RInv, Kept, NEW u \in Threads, pc'[u] = pc[u], my'[u] = my[u], rover'[u] = rover[u],
           pc[u] = "idle" \/ \A h \in Hashes : content[h] # NULL => content'[h] = content[h]
    PROVE  LookAt(u)' /\ RoverAt(u)'
<1>1. IInv /\ LookAt(u) /\ RoverAt(u)
  BY DEF RInv
<1>2. my[u].p \in Gens /\ my[u].at \in Nat /\ rover[u] \in Rovers /\ NO_HASH \notin Hashes
  BY <1>1, Basics, ConstFacts DEF TypeInv
<1>3. LookAt(u)'
  <2>1. CASE pc[u] = "idle"
    BY <1>1, <2>1 DEF LookAt
  <2>2. CASE pc[u] # "idle"
    <3>1. my[u].call.op # "next" => my[u].call.hash \in Hashes
      BY <1>1, <2>2, Caller
    <3>2. my[u].call.op # "next" /\ my[u].before # NULL => content'[my[u].call.hash] = my[u].before
      <4>1. \A h \in Hashes : content[h] # NULL => content'[h] = content[h]
        BY <2>2
      <4> QED BY <1>1, <2>2, <3>1, <4>1 DEF LookAt
    <3>3. CASE pc[u] = "look_hash"
      <4>1. my[u].call.hash \in Hashes /\ my[u].call.hash \in Nat
        BY <1>1, <3>3, Addressed, ConstFacts
      <4>2. my[u].at < Size[my[u].p] /\ Size[my[u].p] \in Nat
        BY <1>1, <1>2, <3>3, Sizes DEF LookAt
      <4>3. ASSUME NEW k \in 0 .. my[u].at - 1
            PROVE  hash'[my[u].p][Probe(my[u].p, my[u].call.hash, k)] \notin {NO_HASH, my[u].call.hash}
        <5> DEFINE p == my[u].p
                   h == my[u].call.hash
        <5>1. p \in Gens /\ h \in Nat /\ k \in Nat
          BY <1>2, <4>1
        <5> HIDE DEF p, h
        <5>2. Probe(p, h, k) \in Index(p)
          BY <5>1, Probes
        <5>3. hash[p][Probe(p, h, k)] \notin {NO_HASH, h}
          BY <1>1, <3>3 DEF LookAt, p, h
        <5> QED BY <5>1, <5>2, <5>3 DEF Kept, p, h
      <4>4. Has(my[u].p, my[u].call.hash) => Has(my[u].p, my[u].call.hash)'
        BY <1>2, <4>1 DEF Kept, Has
      <4> QED BY <1>1, <3>2, <3>3, <4>2, <4>3, <4>4 DEF LookAt
    <3>4. CASE pc[u] = "look_value"
      <4>1. hash'[my[u].p][Probe(my[u].p, my[u].call.hash, my[u].at)] = my[u].call.hash
        <5>1. /\ my[u].call.hash \in Hashes
              /\ Probe(my[u].p, my[u].call.hash, my[u].at) \in Index(my[u].p)
          BY <1>1, <3>4, Addressed
        <5>2. hash[my[u].p][Probe(my[u].p, my[u].call.hash, my[u].at)] = my[u].call.hash
          BY <1>1, <3>4 DEF LookAt
        <5> QED BY <1>2, <5>1, <5>2 DEF Kept
      <4> QED BY <3>2, <3>4, <4>1 DEF LookAt
    <3>5. CASE pc[u] \notin {"look_hash", "look_value"}
      BY <2>2, <3>2, <3>5 DEF LookAt
    <3> QED BY <3>3, <3>4, <3>5
  <2> QED BY <2>1, <2>2
<1>4. RoverAt(u)'
  <2>1. Passed(u)' = Passed(u)
    BY DEF Passed
  <2>2. Remembers(u)'
    BY <1>1, <2>1, RememberStable DEF RoverAt
  <2> QED BY <1>1, <2>2 DEF RoverAt
<1> QED BY <1>3, <1>4

-----------------------------------------------------------------------------
(* Steps that the callers do not see *)

Inside == Labels \ {"idle", "look_hash", "look_value", "enum_hash", "enum_value"}

(* An enumerator that leaves its slot has left one more behind. *)
LEMMA RoverKept ==
    ASSUME RInv, Kept, NEW t \in Threads, pc[t] # "idle", pc'[t] # "enum_value",
           my'[t].call = my[t].call, rover'[t] = rover[t],
           pc'[t] = "enum_hash" => rover[t].mask \in {0, Mask(my'[t].p)}
    PROVE  RoverAt(t)'
<1>1. IInv /\ RoverAt(t) /\ rover[t] \in Rovers /\ NO_HASH \notin Hashes
  BY Basics, ConstFacts DEF RInv, TypeInv
<1>2. Passed(t) \subseteq Passed(t)'
  BY <1>1 DEF Passed, Rovers
<1>3. Remembers(t)'
  BY <1>1, <1>2, RememberStable DEF RoverAt
<1> QED BY <1>1, <1>3 DEF RoverAt

LEMMA InsideStep ==
    ASSUME RInv, IInv', Forward, NEW t \in Threads, pc[t] # "idle", pc'[t] \in Inside,
           my'[t].call = my[t].call, my'[t].before = my[t].before, Others(t),
           UNCHANGED <<rover, answer, content>>
    PROVE  RInv' /\ UNCHANGED Contract!vars
<1>0. Kept /\ \A h \in Hashes : content[h] # NULL => content'[h] = content[h]
  BY KeptForward DEF RInv
<1>1. RoverAt(t)'
  BY <1>0, RoverKept DEF Inside
<1>2. LookAt(t)'
  BY DEF LookAt, RInv, Inside
<1>3. ASSUME NEW u \in Threads \ {t} PROVE LookAt(u)' /\ RoverAt(u)'
  <2>1. pc'[u] = pc[u] /\ my'[u] = my[u] /\ rover'[u] = rover[u]
    BY DEF Others
  <2> QED BY <1>0, <2>1, KnownStable
<1>4. CallsMap' = CallsMap
  BY CallStays DEF Others
<1>5. GotMap' = GotMap
  BY GotStays
<1>6. SizesInv'
  BY SizesStable
<1> QED BY <1>1, <1>2, <1>3, <1>4, <1>5, <1>6, MapStutters DEF RInv

(* Such a step, by what it does to the locals. *)
Moves(t, l, m) ==
    /\ l \in Inside /\ Goto(t, l) /\ my' = [my EXCEPT ![t] = m]
    /\ m.call = my[t].call /\ m.before = my[t].before

LEMMA InsideMoves ==
    ASSUME RInv, IInv', Forward, NEW t \in Threads, pc[t] # "idle", NEW l, NEW m, Moves(t, l, m),
           UNCHANGED <<rover, answer, content>>
    PROVE  RInv' /\ UNCHANGED Contract!vars
<1>1. /\ pc'[t] \in Inside /\ my'[t].call = my[t].call /\ my'[t].before = my[t].before
      /\ Others(t)
  BY DEF RInv, IInv, TypeInv, Moves, Goto, Others
<1> QED BY <1>1, InsideStep

LEMMA InsideGoes ==
    ASSUME RInv, IInv', Forward, NEW t \in Threads, pc[t] # "idle", NEW l \in Inside, Goto(t, l),
           UNCHANGED <<my, rover, answer, content>>
    PROVE  RInv' /\ UNCHANGED Contract!vars
<1>1. Moves(t, l, my[t])
  BY DEF RInv, IInv, TypeInv, Moves
<1> QED BY <1>1, InsideMoves

LEMMA InsideCopyNext ==
    ASSUME RInv, IInv', Forward, NEW t \in Threads, pc[t] # "idle", CopyNext(t),
           UNCHANGED <<rover, answer, content>>
    PROVE  RInv' /\ UNCHANGED Contract!vars
<1> DEFINE m == [my[t] EXCEPT !.i = @ + 1, !.ch = NO_HASH, !.cv = NULL, !.d = 0, !.at = 0,
                              !.then = "fill"]
           l == IF my[t].i = Mask(my[t].p) THEN "swap" ELSE "copy_hash"
<1>1. my' = [my EXCEPT ![t] = m] /\ Goto(t, l)
  BY DEF CopyNext
<1>2. m.call = my[t].call /\ m.before = my[t].before
  BY DEF RInv, IInv, TypeInv, Locals
<1>3. l \in Inside
  BY DEF Inside, Labels
<1> QED BY <1>1, <1>2, <1>3, InsideMoves DEF Moves

LEMMA InsideCopyLoop ==
    ASSUME RInv, IInv', Forward, NEW t \in Threads, pc[t] # "idle", NEW h, NEW v, CopyLoop(t, h, v),
           UNCHANGED <<rover, answer, content>>
    PROVE  RInv' /\ UNCHANGED Contract!vars
<1>1. CASE CopyNext(t)
  BY <1>1, InsideCopyNext
<1>2. CASE my' = [my EXCEPT ![t].ch = h, ![t].cv = v] /\ Goto(t, "freeze")
  <2> DEFINE m == [my[t] EXCEPT !.ch = h, !.cv = v]
  <2>1. my' = [my EXCEPT ![t] = m]
    BY <1>2
  <2>2. m.call = my[t].call /\ m.before = my[t].before
    BY DEF RInv, IInv, TypeInv, Locals
  <2> QED BY <1>2, <2>1, <2>2, InsideMoves DEF Moves, Inside, Labels
<1>3. CASE /\ my' = [my EXCEPT ![t].ch = h, ![t].cv = v, ![t].d = my[t].q, ![t].at = 0,
                               ![t].then = "put"]
           /\ Goto(t, "claim")
  <2> DEFINE m == [my[t] EXCEPT !.ch = h, !.cv = v, !.d = my[t].q, !.at = 0, !.then = "put"]
  <2>1. my' = [my EXCEPT ![t] = m]
    BY <1>3
  <2>2. m.call = my[t].call /\ m.before = my[t].before
    BY DEF RInv, IInv, TypeInv, Locals
  <2> QED BY <1>3, <2>1, <2>2, InsideMoves DEF Moves, Inside, Labels
<1> QED BY <1>1, <1>2, <1>3 DEF CopyLoop

LEMMA InsideClaimNext ==
    ASSUME RInv, IInv', Forward, NEW t \in Threads, pc[t] # "idle", ClaimNext(t),
           UNCHANGED <<rover, answer, content>>
    PROVE  RInv' /\ UNCHANGED Contract!vars
<1> DEFINE m == [my[t] EXCEPT !.at = @ + 1]
           l == IF my[t].at # Mask(my[t].d) THEN "claim"
                ELSE IF my[t].then = "put" THEN "freeze" ELSE "mig_next"
<1>1. my' = [my EXCEPT ![t] = m] /\ Goto(t, l)
  BY DEF ClaimNext
<1>2. m.call = my[t].call /\ m.before = my[t].before
  BY DEF RInv, IInv, TypeInv, Locals
<1>3. l \in Inside
  BY DEF Inside, Labels
<1> QED BY <1>1, <1>2, <1>3, InsideMoves DEF Moves

(* The actions of a migration, and those of insert and register up to the  *)
(* one that decides.                                                       *)
LEMMA InsideAction ==
    ASSUME RInv, IInv', Forward, NEW t \in Threads,
           \/ Check(t) \/ ClaimRead(t) \/ ClaimCas(t) \/ ClaimInc(t)
           \/ MigNext(t) \/ MigAlloc(t) \/ CopyHash(t) \/ CopyVirgin(t) \/ CopyRehash(t)
           \/ CopyValue(t) \/ Put(t) \/ PutFollow(t) \/ Freeze(t) \/ Swap(t)
    PROVE  RInv' /\ UNCHANGED Contract!vars
<1>1. TypeInv /\ my \in [Threads -> Locals] /\ my[t].then \in {"fill", "put"}
  BY Basics DEF RInv, TypeInv
<1>2. /\ {"claim", "claim_cas", "claim_inc", "fill", "put", "follow", "freeze", "swap", "load",
          "mig_next", "mig_alloc", "copy_hash", "copy_virgin", "copy_rehash", "copy_value"} \subseteq Inside
      /\ CopyFrom(my[t].p) \in Inside /\ my[t].then \in Inside
  BY <1>1 DEF Inside, Labels, CopyFrom
<1>3. CASE Check(t)
  <2> DEFINE l == IF n_hashs[my[t].p] = -1 \/ n_hashs[my[t].p] >= MaxNHashs(my[t].p)
                  THEN "mig_next" ELSE "claim"
  <2>1. pc[t] # "idle" /\ Goto(t, l) /\ UNCHANGED <<my, rover, answer, content>>
    BY <1>3 DEF Check, rest
  <2>2. l \in Inside
    BY <1>2
  <2> QED BY <2>1, <2>2, InsideGoes
<1>4. CASE ClaimInc(t)
  BY <1>2, <1>4, InsideGoes DEF ClaimInc, rest
<1>5. CASE Put(t)
  <2> DEFINE l == IF value[my[t].d][ClaimSlot(t)] = REDIRECT THEN "follow" ELSE "freeze"
  <2>1. pc[t] # "idle" /\ Goto(t, l) /\ UNCHANGED <<my, rover, answer, content>>
    BY <1>5 DEF Put, rest
  <2>2. l \in Inside
    BY <1>2
  <2> QED BY <2>1, <2>2, InsideGoes
<1>6. CASE ClaimRead(t)
  <2>1. pc[t] # "idle" /\ UNCHANGED <<rover, answer, content>>
    BY <1>6 DEF ClaimRead, rest
  <2>2. CASE ClaimNext(t)
    BY <2>1, <2>2, InsideClaimNext
  <2>3. ASSUME NEW l \in {"claim_cas", my[t].then}, Goto(t, l), UNCHANGED my
        PROVE  RInv' /\ UNCHANGED Contract!vars
    BY <1>2, <2>1, <2>3, InsideGoes
  <2> QED BY <1>6, <2>2, <2>3 DEF ClaimRead
<1>7. CASE ClaimCas(t)
  <2>1. pc[t] # "idle" /\ UNCHANGED <<rover, answer, content>>
    BY <1>7 DEF ClaimCas, rest
  <2>2. CASE ClaimNext(t)
    BY <2>1, <2>2, InsideClaimNext
  <2>3. ASSUME NEW l \in {"claim_inc", my[t].then}, Goto(t, l), UNCHANGED my
        PROVE  RInv' /\ UNCHANGED Contract!vars
    BY <1>2, <2>1, <2>3, InsideGoes
  <2> QED BY <1>7, <2>2, <2>3 DEF ClaimCas
<1>8. CASE MigNext(t)
  <2> DEFINE m == [my[t] EXCEPT !.q = next_storage, !.i = 0, !.d = 0, !.at = 0]
             l == IF next_storage = my[t].p THEN "mig_alloc" ELSE CopyFrom(my[t].p)
  <2>1. /\ pc[t] # "idle" /\ Goto(t, l) /\ UNCHANGED <<rover, answer, content>>
        /\ my' = [my EXCEPT ![t] = m]
    BY <1>8 DEF MigNext, rest
  <2>2. m.call = my[t].call /\ m.before = my[t].before
    BY <1>1 DEF Locals
  <2>3. l \in Inside
    BY <1>2
  <2> QED BY <2>1, <2>2, <2>3, InsideMoves DEF Moves
<1>9. CASE MigAlloc(t)
  <2>1. PICK x \in {my[t].p + 1, next_storage} : my' = [my EXCEPT ![t].q = x]
    BY <1>9 DEF MigAlloc
  <2> DEFINE m == [my[t] EXCEPT !.q = x]
  <2>2. /\ pc[t] # "idle" /\ Goto(t, CopyFrom(my[t].p)) /\ UNCHANGED <<rover, answer, content>>
        /\ my' = [my EXCEPT ![t] = m]
    BY <1>9, <2>1 DEF MigAlloc, rest
  <2>3. m.call = my[t].call /\ m.before = my[t].before
    BY <1>1 DEF Locals
  <2> QED BY <1>2, <2>2, <2>3, InsideMoves DEF Moves
<1>10. CASE CopyHash(t)
  <2> DEFINE h == hash[my[t].p][my[t].i]
             m == [my[t] EXCEPT !.ch = h]
             l == IF h = NO_HASH THEN "copy_virgin" ELSE "copy_value"
  <2>1. /\ pc[t] # "idle" /\ Goto(t, l) /\ UNCHANGED <<rover, answer, content>>
        /\ my' = [my EXCEPT ![t] = m]
    BY <1>10 DEF CopyHash, rest
  <2>2. m.call = my[t].call /\ m.before = my[t].before
    BY <1>1 DEF Locals
  <2>3. l \in Inside
    BY <1>2
  <2> QED BY <2>1, <2>2, <2>3, InsideMoves DEF Moves
<1>11. CASE CopyVirgin(t)
  <2>1. pc[t] # "idle" /\ UNCHANGED <<rover, answer, content>>
    BY <1>11 DEF CopyVirgin, rest
  <2>2. CASE CopyNext(t)
    BY <2>1, <2>2, InsideCopyNext
  <2>3. CASE my' = [my EXCEPT ![t].cv = value[my[t].p][my[t].i]] /\ Goto(t, "copy_rehash")
    <3> DEFINE m == [my[t] EXCEPT !.cv = value[my[t].p][my[t].i]]
    <3>1. my' = [my EXCEPT ![t] = m]
      BY <2>3
    <3>2. m.call = my[t].call /\ m.before = my[t].before
      BY <1>1 DEF Locals
    <3> QED BY <1>2, <2>1, <2>3, <3>1, <3>2, InsideMoves DEF Moves
  <2> QED BY <1>11, <2>2, <2>3 DEF CopyVirgin
<1>12. CASE CopyRehash(t) \/ CopyValue(t)
  <2>1. /\ pc[t] # "idle" /\ UNCHANGED <<rover, answer, content>>
        /\ \E h, v : CopyLoop(t, h, v)
    BY <1>12 DEF CopyRehash, CopyValue, rest
  <2> QED BY <2>1, InsideCopyLoop
<1>13. CASE Freeze(t)
  <2>1. pc[t] # "idle" /\ UNCHANGED <<rover, answer, content>>
    BY <1>13 DEF Freeze, rest
  <2>2. CopyNext(t) \/ \E h, v : CopyLoop(t, h, v)
    BY <1>13 DEF Freeze
  <2> QED BY <2>1, <2>2, InsideCopyNext, InsideCopyLoop
<1>14. CASE PutFollow(t)
  <2> DEFINE m == [my[t] EXCEPT !.d = next_storage, !.at = 0]
  <2>1. /\ pc[t] # "idle" /\ Goto(t, "claim") /\ UNCHANGED <<rover, answer, content>>
        /\ my' = [my EXCEPT ![t] = m]
    BY <1>14 DEF PutFollow, rest
  <2>2. m.call = my[t].call /\ m.before = my[t].before
    BY <1>1 DEF Locals
  <2> QED BY <1>2, <2>1, <2>2, InsideMoves DEF Moves
<1>15. CASE Swap(t)
  <2> DEFINE m == [my[t] EXCEPT !.p = 0, !.q = 0, !.i = 0]
  <2>1. /\ pc[t] # "idle" /\ Goto(t, "load") /\ UNCHANGED <<rover, answer, content>>
        /\ my' = [my EXCEPT ![t] = m]
    BY <1>15 DEF Swap, rest
  <2>2. m.call = my[t].call /\ m.before = my[t].before
    BY <1>1 DEF Locals
  <2> QED BY <1>2, <2>1, <2>2, InsideMoves DEF Moves
<1> QED BY <1>3, <1>4, <1>5, <1>6, <1>7, <1>8, <1>9, <1>10, <1>11, <1>12, <1>13, <1>14, <1>15

-----------------------------------------------------------------------------
(* Steps that begin or end a call *)

LEMMA OthersKnow ==
    ASSUME RInv, IInv', Forward, NEW t \in Threads, Others(t), LookAt(t)', RoverAt(t)'
    PROVE  RInv'
<1>1. Kept /\ \A h \in Hashes : content[h] # NULL => content'[h] = content[h]
  BY KeptForward DEF RInv
<1>2. ASSUME NEW u \in Threads \ {t} PROVE LookAt(u)' /\ RoverAt(u)'
  <2>1. pc'[u] = pc[u] /\ my'[u] = my[u] /\ rover'[u] = rover[u]
    BY DEF Others
  <2> QED BY <1>1, <2>1, KnownStable
<1>3. SizesInv'
  BY SizesStable
<1> QED BY <1>2, <1>3 DEF RInv

(* A call returns.  What its enumerator has returned it has seen to.       *)
LEMMA ReturnKnown ==
    ASSUME RInv, IInv', Forward, NEW t \in Threads, NEW a, Return(t, a), pc[t] # "idle",
           \A u \in Threads \ {t} : rover'[u] = rover[u],
           rover'[t] = rover[t] \/ ~rover'[t].on \/ RoverAt(t)'
    PROVE  /\ RInv' /\ answer' = [answer EXCEPT ![t] = a]
           /\ CallsMap' = [CallsMap EXCEPT ![t] = Idle]
           /\ CallsMap[t] # Idle /\ CallsMap[t].op = my[t].call.op
           /\ my[t].call.op # "next" =>
                /\ CallsMap[t].hash = my[t].call.hash /\ CallsMap[t].value = my[t].call.value
                /\ CallsMap[t].before = my[t].before
<1>1. IInv /\ TypeInv /\ Kept
  BY KeptForward DEF RInv, IInv
<1>2. /\ CallsMap' = [CallsMap EXCEPT ![t] = Idle]
      /\ answer' = [answer EXCEPT ![t] = a]
      /\ pc'[t] = "idle" /\ my'[t] = NoLocals
      /\ \A u \in Threads \ {t} : pc'[u] = pc[u] /\ my'[u] = my[u]
  BY <1>1, CallEnds
<1>3. LookAt(t)'
  BY <1>2 DEF LookAt, NoLocals
<1>4. RoverAt(t)'
  <2>1. CASE rover'[t] = rover[t]
    <3>1. rover[t] \in Rovers /\ RoverAt(t) /\ NO_HASH \notin Hashes
      BY <1>1, ConstFacts DEF TypeInv, RInv
    <3>2. Passed(t) \subseteq Passed(t)'
      BY <1>2, <2>1, <3>1 DEF Passed, Rovers
    <3>3. Remembers(t)'
      BY <1>1, <2>1, <3>1, <3>2, RememberStable DEF RoverAt
    <3> QED BY <1>2, <3>3 DEF RoverAt
  <2>2. CASE ~rover'[t].on
    BY <1>2, <2>2 DEF RoverAt, Remembers
  <2> QED BY <2>1, <2>2
<1>5. RInv'
  <2>1. Others(t)
    BY <1>2 DEF Others
  <2> QED BY <1>3, <1>4, <2>1, OthersKnow
<1> QED BY <1>1, <1>2, <1>5, CallSeen

(* A call begins: what the map holds for its hash now is what it held      *)
(* before.                                                                 *)
LEMMA CallRef ==
    ASSUME RInv, IInv', Forward, NEW t \in Threads, NEW c \in Scene.calls[t], Call(t, c)
    PROVE  RInv' /\ Contract!Next
<1> DEFINE b == IF c.op = "next" THEN NULL ELSE content[c.hash]
           m == [NoLocals EXCEPT !.call = c, !.before = b]
<1>1. IInv /\ TypeInv /\ start \in DOMAIN Starts
  BY DEF RInv, IInv, TypeInv
<1>2. /\ c # Idle
      /\ \/ c = [op |-> "next"]
         \/ /\ c.op \in {"insert", "register", "lookup"} /\ c.hash \in Hashes
            /\ c.value \in Values \union {NULL}
            /\ c.op # "lookup" => c.value \in Values
  BY <1>1, CallShape
<1>3. m.call = c /\ m.before = b
  BY DEF NoLocals
<1> HIDE DEF m
<1>4. /\ pc'[t] = "load" /\ my'[t] = m /\ pc[t] = "idle"
      /\ \A u \in Threads \ {t} : pc'[u] = pc[u] /\ my'[u] = my[u]
      /\ answer' = [answer EXCEPT ![t] = Idle] /\ UNCHANGED <<rover, content>>
      /\ c.op = "next" => rover[t].on
  BY <1>1 DEF Call, Goto, TypeInv, m
<1>5. my[t].call = Idle /\ RoverAt(t) /\ rover[t] \in Rovers
  BY <1>1, <1>4 DEF RInv, LookAt, TypeInv
<1>6. RInv'
  <2>1. LookAt(t)'
    BY <1>2, <1>3, <1>4 DEF LookAt
  <2>2. RoverAt(t)'
    <3>1. Passed(t)' = Passed(t)
      BY <1>4 DEF Passed
    <3>2. Kept
      BY <1>1, KeptForward
    <3>3. Remembers(t)'
      BY <1>1, <1>4, <1>5, <3>1, <3>2, RememberStable DEF RoverAt
    <3> QED BY <1>3, <1>4, <1>5, <3>3 DEF RoverAt
  <2>3. Others(t)
    BY <1>4 DEF Others
  <2> QED BY <2>1, <2>2, <2>3, OthersKnow
<1>7. GotMap' = GotMap
  BY <1>4 DEF GotMap
<1>8. CallsMap[t] = Idle /\ CallsMap' = [CallsMap EXCEPT ![t] = CallMap(t)']
  <2>1. \A u \in Threads \ {t} : CallMap(u)' = CallMap(u)
    BY <1>4 DEF CallMap
  <2>2. CallMap(t) = Idle
    BY <1>5 DEF CallMap
  <2>3. CallsMap[t] = CallMap(t) /\ CallsMap = [u \in Threads |-> CallMap(u)]
        /\ CallsMap' = [u \in Threads |-> CallMap(u)']
    BY DEF CallsMap
  <2> HIDE DEF b
  <2> QED BY <2>1, <2>2, <2>3
<1>9. CASE c = [op |-> "next"]
  <2>1. CallMap(t)' = [op |-> "next"]
    BY <1>2, <1>3, <1>4, <1>9 DEF CallMap
  <2>2. CallsMap' = [CallsMap EXCEPT ![t] = [op |-> "next"]]
    BY <1>8, <2>1
  <2> QED BY <1>4, <1>6, <1>7, <1>8, <2>2, MapBeginsNext
<1>10. CASE /\ c.op \in {"insert", "register", "lookup"} /\ c.hash \in Hashes
            /\ c.value \in Values \union {NULL}
  <2>1. CallMap(t)' = [op |-> c.op, hash |-> c.hash, value |-> c.value, before |-> content[c.hash]]
    BY <1>2, <1>3, <1>4, <1>10 DEF CallMap
  <2>2. CallsMap' = [CallsMap EXCEPT ![t] = [op |-> c.op, hash |-> c.hash, value |-> c.value,
                                             before |-> content[c.hash]]]
    BY <1>8, <2>1
  <2>3. PICK op \in {"insert", "register", "lookup"}, h \in Hashes, v \in Values \union {NULL} :
          op = c.op /\ h = c.hash /\ v = c.value
    BY <1>10
  <2>4. CallsMap' = [CallsMap EXCEPT ![t] = [op |-> op, hash |-> h, value |-> v, before |-> content[h]]]
    BY <2>2, <2>3
  <2> QED BY <1>4, <1>6, <1>7, <1>8, <2>4, MapBegins
<1> QED BY <1>2, <1>9, <1>10

(* An enumerator starts over.                                              *)
LEMMA EnumerateRef ==
    ASSUME RInv, IInv', Forward, NEW t \in Threads, Enumerate(t)
    PROVE  RInv' /\ Contract!Next
<1> DEFINE r == [NoRover EXCEPT !.on = TRUE, !.start = {h \in Hashes : content[h] # NULL}]
<1>1. IInv /\ TypeInv /\ my[t].call = Idle
  BY DEF RInv, IInv, LookAt, Enumerate
<1>2. r.on /\ r.mask = 0 /\ r.got = {}
  BY DEF NoRover
<1> HIDE DEF r
<1>3. /\ pc[t] = "idle" /\ UNCHANGED <<pc, my, answer, content>>
      /\ rover'[t] = r /\ \A u \in Threads \ {t} : rover'[u] = rover[u]
  BY <1>1 DEF Enumerate, rest, TypeInv, r
<1>4. LookAt(t)' /\ RoverAt(t)'
  BY <1>1, <1>2, <1>3 DEF LookAt, RoverAt, Remembers
<1>5. RInv'
  BY <1>3, <1>4, OthersKnow DEF Others
<1>6. CallsMap[t] = Idle /\ CallsMap' = CallsMap
  BY <1>1, <1>3 DEF CallsMap, CallMap
<1>7. GotMap' = [GotMap EXCEPT ![t] = {}]
  BY <1>2, <1>3 DEF GotMap
<1> QED BY <1>3, <1>5, <1>6, <1>7, MapEnumerates

-----------------------------------------------------------------------------
(* lookup *)

(* A virgin slot on the way ends the probe of a hash that has no slot.     *)
LEMMA LookAbsent ==
    ASSUME IInv, NEW t \in Threads, LookAt(t), pc[t] = "look_hash",
           hash[my[t].p][Probe(my[t].p, my[t].call.hash, my[t].at)] = NO_HASH
    PROVE  ~Has(my[t].p, my[t].call.hash)
<1>1. PICK g \in Gens : g = my[t].p
  BY Basics
<1>2. PICK x \in Hashes : x = my[t].call.hash
  BY Addressed
<1>3. PICK n \in Nat : n = my[t].at
  BY Basics
<1>4. x \in Nat /\ x # NO_HASH
  BY <1>2, ConstFacts
<1>5. SUFFICES ASSUME NEW j \in Index(g), hash[g][j] = x PROVE FALSE
  BY <1>1, <1>2 DEF Has
<1>6. PICK k \in Index(g) : Probe(g, x, k) = j
  BY <1>1, <1>4, Probes
<1>7. k \in Nat
  BY <1>1, <1>6, Sizes
<1>8. ~(k < n)
  <2>1. \A m \in 0 .. n - 1 : hash[g][Probe(g, x, m)] # x
    BY <1>1, <1>2, <1>3 DEF LookAt
  <2> QED BY <1>3, <1>5, <1>6, <1>7, <2>1
<1>9. hash[g][Probe(g, x, n)] = NO_HASH
  BY <1>1, <1>2, <1>3
<1>10. k # n
  BY <1>4, <1>5, <1>6, <1>9
<1>11. ~(n < k)
  <2>1. SlotInv
    BY DEF IInv
  <2>2. \A m \in 0 .. k - 1 : hash[g][Probe(g, x, m)] # NO_HASH
    BY <1>1, <1>4, <1>5, <1>6, <2>1 DEF SlotInv
  <2> QED BY <1>3, <1>7, <1>9, <2>2
<1> QED BY <1>3, <1>7, <1>8, <1>10, <1>11

(* What an unfrozen slot of a storage that was read from the map has is    *)
(* what the map holds for its hash now.                                    *)
LEMMA ValueAnswers ==
    ASSUME IInv, NEW g \in Gens, g <= storage, NEW s \in Index(g), hash[g][s] \in Hashes,
           value[g][s] # REDIRECT
    PROVE  value[g][s] = content[hash[g][s]] /\ g # 0
<1>1. g # 0
  BY ConstFacts DEF IInv, GenInv
<1>2. storage \in Nat /\ g \in Nat
  BY DEF IInv, TypeInv, Gens
<1>3. g >= storage
  BY <1>1, NotRetired
<1>4. g = storage
  BY <1>2, <1>3
<1>5. CASE value[g][s] = NULL
  BY <1>1, <1>4, <1>5, NullMeans
<1>6. CASE value[g][s] # NULL
  <2>1. value[g][s] \in Values
    BY <1>6 DEF IInv, TypeInv, Words
  <2>2. ContentInv /\ storage \in storage .. next_storage
    BY <1>2 DEF IInv, GenInv
  <2> QED BY <1>1, <1>4, <2>1, <2>2 DEF ContentInv
<1> QED BY <1>5, <1>6

LEMMA LoadRef ==
    ASSUME RInv, IInv', Forward, NEW t \in Threads, Load(t)
    PROVE  RInv' /\ [Contract!Next]_(Contract!vars)
<1>1. IInv /\ TypeInv /\ pc[t] = "load" /\ UNCHANGED content /\ my[t] \in Locals
      /\ storage \in Gens
  BY DEF RInv, IInv, TypeInv, Load, rest
<1>2. CASE /\ my[t].call.op = "next" /\ Return(t, "ECANCELED")
           /\ rover' = [rover EXCEPT ![t].on = FALSE, ![t].index = 0, ![t].mask = 0]
  <2>1. /\ ~rover'[t].on /\ \A u \in Threads \ {t} : rover'[u] = rover[u]
        /\ \A u \in Threads : rover'[u].got = rover[u].got
    BY <1>1, <1>2 DEF TypeInv, Rovers
  <2>2. /\ RInv' /\ answer' = [answer EXCEPT ![t] = "ECANCELED"]
        /\ CallsMap' = [CallsMap EXCEPT ![t] = Idle]
        /\ CallsMap[t] # Idle /\ CallsMap[t].op = my[t].call.op
    BY <1>1, <1>2, <2>1, ReturnKnown
  <2> QED BY <1>1, <1>2, <2>1, <2>2, GotStays, MapReturns
<1>3. CASE /\ my[t].call.op = "next" => rover[t].mask \in {0, Mask(storage)}
           /\ my' = [my EXCEPT ![t].p = storage, ![t].d = storage, ![t].at = 0, ![t].then = "fill"]
           /\ Goto(t, CASE my[t].call.op = "lookup" -> "look_hash"
                        [] my[t].call.op = "next" -> "enum_hash"
                        [] OTHER -> "check")
           /\ UNCHANGED <<rover, answer>>
  <2> DEFINE m == [my[t] EXCEPT !.p = storage, !.d = storage, !.at = 0, !.then = "fill"]
  <2>1. my' = [my EXCEPT ![t] = m]
    BY <1>3
  <2>2. /\ m.call = my[t].call /\ m.before = my[t].before /\ m.p = storage /\ m.at = 0
    BY <1>1 DEF Locals
  <2> HIDE DEF m
  <2>3. /\ my'[t] = m
        /\ pc'[t] = IF my[t].call.op = "lookup" THEN "look_hash"
                    ELSE IF my[t].call.op = "next" THEN "enum_hash" ELSE "check"
        /\ Others(t)
    BY <1>1, <1>3, <2>1 DEF TypeInv, Goto, Others
  <2>4. LookAt(t) /\ RoverAt(t) /\ pc[t] # "idle"
    BY <1>1 DEF RInv
  <2>5. Kept
    BY <1>1, KeptForward
  <2>6. LookAt(t)'
    <3>1. /\ pc'[t] # "idle" /\ pc'[t] # "look_value"
          /\ my[t].call.op # "next" /\ my[t].before # NULL =>
               /\ content'[my[t].call.hash] = my[t].before
               /\ my[t].call.hash \in Hashes /\ content[my[t].call.hash] # NULL
      BY <1>1, <2>3, <2>4, Caller DEF LookAt
    <3>2. my[t].call.op # "next" /\ my[t].before # NULL => Has(storage, my[t].call.hash)
      BY <1>1, <3>1, ContentHas
    <3>4. Size[storage] > 0
      BY <1>1, Sizes
    <3>5. storage' = storage /\ hash' = hash
      BY DEF Load, world, slots
    <3> QED BY <2>2, <2>3, <3>1, <3>2, <3>4, <3>5 DEF LookAt, Has
  <2>7. RoverAt(t)'
    BY <1>1, <1>3, <2>2, <2>3, <2>4, <2>5, RoverKept
  <2>8. CallsMap' = CallsMap /\ GotMap' = GotMap
    BY <1>3, <2>2, <2>3, CallStays DEF GotMap, Others
  <2> QED BY <1>1, <1>3, <2>3, <2>6, <2>7, <2>8, OthersKnow, MapStutters
<1> QED BY <1>2, <1>3 DEF Load

LEMMA LookHashRef ==
    ASSUME RInv, IInv', Forward, NEW t \in Threads, LookHash(t)
    PROVE  RInv' /\ [Contract!Next]_(Contract!vars)
<1> DEFINE p == my[t].p
           x == my[t].call.hash
           n == my[t].at
           h == hash[p][Probe(p, x, n)]
<1>1. /\ IInv /\ TypeInv /\ pc[t] = "look_hash" /\ LookAt(t) /\ RoverAt(t) /\ my[t] \in Locals
      /\ UNCHANGED <<content, rover, hash>> /\ my[t].call.op = "lookup" /\ pc[t] # "idle"
  BY Basics DEF RInv, LookHash, slots, rest, CallAt, TypeInv
<1>2. p \in Gens /\ x \in Hashes /\ x \in Nat /\ n \in Nat /\ Size[p] \in Nat /\ n < Size[p]
  BY <1>1, Basics, Addressed, ConstFacts, Sizes DEF LookAt
<1>3. CASE h = NO_HASH /\ Return(t, NULL)
  <2>1. my[t].before = NULL
    BY <1>1, <1>3, LookAbsent DEF LookAt
  <2>2. /\ RInv' /\ answer' = [answer EXCEPT ![t] = NULL]
        /\ CallsMap' = [CallsMap EXCEPT ![t] = Idle]
        /\ CallsMap[t] # Idle /\ CallsMap[t].op = my[t].call.op
        /\ CallsMap[t].before = my[t].before
    BY <1>1, <1>3, ReturnKnown
  <2>3. GotMap' = GotMap
    BY <1>1, GotStays
  <2> QED BY <1>1, <2>1, <2>2, <2>3, MapReturns
<1>4. CASE h = x /\ Goto(t, "look_value") /\ UNCHANGED <<my, answer>>
  <2>1. pc'[t] = "look_value" /\ Others(t)
    BY <1>1, <1>4 DEF TypeInv, Goto, Others
  <2>2. LookAt(t)'
    BY <1>1, <1>4, <2>1 DEF LookAt
  <2>3. RoverAt(t)'
    BY <1>1, <1>4, <2>1, KeptForward, RoverKept
  <2>4. CallsMap' = CallsMap /\ GotMap' = GotMap
    BY <1>1, <1>4 DEF CallsMap, CallMap, GotMap
  <2> QED BY <1>1, <1>4, <2>1, <2>2, <2>3, <2>4, OthersKnow, MapStutters
<1>5. CASE h \notin {NO_HASH, x} /\ LookNext(t)
  <2> DEFINE m == [my[t] EXCEPT !.at = @ + 1]
  <2>1. my' = [my EXCEPT ![t] = m] /\ UNCHANGED answer
    BY <1>5 DEF LookNext
  <2>2. m.call = my[t].call /\ m.before = my[t].before /\ m.p = p /\ m.at = n + 1
    BY <1>1 DEF Locals
  <2> HIDE DEF m
  <2>3. CASE n = Mask(p)
    <3>1. Goto(t, "mig_next")
      BY <1>5, <2>3 DEF LookNext
    <3> QED BY <1>1, <2>1, <2>2, <3>1, InsideMoves DEF Moves, Inside, Labels
  <2>4. CASE n # Mask(p)
    <3>1. pc'[t] = "look_hash" /\ my'[t] = m /\ Others(t)
      BY <1>1, <1>5, <2>1, <2>4 DEF TypeInv, Goto, Others, LookNext
    <3>2. n + 1 < Size[p]
      BY <1>2, <2>4 DEF Mask
    <3>3. \A k \in 0 .. n : hash[p][Probe(p, x, k)] \notin {NO_HASH, x}
      BY <1>1, <1>2, <1>5 DEF LookAt
    <3>4. my[t].before # NULL => Has(p, x) /\ content[x] = my[t].before
      BY <1>1 DEF LookAt
    <3>5. Has(p, x)' = Has(p, x)
      BY <1>1, <2>2, <3>1 DEF Has
    <3>6. \A k \in 0 .. (n + 1) - 1 : k \in 0 .. n
      BY <1>2
    <3> HIDE DEF h
    <3>7. LookAt(t)'
      BY <1>1, <1>2, <2>2, <3>1, <3>2, <3>3, <3>4, <3>5, <3>6 DEF LookAt
    <3>8. RoverAt(t)'
      BY <1>1, <2>2, <3>1, KeptForward, RoverKept
    <3>9. CallsMap' = CallsMap /\ GotMap' = GotMap
      BY <1>1, <2>2, <3>1, CallStays DEF Others, GotMap
    <3> QED BY <1>1, <2>1, <3>1, <3>7, <3>8, <3>9, OthersKnow, MapStutters
  <2> QED BY <2>3, <2>4
<1> QED BY <1>3, <1>4, <1>5 DEF LookHash

LEMMA LookValueRef ==
    ASSUME RInv, IInv', Forward, NEW t \in Threads, LookValue(t)
    PROVE  RInv' /\ [Contract!Next]_(Contract!vars)
<1>1. /\ IInv /\ TypeInv /\ pc[t] = "look_value" /\ LookAt(t)
      /\ UNCHANGED <<content, rover>> /\ my[t].call.op = "lookup" /\ pc[t] # "idle"
  BY Basics DEF RInv, LookValue, slots, rest, CallAt, TypeInv
<1>2. PICK g \in Gens : g = my[t].p /\ g <= storage
  BY <1>1, Basics
<1>3. PICK s \in Index(g) : s = Probe(my[t].p, my[t].call.hash, my[t].at)
  BY <1>1, <1>2, Addressed
<1>4. hash[g][s] = my[t].call.hash /\ my[t].call.hash \in Hashes
  BY <1>1, <1>2, <1>3, Addressed DEF LookAt
<1>5. CASE value[g][s] # REDIRECT /\ Return(t, value[g][s])
  <2>1. value[g][s] = content[my[t].call.hash]
    BY <1>1, <1>2, <1>4, <1>5, ValueAnswers
  <2>2. /\ RInv' /\ answer' = [answer EXCEPT ![t] = value[g][s]]
        /\ CallsMap' = [CallsMap EXCEPT ![t] = Idle]
        /\ CallsMap[t] # Idle /\ CallsMap[t].op = my[t].call.op
        /\ CallsMap[t].hash = my[t].call.hash
    BY <1>1, <1>5, ReturnKnown
  <2>3. GotMap' = GotMap
    BY <1>1, GotStays
  <2> QED BY <1>1, <2>1, <2>2, <2>3, MapReturns
<1>6. CASE Goto(t, "mig_next") /\ UNCHANGED <<my, answer>>
  BY <1>1, <1>6, InsideGoes DEF Inside, Labels
<1> QED BY <1>2, <1>3, <1>5, <1>6 DEF LookValue

-----------------------------------------------------------------------------
(* insert and register decide when they fill the slot. *)
LEMMA FillRef ==
    ASSUME RInv, IInv', Forward, NEW t \in Threads, Fill(t)
    PROVE  RInv' /\ [Contract!Next]_(Contract!vars)
<1>1. /\ IInv /\ TypeInv /\ pc[t] = "fill" /\ pc[t] # "idle" /\ UNCHANGED rover
      /\ my[t].call.op \in {"insert", "register"} /\ ~Carrying(t)
  BY Basics DEF RInv, Fill, CallAt, ProbeAt, Claiming
<1>2. PICK g \in Gens : g = my[t].d /\ g <= storage
  BY <1>1, Basics DEF ProbeAt
<1>3. PICK s \in Index(g) : s = ClaimSlot(t)
  BY <1>1, <1>2, Addressed
<1>4. hash[g][s] = my[t].call.hash /\ my[t].call.hash \in Hashes
  BY <1>1, <1>2, <1>3, Addressed, Basics DEF ProbeAt
<1>5. GotMap' = GotMap
  BY <1>1, GotStays
<1>6. ASSUME value[g][s] # REDIRECT
      PROVE  value[g][s] = content[my[t].call.hash]
  BY <1>1, <1>2, <1>4, <1>6, ValueAnswers
<1>7. ASSUME NEW a, Return(t, a)
      PROVE  /\ RInv' /\ answer' = [answer EXCEPT ![t] = a]
             /\ CallsMap' = [CallsMap EXCEPT ![t] = Idle]
             /\ CallsMap[t] # Idle /\ CallsMap[t].op = my[t].call.op
             /\ CallsMap[t].hash = my[t].call.hash /\ CallsMap[t].value = my[t].call.value
  BY <1>1, <1>7, ReturnKnown
<1>8. CASE /\ value[g][s] = NULL
           /\ content' = [content EXCEPT ![my[t].call.hash] = my[t].call.value]
           /\ Return(t, IF my[t].call.op = "insert" THEN "0" ELSE NULL)
  <2>1. content[my[t].call.hash] = NULL
    BY <1>6, <1>8, ConstFacts
  <2> DEFINE a == IF my[t].call.op = "insert" THEN "0" ELSE NULL
  <2>2. /\ RInv' /\ answer' = [answer EXCEPT ![t] = a]
        /\ CallsMap' = [CallsMap EXCEPT ![t] = Idle]
        /\ CallsMap[t] # Idle /\ CallsMap[t].op = my[t].call.op
        /\ CallsMap[t].hash = my[t].call.hash /\ CallsMap[t].value = my[t].call.value
    BY <1>7, <1>8
  <2>3. answer' = [answer EXCEPT ![t] = IF CallsMap[t].op = "insert" THEN "0" ELSE NULL]
    BY <2>2
  <2>4. content' = [content EXCEPT ![CallsMap[t].hash] = CallsMap[t].value]
    BY <1>8, <2>2
  <2> QED BY <1>1, <1>5, <2>1, <2>2, <2>3, <2>4, MapStores
<1>9. CASE Goto(t, "mig_next") /\ UNCHANGED <<my, answer, content>>
  BY <1>1, <1>9, InsideGoes DEF Inside, Labels
<1>10. CASE /\ value[g][s] \in Values /\ UNCHANGED content
            /\ Return(t, IF my[t].call.op = "insert" THEN "EEXIST" ELSE value[g][s])
  <2> DEFINE a == IF my[t].call.op = "insert" THEN "EEXIST" ELSE value[g][s]
  <2>1. content[my[t].call.hash] = value[g][s] /\ value[g][s] # NULL
    BY <1>6, <1>10, ConstFacts
  <2>2. /\ RInv' /\ answer' = [answer EXCEPT ![t] = a]
        /\ CallsMap' = [CallsMap EXCEPT ![t] = Idle]
        /\ CallsMap[t] # Idle /\ CallsMap[t].op = my[t].call.op
        /\ CallsMap[t].hash = my[t].call.hash /\ CallsMap[t].value = my[t].call.value
    BY <1>7, <1>10
  <2>3. a = IF CallsMap[t].op = "insert" THEN "EEXIST" ELSE content[CallsMap[t].hash]
    BY <2>1, <2>2
  <2> HIDE DEF a
  <2> QED BY <1>1, <1>5, <1>10, <2>1, <2>2, <2>3, MapReturns
<1> QED
  <2> DEFINE found == value[my[t].d][ClaimSlot(t)]
  <2>1. found = value[g][s]
    BY <1>2, <1>3
  <2> QED BY <1>8, <1>9, <1>10, <2>1 DEF Fill

-----------------------------------------------------------------------------
(* The enumerator *)

LEMMA EnumHashRef ==
    ASSUME RInv, IInv', Forward, NEW t \in Threads, EnumHash(t)
    PROVE  RInv' /\ [Contract!Next]_(Contract!vars)
<1> DEFINE i == rover[t].index + my[t].at
<1>1. /\ IInv /\ TypeInv /\ pc[t] = "enum_hash" /\ pc[t] # "idle" /\ LookAt(t) /\ RoverAt(t)
      /\ UNCHANGED <<content, hash>> /\ my[t].call.op = "next" /\ my[t] \in Locals
      /\ rover[t] \in Rovers
  BY Basics DEF RInv, EnumHash, slots, rest, CallAt, TypeInv
<1>2. CASE /\ Return(t, "end")
           /\ rover' = [rover EXCEPT ![t].on = FALSE, ![t].index = 0, ![t].mask = 0]
  <2>1. /\ ~rover'[t].on /\ \A u \in Threads \ {t} : rover'[u] = rover[u]
        /\ \A u \in Threads : rover'[u].got = rover[u].got
    BY <1>1, <1>2 DEF TypeInv, Rovers
  <2>2. /\ RInv' /\ answer' = [answer EXCEPT ![t] = "end"]
        /\ CallsMap' = [CallsMap EXCEPT ![t] = Idle]
        /\ CallsMap[t] # Idle /\ CallsMap[t].op = my[t].call.op
    BY <1>1, <1>2, <2>1, ReturnKnown
  <2> QED BY <1>1, <1>2, <2>1, <2>2, GotStays, MapReturns
<1>3. CASE my' = [my EXCEPT ![t].at = @ + 1] /\ UNCHANGED <<pc, rover, answer>>
  <2>1. /\ my'[t].call = my[t].call /\ my'[t].before = my[t].before /\ my'[t].p = my[t].p
        /\ Others(t)
    BY <1>1, <1>3 DEF TypeInv, Locals, Others
  <2>2. LookAt(t)' /\ RoverAt(t)'
    <3>1. LookAt(t)'
      BY <1>1, <1>3, <2>1 DEF LookAt
    <3>2. RoverAt(t)'
      BY <1>1, <1>3, <2>1, KeptForward, RoverKept DEF RoverAt
    <3> QED BY <3>1, <3>2
  <2>3. CallsMap' = CallsMap /\ GotMap' = GotMap
    BY <1>3, <2>1, CallStays DEF Others, GotMap
  <2> QED BY <1>1, <1>3, <2>1, <2>2, <2>3, OthersKnow, MapStutters
<1>4. CASE /\ rover' = [rover EXCEPT ![t].index = i + 1] /\ my' = [my EXCEPT ![t].at = 0]
           /\ Goto(t, "enum_value") /\ UNCHANGED answer
  <2>1. /\ my'[t].call = my[t].call /\ my'[t].before = my[t].before /\ my'[t].p = my[t].p
        /\ pc'[t] = "enum_value" /\ Others(t)
    BY <1>1, <1>4 DEF TypeInv, Locals, Others, Goto
  <2>2. /\ rover'[t].index = i + 1 /\ rover'[t].on = rover[t].on /\ rover'[t].mask = rover[t].mask
        /\ rover'[t].got = rover[t].got
        /\ i \in Nat /\ i >= rover[t].index /\ rover[t].index \in Nat
    BY <1>1, <1>4 DEF TypeInv, Rovers, Locals
  <2>3. LookAt(t)'
    BY <1>1, <2>1 DEF LookAt
  <2>4. RoverAt(t)'
    <3>1. Passed(t) \subseteq Passed(t)'
      BY <1>1, <2>1, <2>2 DEF Passed
    <3>2. storage' = storage
      BY DEF EnumHash, world
    <3>3. Remembers(t)'
      BY <1>1, <2>2, <3>1, <3>2 DEF Remembers, RoverAt
    <3> QED BY <1>1, <2>1, <2>2, <3>3 DEF RoverAt
  <2>5. CallsMap' = CallsMap /\ GotMap' = GotMap
    BY <2>1, <2>2, CallStays DEF Others, GotMap
  <2> QED BY <1>1, <1>4, <2>1, <2>3, <2>4, <2>5, OthersKnow, MapStutters
<1> QED BY <1>2, <1>3, <1>4 DEF EnumHash

(* An enumerator that finds a value has not returned its hash before: it   *)
(* has stayed in the one storage where it has, and has left that slot      *)
(* behind.                                                                 *)
LEMMA EnumValueRef ==
    ASSUME RInv, IInv', Forward, NEW t \in Threads, EnumValue(t)
    PROVE  RInv' /\ [Contract!Next]_(Contract!vars)
<1>1. /\ IInv /\ TypeInv /\ pc[t] = "enum_value" /\ pc[t] # "idle" /\ LookAt(t) /\ RoverAt(t)
      /\ UNCHANGED <<content, hash, storage>> /\ my[t].call.op = "next" /\ my[t] \in Locals
      /\ rover[t] \in Rovers /\ rover[t].on
  BY Basics DEF RInv, EnumValue, slots, rest, world, CallAt, TypeInv, RoverAt
<1>2. PICK g \in Gens : g = my[t].p /\ g <= storage
  BY <1>1, Basics
<1>3. PICK s \in Index(g) : s = rover[t].index - 1
  BY <1>1, <1>2, Addressed
<1>4. PICK x \in Hashes : x = hash[g][s]
  <2>1. hash[g][s] # NO_HASH
    BY <1>1, <1>2, <1>3, Basics DEF CallAt
  <2> QED BY <1>1, <2>1 DEF TypeInv, Keys
<1>5. CASE Goto(t, "mig_next") /\ UNCHANGED <<my, rover, answer>>
  BY <1>1, <1>5, InsideGoes DEF Inside, Labels
<1>6. CASE Goto(t, "enum_hash") /\ UNCHANGED <<my, rover, answer>>
  <2>1. pc'[t] = "enum_hash" /\ Others(t)
    BY <1>1, <1>6 DEF TypeInv, Goto, Others
  <2>2. LookAt(t)'
    BY <1>1, <1>6, <2>1 DEF LookAt
  <2>3. RoverAt(t)'
    BY <1>1, <1>6, <2>1, KeptForward, RoverKept DEF RoverAt
  <2>4. CallsMap' = CallsMap /\ GotMap' = GotMap
    BY <1>6 DEF CallsMap, CallMap, GotMap
  <2> QED BY <1>1, <1>6, <2>1, <2>2, <2>3, <2>4, OthersKnow, MapStutters
<1>7. CASE /\ value[g][s] \in Values /\ Return(t, value[g][s])
           /\ rover' = [rover EXCEPT ![t].got = @ \union {x},
                           ![t].mask = IF @ = 0 THEN Mask(g) ELSE @]
  <2>1. content[x] = value[g][s] /\ content[x] # NULL /\ g # 0
    BY <1>1, <1>2, <1>4, <1>7, ValueAnswers, ConstFacts
  <2>2. /\ rover'[t].on /\ rover'[t].index = s + 1 /\ rover'[t].got = rover[t].got \union {x}
        /\ rover'[t].mask = Mask(g) /\ Mask(g) # 0 /\ rover[t].mask \in {0, Mask(g)}
        /\ \A u \in Threads \ {t} : rover'[u] = rover[u]
    <3>1. Size[g] > 1 /\ Size[g] \in Nat
      <4>1. 0 \in Gens /\ Size[0] = 1 /\ g \in Nat /\ next_storage \in Nat /\ g <= next_storage
        <5>1. storage \in Nat /\ next_storage \in Nat /\ g \in Nat
          BY <1>1 DEF TypeInv, Gens
        <5>2. next_storage \in {storage, storage + 1}
          BY <1>1 DEF IInv, GenInv
        <5>3. 0 \in Gens /\ Size[0] = 1
          BY ConstFacts, HashmapAssumption DEF Gens
        <5> QED BY <1>2, <5>1, <5>2, <5>3
      <4>2. Size[0] < Size[g]
        BY <2>1, <4>1 DEF RInv, SizesInv
      <4> QED BY <4>1, <4>2, Sizes
    <3>2. Mask(g) # 0
      BY <3>1 DEF Mask
    <3>3. rover[t].mask \in {0, Mask(g)}
      BY <1>1, <1>2 DEF RoverAt
    <3>4. rover[t].index = s + 1
      BY <1>1, <1>3 DEF Rovers
    <3> QED BY <1>1, <1>7, <3>2, <3>3, <3>4 DEF TypeInv, Rovers
  <2>3. ASSUME NEW h \in rover[t].got
        PROVE  \E j \in Index(g) : j \in 0 .. s - 1 /\ hash[g][j] = h
    <3>1. rover[t].mask = Mask(g) /\ rover[t].mask # 0
      BY <1>1, <2>2, <2>3 DEF RoverAt, Remembers
    <3>2. PICK f \in 0 .. storage :
            /\ Mask(f) = rover[t].mask
            /\ \A k \in rover[t].got : \E j \in Index(f) : j \in Passed(t) /\ hash[f][j] = k
      BY <1>1, <3>1 DEF RoverAt, Remembers
    <3>3. f = g
      <4>1. /\ storage \in Nat /\ next_storage \in Nat /\ storage <= next_storage /\ g \in Nat
            /\ f \in Gens /\ f \in Nat
        <5>1. storage \in Gens /\ storage \in Nat /\ next_storage \in Nat /\ g \in Nat
          BY <1>1 DEF TypeInv, Gens
        <5>2. next_storage \in {storage, storage + 1}
          BY <1>1 DEF IInv, GenInv
        <5>3. f \in Nat /\ f \in Gens
          BY <3>2, <5>1, ConstFacts DEF Gens
        <5> QED BY <5>1, <5>2, <5>3
      <4>2. Size[f] = Size[g] /\ Size[f] \in Nat /\ Size[g] \in Nat
        BY <3>1, <3>2, <4>1, Sizes DEF Mask
      <4>3. f \in 0 .. next_storage /\ g \in 0 .. next_storage
        BY <1>2, <3>2, <4>1
      <4>4. ~(f < g) /\ ~(g < f)
        BY <4>2, <4>3 DEF RInv, SizesInv
      <4> QED BY <4>1, <4>4
    <3>4. Passed(t) = 0 .. s - 1
      BY <1>1, <1>3 DEF Passed
    <3> QED BY <2>3, <3>2, <3>3, <3>4
  <2>4. x \notin rover[t].got
    <3>1. SUFFICES ASSUME x \in rover[t].got PROVE FALSE
      OBVIOUS
    <3>2. PICK j \in Index(g) : j \in 0 .. s - 1 /\ hash[g][j] = x
      BY <2>3, <3>1
    <3>3. j = s
      BY <1>1, <1>4, <3>2, ConstFacts DEF IInv, SlotInv
    <3>4. s \in Nat
      BY <1>3, Sizes
    <3> QED BY <3>2, <3>3, <3>4
  <2>5. RoverAt(t)'
    <3>1. pc'[t] = "idle"
      BY <1>1, <1>7 DEF Return, Goto, TypeInv
    <3>2. Passed(t)' = 0 .. s
      <4>1. s \in Nat
        BY <1>3, Sizes
      <4> QED BY <2>2, <3>1, <4>1 DEF Passed
    <3>3. \A h \in rover'[t].got : \E j \in Index(g) : j \in Passed(t)' /\ hash'[g][j] = h
      <4>1. s \in Nat /\ 0 .. s - 1 \subseteq 0 .. s /\ s \in 0 .. s
        BY <1>3, Sizes
      <4>2. ASSUME NEW h \in rover[t].got
            PROVE  \E j \in Index(g) : j \in Passed(t)' /\ hash'[g][j] = h
        BY <1>1, <2>3, <3>2, <4>1
      <4>3. \E j \in Index(g) : j \in Passed(t)' /\ hash'[g][j] = x
        BY <1>1, <1>4, <3>2, <4>1
      <4> QED BY <2>2, <4>2, <4>3
    <3>4. g \in 0 .. storage'
      BY <1>1, <1>2 DEF Gens, TypeInv
    <3>5. Remembers(t)'
      BY <2>2, <3>3, <3>4 DEF Remembers
    <3> QED BY <3>1, <3>5 DEF RoverAt
  <2>6. /\ RInv' /\ answer' = [answer EXCEPT ![t] = value[g][s]]
        /\ CallsMap' = [CallsMap EXCEPT ![t] = Idle]
        /\ CallsMap[t] # Idle /\ CallsMap[t].op = my[t].call.op
    BY <1>1, <1>7, <2>2, <2>5, ReturnKnown
  <2>7. GotMap' = [GotMap EXCEPT ![t] = @ \union {x}] /\ x \notin GotMap[t]
    BY <2>2, <2>4 DEF GotMap
  <2> QED BY <1>1, <2>1, <2>6, <2>7, MapFinds
<1> QED
  <2>1. value[my[t].p][rover[t].index - 1] = value[g][s]
        /\ hash[my[t].p][rover[t].index - 1] = x /\ my[t].p = g
    BY <1>2, <1>3, <1>4
  <2> QED BY <1>5, <1>6, <1>7, <2>1 DEF EnumValue

-----------------------------------------------------------------------------
(* The single-threaded patch, the first state, and every step *)

LEMMA PatchRef ==
    ASSUME RInv, NEW h \in Hashes, NEW v \in Values \union {NULL}, Patch(h, v)
    PROVE  RInv' /\ Contract!Next
<1>1. IInv /\ IInv' /\ SizesInv
  BY PatchStep DEF RInv
<1>2. /\ \A t \in Threads : pc[t] = "idle"
      /\ content' = [content EXCEPT ![h] = v]
      /\ UNCHANGED <<storage, next_storage, hash, pc, my, rover, answer, start>>
  BY DEF Patch, world
<1>3. Kept
  BY <1>2 DEF Kept
<1>4. ASSUME NEW u \in Threads PROVE LookAt(u)' /\ RoverAt(u)'
  BY <1>2, <1>3, KnownStable
<1>5. SizesInv'
  BY <1>1, <1>2 DEF SizesInv
<1>6. RInv'
  BY <1>1, <1>4, <1>5 DEF RInv
<1>7. ASSUME NEW t \in Threads PROVE CallsMap[t] = Idle
  BY <1>2 DEF RInv, LookAt, CallsMap, CallMap
<1>8. CallsMap' = CallsMap /\ GotMap' = GotMap
  BY <1>2 DEF CallsMap, CallMap, GotMap
<1>9. Contract!Next
  BY <1>2, <1>7, <1>8, MapPatches
<1> QED BY <1>6, <1>9

LEMMA InitRef ==
    ASSUME Init
    PROVE  RInv /\ Contract!Init
<1>1. IInv
  BY InitIInv
<1>2. /\ storage = Scene.first /\ next_storage = Scene.first /\ start \in DOMAIN Starts
      /\ pc = [t \in Threads |-> "idle"] /\ my = [t \in Threads |-> NoLocals]
      /\ rover = [t \in Threads |-> NoRover] /\ answer = [t \in Threads |-> Idle]
      /\ content \in [Hashes -> Values \union {NULL}]
  BY <1>1 DEF Init, IInv, TypeInv
<1>3. SizesInv
  <2>1. Scene \in {Starts[k] : k \in DOMAIN Starts}
    BY <1>2 DEF Scene
  <2>2. next_storage \in Gens \intersect {0, 1}
    BY <1>2, <2>1, HashmapAssumption
  <2>3. CASE next_storage = 0
    BY <2>3 DEF SizesInv
  <2>4. CASE next_storage = 1
    <3>1. Size[0] \in Nat /\ Size[0] > 0 /\ Size[0 + 1] >= 2 * Size[0]
      BY <2>2, <2>4, Sizes, ConstFacts
    <3>2. Size[0] < Size[1]
      BY <3>1, <2>2, <2>4, Sizes
    <3> QED BY <2>4, <3>2 DEF SizesInv
  <2> QED BY <2>2, <2>3, <2>4
<1>4. ASSUME NEW t \in Threads PROVE LookAt(t) /\ RoverAt(t)
  BY <1>2 DEF LookAt, RoverAt, Remembers, NoLocals, NoRover
<1>5. CallsMap = [t \in Threads |-> Idle] /\ GotMap = [t \in Threads |-> {}]
  BY <1>2 DEF CallsMap, CallMap, GotMap, NoLocals, NoRover
<1>6. Contract!Init
  BY <1>2, <1>5 DEF Contract!Init, CallsMap, CallMap, GotMap
<1> QED BY <1>1, <1>3, <1>4, <1>6 DEF RInv

LEMMA NextRef ==
    ASSUME RInv, [Next]_vars
    PROVE  RInv' /\ [Contract!Next]_(Contract!vars)
<1>1. IInv /\ IInv'
  BY NextIInv DEF RInv
<1>2. ASSUME NEW t \in Threads, Step(t) PROVE Forward
  BY <1>1, <1>2, LoadStep, CheckStep, LookHashStep, LookValueStep, ClaimReadStep, ClaimCasStep,
     ClaimIncStep, FillStep, MigNextStep, MigAllocStep, CopyHashStep, CopyVirginStep,
     CopyRehashStep, CopyValueStep, PutStep, PutFollowStep, FreezeStep, SwapStep,
     EnumHashStep, EnumValueStep DEF Step
<1>3. ASSUME NEW t \in Threads, Step(t) PROVE RInv' /\ [Contract!Next]_(Contract!vars)
  BY <1>1, <1>2, <1>3, InsideAction, LoadRef, LookHashRef, LookValueRef, FillRef, EnumHashRef,
     EnumValueRef DEF Step
<1>4. ASSUME NEW t \in Threads, Enumerate(t) PROVE RInv' /\ Contract!Next
  BY <1>1, <1>4, EnumerateStep, EnumerateRef
<1>5. ASSUME NEW t \in Threads, NEW c \in Scene.calls[t], Call(t, c)
      PROVE  RInv' /\ Contract!Next
  BY <1>1, <1>5, CallStep, CallRef
<1>6. ASSUME NEW h \in Hashes, NEW v \in Values \union {NULL}, Patch(h, v)
      PROVE  RInv' /\ Contract!Next
  BY <1>6, PatchRef
<1>7. CASE UNCHANGED vars
  <2>1. UNCHANGED <<storage, next_storage, hash, content, pc, my, rover, answer, start>>
    BY <1>7 DEF vars, world, slots, rest
  <2>2. Kept /\ SizesInv'
    BY <2>1 DEF Kept, RInv, SizesInv
  <2>3. ASSUME NEW u \in Threads PROVE LookAt(u)' /\ RoverAt(u)'
    BY <2>1, <2>2, KnownStable
  <2>4. CallsMap' = CallsMap /\ GotMap' = GotMap
    BY <2>1 DEF CallsMap, CallMap, GotMap
  <2> QED BY <1>1, <2>1, <2>2, <2>3, <2>4, MapStutters DEF RInv
<1> QED BY <1>3, <1>4, <1>5, <1>6, <1>7 DEF Next

(* MapSpec, for any threads, hashes, sizes and number of migrations: one   *)
(* caller stores a hash's value, all others get to know it, no lookup      *)
(* misses what was there when it began, and no enumerator returns an entry *)
(* twice.                                                                  *)
THEOREM ImplementsMap == Spec => MapSpec
<1>1. Init => RInv /\ Contract!Init
  BY InitRef
<1>2. RInv /\ [Next]_vars => RInv' /\ [Contract!Next]_(Contract!vars)
  BY NextRef
<1> QED BY <1>1, <1>2, PTL DEF Spec, MapSpec, Contract!Spec
=============================================================================
