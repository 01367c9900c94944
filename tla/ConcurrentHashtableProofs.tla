---------------------- MODULE ConcurrentHashtableProofs ----------------------
(***************************************************************************)
(* The hashtable, for any threads, hashes and number of migrations, a      *)
(* first storage of any power of two from 4 up and any bound on the sizes: *)
(* a hash has one slot per storage, storages are replaced one at a time,   *)
(* no copier that lags behind brings back what was removed, and the table  *)
(* implements the map with a remove.                                       *)
(***************************************************************************)
EXTENDS ConcurrentHashtable, FiniteSetTheorems, TLAPS

Words == Values \union {NULL, TOMB}

Keys == Hashes \union {NO_HASH}

AllCalls == UNION {Calls[t] : t \in Threads}

Locals ==
    [call : AllCalls \union {Idle}, seen : SUBSET (Values \union {NULL}),
     p : Gens, d : Gens, at : Nat, then : {"value", "carry"}, expect : Words,
     i : Nat, ch : Keys, cv : Values \union {NULL}]

Rovers ==
    [on : BOOLEAN, storage : Gens \union {-1}, index : Nat, got : SUBSET Hashes, stay : SUBSET Hashes]

Answers == Values \union {NULL, Idle, "0", "EEXIST", "ENOENT", "end", "ECANCELED"}

(* TypeOK without the bound of the count, and with what it leaves open:    *)
(* the table, the threads in their calls, and what the callers see.        *)
TableTypes ==
    /\ storage \in Gens /\ size \in [Gens -> 0 .. MaxSize]
    /\ hash \in [Gens -> [Slots -> Keys]] /\ frozen \in [Gens -> [Slots -> BOOLEAN]]
    /\ value \in [Gens -> [Slots -> Words]] /\ sealed \in [Gens -> [Slots -> BOOLEAN]]
    /\ n_hashs \in [Gens -> Nat] /\ freed \in [Gens -> Nat]
    /\ content \in [Hashes -> Values \union {NULL}]

ThreadTypes ==
    /\ pc \in [Threads -> Labels] /\ my \in [Threads -> Locals]
    /\ \A t \in Threads : my[t].call \in Calls[t] \union {Idle}

CallerTypes ==
    /\ rover \in [Threads -> Rovers] /\ answer \in [Threads -> Answers]
    /\ calls \in 0 .. MaxCalls

TypeInv == TableTypes /\ ThreadTypes /\ CallerTypes

-----------------------------------------------------------------------------

(* The slots *)

(* The slot that a probe of h in a storage of n slots looks at in step k. *)
Probe(n, h, k) == (h + k) % n

(* The first n slots of such a probe in g are claimed for other hashes. *)
Passed(g, h, n) == \A k \in 0 .. n - 1 : hash[g][Probe(size[g], h, k)] \notin {NO_HASH, h}

(* A claimed slot comes before the first virgin one of its hash's probe.   *)
SlotInv ==
    \A g \in Gens :
       /\ \A i \in Slots :
            /\ value[g][i] # NULL \/ sealed[g][i] => hash[g][i] # NO_HASH
            /\ sealed[g][i] => frozen[g][i]
            /\ i >= size[g] => hash[g][i] = NO_HASH /\ ~frozen[g][i]
       /\ \A i, j \in Slots : hash[g][i] = hash[g][j] /\ hash[g][i] # NO_HASH => i = j
       /\ \A i, k \in Index(g) : hash[g][i] # NO_HASH /\ Probe(size[g], hash[g][i], k) = i =>
            \A j \in 0 .. k - 1 : hash[g][Probe(size[g], hash[g][i], j)] # NO_HASH

(* h has a slot in g that has or had a value. *)
Settled(g, h) == \E j \in Slots : hash[g][j] = h /\ value[g][j] # NULL

(* A migration of g is done with slot i. *)
Done(g, i) ==
    /\ frozen[g][i]
    /\ hash[g][i] # NO_HASH =>
         sealed[g][i] /\ (value[g][i] \in Values => Settled(g + 1, hash[g][i]))

GenInv ==
    /\ \A g \in Gens :
         /\ g <= storage => size[g] # 0
         /\ size[g] # 0 => g <= storage + 1
         /\ freed[g] = IF g < storage THEN 1 ELSE 0
         /\ g < storage => \A i \in Index(g) : Done(g, i)
         /\ \A i \in Slots : frozen[g][i] => HasNext(g)
         /\ g > storage => \A i \in Slots : ~frozen[g][i] /\ value[g][i] # TOMB

(* What a hash has is in its slot of the storage; the successor has only   *)
(* sealed values of the storage.                                           *)
ContentInv ==
    /\ \A h \in Hashes : content[h] # NULL =>
         \E j \in Slots : hash[storage][j] = h /\ value[storage][j] = content[h]
    /\ \A j \in Slots : value[storage][j] \in Values =>
         content[hash[storage][j]] = value[storage][j]
    /\ storage < MaxGen =>
         \A i \in Slots : value[storage + 1][i] # NULL =>
            \E j \in Slots :
               /\ hash[storage][j] = hash[storage + 1][i]
               /\ value[storage][j] = value[storage + 1][i] /\ sealed[storage][j]

-----------------------------------------------------------------------------

(* Where a thread is: t, at the label l with the locals m and its          *)
(* enumerator at index x.                                                  *)

KeyOf(m) == IF m.then = "carry" THEN m.ch ELSE m.call.hash

SlotOf(m) == Probe(size[m.d], KeyOf(m), m.at)

Claims(l) == l \in {"claim", "claim_cas", "claim_inc"}

(* It has claimed, or claims, a slot for its own call. *)
Owns(l, m) == l \in {"check", "value", "value_cas"} \/ (Claims(l) /\ m.then = "value")

CallAt(t, l, m, x) ==
    /\ m.p <= storage
    /\ IF l = "idle" THEN m.call = Idle ELSE m.call \in Calls[t]
    /\ l \in {"look_hash", "look_value"} => m.call.op = "lookup"
    /\ l \in {"rem_hash", "rem_cas"} => m.call.op = "remove"
    /\ l \in {"enum_hash", "enum_value"} => m.call.op = "next"
    /\ Owns(l, m) => m.call.op \in {"insert", "register"}
    /\ l = "enum_value" => x >= 1 /\ x <= size[m.p] /\ hash[m.p][x - 1] # NO_HASH

(* A probe has met other hashes only, and ends at the slot of its own. *)
ProbeAt(l, m) ==
    /\ ~Claims(l) /\ l # "carry" => m.then = "value"
    /\ l = "carry" => m.then = "carry"
    /\ l \in {"look_hash", "look_value", "rem_hash", "rem_cas"} \/ Owns(l, m) => m.d = m.p
    /\ l = "check" => m.at = 0
    /\ l = "value_cas" => m.expect \notin Values
    /\ l \in {"look_hash", "rem_hash", "claim", "claim_cas"} =>
         m.at <= size[m.d] /\ Passed(m.d, KeyOf(m), m.at)
    /\ l \in {"look_value", "rem_cas", "claim_inc", "value", "value_cas", "carry"} =>
         hash[m.d][SlotOf(m)] = KeyOf(m)

(* A copier is done with the slots before its own, and what it carries is  *)
(* sealed in its slot.                                                     *)
Copies(l, m) == l \in {"freeze", "freeze_cas", "seal", "seal_cas"} \/ m.then = "carry"

CopyAt(l, m) ==
    /\ Copies(l, m) \/ l = "swap" => HasNext(m.p) /\ \A j \in 0 .. m.i - 1 : Done(m.p, j)
    /\ Copies(l, m) => m.i < size[m.p]
    /\ l = "swap" => m.i = size[m.p]
    /\ l \in {"seal", "seal_cas"} \/ m.then = "carry" =>
         m.ch = hash[m.p][m.i] /\ m.ch # NO_HASH /\ frozen[m.p][m.i]
    /\ m.then = "carry" =>
         sealed[m.p][m.i] /\ value[m.p][m.i] = m.cv /\ m.cv \in Values /\ m.d = m.p + 1

Placed(t, l, m, x) == CallAt(t, l, m, x) /\ ProbeAt(l, m) /\ CopyAt(l, m)

(* The inductive invariant. *)
IInv ==
    /\ TypeInv /\ SlotInv /\ GenInv /\ ContentInv
    /\ \A t \in Threads : Placed(t, pc[t], my[t], rover[t].index)

-----------------------------------------------------------------------------

(* The count: the claims not yet counted are in some thread's hands. *)

ClaimedSlots(g) == {i \in Slots : hash[g][i] # NO_HASH}

Counting(g) == {t \in Threads : pc[t] = "claim_inc" /\ my[t].d = g}

CountInv ==
    \A g \in Gens : Cardinality(ClaimedSlots(g)) = n_hashs[g] + Cardinality(Counting(g))

-----------------------------------------------------------------------------

(* Constants, numbers and the table *)

LEMMA ConstFacts ==
    /\ NULL \notin Values /\ TOMB \notin Values /\ NULL # TOMB
    /\ Idle \notin Values \union {NULL}
    /\ MaxGen \in Nat /\ 0 \in Gens /\ NO_HASH \notin Hashes /\ NO_HASH = 0
    /\ Hashes \subseteq Nat /\ Keys \subseteq Nat
    /\ FillValue \in Values /\ Filled \subseteq Hashes
    /\ InitSize \in Nat /\ InitSize > 0 /\ MaxSize \in Nat /\ InitSize <= MaxSize
    /\ MaxCalls \in Nat
  BY HashtableAssumption DEF Gens, NO_HASH, Keys

(* A call. *)
LEMMA CallFacts ==
    ASSUME NEW t \in Threads, NEW c \in Calls[t]
    PROVE  /\ c \in AllCalls
           /\ c # Idle
           /\ c.op \in {"insert", "register", "remove", "lookup", "next", "migrate"}
           /\ c.op \notin {"next", "migrate"} =>
                c.hash \in Hashes /\ c.value \in Values \union {NULL}
           /\ c.op \in {"insert", "register", "remove"} => c.value \in Values
  BY HashtableAssumption DEF AllCalls

(* What is less than a divisor is its own remainder. *)
LEMMA Remainder ==
    ASSUME NEW s \in Nat, s > 0, NEW m \in Nat, NEW i \in Nat, i < s
    PROVE  (s * m + i) % s = i
<1> DEFINE a == s * m + i
<1>1. a \in Nat
  OBVIOUS
<1>2. a = s * (a \div s) + (a % s) /\ a % s \in Nat /\ a % s < s /\ a \div s \in Nat
  BY <1>1
<1> DEFINE q == a \div s
           r == a % s
<1> HIDE DEF q, r
<1>3. s * m + i = s * q + r /\ r \in Nat /\ r < s /\ q \in Nat
  BY <1>2 DEF q, r
<1>4. m = q
  <2>1. CASE m < q
    <3>1. q >= m + 1
      BY <1>3, <2>1
    <3>2. s * q >= s * (m + 1)
      BY <1>3, <3>1
    <3>3. s * (m + 1) = s * m + s
      OBVIOUS
    <3> QED BY <1>3, <3>2, <3>3
  <2>2. CASE q < m
    <3>1. m >= q + 1
      BY <1>3, <2>2
    <3>2. s * m >= s * (q + 1)
      BY <1>3, <3>1
    <3>3. s * (q + 1) = s * q + s
      BY <1>3
    <3> QED BY <1>3, <3>2, <3>3
  <2> QED BY <1>3, <2>1, <2>2
<1>5. r = i
  BY <1>3, <1>4
<1> QED BY <1>5 DEF r

(* A probe looks at slots of the storage, at each of them, at none twice,  *)
(* and after the last one at the first.                                    *)
LEMMA Probes ==
    ASSUME NEW s \in Nat, s > 0, NEW h \in Nat
    PROVE  /\ \A k \in Nat : Probe(s, h, k) \in 0 .. s - 1
           /\ \A i \in 0 .. s - 1 : \E k \in 0 .. s - 1 : Probe(s, h, k) = i
           /\ \A j, k \in 0 .. s - 1 : Probe(s, h, j) = Probe(s, h, k) => j = k
           /\ Probe(s, h, s) = Probe(s, h, 0)
<1> DEFINE r == h % s
           q == h \div s
<1>2. /\ \A k : Probe(s, h, k) = (h + k) % s
  BY DEF Probe
<1>3. h = s * q + r /\ r \in Nat /\ r < s /\ q \in Nat
  OBVIOUS
<1> HIDE DEF r, q
<1>4. ASSUME NEW k \in Nat PROVE Probe(s, h, k) \in 0 .. s - 1
  <2>1. h + k \in Nat
    OBVIOUS
  <2>2. (h + k) % s \in Nat /\ (h + k) % s < s
    BY <2>1
  <2> QED BY <1>2, <2>2
<1>a. s * (q + 1) = s * q + s /\ q + 1 \in Nat
  BY <1>3
<1>5. ASSUME NEW k \in Nat, k <= s
      PROVE  (h + k) % s = IF r + k < s THEN r + k ELSE r + k - s
  <2>1. CASE r + k < s
    <3>1. h + k = s * q + (r + k) /\ r + k \in Nat
      BY <1>3
    <3> QED BY <1>3, <2>1, <3>1, Remainder
  <2>2. CASE ~(r + k < s)
    <3>2. h + k = s * (q + 1) + (r + k - s) /\ r + k - s \in Nat /\ r + k - s < s
      <4> DEFINE x == s * q
                 y == s * (q + 1)
      <4>1. h = x + r /\ y = x + s /\ x \in Int /\ y \in Int
        BY <1>3, <1>a
      <4> HIDE DEF x, y
      <4> QED BY <1>3, <1>5, <2>2, <4>1
    <3>3. (s * (q + 1) + (r + k - s)) % s = r + k - s
      BY <1>a, <3>2, Remainder
    <3> QED BY <2>2, <3>2, <3>3
  <2> QED BY <2>1, <2>2
<1>6. ASSUME NEW i \in 0 .. s - 1 PROVE \E k \in 0 .. s - 1 : Probe(s, h, k) = i
  <2>2. CASE i >= r
    <3>1. i - r \in Nat /\ i - r < s /\ r + (i - r) = i
      BY <1>3, <2>2
    <3>2. (h + (i - r)) % s = i
      BY <1>5, <3>1
    <3> QED BY <1>2, <3>1, <3>2
  <2>3. CASE i < r
    <3> DEFINE k == i - r + s
    <3>1. k \in Nat /\ k < s /\ ~(r + k < s) /\ r + k - s = i
      BY <1>3, <2>3
    <3>2. (h + k) % s = i
      BY <1>5, <3>1
    <3> QED BY <1>2, <3>1, <3>2
  <2> QED BY <1>3, <2>2, <2>3
<1>7. ASSUME NEW j \in 0 .. s - 1, NEW k \in 0 .. s - 1, Probe(s, h, j) = Probe(s, h, k) PROVE j = k
  <2>1. j \in Nat /\ j < s /\ k \in Nat /\ k < s /\ (h + j) % s = (h + k) % s
    BY <1>2, <1>7
  <2>2. /\ (h + j) % s = IF r + j < s THEN r + j ELSE r + j - s
        /\ (h + k) % s = IF r + k < s THEN r + k ELSE r + k - s
    BY <1>5, <2>1
  <2> QED BY <1>3, <2>1, <2>2
<1>8. Probe(s, h, s) = Probe(s, h, 0)
  <2>1. (h + s) % s = r /\ (h + 0) % s = r
    BY <1>3, <1>5
  <2> QED BY <1>2, <2>1
<1> QED BY <1>4, <1>6, <1>7, <1>8

(* The next slot of a probe that goes round. *)
LEMMA NextAt ==
    ASSUME NEW s \in Nat, s > 0, NEW a \in Nat, a <= s
    PROVE  (a % s) + 1 = (IF a = s THEN 1 ELSE a + 1)
<1>1. CASE a = s
  BY <1>1
<1>2. CASE a < s
  BY <1>2
<1> QED BY <1>1, <1>2

(* One word of a table is written. *)
Puts(new, old, g, i, x) == new = [old EXCEPT ![g][i] = x]

LEMMA PutsFacts ==
    ASSUME NEW S, NEW old \in [Gens -> [Slots -> S]], NEW g \in Gens, NEW i \in Slots,
           NEW x \in S, NEW new, Puts(new, old, g, i, x)
    PROVE  /\ new \in [Gens -> [Slots -> S]]
           /\ new[g][i] = x
           /\ \A h \in Gens : \A j \in Slots : h # g \/ j # i => new[h][j] = old[h][j]
<1>1. new = [old EXCEPT ![g] = [old[g] EXCEPT ![i] = x]]
  BY DEF Puts
<1>2. new \in [Gens -> [Slots -> S]] /\ \A h \in Gens \ {g} : new[h] = old[h]
  BY <1>1
<1>3. new[g] = [old[g] EXCEPT ![i] = x] /\ old[g] \in [Slots -> S]
  BY <1>1
<1>4. ASSUME NEW h \in Gens, NEW j \in Slots, h # g \/ j # i PROVE new[h][j] = old[h][j]
  <2>1. CASE h # g
    BY <1>2, <2>1
  <2>2. CASE h = g
    BY <1>3, <1>4, <2>2
  <2> QED BY <2>1, <2>2
<1> QED BY <1>2, <1>3, <1>4

(* A hash word is written. *)
LEMMA HashPut ==
    ASSUME hash \in [Gens -> [Slots -> Keys]], NEW g \in Gens, NEW i \in Slots,
           NEW k \in Keys, Puts(hash', hash, g, i, k)
    PROVE  /\ hash' \in [Gens -> [Slots -> Keys]] /\ hash'[g][i] = k
           /\ \A h \in Gens : \A j \in Slots : h # g \/ j # i => hash'[h][j] = hash[h][j]
<1>1. hash' = [hash EXCEPT ![g] = [hash[g] EXCEPT ![i] = k]]
  BY DEF Puts
<1>2. hash' \in [Gens -> [Slots -> Keys]] /\ \A h \in Gens \ {g} : hash'[h] = hash[h]
  BY <1>1
<1>3. hash'[g] = [hash[g] EXCEPT ![i] = k] /\ hash[g] \in [Slots -> Keys]
  BY <1>1
<1>4. ASSUME NEW h \in Gens, NEW j \in Slots, h # g \/ j # i PROVE hash'[h][j] = hash[h][j]
  <2>1. CASE h # g
    BY <1>2, <2>1
  <2>2. CASE h = g
    BY <1>3, <1>4, <2>2
  <2> QED BY <2>1, <2>2
<1> QED BY <1>2, <1>3, <1>4

(* A value word is. *)
LEMMA ValuePut ==
    ASSUME value \in [Gens -> [Slots -> Words]], NEW g \in Gens, NEW i \in Slots,
           NEW k \in Words, Puts(value', value, g, i, k)
    PROVE  /\ value' \in [Gens -> [Slots -> Words]] /\ value'[g][i] = k
           /\ \A h \in Gens : \A j \in Slots : h # g \/ j # i => value'[h][j] = value[h][j]
<1>1. value' = [value EXCEPT ![g] = [value[g] EXCEPT ![i] = k]]
  BY DEF Puts
<1>2. value' \in [Gens -> [Slots -> Words]] /\ \A h \in Gens \ {g} : value'[h] = value[h]
  BY <1>1
<1>3. value'[g] = [value[g] EXCEPT ![i] = k] /\ value[g] \in [Slots -> Words]
  BY <1>1
<1>4. ASSUME NEW h \in Gens, NEW j \in Slots, h # g \/ j # i PROVE value'[h][j] = value[h][j]
  <2>1. CASE h # g
    BY <1>2, <2>1
  <2>2. CASE h = g
    BY <1>3, <1>4, <2>2
  <2> QED BY <2>1, <2>2
<1> QED BY <1>2, <1>3, <1>4

(* A slot is frozen. *)
LEMMA FrozenPut ==
    ASSUME frozen \in [Gens -> [Slots -> BOOLEAN]], NEW g \in Gens, NEW i \in Slots,
           Puts(frozen', frozen, g, i, TRUE)
    PROVE  /\ frozen' \in [Gens -> [Slots -> BOOLEAN]] /\ frozen'[g][i] = TRUE
           /\ \A h \in Gens : \A j \in Slots : h # g \/ j # i => frozen'[h][j] = frozen[h][j]
<1>1. frozen' = [frozen EXCEPT ![g] = [frozen[g] EXCEPT ![i] = TRUE]]
  BY DEF Puts
<1>2. frozen' \in [Gens -> [Slots -> BOOLEAN]] /\ \A h \in Gens \ {g} : frozen'[h] = frozen[h]
  BY <1>1
<1>3. frozen'[g] = [frozen[g] EXCEPT ![i] = TRUE] /\ frozen[g] \in [Slots -> BOOLEAN]
  BY <1>1
<1>4. ASSUME NEW h \in Gens, NEW j \in Slots, h # g \/ j # i PROVE frozen'[h][j] = frozen[h][j]
  <2>1. CASE h # g
    BY <1>2, <2>1
  <2>2. CASE h = g
    BY <1>3, <1>4, <2>2
  <2> QED BY <2>1, <2>2
<1> QED BY <1>2, <1>3, <1>4

(* It is sealed. *)
LEMMA SealedPut ==
    ASSUME sealed \in [Gens -> [Slots -> BOOLEAN]], NEW g \in Gens, NEW i \in Slots,
           Puts(sealed', sealed, g, i, TRUE)
    PROVE  /\ sealed' \in [Gens -> [Slots -> BOOLEAN]] /\ sealed'[g][i] = TRUE
           /\ \A h \in Gens : \A j \in Slots : h # g \/ j # i => sealed'[h][j] = sealed[h][j]
<1>1. sealed' = [sealed EXCEPT ![g] = [sealed[g] EXCEPT ![i] = TRUE]]
  BY DEF Puts
<1>2. sealed' \in [Gens -> [Slots -> BOOLEAN]] /\ \A h \in Gens \ {g} : sealed'[h] = sealed[h]
  BY <1>1
<1>3. sealed'[g] = [sealed[g] EXCEPT ![i] = TRUE] /\ sealed[g] \in [Slots -> BOOLEAN]
  BY <1>1
<1>4. ASSUME NEW h \in Gens, NEW j \in Slots, h # g \/ j # i PROVE sealed'[h][j] = sealed[h][j]
  <2>1. CASE h # g
    BY <1>2, <2>1
  <2>2. CASE h = g
    BY <1>3, <1>4, <2>2
  <2> QED BY <2>1, <2>2
<1> QED BY <1>2, <1>3, <1>4

(* The numbers of the table. *)
LEMMA Numbers ==
    ASSUME TableTypes
    PROVE  /\ storage \in Nat /\ storage \in Gens
           /\ \A g : g \in Gens <=> g \in Nat /\ g <= MaxGen
           /\ \A i : i \in Slots <=> i \in Nat /\ i < MaxSize
           /\ \A g \in Gens : size[g] \in Nat /\ size[g] <= MaxSize /\ Index(g) \subseteq Slots
           /\ \A g \in Gens : \A i : i \in Index(g) <=> i \in Nat /\ i < size[g]
           /\ \A g \in Gens : HasNext(g) <=> g + 1 \in Gens /\ size[g + 1] # 0
<1>1. MaxGen \in Nat /\ MaxSize \in Nat
  BY ConstFacts
<1>2. \A g \in Gens : size[g] \in Nat /\ size[g] <= MaxSize
  BY <1>1 DEF TableTypes
<1> QED BY <1>1, <1>2, SMTT(30) DEF TableTypes, Gens, Slots, Index, HasNext
-----------------------------------------------------------------------------

(* What is known before a step *)

(* The storage and the threads. *)
LEMMA Basics ==
    ASSUME IInv, NEW t \in Threads
    PROVE  /\ TableTypes /\ ThreadTypes /\ CallerTypes /\ SlotInv /\ GenInv /\ ContentInv
           /\ storage \in Nat /\ storage \in Gens
           /\ pc[t] \in Labels /\ my[t] \in Locals /\ my[t].call \in Calls[t] \union {Idle}
           /\ my[t].p \in Gens /\ my[t].p \in Nat /\ my[t].d \in Gens /\ my[t].d \in Nat
           /\ my[t].at \in Nat /\ my[t].i \in Nat /\ my[t].then \in {"value", "carry"}
           /\ my[t].expect \in Words /\ my[t].ch \in Keys /\ my[t].cv \in Values \union {NULL}
           /\ my[t].seen \subseteq Values \union {NULL}
           /\ rover[t] \in Rovers /\ rover[t].index \in Nat
           /\ CallAt(t, pc[t], my[t], rover[t].index) /\ ProbeAt(pc[t], my[t]) /\ CopyAt(pc[t], my[t])
           /\ my[t].p <= storage /\ size[my[t].p] > 0 /\ size[my[t].p] \in Nat
           /\ HasNext(my[t].p) => my[t].p + 1 \in Gens /\ size[my[t].p + 1] > 0
<1>1. /\ TableTypes /\ ThreadTypes /\ CallerTypes /\ SlotInv /\ GenInv /\ ContentInv
      /\ Placed(t, pc[t], my[t], rover[t].index)
  BY DEF IInv, TypeInv
<1>2. /\ storage \in Nat /\ storage \in Gens /\ \A g \in Gens : g \in Nat
      /\ \A g \in Gens : size[g] \in Nat
      /\ \A g \in Gens : HasNext(g) <=> g + 1 \in Gens /\ size[g + 1] # 0
  BY <1>1, Numbers
<1>3. pc[t] \in Labels /\ my[t] \in Locals /\ my[t].call \in Calls[t] \union {Idle}
  BY <1>1 DEF ThreadTypes
<1>4. /\ my[t].p \in Gens /\ my[t].p \in Nat /\ my[t].d \in Gens /\ my[t].d \in Nat
      /\ my[t].at \in Nat /\ my[t].i \in Nat /\ my[t].then \in {"value", "carry"}
      /\ my[t].expect \in Words /\ my[t].ch \in Keys /\ my[t].cv \in Values \union {NULL}
      /\ my[t].seen \subseteq Values \union {NULL}
  BY <1>2, <1>3 DEF Locals
<1>5. rover[t] \in Rovers
  BY <1>1 DEF CallerTypes
<1>6. rover[t].index \in Nat
  BY <1>5 DEF Rovers
<1>7. CallAt(t, pc[t], my[t], rover[t].index) /\ ProbeAt(pc[t], my[t]) /\ CopyAt(pc[t], my[t])
  BY <1>1 DEF Placed
<1>8. my[t].p <= storage
  BY <1>7 DEF CallAt
<1>9. size[my[t].p] # 0
  BY <1>1, <1>4, <1>8 DEF GenInv
<1>10. HasNext(my[t].p) => my[t].p + 1 \in Gens /\ size[my[t].p + 1] > 0
  BY <1>2, <1>4
<1>11. size[my[t].p] > 0 /\ size[my[t].p] \in Nat
  BY <1>2, <1>4, <1>9
<1> QED BY <1>1, <1>2, <1>3, <1>4, <1>5, <1>6, <1>7, <1>8, <1>10, <1>11

(* The labels at which a thread is in a probe. *)
Probing(l) ==
    l \in {"look_hash", "look_value", "rem_hash", "rem_cas", "claim", "claim_cas", "claim_inc",
           "value", "value_cas", "carry"}

(* A probing thread has a hash, and it looks at a slot of its storage. *)
LEMMA Addressed ==
    ASSUME IInv, NEW t \in Threads, Probing(pc[t])
    PROVE  /\ size[my[t].d] > 0 /\ size[my[t].d] \in Nat
           /\ KeyOf(my[t]) \in Hashes /\ Key(t) = KeyOf(my[t])
           /\ SlotOf(my[t]) \in Index(my[t].d) /\ SlotOf(my[t]) \in Slots
           /\ Slot(t, my[t].d) = SlotOf(my[t])
           /\ SlotOf(my[t]) = Probe(size[my[t].d], KeyOf(my[t]), my[t].at)
           /\ my[t].then # "carry" =>
                /\ my[t].d = my[t].p
                /\ KeyOf(my[t]) = my[t].call.hash /\ my[t].call \in Calls[t]
                /\ my[t].call.op \in {"insert", "register", "remove", "lookup"}
                /\ pc[t] \in {"value", "value_cas", "claim", "claim_cas", "claim_inc"} =>
                     my[t].call.op \in {"insert", "register"}
           /\ my[t].then = "carry" =>
                /\ my[t].d = my[t].p + 1 /\ HasNext(my[t].p)
                /\ KeyOf(my[t]) = my[t].ch
                /\ Claims(pc[t]) \/ pc[t] = "carry"
<1>1. my[t].then = "carry" =>
        /\ my[t].d = my[t].p + 1 /\ HasNext(my[t].p) /\ my[t].ch # NO_HASH
        /\ KeyOf(my[t]) = my[t].ch
        /\ Claims(pc[t]) \/ pc[t] = "carry"
  BY Basics DEF CopyAt, ProbeAt, Copies, KeyOf
<1>2. my[t].then # "carry" =>
        /\ my[t].d = my[t].p
        /\ KeyOf(my[t]) = my[t].call.hash /\ my[t].call \in Calls[t]
        /\ my[t].call.op \in {"insert", "register", "remove", "lookup"}
        /\ pc[t] \in {"value", "value_cas", "claim", "claim_cas", "claim_inc"} =>
             my[t].call.op \in {"insert", "register"}
  <2>1. ASSUME my[t].then # "carry"
        PROVE  /\ my[t].d = my[t].p /\ my[t].call \in Calls[t]
               /\ KeyOf(my[t]) = my[t].call.hash
    BY <2>1, Basics DEF CallAt, ProbeAt, Owns, Probing, Claims, KeyOf
  <2>2. ASSUME my[t].then # "carry"
        PROVE  /\ my[t].call.op \in {"insert", "register", "remove", "lookup"}
               /\ pc[t] \in {"value", "value_cas", "claim", "claim_cas", "claim_inc"} =>
                    my[t].call.op \in {"insert", "register"}
    BY <2>2, Basics DEF CallAt, ProbeAt, Owns, Probing, Claims
  <2> QED BY <2>1, <2>2
<1>3. size[my[t].d] > 0 /\ size[my[t].d] \in Nat
  BY <1>1, <1>2, Basics, Numbers
<1>4. KeyOf(my[t]) \in Hashes
  <2>1. CASE my[t].then = "carry"
    BY <1>1, <2>1, Basics DEF Keys
  <2>2. CASE my[t].then # "carry"
    BY <1>2, <2>2, CallFacts
  <2> QED BY <2>1, <2>2
<1>5. KeyOf(my[t]) \in Nat
  BY <1>4, ConstFacts
<1>6. SlotOf(my[t]) = Probe(size[my[t].d], KeyOf(my[t]), my[t].at)
  BY DEF SlotOf
<1>7. SlotOf(my[t]) \in Index(my[t].d)
  <2>1. my[t].at \in Nat
    BY Basics
  <2>2. \A k \in Nat : Probe(size[my[t].d], KeyOf(my[t]), k) \in 0 .. size[my[t].d] - 1
    BY <1>3, <1>5, Probes
  <2> QED BY <1>6, <2>1, <2>2 DEF Index
<1>8. SlotOf(my[t]) \in Slots
  <2>1. TableTypes /\ my[t].d \in Gens
    BY Basics
  <2>2. Index(my[t].d) \subseteq Slots
    BY <2>1, Numbers
  <2> QED BY <1>7, <2>2
<1>9. Key(t) = KeyOf(my[t]) /\ Slot(t, my[t].d) = SlotOf(my[t])
  BY DEF Key, KeyOf, Slot, SlotOf, Probe
<1> QED BY <1>1, <1>2, <1>3, <1>4, <1>6, <1>7, <1>8, <1>9

(* So does a copier. *)
LEMMA CopyFacts ==
    ASSUME IInv, NEW t \in Threads, Copies(pc[t], my[t])
    PROVE  /\ my[t].i \in Index(my[t].p) /\ my[t].i \in Slots /\ my[t].i < size[my[t].p]
           /\ HasNext(my[t].p) /\ my[t].p + 1 \in Gens /\ size[my[t].p + 1] > 0
           /\ \A j \in 0 .. my[t].i - 1 : Done(my[t].p, j)
<1>1. /\ my[t].i < size[my[t].p] /\ HasNext(my[t].p)
      /\ \A j \in 0 .. my[t].i - 1 : Done(my[t].p, j)
  BY Basics DEF CopyAt
<1> QED BY <1>1, Basics, Numbers

(* The end of a probe: a virgin slot means that the hash has none. *)
LEMMA VirginMeans ==
    ASSUME TableTypes, SlotInv, NEW g \in Gens, size[g] > 0, NEW h \in Hashes,
           NEW n \in Nat, n <= size[g], Passed(g, h, n),
           hash[g][Probe(size[g], h, n)] = NO_HASH
    PROVE  n < size[g] /\ \A j \in Slots : hash[g][j] # h
<1>1. size[g] \in Nat /\ h \in Nat /\ h # NO_HASH
  BY Numbers, ConstFacts
<1>2. n < size[g]
  <2>1. SUFFICES ASSUME n = size[g] PROVE FALSE
    BY <1>1
  <2>2. Probe(size[g], h, n) = Probe(size[g], h, 0)
    BY <1>1, <2>1, Probes
  <2>3. 0 \in 0 .. n - 1
    BY <1>1, <2>1
  <2> QED BY <2>2, <2>3 DEF Passed
<1>3. ASSUME NEW j \in Slots, hash[g][j] = h PROVE FALSE
  <2>1. j \in Index(g)
    <3>1. ~(j >= size[g])
      BY <1>1, <1>3 DEF SlotInv
    <3>2. j \in Nat
      BY <1>3, Numbers
    <3>3. j < size[g]
      BY <1>1, <3>1, <3>2
    <3> QED BY <3>2, <3>3, Numbers
  <2>2. PICK k \in 0 .. size[g] - 1 : Probe(size[g], h, k) = j
    <3>1. \A i \in 0 .. size[g] - 1 : \E k \in 0 .. size[g] - 1 : Probe(size[g], h, k) = i
      BY <1>1, Probes
    <3> QED BY <2>1, <3>1 DEF Index
  <2>3. k \in Index(g) /\ k \in Nat
    BY <1>1, <2>2 DEF Index
  <2>4. CASE k < n
    <3>1. k \in 0 .. n - 1
      BY <2>3, <2>4
    <3> QED BY <1>3, <2>2, <3>1 DEF Passed
  <2>5. CASE k = n
    BY <1>1, <1>3, <2>2, <2>5
  <2>6. CASE n < k
    <3>1. n \in 0 .. k - 1
      BY <2>3, <2>6
    <3>2. \A m \in 0 .. k - 1 : hash[g][Probe(size[g], hash[g][j], m)] # NO_HASH
      BY <1>1, <1>3, <2>1, <2>2, <2>3 DEF SlotInv
    <3> QED BY <1>3, <3>1, <3>2
  <2> QED BY <2>3, <2>4, <2>5, <2>6
<1> QED BY <1>2, <1>3

(* A probe that moves on has passed one slot more. *)
LEMMA PassOn ==
    ASSUME TableTypes, NEW g \in Gens, size[g] > 0, NEW h \in Hashes,
           NEW n \in Nat, n <= size[g], Passed(g, h, n),
           hash[g][Probe(size[g], h, n)] \notin {NO_HASH, h}
    PROVE  /\ (n % size[g]) + 1 \in Nat /\ (n % size[g]) + 1 <= size[g]
           /\ Passed(g, h, (n % size[g]) + 1)
<1>1. size[g] \in Nat /\ h \in Nat
  BY Numbers, ConstFacts
<1>2. (n % size[g]) + 1 = IF n = size[g] THEN 1 ELSE n + 1
  BY <1>1, NextAt
<1>3. CASE n = size[g]
  <2>1. Probe(size[g], h, n) = Probe(size[g], h, 0)
    BY <1>1, <1>3, Probes
  <2>2. \A k \in 0 .. 1 - 1 : k = 0
    OBVIOUS
  <2>3. Passed(g, h, 1)
    BY <2>1, <2>2 DEF Passed
  <2> QED BY <1>1, <1>2, <1>3, <2>3
<1>4. CASE n # size[g]
  <2>1. \A k \in 0 .. (n + 1) - 1 : k \in 0 .. n - 1 \/ k = n
    OBVIOUS
  <2>2. Passed(g, h, n + 1)
    BY <2>1 DEF Passed
  <2>3. n + 1 <= size[g] /\ n + 1 \in Nat
    BY <1>1, <1>4
  <2> QED BY <1>2, <1>4, <2>2, <2>3
<1> QED BY <1>3, <1>4
-----------------------------------------------------------------------------

(* The beginning: the hashes that are in do not collide, so each is in the *)
(* first slot of its probe.                                                *)
LEMMA InitSlots ==
    ASSUME Init
    PROVE  /\ storage = 0 /\ size \in [Gens -> 0 .. MaxSize]
           /\ \A g \in Gens : size[g] = IF g = 0 THEN InitSize ELSE 0
           /\ hash \in [Gens -> [Slots -> Keys]] /\ value \in [Gens -> [Slots -> Words]]
           /\ frozen \in [Gens -> [Slots -> BOOLEAN]] /\ sealed \in [Gens -> [Slots -> BOOLEAN]]
           /\ \A g \in Gens : \A i \in Slots :
                /\ ~frozen[g][i] /\ ~sealed[g][i]
                /\ value[g][i] = IF hash[g][i] = NO_HASH THEN NULL ELSE FillValue
                /\ hash[g][i] # NO_HASH =>
                      g = 0 /\ hash[g][i] \in Filled /\ Probe(InitSize, hash[g][i], 0) = i
           /\ \A h \in Filled :
                Probe(InitSize, h, 0) \in Slots /\ hash[0][Probe(InitSize, h, 0)] = h
<1> USE ConstFacts
<1>1. ASSUME NEW g \in Gens, NEW i \in Slots
      PROVE  /\ hash[g][i] = IF \E h \in Filled : g = 0 /\ h % InitSize = i
                             THEN CHOOSE h \in Filled : h % InitSize = i ELSE NO_HASH
             /\ value[g][i] = IF hash[g][i] = NO_HASH THEN NULL ELSE FillValue
             /\ frozen[g][i] = FALSE /\ sealed[g][i] = FALSE
  BY DEF Init
<1>2. \A h \in Filled : h \in Nat /\ h # NO_HASH /\ h \in Keys /\ Probe(InitSize, h, 0) = h % InitSize
  BY DEF Probe, Keys
<1>3. ASSUME NEW g \in Gens, NEW i \in Slots
      PROVE  /\ hash[g][i] \in Keys
             /\ hash[g][i] # NO_HASH =>
                   g = 0 /\ hash[g][i] \in Filled /\ Probe(InitSize, hash[g][i], 0) = i
  <2>1. CASE \E h \in Filled : g = 0 /\ h % InitSize = i
    <3>1. hash[g][i] = CHOOSE h \in Filled : h % InitSize = i
      BY <1>1, <2>1
    <3>2. hash[g][i] \in Filled /\ hash[g][i] % InitSize = i
      BY <2>1, <3>1
    <3> QED BY <1>2, <2>1, <3>2
  <2>2. CASE ~\E h \in Filled : g = 0 /\ h % InitSize = i
    BY <1>1, <2>2 DEF Keys
  <2> QED BY <2>1, <2>2
<1>4. /\ hash \in [Gens -> [Slots -> Keys]] /\ value \in [Gens -> [Slots -> Words]]
      /\ frozen \in [Gens -> [Slots -> BOOLEAN]] /\ sealed \in [Gens -> [Slots -> BOOLEAN]]
  <2>1. /\ hash = [g \in Gens |-> [i \in Slots |-> hash[g][i]]]
        /\ value = [g \in Gens |-> [i \in Slots |-> value[g][i]]]
        /\ frozen \in [Gens -> [Slots -> BOOLEAN]] /\ sealed \in [Gens -> [Slots -> BOOLEAN]]
    BY DEF Init
  <2>2. \A g \in Gens : \A i \in Slots : hash[g][i] \in Keys /\ value[g][i] \in Words
    BY <1>1, <1>3 DEF Words
  <2>3. hash \in [Gens -> [Slots -> Keys]]
    BY <2>1, <2>2
  <2>4. value \in [Gens -> [Slots -> Words]]
    BY <2>1, <2>2
  <2> QED BY <2>1, <2>3, <2>4
<1>5. /\ storage = 0 /\ size \in [Gens -> 0 .. MaxSize]
      /\ \A g \in Gens : size[g] = IF g = 0 THEN InitSize ELSE 0
  BY DEF Init
<1>6. ASSUME NEW h \in Filled
      PROVE  Probe(InitSize, h, 0) \in Slots /\ hash[0][Probe(InitSize, h, 0)] = h
  <2> DEFINE i == Probe(InitSize, h, 0)
  <2>1. i \in Slots /\ i = h % InitSize
    <3>1. h % InitSize \in 0 .. InitSize - 1
      BY <1>2
    <3> QED BY <1>2, <3>1 DEF Slots
  <2>2. hash[0][i] = CHOOSE k \in Filled : k % InitSize = i
    BY <1>1, <2>1
  <2>3. hash[0][i] \in Filled /\ hash[0][i] % InitSize = h % InitSize
    BY <2>1, <2>2
  <2>4. \A k \in Filled : k % InitSize = h % InitSize => k = h
    BY HashtableAssumption
  <2> QED BY <2>1, <2>3, <2>4
<1>7. ASSUME NEW g \in Gens, NEW i \in Slots
      PROVE  /\ ~frozen[g][i] /\ ~sealed[g][i]
             /\ value[g][i] = IF hash[g][i] = NO_HASH THEN NULL ELSE FillValue
             /\ hash[g][i] # NO_HASH =>
                   g = 0 /\ hash[g][i] \in Filled /\ Probe(InitSize, hash[g][i], 0) = i
  BY <1>1, <1>3
<1> QED BY <1>4, <1>5, <1>6, <1>7

LEMMA InitIInv == Init => IInv
<1> SUFFICES ASSUME Init PROVE IInv
  OBVIOUS
<1> USE ConstFacts
<1>1. /\ storage = 0 /\ size \in [Gens -> 0 .. MaxSize]
      /\ \A g \in Gens : size[g] = IF g = 0 THEN InitSize ELSE 0
      /\ hash \in [Gens -> [Slots -> Keys]] /\ value \in [Gens -> [Slots -> Words]]
      /\ frozen \in [Gens -> [Slots -> BOOLEAN]] /\ sealed \in [Gens -> [Slots -> BOOLEAN]]
      /\ \A g \in Gens : \A i \in Slots :
           /\ ~frozen[g][i] /\ ~sealed[g][i]
           /\ value[g][i] = IF hash[g][i] = NO_HASH THEN NULL ELSE FillValue
           /\ hash[g][i] # NO_HASH =>
                 g = 0 /\ hash[g][i] \in Filled /\ Probe(InitSize, hash[g][i], 0) = i
      /\ \A h \in Filled : Probe(InitSize, h, 0) \in Slots /\ hash[0][Probe(InitSize, h, 0)] = h
  BY InitSlots
<1>2. /\ n_hashs = [g \in Gens |-> IF g = 0 THEN Cardinality(Filled) ELSE 0]
      /\ freed = [g \in Gens |-> 0] /\ pc = [t \in Threads |-> "idle"]
      /\ my = [t \in Threads |-> NoLocals] /\ rover = [t \in Threads |-> NoRover]
      /\ answer = [t \in Threads |-> Idle]
      /\ content = [h \in Hashes |-> IF h \in Filled THEN FillValue ELSE NULL] /\ calls = 0
  BY DEF Init
<1>3. TypeInv
  <2>0. NoLocals \in Locals
    <3>1. NULL \in Words /\ NO_HASH \in Keys /\ NULL \in Values \union {NULL}
      BY DEF Words, Keys
    <3> QED BY <3>1 DEF NoLocals, Locals
  <2>1. NoLocals \in Locals /\ NoRover \in Rovers
    BY <2>0 DEF NoRover, Rovers
  <2>2. Cardinality(Filled) \in Nat
    <3>1. \A h, k \in Filled : h % InitSize = k % InitSize => h = k
      BY HashtableAssumption
    <3> DEFINE f == [h \in Filled |-> h % InitSize]
    <3>2. f \in Injection(Filled, 0 .. InitSize - 1)
      <4>1. f \in [Filled -> 0 .. InitSize - 1]
        BY DEF Keys
      <4>2. \A h, k \in Filled : f[h] = f[k] => h = k
        BY <3>1
      <4> HIDE DEF f
      <4> QED BY <4>1, <4>2 DEF Injection, IsInjective
    <3>3. IsFiniteSet(0 .. InitSize - 1)
      BY FS_Interval
    <3> HIDE DEF f
    <3>4. IsFiniteSet(Filled)
      BY <3>2, <3>3, FS_Injection
    <3> QED BY <3>4, FS_CardinalityType
  <2>3. n_hashs \in [Gens -> Nat] /\ freed \in [Gens -> Nat]
    BY <1>2, <2>2
  <2>4. TableTypes
    BY <1>1, <1>2, <2>3 DEF TableTypes
  <2>5. ThreadTypes
    BY <1>2, <2>1 DEF ThreadTypes, Labels, NoLocals
  <2>6. CallerTypes
    BY <1>2, <2>1 DEF CallerTypes, Answers
  <2> QED BY <2>4, <2>5, <2>6 DEF TypeInv
<1>4. SlotInv
  <2>1. ASSUME NEW g \in Gens, NEW i \in Slots
        PROVE  /\ value[g][i] # NULL \/ sealed[g][i] => hash[g][i] # NO_HASH
               /\ sealed[g][i] => frozen[g][i]
               /\ i >= size[g] => hash[g][i] = NO_HASH /\ ~frozen[g][i]
    <3>1. ASSUME hash[g][i] # NO_HASH PROVE i < InitSize /\ size[g] = InitSize /\ i \in Nat
      <4>1. g = 0 /\ hash[g][i] \in Nat /\ Probe(InitSize, hash[g][i], 0) = i
        BY <1>1, <3>1
      <4>2. Probe(InitSize, hash[g][i], 0) \in 0 .. InitSize - 1
        BY <4>1, Probes
      <4> QED BY <1>1, <4>1, <4>2
    <3>2. ~frozen[g][i] /\ ~sealed[g][i] /\ (value[g][i] # NULL => hash[g][i] # NO_HASH)
      BY <1>1
    <3>3. i >= size[g] => hash[g][i] = NO_HASH
      BY <3>1
    <3> QED BY <3>2, <3>3
  <2>2. \A g \in Gens : \A i, j \in Slots : hash[g][i] = hash[g][j] /\ hash[g][i] # NO_HASH => i = j
    BY <1>1
  <2>3. ASSUME NEW g \in Gens, NEW i \in Index(g), NEW k \in Index(g),
               hash[g][i] # NO_HASH, Probe(size[g], hash[g][i], k) = i
        PROVE  \A j \in 0 .. k - 1 : hash[g][Probe(size[g], hash[g][i], j)] # NO_HASH
    <3>1. i \in Slots /\ size[g] \in Nat /\ k \in 0 .. size[g] - 1
      BY <1>1 DEF Index, Slots
    <3>2. g = 0 /\ hash[g][i] \in Nat /\ Probe(InitSize, hash[g][i], 0) = i /\ size[g] = InitSize
      BY <1>1, <2>3, <3>1
    <3>3. \A m, n \in 0 .. InitSize - 1 :
             Probe(InitSize, hash[g][i], m) = Probe(InitSize, hash[g][i], n) => m = n
      <4>1. \A h \in Nat : \A m, n \in 0 .. InitSize - 1 :
               Probe(InitSize, h, m) = Probe(InitSize, h, n) => m = n
        BY Probes
      <4> QED BY <3>2, <4>1
    <3>4. k = 0
      BY <2>3, <3>1, <3>2, <3>3
    <3> QED BY <3>4
  <2> QED BY <2>1, <2>2, <2>3 DEF SlotInv
<1>5. GenInv
  <2>1. ASSUME NEW g \in Gens
        PROVE  /\ g <= storage => size[g] # 0
               /\ size[g] # 0 => g <= storage + 1
               /\ freed[g] = IF g < storage THEN 1 ELSE 0
               /\ ~(g < storage)
    <3>1. g \in Nat /\ storage = 0 /\ size[g] = (IF g = 0 THEN InitSize ELSE 0) /\ freed[g] = 0
      BY <1>1, <1>2, ConstFacts DEF Gens
    <3> QED BY <3>1
  <2>2. ASSUME NEW g \in Gens, NEW i \in Slots
        PROVE  ~frozen[g][i] /\ value[g][i] # TOMB
    BY <1>1
  <2> QED BY <2>1, <2>2 DEF GenInv
<1>6. ContentInv
  <2>1. ASSUME NEW h \in Hashes, content[h] # NULL
        PROVE  \E j \in Slots : hash[storage][j] = h /\ value[storage][j] = content[h]
    <3>1. h \in Filled /\ content[h] = FillValue
      BY <1>2, <2>1
    <3>2. Probe(InitSize, h, 0) \in Slots /\ hash[0][Probe(InitSize, h, 0)] = h
      BY <1>1, <3>1
    <3>3. value[0][Probe(InitSize, h, 0)] = FillValue
      <4>1. h # NO_HASH
        OBVIOUS
      <4> QED BY <1>1, <3>2, <4>1
    <3> QED BY <1>1, <3>1, <3>2, <3>3
  <2>2. ASSUME NEW j \in Slots, value[storage][j] \in Values
        PROVE  content[hash[storage][j]] = value[storage][j]
    <3>1. hash[0][j] # NO_HASH /\ value[0][j] = FillValue
      BY <1>1, <2>2
    <3>2. hash[0][j] \in Filled
      BY <1>1, <3>1
    <3> QED BY <1>1, <1>2, <3>1, <3>2
  <2>3. ASSUME storage < MaxGen, NEW i \in Slots PROVE value[storage + 1][i] = NULL
    <3>1. storage + 1 \in Gens /\ storage + 1 # 0
      BY <1>1, <2>3 DEF Gens
    <3> QED BY <1>1, <3>1
  <2> QED BY <2>1, <2>2, <2>3 DEF ContentInv
<1>7. ASSUME NEW t \in Threads PROVE Placed(t, pc[t], my[t], rover[t].index)
  <2>1. pc[t] = "idle" /\ my[t].call = Idle /\ my[t].p = 0 /\ my[t].then = "value"
    BY <1>2 DEF NoLocals
  <2> QED BY <1>1, <2>1 DEF Placed, CallAt, ProbeAt, CopyAt, Copies, Claims, Owns
<1> QED BY <1>3, <1>4, <1>5, <1>6, <1>7 DEF IInv
-----------------------------------------------------------------------------

(* Nothing is taken back: a claimed slot keeps its hash, a frozen one its  *)
(* hash word, a sealed one its value word, and NULL does not come back.    *)
Forward ==
    /\ storage <= storage'
    /\ \A g \in Gens :
         /\ size[g] # 0 => size'[g] = size[g]
         /\ \A i \in Slots :
              /\ hash[g][i] # NO_HASH => hash'[g][i] = hash[g][i]
              /\ frozen[g][i] => frozen'[g][i] /\ hash'[g][i] = hash[g][i]
              /\ sealed[g][i] => sealed'[g][i] /\ value'[g][i] = value[g][i]
              /\ value[g][i] # NULL => value'[g][i] # NULL

LEMMA SettledKept ==
    ASSUME Forward, NEW g \in Gens, NEW h, h # NO_HASH, Settled(g, h)
    PROVE  Settled(g, h)'
<1>1. PICK j \in Slots : hash[g][j] = h /\ value[g][j] # NULL
  BY DEF Settled
<1>2. hash'[g][j] = h /\ value'[g][j] # NULL
  BY <1>1 DEF Forward
<1> QED BY <1>2 DEF Settled

LEMMA DoneKept ==
    ASSUME Forward, NEW g \in Gens, g + 1 \in Gens, NEW i \in Slots, Done(g, i)
    PROVE  Done(g, i)'
<1>1. frozen[g][i] /\ frozen'[g][i] /\ hash'[g][i] = hash[g][i]
  BY DEF Forward, Done
<1>2. ASSUME hash[g][i] # NO_HASH
      PROVE  /\ sealed'[g][i]
             /\ value'[g][i] \in Values =>
                  \E j \in Slots : hash'[g + 1][j] = hash[g][i] /\ value'[g + 1][j] # NULL
  <2>1. sealed[g][i] /\ (value[g][i] \in Values => Settled(g + 1, hash[g][i]))
    BY <1>2 DEF Done
  <2>2. sealed'[g][i] /\ value'[g][i] = value[g][i]
    BY <2>1 DEF Forward
  <2>3. ASSUME value[g][i] \in Values
        PROVE  \E j \in Slots : hash'[g + 1][j] = hash[g][i] /\ value'[g + 1][j] # NULL
    <3>1. PICK j \in Slots : hash[g + 1][j] = hash[g][i] /\ value[g + 1][j] # NULL
      BY <2>1, <2>3 DEF Settled
    <3>2. hash'[g + 1][j] = hash[g + 1][j] /\ value'[g + 1][j] # NULL
      BY <1>2, <3>1 DEF Forward
    <3> QED BY <3>1, <3>2
  <2> QED BY <2>2, <2>3
<1> QED BY <1>1, <1>2 DEF Done, Settled

(* What is known of a thread's place stays true, whatever other threads do *)
(* to the table.                                                           *)
LEMMA Kept ==
    ASSUME IInv, Forward, TableTypes', NEW t \in Threads,
           NEW l, l = pc[t], NEW m, m = my[t], NEW x, x = rover[t].index
    PROVE  CallAt(t, l, m, x)' /\ ProbeAt(l, m)' /\ CopyAt(l, m)'
<1>1. /\ CallAt(t, l, m, x) /\ ProbeAt(l, m) /\ CopyAt(l, m)
      /\ m \in Locals /\ x \in Nat /\ m.p \in Gens /\ m.p \in Nat /\ m.i \in Nat
      /\ storage \in Nat /\ m.p <= storage /\ size[m.p] \in Nat /\ size[m.p] > 0
      /\ TableTypes /\ GenInv
  BY Basics
<1>2. storage' \in Nat /\ storage <= storage'
  <2>1. storage' \in Gens /\ storage <= storage'
    BY DEF TableTypes, Forward
  <2> QED BY <2>1 DEF Gens
<1>3. size'[m.p] = size[m.p]
  BY <1>1 DEF Forward
<1>4. \A j : j \in Nat /\ j < size[m.p] => j \in Slots
  BY <1>1, Numbers
<1>5. CallAt(t, l, m, x)'
  <2>1. ASSUME l = "enum_value" PROVE hash'[m.p][x - 1] # NO_HASH
    <3>1. x >= 1 /\ x <= size[m.p] /\ hash[m.p][x - 1] # NO_HASH
      BY <1>1, <2>1 DEF CallAt
    <3>2. x - 1 \in Slots
      BY <1>1, <1>4, <3>1
    <3> QED BY <1>1, <3>1, <3>2 DEF Forward
  <2>2. m.p <= storage'
    BY <1>1, <1>2
  <2> QED BY <1>1, <1>3, <2>1, <2>2 DEF CallAt, Owns, Claims
<1>6. ProbeAt(l, m)'
  <2>1. ASSUME Probing(l)
        PROVE  /\ m.d \in Gens /\ size[m.d] \in Nat /\ size[m.d] > 0 /\ size'[m.d] = size[m.d]
               /\ KeyOf(m) \in Hashes /\ SlotOf(m) \in Slots /\ m.at \in Nat
    <3>1. Probing(pc[t]) /\ m.d \in Gens /\ m.at \in Nat
      BY <2>1, Basics
    <3>2. /\ size[m.d] \in Nat /\ size[m.d] > 0
          /\ KeyOf(m) \in Hashes /\ SlotOf(m) \in Slots
      BY <3>1, Addressed
    <3> QED BY <3>1, <3>2 DEF Forward
  <2>2. ASSUME l \in {"look_hash", "rem_hash", "claim", "claim_cas"}
        PROVE  m.at <= size'[m.d] /\ Passed(m.d, KeyOf(m), m.at)'
    <3>1. /\ m.d \in Gens /\ size[m.d] \in Nat /\ size[m.d] > 0 /\ size'[m.d] = size[m.d]
          /\ KeyOf(m) \in Nat /\ m.at \in Nat
      BY <2>1, <2>2, ConstFacts DEF Probing
    <3>2. m.at <= size[m.d] /\ Passed(m.d, KeyOf(m), m.at)
      BY <1>1, <2>2 DEF ProbeAt
    <3>3. ASSUME NEW k \in 0 .. m.at - 1
          PROVE  hash'[m.d][Probe(size'[m.d], KeyOf(m), k)] \notin {NO_HASH, KeyOf(m)}
      <4> DEFINE i == Probe(size[m.d], KeyOf(m), k)
      <4>1. hash[m.d][i] \notin {NO_HASH, KeyOf(m)}
        BY <3>2 DEF Passed
      <4>2. i \in 0 .. size[m.d] - 1
        <5>1. \A n \in Nat : Probe(size[m.d], KeyOf(m), n) \in 0 .. size[m.d] - 1
          BY <3>1, Probes
        <5> QED BY <5>1
      <4>3. i \in Slots
        BY <1>1, <3>1, <4>2, Numbers
      <4>4. hash'[m.d][i] = hash[m.d][i]
        <5>1. hash[m.d][i] # NO_HASH
          BY <4>1
        <5> QED BY <3>1, <4>3, <5>1 DEF Forward
      <4> QED BY <3>1, <4>1, <4>4
    <3> QED BY <3>1, <3>2, <3>3 DEF Passed
  <2>3. ASSUME l \in {"look_value", "rem_cas", "claim_inc", "value", "value_cas", "carry"}
        PROVE  hash'[m.d][SlotOf(m)'] = KeyOf(m)
    <3>1. /\ m.d \in Gens /\ size'[m.d] = size[m.d] /\ KeyOf(m) \in Hashes /\ SlotOf(m) \in Slots
      BY <2>1, <2>3 DEF Probing
    <3>2. hash[m.d][SlotOf(m)] = KeyOf(m) /\ KeyOf(m) # NO_HASH
      BY <1>1, <2>3, <3>1, ConstFacts DEF ProbeAt
    <3>3. SlotOf(m)' = SlotOf(m)
      BY <3>1 DEF SlotOf, KeyOf
    <3> QED BY <3>1, <3>2, <3>3 DEF Forward
  <2>4. KeyOf(m)' = KeyOf(m)
    BY DEF KeyOf
  <2>5. /\ ~Claims(l) /\ l # "carry" => m.then = "value"
        /\ l = "carry" => m.then = "carry"
        /\ l \in {"look_hash", "look_value", "rem_hash", "rem_cas"} \/ Owns(l, m) => m.d = m.p
        /\ l = "check" => m.at = 0
        /\ l = "value_cas" => m.expect \notin Values
    BY <1>1 DEF ProbeAt
  <2> QED BY <2>2, <2>3, <2>4, <2>5 DEF ProbeAt, Owns, Claims
<1>7. CopyAt(l, m)'
  <2>1. ASSUME Copies(l, m) \/ l = "swap"
        PROVE  HasNext(m.p)' /\ \A j \in 0 .. m.i - 1 : Done(m.p, j)'
    <3>1. HasNext(m.p) /\ \A j \in 0 .. m.i - 1 : Done(m.p, j)
      BY <1>1, <2>1 DEF CopyAt
    <3>2. m.p + 1 \in Gens /\ size[m.p + 1] # 0 /\ m.p < MaxGen
      BY <1>1, <3>1, Numbers DEF HasNext
    <3>3. HasNext(m.p)'
      BY <3>2 DEF HasNext, Forward
    <3>4. m.i <= size[m.p]
      BY <1>1, <2>1 DEF CopyAt
    <3>5. ASSUME NEW j \in 0 .. m.i - 1 PROVE Done(m.p, j)'
      <4>1. j \in Slots
        BY <1>1, <1>4, <3>4
      <4> QED BY <1>1, <3>1, <3>2, <4>1, DoneKept
    <3> QED BY <3>3, <3>5
  <2>2. Copies(l, m) => m.i < size'[m.p] /\ m.i \in Slots
    BY <1>1, <1>3, <1>4 DEF CopyAt
  <2>3. l = "swap" => m.i = size'[m.p]
    BY <1>1, <1>3 DEF CopyAt
  <2>4. ASSUME l \in {"seal", "seal_cas"} \/ m.then = "carry"
        PROVE  m.ch = hash'[m.p][m.i] /\ m.ch # NO_HASH /\ frozen'[m.p][m.i]
    <3>1. m.ch = hash[m.p][m.i] /\ m.ch # NO_HASH /\ frozen[m.p][m.i] /\ m.i \in Slots
      BY <1>1, <2>2, <2>4 DEF CopyAt, Copies
    <3> QED BY <1>1, <3>1 DEF Forward
  <2>5. ASSUME m.then = "carry"
        PROVE  sealed'[m.p][m.i] /\ value'[m.p][m.i] = m.cv /\ m.cv \in Values /\ m.d = m.p + 1
    <3>1. sealed[m.p][m.i] /\ value[m.p][m.i] = m.cv /\ m.cv \in Values /\ m.d = m.p + 1 /\ m.i \in Slots
      BY <1>1, <2>2, <2>5 DEF CopyAt, Copies
    <3> QED BY <1>1, <3>1 DEF Forward
  <2> QED BY <2>1, <2>2, <2>3, <2>4, <2>5 DEF CopyAt, Copies
<1> QED BY <1>5, <1>6, <1>7

(* The thread that makes a step goes to label l with the locals m. *)
Moves(t, l, m) == pc' = [pc EXCEPT ![t] = l] /\ my' = [my EXCEPT ![t] = m]

LEMMA Moved ==
    ASSUME ThreadTypes, NEW t \in Threads, NEW l \in Labels, NEW m \in Locals,
           m.call \in Calls[t] \union {Idle}, Moves(t, l, m)
    PROVE  /\ ThreadTypes' /\ pc'[t] = l /\ my'[t] = m
           /\ \A u \in Threads \ {t} : pc'[u] = pc[u] /\ my'[u] = my[u]
  BY DEF ThreadTypes, Moves

(* The same locals, but for what the map held. *)
Alike(m, n) ==
    /\ m.call = n.call /\ m.p = n.p /\ m.d = n.d /\ m.at = n.at /\ m.then = n.then
    /\ m.expect = n.expect /\ m.i = n.i /\ m.ch = n.ch /\ m.cv = n.cv

(* A step that changes the table: it remains to look at the thread itself. *)
LEMMA TableStep ==
    ASSUME IInv, Forward, TypeInv', SlotInv', GenInv', ContentInv',
           NEW t \in Threads, NEW l, NEW m, NEW x,
           pc'[t] = l, my'[t] = m, rover'[t].index = x,
           \A u \in Threads \ {t} :
              pc'[u] = pc[u] /\ Alike(my'[u], my[u]) /\ rover'[u].index = rover[u].index,
           CallAt(t, l, m, x)', ProbeAt(l, m)', CopyAt(l, m)'
    PROVE  IInv'
<1>1. ASSUME NEW u \in Threads \ {t} PROVE Placed(u, pc[u], my[u], rover[u].index)'
  <2>1. PICK k, n, y : k = pc[u] /\ n = my[u] /\ y = rover[u].index
    OBVIOUS
  <2>2. CallAt(u, k, n, y)' /\ ProbeAt(k, n)' /\ CopyAt(k, n)'
    BY <2>1, Kept DEF TypeInv
  <2>3. pc'[u] = k /\ Alike(my'[u], n) /\ rover'[u].index = y
    BY <2>1
  <2>4. CallAt(u, pc[u], my[u], rover[u].index)'
    BY <2>2, <2>3 DEF CallAt, Owns, Claims, Alike
  <2>5. ProbeAt(pc[u], my[u])'
    BY <2>2, <2>3 DEF ProbeAt, Owns, Claims, KeyOf, SlotOf, Passed, Alike
  <2>6. CopyAt(pc[u], my[u])'
    BY <2>2, <2>3 DEF CopyAt, Copies, Alike
  <2> QED BY <2>4, <2>5, <2>6 DEF Placed
<1>2. Placed(t, pc[t], my[t], rover[t].index)'
  <2>1. CallAt(t, pc[t], my[t], rover[t].index)'
    BY DEF CallAt, Owns, Claims
  <2>2. ProbeAt(pc[t], my[t])'
    BY DEF ProbeAt, Owns, Claims, KeyOf, SlotOf, Passed
  <2>3. CopyAt(pc[t], my[t])'
    BY DEF CopyAt, Copies
  <2> QED BY <2>1, <2>2, <2>3 DEF Placed
<1> QED BY <1>1, <1>2 DEF IInv

(* A step that does not. *)
LEMMA LocalStep ==
    ASSUME IInv, UNCHANGED <<world, words, content>>, CallerTypes',
           NEW t \in Threads, NEW l \in Labels, NEW m \in Locals, NEW x,
           m.call \in Calls[t] \union {Idle}, Moves(t, l, m), rover'[t].index = x,
           \A u \in Threads \ {t} : rover'[u].index = rover[u].index,
           CallAt(t, l, m, x), ProbeAt(l, m), CopyAt(l, m)
    PROVE  IInv'
<1>1. TableTypes /\ ThreadTypes /\ SlotInv /\ GenInv /\ ContentInv
  BY Basics
<1>2. UNCHANGED <<storage, size, freed, hash, frozen, value, sealed, n_hashs, content>>
  BY DEF world, words
<1>3. TableTypes'
  BY <1>1, <1>2 DEF TableTypes
<1>4. /\ ThreadTypes' /\ pc'[t] = l /\ my'[t] = m
      /\ \A u \in Threads \ {t} : pc'[u] = pc[u] /\ my'[u] = my[u]
  BY <1>1, Moved
<1>5. SlotInv'
  BY <1>1, <1>2 DEF SlotInv, Index
<1>6. GenInv'
  BY <1>1, <1>2 DEF GenInv, Index, Done, Settled, HasNext
<1>7. ContentInv'
  BY <1>1, <1>2 DEF ContentInv
<1>8. storage \in Nat
  BY Basics
<1>9. Forward
  BY <1>2, <1>8 DEF Forward
<1>10. CallAt(t, l, m, x)'
  BY <1>2 DEF CallAt, Owns, Claims
<1>11. ProbeAt(l, m)'
  BY <1>2 DEF ProbeAt, Owns, Claims, KeyOf, SlotOf, Passed
<1>12. CopyAt(l, m)'
  BY <1>2 DEF CopyAt, Copies, Done, Settled, HasNext
<1>13. \A u \in Threads \ {t} :
         pc'[u] = pc[u] /\ Alike(my'[u], my[u]) /\ rover'[u].index = rover[u].index
  BY <1>4 DEF Alike
<1> QED BY <1>3, <1>4, <1>5, <1>6, <1>7, <1>9, <1>10, <1>11, <1>12, <1>13, TableStep DEF TypeInv
-----------------------------------------------------------------------------

(* The steps that read *)

(* A thread that returns is nowhere. *)
LEMMA Nowhere ==
    ASSUME IInv, NEW t \in Threads, NEW x
    PROVE  /\ NoLocals \in Locals /\ NoLocals.call = Idle
           /\ CallAt(t, "idle", NoLocals, x) /\ ProbeAt("idle", NoLocals) /\ CopyAt("idle", NoLocals)
<1>1. NULL \in Words /\ NO_HASH \in Keys /\ NULL \in Values \union {NULL} /\ 0 \in Gens
  BY ConstFacts DEF Words, Keys
<1>2. NoLocals \in Locals
  BY <1>1 DEF NoLocals, Locals
<1>3. NoLocals.call = Idle /\ NoLocals.p = 0 /\ NoLocals.then = "value"
  BY DEF NoLocals
<1>4. storage \in Nat
  BY Basics
<1> QED BY <1>2, <1>3, <1>4 DEF CallAt, ProbeAt, CopyAt, Owns, Claims, Copies

LEMMA ReturnStep ==
    ASSUME IInv, NEW t \in Threads, NEW a \in Answers, Return(t, a),
           UNCHANGED <<world, words, content, calls>>, rover' \in [Threads -> Rovers],
           \A u \in Threads \ {t} : rover'[u].index = rover[u].index
    PROVE  IInv'
<1>1. Moves(t, "idle", NoLocals) /\ answer' = [answer EXCEPT ![t] = a]
  BY DEF Return, Answer, Goto, Moves
<1>2. CallerTypes'
  BY <1>1, Basics DEF CallerTypes
<1>3. PICK x : x = rover'[t].index
  OBVIOUS
<1>4. /\ NoLocals \in Locals /\ NoLocals.call = Idle
      /\ CallAt(t, "idle", NoLocals, x) /\ ProbeAt("idle", NoLocals) /\ CopyAt("idle", NoLocals)
  BY Nowhere
<1>5. "idle" \in Labels
  BY DEF Labels
<1> QED BY <1>1, <1>2, <1>3, <1>4, <1>5, LocalStep

(* A thread that goes on to label l with the locals m, and no more. *)
LEMMA Onward ==
    ASSUME IInv, NEW t \in Threads, NEW l \in Labels, NEW m \in Locals,
           m.call = my[t].call, Moves(t, l, m),
           UNCHANGED <<world, words, rover, answer, content, calls>>,
           CallAt(t, l, m, rover[t].index), ProbeAt(l, m), CopyAt(l, m)
    PROVE  IInv'
<1>1. CallerTypes'
  BY Basics DEF CallerTypes
<1>2. m.call \in Calls[t] \union {Idle} /\ rover'[t].index = rover[t].index
  BY Basics
<1>3. PICK x : x = rover[t].index
  OBVIOUS
<1> QED BY <1>1, <1>2, <1>3, LocalStep

(* It keeps its locals. *)
LEMMA Stays ==
    ASSUME ThreadTypes, NEW t \in Threads, NEW l, Goto(t, l), UNCHANGED my
    PROVE  Moves(t, l, my[t]) /\ my[t] \in Locals
  BY DEF ThreadTypes, Goto, Moves

LEMMA CallStep ==
    ASSUME IInv, NEW t \in Threads, NEW c \in Calls[t], Call(t, c)
    PROVE  IInv'
<1>1. /\ c \in AllCalls
      /\ c.op \in {"insert", "register", "remove", "lookup", "next", "migrate"}
      /\ c.op \notin {"next", "migrate"} => c.hash \in Hashes
  BY CallFacts
<1> DEFINE s == IF c.op \in {"next", "migrate"} THEN {} ELSE {content[c.hash]}
           m == [NoLocals EXCEPT !.call = c, !.seen = s]
<1>2. s \in SUBSET (Values \union {NULL})
  BY <1>1, Basics DEF TableTypes
<1>3. NoLocals \in Locals
  BY Nowhere
<1> HIDE DEF s
<1>4. m \in Locals /\ m.call = c /\ m.p = 0 /\ m.then = "value"
  BY <1>1, <1>2, <1>3 DEF Locals, NoLocals
<1>5. Moves(t, "load", m)
  BY DEF Call, Goto, Moves, s
<1> HIDE DEF m
<1>6. CallerTypes'
  <2>1. rover' = rover /\ calls' = calls + 1 /\ calls < MaxCalls
        /\ answer' = [answer EXCEPT ![t] = IF c.op = "migrate" THEN @ ELSE Idle]
    BY DEF Call
  <2>2. calls' \in 0 .. MaxCalls
    BY <2>1, Basics, ConstFacts DEF CallerTypes
  <2> QED BY <2>1, <2>2, Basics DEF CallerTypes, Answers
<1>7. UNCHANGED <<world, words, content, rover>>
  BY DEF Call
<1>8. PICK x : x = rover[t].index
  OBVIOUS
<1>9. CallAt(t, "load", m, x) /\ ProbeAt("load", m) /\ CopyAt("load", m)
  BY <1>4, Basics DEF CallAt, ProbeAt, CopyAt, Owns, Claims, Copies
<1>10. "load" \in Labels
  BY DEF Labels
<1> QED BY <1>4, <1>5, <1>6, <1>7, <1>8, <1>9, <1>10, LocalStep

LEMMA EnumerateStep ==
    ASSUME IInv, NEW t \in Threads, Enumerate(t)
    PROVE  IInv'
<1>1. /\ pc[t] = "idle" /\ UNCHANGED <<world, words, pc, my, answer, content, calls>>
      /\ rover' = [rover EXCEPT ![t] = [NoRover EXCEPT
                     !.on = TRUE, !.stay = {h \in Hashes : content[h] # NULL}]]
  BY DEF Enumerate
<1> DEFINE r == [NoRover EXCEPT !.on = TRUE, !.stay = {h \in Hashes : content[h] # NULL}]
<1>2. r \in Rovers /\ r.index = 0
  BY DEF NoRover, Rovers
<1> HIDE DEF r
<1>3. rover \in [Threads -> Rovers]
  BY Basics DEF CallerTypes
<1>4. /\ rover' \in [Threads -> Rovers] /\ rover'[t].index = 0
      /\ \A u \in Threads \ {t} : rover'[u].index = rover[u].index
  BY <1>1, <1>2, <1>3 DEF r
<1>5. CallerTypes'
  BY <1>1, <1>4, Basics DEF CallerTypes
<1>6. Moves(t, pc[t], my[t])
  BY <1>1, Basics DEF ThreadTypes, Moves
<1>7. CallAt(t, pc[t], my[t], 0) /\ ProbeAt(pc[t], my[t]) /\ CopyAt(pc[t], my[t])
  BY <1>1, Basics DEF CallAt
<1>8. pc[t] \in Labels /\ my[t] \in Locals /\ my[t].call \in Calls[t] \union {Idle}
  BY Basics
<1>9. PICK l \in Labels, m \in Locals : l = pc[t] /\ m = my[t]
  BY <1>8
<1> QED BY <1>1, <1>4, <1>5, <1>6, <1>7, <1>8, <1>9, LocalStep

LEMMA LoadStep ==
    ASSUME IInv, NEW t \in Threads, Load(t)
    PROVE  IInv'
<1>1. pc[t] = "load" /\ UNCHANGED <<world, words, content, calls>>
  BY DEF Load
<1>2. my[t].call \in Calls[t] /\ my[t].then = "value"
  BY <1>1, Basics DEF CallAt, ProbeAt, Claims
<1>3. my[t].call.op \in {"insert", "register", "remove", "lookup", "next", "migrate"}
  BY <1>2, CallFacts
<1>4. rover \in [Threads -> Rovers] /\ answer \in [Threads -> Answers] /\ storage \in Gens
  BY Basics DEF CallerTypes
<1>5. CASE Return(t, "ECANCELED") /\ rover' = [rover EXCEPT ![t].on = FALSE]
  <2>1. rover' = [rover EXCEPT ![t] = [rover[t] EXCEPT !.on = FALSE]]
    BY <1>5
  <2>2. [rover[t] EXCEPT !.on = FALSE] \in Rovers
    BY <1>4 DEF Rovers
  <2>3. rover' \in [Threads -> Rovers] /\ \A u \in Threads \ {t} : rover'[u].index = rover[u].index
    BY <1>4, <2>1, <2>2
  <2>4. "ECANCELED" \in Answers
    BY DEF Answers
  <2> QED BY <1>1, <1>5, <2>3, <2>4, ReturnStep
<1>6. CASE /\ my' = [my EXCEPT ![t].p = storage, ![t].d = storage, ![t].at = 0, ![t].then = "value"]
           /\ rover' = IF my[t].call.op = "next" THEN [rover EXCEPT ![t].storage = storage] ELSE rover
           /\ Goto(t, CASE my[t].call.op \in {"insert", "register"} -> "check"
                        [] my[t].call.op = "remove" -> "rem_hash"
                        [] my[t].call.op = "lookup" -> "look_hash"
                        [] my[t].call.op = "migrate" -> "mig_next"
                        [] my[t].call.op = "next" -> "enum_hash")
           /\ UNCHANGED answer
  <2> DEFINE m == [my[t] EXCEPT !.p = storage, !.d = storage, !.at = 0, !.then = "value"]
  <2>1. m \in Locals /\ m.call = my[t].call /\ m.p = storage /\ m.d = storage /\ m.at = 0 /\ m.then = "value"
    BY <1>4, Basics DEF Locals
  <2>2. PICK l \in Labels :
          /\ Goto(t, l)
          /\ l \in {"check", "rem_hash", "look_hash", "mig_next", "enum_hash"}
          /\ l = "check" => my[t].call.op \in {"insert", "register"}
          /\ l = "rem_hash" => my[t].call.op = "remove"
          /\ l = "look_hash" => my[t].call.op = "lookup"
          /\ l = "enum_hash" => my[t].call.op = "next"
    BY <1>3, <1>6 DEF Labels
  <2>3. my' = [my EXCEPT ![t] = m]
    BY <1>6
  <2> HIDE DEF m
  <2>4. Moves(t, l, m)
    BY <2>2, <2>3 DEF Goto, Moves
  <2>5. [rover[t] EXCEPT !.storage = storage] \in Rovers
    BY <1>4 DEF Rovers
  <2>6. /\ rover' \in [Threads -> Rovers]
        /\ \A u \in Threads : rover'[u].index = rover[u].index
    <3>1. CASE my[t].call.op = "next"
      <4>1. rover' = [rover EXCEPT ![t] = [rover[t] EXCEPT !.storage = storage]]
        BY <1>6, <3>1
      <4>2. [rover[t] EXCEPT !.storage = storage].index = rover[t].index
        BY <1>4 DEF Rovers
      <4> QED BY <1>4, <2>5, <4>1, <4>2
    <3>2. CASE my[t].call.op # "next"
      BY <1>4, <1>6, <3>2
    <3> QED BY <3>1, <3>2
  <2>7. CallerTypes'
    BY <1>1, <1>6, <2>6, Basics DEF CallerTypes
  <2>8. PICK x : x = rover'[t].index
    OBVIOUS
  <2>9. CallAt(t, l, m, x)
    BY <1>2, <2>1, <2>2, Basics DEF CallAt, Owns, Claims
  <2>10. ProbeAt(l, m)
    <3>1. size[storage] >= 0
      BY Basics, Numbers
    <3>2. Passed(m.d, KeyOf(m), 0)
      BY DEF Passed
    <3> QED BY <2>1, <2>2, <3>1, <3>2 DEF ProbeAt, Owns, Claims
  <2>11. CopyAt(l, m)
    BY <2>1, <2>2 DEF CopyAt, Copies
  <2>12. m.call \in Calls[t] \union {Idle}
    BY <1>2, <2>1
  <2> QED BY <1>1, <2>1, <2>4, <2>6, <2>7, <2>8, <2>9, <2>10, <2>11, <2>12, LocalStep
<1> QED BY <1>5, <1>6 DEF Load

LEMMA CheckStep ==
    ASSUME IInv, NEW t \in Threads, Check(t)
    PROVE  IInv'
<1>1. /\ pc[t] = "check" /\ UNCHANGED <<world, words, my, rover, answer, content, calls>>
  BY DEF Check
<1>2. PICK l \in {"mig_next", "claim"} : Goto(t, l)
  BY DEF Check
<1>3. l \in Labels
  BY DEF Labels
<1>4. Moves(t, l, my[t]) /\ my[t] \in Locals
  BY <1>1, <1>2, Basics, Stays
<1>5. /\ my[t].then = "value" /\ my[t].d = my[t].p /\ my[t].at = 0
      /\ my[t].call \in Calls[t] /\ my[t].call.op \in {"insert", "register"}
  BY <1>1, Basics DEF CallAt, ProbeAt, Owns, Claims
<1>6. CallAt(t, l, my[t], rover[t].index)
  BY <1>2, <1>5, Basics DEF CallAt, Owns, Claims
<1>7. ProbeAt(l, my[t])
  <2>1. Passed(my[t].d, KeyOf(my[t]), 0)
    BY DEF Passed
  <2> QED BY <1>2, <1>5, <2>1, Basics DEF ProbeAt, Owns, Claims
<1>8. CopyAt(l, my[t])
  BY <1>2, <1>5 DEF CopyAt, Copies
<1> QED BY <1>1, <1>3, <1>4, <1>6, <1>7, <1>8, Onward

(* A probe moves on. *)
LEMMA ProbeOn ==
    ASSUME IInv, NEW t \in Threads, pc[t] \in {"look_hash", "rem_hash", "claim", "claim_cas"},
           hash[my[t].d][SlotOf(my[t])] \notin {NO_HASH, KeyOf(my[t])},
           ProbeNext(t, my[t].d)
    PROVE  \E m \in Locals :
              /\ my' = [my EXCEPT ![t] = m]
              /\ m = [my[t] EXCEPT !.at = m.at]
              /\ m.at <= size[m.d] /\ Passed(m.d, KeyOf(m), m.at)
<1> DEFINE n == (my[t].at % size[my[t].d]) + 1
           m == [my[t] EXCEPT !.at = n]
<1>1. /\ size[my[t].d] > 0 /\ size[my[t].d] \in Nat /\ KeyOf(my[t]) \in Hashes
      /\ SlotOf(my[t]) = Probe(size[my[t].d], KeyOf(my[t]), my[t].at)
  BY Addressed DEF Probing
<1>2. my[t].at <= size[my[t].d] /\ Passed(my[t].d, KeyOf(my[t]), my[t].at)
  BY Basics DEF ProbeAt
<1>3. TableTypes /\ my[t].d \in Gens /\ my[t].at \in Nat /\ my[t] \in Locals
  BY Basics
<1>4. n \in Nat /\ n <= size[my[t].d] /\ Passed(my[t].d, KeyOf(my[t]), n)
  BY <1>1, <1>2, <1>3, PassOn
<1>5. my' = [my EXCEPT ![t] = m]
  BY DEF ProbeNext
<1> HIDE DEF n
<1>6. m \in Locals /\ m.d = my[t].d /\ m.at = n /\ KeyOf(m) = KeyOf(my[t])
  BY <1>3, <1>4 DEF Locals, KeyOf
<1> QED BY <1>4, <1>5, <1>6

LEMMA LookHashStep ==
    ASSUME IInv, NEW t \in Threads, LookHash(t)
    PROVE  IInv'
<1>1. pc[t] = "look_hash" /\ UNCHANGED <<world, words, rover, content, calls>>
  BY DEF LookHash
<1>2. /\ my[t].d = my[t].p /\ my[t].then = "value"
      /\ Slot(t, my[t].p) = SlotOf(my[t]) /\ Key(t) = KeyOf(my[t])
  BY <1>1, Basics, Addressed DEF Probing, ProbeAt, Claims
<1> DEFINE h == hash[my[t].d][SlotOf(my[t])]
<1>3. CASE Return(t, NULL)
  BY <1>1, <1>3, Basics, ReturnStep DEF Answers, CallerTypes
<1>4. CASE h = KeyOf(my[t]) /\ Goto(t, "look_value") /\ UNCHANGED <<my, answer>>
  <2>1. Moves(t, "look_value", my[t]) /\ my[t] \in Locals /\ "look_value" \in Labels
    BY <1>4, Basics, Stays DEF Labels
  <2>2. CallAt(t, "look_value", my[t], rover[t].index)
    BY <1>1, Basics DEF CallAt, Owns, Claims
  <2>3. ProbeAt("look_value", my[t]) /\ CopyAt("look_value", my[t])
    BY <1>2, <1>4 DEF ProbeAt, Owns, Claims, CopyAt, Copies
  <2> QED BY <1>1, <1>4, <2>1, <2>2, <2>3, Onward
<1>5. CASE h \notin {NO_HASH, KeyOf(my[t])} /\ ProbeNext(t, my[t].p) /\ UNCHANGED <<pc, answer>>
  <2>1. PICK m \in Locals :
              /\ my' = [my EXCEPT ![t] = m]
              /\ m = [my[t] EXCEPT !.at = m.at]
              /\ m.at <= size[m.d] /\ Passed(m.d, KeyOf(m), m.at)
    BY <1>1, <1>2, <1>5, ProbeOn
  <2>2. /\ m.call = my[t].call /\ m.p = my[t].p /\ m.d = my[t].d /\ m.then = my[t].then
    BY <2>1, Basics DEF Locals
  <2>3. Moves(t, "look_hash", m) /\ "look_hash" \in Labels
    BY <1>1, <1>5, <2>1, Basics DEF Moves, Labels, ThreadTypes
  <2>4. CallAt(t, "look_hash", m, rover[t].index)
    BY <1>1, <2>2, Basics DEF CallAt, Owns, Claims
  <2>5. ProbeAt("look_hash", m) /\ CopyAt("look_hash", m)
    BY <1>2, <2>1, <2>2 DEF ProbeAt, Owns, Claims, CopyAt, Copies
  <2> QED BY <1>1, <1>5, <2>2, <2>3, <2>4, <2>5, Onward
<1> QED BY <1>2, <1>3, <1>4, <1>5 DEF LookHash

LEMMA LookValueStep ==
    ASSUME IInv, NEW t \in Threads, LookValue(t)
    PROVE  IInv'
<1>1. /\ pc[t] = "look_value" /\ UNCHANGED <<world, words, rover, content, calls>>
      /\ Return(t, IF value[my[t].p][Slot(t, my[t].p)] = TOMB THEN NULL
                   ELSE value[my[t].p][Slot(t, my[t].p)])
  BY DEF LookValue
<1>2. /\ my[t].d = my[t].p
      /\ Slot(t, my[t].p) = SlotOf(my[t]) /\ SlotOf(my[t]) \in Slots
  BY <1>1, Basics, Addressed DEF Probing, ProbeAt, Claims
<1>3. value[my[t].p][SlotOf(my[t])] \in Words
  BY <1>2, Basics DEF TableTypes
<1>4. PICK a \in Answers : Return(t, a)
  BY <1>1, <1>2, <1>3 DEF Words, Answers
<1> QED BY <1>1, <1>4, Basics, ReturnStep DEF CallerTypes

LEMMA RemHashStep ==
    ASSUME IInv, NEW t \in Threads, RemHash(t)
    PROVE  IInv'
<1>1. pc[t] = "rem_hash" /\ UNCHANGED <<world, words, rover, content, calls>>
  BY DEF RemHash
<1>2. /\ my[t].d = my[t].p /\ my[t].then = "value"
      /\ Slot(t, my[t].p) = SlotOf(my[t]) /\ Key(t) = KeyOf(my[t])
      /\ my[t].call \in Calls[t] /\ my[t].call.op = "remove"
  BY <1>1, Basics, Addressed DEF Probing, ProbeAt, Claims, CallAt
<1> DEFINE h == hash[my[t].d][SlotOf(my[t])]
<1>3. CASE Return(t, "ENOENT")
  BY <1>1, <1>3, Basics, ReturnStep DEF Answers, CallerTypes
<1>4. CASE h = KeyOf(my[t]) /\ Goto(t, "rem_cas") /\ UNCHANGED <<my, answer>>
  <2>1. Moves(t, "rem_cas", my[t]) /\ my[t] \in Locals /\ "rem_cas" \in Labels
    BY <1>4, Basics, Stays DEF Labels
  <2>2. CallAt(t, "rem_cas", my[t], rover[t].index)
    BY <1>2, Basics DEF CallAt, Owns, Claims
  <2>3. ProbeAt("rem_cas", my[t]) /\ CopyAt("rem_cas", my[t])
    BY <1>2, <1>4 DEF ProbeAt, Owns, Claims, CopyAt, Copies
  <2> QED BY <1>1, <1>4, <2>1, <2>2, <2>3, Onward
<1>5. CASE h \notin {NO_HASH, KeyOf(my[t])} /\ ProbeNext(t, my[t].p) /\ UNCHANGED <<pc, answer>>
  <2>1. PICK m \in Locals :
              /\ my' = [my EXCEPT ![t] = m]
              /\ m = [my[t] EXCEPT !.at = m.at]
              /\ m.at <= size[m.d] /\ Passed(m.d, KeyOf(m), m.at)
    BY <1>1, <1>2, <1>5, ProbeOn
  <2>2. /\ m.call = my[t].call /\ m.p = my[t].p /\ m.d = my[t].d /\ m.then = my[t].then
    BY <2>1, Basics DEF Locals
  <2>3. Moves(t, "rem_hash", m) /\ "rem_hash" \in Labels
    BY <1>1, <1>5, <2>1, Basics DEF Moves, Labels, ThreadTypes
  <2>4. CallAt(t, "rem_hash", m, rover[t].index)
    BY <1>2, <2>2, Basics DEF CallAt, Owns, Claims
  <2>5. ProbeAt("rem_hash", m) /\ CopyAt("rem_hash", m)
    BY <1>2, <2>1, <2>2 DEF ProbeAt, Owns, Claims, CopyAt, Copies
  <2> QED BY <1>1, <1>5, <2>2, <2>3, <2>4, <2>5, Onward
<1>6. CASE Goto(t, "mig_next") /\ UNCHANGED <<my, answer>>
  <2>1. Moves(t, "mig_next", my[t]) /\ my[t] \in Locals /\ "mig_next" \in Labels
    BY <1>6, Basics, Stays DEF Labels
  <2>2. CallAt(t, "mig_next", my[t], rover[t].index)
    BY <1>2, Basics DEF CallAt, Owns, Claims
  <2>3. ProbeAt("mig_next", my[t]) /\ CopyAt("mig_next", my[t])
    BY <1>2 DEF ProbeAt, Owns, Claims, CopyAt, Copies
  <2> QED BY <1>1, <1>6, <2>1, <2>2, <2>3, Onward
<1> QED BY <1>2, <1>3, <1>4, <1>5, <1>6 DEF RemHash

(* A thread that gives up on its storage helps to migrate it. *)
LEMMA Helps ==
    ASSUME IInv, NEW t \in Threads, my[t].then = "value", pc[t] # "idle",
           Goto(t, "mig_next"), UNCHANGED <<my, answer, rover, world, words, content, calls>>
    PROVE  IInv'
<1>1. Moves(t, "mig_next", my[t]) /\ my[t] \in Locals /\ "mig_next" \in Labels
  BY Basics, Stays DEF Labels
<1>2. CallAt(t, "mig_next", my[t], rover[t].index)
  BY Basics DEF CallAt, Owns, Claims
<1>3. ProbeAt("mig_next", my[t]) /\ CopyAt("mig_next", my[t])
  BY DEF ProbeAt, Owns, Claims, CopyAt, Copies
<1> QED BY <1>1, <1>2, <1>3, Onward

LEMMA ExistsStep ==
    ASSUME IInv, NEW t \in Threads, NEW v \in Words, v # TOMB \/ my[t].call.op = "insert", Exists(t, v),
           UNCHANGED <<rover, world, words, content, calls>>
    PROVE  IInv'
<1>1. PICK a \in Answers : Return(t, a)
  BY DEF Exists, Answers, Words
<1> QED BY <1>1, Basics, ReturnStep DEF CallerTypes

LEMMA ReadValueStep ==
    ASSUME IInv, NEW t \in Threads, ReadValue(t)
    PROVE  IInv'
<1>1. pc[t] = "value" /\ UNCHANGED <<world, words, rover, content, calls>>
  BY DEF ReadValue
<1>2. /\ my[t].d = my[t].p /\ my[t].then = "value"
      /\ Slot(t, my[t].p) = SlotOf(my[t]) /\ SlotOf(my[t]) \in Slots
      /\ hash[my[t].d][SlotOf(my[t])] = KeyOf(my[t])
      /\ my[t].call \in Calls[t] /\ my[t].call.op \in {"insert", "register"}
  BY <1>1, Basics, Addressed DEF Probing, ProbeAt, Claims, CallAt, Owns
<1> DEFINE v == value[my[t].p][SlotOf(my[t])]
<1>3. v \in Words
  BY <1>2, Basics DEF TableTypes
<1> HIDE DEF v
<1>4. CASE Goto(t, "mig_next") /\ UNCHANGED <<my, answer>>
  BY <1>1, <1>2, <1>4, Helps
<1>5. CASE Live(v) /\ Exists(t, v)
  <2>1. v # TOMB
    BY <1>5, ConstFacts DEF Live
  <2> QED BY <1>1, <1>3, <1>5, <2>1, ExistsStep
<1>6. CASE /\ ~Live(v) /\ my' = [my EXCEPT ![t].expect = v]
           /\ Goto(t, "value_cas") /\ UNCHANGED answer
  <2> DEFINE m == [my[t] EXCEPT !.expect = v]
  <2>1. /\ m \in Locals /\ m.call = my[t].call /\ m.p = my[t].p /\ m.d = my[t].d
        /\ m.then = my[t].then /\ m.expect = v /\ m.at = my[t].at /\ KeyOf(m) = KeyOf(my[t])
        /\ SlotOf(m) = SlotOf(my[t])
    BY <1>3, Basics DEF Locals, KeyOf, SlotOf
  <2>2. Moves(t, "value_cas", m) /\ "value_cas" \in Labels
    BY <1>6 DEF Moves, Labels, Goto
  <2> HIDE DEF m
  <2>3. CallAt(t, "value_cas", m, rover[t].index)
    BY <1>2, <2>1, Basics DEF CallAt, Owns, Claims
  <2>4. ProbeAt("value_cas", m)
    BY <1>2, <1>6, <2>1 DEF ProbeAt, Owns, Claims, Live
  <2>5. CopyAt("value_cas", m)
    BY <1>2, <2>1 DEF CopyAt, Copies
  <2> QED BY <1>1, <1>6, <2>1, <2>2, <2>3, <2>4, <2>5, Onward
<1> QED BY <1>2, <1>4, <1>5, <1>6 DEF ReadValue, v

(* The enumerator *)
LEMMA EnumHashStep ==
    ASSUME IInv, NEW t \in Threads, EnumHash(t)
    PROVE  IInv'
<1>1. pc[t] = "enum_hash" /\ UNCHANGED <<world, words, content, calls>>
  BY DEF EnumHash
<1>2. my[t].call \in Calls[t] /\ my[t].call.op = "next" /\ my[t].then = "value"
  BY <1>1, Basics DEF CallAt, ProbeAt, Claims
<1>3. /\ rover \in [Threads -> Rovers] /\ rover[t].index \in Nat /\ rover[t] \in Rovers
      /\ my[t].p \in Gens /\ size[my[t].p] \in Nat
  BY Basics DEF CallerTypes
<1>4. CASE \E a \in {"end", "ECANCELED"} : RoverEnds(t, a)
  <2>1. PICK a \in {"end", "ECANCELED"} : RoverEnds(t, a)
    BY <1>4
  <2>2. [rover[t] EXCEPT !.on = FALSE] \in Rovers
    BY <1>3 DEF Rovers
  <2>3. rover' = [rover EXCEPT ![t] = [rover[t] EXCEPT !.on = FALSE]] /\ Return(t, a)
    BY <2>1 DEF RoverEnds
  <2>4. rover' \in [Threads -> Rovers] /\ \A u \in Threads \ {t} : rover'[u].index = rover[u].index
    BY <1>3, <2>2, <2>3
  <2>5. a \in Answers
    BY <2>1 DEF Answers
  <2> QED BY <1>1, <2>3, <2>4, <2>5, ReturnStep
<1>5. CASE /\ rover[t].index < size[my[t].p]
           /\ rover' = [rover EXCEPT ![t].index = rover[t].index + 1]
           /\ Goto(t, IF hash[my[t].p][rover[t].index] = NO_HASH THEN "enum_hash" ELSE "enum_value")
           /\ UNCHANGED <<my, answer>>
  <2>1. PICK l \in {"enum_hash", "enum_value"} :
          Goto(t, l) /\ (l = "enum_value" => hash[my[t].p][rover[t].index] # NO_HASH)
    BY <1>5
  <2>2. rover' = [rover EXCEPT ![t] = [rover[t] EXCEPT !.index = rover[t].index + 1]]
    BY <1>5
  <2>3. [rover[t] EXCEPT !.index = rover[t].index + 1] \in Rovers
        /\ [rover[t] EXCEPT !.index = rover[t].index + 1].index = rover[t].index + 1
    BY <1>3 DEF Rovers
  <2>4. /\ rover' \in [Threads -> Rovers] /\ rover'[t].index = rover[t].index + 1
        /\ \A u \in Threads \ {t} : rover'[u].index = rover[u].index
    BY <1>3, <2>2, <2>3
  <2>5. Moves(t, l, my[t]) /\ my[t] \in Locals
    BY <1>5, <2>1, Basics, Stays
  <2>6. l \in Labels
    BY <2>1 DEF Labels
  <2>7. CallerTypes'
    BY <1>1, <1>5, <2>4, Basics DEF CallerTypes
  <2>8. CallAt(t, l, my[t], rover[t].index + 1)
    <3>1. (rover[t].index + 1) - 1 = rover[t].index
      BY <1>3
    <3> QED BY <1>2, <1>3, <1>5, <2>1, <3>1, Basics DEF CallAt, Owns, Claims
  <2>9. ProbeAt(l, my[t]) /\ CopyAt(l, my[t])
    BY <1>2, <2>1, SMTT(30) DEF ProbeAt, Owns, Claims, CopyAt, Copies
  <2> QED BY <1>1, <1>2, <2>4, <2>5, <2>6, <2>7, <2>8, <2>9, LocalStep
<1> QED BY <1>4, <1>5 DEF EnumHash

LEMMA EnumValueStep ==
    ASSUME IInv, NEW t \in Threads, EnumValue(t)
    PROVE  IInv'
<1>1. pc[t] = "enum_value" /\ UNCHANGED <<world, words, content, calls>>
  BY DEF EnumValue
<1>2. /\ my[t].call \in Calls[t] /\ my[t].call.op = "next" /\ my[t].then = "value"
      /\ rover[t].index >= 1 /\ rover[t].index <= size[my[t].p]
      /\ hash[my[t].p][rover[t].index - 1] # NO_HASH
  BY <1>1, Basics DEF CallAt, ProbeAt, Claims
<1>3. /\ rover \in [Threads -> Rovers] /\ rover[t].index \in Nat /\ rover[t] \in Rovers
      /\ my[t].p \in Gens /\ size[my[t].p] \in Nat
  BY Basics DEF CallerTypes
<1> DEFINE i == rover[t].index - 1
           h == hash[my[t].p][i]
           v == value[my[t].p][i]
<1>4. i \in Slots
  <2>1. i \in Nat /\ i < size[my[t].p] /\ TableTypes
    BY <1>2, <1>3, Basics
  <2> QED BY <1>3, <2>1, Numbers
<1>5. h \in Hashes /\ v \in Words
  BY <1>2, <1>3, <1>4, Basics DEF TableTypes, Keys
<1> HIDE DEF i, h, v
<1>6. CASE RoverEnds(t, "ECANCELED")
  <2>2. [rover[t] EXCEPT !.on = FALSE] \in Rovers
    BY <1>3 DEF Rovers
  <2>3. rover' = [rover EXCEPT ![t] = [rover[t] EXCEPT !.on = FALSE]] /\ Return(t, "ECANCELED")
    BY <1>6 DEF RoverEnds
  <2>4. rover' \in [Threads -> Rovers] /\ \A u \in Threads \ {t} : rover'[u].index = rover[u].index
    BY <1>3, <2>2, <2>3
  <2>5. "ECANCELED" \in Answers
    BY DEF Answers
  <2> QED BY <1>1, <2>3, <2>4, <2>5, ReturnStep
<1>7. CASE Goto(t, "enum_hash") /\ UNCHANGED <<my, answer, rover>>
  <2>1. Moves(t, "enum_hash", my[t]) /\ my[t] \in Locals /\ "enum_hash" \in Labels
    BY <1>7, Basics, Stays DEF Labels
  <2>2. CallAt(t, "enum_hash", my[t], rover[t].index)
    BY <1>2, Basics DEF CallAt, Owns, Claims
  <2>3. ProbeAt("enum_hash", my[t]) /\ CopyAt("enum_hash", my[t])
    BY <1>2 DEF ProbeAt, Owns, Claims, CopyAt, Copies
  <2> QED BY <1>1, <1>7, <2>1, <2>2, <2>3, Onward
<1>8. CASE /\ Live(v) /\ rover' = [rover EXCEPT ![t].got = @ \union {h}] /\ Return(t, v)
  <2>1. [rover[t] EXCEPT !.got = @ \union {h}] \in Rovers
    BY <1>3, <1>5 DEF Rovers
  <2>2. rover' = [rover EXCEPT ![t] = [rover[t] EXCEPT !.got = @ \union {h}]]
    BY <1>8
  <2>3. rover' \in [Threads -> Rovers] /\ \A u \in Threads \ {t} : rover'[u].index = rover[u].index
    BY <1>3, <2>1, <2>2
  <2>4. v \in Answers
    BY <1>8 DEF Live, Answers
  <2> QED BY <1>1, <1>8, <2>3, <2>4, ReturnStep
<1> QED BY <1>6, <1>7, <1>8 DEF EnumValue, i, h, v
-----------------------------------------------------------------------------

(* A migration's steps, whether they change the table or only read it *)

(* Thread t goes on to a place that fits the table after the step. *)
Lands(t) ==
    \E l \in Labels, m \in Locals, x \in Nat :
       /\ x = rover[t].index
       /\ m.call \in Calls[t] \union {Idle} /\ Moves(t, l, m)
       /\ CallAt(t, l, m, x)' /\ ProbeAt(l, m)' /\ CopyAt(l, m)'

LEMMA Landed ==
    ASSUME IInv, Forward, TableTypes', SlotInv', GenInv', ContentInv',
           NEW t \in Threads, Lands(t), UNCHANGED <<rover, answer, calls>>
    PROVE  IInv'
<1>1. PICK l \in Labels, m \in Locals, x \in Nat :
        /\ x = rover[t].index
        /\ m.call \in Calls[t] \union {Idle} /\ Moves(t, l, m)
        /\ CallAt(t, l, m, x)' /\ ProbeAt(l, m)' /\ CopyAt(l, m)'
  BY DEF Lands
<1>2. /\ ThreadTypes' /\ pc'[t] = l /\ my'[t] = m
      /\ \A u \in Threads \ {t} : pc'[u] = pc[u] /\ my'[u] = my[u]
  BY <1>1, Basics, Moved
<1>3. CallerTypes'
  BY Basics DEF CallerTypes
<1>4. /\ rover'[t].index = x
      /\ \A u \in Threads \ {t} :
           pc'[u] = pc[u] /\ Alike(my'[u], my[u]) /\ rover'[u].index = rover[u].index
  BY <1>1, <1>2 DEF Alike
<1> QED BY <1>1, <1>2, <1>3, <1>4, TableStep DEF TypeInv

(* A step that leaves the table as it is. *)
LEMMA Untouched ==
    ASSUME IInv, NEW t \in Threads, UNCHANGED <<world, words, content>>
    PROVE  Forward /\ TableTypes' /\ SlotInv' /\ GenInv' /\ ContentInv'
<1>1. TableTypes /\ SlotInv /\ GenInv /\ ContentInv /\ storage \in Nat
  BY Basics
<1>2. UNCHANGED <<storage, size, freed, hash, frozen, value, sealed, n_hashs, content>>
  BY DEF world, words
<1>3. TableTypes'
  BY <1>1, <1>2 DEF TableTypes
<1>4. SlotInv'
  BY <1>1, <1>2 DEF SlotInv, Index
<1>5. GenInv'
  BY <1>1, <1>2 DEF GenInv, Index, Done, Settled, HasNext
<1>6. ContentInv'
  BY <1>1, <1>2 DEF ContentInv
<1> QED BY <1>1, <1>2, <1>3, <1>4, <1>5, <1>6 DEF Forward

(* copy is done with its slot. *)
LEMMA CopyNextLands ==
    ASSUME IInv, Forward, TableTypes', NEW t \in Threads, Copies(pc[t], my[t]), pc[t] # "idle",
           CopyNext(t), NEW p, NEW i, p = my[t].p, i = my[t].i, Done(p, i)'
    PROVE  Lands(t)
<1> DEFINE new == [my[t] EXCEPT !.i = @ + 1, !.ch = NO_HASH, !.cv = NULL, !.expect = NULL,
                                !.d = 0, !.at = 0, !.then = "value"]
<1>1. /\ my[t] \in Locals /\ p \in Gens /\ i \in Nat /\ my[t].call \in Calls[t]
      /\ p + 1 \in Gens /\ i < size[p] /\ size[p] \in Nat /\ size'[p] = size[p]
      /\ i \in Slots
  BY Basics, CopyFacts DEF Forward, CallAt
<1>2. NULL \in Words /\ NO_HASH \in Keys /\ NULL \in Values \union {NULL} /\ 0 \in Gens
  BY ConstFacts DEF Words, Keys
<1>3. /\ new \in Locals /\ new.call = my[t].call /\ new.p = p /\ new.i = i + 1 /\ new.then = "value"
  <2>1. my[t].i + 1 \in Nat /\ my[t].i + 1 = i + 1
    BY <1>1
  <2>2. new \in Locals
    BY <1>1, <1>2, <2>1 DEF Locals
  <2> QED BY <1>1, <2>1, <2>2 DEF Locals
<1>4. my' = [my EXCEPT ![t] = new]
  BY DEF CopyNext
<1>5. PICK l \in {"swap", "freeze"}, m \in Locals :
        /\ Moves(t, l, m)
        /\ m.call = my[t].call /\ m.p = p /\ m.i = i + 1 /\ m.then = "value"
        /\ (l = "swap" => m.i = size'[p]) /\ (l = "freeze" => m.i < size'[p])
  <2> HIDE DEF new
  <2>1. PICK m \in Locals : m = new
    BY <1>3
  <2>2. PICK l \in {"swap", "freeze"} : Goto(t, l) /\ (l = "swap" <=> my[t].i = size[my[t].p] - 1)
    BY DEF CopyNext
  <2>3. Moves(t, l, m)
    BY <1>4, <2>1, <2>2 DEF Moves, Goto
  <2>4. (l = "swap" => m.i = size'[p]) /\ (l = "freeze" => m.i < size'[p])
    BY <1>1, <1>3, <2>1, <2>2
  <2> QED BY <1>3, <2>1, <2>3, <2>4
<1> HIDE DEF new
<1>6. PICK k, n, x : k = pc[t] /\ n = my[t] /\ x = rover[t].index
  OBVIOUS
<1>7. CallAt(t, k, n, x)' /\ ProbeAt(k, n)' /\ CopyAt(k, n)'
  BY <1>6, Kept
<1>8. n.p = p /\ n.i = i /\ Copies(k, n) /\ k # "idle" /\ x \in Nat
  BY <1>6, Basics
<1>9. HasNext(p)' /\ \A j \in 0 .. i - 1 : Done(p, j)'
  BY <1>7, <1>8 DEF CopyAt, Copies
<1>10. \A j \in 0 .. m.i - 1 : Done(p, j)'
  <2>1. \A j \in 0 .. m.i - 1 : j \in 0 .. i - 1 \/ j = i
    BY <1>1, <1>5
  <2> QED BY <1>9, <2>1
<1>11. CallAt(t, l, m, x)'
  BY <1>1, <1>5, <1>7, <1>8 DEF CallAt, Owns, Claims
<1>12. ProbeAt(l, m)'
  BY <1>5 DEF ProbeAt, Owns, Claims
<1>13. CopyAt(l, m)'
  BY <1>5, <1>9, <1>10 DEF CopyAt, Copies
<1>14. m.call \in Calls[t] \union {Idle} /\ l \in Labels
  BY <1>1, <1>5 DEF Labels
<1> QED BY <1>5, <1>6, <1>8, <1>11, <1>12, <1>13, <1>14 DEF Lands

(* The slot is frozen. *)
LEMMA FrozenLands ==
    ASSUME IInv, Forward, TableTypes', NEW t \in Threads, pc[t] \in {"freeze", "freeze_cas"},
           NEW p, NEW i, NEW h, p = my[t].p, i = my[t].i, h = hash'[p][i], frozen'[p][i],
           Frozen(t, h)
    PROVE  Lands(t)
<1>1. Copies(pc[t], my[t]) /\ my[t].then = "value" /\ my[t].call \in Calls[t]
  BY Basics DEF Copies, ProbeAt, Claims, CallAt
<1>2. /\ p \in Gens /\ i \in Nat /\ i \in Slots /\ my[t] \in Locals
  BY <1>1, Basics, CopyFacts
<1>3. CASE h = NO_HASH /\ CopyNext(t)
  <2>1. Done(p, i)'
    BY <1>3 DEF Done
  <2> QED BY <1>1, <1>3, <2>1, CopyNextLands
<1>4. CASE h # NO_HASH /\ my' = [my EXCEPT ![t].ch = h] /\ Goto(t, "seal")
  <2>1. h \in Keys
    BY <1>2 DEF TableTypes
  <2>2. PICK m \in Locals :
          /\ m = [my[t] EXCEPT !.ch = h]
          /\ m.call = my[t].call /\ m.p = p /\ m.i = i /\ m.then = "value" /\ m.ch = h
    <3> DEFINE new == [my[t] EXCEPT !.ch = h]
    <3>1. /\ new \in Locals /\ new.call = my[t].call /\ new.p = p /\ new.i = i /\ new.then = "value"
          /\ new.ch = h
      BY <1>1, <1>2, <2>1 DEF Locals
    <3> QED BY <3>1
  <2>3. Moves(t, "seal", m) /\ "seal" \in Labels
    BY <1>4, <2>2 DEF Moves, Goto, Labels
  <2>4. PICK k, n, x : k = pc[t] /\ n = my[t] /\ x = rover[t].index
    OBVIOUS
  <2>5. CallAt(t, k, n, x)' /\ ProbeAt(k, n)' /\ CopyAt(k, n)'
    BY <2>4, Kept
  <2>6. n.p = p /\ n.i = i /\ Copies(k, n) /\ k # "idle" /\ x \in Nat
    BY <1>1, <2>4, Basics
  <2>7. HasNext(p)' /\ i < size'[p] /\ \A j \in 0 .. i - 1 : Done(p, j)'
    BY <2>5, <2>6 DEF CopyAt, Copies
  <2>8. CallAt(t, "seal", m, x)'
    BY <1>1, <2>2, <2>5, <2>6 DEF CallAt, Owns, Claims
  <2>9. ProbeAt("seal", m)'
    BY <2>2 DEF ProbeAt, Owns, Claims
  <2>10. CopyAt("seal", m)'
    BY <1>4, <2>2, <2>7, SMTT(30) DEF CopyAt, Copies
  <2> QED BY <1>1, <2>2, <2>3, <2>4, <2>6, <2>8, <2>9, <2>10 DEF Lands
<1> QED BY <1>3, <1>4 DEF Frozen

(* The slot is sealed. *)
LEMMA SealedLands ==
    ASSUME IInv, Forward, TableTypes', NEW t \in Threads, pc[t] \in {"seal", "seal_cas"},
           NEW p, NEW i, NEW v, p = my[t].p, i = my[t].i, v = value'[p][i], sealed'[p][i],
           Sealed(t, v)
    PROVE  Lands(t)
<1>1. Copies(pc[t], my[t]) /\ my[t].then = "value" /\ my[t].call \in Calls[t]
  BY Basics DEF Copies, ProbeAt, Claims, CallAt
<1>2. /\ p \in Gens /\ p \in Nat /\ p + 1 \in Gens /\ i \in Nat /\ i \in Slots /\ my[t] \in Locals
  BY <1>1, Basics, CopyFacts
<1>3. PICK k, n, x : k = pc[t] /\ n = my[t] /\ x = rover[t].index
  OBVIOUS
<1>4. CallAt(t, k, n, x)' /\ ProbeAt(k, n)' /\ CopyAt(k, n)'
  BY <1>3, Kept
<1>5. n.p = p /\ n.i = i /\ Copies(k, n) /\ k \in {"seal", "seal_cas"} /\ x \in Nat
  BY <1>1, <1>3, Basics
<1>6. HasNext(p)' /\ i < size'[p] /\ \A j \in 0 .. i - 1 : Done(p, j)'
  BY <1>4, <1>5 DEF CopyAt
<1>7. n.ch = hash'[p][i] /\ n.ch # NO_HASH /\ frozen'[p][i]
  BY <1>4, <1>5 DEF CopyAt
<1>8. CASE ~Live(v) /\ CopyNext(t)
  <2>1. Done(p, i)'
    BY <1>7, <1>8 DEF Done, Live
  <2>2. pc[t] # "idle"
    OBVIOUS
  <2> QED BY <1>1, <1>8, <2>1, <2>2, CopyNextLands
<1>9. CASE /\ Live(v)
           /\ my' = [my EXCEPT ![t].cv = v, ![t].expect = NULL, ![t].d = my[t].p + 1, ![t].at = 0,
                               ![t].then = "carry"]
           /\ Goto(t, "claim")
  <2> DEFINE new == [my[t] EXCEPT !.cv = v, !.expect = NULL, !.d = my[t].p + 1, !.at = 0,
                                  !.then = "carry"]
  <2>1. v \in Values /\ v \in Values \union {NULL} /\ NULL \in Words
    BY <1>9 DEF Live, Words
  <2>0. /\ new \in Locals /\ new.call = my[t].call /\ new.p = p /\ new.i = i /\ new.then = "carry"
        /\ new.ch = n.ch /\ new.cv = v /\ new.d = p + 1 /\ new.at = 0
    BY <1>2, <1>3, <2>1 DEF Locals
  <2>00. my' = [my EXCEPT ![t] = new]
    BY <1>9
  <2> HIDE DEF new
  <2>2. PICK m \in Locals :
          /\ m = new /\ m.call = my[t].call /\ m.p = p /\ m.i = i /\ m.then = "carry"
          /\ m.ch = n.ch /\ m.cv = v /\ m.d = p + 1 /\ m.at = 0
    BY <2>0
  <2>3. Moves(t, "claim", m) /\ "claim" \in Labels
    BY <1>9, <2>00, <2>2 DEF Moves, Goto, Labels
  <2>4. CallAt(t, "claim", m, x)'
    BY <1>1, <1>4, <1>5, <2>2 DEF CallAt, Owns, Claims
  <2>5. ProbeAt("claim", m)'
    <3>1. size'[p + 1] \in Nat
      BY <1>2, ConstFacts DEF TableTypes
    <3>2. Passed(m.d, KeyOf(m), 0)'
      BY DEF Passed
    <3> QED BY <2>2, <3>1, <3>2 DEF ProbeAt, Owns, Claims
  <2>6. CopyAt("claim", m)'
    BY <1>6, <1>7, <2>1, <2>2 DEF CopyAt, Copies
  <2> QED BY <1>1, <1>3, <1>5, <2>2, <2>3, <2>4, <2>5, <2>6, SMTT(30) DEF Lands
<1> QED BY <1>8, <1>9 DEF Sealed

LEMMA FreezeReadStep ==
    ASSUME IInv, NEW t \in Threads, FreezeRead(t)
    PROVE  IInv'
<1>1. pc[t] = "freeze" /\ UNCHANGED <<world, words, rover, answer, content, calls>>
  BY DEF FreezeRead
<1>2. Copies(pc[t], my[t]) /\ my[t].then = "value"
  BY <1>1, Basics DEF Copies, ProbeAt, Claims
<1>3. CASE frozen[my[t].p][my[t].i] /\ Frozen(t, hash[my[t].p][my[t].i])
  <2>1. Forward /\ TableTypes' /\ SlotInv' /\ GenInv' /\ ContentInv'
    BY <1>1, Untouched
  <2>2. PICK p, i, h : p = my[t].p /\ i = my[t].i /\ h = hash[p][i]
    OBVIOUS
  <2>3. h = hash'[p][i] /\ frozen'[p][i] /\ Frozen(t, h)
    BY <1>1, <1>3, <2>2 DEF words
  <2>4. Lands(t)
    BY <1>1, <2>1, <2>2, <2>3, FrozenLands
  <2> QED BY <1>1, <2>1, <2>4, Landed
<1>4. CASE my' = [my EXCEPT ![t].ch = hash[my[t].p][my[t].i]] /\ Goto(t, "freeze_cas")
  <2> DEFINE h == hash[my[t].p][my[t].i]
             m == [my[t] EXCEPT !.ch = h]
  <2>1. h \in Keys
    BY <1>2, Basics, CopyFacts DEF TableTypes
  <2> HIDE DEF h
  <2>2. /\ m \in Locals /\ m.call = my[t].call /\ m.p = my[t].p /\ m.i = my[t].i
        /\ m.then = my[t].then
    BY <2>1, Basics DEF Locals
  <2>3. Moves(t, "freeze_cas", m) /\ "freeze_cas" \in Labels
    BY <1>4 DEF Moves, Goto, Labels, h
  <2> HIDE DEF m
  <2>4. CallAt(t, "freeze_cas", m, rover[t].index)
    BY <1>1, <2>2, Basics DEF CallAt, Owns, Claims
  <2>5. ProbeAt("freeze_cas", m)
    BY <1>2, <2>2 DEF ProbeAt, Owns, Claims
  <2>6. CopyAt("freeze_cas", m)
    <3>1. HasNext(m.p) /\ m.i < size[m.p] /\ \A j \in 0 .. m.i - 1 : Done(m.p, j)
      BY <1>2, <2>2, CopyFacts
    <3> QED BY <1>2, <2>2, <3>1 DEF CopyAt, Copies
  <2> QED BY <1>1, <2>2, <2>3, <2>4, <2>5, <2>6, Onward
<1> QED BY <1>3, <1>4 DEF FreezeRead

LEMMA SealReadStep ==
    ASSUME IInv, NEW t \in Threads, SealRead(t)
    PROVE  IInv'
<1>1. pc[t] = "seal" /\ UNCHANGED <<world, words, rover, answer, content, calls>>
  BY DEF SealRead
<1>2. Copies(pc[t], my[t]) /\ my[t].then = "value"
  BY <1>1, Basics DEF Copies, ProbeAt, Claims
<1>3. CASE sealed[my[t].p][my[t].i] /\ Sealed(t, value[my[t].p][my[t].i])
  <2>1. Forward /\ TableTypes' /\ SlotInv' /\ GenInv' /\ ContentInv'
    BY <1>1, Untouched
  <2>2. PICK p, i, v : p = my[t].p /\ i = my[t].i /\ v = value[p][i]
    OBVIOUS
  <2>3. v = value'[p][i] /\ sealed'[p][i] /\ Sealed(t, v)
    BY <1>1, <1>3, <2>2 DEF words
  <2>4. Lands(t)
    BY <1>1, <2>1, <2>2, <2>3, SealedLands
  <2> QED BY <1>1, <2>1, <2>4, Landed
<1>4. CASE my' = [my EXCEPT ![t].expect = value[my[t].p][my[t].i]] /\ Goto(t, "seal_cas")
  <2> DEFINE v == value[my[t].p][my[t].i]
             m == [my[t] EXCEPT !.expect = v]
  <2>1. v \in Words
    BY <1>2, Basics, CopyFacts DEF TableTypes
  <2> HIDE DEF v
  <2>2. /\ m \in Locals /\ m.call = my[t].call /\ m.p = my[t].p /\ m.i = my[t].i
        /\ m.then = my[t].then /\ m.ch = my[t].ch
    BY <2>1, Basics DEF Locals
  <2>3. Moves(t, "seal_cas", m) /\ "seal_cas" \in Labels
    BY <1>4 DEF Moves, Goto, Labels, v
  <2> HIDE DEF m
  <2>4. CallAt(t, "seal_cas", m, rover[t].index)
    BY <1>1, <2>2, Basics DEF CallAt, Owns, Claims
  <2>5. ProbeAt("seal_cas", m)
    BY <1>2, <2>2 DEF ProbeAt, Owns, Claims
  <2>6. CopyAt("seal_cas", m)
    <3>1. HasNext(m.p) /\ m.i < size[m.p] /\ \A j \in 0 .. m.i - 1 : Done(m.p, j)
      BY <1>2, <2>2, CopyFacts
    <3>2. m.ch = hash[m.p][m.i] /\ m.ch # NO_HASH /\ frozen[m.p][m.i]
      BY <1>1, <2>2, Basics DEF CopyAt
    <3> QED BY <1>2, <2>2, <3>1, <3>2 DEF CopyAt, Copies
  <2> QED BY <1>1, <2>2, <2>3, <2>4, <2>5, <2>6, Onward
<1> QED BY <1>3, <1>4 DEF SealRead

LEMMA StartLands ==
    ASSUME IInv, Forward, TableTypes', NEW t \in Threads, my[t].then = "value", pc[t] # "idle",
           StartCopy(t), NEW p, p = my[t].p, HasNext(p)'
    PROVE  Lands(t)
<1> DEFINE new == [my[t] EXCEPT !.i = 0, !.at = 0, !.expect = NULL]
<1>1. /\ my[t] \in Locals /\ p \in Gens /\ size[p] \in Nat /\ size[p] > 0 /\ size'[p] = size[p]
      /\ NULL \in Words /\ my[t].call \in Calls[t]
  BY Basics DEF Forward, Words, CallAt
<1>2. new \in Locals /\ new.call = my[t].call /\ new.p = p /\ new.i = 0 /\ new.then = "value"
  BY <1>1 DEF Locals
<1>3. my' = [my EXCEPT ![t] = new]
  BY DEF StartCopy
<1> HIDE DEF new
<1>4. PICK m \in Locals :
        m = new /\ m.call = my[t].call /\ m.p = p /\ m.i = 0 /\ m.then = "value"
  BY <1>2
<1>5. Moves(t, "freeze", m) /\ "freeze" \in Labels
  BY <1>3, <1>4 DEF StartCopy, Moves, Goto, Labels
<1>6. PICK k, n, x : k = pc[t] /\ n = my[t] /\ x = rover[t].index
  OBVIOUS
<1>7. CallAt(t, k, n, x)' /\ n.p = p /\ x \in Nat
  BY <1>6, Basics, Kept
<1>8. CallAt(t, "freeze", m, x)'
  BY <1>1, <1>4, <1>7 DEF CallAt, Owns, Claims
<1>9. ProbeAt("freeze", m)'
  BY <1>4 DEF ProbeAt, Owns, Claims
<1>10. CopyAt("freeze", m)'
  BY <1>1, <1>4 DEF CopyAt, Copies
<1> QED BY <1>1, <1>4, <1>5, <1>6, <1>7, <1>8, <1>9, <1>10 DEF Lands

LEMMA MigNextStep ==
    ASSUME IInv, NEW t \in Threads, MigNext(t)
    PROVE  IInv'
<1>1. pc[t] = "mig_next" /\ UNCHANGED <<world, words, rover, answer, content, calls>>
  BY DEF MigNext
<1>2. my[t].then = "value" /\ my[t].call \in Calls[t]
  BY <1>1, Basics DEF ProbeAt, Claims, CallAt
<1>3. CASE HasNext(my[t].p) /\ StartCopy(t)
  <2>1. Forward /\ TableTypes' /\ SlotInv' /\ GenInv' /\ ContentInv'
    BY <1>1, Untouched
  <2>2. PICK p : p = my[t].p
    OBVIOUS
  <2>3. HasNext(p)'
    BY <1>1, <1>3, <2>2 DEF HasNext, world
  <2>4. Lands(t)
    BY <1>1, <1>2, <1>3, <2>1, <2>2, <2>3, StartLands
  <2> QED BY <1>1, <2>1, <2>4, Landed
<1>4. CASE Goto(t, "mig_alloc") /\ UNCHANGED my
  <2>1. Moves(t, "mig_alloc", my[t]) /\ my[t] \in Locals /\ "mig_alloc" \in Labels
    BY <1>4, Basics, Stays DEF Labels
  <2>2. CallAt(t, "mig_alloc", my[t], rover[t].index)
    BY <1>2, Basics DEF CallAt, Owns, Claims
  <2>3. ProbeAt("mig_alloc", my[t]) /\ CopyAt("mig_alloc", my[t])
    BY <1>2 DEF ProbeAt, Owns, Claims, CopyAt, Copies
  <2> QED BY <1>1, <2>1, <2>2, <2>3, Onward
<1> QED BY <1>3, <1>4 DEF MigNext

(* A copier that lags behind finds its value carried already. *)
LEMMA CarriedTo ==
    ASSUME IInv, NEW t \in Threads, my[t].then = "carry"
    PROVE  /\ my[t].d = my[t].p + 1 /\ my[t].p + 1 \in Gens /\ size[my[t].d] > 0
           /\ my[t].ch \in Hashes /\ my[t].cv \in Values /\ KeyOf(my[t]) = my[t].ch
           /\ my[t].i \in Slots
           /\ hash[my[t].p][my[t].i] = my[t].ch /\ value[my[t].p][my[t].i] = my[t].cv
           /\ frozen[my[t].p][my[t].i] /\ sealed[my[t].p][my[t].i]
           /\ my[t].p < storage => Settled(my[t].d, my[t].ch)
           /\ Copies(pc[t], my[t]) /\ (Claims(pc[t]) \/ pc[t] = "carry")
<1>1. Copies(pc[t], my[t])
  BY DEF Copies
<1>2. /\ my[t].d = my[t].p + 1 /\ my[t].ch = hash[my[t].p][my[t].i] /\ my[t].ch # NO_HASH
      /\ frozen[my[t].p][my[t].i] /\ sealed[my[t].p][my[t].i]
      /\ value[my[t].p][my[t].i] = my[t].cv /\ my[t].cv \in Values
  BY Basics DEF CopyAt
<1>3. /\ my[t].i \in Index(my[t].p) /\ my[t].i \in Slots
      /\ my[t].p + 1 \in Gens /\ size[my[t].p + 1] > 0
  BY <1>1, CopyFacts
<1>4. ASSUME my[t].p < storage PROVE Settled(my[t].d, my[t].ch)
  <2>1. Done(my[t].p, my[t].i)
    BY <1>3, <1>4, Basics DEF GenInv
  <2> QED BY <1>2, <2>1 DEF Done
<1>5. my[t].ch \in Hashes
  BY <1>2, Basics DEF Keys
<1>6. Claims(pc[t]) \/ pc[t] = "carry"
  BY Basics DEF ProbeAt
<1> QED BY <1>1, <1>2, <1>3, <1>4, <1>5, <1>6 DEF KeyOf

(* The last storage has nothing frozen, so carry never goes on to another. *)
LEMMA NoFrozenVirgin ==
    ASSUME IInv, NEW t \in Threads, my[t].then = "carry", pc[t] \in {"claim", "claim_cas"},
           hash[my[t].d][SlotOf(my[t])] = NO_HASH
    PROVE  ~frozen[my[t].d][SlotOf(my[t])]
<1> SUFFICES ASSUME frozen[my[t].d][SlotOf(my[t])] PROVE FALSE
  OBVIOUS
<1>1. /\ SlotOf(my[t]) \in Slots /\ KeyOf(my[t]) \in Hashes
      /\ SlotOf(my[t]) = Probe(size[my[t].d], KeyOf(my[t]), my[t].at)
  BY Addressed DEF Probing
<1>2. my[t].d \in Gens /\ my[t].d \in Nat /\ storage \in Nat /\ my[t].p \in Nat /\ my[t].at \in Nat
      /\ TableTypes /\ SlotInv /\ GenInv
  BY Basics
<1>3. ~(my[t].d > storage)
  BY <1>1, <1>2 DEF GenInv
<1>4. my[t].d = my[t].p + 1 /\ size[my[t].d] > 0 /\ KeyOf(my[t]) = my[t].ch
      /\ (my[t].p < storage => Settled(my[t].d, my[t].ch))
  BY CarriedTo
<1>5. PICK j \in Slots : hash[my[t].d][j] = KeyOf(my[t])
  BY <1>2, <1>3, <1>4 DEF Settled
<1>6. my[t].at <= size[my[t].d] /\ Passed(my[t].d, KeyOf(my[t]), my[t].at)
  BY Basics DEF ProbeAt
<1>7. \A i \in Slots : hash[my[t].d][i] # KeyOf(my[t])
  BY <1>1, <1>2, <1>4, <1>6, VirginMeans
<1> QED BY <1>5, <1>7

(* What a thread does that does not get the slot it looks at. *)
LEMMA ClaimedStep ==
    ASSUME IInv, NEW t \in Threads, pc[t] \in {"claim", "claim_cas"},
           NEW h, NEW f, h = hash[my[t].d][SlotOf(my[t])], f = frozen[my[t].d][SlotOf(my[t])],
           h # NO_HASH \/ f, Claimed(t, h, f),
           UNCHANGED <<world, words, rover, answer, content, calls>>
    PROVE  IInv'
<1>1. Key(t) = KeyOf(my[t]) /\ KeyOf(my[t]) \in Hashes
  BY Addressed DEF Probing
<1>2. /\ my[t].then = "value" => my[t].d = my[t].p
      /\ my[t].then # "value" => my[t].then = "carry"
      /\ my[t].then = "value" => my[t].call.op \in {"insert", "register"}
      /\ my[t].call \in Calls[t]
  BY Basics DEF ProbeAt, CallAt, Owns, Claims
<1>3. CASE h = KeyOf(my[t]) /\ Goto(t, my[t].then) /\ UNCHANGED my
  <2>1. Moves(t, my[t].then, my[t]) /\ my[t] \in Locals
    BY <1>3, Basics, Stays
  <2>2. my[t].then \in {"value", "carry"} /\ my[t].then \in Labels
    BY Basics DEF Labels
  <2>3. CallAt(t, my[t].then, my[t], rover[t].index)
    BY <1>2, <2>2, Basics DEF CallAt, Owns, Claims
  <2>4. ProbeAt(my[t].then, my[t])
    BY <1>2, <1>3, <2>2 DEF ProbeAt, Owns, Claims
  <2>5. CopyAt(my[t].then, my[t])
    BY <1>2, <2>2, Basics DEF CopyAt, Copies
  <2> QED BY <2>1, <2>2, <2>3, <2>4, <2>5, Onward
<1>4. CASE my[t].then = "value" /\ Goto(t, "mig_next") /\ UNCHANGED my
  BY <1>4, Helps
<1>5. CASE /\ h \notin {NO_HASH, KeyOf(my[t])}
           /\ ProbeNext(t, my[t].d)
           /\ Goto(t, "claim") \/ (my[t].then = "value" /\ Goto(t, "mig_next"))
  <2>1. PICK m \in Locals :
              /\ my' = [my EXCEPT ![t] = m]
              /\ m = [my[t] EXCEPT !.at = m.at]
              /\ m.at <= size[m.d] /\ Passed(m.d, KeyOf(m), m.at)
    BY <1>5, ProbeOn
  <2>2. /\ m.call = my[t].call /\ m.p = my[t].p /\ m.d = my[t].d /\ m.then = my[t].then
        /\ m.i = my[t].i /\ m.ch = my[t].ch /\ m.cv = my[t].cv
    BY <2>1, Basics DEF Locals
  <2>3. PICK l \in {"claim", "mig_next"} : Goto(t, l) /\ (l = "mig_next" => my[t].then = "value")
    BY <1>5
  <2>4. Moves(t, l, m) /\ l \in Labels
    BY <2>1, <2>3 DEF Moves, Goto, Labels
  <2>5. CallAt(t, l, m, rover[t].index)
    BY <1>2, <2>2, <2>3, Basics DEF CallAt, Owns, Claims
  <2>6. ProbeAt(l, m)
    BY <1>2, <2>1, <2>2, <2>3 DEF ProbeAt, Owns, Claims
  <2>7. CopyAt(l, m)
    BY <2>2, <2>3, Basics DEF CopyAt, Copies
  <2> QED BY <2>2, <2>4, <2>5, <2>6, <2>7, Onward
<1>6. CASE my[t].then = "value" /\ FindOrClaim(t, h, f)
  BY <1>1, <1>3, <1>4, <1>5, <1>6 DEF FindOrClaim
<1>7. CASE my[t].then = "carry" /\ CarryProbe(t, h)
  <2>1. h # NO_HASH
    BY <1>7, NoFrozenVirgin
  <2> QED BY <1>1, <1>3, <1>5, <1>7, <2>1 DEF CarryProbe
<1> QED BY <1>6, <1>7 DEF Claimed

LEMMA ClaimReadStep ==
    ASSUME IInv, NEW t \in Threads, ClaimRead(t)
    PROVE  IInv'
<1>1. pc[t] = "claim" /\ UNCHANGED <<world, words, rover, answer, content, calls>>
  BY DEF ClaimRead
<1>2. Slot(t, my[t].d) = SlotOf(my[t])
  BY <1>1, Addressed DEF Probing
<1>3. CASE Goto(t, "claim_cas") /\ UNCHANGED my
  <2>1. Moves(t, "claim_cas", my[t]) /\ my[t] \in Locals /\ "claim_cas" \in Labels
    BY <1>3, Basics, Stays DEF Labels
  <2>2. CallAt(t, "claim_cas", my[t], rover[t].index)
    BY <1>1, Basics DEF CallAt, Owns, Claims
  <2>3. ProbeAt("claim_cas", my[t]) /\ CopyAt("claim_cas", my[t])
    BY <1>1, Basics DEF ProbeAt, Owns, Claims, CopyAt, Copies
  <2> QED BY <1>1, <2>1, <2>2, <2>3, Onward
<1>4. PICK h, f : h = hash[my[t].d][SlotOf(my[t])] /\ f = frozen[my[t].d][SlotOf(my[t])]
  OBVIOUS
<1>5. CASE (h # NO_HASH \/ f) /\ Claimed(t, h, f)
  BY <1>1, <1>4, <1>5, ClaimedStep
<1> QED BY <1>2, <1>3, <1>4, <1>5 DEF ClaimRead
-----------------------------------------------------------------------------

(* The steps that change the table *)

(* Only the storage and its successor have slots that are not frozen, or   *)
(* claimed ones that are not sealed.                                       *)
LEMMA Current ==
    ASSUME IInv, NEW t \in Threads, NEW g \in Gens, NEW i \in Slots
    PROVE  /\ hash[g][i] # NO_HASH => i \in Index(g)
           /\ hash[g][i] # NO_HASH /\ ~sealed[g][i] => g >= storage
           /\ i \in Index(g) /\ ~frozen[g][i] => g >= storage
<1>1. TableTypes /\ SlotInv /\ GenInv /\ storage \in Nat /\ g \in Nat /\ i \in Nat /\ size[g] \in Nat
  BY Basics, Numbers
<1>2. ASSUME hash[g][i] # NO_HASH PROVE i \in Index(g)
  <2>1. ~(i >= size[g])
    BY <1>1, <1>2 DEF SlotInv
  <2>2. i < size[g]
    BY <1>1, <2>1
  <2> QED BY <1>1, <2>2, Numbers
<1>3. ASSUME i \in Index(g), g < storage
      PROVE  frozen[g][i] /\ (hash[g][i] # NO_HASH => sealed[g][i])
  BY <1>1, <1>3 DEF GenInv, Done
<1> QED BY <1>1, <1>2, <1>3

(* The storages stay right as long as none of them is replaced. *)
LEMMA GenSame ==
    ASSUME IInv, Forward, TableTypes', UNCHANGED world, NEW t \in Threads,
           \A g \in Gens : \A i \in Slots : frozen'[g][i] => HasNext(g),
           \A g \in Gens : g > storage => \A i \in Slots : ~frozen'[g][i] /\ value'[g][i] # TOMB
    PROVE  GenInv'
<1>1. GenInv /\ TableTypes /\ storage' = storage /\ size' = size /\ freed' = freed /\ storage \in Nat
      /\ storage <= MaxGen
  BY Basics, ConstFacts DEF world, Gens
<1>2. ASSUME NEW g \in Gens, g < storage, NEW i \in Index(g) PROVE Done(g, i)'
  <2>1. Done(g, i)
    BY <1>1, <1>2 DEF GenInv
  <2>2. i \in Slots
    BY <1>1, Numbers
  <2>3. g + 1 \in Gens
    BY <1>1, <1>2, ConstFacts DEF Gens
  <2> QED BY <2>1, <2>2, <2>3, DoneKept
<1>3. \A g \in Gens : HasNext(g)' <=> HasNext(g)
  BY <1>1 DEF HasNext
<1> QED BY <1>1, <1>2, <1>3 DEF GenInv, Index

(* So do the slots as long as none is claimed. *)
LEMMA SlotSame ==
    ASSUME SlotInv, UNCHANGED <<hash, size>>,
           \A g \in Gens : \A i \in Slots :
              /\ value'[g][i] # NULL \/ sealed'[g][i] => hash[g][i] # NO_HASH
              /\ sealed'[g][i] => frozen'[g][i]
              /\ i >= size[g] => ~frozen'[g][i]
    PROVE  SlotInv'
  BY DEF SlotInv, Index

(* A value is stored or removed in an unsealed slot of the storage. *)
LEMMA ContentPut ==
    ASSUME IInv, TableTypes', NEW t \in Threads, NEW i \in Slots, NEW h \in Hashes, NEW v \in Words,
           NEW c \in Values \union {NULL},
           hash[storage][i] = h, ~sealed[storage][i], v \in Values => c = v, v \notin Values => c = NULL,
           Puts(value', value, storage, i, v), content' = [content EXCEPT ![h] = c],
           UNCHANGED <<storage, hash, sealed>>
    PROVE  ContentInv'
<1>1. TableTypes /\ SlotInv /\ ContentInv /\ storage \in Gens /\ storage \in Nat
      /\ content \in [Hashes -> Values \union {NULL}]
  BY Basics DEF TableTypes
<1>2. /\ value'[storage][i] = v
      /\ \A g \in Gens : \A j \in Slots : g # storage \/ j # i => value'[g][j] = value[g][j]
  BY <1>1, PutsFacts DEF TableTypes
<1>3. content'[h] = c /\ \A k \in Hashes : k # h => content'[k] = content[k]
  BY <1>1
<1>4. \A j \in Slots : hash[storage][j] = h => j = i
  BY <1>1, ConstFacts DEF SlotInv
<1>5. ASSUME NEW k \in Hashes, content'[k] # NULL
      PROVE  \E j \in Slots : hash[storage][j] = k /\ value'[storage][j] = content'[k]
  <2>1. CASE k = h
    BY <1>2, <1>3, <1>5, <2>1
  <2>2. CASE k # h
    <3>1. PICK j \in Slots : hash[storage][j] = k /\ value[storage][j] = content[k]
      BY <1>1, <1>3, <1>5, <2>2 DEF ContentInv
    <3>2. value'[storage][j] = value[storage][j]
      BY <1>1, <1>2, <2>2, <3>1
    <3> QED BY <1>3, <2>2, <3>1, <3>2
  <2> QED BY <2>1, <2>2
<1>6. ASSUME NEW j \in Slots, value'[storage][j] \in Values
      PROVE  content'[hash[storage][j]] = value'[storage][j]
  <2>1. CASE j = i
    BY <1>2, <1>3, <1>6, <2>1
  <2>2. CASE j # i
    <3>1. value'[storage][j] = value[storage][j] /\ hash[storage][j] # h
      BY <1>1, <1>2, <1>4, <2>2
    <3>2. content[hash[storage][j]] = value[storage][j]
      BY <1>1, <1>6, <3>1 DEF ContentInv
    <3>3. hash[storage][j] \in Hashes
      <4>1. value[storage][j] # NULL /\ hash[storage][j] \in Keys
        BY <1>1, <1>6, <3>1, ConstFacts DEF TableTypes
      <4>2. hash[storage][j] # NO_HASH
        BY <1>1, <4>1 DEF SlotInv
      <4> QED BY <4>1, <4>2 DEF Keys
    <3> QED BY <1>3, <3>1, <3>2, <3>3
  <2> QED BY <2>1, <2>2
<1>7. ASSUME storage < MaxGen, NEW k \in Slots, value'[storage + 1][k] # NULL
      PROVE  \E j \in Slots :
               /\ hash[storage][j] = hash[storage + 1][k]
               /\ value'[storage][j] = value'[storage + 1][k] /\ sealed[storage][j]
  <2>1. storage + 1 \in Gens /\ storage + 1 # storage
    BY <1>1, <1>7, ConstFacts DEF Gens
  <2>2. value'[storage + 1][k] = value[storage + 1][k]
    BY <1>2, <2>1
  <2>3. PICK j \in Slots :
               /\ hash[storage][j] = hash[storage + 1][k]
               /\ value[storage][j] = value[storage + 1][k] /\ sealed[storage][j]
    BY <1>1, <1>7, <2>2 DEF ContentInv
  <2>4. value'[storage][j] = value[storage][j]
    BY <1>1, <1>2, <2>3
  <2> QED BY <2>2, <2>3, <2>4
<1> QED BY <1>5, <1>6, <1>7 DEF ContentInv

(* A call that has changed the map returns. *)
LEMMA Written ==
    ASSUME IInv, NEW t \in Threads, NEW h \in Hashes, NEW v \in Values \union {NULL},
           NEW a \in Answers, ReturnWritten(t, h, v, a), UNCHANGED calls
    PROVE  /\ ThreadTypes' /\ CallerTypes' /\ content' = [content EXCEPT ![h] = v]
           /\ pc'[t] = "idle" /\ my'[t] = NoLocals
           /\ \A u \in Threads \ {t} :
                pc'[u] = pc[u] /\ Alike(my'[u], my[u]) /\ rover'[u].index = rover[u].index
<1>1. /\ pc \in [Threads -> Labels] /\ my \in [Threads -> Locals] /\ rover \in [Threads -> Rovers]
      /\ answer \in [Threads -> Answers] /\ calls \in 0 .. MaxCalls
      /\ \A u \in Threads : my[u].call \in Calls[u] \union {Idle}
  BY Basics DEF ThreadTypes, CallerTypes
<1>2. /\ pc' = [pc EXCEPT ![t] = "idle"] /\ answer' = [answer EXCEPT ![t] = a]
      /\ content' = [content EXCEPT ![h] = v]
      /\ my' = [u \in Threads |->
                  IF u = t THEN NoLocals
                  ELSE IF my[u].call # Idle /\ my[u].call.op \notin {"next", "migrate"}
                          /\ my[u].call.hash = h
                  THEN [my[u] EXCEPT !.seen = @ \union {v}] ELSE my[u]]
      /\ rover' = [u \in Threads |->
                     IF v = NULL THEN [rover[u] EXCEPT !.stay = @ \ {h}] ELSE rover[u]]
  BY DEF ReturnWritten, Answer, Goto
<1>3. NoLocals \in Locals /\ NoLocals.call = Idle
  BY Nowhere
<1>4. ASSUME NEW u \in Threads \ {t}
      PROVE  my'[u] \in Locals /\ Alike(my'[u], my[u])
  <2> DEFINE n == [my[u] EXCEPT !.seen = @ \union {v}]
  <2>1. my'[u] = n \/ my'[u] = my[u]
    BY <1>2
  <2>2. my[u] \in Locals
    BY <1>1
  <2>3. n \in Locals /\ Alike(n, my[u])
    <3>1. my[u].seen \union {v} \in SUBSET (Values \union {NULL})
      BY <2>2 DEF Locals
    <3> QED BY <2>2, <3>1 DEF Locals, Alike
  <2> HIDE DEF n
  <2>4. Alike(my[u], my[u])
    BY DEF Alike
  <2> QED BY <2>1, <2>2, <2>3, <2>4
<1>5. my' = [u \in Threads |-> my'[u]] /\ my'[t] = NoLocals
  BY <1>2
<1>6. my' \in [Threads -> Locals]
  BY <1>3, <1>4, <1>5
<1>7. \A u \in Threads : my'[u].call \in Calls[u] \union {Idle}
  BY <1>1, <1>3, <1>4, <1>5 DEF Alike
<1>8. ASSUME NEW u \in Threads PROVE rover'[u] \in Rovers /\ rover'[u].index = rover[u].index
  <2>1. rover'[u] = [rover[u] EXCEPT !.stay = @ \ {h}] \/ rover'[u] = rover[u]
    BY <1>2
  <2>2. [rover[u] EXCEPT !.stay = @ \ {h}] \in Rovers
        /\ [rover[u] EXCEPT !.stay = @ \ {h}].index = rover[u].index
    BY <1>1 DEF Rovers
  <2> QED BY <1>1, <2>1, <2>2
<1>9. rover' \in [Threads -> Rovers]
  <2>1. rover' = [u \in Threads |-> rover'[u]]
    BY <1>2
  <2> QED BY <1>8, <2>1
<1>10. CallerTypes'
  BY <1>1, <1>2, <1>9 DEF CallerTypes
<1>11. ThreadTypes' /\ pc'[t] = "idle" /\ \A u \in Threads \ {t} : pc'[u] = pc[u]
  BY <1>1, <1>2, <1>6, <1>7 DEF ThreadTypes, Labels
<1> QED BY <1>2, <1>4, <1>5, <1>8, <1>10, <1>11

(* A virgin slot at the end of a probe is claimed. *)
LEMMA ClaimSlots ==
    ASSUME TableTypes, SlotInv, NEW g \in Gens, size[g] > 0, NEW k \in Hashes,
           NEW n \in Nat, n <= size[g], Passed(g, k, n), NEW i \in Slots,
           i = Probe(size[g], k, n), hash[g][i] = NO_HASH,
           Puts(hash', hash, g, i, k), UNCHANGED <<size, frozen, value, sealed>>
    PROVE  SlotInv'
<1>1. /\ size[g] \in Nat /\ k \in Nat /\ k # NO_HASH /\ k \in Keys
      /\ hash \in [Gens -> [Slots -> Keys]] /\ Keys \subseteq Nat
      /\ \A h \in Gens : size[h] \in Nat /\ Index(h) \subseteq Slots
  BY Numbers, ConstFacts DEF TableTypes, Keys
<1>2. /\ hash' \in [Gens -> [Slots -> Keys]] /\ hash'[g][i] = k
      /\ \A h \in Gens : \A j \in Slots : h # g \/ j # i => hash'[h][j] = hash[h][j]
  BY <1>1, HashPut
<1>3. n < size[g] /\ \A j \in Slots : hash[g][j] # k
  BY VirginMeans
<1>4. ASSUME NEW h \in Gens, NEW j \in Slots
      PROVE  /\ value'[h][j] # NULL \/ sealed'[h][j] => hash'[h][j] # NO_HASH
             /\ sealed'[h][j] => frozen'[h][j]
             /\ j >= size'[h] => hash'[h][j] = NO_HASH /\ ~frozen'[h][j]
  <2>1. /\ value[h][j] # NULL \/ sealed[h][j] => hash[h][j] # NO_HASH
        /\ sealed[h][j] => frozen[h][j]
        /\ j >= size[h] => hash[h][j] = NO_HASH /\ ~frozen[h][j]
    BY DEF SlotInv
  <2>2. CASE h = g /\ j = i
    <3>1. ~(i >= size[g])
      <4>1. i \in 0 .. size[g] - 1
        <5>1. \A x \in Nat : Probe(size[g], k, x) \in 0 .. size[g] - 1
          BY <1>1, Probes
        <5> QED BY <5>1
      <4> QED BY <1>1, <4>1
    <3> QED BY <1>1, <1>2, <2>1, <2>2, <3>1
  <2>3. CASE h # g \/ j # i
    BY <1>2, <2>1, <2>3
  <2> QED BY <2>2, <2>3
<1>5. ASSUME NEW h \in Gens, NEW j \in Slots, NEW x \in Slots,
             hash'[h][j] = hash'[h][x], hash'[h][j] # NO_HASH
      PROVE  j = x
  <2>1. CASE h # g
    BY <1>2, <1>5, <2>1 DEF SlotInv
  <2>2. CASE h = g
    <3>1. CASE j = i
      BY <1>2, <1>3, <1>5, <2>2, <3>1
    <3>2. CASE x = i
      BY <1>2, <1>3, <1>5, <2>2, <3>2
    <3>3. CASE j # i /\ x # i
      BY <1>2, <1>5, <2>2, <3>3 DEF SlotInv
    <3> QED BY <3>1, <3>2, <3>3
  <2> QED BY <2>1, <2>2
<1>6. ASSUME NEW h \in Gens, NEW j \in Index(h), NEW x \in Index(h),
             hash'[h][j] # NO_HASH, Probe(size[h], hash'[h][j], x) = j, NEW y \in 0 .. x - 1
      PROVE  hash'[h][Probe(size[h], hash'[h][j], y)] # NO_HASH
  <2>1. j \in Slots /\ x \in Nat /\ x < size[h] /\ y \in Nat /\ size[h] > 0 /\ hash'[h][j] \in Nat
    <3>1. j \in Slots /\ x \in 0 .. size[h] - 1 /\ size[h] \in Nat
      BY <1>1 DEF Index
    <3>2. hash'[h][j] \in Keys
      BY <1>2, <3>1
    <3>3. hash'[h][j] \in Nat
      BY <1>1, <3>2
    <3>4. x \in Nat /\ x < size[h] /\ size[h] > 0 /\ y \in Nat
      BY <3>1
    <3> QED BY <3>1, <3>3, <3>4
  <2>2. PICK w : w = hash'[h][j]
    OBVIOUS
  <2>3. Probe(size[h], w, y) \in Slots
    <3>1. \A z \in Nat : Probe(size[h], w, z) \in 0 .. size[h] - 1
      BY <1>1, <2>1, <2>2, Probes
    <3>2. Probe(size[h], w, y) \in Index(h)
      BY <2>1, <3>1 DEF Index
    <3> QED BY <1>1, <3>2
  <2>4. CASE h = g /\ j = i
    <3>1. w = k /\ Probe(size[g], k, x) = Probe(size[g], k, n)
      BY <1>2, <1>6, <2>2, <2>4
    <3>2. n \in 0 .. size[g] - 1 /\ x \in 0 .. size[g] - 1
      BY <1>1, <1>3, <2>1, <2>4
    <3>3. \A a, b \in 0 .. size[g] - 1 : Probe(size[g], k, a) = Probe(size[g], k, b) => a = b
      BY <1>1, Probes, SMTT(30)
    <3>4. x = n
      BY <3>1, <3>2, <3>3
    <3>5. hash[g][Probe(size[g], k, y)] # NO_HASH
      BY <1>6, <3>4 DEF Passed
    <3> QED BY <1>2, <2>2, <2>3, <2>4, <3>1, <3>5
  <2>5. CASE h # g \/ j # i
    <3>1. hash[h][j] = w
      BY <1>2, <2>1, <2>2, <2>5
    <3>2. \A z \in 0 .. x - 1 : hash[h][Probe(size[h], hash[h][j], z)] # NO_HASH
      BY <1>6, <2>2, <3>1 DEF SlotInv
    <3>3. hash[h][Probe(size[h], w, y)] # NO_HASH
      BY <1>6, <3>1, <3>2
    <3> QED BY <1>1, <1>2, <2>2, <2>3, <3>3
  <2> QED BY <2>4, <2>5
<1>7. \A h \in Gens : Index(h)' = Index(h)
  BY DEF Index
<1> QED BY <1>4, <1>5, <1>6, <1>7 DEF SlotInv

LEMMA ClaimCasStep ==
    ASSUME IInv, NEW t \in Threads, ClaimCas(t)
    PROVE  IInv'
<1>1. pc[t] = "claim_cas" /\ UNCHANGED <<world, frozen, value, sealed, n_hashs, rover, answer, content, calls>>
  BY DEF ClaimCas
<1>2. /\ Slot(t, my[t].d) = SlotOf(my[t]) /\ Key(t) = KeyOf(my[t]) /\ KeyOf(my[t]) \in Hashes
      /\ SlotOf(my[t]) \in Slots /\ SlotOf(my[t]) \in Index(my[t].d) /\ size[my[t].d] > 0
      /\ SlotOf(my[t]) = Probe(size[my[t].d], KeyOf(my[t]), my[t].at)
  BY <1>1, Addressed DEF Probing
<1>3. PICK g \in Gens, i \in Slots, k \in Hashes, n \in Nat :
        g = my[t].d /\ i = SlotOf(my[t]) /\ k = KeyOf(my[t]) /\ n = my[t].at
  BY <1>2, Basics
<1>4. CASE (hash[g][i] # NO_HASH \/ frozen[g][i]) /\ Claimed(t, hash[g][i], frozen[g][i]) /\ UNCHANGED hash
  <2>1. PICK h, f : h = hash[g][i] /\ f = frozen[g][i]
    OBVIOUS
  <2>2. UNCHANGED words
    BY <1>1, <1>4 DEF words
  <2> QED BY <1>1, <1>3, <1>4, <2>1, <2>2, ClaimedStep
<1>5. CASE /\ hash[g][i] = NO_HASH /\ ~frozen[g][i] /\ hash' = [hash EXCEPT ![g][i] = k]
           /\ Goto(t, "claim_inc") /\ UNCHANGED my
  <2>1. /\ TableTypes /\ SlotInv /\ GenInv /\ ContentInv /\ storage \in Nat /\ storage \in Gens
        /\ my[t].call \in Calls[t] \union {Idle}
    BY Basics
  <2>2. n <= size[g] /\ Passed(g, k, n)
    BY <1>1, <1>3, Basics DEF ProbeAt
  <2>3. Puts(hash', hash, g, i, k) /\ k \in Keys /\ hash \in [Gens -> [Slots -> Keys]]
    BY <1>5, <2>1 DEF Puts, Keys, TableTypes
  <2>4. /\ hash' \in [Gens -> [Slots -> Keys]] /\ hash'[g][i] = k
        /\ \A h \in Gens : \A j \in Slots : h # g \/ j # i => hash'[h][j] = hash[h][j]
    BY <1>3, <2>3, HashPut
  <2>5. TableTypes'
    BY <1>1, <2>1, <2>4 DEF TableTypes, world
  <2>6. \A h \in Gens : \A j \in Slots :
          (hash[h][j] # NO_HASH \/ frozen[h][j]) => hash'[h][j] = hash[h][j]
    BY <1>5, <2>4
  <2>7. Forward
    BY <1>1, <2>1, <2>6 DEF Forward, world
  <2>8. SlotInv'
    BY <1>1, <1>2, <1>3, <1>5, <2>1, <2>2, <2>3, ClaimSlots DEF world
  <2>9. GenInv'
    BY <1>1, <2>1, <2>5, <2>7, GenSame DEF GenInv
  <2>10. ContentInv'
    <3>1. \A h \in Gens : \A j \in Slots : value[h][j] # NULL => hash'[h][j] = hash[h][j]
      BY <2>1, <2>6 DEF SlotInv
    <3>2. ASSUME NEW h \in Hashes, content[h] # NULL
          PROVE  \E j \in Slots : hash'[storage][j] = h /\ value[storage][j] = content[h]
      <4>1. PICK j \in Slots : hash[storage][j] = h /\ value[storage][j] = content[h]
        BY <2>1, <3>2 DEF ContentInv
      <4> QED BY <2>1, <3>1, <3>2, <4>1
    <3>3. ASSUME NEW j \in Slots, value[storage][j] \in Values
          PROVE  content[hash'[storage][j]] = value[storage][j]
      BY <2>1, <3>1, <3>3, ConstFacts DEF ContentInv
    <3>4. ASSUME storage < MaxGen, NEW x \in Slots, value[storage + 1][x] # NULL
          PROVE  \E j \in Slots :
                   /\ hash'[storage][j] = hash'[storage + 1][x]
                   /\ value[storage][j] = value[storage + 1][x] /\ sealed[storage][j]
      <4>1. storage + 1 \in Gens
        BY <2>1, <3>4, ConstFacts DEF Gens
      <4>2. PICK j \in Slots :
                   /\ hash[storage][j] = hash[storage + 1][x]
                   /\ value[storage][j] = value[storage + 1][x] /\ sealed[storage][j]
        BY <2>1, <3>4 DEF ContentInv
      <4> QED BY <2>1, <3>1, <3>4, <4>1, <4>2
    <3>5. storage' = storage
      BY <1>1 DEF world
    <3> QED BY <1>1, <3>2, <3>3, <3>4, <3>5 DEF ContentInv
  <2>11. Lands(t)
    <3>0. pc[t] \in Labels /\ my[t] \in Locals /\ rover[t].index \in Nat
      BY Basics
    <3>1. PICK l0 \in Labels, m \in Locals, x \in Nat : l0 = pc[t] /\ m = my[t] /\ x = rover[t].index
      BY <3>0
    <3>2. CallAt(t, l0, m, x)' /\ ProbeAt(l0, m)' /\ CopyAt(l0, m)'
      BY <2>5, <2>7, <3>1, Kept
    <3>3. l0 = "claim_cas"
      BY <1>1, <3>1
    <3>4. CallAt(t, "claim_inc", m, x)'
      BY <3>2, <3>3 DEF CallAt, Owns, Claims
    <3>5. hash'[m.d][SlotOf(m)'] = KeyOf(m)
      <4>1. SlotOf(m)' = SlotOf(m)
        BY <1>1 DEF SlotOf, KeyOf, world
      <4> QED BY <1>3, <2>4, <3>1, <4>1
    <3>6. KeyOf(m)' = KeyOf(m)
      BY DEF KeyOf
    <3>7. ProbeAt("claim_inc", m)'
      BY <3>2, <3>3, <3>5, <3>6 DEF ProbeAt, Owns, Claims
    <3>8. CopyAt("claim_inc", m)'
      BY <3>2, <3>3 DEF CopyAt, Copies
    <3>9. Moves(t, "claim_inc", m) /\ "claim_inc" \in Labels
      BY <1>5, <3>1, Basics, Stays DEF Labels
    <3> QED BY <2>1, <3>1, <3>4, <3>7, <3>8, <3>9 DEF Lands
  <2> QED BY <1>1, <2>5, <2>7, <2>8, <2>9, <2>10, <2>11, Landed
<1> QED BY <1>2, <1>3, <1>4, <1>5 DEF ClaimCas

LEMMA ClaimIncStep ==
    ASSUME IInv, NEW t \in Threads, ClaimInc(t)
    PROVE  IInv'
<1>1. /\ pc[t] = "claim_inc" /\ Goto(t, my[t].then)
      /\ n_hashs' = [n_hashs EXCEPT ![my[t].d] = @ + 1]
      /\ UNCHANGED <<storage, size, freed, hash, frozen, value, sealed, content>>
      /\ UNCHANGED <<my, rover, answer, calls>>
  BY DEF ClaimInc, world
<1>2. /\ TableTypes /\ SlotInv /\ GenInv /\ ContentInv /\ storage \in Nat
      /\ pc[t] \in Labels /\ my[t] \in Locals /\ rover[t].index \in Nat /\ my[t].d \in Gens
      /\ my[t].call \in Calls[t] \union {Idle}
  BY Basics
<1>3. TableTypes'
  <2>1. n_hashs \in [Gens -> Nat]
    BY <1>2 DEF TableTypes
  <2>2. n_hashs[my[t].d] + 1 \in Nat
    BY <1>2, <2>1
  <2>3. n_hashs' \in [Gens -> Nat]
    BY <1>1, <2>1, <2>2
  <2> QED BY <1>1, <1>2, <2>3 DEF TableTypes
<1>4. Forward
  BY <1>1, <1>2 DEF Forward
<1>5. SlotInv'
  BY <1>1, <1>2 DEF SlotInv, Index
<1>6. GenInv'
  BY <1>1, <1>2 DEF GenInv, Index, Done, Settled, HasNext
<1>7. ContentInv'
  BY <1>1, <1>2 DEF ContentInv
<1>8. Lands(t)
  <2>1. PICK l0 \in Labels, m \in Locals, x \in Nat : l0 = pc[t] /\ m = my[t] /\ x = rover[t].index
    BY <1>2
  <2>2. CallAt(t, l0, m, x)' /\ ProbeAt(l0, m)' /\ CopyAt(l0, m)'
    BY <1>3, <1>4, <2>1, Kept
  <2>3. l0 = "claim_inc"
    BY <1>1, <2>1
  <2>4. PICK l \in {"value", "carry"} : l = m.then
    BY DEF Locals
  <2>5. CallAt(t, l, m, x)'
    BY <2>2, <2>3, <2>4 DEF CallAt, Owns, Claims
  <2>6. ProbeAt(l, m)'
    BY <2>2, <2>3, <2>4 DEF ProbeAt, Owns, Claims
  <2>7. CopyAt(l, m)'
    BY <2>2, <2>3, <2>4 DEF CopyAt, Copies
  <2>8. Moves(t, l, m) /\ l \in Labels
    BY <1>1, <1>2, <2>1, <2>4, Basics, Stays DEF Labels
  <2> QED BY <1>2, <2>1, <2>5, <2>6, <2>7, <2>8 DEF Lands
<1> QED BY <1>1, <1>3, <1>4, <1>5, <1>6, <1>7, <1>8, Landed

(* The value word of a claimed slot of the storage is written.             *)
LEMMA WriteTable ==
    ASSUME IInv, NEW t \in Threads, NEW i \in Slots, NEW h \in Hashes, NEW v \in Words, v # NULL,
           hash[storage][i] = h, ~sealed[storage][i],
           value' = [value EXCEPT ![storage][i] = v], UNCHANGED <<world, hash, frozen, sealed>>
    PROVE  /\ Puts(value', value, storage, i, v)
           /\ value' \in [Gens -> [Slots -> Words]] /\ value'[storage][i] = v
           /\ \A g \in Gens : \A j \in Slots :
                /\ g # storage \/ j # i => value'[g][j] = value[g][j]
                /\ value[g][j] # NULL => value'[g][j] # NULL
                /\ sealed[g][j] => value'[g][j] = value[g][j]
                /\ value'[g][j] # NULL => value[g][j] # NULL \/ hash[g][j] # NO_HASH
                /\ g # storage => value'[g][j] = value[g][j]
           /\ Forward
<1>1. /\ storage \in Nat /\ storage \in Gens /\ value \in [Gens -> [Slots -> Words]]
      /\ UNCHANGED <<storage, size>> /\ h # NO_HASH
  BY Basics, ConstFacts DEF TableTypes, world
<1>2. Puts(value', value, storage, i, v)
  BY DEF Puts
<1>3. /\ value' \in [Gens -> [Slots -> Words]] /\ value'[storage][i] = v
      /\ \A g \in Gens : \A j \in Slots : g # storage \/ j # i => value'[g][j] = value[g][j]
  BY <1>1, <1>2, ValuePut
<1>4. \A g \in Gens : \A j \in Slots :
        /\ value[g][j] # NULL => value'[g][j] # NULL
        /\ sealed[g][j] => value'[g][j] = value[g][j]
        /\ value'[g][j] # NULL => value[g][j] # NULL \/ hash[g][j] # NO_HASH
        /\ g # storage => value'[g][j] = value[g][j]
  BY <1>1, <1>3
<1>5. Forward
  BY <1>1, <1>4 DEF Forward
<1> QED BY <1>2, <1>3, <1>4, <1>5

(* A call writes the value word of a claimed slot of the storage.          *)
LEMMA WriteStep ==
    ASSUME IInv, NEW t \in Threads, NEW i \in Slots, NEW h \in Hashes, NEW v \in Words, v # NULL,
           NEW c \in Values \union {NULL}, NEW a \in Answers,
           hash[storage][i] = h, ~sealed[storage][i], v \in Values => c = v, v \notin Values => c = NULL,
           value' = [value EXCEPT ![storage][i] = v], ReturnWritten(t, h, c, a),
           UNCHANGED <<world, hash, frozen, sealed, n_hashs, calls>>
    PROVE  IInv'
<1>1. /\ TableTypes /\ SlotInv /\ GenInv /\ ContentInv /\ storage \in Nat /\ storage \in Gens
      /\ value \in [Gens -> [Slots -> Words]] /\ content \in [Hashes -> Values \union {NULL}]
      /\ UNCHANGED <<storage, size, freed>> /\ h # NO_HASH
  BY Basics, ConstFacts DEF TableTypes, world
<1>2. Puts(value', value, storage, i, v)
  BY WriteTable
<1>3. value' \in [Gens -> [Slots -> Words]]
  BY WriteTable
<1>4. /\ ThreadTypes' /\ CallerTypes' /\ content' = [content EXCEPT ![h] = c]
      /\ pc'[t] = "idle" /\ my'[t] = NoLocals
      /\ \A u \in Threads \ {t} :
           pc'[u] = pc[u] /\ Alike(my'[u], my[u]) /\ rover'[u].index = rover[u].index
  BY Written
<1>5. TableTypes'
  <2>1. content' \in [Hashes -> Values \union {NULL}]
    BY <1>1, <1>4
  <2> QED BY <1>1, <1>3, <2>1 DEF TableTypes
<1>6. \A g \in Gens : \A j \in Slots :
        /\ value'[g][j] # NULL => value[g][j] # NULL \/ hash[g][j] # NO_HASH
        /\ g # storage => value'[g][j] = value[g][j]
  BY WriteTable
<1>7. Forward
  BY WriteTable
<1>8. SlotInv'
  <2>1. \A g \in Gens : \A j \in Slots :
          /\ value'[g][j] # NULL \/ sealed'[g][j] => hash[g][j] # NO_HASH
          /\ sealed'[g][j] => frozen'[g][j]
          /\ j >= size[g] => ~frozen'[g][j]
    BY <1>1, <1>6 DEF SlotInv
  <2> QED BY <1>1, <2>1, SlotSame
<1>9. GenInv'
  <2>1. \A g \in Gens : \A j \in Slots : frozen'[g][j] => HasNext(g)
    BY <1>1 DEF GenInv
  <2>2. \A g \in Gens : g > storage => \A j \in Slots : ~frozen'[g][j] /\ value'[g][j] # TOMB
    <3>1. \A g \in Gens : g > storage => g # storage
      BY <1>1 DEF Gens
    <3> QED BY <1>1, <1>6, <3>1 DEF GenInv
  <2> QED BY <1>5, <1>7, <2>1, <2>2, GenSame
<1>10. ContentInv'
  BY <1>1, <1>2, <1>4, <1>5, ContentPut
<1>11. PICK x : x = rover'[t].index
  OBVIOUS
<1>12. CallAt(t, "idle", NoLocals, x)' /\ ProbeAt("idle", NoLocals)' /\ CopyAt("idle", NoLocals)'
  <2>1. NoLocals.call = Idle /\ NoLocals.p = 0 /\ NoLocals.then = "value" /\ 0 <= storage'
    BY <1>1 DEF NoLocals
  <2> QED BY <2>1 DEF CallAt, ProbeAt, CopyAt, Owns, Claims, Copies
<1> QED BY <1>4, <1>5, <1>7, <1>8, <1>9, <1>10, <1>11, <1>12, TableStep DEF TypeInv

(* A thread that has the slot of its hash, which is not sealed, has it in  *)
(* the storage.                                                            *)
LEMMA Unsealed ==
    ASSUME IInv, NEW t \in Threads, pc[t] \in {"value_cas", "rem_cas"}
    PROVE  /\ my[t].d = my[t].p /\ my[t].then = "value" /\ my[t].call \in Calls[t]
           /\ Slot(t, my[t].p) = SlotOf(my[t]) /\ SlotOf(my[t]) \in Slots
           /\ KeyOf(my[t]) \in Hashes /\ KeyOf(my[t]) = my[t].call.hash
           /\ hash[my[t].p][SlotOf(my[t])] = KeyOf(my[t])
           /\ value[my[t].p][SlotOf(my[t])] \in Words
           /\ my[t].call.value \in Values
           /\ ~sealed[my[t].p][SlotOf(my[t])] => my[t].p = storage
<1>1. my[t].then = "value" /\ hash[my[t].d][SlotOf(my[t])] = KeyOf(my[t])
  BY Basics DEF ProbeAt, Claims
<1>2. /\ my[t].d = my[t].p /\ my[t].call \in Calls[t]
      /\ Slot(t, my[t].p) = SlotOf(my[t]) /\ SlotOf(my[t]) \in Slots
      /\ KeyOf(my[t]) \in Hashes /\ KeyOf(my[t]) = my[t].call.hash
  BY <1>1, Addressed DEF Probing
<1>3. my[t].call.op \in {"insert", "register", "remove"}
  BY Basics DEF CallAt, Owns
<1>4. my[t].call.value \in Values
  BY <1>2, <1>3, CallFacts
<1>5. /\ TableTypes /\ my[t].p \in Gens /\ my[t].p \in Nat /\ storage \in Nat /\ my[t].p <= storage
  BY Basics
<1>6. value[my[t].p][SlotOf(my[t])] \in Words
  BY <1>2, <1>5 DEF TableTypes
<1>7. ASSUME ~sealed[my[t].p][SlotOf(my[t])] PROVE my[t].p = storage
  <2>1. hash[my[t].p][SlotOf(my[t])] # NO_HASH
    BY <1>1, <1>2, ConstFacts
  <2>2. my[t].p >= storage
    BY <1>2, <1>5, <1>7, <2>1, Current
  <2> QED BY <1>5, <2>2
<1> QED BY <1>1, <1>2, <1>4, <1>6, <1>7

LEMMA ValueCasStep ==
    ASSUME IInv, NEW t \in Threads, ValueCas(t)
    PROVE  IInv'
<1>1. pc[t] = "value_cas" /\ UNCHANGED <<world, hash, frozen, sealed, n_hashs, calls>>
  BY DEF ValueCas
<1>2. /\ my[t].d = my[t].p /\ my[t].then = "value" /\ my[t].call \in Calls[t]
      /\ Slot(t, my[t].p) = SlotOf(my[t]) /\ SlotOf(my[t]) \in Slots
      /\ KeyOf(my[t]) \in Hashes /\ KeyOf(my[t]) = my[t].call.hash
      /\ hash[my[t].p][SlotOf(my[t])] = KeyOf(my[t])
      /\ value[my[t].p][SlotOf(my[t])] \in Words
      /\ my[t].call.value \in Values
      /\ ~sealed[my[t].p][SlotOf(my[t])] => my[t].p = storage
  BY <1>1, Unsealed
<1>3. my[t].call.op \in {"insert", "register"} /\ my[t].p \in Gens
  BY <1>1, Basics DEF CallAt, Owns
<1>4. PICK g \in Gens, i \in Slots, h \in Hashes, w \in Values :
        g = my[t].p /\ i = SlotOf(my[t]) /\ h = my[t].call.hash /\ w = my[t].call.value
  BY <1>2, <1>3
<1>5. CASE /\ ~sealed[g][i] /\ value' = [value EXCEPT ![g][i] = w]
           /\ ReturnWritten(t, h, w, IF my[t].call.op = "insert" THEN "0" ELSE NULL)
  <2>1. PICK a \in Answers : ReturnWritten(t, h, w, a)
    BY <1>5 DEF Answers
  <2>2. g = storage /\ hash[storage][i] = h /\ w \in Words /\ w # NULL /\ w \in Values \union {NULL}
    BY <1>2, <1>4, <1>5, ConstFacts DEF Words
  <2> QED BY <1>1, <1>4, <1>5, <2>1, <2>2, WriteStep
<1>6. CASE Goto(t, "mig_next") /\ UNCHANGED <<my, answer, value, content, rover>>
  <2>1. UNCHANGED words
    BY <1>1, <1>6 DEF words
  <2> QED BY <1>1, <1>2, <1>6, <2>1, Helps
<1>7. CASE /\ my[t].call.op = "insert" \/ Live(value[g][i])
           /\ Exists(t, value[g][i])
           /\ UNCHANGED <<value, content, rover>>
  <2>1. UNCHANGED words
    BY <1>1, <1>7 DEF words
  <2>2. PICK v \in Words : v = value[g][i]
    BY <1>2, <1>4
  <2>3. v # TOMB \/ my[t].call.op = "insert"
    BY <1>7, <2>2, ConstFacts DEF Live
  <2>4. CASE Exists(t, v)
    BY <1>1, <1>7, <2>1, <2>3, <2>4, ExistsStep
  <2> QED BY <1>7, <2>2, <2>4
<1>8. CASE /\ ~Live(value[g][i]) /\ my' = [my EXCEPT ![t].expect = value[g][i]]
           /\ UNCHANGED <<pc, answer, value, content, rover>>
  <2>1. PICK v \in Words : v = value[g][i]
    BY <1>2, <1>4
  <2> DEFINE m == [my[t] EXCEPT !.expect = v]
  <2>2. /\ m \in Locals /\ m.call = my[t].call /\ m.p = my[t].p /\ m.d = my[t].d
        /\ m.then = my[t].then /\ m.expect = v /\ m.at = my[t].at /\ KeyOf(m) = KeyOf(my[t])
        /\ SlotOf(m) = SlotOf(my[t])
    BY Basics DEF Locals, KeyOf, SlotOf
  <2>3. Moves(t, "value_cas", m) /\ "value_cas" \in Labels
    <3>1. pc' = [pc EXCEPT ![t] = "value_cas"]
      BY <1>1, <1>8, Basics DEF ThreadTypes
    <3> QED BY <1>8, <2>1, <3>1 DEF Moves, Labels
  <2> HIDE DEF m
  <2>4. CallAt(t, "value_cas", m, rover[t].index)
    BY <1>2, <1>3, <2>2, Basics DEF CallAt, Owns, Claims
  <2>5. ProbeAt("value_cas", m)
    BY <1>2, <1>8, <2>1, <2>2 DEF ProbeAt, Owns, Claims, Live
  <2>6. CopyAt("value_cas", m)
    BY <1>2, <2>2 DEF CopyAt, Copies
  <2>7. UNCHANGED words
    BY <1>1, <1>8 DEF words
  <2> QED BY <1>1, <1>8, <2>2, <2>3, <2>4, <2>5, <2>6, <2>7, Onward
<1> QED
  <2>1. \/ /\ ~sealed[g][i] /\ value' = [value EXCEPT ![g][i] = w]
           /\ ReturnWritten(t, h, w, IF my[t].call.op = "insert" THEN "0" ELSE NULL)
        \/ Goto(t, "mig_next") /\ UNCHANGED <<my, answer, value, content, rover>>
        \/ /\ IF my[t].call.op = "insert" \/ Live(value[g][i])
              THEN Exists(t, value[g][i])
              ELSE my' = [my EXCEPT ![t].expect = value[g][i]] /\ UNCHANGED <<pc, answer>>
           /\ UNCHANGED <<value, content, rover>>
    BY <1>2, <1>4 DEF ValueCas
  <2> QED BY <1>5, <1>6, <1>7, <1>8, <2>1

LEMMA RemCasStep ==
    ASSUME IInv, NEW t \in Threads, RemCas(t)
    PROVE  IInv'
<1>1. pc[t] = "rem_cas" /\ UNCHANGED <<world, hash, frozen, sealed, n_hashs, calls>>
  BY DEF RemCas
<1>2. /\ my[t].d = my[t].p /\ my[t].then = "value" /\ my[t].call \in Calls[t]
      /\ Slot(t, my[t].p) = SlotOf(my[t]) /\ SlotOf(my[t]) \in Slots
      /\ KeyOf(my[t]) \in Hashes /\ KeyOf(my[t]) = my[t].call.hash
      /\ hash[my[t].p][SlotOf(my[t])] = KeyOf(my[t])
      /\ ~sealed[my[t].p][SlotOf(my[t])] => my[t].p = storage
  BY <1>1, Unsealed
<1>3. PICK g \in Gens, i \in Slots, h \in Hashes :
        g = my[t].p /\ i = SlotOf(my[t]) /\ h = my[t].call.hash
  BY <1>2, Basics
<1>4. CASE /\ ~sealed[g][i] /\ value' = [value EXCEPT ![g][i] = TOMB]
           /\ ReturnWritten(t, h, NULL, "0")
  <2>1. "0" \in Answers /\ TOMB \in Words /\ TOMB # NULL /\ TOMB \notin Values
        /\ NULL \in Values \union {NULL}
    BY ConstFacts DEF Answers, Words
  <2>2. g = storage /\ hash[storage][i] = h
    BY <1>2, <1>3, <1>4
  <2> QED BY <1>1, <1>4, <2>1, <2>2, WriteStep
<1>5. CASE Goto(t, "mig_next") /\ UNCHANGED <<my, answer, value, content, rover>>
  <2>1. UNCHANGED words
    BY <1>1, <1>5 DEF words
  <2> QED BY <1>1, <1>2, <1>5, <2>1, Helps
<1>6. CASE Return(t, "ENOENT") /\ UNCHANGED <<value, content, rover>>
  <2>1. UNCHANGED words /\ "ENOENT" \in Answers
    BY <1>1, <1>6 DEF words, Answers
  <2> QED BY <1>1, <1>6, <2>1, Basics, ReturnStep DEF CallerTypes
<1> QED BY <1>2, <1>3, <1>4, <1>5, <1>6 DEF RemCas

LEMMA MigAllocStep ==
    ASSUME IInv, NEW t \in Threads, MigAlloc(t)
    PROVE  IInv'
<1>1. /\ pc[t] = "mig_alloc" /\ my[t].p < MaxGen /\ StartCopy(t)
      /\ UNCHANGED <<storage, freed, hash, frozen, value, sealed, n_hashs, content>>
      /\ UNCHANGED <<rover, answer, calls>>
  BY DEF MigAlloc, words
<1>2. /\ TableTypes /\ SlotInv /\ GenInv /\ ContentInv /\ storage \in Nat /\ storage \in Gens
      /\ my[t].p \in Nat /\ my[t].p \in Gens /\ my[t].p <= storage
      /\ size[my[t].p] > 0 /\ size[my[t].p] \in Nat /\ my[t].then = "value"
      /\ size \in [Gens -> 0 .. MaxSize] /\ MaxSize \in Nat
  BY <1>1, Basics, ConstFacts DEF TableTypes, ProbeAt, Claims
<1>3. PICK p \in Gens, s \in 1 .. MaxSize :
        p = my[t].p /\ size' = [size EXCEPT ![p + 1] = IF @ = 0 THEN s ELSE @]
  <2> DEFINE new == IF my[t].call.op = "migrate" THEN size[my[t].p] ELSE 2 * size[my[t].p]
  <2>1. new <= MaxSize /\ size' = [size EXCEPT ![my[t].p + 1] = IF @ = 0 THEN new ELSE @]
    BY DEF MigAlloc
  <2>2. new \in Nat /\ new > 0
    BY <1>2
  <2> HIDE DEF new
  <2>3. new \in 1 .. MaxSize
    BY <1>2, <2>1, <2>2
  <2> QED BY <1>2, <2>1, <2>3
<1>4. p + 1 \in Gens /\ p \in Nat /\ p < MaxGen /\ p <= storage
  BY <1>1, <1>2, <1>3, ConstFacts DEF Gens
<1>5. /\ size' \in [Gens -> 0 .. MaxSize] /\ size'[p + 1] # 0
      /\ \A g \in Gens : size[g] # 0 \/ g # p + 1 => size'[g] = size[g]
  <2>1. s \in 0 .. MaxSize /\ s # 0
    BY <1>2, <1>3
  <2>2. size[p + 1] \in 0 .. MaxSize
    BY <1>2, <1>4
  <2> QED BY <1>2, <1>3, <1>4, <2>1, <2>2
<1>6. TableTypes'
  BY <1>1, <1>2, <1>5 DEF TableTypes
<1>7. Forward
  BY <1>1, <1>2, <1>5 DEF Forward
<1>8. ASSUME NEW g \in Gens, size[g] = 0, NEW i \in Slots
      PROVE  hash[g][i] = NO_HASH /\ ~frozen[g][i]
  <2>1. i >= size[g]
    BY <1>2, <1>8, Numbers
  <2> QED BY <1>2, <2>1 DEF SlotInv
<1>9. SlotInv'
  <2>1. ASSUME NEW g \in Gens, NEW i \in Slots
        PROVE  /\ value[g][i] # NULL \/ sealed[g][i] => hash[g][i] # NO_HASH
               /\ sealed[g][i] => frozen[g][i]
               /\ i >= size'[g] => hash[g][i] = NO_HASH /\ ~frozen[g][i]
    BY <1>2, <1>5, <1>8 DEF SlotInv
  <2>2. \A g \in Gens : \A i, j \in Slots : hash[g][i] = hash[g][j] /\ hash[g][i] # NO_HASH => i = j
    BY <1>2 DEF SlotInv
  <2>3. ASSUME NEW g \in Gens, NEW i \in Index(g)', NEW k \in Index(g)',
               hash[g][i] # NO_HASH, Probe(size'[g], hash[g][i], k) = i, NEW j \in 0 .. k - 1
        PROVE  hash[g][Probe(size'[g], hash[g][i], j)] # NO_HASH
    <3>1. i \in Slots
      <4>1. size'[g] \in 0 .. MaxSize /\ i \in 0 .. size'[g] - 1
        BY <1>5 DEF Index
      <4> QED BY <1>2, <4>1 DEF Slots
    <3>2. size'[g] = size[g]
      BY <1>5, <1>8, <2>3, <3>1
    <3>3. i \in Index(g) /\ k \in Index(g)
      BY <3>2 DEF Index
    <3>4. \A x \in 0 .. k - 1 : hash[g][Probe(size[g], hash[g][i], x)] # NO_HASH
      BY <1>2, <2>3, <3>2, <3>3 DEF SlotInv
    <3> QED BY <3>2, <3>4
  <2> QED BY <1>1, <2>1, <2>2, <2>3 DEF SlotInv
<1>10. GenInv'
  <2>1. ASSUME NEW g \in Gens, g <= storage PROVE size[g] # 0 /\ size'[g] = size[g]
    BY <1>2, <1>5, <2>1 DEF GenInv
  <2>2. ASSUME NEW g \in Gens, size'[g] # 0 PROVE g <= storage + 1
    <3>1. CASE size[g] # 0
      BY <1>2, <3>1 DEF GenInv
    <3>2. CASE size[g] = 0
      <4>1. g = p + 1
        BY <1>5, <2>2, <3>2
      <4> QED BY <1>2, <1>4, <4>1
    <3> QED BY <3>1, <3>2
  <2>3. ASSUME NEW g \in Gens, NEW i \in Slots, frozen[g][i] PROVE HasNext(g)'
    <3>1. HasNext(g)
      BY <1>2, <2>3 DEF GenInv
    <3>2. g + 1 \in Gens /\ size[g + 1] # 0 /\ g < MaxGen
      BY <1>2, <3>1, Numbers DEF HasNext
    <3> QED BY <1>5, <3>2 DEF HasNext
  <2>4. ASSUME NEW g \in Gens, g < storage, NEW i \in Index(g)' PROVE Done(g, i)'
    <3>1. i \in Index(g)
      <4>1. g <= storage
        BY <1>2, <2>4 DEF Gens
      <4> QED BY <2>1, <4>1 DEF Index
    <3>2. Done(g, i)
      BY <1>2, <2>4, <3>1 DEF GenInv
    <3> QED BY <1>1, <3>2 DEF Done, Settled
  <2>5. \A g \in Gens :
          /\ freed'[g] = IF g < storage' THEN 1 ELSE 0
          /\ g > storage' => \A i \in Slots : ~frozen'[g][i] /\ value'[g][i] # TOMB
    BY <1>1, <1>2 DEF GenInv
  <2> QED BY <1>1, <2>1, <2>2, <2>3, <2>4, <2>5 DEF GenInv
<1>11. ContentInv'
  BY <1>1, <1>2 DEF ContentInv
<1>12. Lands(t)
  <2>1. HasNext(p)'
    BY <1>4, <1>5 DEF HasNext
  <2> QED BY <1>1, <1>2, <1>3, <1>6, <1>7, <2>1, StartLands
<1> QED BY <1>1, <1>6, <1>7, <1>9, <1>10, <1>11, <1>12, Landed

LEMMA FreezeCasStep ==
    ASSUME IInv, NEW t \in Threads, FreezeCas(t)
    PROVE  IInv'
<1>1. /\ pc[t] = "freeze_cas"
      /\ UNCHANGED <<world, hash, value, sealed, n_hashs, rover, answer, content, calls>>
  BY DEF FreezeCas
<1>2. /\ Copies(pc[t], my[t]) /\ my[t].then = "value" /\ my[t].call \in Calls[t]
      /\ TableTypes /\ SlotInv /\ GenInv /\ ContentInv /\ storage \in Nat
      /\ my[t].p \in Gens /\ my[t].p \in Nat /\ my[t].p <= storage
      /\ UNCHANGED <<storage, size, freed>>
  BY <1>1, Basics DEF Copies, ProbeAt, Claims, CallAt, world
<1>3. my[t].i \in Slots /\ my[t].i < size[my[t].p] /\ HasNext(my[t].p) /\ my[t].i \in Nat
  BY <1>2, Basics, CopyFacts
<1>4. PICK p \in Gens, i \in Slots : p = my[t].p /\ i = my[t].i
  BY <1>2, <1>3
<1>5. CASE frozen' = [frozen EXCEPT ![p][i] = TRUE] /\ Frozen(t, hash[p][i])
  <2>1. frozen \in [Gens -> [Slots -> BOOLEAN]] /\ Puts(frozen', frozen, p, i, TRUE)
    BY <1>2, <1>5 DEF TableTypes, Puts
  <2>2. /\ frozen' \in [Gens -> [Slots -> BOOLEAN]] /\ frozen'[p][i] = TRUE
        /\ \A g \in Gens : \A j \in Slots : g # p \/ j # i => frozen'[g][j] = frozen[g][j]
    BY <1>4, <2>1, FrozenPut
  <2>3. TableTypes'
    BY <1>1, <1>2, <2>2 DEF TableTypes
  <2>4. \A g \in Gens : \A j \in Slots :
          /\ frozen[g][j] => frozen'[g][j]
          /\ (frozen'[g][j] /\ ~frozen[g][j]) => g = p /\ j = i
    BY <2>2
  <2>5. Forward
    BY <1>1, <1>2, <2>4 DEF Forward
  <2>6. SlotInv'
    <3>1. ~(i >= size[p])
      <4>1. size[p] \in Nat /\ i \in Nat
        BY <1>2, <1>4, Numbers
      <4> QED BY <1>3, <1>4, <4>1
    <3>2. \A g \in Gens : \A j \in Slots :
            /\ value'[g][j] # NULL \/ sealed'[g][j] => hash[g][j] # NO_HASH
            /\ sealed'[g][j] => frozen'[g][j]
            /\ j >= size[g] => ~frozen'[g][j]
      BY <1>1, <1>2, <2>4, <3>1 DEF SlotInv
    <3> QED BY <1>1, <1>2, <3>2, SlotSame
  <2>7. GenInv'
    <3>1. \A g \in Gens : \A j \in Slots : frozen'[g][j] => HasNext(g)
      BY <1>2, <1>3, <1>4, <2>4 DEF GenInv
    <3>2. ~(p > storage)
      BY <1>2, <1>4
    <3>3. \A g \in Gens : g > storage => \A j \in Slots : ~frozen'[g][j] /\ value'[g][j] # TOMB
      BY <1>1, <1>2, <2>4, <3>2 DEF GenInv
    <3> QED BY <1>1, <2>3, <2>5, <3>1, <3>3, GenSame
  <2>8. ContentInv'
    BY <1>1, <1>2 DEF ContentInv
  <2>9. Lands(t)
    <3>1. PICK h : h = hash[p][i]
      OBVIOUS
    <3>2. h = hash'[p][i] /\ frozen'[p][i] /\ Frozen(t, h)
      BY <1>1, <1>5, <2>2, <3>1
    <3> QED BY <1>1, <1>4, <2>3, <2>5, <3>2, FrozenLands
  <2> QED BY <1>1, <2>3, <2>5, <2>6, <2>7, <2>8, <2>9, Landed
<1>6. CASE Goto(t, "freeze") /\ UNCHANGED <<my, frozen>>
  <2>1. Moves(t, "freeze", my[t]) /\ my[t] \in Locals /\ "freeze" \in Labels
    BY <1>6, Basics, Stays DEF Labels
  <2>2. CallAt(t, "freeze", my[t], rover[t].index)
    BY <1>2, Basics DEF CallAt, Owns, Claims
  <2>3. ProbeAt("freeze", my[t])
    BY <1>2 DEF ProbeAt, Owns, Claims
  <2>4. CopyAt("freeze", my[t])
    BY <1>1, <1>2, Basics DEF CopyAt, Copies
  <2>5. UNCHANGED words
    BY <1>1, <1>6 DEF words
  <2> QED BY <1>1, <2>1, <2>2, <2>3, <2>4, <2>5, Onward
<1> QED BY <1>4, <1>5, <1>6 DEF FreezeCas

LEMMA SealCasStep ==
    ASSUME IInv, NEW t \in Threads, SealCas(t)
    PROVE  IInv'
<1>1. /\ pc[t] = "seal_cas"
      /\ UNCHANGED <<world, hash, frozen, value, n_hashs, rover, answer, content, calls>>
  BY DEF SealCas
<1>2. /\ Copies(pc[t], my[t]) /\ my[t].then = "value" /\ my[t].call \in Calls[t]
      /\ TableTypes /\ SlotInv /\ GenInv /\ ContentInv /\ storage \in Nat
      /\ my[t].p \in Gens /\ my[t].p \in Nat /\ my[t].p <= storage
      /\ hash[my[t].p][my[t].i] # NO_HASH /\ frozen[my[t].p][my[t].i]
      /\ UNCHANGED <<storage, size, freed>>
  BY <1>1, Basics DEF Copies, ProbeAt, Claims, CallAt, CopyAt, world
<1>3. my[t].i \in Slots
  BY <1>2, CopyFacts
<1>4. PICK p \in Gens, i \in Slots : p = my[t].p /\ i = my[t].i
  BY <1>2, <1>3
<1>5. CASE ~sealed[p][i] /\ sealed' = [sealed EXCEPT ![p][i] = TRUE] /\ Sealed(t, value[p][i])
  <2>1. sealed \in [Gens -> [Slots -> BOOLEAN]] /\ Puts(sealed', sealed, p, i, TRUE)
    BY <1>2, <1>5 DEF TableTypes, Puts
  <2>2. /\ sealed' \in [Gens -> [Slots -> BOOLEAN]] /\ sealed'[p][i] = TRUE
        /\ \A g \in Gens : \A j \in Slots : g # p \/ j # i => sealed'[g][j] = sealed[g][j]
    BY <1>4, <2>1, SealedPut
  <2>3. TableTypes'
    BY <1>1, <1>2, <2>2 DEF TableTypes
  <2>4. \A g \in Gens : \A j \in Slots :
          /\ sealed[g][j] => sealed'[g][j]
          /\ (sealed'[g][j] /\ ~sealed[g][j]) => g = p /\ j = i
    BY <2>2
  <2>5. Forward
    BY <1>1, <1>2, <2>4 DEF Forward
  <2>6. SlotInv'
    <3>1. \A g \in Gens : \A j \in Slots :
            /\ value'[g][j] # NULL \/ sealed'[g][j] => hash[g][j] # NO_HASH
            /\ sealed'[g][j] => frozen'[g][j]
            /\ j >= size[g] => ~frozen'[g][j]
      BY <1>1, <1>2, <1>4, <2>4 DEF SlotInv
    <3> QED BY <1>1, <1>2, <3>1, SlotSame
  <2>7. GenInv'
    <3>1. \A g \in Gens : \A j \in Slots : frozen'[g][j] => HasNext(g)
      BY <1>1, <1>2 DEF GenInv
    <3>2. \A g \in Gens : g > storage => \A j \in Slots : ~frozen'[g][j] /\ value'[g][j] # TOMB
      BY <1>1, <1>2 DEF GenInv
    <3> QED BY <1>1, <2>3, <2>5, <3>1, <3>2, GenSame
  <2>8. ContentInv'
    <3>1. ASSUME storage < MaxGen, NEW k \in Slots, value[storage + 1][k] # NULL
          PROVE  \E j \in Slots :
                   /\ hash[storage][j] = hash[storage + 1][k]
                   /\ value[storage][j] = value[storage + 1][k] /\ sealed'[storage][j]
      <4>1. PICK j \in Slots :
                   /\ hash[storage][j] = hash[storage + 1][k]
                   /\ value[storage][j] = value[storage + 1][k] /\ sealed[storage][j]
        BY <1>2, <3>1 DEF ContentInv
      <4>2. sealed'[storage][j]
        BY <1>2, <2>4, <4>1 DEF TableTypes
      <4> QED BY <4>1, <4>2
    <3> QED BY <1>1, <1>2, <3>1 DEF ContentInv
  <2>9. Lands(t)
    <3>1. PICK v : v = value[p][i]
      OBVIOUS
    <3>2. v = value'[p][i] /\ sealed'[p][i] /\ Sealed(t, v)
      BY <1>1, <1>5, <2>2, <3>1
    <3> QED BY <1>1, <1>4, <2>3, <2>5, <3>2, SealedLands
  <2> QED BY <1>1, <2>3, <2>5, <2>6, <2>7, <2>8, <2>9, Landed
<1>6. CASE Goto(t, "seal") /\ UNCHANGED <<my, sealed>>
  <2>1. Moves(t, "seal", my[t]) /\ my[t] \in Locals /\ "seal" \in Labels
    BY <1>6, Basics, Stays DEF Labels
  <2>2. CallAt(t, "seal", my[t], rover[t].index)
    BY <1>2, Basics DEF CallAt, Owns, Claims
  <2>3. ProbeAt("seal", my[t])
    BY <1>2 DEF ProbeAt, Owns, Claims
  <2>4. CopyAt("seal", my[t])
    BY <1>1, <1>2, Basics DEF CopyAt, Copies
  <2>5. UNCHANGED words
    BY <1>1, <1>6 DEF words
  <2> QED BY <1>1, <2>1, <2>2, <2>3, <2>4, <2>5, Onward
<1> QED BY <1>4, <1>5, <1>6 DEF SealCas

(* The value of the storage's sealed slot c is stored in slot i of the     *)
(* successor.                                                              *)
LEMMA CarryPut ==
    ASSUME IInv, NEW t \in Threads, NEW g \in Gens, g = storage + 1, NEW i \in Slots, NEW c \in Slots,
           NEW v \in Values, NEW h \in Hashes, hash[g][i] = h, value[g][i] = NULL,
           ~sealed[g][i], hash[storage][c] = h, value[storage][c] = v, sealed[storage][c],
           Puts(value', value, g, i, v),
           UNCHANGED <<world, hash, frozen, sealed, n_hashs, content>>
    PROVE  /\ Forward /\ TableTypes' /\ SlotInv' /\ GenInv' /\ ContentInv'
           /\ value'[g][i] = v
<1>1. /\ TableTypes /\ SlotInv /\ GenInv /\ ContentInv /\ storage \in Nat /\ storage \in Gens
      /\ UNCHANGED <<storage, size, freed>> /\ value \in [Gens -> [Slots -> Words]]
      /\ v \in Words /\ v # NULL /\ v # TOMB /\ h # NO_HASH
  BY Basics, ConstFacts DEF TableTypes, world, Words
<1>2. /\ value' \in [Gens -> [Slots -> Words]] /\ value'[g][i] = v
      /\ \A k \in Gens : \A j \in Slots : k # g \/ j # i => value'[k][j] = value[k][j]
  BY <1>1, ValuePut
<1>3. TableTypes'
  BY <1>1, <1>2 DEF TableTypes
<1>4. \A k \in Gens : \A j \in Slots : value[k][j] # NULL \/ sealed[k][j] => value'[k][j] = value[k][j]
  BY <1>2
<1>5. Forward
  BY <1>1, <1>4 DEF Forward
<1>6. SlotInv'
  <2>1. \A k \in Gens : \A j \in Slots :
          /\ value'[k][j] # NULL \/ sealed'[k][j] => hash[k][j] # NO_HASH
          /\ sealed'[k][j] => frozen'[k][j]
          /\ j >= size[k] => ~frozen'[k][j]
    BY <1>1, <1>2 DEF SlotInv
  <2> QED BY <1>1, <2>1, SlotSame
<1>7. GenInv'
  <2>1. \A k \in Gens : \A j \in Slots : frozen'[k][j] => HasNext(k)
    BY <1>1 DEF GenInv
  <2>2. \A k \in Gens : k > storage => \A j \in Slots : ~frozen'[k][j] /\ value'[k][j] # TOMB
    BY <1>1, <1>2 DEF GenInv
  <2> QED BY <1>3, <1>5, <2>1, <2>2, GenSame
<1>8. ContentInv'
  <2>1. \A j \in Slots : value'[storage][j] = value[storage][j]
    BY <1>1, <1>2
  <2>2. ASSUME storage < MaxGen, NEW k \in Slots, value'[storage + 1][k] # NULL
        PROVE  \E j \in Slots :
                 /\ hash[storage][j] = hash[storage + 1][k]
                 /\ value'[storage][j] = value'[storage + 1][k] /\ sealed[storage][j]
    <3>1. CASE k = i
      BY <1>2, <2>1, <3>1
    <3>2. CASE k # i
      <4>1. value'[storage + 1][k] = value[storage + 1][k]
        BY <1>2, <3>2
      <4>2. PICK j \in Slots :
                 /\ hash[storage][j] = hash[storage + 1][k]
                 /\ value[storage][j] = value[storage + 1][k] /\ sealed[storage][j]
        BY <1>1, <2>2, <4>1 DEF ContentInv
      <4> QED BY <2>1, <4>1, <4>2
    <3> QED BY <3>1, <3>2
  <2>3. \A k \in Hashes : content[k] # NULL =>
          \E j \in Slots : hash[storage][j] = k /\ value'[storage][j] = content[k]
    BY <1>1, <2>1 DEF ContentInv
  <2>4. \A j \in Slots : value'[storage][j] \in Values => content[hash[storage][j]] = value'[storage][j]
    BY <1>1, <2>1 DEF ContentInv
  <2> QED BY <1>1, <2>2, <2>3, <2>4 DEF ContentInv
<1> QED BY <1>2, <1>3, <1>5, <1>6, <1>7, <1>8

(* Where a value is carried to: NULL is found in a successor that is not   *)
(* the table's yet only.                                                   *)
LEMMA CarryPlace ==
    ASSUME IInv, NEW t \in Threads, Carry(t)
    PROVE  \E p \in Gens, g \in Gens, i \in Slots, c \in Slots, h \in Hashes, v \in Values :
             /\ p = my[t].p /\ c = my[t].i /\ g = p + 1 /\ p \in Nat /\ p <= storage
             /\ hash[g][i] = h /\ hash[p][c] = h /\ value[p][c] = v
             /\ frozen[p][c] /\ sealed[p][c] /\ Copies(pc[t], my[t])
             /\ value[g][i] = NULL => ~sealed[g][i] /\ p = storage
             /\ value' = [value EXCEPT ![g][i] = IF @ = NULL THEN v ELSE @] /\ CopyNext(t)
<1>1. /\ pc[t] = "carry"
      /\ UNCHANGED <<world, hash, frozen, sealed, n_hashs, rover, answer, content, calls>>
  BY DEF Carry
<1>2. /\ my[t].then = "carry" /\ hash[my[t].d][SlotOf(my[t])] = KeyOf(my[t])
      /\ TableTypes /\ SlotInv /\ GenInv /\ storage \in Nat
      /\ my[t].p \in Gens /\ my[t].p \in Nat /\ my[t].p <= storage /\ my[t].d \in Gens
  BY <1>1, Basics DEF ProbeAt
<1>3. /\ my[t].d = my[t].p + 1 /\ my[t].p + 1 \in Gens
      /\ my[t].ch \in Hashes /\ my[t].cv \in Values /\ KeyOf(my[t]) = my[t].ch
      /\ my[t].i \in Slots /\ hash[my[t].p][my[t].i] = my[t].ch /\ value[my[t].p][my[t].i] = my[t].cv
      /\ frozen[my[t].p][my[t].i] /\ sealed[my[t].p][my[t].i]
      /\ my[t].p < storage => Settled(my[t].d, my[t].ch)
      /\ Copies(pc[t], my[t])
  BY <1>2, CarriedTo
<1>4. Slot(t, my[t].d) = SlotOf(my[t]) /\ SlotOf(my[t]) \in Slots
  BY <1>1, Addressed DEF Probing
<1>5. PICK p \in Gens, g \in Gens, i \in Slots, c \in Slots, h \in Hashes, v \in Values :
        p = my[t].p /\ g = my[t].d /\ i = SlotOf(my[t]) /\ c = my[t].i /\ h = my[t].ch /\ v = my[t].cv
  BY <1>2, <1>3, <1>4
<1>6. /\ g = p + 1 /\ p \in Nat /\ p <= storage /\ hash[g][i] = h /\ hash[p][c] = h /\ value[p][c] = v
      /\ frozen[p][c] /\ sealed[p][c] /\ h # NO_HASH
      /\ p < storage => \E j \in Slots : hash[g][j] = h /\ value[g][j] # NULL
  BY <1>2, <1>3, <1>5, ConstFacts DEF Settled
<1>7. p < storage => value[g][i] # NULL
  <2>1. \A j \in Slots : hash[g][j] = h => j = i
    BY <1>2, <1>5, <1>6 DEF SlotInv
  <2> QED BY <1>6, <2>1
<1>8. ASSUME value[g][i] = NULL PROVE ~sealed[g][i] /\ p = storage
  <2>1. p = storage
    BY <1>2, <1>6, <1>7, <1>8
  <2>2. g > storage
    BY <1>2, <1>6, <2>1
  <2>3. ~frozen[g][i]
    BY <1>2, <1>5, <2>2 DEF GenInv
  <2> QED BY <1>2, <1>5, <2>1, <2>3 DEF SlotInv
<1>9. value' = [value EXCEPT ![g][i] = IF @ = NULL THEN v ELSE @] /\ CopyNext(t)
  BY <1>4, <1>5, <1>8 DEF Carry
<1>10. /\ p = my[t].p /\ c = my[t].i /\ g = p + 1 /\ p \in Nat /\ p <= storage
       /\ hash[g][i] = h /\ hash[p][c] = h /\ value[p][c] = v
       /\ frozen[p][c] /\ sealed[p][c] /\ Copies(pc[t], my[t])
       /\ value[g][i] = NULL => ~sealed[g][i] /\ p = storage
  BY <1>3, <1>5, <1>6, <1>8
<1>11. p \in Gens /\ g \in Gens /\ i \in Slots /\ c \in Slots /\ h \in Hashes /\ v \in Values
  BY <1>5
<1> DEFINE Place(q, d, j, k, x, y) ==
             /\ q = my[t].p /\ k = my[t].i /\ d = q + 1 /\ q \in Nat /\ q <= storage
             /\ hash[d][j] = x /\ hash[q][k] = x /\ value[q][k] = y
             /\ frozen[q][k] /\ sealed[q][k] /\ Copies(pc[t], my[t])
             /\ value[d][j] = NULL => ~sealed[d][j] /\ q = storage
             /\ value' = [value EXCEPT ![d][j] = IF @ = NULL THEN y ELSE @] /\ CopyNext(t)
<1>12. Place(p, g, i, c, h, v)
  BY <1>9, <1>10
<1> HIDE DEF Place
<1>13. \E q \in Gens, d \in Gens, j \in Slots, k \in Slots, x \in Hashes, y \in Values : Place(q, d, j, k, x, y)
  BY <1>11, <1>12
<1> QED BY <1>13 DEF Place

LEMMA CarryStep ==
    ASSUME IInv, NEW t \in Threads, Carry(t)
    PROVE  IInv'
<1>1. /\ pc[t] = "carry"
      /\ UNCHANGED <<world, hash, frozen, sealed, n_hashs, rover, answer, content, calls>>
  BY DEF Carry
<1>2. TableTypes /\ storage \in Nat
  BY Basics
<1>5. PICK p \in Gens, g \in Gens, i \in Slots, c \in Slots, h \in Hashes, v \in Values :
             /\ p = my[t].p /\ c = my[t].i /\ g = p + 1 /\ p \in Nat /\ p <= storage
             /\ hash[g][i] = h /\ hash[p][c] = h /\ value[p][c] = v
             /\ frozen[p][c] /\ sealed[p][c] /\ Copies(pc[t], my[t])
             /\ value[g][i] = NULL => ~sealed[g][i] /\ p = storage
             /\ value' = [value EXCEPT ![g][i] = IF @ = NULL THEN v ELSE @] /\ CopyNext(t)
  BY CarryPlace
<1>10. /\ Forward /\ TableTypes' /\ SlotInv' /\ GenInv' /\ ContentInv'
       /\ value'[g][i] # NULL
  <2>1. CASE value[g][i] # NULL
    <3>1. value \in [Gens -> [Slots -> Words]]
      BY <1>2 DEF TableTypes
    <3>2. value' = [value EXCEPT ![g] = [value[g] EXCEPT ![i] = value[g][i]]]
      BY <1>5, <2>1
    <3>3. [value[g] EXCEPT ![i] = value[g][i]] = value[g]
      BY <1>5, <3>1
    <3>4. value' = value
      BY <1>5, <3>1, <3>2, <3>3
    <3>5. UNCHANGED <<world, words, content>>
      BY <1>1, <3>4 DEF words
    <3> QED BY <2>1, <3>4, <3>5, Untouched
  <2>2. CASE value[g][i] = NULL
    <3>1. value' = [value EXCEPT ![g][i] = v]
      BY <1>5, <2>2
    <3>2. Puts(value', value, g, i, v)
      BY <3>1 DEF Puts
    <3>3. p = storage /\ g = storage + 1 /\ ~sealed[g][i]
      BY <1>5, <2>2
    <3>4. /\ hash[storage][c] = h /\ value[storage][c] = v /\ sealed[storage][c]
      BY <1>5, <3>3
    <3>5. /\ Forward /\ TableTypes' /\ SlotInv' /\ GenInv' /\ ContentInv'
          /\ value'[g][i] = v
      BY <1>1, <1>5, <2>2, <3>2, <3>3, <3>4, CarryPut, ZenonT(60)
    <3> QED BY <3>5, ConstFacts
  <2> QED BY <2>1, <2>2
<1>11. Done(p, c)'
  <2>1. Settled(p + 1, h)'
    BY <1>1, <1>5, <1>10, ConstFacts DEF Settled
  <2> QED BY <1>1, <1>5, <2>1 DEF Done
<1>12. Lands(t)
  <2>1. pc[t] # "idle"
    BY <1>1
  <2> QED BY <1>5, <1>10, <1>11, <2>1, CopyNextLands
<1> QED BY <1>1, <1>10, <1>12, Landed

(* Once a migration of the storage is done with all slots, the successor   *)
(* has everything.                                                         *)
LEMMA Replaced ==
    ASSUME IInv, NEW t \in Threads, NEW p \in Gens, p = storage, HasNext(p),
           \A j \in Index(p) : Done(p, j),
           storage' = p + 1, freed' = [freed EXCEPT ![p] = @ + 1],
           UNCHANGED <<size, hash, frozen, value, sealed, n_hashs, content>>
    PROVE  Forward /\ TableTypes' /\ SlotInv' /\ GenInv' /\ ContentInv'
<1>1. /\ TableTypes /\ SlotInv /\ GenInv /\ ContentInv /\ p \in Nat
      /\ p + 1 \in Gens /\ size[p + 1] # 0 /\ freed \in [Gens -> Nat]
      /\ content \in [Hashes -> Values \union {NULL}]
  BY Basics, Numbers DEF TableTypes
<1>2. freed' \in [Gens -> Nat] /\ freed'[p] = freed[p] + 1 /\ \A g \in Gens : g # p => freed'[g] = freed[g]
  BY <1>1
<1>3. TableTypes'
  BY <1>1, <1>2 DEF TableTypes
<1>4. Forward
  BY <1>1 DEF Forward
<1>5. SlotInv'
  BY <1>1 DEF SlotInv, Index
<1>6. \A g \in Gens : g \in Nat
  BY DEF Gens
<1>7. GenInv'
  <2>1. ASSUME NEW g \in Gens, g < p + 1, NEW i \in Index(g) PROVE Done(g, i)'
    <3>1. Done(g, i)
      BY <1>1, <1>6, <2>1 DEF GenInv
    <3> QED BY <3>1 DEF Done, Settled
  <2>2. ASSUME NEW g \in Gens
        PROVE  /\ g <= p + 1 => size[g] # 0
               /\ size[g] # 0 => g <= (p + 1) + 1
               /\ freed'[g] = IF g < p + 1 THEN 1 ELSE 0
    <3>1. /\ g <= p => size[g] # 0
          /\ size[g] # 0 => g <= p + 1
          /\ freed[g] = IF g < p THEN 1 ELSE 0
      BY <1>1 DEF GenInv
    <3>2. g \in Nat
      BY <1>6
    <3>3. g <= p + 1 => size[g] # 0
      BY <1>1, <3>1, <3>2
    <3>4. size[g] # 0 => g <= (p + 1) + 1
      BY <1>1, <3>1, <3>2
    <3>5. freed'[g] = IF g < p + 1 THEN 1 ELSE 0
      BY <1>1, <1>2, <3>1, <3>2
    <3> QED BY <3>3, <3>4, <3>5
  <2>3. ASSUME NEW g \in Gens, NEW i \in Slots
        PROVE  /\ frozen[g][i] => HasNext(g)'
               /\ g > p + 1 => ~frozen[g][i] /\ value[g][i] # TOMB
    <3>1. g > p + 1 => g > p
      BY <1>1, <1>6
    <3> QED BY <1>1, <3>1 DEF GenInv, HasNext
  <2>4. \A g \in Gens : Index(g)' = Index(g)
    BY DEF Index
  <2> QED BY <2>1, <2>2, <2>3, <2>4 DEF GenInv
<1>8. \A i, j \in Slots : hash[p][i] = hash[p][j] /\ hash[p][i] # NO_HASH => i = j
  BY <1>1 DEF SlotInv
<1>9. ASSUME NEW k \in Slots, value[p + 1][k] # NULL
      PROVE  \E j \in Slots : hash[p][j] = hash[p + 1][k] /\ value[p][j] = value[p + 1][k]
  <2>1. p < MaxGen
    BY DEF HasNext
  <2> QED BY <1>1, <1>9, <2>1 DEF ContentInv
<1>10. ASSUME NEW h \in Hashes, content[h] # NULL
       PROVE  \E j \in Slots : hash[p + 1][j] = h /\ value[p + 1][j] = content[h]
  <2>1. PICK j \in Slots : hash[p][j] = h /\ value[p][j] = content[h]
    BY <1>1, <1>10 DEF ContentInv
  <2>2. content[h] \in Values /\ h # NO_HASH
    BY <1>1, <1>10, ConstFacts
  <2>3. j \in Index(p)
    BY <2>1, <2>2, Current
  <2>4. Settled(p + 1, h)
    BY <2>1, <2>2, <2>3 DEF Done
  <2>5. PICK k \in Slots : hash[p + 1][k] = h /\ value[p + 1][k] # NULL
    BY <2>4 DEF Settled
  <2>6. PICK x \in Slots : hash[p][x] = h /\ value[p][x] = value[p + 1][k]
    BY <1>9, <2>5
  <2>7. x = j
    BY <1>8, <2>1, <2>2, <2>6
  <2> QED BY <2>1, <2>5, <2>6, <2>7
<1>11. ASSUME NEW k \in Slots, value[p + 1][k] \in Values
       PROVE  content[hash[p + 1][k]] = value[p + 1][k]
  <2>1. PICK j \in Slots : hash[p][j] = hash[p + 1][k] /\ value[p][j] = value[p + 1][k]
    BY <1>9, <1>11, ConstFacts
  <2> QED BY <1>1, <1>11, <2>1 DEF ContentInv
<1>12. ASSUME p + 1 < MaxGen, NEW k \in Slots PROVE value[(p + 1) + 1][k] = NULL
  <2>1. (p + 1) + 1 \in Gens
    BY <1>1, <1>12, ConstFacts DEF Gens
  <2>2. ~((p + 1) + 1 <= p + 1)
    BY <1>1
  <2>3. size[(p + 1) + 1] = 0
    BY <1>1, <2>1, <2>2 DEF GenInv
  <2>4. k >= size[(p + 1) + 1]
    BY <2>3 DEF Slots
  <2>5. hash[(p + 1) + 1][k] = NO_HASH
    BY <1>1, <2>1, <2>4 DEF SlotInv
  <2> QED BY <1>1, <2>1, <2>5 DEF SlotInv
<1>13. ContentInv'
  BY <1>10, <1>11, <1>12 DEF ContentInv
<1> QED BY <1>3, <1>4, <1>5, <1>7, <1>13

LEMMA SwapStep ==
    ASSUME IInv, NEW t \in Threads, Swap(t)
    PROVE  IInv'
<1>1. /\ pc[t] = "swap" /\ UNCHANGED <<size, words, rover, answer, content, calls>>
      /\ UNCHANGED <<size, hash, frozen, value, sealed, n_hashs, content>>
  BY DEF Swap, words
<1>2. /\ my[t].then = "value" /\ my[t].call \in Calls[t] /\ my[t].i = size[my[t].p]
      /\ HasNext(my[t].p) /\ \A j \in 0 .. my[t].i - 1 : Done(my[t].p, j)
      /\ my[t] \in Locals /\ storage \in Nat /\ my[t].p \in Gens /\ 0 \in Gens
      /\ freed \in [Gens -> Nat]
  BY <1>1, Basics, ConstFacts DEF ProbeAt, Claims, CallAt, CopyAt, TableTypes
<1>3. PICK p \in Gens : p = my[t].p
  BY <1>2
<1>4. Forward /\ TableTypes' /\ SlotInv' /\ GenInv' /\ ContentInv'
  <2>1. CASE storage = p
    <3>1. storage' = p + 1 /\ freed' = [freed EXCEPT ![p] = @ + 1]
      BY <1>3, <2>1 DEF Swap
    <3>2. \A j \in Index(p) : Done(p, j)
      BY <1>2, <1>3 DEF Index
    <3> QED BY <1>1, <1>2, <1>3, <2>1, <3>1, <3>2, Replaced
  <2>2. CASE storage # p
    <3>1. storage' = storage /\ freed' = [freed EXCEPT ![p] = freed[p]]
      BY <1>3, <2>2 DEF Swap
    <3>2. freed' = freed
      BY <1>2, <3>1
    <3>3. UNCHANGED <<world, words, content>>
      BY <1>1, <3>1, <3>2 DEF world
    <3> QED BY <3>3, Untouched
  <2> QED BY <2>1, <2>2
<1>5. Lands(t)
  <2>1. PICK x \in Nat : x = rover[t].index
    BY Basics
  <2>2. 0 <= storage'
    BY <1>2, <1>4 DEF Forward, TableTypes, Gens
  <2>3. CASE my' = [my EXCEPT ![t] = NoLocals] /\ Goto(t, "idle")
    <3>1. NoLocals \in Locals /\ NoLocals.call \in Calls[t] \union {Idle} /\ "idle" \in Labels
      BY Nowhere DEF Labels
    <3>2. Moves(t, "idle", NoLocals)
      BY <2>3 DEF Moves, Goto
    <3>3. CallAt(t, "idle", NoLocals, x)' /\ ProbeAt("idle", NoLocals)' /\ CopyAt("idle", NoLocals)'
      <4>1. NoLocals.call = Idle /\ NoLocals.p = 0 /\ NoLocals.then = "value"
        BY DEF NoLocals
      <4> QED BY <2>2, <4>1 DEF CallAt, ProbeAt, CopyAt, Owns, Claims, Copies
    <3> QED BY <2>1, <3>1, <3>2, <3>3 DEF Lands
  <2>4. CASE my' = [my EXCEPT ![t].p = 0, ![t].i = 0] /\ Goto(t, "load")
    <3> DEFINE new == [my[t] EXCEPT !.p = 0, !.i = 0]
    <3>1. new \in Locals /\ new.call = my[t].call /\ new.p = 0 /\ new.then = "value"
      BY <1>2 DEF Locals
    <3>2. my' = [my EXCEPT ![t] = new]
      BY <2>4
    <3> HIDE DEF new
    <3>3. PICK m \in Locals : m = new /\ m.call \in Calls[t] /\ m.p = 0 /\ m.then = "value"
      BY <1>2, <3>1
    <3>4. Moves(t, "load", m) /\ "load" \in Labels
      BY <2>4, <3>2, <3>3 DEF Moves, Goto, Labels
    <3>5. CallAt(t, "load", m, x)' /\ ProbeAt("load", m)' /\ CopyAt("load", m)'
      BY <2>2, <3>3 DEF CallAt, ProbeAt, CopyAt, Owns, Claims, Copies
    <3> QED BY <2>1, <3>3, <3>4, <3>5 DEF Lands
  <2> QED BY <2>3, <2>4 DEF Swap
<1> QED BY <1>1, <1>4, <1>5, Landed
-----------------------------------------------------------------------------

LEMMA NextIInv == IInv /\ [Next]_vars => IInv'
<1> SUFFICES ASSUME IInv, [Next]_vars PROVE IInv'
  OBVIOUS
<1>1. CASE UNCHANGED vars
  <2>1. UNCHANGED <<storage, size, freed, hash, frozen, value, sealed, n_hashs, content>>
        /\ UNCHANGED <<pc, my, rover, answer, calls>>
    BY <1>1 DEF vars, world, words
  <2>2. TypeInv'
    BY <2>1 DEF IInv, TypeInv, TableTypes, ThreadTypes, CallerTypes
  <2>3. SlotInv'
    BY <2>1 DEF IInv, SlotInv, Index
  <2>4. GenInv'
    BY <2>1 DEF IInv, GenInv, Index, Done, Settled, HasNext
  <2>5. ContentInv'
    BY <2>1 DEF IInv, ContentInv
  <2>6. ASSUME NEW t \in Threads PROVE Placed(t, pc[t], my[t], rover[t].index)'
    <3>1. CallAt(t, pc[t], my[t], rover[t].index)'
      BY <2>1, Basics DEF CallAt, Owns, Claims
    <3>2. ProbeAt(pc[t], my[t])'
      BY <2>1, Basics DEF ProbeAt, Owns, Claims, KeyOf, SlotOf, Passed
    <3>3. CopyAt(pc[t], my[t])'
      BY <2>1, Basics DEF CopyAt, Copies, Done, Settled, HasNext
    <3> QED BY <3>1, <3>2, <3>3 DEF Placed
  <2> QED BY <2>2, <2>3, <2>4, <2>5, <2>6 DEF IInv
<1>2. CASE Next
  <2>1. PICK t \in Threads : Step(t) \/ Enumerate(t) \/ \E c \in Calls[t] : Call(t, c)
    BY <1>2 DEF Next
  <2>2. CASE Enumerate(t) \/ \E c \in Calls[t] : Call(t, c)
    BY <2>2, EnumerateStep, CallStep
  <2>3. CASE Step(t)
    <3>1. CASE \/ Load(t) \/ Check(t) \/ LookHash(t) \/ LookValue(t)
               \/ ReadValue(t) \/ ValueCas(t) \/ RemHash(t) \/ RemCas(t)
               \/ EnumHash(t) \/ EnumValue(t)
      BY <3>1, LoadStep, CheckStep, LookHashStep, LookValueStep, ReadValueStep, ValueCasStep,
         RemHashStep, RemCasStep, EnumHashStep, EnumValueStep
    <3>2. CASE \/ ClaimRead(t) \/ ClaimCas(t) \/ ClaimInc(t) \/ MigNext(t) \/ MigAlloc(t)
               \/ FreezeRead(t) \/ FreezeCas(t) \/ SealRead(t) \/ SealCas(t)
               \/ Carry(t) \/ Swap(t)
      BY <3>2, ClaimReadStep, ClaimCasStep, ClaimIncStep, MigNextStep, MigAllocStep, FreezeReadStep,
         FreezeCasStep, SealReadStep, SealCasStep, CarryStep, SwapStep
    <3> QED BY <2>3, <3>1, <3>2 DEF Step
  <2> QED BY <2>1, <2>2, <2>3
<1> QED BY <1>1, <1>2

(* The inductive invariant holds in every state of the hashtable: where    *)
(* its slots, storages and contents are, and where each call is between    *)
(* its atomic accesses (_mulle_concurrent_hashtable_insert, _remove,       *)
(* _migrate_storage and the others).                                       *)
THEOREM Invariance == Spec => []IInv
<1>1. Init => IInv
  BY InitIInv
<1>2. IInv /\ [Next]_vars => IInv'
  BY NextIInv
<1> QED BY <1>1, <1>2, PTL DEF Spec
-----------------------------------------------------------------------------

(* The count of the claimed slots *)

(* The sets that are counted. *)
LEMMA Finite ==
    ASSUME IInv, NEW g \in Gens
    PROVE  /\ IsFiniteSet(ClaimedSlots(g)) /\ Cardinality(ClaimedSlots(g)) \in Nat
           /\ Cardinality(ClaimedSlots(g)) <= size[g]
           /\ IsFiniteSet(Counting(g)) /\ Cardinality(Counting(g)) \in Nat
<1>1. TableTypes /\ SlotInv /\ size[g] \in Nat
  BY Numbers DEF IInv, TypeInv
<1>2. IsFiniteSet(0 .. size[g] - 1)
      /\ Cardinality(0 .. size[g] - 1) = IF 0 > size[g] - 1 THEN 0 ELSE (size[g] - 1) - 0 + 1
  <2>1. PICK a \in Int, b \in Int : a = 0 /\ b = size[g] - 1
    BY <1>1
  <2>2. IsFiniteSet(a .. b) /\ Cardinality(a .. b) = IF a > b THEN 0 ELSE b - a + 1
    BY FS_Interval
  <2> QED BY <2>1, <2>2
<1>3. ClaimedSlots(g) \in SUBSET (0 .. size[g] - 1)
  <2>1. ASSUME NEW i \in Slots, hash[g][i] # NO_HASH PROVE i \in 0 .. size[g] - 1
    <3>1. ~(i >= size[g])
      BY <1>1, <2>1 DEF SlotInv
    <3>2. i \in Nat
      BY <1>1, Numbers
    <3> QED BY <1>1, <3>1, <3>2
  <2> QED BY <2>1 DEF ClaimedSlots
<1>4. IsFiniteSet(ClaimedSlots(g)) /\ Cardinality(ClaimedSlots(g)) <= Cardinality(0 .. size[g] - 1)
  BY <1>2, <1>3, FS_Subset
<1>5. Cardinality(ClaimedSlots(g)) \in Nat
  BY <1>4, FS_CardinalityType
<1>6. IsFiniteSet(Threads)
  BY HashtableAssumption
<1>7. IsFiniteSet(Counting(g))
  <2>1. Counting(g) \in SUBSET Threads
    BY DEF Counting
  <2> QED BY <1>6, <2>1, FS_Subset
<1>8. Cardinality(Counting(g)) \in Nat
  BY <1>7, FS_CardinalityType
<1>9. Cardinality(0 .. size[g] - 1) = size[g]
  BY <1>1, <1>2
<1> QED BY <1>4, <1>5, <1>7, <1>8, <1>9

LEMMA InitCount == Init => CountInv
<1> SUFFICES ASSUME Init PROVE CountInv
  OBVIOUS
<1>0. IInv
  BY InitIInv
<1>1. /\ \A g \in Gens : \A i \in Slots :
           hash[g][i] # NO_HASH => g = 0 /\ hash[g][i] \in Filled /\ Probe(InitSize, hash[g][i], 0) = i
      /\ \A h \in Filled :
           Probe(InitSize, h, 0) \in Slots /\ hash[0][Probe(InitSize, h, 0)] = h
  BY InitSlots
<1>2. /\ n_hashs = [g \in Gens |-> IF g = 0 THEN Cardinality(Filled) ELSE 0]
      /\ pc = [t \in Threads |-> "idle"]
  BY DEF Init
<1>3. ASSUME NEW g \in Gens PROVE Counting(g) = {} /\ Cardinality(Counting(g)) = 0
  <2>1. Counting(g) = {}
    BY <1>2 DEF Counting
  <2>2. Cardinality(Counting(g)) = Cardinality({})
    BY <2>1
  <2> QED BY <2>1, <2>2, FS_EmptySet
<1>4. ASSUME NEW g \in Gens, g # 0 PROVE Cardinality(ClaimedSlots(g)) = 0
  <2>1. ClaimedSlots(g) = {}
    BY <1>1, <1>4 DEF ClaimedSlots
  <2>2. Cardinality(ClaimedSlots(g)) = Cardinality({})
    BY <2>1
  <2> QED BY <2>2, FS_EmptySet
<1>5. Cardinality(ClaimedSlots(0)) = Cardinality(Filled) /\ Cardinality(Filled) \in Nat
  <2> DEFINE C == ClaimedSlots(0)
             f == [i \in C |-> hash[0][i]]
  <2>1. 0 \in Gens
    BY ConstFacts
  <2>2. \A i \in C : i \in Slots /\ hash[0][i] \in Filled /\ Probe(InitSize, hash[0][i], 0) = i
    BY <1>1, <2>1 DEF ClaimedSlots
  <2>3. f \in [C -> Filled] /\ \A i \in C : f[i] = hash[0][i]
    BY <2>2
  <2>4. ASSUME NEW h \in Filled PROVE \E i \in C : f[i] = h
    <3>1. h # NO_HASH /\ Probe(InitSize, h, 0) \in Slots /\ hash[0][Probe(InitSize, h, 0)] = h
      BY <1>1, ConstFacts
    <3>2. Probe(InitSize, h, 0) \in C
      BY <3>1 DEF ClaimedSlots
    <3> QED BY <2>3, <3>1, <3>2
  <2>5. \A i, j \in C : f[i] = f[j] => i = j
    BY <2>2, <2>3
  <2>6. IsFiniteSet(C)
    BY <1>0, <2>1, Finite
  <2> HIDE DEF f, C
  <2>7. f \in Bijection(C, Filled)
    BY <2>3, <2>4, <2>5 DEF Bijection, Injection, Surjection, IsInjective
  <2>8. ExistsBijection(C, Filled)
    BY <2>7 DEF ExistsBijection
  <2>9. Cardinality(Filled) = Cardinality(C) /\ Cardinality(C) \in Nat
    BY <2>6, <2>8, FS_Bijection, FS_CardinalityType
  <2> QED BY <2>9 DEF C
<1>6. ASSUME NEW g \in Gens
      PROVE  Cardinality(ClaimedSlots(g)) = n_hashs[g] + Cardinality(Counting(g))
  <2>1. CASE g = 0
    <3>1. n_hashs[g] = Cardinality(Filled) /\ Cardinality(ClaimedSlots(g)) = Cardinality(Filled)
      BY <1>2, <1>5, <2>1
    <3> QED BY <1>3, <1>5, <3>1
  <2>2. CASE g # 0
    <3>1. n_hashs[g] = 0
      BY <1>2, <2>2
    <3> QED BY <1>3, <1>4, <2>2, <3>1
  <2> QED BY <2>1, <2>2
<1> QED BY <1>6 DEF CountInv

(* A step of a thread that neither claims nor counts. *)
LEMMA CountKept ==
    ASSUME CountInv, NEW t \in Threads, UNCHANGED <<hash, n_hashs>>,
           pc[t] # "claim_inc", pc'[t] # "claim_inc",
           \A u \in Threads \ {t} : pc'[u] = pc[u] /\ my'[u].d = my[u].d
    PROVE  CountInv'
<1>1. ASSUME NEW g \in Gens
      PROVE  Cardinality(ClaimedSlots(g)') = n_hashs'[g] + Cardinality(Counting(g)')
  <2>1. ClaimedSlots(g)' = ClaimedSlots(g) /\ Counting(g)' = Counting(g)
    BY DEF ClaimedSlots, Counting
  <2>2. /\ Cardinality(ClaimedSlots(g)') = Cardinality(ClaimedSlots(g))
        /\ Cardinality(Counting(g)') = Cardinality(Counting(g))
    BY <2>1
  <2> QED BY <2>2 DEF CountInv
<1> QED BY <1>1 DEF CountInv

(* What a thread does that looks at a slot for its hash. *)
LEMMA ClaimedMoves ==
    ASSUME ThreadTypes, NEW t \in Threads, NEW h, NEW f, Claimed(t, h, f)
    PROVE  /\ pc'[t] \in {"mig_next", "value", "carry", "claim"}
           /\ \A u \in Threads \ {t} : pc'[u] = pc[u] /\ my'[u].d = my[u].d
<1>1. pc \in [Threads -> Labels] /\ my \in [Threads -> Locals]
  BY DEF ThreadTypes
<1>2. \E l \in {"mig_next", "value", "carry", "claim"} : Goto(t, l)
  BY DEF Claimed, FindOrClaim, CarryProbe
<1>3. \A u \in Threads \ {t} : my'[u] = my[u]
  <2>1. CASE UNCHANGED my
    BY <2>1
  <2>2. CASE ProbeNext(t, my[t].d)
    BY <1>1, <2>2 DEF ProbeNext
  <2>3. CASE CarryOn(t)
    BY <1>1, <2>3 DEF CarryOn
  <2>4. CASE my[t].then = "value" /\ FindOrClaim(t, h, f)
    BY <2>1, <2>2, <2>4 DEF FindOrClaim
  <2>5. CASE my[t].then = "carry" /\ CarryProbe(t, h)
    BY <2>1, <2>2, <2>3, <2>5 DEF CarryProbe
  <2> QED BY <2>4, <2>5 DEF Claimed
<1>4. ASSUME NEW l \in {"mig_next", "value", "carry", "claim"}, Goto(t, l)
      PROVE  pc'[t] = l /\ \A u \in Threads \ {t} : pc'[u] = pc[u]
  BY <1>1, <1>4 DEF Goto
<1> QED BY <1>2, <1>3, <1>4

(* A claim: one more slot is claimed, and one more thread has to count it. *)
LEMMA CountClaim ==
    ASSUME IInv, CountInv, NEW t \in Threads, ClaimCas(t)
    PROVE  CountInv'
<1>1. /\ pc[t] = "claim_cas" /\ UNCHANGED n_hashs /\ TableTypes /\ ThreadTypes
      /\ pc \in [Threads -> Labels]
  BY DEF ClaimCas, IInv, TypeInv, ThreadTypes
<1>2. /\ Slot(t, my[t].d) = SlotOf(my[t]) /\ Key(t) = KeyOf(my[t]) /\ KeyOf(my[t]) \in Hashes
      /\ SlotOf(my[t]) \in Slots /\ my[t].d \in Gens
  BY <1>1, Addressed, Basics DEF Probing
<1>3. PICK d \in Gens, s \in Slots, k \in Hashes :
        d = my[t].d /\ s = SlotOf(my[t]) /\ k = KeyOf(my[t])
  BY <1>2
<1>4. CASE Claimed(t, hash[d][s], frozen[d][s]) /\ UNCHANGED hash
  <2>1. PICK h, f : h = hash[d][s] /\ f = frozen[d][s]
    OBVIOUS
  <2>2. /\ pc'[t] \in {"mig_next", "value", "carry", "claim"}
        /\ \A u \in Threads \ {t} : pc'[u] = pc[u] /\ my'[u].d = my[u].d
    BY <1>1, <1>4, <2>1, ClaimedMoves
  <2>3. pc[t] # "claim_inc" /\ pc'[t] # "claim_inc"
    BY <1>1, <2>2
  <2> QED BY <1>1, <1>4, <2>2, <2>3, CountKept
<1>5. CASE /\ hash[d][s] = NO_HASH /\ hash' = [hash EXCEPT ![d][s] = k]
           /\ Goto(t, "claim_inc") /\ UNCHANGED my
  <2>1. Puts(hash', hash, d, s, k) /\ k \in Keys /\ k # NO_HASH /\ hash \in [Gens -> [Slots -> Keys]]
    BY <1>1, <1>5, ConstFacts DEF Puts, Keys, TableTypes
  <2>2. /\ hash'[d][s] = k
        /\ \A h \in Gens : \A j \in Slots : h # d \/ j # s => hash'[h][j] = hash[h][j]
    BY <1>3, <2>1, HashPut
  <2>3. pc'[t] = "claim_inc" /\ \A u \in Threads \ {t} : pc'[u] = pc[u]
    BY <1>1, <1>5 DEF Goto
  <2>4. ASSUME NEW g \in Gens
        PROVE  Cardinality(ClaimedSlots(g)') = n_hashs'[g] + Cardinality(Counting(g)')
    <3>1. Cardinality(ClaimedSlots(g)) = n_hashs[g] + Cardinality(Counting(g))
      BY DEF CountInv
    <3>2. /\ IsFiniteSet(ClaimedSlots(g)) /\ Cardinality(ClaimedSlots(g)) \in Nat
          /\ IsFiniteSet(Counting(g)) /\ Cardinality(Counting(g)) \in Nat
      BY Finite
    <3>3. n_hashs[g] \in Nat
      BY <1>1 DEF TableTypes
    <3>4. CASE g # d
      <4>1. ClaimedSlots(g)' = ClaimedSlots(g)
        BY <2>2, <3>4 DEF ClaimedSlots
      <4>2. Counting(g)' = Counting(g)
        BY <1>3, <1>5, <2>3, <3>4 DEF Counting
      <4>3. /\ Cardinality(ClaimedSlots(g)') = Cardinality(ClaimedSlots(g))
            /\ Cardinality(Counting(g)') = Cardinality(Counting(g))
        BY <4>1, <4>2
      <4> QED BY <1>1, <3>1, <4>3
    <3>5. CASE g = d
      <4>1. ClaimedSlots(g)' = ClaimedSlots(g) \cup {s} /\ s \notin ClaimedSlots(g)
        BY <1>5, <2>1, <2>2, <3>5 DEF ClaimedSlots
      <4>2. Counting(g)' = Counting(g) \cup {t} /\ t \notin Counting(g)
        BY <1>1, <1>3, <1>5, <2>3, <3>5 DEF Counting
      <4>3. Cardinality(ClaimedSlots(g) \cup {s}) = Cardinality(ClaimedSlots(g)) + 1
        BY <3>2, <4>1, FS_AddElement
      <4>4. Cardinality(Counting(g) \cup {t}) = Cardinality(Counting(g)) + 1
        BY <3>2, <4>2, FS_AddElement
      <4>5. /\ Cardinality(ClaimedSlots(g)') = Cardinality(ClaimedSlots(g)) + 1
            /\ Cardinality(Counting(g)') = Cardinality(Counting(g)) + 1
        BY <4>1, <4>2, <4>3, <4>4
      <4> QED BY <1>1, <3>1, <3>2, <3>3, <4>5
    <3> QED BY <3>4, <3>5
  <2> QED BY <2>4 DEF CountInv
<1> QED BY <1>2, <1>3, <1>4, <1>5 DEF ClaimCas

(* A claim is counted. *)
LEMMA CountCounts ==
    ASSUME IInv, CountInv, NEW t \in Threads, ClaimInc(t)
    PROVE  CountInv'
<1>1. /\ pc[t] = "claim_inc" /\ Goto(t, my[t].then) /\ UNCHANGED <<my, hash>>
      /\ n_hashs' = [n_hashs EXCEPT ![my[t].d] = @ + 1]
      /\ n_hashs \in [Gens -> Nat] /\ pc \in [Threads -> Labels]
  BY DEF ClaimInc, IInv, TypeInv, TableTypes, ThreadTypes
<1>2. PICK d \in Gens : d = my[t].d
  BY Basics
<1>3. pc'[t] # "claim_inc" /\ \A u \in Threads \ {t} : pc'[u] = pc[u]
  BY <1>1, Basics DEF Goto
<1>4. ASSUME NEW g \in Gens
      PROVE  Cardinality(ClaimedSlots(g)') = n_hashs'[g] + Cardinality(Counting(g)')
  <2>1. Cardinality(ClaimedSlots(g)) = n_hashs[g] + Cardinality(Counting(g))
    BY DEF CountInv
  <2>2. IsFiniteSet(Counting(g)) /\ Cardinality(Counting(g)) \in Nat
    BY Finite
  <2>3. ClaimedSlots(g)' = ClaimedSlots(g)
    BY <1>1 DEF ClaimedSlots
  <2>4. Cardinality(ClaimedSlots(g)') = Cardinality(ClaimedSlots(g))
    BY <2>3
  <2>5. CASE g # d
    <3>1. Counting(g)' = Counting(g)
      BY <1>1, <1>2, <1>3, <2>5 DEF Counting
    <3>2. Cardinality(Counting(g)') = Cardinality(Counting(g)) /\ n_hashs'[g] = n_hashs[g]
      BY <1>1, <1>2, <2>5, <3>1
    <3> QED BY <2>1, <2>4, <3>2
  <2>6. CASE g = d
    <3>1. Counting(g)' = Counting(g) \ {t} /\ t \in Counting(g)
      BY <1>1, <1>2, <1>3, <2>6 DEF Counting
    <3>2. Cardinality(Counting(g) \ {t}) = Cardinality(Counting(g)) - 1
      BY <2>2, <3>1, FS_RemoveElement
    <3>3. Cardinality(Counting(g)') = Cardinality(Counting(g)) - 1
      BY <3>1, <3>2
    <3>4. n_hashs'[g] = n_hashs[g] + 1 /\ n_hashs[g] \in Nat
      BY <1>1, <1>2, <2>6
    <3> QED BY <2>1, <2>2, <2>4, <3>3, <3>4
  <2> QED BY <2>5, <2>6
<1> QED BY <1>4 DEF CountInv

(* All other steps neither claim nor count. *)
LEMMA CountElsewhere ==
    ASSUME IInv, CountInv, NEW t \in Threads,
           \/ Load(t) \/ Check(t) \/ LookHash(t) \/ LookValue(t) \/ ClaimRead(t) \/ ReadValue(t)
           \/ ValueCas(t) \/ RemHash(t) \/ RemCas(t) \/ MigNext(t) \/ MigAlloc(t)
           \/ FreezeRead(t) \/ FreezeCas(t) \/ SealRead(t) \/ SealCas(t) \/ Carry(t) \/ Swap(t)
           \/ EnumHash(t) \/ EnumValue(t) \/ Enumerate(t) \/ \E c \in Calls[t] : Call(t, c)
    PROVE  CountInv'
<1>1. ThreadTypes /\ pc \in [Threads -> Labels] /\ my \in [Threads -> Locals]
  BY DEF IInv, TypeInv, ThreadTypes
<1>2. SUFFICES ASSUME TRUE
               PROVE  /\ UNCHANGED <<hash, n_hashs>>
                      /\ \A u \in Threads \ {t} : pc'[u] = pc[u] /\ my'[u].d = my[u].d
                      /\ pc[t] # "claim_inc" /\ pc'[t] # "claim_inc"
  BY CountKept
<1>3. CASE Load(t)
  <2>1. PICK l \in {"idle", "look_hash", "enum_hash", "check", "rem_hash", "mig_next"} : Goto(t, l)
    <3>1. CASE Return(t, "ECANCELED")
      BY <3>1 DEF Return, Answer
    <3>2. CASE ~Return(t, "ECANCELED")
      <4>1. my[t].call \in Calls[t]
        BY <1>3, Basics DEF Load, CallAt
      <4>2. my[t].call.op \in {"insert", "register", "remove", "lookup", "next", "migrate"}
        BY <4>1, CallFacts
      <4> QED BY <1>3, <3>2, <4>2 DEF Load
    <3> QED BY <3>1, <3>2
  <2>2. \A u \in Threads \ {t} : my'[u] = my[u]
    BY <1>1, <1>3 DEF Load, Return
  <2> QED BY <1>1, <1>3, <2>1, <2>2 DEF Load, words, Goto
<1>4. CASE Check(t)
  <2>1. PICK l \in {"mig_next", "claim"} : Goto(t, l)
    BY <1>4 DEF Check
  <2> QED BY <1>1, <1>4, <2>1 DEF Check, Goto, words
<1>5. CASE LookHash(t) \/ LookValue(t) \/ RemHash(t)
  BY <1>1, <1>5 DEF LookHash, LookValue, RemHash, ProbeNext, Return, Answer, Goto, words
<1>6. CASE ClaimRead(t)
  <2>1. pc[t] = "claim" /\ UNCHANGED <<hash, n_hashs>>
    BY <1>6 DEF ClaimRead, words
  <2>2. CASE Goto(t, "claim_cas") /\ UNCHANGED my
    BY <1>1, <2>1, <2>2 DEF Goto
  <2>3. CASE \E h, f : Claimed(t, h, f)
    BY <1>1, <2>1, <2>3, ClaimedMoves
  <2> QED BY <1>6, <2>2, <2>3 DEF ClaimRead
<1>7. CASE ReadValue(t)
  BY <1>1, <1>7 DEF ReadValue, Exists, Return, Answer, Goto, words
<1>8. ASSUME NEW h, NEW v, NEW a, ReturnWritten(t, h, v, a)
      PROVE  pc'[t] = "idle" /\ \A u \in Threads \ {t} : pc'[u] = pc[u] /\ my'[u].d = my[u].d
  <2>1. pc'[t] = "idle" /\ \A u \in Threads \ {t} : pc'[u] = pc[u]
    BY <1>1, <1>8 DEF ReturnWritten, Answer, Goto
  <2>2. ASSUME NEW u \in Threads \ {t} PROVE my'[u].d = my[u].d
    <3>1. my'[u] = [my[u] EXCEPT !.seen = @ \union {v}] \/ my'[u] = my[u]
      BY <1>8 DEF ReturnWritten
    <3>2. [my[u] EXCEPT !.seen = @ \union {v}].d = my[u].d
      <4>1. my[u] \in Locals
        BY <1>1
      <4> QED BY <4>1 DEF Locals
    <3> QED BY <3>1, <3>2
  <2> QED BY <2>1, <2>2
<1>9. CASE ValueCas(t)
  <2>1. pc[t] = "value_cas" /\ UNCHANGED <<hash, n_hashs>>
    BY <1>9 DEF ValueCas
  <2>2. CASE \E h, v, a : ReturnWritten(t, h, v, a)
    BY <1>8, <2>1, <2>2
  <2>3. CASE ~\E h, v, a : ReturnWritten(t, h, v, a)
    BY <1>1, <1>9, <2>1, <2>3 DEF ValueCas, Exists, Return, Answer, Goto
  <2> QED BY <2>2, <2>3
<1>10. CASE RemCas(t)
  <2>1. pc[t] = "rem_cas" /\ UNCHANGED <<hash, n_hashs>>
    BY <1>10 DEF RemCas
  <2>2. CASE \E h, v, a : ReturnWritten(t, h, v, a)
    BY <1>8, <2>1, <2>2
  <2>3. CASE ~\E h, v, a : ReturnWritten(t, h, v, a)
    BY <1>1, <1>10, <2>1, <2>3 DEF RemCas, Return, Answer, Goto
  <2> QED BY <2>2, <2>3
<1>11. CASE MigNext(t) \/ MigAlloc(t)
  BY <1>1, <1>11 DEF MigNext, MigAlloc, StartCopy, Goto, words
<1>12. ASSUME CopyNext(t)
       PROVE  /\ pc'[t] \in {"swap", "freeze"}
              /\ \A u \in Threads \ {t} : pc'[u] = pc[u] /\ my'[u] = my[u]
  BY <1>1, <1>12 DEF CopyNext, Goto
<1>13. CASE FreezeRead(t) \/ FreezeCas(t)
  <2>1. pc[t] \in {"freeze", "freeze_cas"} /\ UNCHANGED <<hash, n_hashs>>
    BY <1>13 DEF FreezeRead, FreezeCas, words
  <2>2. CASE CopyNext(t)
    BY <1>12, <2>1, <2>2
  <2>3. CASE ~CopyNext(t)
    BY <1>1, <1>13, <2>1, <2>3 DEF FreezeRead, FreezeCas, Frozen, Goto
  <2> QED BY <2>2, <2>3
<1>14. CASE SealRead(t) \/ SealCas(t)
  <2>1. pc[t] \in {"seal", "seal_cas"} /\ UNCHANGED <<hash, n_hashs>>
    BY <1>14 DEF SealRead, SealCas, words
  <2>2. CASE CopyNext(t)
    BY <1>12, <2>1, <2>2
  <2>3. CASE ~CopyNext(t)
    BY <1>1, <1>14, <2>1, <2>3, ZenonT(60) DEF SealRead, SealCas, Sealed, Goto
  <2> QED BY <2>2, <2>3
<1>15. CASE Carry(t)
  <2>1. pc[t] = "carry" /\ UNCHANGED <<hash, n_hashs>>
    BY <1>15 DEF Carry
  <2>2. CASE CopyNext(t)
    BY <1>12, <2>1, <2>2
  <2>3. CASE CarryOn(t) /\ Goto(t, "claim")
    BY <1>1, <2>1, <2>3 DEF CarryOn, Goto
  <2> QED BY <1>15, <2>2, <2>3 DEF Carry
<1>16. CASE Swap(t)
  BY <1>1, <1>16 DEF Swap, Goto, words
<1>17. CASE EnumHash(t) \/ EnumValue(t)
  BY <1>1, <1>17 DEF EnumHash, EnumValue, RoverEnds, Return, Answer, Goto, words
<1>18. CASE Enumerate(t)
  <2>1. pc[t] = "idle" /\ UNCHANGED <<pc, my, hash, n_hashs>>
    BY <1>18 DEF Enumerate, words
  <2> QED BY <2>1
<1>19. CASE \E c \in Calls[t] : Call(t, c)
  BY <1>1, <1>19 DEF Call, Goto, words
<1> QED BY <1>3, <1>4, <1>5, <1>6, <1>7, <1>9, <1>10, <1>11, <1>13, <1>14, <1>15, <1>16, <1>17, <1>18, <1>19

(* Every claimed slot is counted in n_hashs, or the thread that claimed it *)
(* is about to count it (_mulle_concurrent_hashtablestorage_find_or_claim  *)
(* and the one of carry): n_hashs, from which insert and register decide   *)
(* to migrate, never exceeds what is claimed.                              *)
THEOREM Counted == Spec => []CountInv
<1>1. Init => CountInv
  BY InitCount
<1>2. CountInv /\ IInv /\ [Next]_vars => CountInv'
  <2> SUFFICES ASSUME CountInv, IInv, [Next]_vars PROVE CountInv'
    OBVIOUS
  <2>1. CASE UNCHANGED vars
    <3>1. UNCHANGED <<hash, n_hashs, pc, my>>
      BY <2>1 DEF vars, words
    <3>2. \A g \in Gens : ClaimedSlots(g)' = ClaimedSlots(g) /\ Counting(g)' = Counting(g)
      BY <3>1 DEF ClaimedSlots, Counting
    <3> QED BY <3>1, <3>2 DEF CountInv
  <2>2. CASE Next
    <3>1. PICK t \in Threads : Step(t) \/ Enumerate(t) \/ \E c \in Calls[t] : Call(t, c)
      BY <2>2 DEF Next
    <3>2. CASE ClaimCas(t) \/ ClaimInc(t)
      BY <3>2, CountClaim, CountCounts
    <3>3. CASE ~(ClaimCas(t) \/ ClaimInc(t))
      BY <3>1, <3>3, CountElsewhere DEF Step
    <3> QED BY <3>2, <3>3
  <2> QED BY <2>1, <2>2
<1> QED BY <1>1, <1>2, Invariance, PTL DEF Spec
-----------------------------------------------------------------------------

(* What follows *)

LEMMA TypesFollow ==
    ASSUME IInv, CountInv
    PROVE  TypeOK
<1>1. TableTypes /\ ThreadTypes /\ CallerTypes
  BY DEF IInv, TypeInv
<1>2. ASSUME NEW g \in Gens
      PROVE  /\ size[g] \in 0 .. MaxSize
             /\ hash[g] \in [Slots -> Hashes \union {NO_HASH}] /\ frozen[g] \in [Slots -> BOOLEAN]
             /\ value[g] \in [Slots -> Values \union {NULL, TOMB}] /\ sealed[g] \in [Slots -> BOOLEAN]
             /\ n_hashs[g] \in 0 .. size[g] /\ freed[g] \in Nat
  <2>1. n_hashs[g] \in 0 .. size[g]
    <3>1. Cardinality(ClaimedSlots(g)) = n_hashs[g] + Cardinality(Counting(g))
      BY DEF CountInv
    <3>2. /\ Cardinality(ClaimedSlots(g)) \in Nat /\ Cardinality(ClaimedSlots(g)) <= size[g]
          /\ Cardinality(Counting(g)) \in Nat
      BY Finite
    <3>3. n_hashs[g] \in Nat /\ size[g] \in Nat
      BY <1>1, Numbers DEF TableTypes
    <3> QED BY <3>1, <3>2, <3>3
  <2>2. frozen[g] \in [Slots -> BOOLEAN] /\ sealed[g] \in [Slots -> BOOLEAN]
    BY <1>1, Zenon DEF TableTypes
  <2> QED BY <1>1, <2>1, <2>2 DEF TableTypes, Keys, Words
<1>3. ASSUME NEW t \in Threads
      PROVE  /\ pc[t] \in Labels
             /\ my[t].call \in Calls[t] \union {Idle}
             /\ my[t].p \in Gens /\ my[t].d \in Gens
             /\ my[t].cv \in Values \union {NULL} /\ my[t].expect \in Values \union {NULL, TOMB}
             /\ answer[t] \in Values \union {NULL, Idle, "0", "EEXIST", "ENOENT", "end", "ECANCELED"}
             /\ rover[t].storage \in Gens \union {-1} /\ rover[t].got \subseteq Hashes
  <2>1. answer[t] \in Values \union {NULL, Idle, "0", "EEXIST", "ENOENT", "end", "ECANCELED"}
    BY <1>1 DEF CallerTypes, Answers
  <2>2. rover[t].storage \in Gens \union {-1} /\ rover[t].got \subseteq Hashes
    BY Basics DEF Rovers
  <2> QED BY <2>1, <2>2, Basics DEF Words
<1>4. storage \in Gens /\ content \in [Hashes -> Values \union {NULL}] /\ calls \in 0 .. MaxCalls
  BY <1>1 DEF TableTypes, CallerTypes
<1> QED BY <1>2, <1>3, <1>4 DEF TypeOK

(* The slot table of mulle-concurrent-hashtable.h, and the types: only a   *)
(* claimed slot has a value or is sealed, only a frozen one is sealed, a   *)
(* hash has one slot per storage, and no call ever returns the tombstone.  *)
THEOREM SlotsRight == Spec => []SlotsOK
<1>1. IInv /\ CountInv => SlotsOK
  <2> SUFFICES ASSUME IInv, CountInv PROVE SlotsOK
    OBVIOUS
  <2>1. TypeOK
    BY TypesFollow
  <2>2. SlotInv /\ \A g \in Gens : Index(g) \subseteq Slots
    BY Numbers DEF IInv, TypeInv
  <2> QED BY <2>1, <2>2 DEF SlotsOK, SlotInv
<1> QED BY <1>1, Invariance, Counted, PTL

(* Storages are replaced one at a time: one that is no longer the table's  *)
(* is frozen and sealed throughout and was freed once, one that is still   *)
(* reachable is not freed, and there is at most one successor              *)
(* (_mulle_concurrent_hashtable_migrate_storage).                          *)
THEOREM Generations == Spec => []GenerationsOK
<1>1. IInv => GenerationsOK
  <2> SUFFICES ASSUME IInv PROVE GenerationsOK
    OBVIOUS
  <2>1. TableTypes /\ GenInv
    BY DEF IInv, TypeInv
  <2>2. /\ storage \in Nat /\ storage <= MaxGen /\ \A g : g \in Gens <=> g \in Nat /\ g <= MaxGen
        /\ \A g \in Gens : Index(g) \subseteq Slots
        /\ MaxGen \in Nat
    BY <2>1, Numbers, ConstFacts
  <2>3. ASSUME NEW g \in 0 .. storage - 1
        PROVE  /\ freed[g] = 1
               /\ \A i \in Index(g) : frozen[g][i] /\ (hash[g][i] # NO_HASH => sealed[g][i])
    <3>1. g \in Gens /\ g < storage
      BY <2>2
    <3> QED BY <2>1, <3>1 DEF GenInv, Done
  <2>4. ASSUME NEW g \in storage .. MaxGen PROVE freed[g] = 0
    <3>1. g \in Gens /\ ~(g < storage)
      BY <2>2
    <3> QED BY <2>1, <3>1 DEF GenInv
  <2>5. \A g \in Gens : (\E i \in Index(g) : frozen[g][i]) => HasNext(g)
    BY <2>1, <2>2 DEF GenInv
  <2>6. ASSUME NEW g \in storage + 1 .. MaxGen
        PROVE  /\ size[g] # 0 => g = storage + 1
               /\ \A i \in Index(g) : ~frozen[g][i] /\ value[g][i] # TOMB
    <3>1. g \in Gens /\ g > storage /\ g \in Nat /\ g >= storage + 1
      BY <2>2
    <3>2. size[g] # 0 => g <= storage + 1
      BY <2>1, <3>1 DEF GenInv
    <3> QED BY <2>1, <2>2, <3>1, <3>2 DEF GenInv
  <2> QED BY <2>3, <2>4, <2>5, <2>6 DEF GenerationsOK
<1> QED BY <1>1, Invariance, PTL

(* What a hash has is in its slot of the table's storage, and what was     *)
(* removed is not: a copier that lags behind carries only values that are  *)
(* there already (_mulle_concurrent_hashtable_carry).                      *)
THEOREM NothingResurrected == Spec => []NoResurrection
<1>1. IInv => NoResurrection
  <2> SUFFICES ASSUME IInv, NEW h \in Hashes
               PROVE  {value[storage][i] : i \in {j \in Index(storage) : hash[storage][j] = h}} \intersect Values
                         = {content[h]} \ {NULL}
    BY DEF NoResurrection
  <2>1. TableTypes /\ SlotInv /\ ContentInv
    BY DEF IInv, TypeInv
  <2>2. /\ storage \in Gens /\ Index(storage) \subseteq Slots /\ size[storage] \in Nat
        /\ \A i : i \in Index(storage) <=> i \in Nat /\ i < size[storage]
        /\ \A i \in Slots : i \in Nat
    BY <2>1, Numbers
  <2>3. ASSUME NEW i \in Index(storage), hash[storage][i] = h, value[storage][i] \in Values
        PROVE  content[h] = value[storage][i] /\ content[h] # NULL
    BY <2>1, <2>2, <2>3, ConstFacts DEF ContentInv
  <2>4. ASSUME content[h] # NULL
        PROVE  /\ content[h] \in Values
               /\ \E i \in Index(storage) : hash[storage][i] = h /\ value[storage][i] = content[h]
    <3>1. PICK i \in Slots : hash[storage][i] = h /\ value[storage][i] = content[h]
      BY <2>1, <2>4 DEF ContentInv
    <3>2. ~(i >= size[storage])
      BY <2>1, <2>2, <3>1, ConstFacts DEF SlotInv
    <3>3. i \in Index(storage)
      BY <2>2, <3>2
    <3>4. content[h] \in Values
      BY <2>1, <2>4 DEF TableTypes
    <3> QED BY <3>1, <3>3, <3>4
  <2> QED BY <2>3, <2>4
<1> QED BY <1>1, Invariance, PTL

-----------------------------------------------------------------------------
(* The map that the callers see: what a call may rely on *)

(* What a lookup makes of a value word. *)
Shown(v) == IF v = TOMB THEN NULL ELSE v

(* The map still has what the call m has seen last. *)
SeenLast(m) ==
    m.call # Idle /\ m.call.op \notin {"next", "migrate"} => content[m.call.hash] \in m.seen

(* Whatever a lookup will find in its storage, the map had while it was    *)
(* looking.                                                                *)
LookAt(l, m) ==
    l \in {"look_hash", "look_value"} =>
       /\ \A j \in Slots : hash[m.p][j] = m.call.hash => Shown(value[m.p][j]) \in m.seen
       /\ NULL \in m.seen \/ \E j \in Slots : hash[m.p][j] = m.call.hash

(* A value word that has changed since it was read has had a value.        *)
StoreAt(l, m) ==
    l = "value_cas" =>
       /\ m.expect # NULL => value[m.d][SlotOf(m)] # NULL
       /\ m.expect = NULL /\ value[m.d][SlotOf(m)] # NULL => m.seen \ {NULL} # {}

(* The slots that an enumerator r at label l has left behind. *)
Left(l, r) == IF l = "enum_value" THEN r.index - 1 ELSE r.index

(* An enumerator has returned hashes of slots it has left behind, and all  *)
(* that stayed in the map and is not yet returned is still ahead of it.    *)
RoverAt(l, m, r) ==
    /\ \A h \in r.stay : content[h] # NULL
    /\ l \in {"enum_hash", "enum_value"} => r.storage = m.p
    /\ m.call # Idle /\ m.call.op = "next" => r.on
    /\ r.on /\ r.storage = -1 => r.got = {} /\ r.index = 0
    /\ r.on /\ r.storage # -1 =>
         /\ \A h \in r.got : \E j \in Slots : j < Left(l, r) /\ hash[r.storage][j] = h
         /\ \A h \in r.stay : \E j \in Slots :
              hash[r.storage][j] = h /\ (j < Left(l, r) => h \in r.got)

Knows(l, m, r) == SeenLast(m) /\ LookAt(l, m) /\ StoreAt(l, m) /\ RoverAt(l, m, r)

(* The invariant of the refinement. *)
RInv == IInv /\ \A t \in Threads : Knows(pc[t], my[t], rover[t])

-----------------------------------------------------------------------------
(* The map the callers see, as ConcurrentHashtable maps it *)

CallMap(t) ==
    IF my[t].call = Idle \/ my[t].call.op = "migrate" THEN Idle
    ELSE IF my[t].call.op = "next" THEN [op |-> "next"]
    ELSE [op |-> my[t].call.op, hash |-> my[t].call.hash,
          value |-> my[t].call.value, seen |-> my[t].seen]

CallsMap == [t \in Threads |-> CallMap(t)]

GotMap == [t \in Threads |-> rover[t].got]

StayMap == [t \in Threads |-> rover[t].stay]

(* The steps of RemovableMap on it. *)
LEMMA MapStutters ==
    ASSUME content' = content, CallsMap' = CallsMap, answer' = answer, GotMap' = GotMap,
           StayMap' = StayMap
    PROVE  UNCHANGED Contract!vars
  BY DEF Contract!vars, CallsMap, CallMap, GotMap, StayMap

LEMMA MapBegins ==
    ASSUME NEW t \in Threads, NEW op \in {"insert", "register", "remove", "lookup"}, NEW h \in Hashes,
           NEW v \in Values \union {NULL}, CallsMap[t] = Idle,
           CallsMap' = [CallsMap EXCEPT ![t] =
                          [op |-> op, hash |-> h, value |-> v, seen |-> {content[h]}]],
           answer' = [answer EXCEPT ![t] = Idle], content' = content, GotMap' = GotMap,
           StayMap' = StayMap
    PROVE  Contract!Next
<1>1. Contract!Begin(t, op, h, v)
  BY DEF Contract!Begin, CallsMap, CallMap, GotMap, StayMap
<1> QED BY <1>1 DEF Contract!Next

LEMMA MapBeginsNext ==
    ASSUME NEW t \in Threads, CallsMap[t] = Idle,
           CallsMap' = [CallsMap EXCEPT ![t] = [op |-> "next"]],
           answer' = [answer EXCEPT ![t] = Idle], content' = content, GotMap' = GotMap,
           StayMap' = StayMap
    PROVE  Contract!Next
<1>1. Contract!BeginNext(t)
  BY DEF Contract!BeginNext, CallsMap, CallMap, GotMap, StayMap
<1> QED BY <1>1 DEF Contract!Next

(* What a call that changes nothing may answer. *)
MayAnswer(t, a) ==
    \/ /\ CallsMap[t].op \in {"insert", "register"}
       /\ \E v \in CallsMap[t].seen \ {NULL} : a = IF CallsMap[t].op = "insert" THEN "EEXIST" ELSE v
    \/ CallsMap[t].op = "remove" /\ CallsMap[t].seen \ {CallsMap[t].value} # {} /\ a = "ENOENT"
    \/ CallsMap[t].op = "lookup" /\ a \in CallsMap[t].seen
    \/ CallsMap[t].op = "next" /\ (a = "ECANCELED" \/ (a = "end" /\ StayMap[t] \subseteq GotMap[t]))

LEMMA MapAnswers ==
    ASSUME NEW t \in Threads, NEW a, CallsMap[t] # Idle, MayAnswer(t, a),
           CallsMap' = [CallsMap EXCEPT ![t] = Idle],
           answer' = [answer EXCEPT ![t] = a], content' = content, GotMap' = GotMap,
           StayMap' = StayMap
    PROVE  Contract!Next
<1>1. Contract!Answer(t, a) /\ Contract!Quiet(t)
  BY DEF Contract!Answer, Contract!Quiet, CallsMap, CallMap, GotMap, StayMap
<1>2. CASE /\ CallsMap[t].op \in {"insert", "register"}
           /\ \E v \in CallsMap[t].seen \ {NULL} : a = IF CallsMap[t].op = "insert" THEN "EEXIST" ELSE v
  <2>1. PICK v \in CallsMap[t].seen \ {NULL} : a = IF CallsMap[t].op = "insert" THEN "EEXIST" ELSE v
    BY <1>2
  <2>2. Contract!Answer(t, IF CallsMap[t].op = "insert" THEN "EEXIST" ELSE v)
    BY <1>1, <2>1 DEF Contract!Answer
  <2>3. Contract!Exists(t)
    BY <1>1, <1>2, <2>2, Zenon DEF Contract!Exists, Contract!Calling, CallsMap, CallMap
  <2> QED BY <2>3 DEF Contract!Next
<1>3. CASE CallsMap[t].op = "remove" /\ CallsMap[t].seen \ {CallsMap[t].value} # {} /\ a = "ENOENT"
  <2>1. Contract!Missing(t)
    BY <1>1, <1>3, Zenon DEF Contract!Missing, Contract!Calling, CallsMap, CallMap
  <2> QED BY <2>1 DEF Contract!Next
<1>4. CASE CallsMap[t].op = "lookup" /\ a \in CallsMap[t].seen
  <2>1. Contract!Lookup(t)
    BY <1>1, <1>4, Zenon DEF Contract!Lookup, Contract!Calling, CallsMap, CallMap
  <2> QED BY <2>1 DEF Contract!Next
<1>5. CASE CallsMap[t].op = "next" /\ (a = "ECANCELED" \/ (a = "end" /\ StayMap[t] \subseteq GotMap[t]))
  <2>1. Contract!NextEnds(t)
    BY <1>1, <1>5, Zenon DEF Contract!NextEnds, Contract!Calling, CallsMap, CallMap, StayMap, GotMap
  <2> QED BY <2>1 DEF Contract!Next
<1> QED BY <1>2, <1>3, <1>4, <1>5 DEF MayAnswer

(* What the others see of a call of t that gives h the value v. *)
MapWrites(t, h, v) ==
    /\ content' = [content EXCEPT ![h] = v]
    /\ CallsMap' = [u \in Threads |->
                      IF u = t \/ CallsMap[u] = Idle THEN Idle
                      ELSE IF CallsMap[u].op # "next" /\ CallsMap[u].hash = h
                      THEN [CallsMap[u] EXCEPT !.seen = @ \union {v}] ELSE CallsMap[u]]
    /\ StayMap' = [u \in Threads |-> IF v = NULL THEN StayMap[u] \ {h} ELSE StayMap[u]]
    /\ GotMap' = GotMap

LEMMA MapWritten ==
    ASSUME NEW t \in Threads, NEW h, NEW v, NEW a, MapWrites(t, h, v),
           answer' = [answer EXCEPT ![t] = a]
    PROVE  Contract!Write(t, h, v) /\ Contract!Answer(t, a)
  BY DEF MapWrites, Contract!Write, Contract!Answer, CallsMap, CallMap, GotMap, StayMap

LEMMA MapStores ==
    ASSUME NEW t \in Threads, CallsMap[t] # Idle, CallsMap[t].op \in {"insert", "register"},
           content[CallsMap[t].hash] = NULL,
           MapWrites(t, CallsMap[t].hash, CallsMap[t].value),
           answer' = [answer EXCEPT ![t] = IF CallsMap[t].op = "insert" THEN "0" ELSE NULL]
    PROVE  Contract!Next
<1>1. Contract!Store(t)
  BY DEF Contract!Store, Contract!Calling, Contract!Write, Contract!Answer, MapWrites,
         CallsMap, CallMap, GotMap, StayMap
<1> QED BY <1>1 DEF Contract!Next

LEMMA MapRemoves ==
    ASSUME NEW t \in Threads, CallsMap[t] # Idle, CallsMap[t].op = "remove",
           content[CallsMap[t].hash] = CallsMap[t].value,
           MapWrites(t, CallsMap[t].hash, NULL), answer' = [answer EXCEPT ![t] = "0"]
    PROVE  Contract!Next
<1>1. Contract!Remove(t)
  BY MapWritten, Zenon DEF Contract!Remove, Contract!Calling, CallsMap, CallMap
<1> QED BY <1>1 DEF Contract!Next

LEMMA MapEnumerates ==
    ASSUME NEW t \in Threads, CallsMap[t] = Idle, GotMap' = [GotMap EXCEPT ![t] = {}],
           StayMap' = [StayMap EXCEPT ![t] = {h \in Hashes : content[h] # NULL}],
           CallsMap' = CallsMap, answer' = answer, content' = content
    PROVE  Contract!Next
<1>1. Contract!Enumerate(t)
  BY DEF Contract!Enumerate, CallsMap, CallMap, GotMap, StayMap
<1> QED BY <1>1 DEF Contract!Next

LEMMA MapFinds ==
    ASSUME NEW t \in Threads, NEW h \in Hashes, CallsMap[t] # Idle, CallsMap[t].op = "next",
           content[h] # NULL, h \notin GotMap[t], GotMap' = [GotMap EXCEPT ![t] = @ \union {h}],
           StayMap' = StayMap, CallsMap' = [CallsMap EXCEPT ![t] = Idle],
           answer' = [answer EXCEPT ![t] = content[h]], content' = content
    PROVE  Contract!Next
<1>1. Contract!NextEntry(t, h)
  BY DEF Contract!NextEntry, Contract!Calling, Contract!Answer, CallsMap, CallMap, GotMap, StayMap
<1> QED BY <1>1 DEF Contract!Next

-----------------------------------------------------------------------------
(* What no step takes back *)

(* Nor does a step of a migration change what the map has, or a value in   *)
(* the table's storage or in an older one.                                 *)
Steady ==
    /\ content' = content
    /\ \A g \in Gens : \A j \in Slots : g <= storage => value'[g][j] = value[g][j]

LEMMA QuietForward ==
    ASSUME IInv, UNCHANGED <<storage, size, hash, frozen, value, sealed>>
    PROVE  Forward /\ (content' = content => Steady)
<1>1. storage \in Nat
  BY Numbers DEF IInv, TypeInv
<1> QED BY <1>1 DEF Forward, Steady

(* The steps of a migration that change the table. *)
LEMMA ClaimForward ==
    ASSUME IInv, NEW t \in Threads, ClaimCas(t)
    PROVE  Forward /\ Steady
<1>1. pc[t] = "claim_cas" /\ UNCHANGED <<storage, size, frozen, value, sealed, content>>
  BY DEF ClaimCas, world
<1>2. SlotOf(my[t]) \in Slots /\ Slot(t, my[t].d) = SlotOf(my[t]) /\ KeyOf(my[t]) \in Keys
      /\ Key(t) = KeyOf(my[t])
  BY <1>1, Addressed DEF Probing, Keys
<1>3. my[t].d \in Gens /\ hash \in [Gens -> [Slots -> Keys]] /\ storage \in Nat
  BY Basics DEF TableTypes
<1>4. PICK g \in Gens, i \in Slots, k \in Keys : g = my[t].d /\ i = SlotOf(my[t]) /\ k = KeyOf(my[t])
  BY <1>2, <1>3
<1>5. CASE hash' = hash
  BY <1>1, <1>5, QuietForward
<1>6. CASE hash[g][i] = NO_HASH /\ ~frozen[g][i] /\ Puts(hash', hash, g, i, k)
  <2>1. \A x \in Gens : \A j \in Slots : x # g \/ j # i => hash'[x][j] = hash[x][j]
    BY <1>3, <1>6, HashPut
  <2> QED BY <1>1, <1>3, <1>6, <2>1 DEF Forward, Steady
<1> QED BY <1>2, <1>4, <1>5, <1>6 DEF ClaimCas, Puts

LEMMA FreezeForward ==
    ASSUME IInv, NEW t \in Threads, FreezeCas(t)
    PROVE  Forward /\ Steady
<1>1. pc[t] = "freeze_cas" /\ UNCHANGED <<storage, size, hash, value, sealed, content>>
  BY DEF FreezeCas, world
<1>2. my[t].i \in Slots /\ my[t].p \in Gens /\ storage \in Nat /\ frozen \in [Gens -> [Slots -> BOOLEAN]]
  <2>1. my[t].i \in Slots
    BY <1>1, CopyFacts DEF Copies
  <2>2. frozen \in [Gens -> [Slots -> BOOLEAN]]
    BY Basics, Zenon DEF TableTypes
  <2> QED BY <2>1, <2>2, Basics
<1>3. PICK g \in Gens, i \in Slots : g = my[t].p /\ i = my[t].i
  BY <1>2
<1>4. CASE frozen' = frozen
  BY <1>1, <1>4, QuietForward
<1>5. CASE Puts(frozen', frozen, g, i, TRUE)
  <2>0. frozen \in [Gens -> [Slots -> BOOLEAN]] /\ Puts(frozen', frozen, g, i, TRUE)
    BY <1>2, <1>5, Zenon
  <2>1. /\ frozen' \in [Gens -> [Slots -> BOOLEAN]] /\ frozen'[g][i] = TRUE
        /\ \A x \in Gens : \A j \in Slots : x # g \/ j # i => frozen'[x][j] = frozen[x][j]
    BY <2>0, FrozenPut
  <2>2. \A x \in Gens : \A j \in Slots : frozen[x][j] => frozen'[x][j]
    BY <2>1, Zenon
  <2>3. storage <= storage'
    BY <1>1, <1>2
  <2> QED BY <1>1, <2>2, <2>3, Zenon DEF Forward, Steady
<1> QED BY <1>3, <1>4, <1>5 DEF FreezeCas, Puts

LEMMA SealForward ==
    ASSUME IInv, NEW t \in Threads, SealCas(t)
    PROVE  Forward /\ Steady
<1>1. pc[t] = "seal_cas" /\ UNCHANGED <<storage, size, hash, value, frozen, content>>
  BY DEF SealCas, world
<1>2. my[t].i \in Slots /\ my[t].p \in Gens /\ storage \in Nat /\ sealed \in [Gens -> [Slots -> BOOLEAN]]
  <2>1. my[t].i \in Slots
    BY <1>1, CopyFacts DEF Copies
  <2>2. sealed \in [Gens -> [Slots -> BOOLEAN]]
    BY Basics, Zenon DEF TableTypes
  <2> QED BY <2>1, <2>2, Basics
<1>3. PICK g \in Gens, i \in Slots : g = my[t].p /\ i = my[t].i
  BY <1>2
<1>4. CASE sealed' = sealed
  BY <1>1, <1>4, QuietForward
<1>5. CASE Puts(sealed', sealed, g, i, TRUE)
  <2>0. sealed \in [Gens -> [Slots -> BOOLEAN]] /\ Puts(sealed', sealed, g, i, TRUE)
    BY <1>2, <1>5, Zenon
  <2>1. /\ sealed' \in [Gens -> [Slots -> BOOLEAN]] /\ sealed'[g][i] = TRUE
        /\ \A x \in Gens : \A j \in Slots : x # g \/ j # i => sealed'[x][j] = sealed[x][j]
    BY <2>0, SealedPut
  <2>2. \A x \in Gens : \A j \in Slots : sealed[x][j] => sealed'[x][j]
    BY <2>1, Zenon
  <2>3. storage <= storage'
    BY <1>1, <1>2
  <2> QED BY <1>1, <2>2, <2>3, Zenon DEF Forward, Steady
<1> QED BY <1>3, <1>4, <1>5 DEF SealCas, Puts

LEMMA CarryForward ==
    ASSUME IInv, NEW t \in Threads, Carry(t)
    PROVE  Forward /\ Steady
<1>1. UNCHANGED <<storage, size, hash, frozen, sealed, content>>
  BY DEF Carry, world
<1>2. value \in [Gens -> [Slots -> Words]] /\ storage \in Nat /\ Values \subseteq Words /\ NULL \notin Values
  BY Basics, ConstFacts DEF TableTypes, Words
<1>3. PICK p \in Gens, g \in Gens, i \in Slots, c \in Slots, h \in Hashes, v \in Values :
        /\ g = p + 1 /\ p \in Nat
        /\ value[g][i] = NULL => ~sealed[g][i] /\ p = storage
        /\ value' = [value EXCEPT ![g][i] = IF @ = NULL THEN v ELSE @]
  BY CarryPlace
<1>4. CASE value[g][i] # NULL
  <2>1. value' = [value EXCEPT ![g][i] = value[g][i]]
    BY <1>3, <1>4
  <2>2. value[g][i] \in Words /\ Puts(value', value, g, i, value[g][i])
    BY <1>2, <2>1 DEF Puts
  <2>3. \A x \in Gens : \A j \in Slots : value'[x][j] = value[x][j]
    BY <1>2, <2>2, ValuePut
  <2> QED BY <1>1, <1>2, <2>3 DEF Forward, Steady
<1>5. CASE value[g][i] = NULL
  <2>1. value' = [value EXCEPT ![g][i] = v]
    BY <1>3, <1>5
  <2>2. v \in Words /\ Puts(value', value, g, i, v)
    BY <1>2, <2>1 DEF Puts
  <2>3. /\ value'[g][i] = v
        /\ \A x \in Gens : \A j \in Slots : x # g \/ j # i => value'[x][j] = value[x][j]
    BY <1>2, <2>2, ValuePut
  <2>4. ~sealed[g][i] /\ ~(g <= storage)
    BY <1>2, <1>3, <1>5
  <2> QED BY <1>1, <1>2, <1>5, <2>3, <2>4 DEF Forward, Steady
<1> QED BY <1>4, <1>5

LEMMA MigrationForward ==
    ASSUME IInv, NEW t \in Threads,
           \/ ClaimRead(t) \/ ClaimCas(t) \/ ClaimInc(t) \/ MigNext(t) \/ MigAlloc(t)
           \/ FreezeRead(t) \/ FreezeCas(t) \/ SealRead(t) \/ SealCas(t) \/ Carry(t) \/ Swap(t)
    PROVE  Forward /\ Steady
<1>1. storage \in Nat /\ size \in [Gens -> 0 .. MaxSize] /\ my[t].p \in Gens /\ my[t].p \in Nat
  BY Basics DEF TableTypes
<1>2. CASE ClaimRead(t) \/ ClaimInc(t) \/ MigNext(t) \/ FreezeRead(t) \/ SealRead(t)
  <2>1. UNCHANGED <<storage, size, hash, frozen, value, sealed, content>>
    BY <1>2 DEF ClaimRead, ClaimInc, MigNext, FreezeRead, SealRead, world, words
  <2> QED BY <2>1, QuietForward
<1>3. CASE MigAlloc(t)
  <2>1. UNCHANGED <<storage, hash, frozen, value, sealed, content>>
    BY <1>3 DEF MigAlloc, words
  <2>2. \E n : size' = [size EXCEPT ![my[t].p + 1] = IF @ = 0 THEN n ELSE @]
    BY <1>3 DEF MigAlloc
  <2>3. \A g \in Gens : size[g] # 0 => size'[g] = size[g]
    BY <1>1, <2>2
  <2> QED BY <1>1, <2>1, <2>3 DEF Forward, Steady
<1>4. CASE Swap(t)
  <2>1. UNCHANGED <<size, hash, frozen, value, sealed, content>>
    BY <1>4 DEF Swap, words
  <2>2. storage <= storage'
    BY <1>1, <1>4 DEF Swap
  <2> QED BY <2>1, <2>2 DEF Forward, Steady
<1> QED BY <1>2, <1>3, <1>4, ClaimForward, FreezeForward, SealForward, CarryForward

-----------------------------------------------------------------------------
(* What the other calls know stays true *)

(* m is a call for the hash h. *)
Wants(m, h) == m.call # Idle /\ m.call.op \notin {"next", "migrate"} /\ m.call.hash = h

(* A value that was changed in a slot that u may look at is one that u has *)
(* seen, and NULL gives way to a value first.                              *)
Witnessed(u) ==
    \A g \in Gens : \A j \in Slots :
       g <= storage /\ value'[g][j] # value[g][j] =>
          /\ value'[g][j] # NULL /\ hash[g][j] # NO_HASH
          /\ value[g][j] = NULL => value'[g][j] \in Values
          /\ Wants(my[u], hash[g][j]) => Shown(value'[g][j]) \in my'[u].seen

(* A looking thread is in a storage that is or was the table's. *)
LEMMA Looking ==
    ASSUME IInv, NEW t \in Threads, pc[t] \in {"look_hash", "look_value", "rem_hash", "rem_cas",
                                               "check", "value", "value_cas"}
    PROVE  /\ my[t].call \in Calls[t] /\ my[t].call # Idle
           /\ my[t].call.op \in {"insert", "register", "remove", "lookup"}
           /\ my[t].call.hash \in Hashes /\ my[t].d = my[t].p /\ my[t].then = "value"
           /\ my[t].p \in Gens /\ my[t].p <= storage /\ Wants(my[t], my[t].call.hash)
<1>1. my[t].call \in Calls[t] /\ my[t].d = my[t].p /\ my[t].then = "value"
      /\ my[t].call.op \in {"insert", "register", "remove", "lookup"}
      /\ my[t].p \in Gens /\ my[t].p <= storage
  BY Basics DEF CallAt, ProbeAt, Owns, Claims
<1>2. my[t].call # Idle /\ my[t].call.hash \in Hashes
  BY <1>1, CallFacts
<1> QED BY <1>1, <1>2 DEF Wants

LEMMA LookKept ==
    ASSUME IInv, IInv', Forward, NEW u \in Threads, LookAt(pc[u], my[u]),
           pc'[u] = pc[u], Alike(my'[u], my[u]), my[u].seen \subseteq my'[u].seen, Witnessed(u)
    PROVE  LookAt(pc[u], my[u])'
<1> SUFFICES ASSUME pc[u] \in {"look_hash", "look_value"} PROVE LookAt(pc[u], my[u])'
  BY DEF LookAt
<1>1. my[u].call.hash \in Hashes /\ my[u].p \in Gens /\ my[u].p <= storage
      /\ Wants(my[u], my[u].call.hash)
  BY Looking
<1>2. PICK p \in Gens, h \in Hashes : p = my[u].p /\ h = my[u].call.hash
  BY <1>1
<1>3. /\ \A j \in Slots : hash[p][j] = h => Shown(value[p][j]) \in my[u].seen
      /\ NULL \in my[u].seen \/ \E j \in Slots : hash[p][j] = h
      /\ p <= storage /\ Wants(my[u], h) /\ h # NO_HASH
  BY <1>1, <1>2, ConstFacts DEF LookAt
<1>4. SlotInv /\ SlotInv'
  BY DEF IInv
<1>5. \A j \in Slots : hash[p][j] = h => hash'[p][j] = h
  BY <1>3 DEF Forward
<1>6. ASSUME NEW j \in Slots, hash'[p][j] = h PROVE Shown(value'[p][j]) \in my'[u].seen
  <2>1. CASE hash[p][j] = h
    <3>1. CASE value'[p][j] = value[p][j]
      BY <1>3, <2>1, <3>1
    <3>2. CASE value'[p][j] # value[p][j]
      BY <1>3, <2>1, <3>2 DEF Witnessed
    <3> QED BY <3>1, <3>2
  <2>2. CASE hash[p][j] # h
    <3>1. hash[p][j] = NO_HASH
      BY <1>6, <2>2 DEF Forward
    <3>2. value[p][j] = NULL
      BY <1>4, <3>1 DEF SlotInv
    <3>3. value'[p][j] = NULL
      BY <1>3, <3>1, <3>2 DEF Witnessed
    <3>4. Shown(value'[p][j]) = NULL
      BY <3>3 DEF Shown
    <3>5. \A k \in Slots : hash[p][k] # h
      <4>1. SUFFICES ASSUME NEW k \in Slots, hash[p][k] = h PROVE FALSE
        OBVIOUS
      <4>2. hash'[p][k] = h
        BY <1>5, <4>1
      <4>3. k = j
        BY <1>3, <1>4, <1>6, <4>2 DEF SlotInv
      <4> QED BY <2>2, <4>1, <4>3
    <3> QED BY <1>3, <3>4, <3>5
  <2> QED BY <2>1, <2>2
<1>7. NULL \in my'[u].seen \/ \E j \in Slots : hash'[p][j] = h
  BY <1>3, <1>5
<1>8. my'[u].p = p /\ my'[u].call = my[u].call
  BY <1>2 DEF Alike
<1> QED BY <1>2, <1>6, <1>7, <1>8 DEF LookAt

LEMMA StoreKept ==
    ASSUME IInv, IInv', Forward, NEW u \in Threads, StoreAt(pc[u], my[u]),
           pc'[u] = pc[u], Alike(my'[u], my[u]), my[u].seen \subseteq my'[u].seen, Witnessed(u)
    PROVE  StoreAt(pc[u], my[u])'
<1> SUFFICES ASSUME pc[u] = "value_cas" PROVE StoreAt(pc[u], my[u])'
  BY DEF StoreAt
<1>1. my[u].call.hash \in Hashes /\ my[u].p \in Gens /\ my[u].p <= storage /\ my[u].d = my[u].p
      /\ Wants(my[u], my[u].call.hash)
  BY Looking
<1>2. /\ SlotOf(my[u]) \in Slots /\ KeyOf(my[u]) = my[u].call.hash
      /\ hash[my[u].p][SlotOf(my[u])] = KeyOf(my[u])
  BY Unsealed
<1>3. PICK p \in Gens, i \in Slots, h \in Hashes :
        p = my[u].p /\ i = SlotOf(my[u]) /\ h = my[u].call.hash
  BY <1>1, <1>2
<1>4. /\ hash[p][i] = h /\ p <= storage /\ Wants(my[u], h)
      /\ my[u].expect # NULL => value[p][i] # NULL
      /\ my[u].expect = NULL /\ value[p][i] # NULL => my[u].seen \ {NULL} # {}
  BY <1>1, <1>2, <1>3 DEF StoreAt
<1>5. /\ my'[u].d = p /\ my'[u].call = my[u].call /\ my'[u].at = my[u].at /\ my'[u].then = my[u].then
      /\ my'[u].ch = my[u].ch /\ my'[u].expect = my[u].expect
  BY <1>1, <1>3 DEF Alike
<1>6. size'[p] = size[p]
  BY <1>3, Basics DEF Forward
<1>7. SlotOf(my[u])' = i
  BY <1>1, <1>3, <1>5, <1>6 DEF SlotOf, KeyOf
<1>8. value[p][i] # NULL => value'[p][i] # NULL
  BY DEF Forward
<1>9. ASSUME my[u].expect = NULL, value'[p][i] # NULL PROVE my'[u].seen \ {NULL} # {}
  <2>1. CASE value[p][i] # NULL
    BY <1>4, <1>9, <2>1
  <2>2. CASE value[p][i] = NULL
    <3>1. value'[p][i] \in Values /\ Shown(value'[p][i]) \in my'[u].seen
      BY <1>4, <1>9, <2>2 DEF Witnessed
    <3>2. Shown(value'[p][i]) = value'[p][i]
      BY <3>1, ConstFacts DEF Shown
    <3> QED BY <1>9, <3>1, <3>2
  <2> QED BY <2>1, <2>2
<1> QED BY <1>4, <1>5, <1>7, <1>8, <1>9 DEF StoreAt

LEMMA RoverKept ==
    ASSUME IInv, Forward, NEW u \in Threads, NEW r, r = rover'[u], NEW l, NEW m,
           RoverAt(pc[u], my[u], rover[u]),
           r.on = rover[u].on, r.storage = rover[u].storage, r.index = rover[u].index,
           r.got = rover[u].got, r.stay \subseteq rover[u].stay,
           \A h \in r.stay : content'[h] # NULL,
           l = pc'[u], m = my'[u],
           \/ l = pc[u] /\ m.p = my[u].p
           \/ l \notin {"enum_hash", "enum_value"} /\ pc[u] # "enum_value",
           m.call # Idle /\ m.call.op = "next" => r.on
    PROVE  RoverAt(l, m, r)'
<1>1. rover[u] \in Rovers
  BY Basics
<1>2. Left(l, r) = Left(pc[u], rover[u])
  BY DEF Left
<1>3. l \in {"enum_hash", "enum_value"} => r.storage = m.p
  BY DEF RoverAt
<1>4. ASSUME r.on, r.storage # -1
      PROVE  /\ \A h \in r.got : \E j \in Slots : j < Left(l, r) /\ hash'[r.storage][j] = h
             /\ \A h \in r.stay : \E j \in Slots :
                  hash'[r.storage][j] = h /\ (j < Left(l, r) => h \in r.got)
  <2>1. PICK g \in Gens : g = r.storage
    BY <1>1, <1>4 DEF Rovers
  <2>2. /\ \A h \in r.got : h # NO_HASH
        /\ \A h \in r.stay : h # NO_HASH
    BY <1>1, ConstFacts DEF Rovers
  <2>3. \A j \in Slots : hash[g][j] # NO_HASH => hash'[g][j] = hash[g][j]
    BY DEF Forward
  <2>4. /\ \A h \in r.got : \E j \in Slots : j < Left(l, r) /\ hash[g][j] = h
        /\ \A h \in r.stay : \E j \in Slots : hash[g][j] = h /\ (j < Left(l, r) => h \in r.got)
    BY <1>2, <1>4, <2>1 DEF RoverAt
  <2>5. ASSUME NEW h \in r.got PROVE \E j \in Slots : j < Left(l, r) /\ hash'[g][j] = h
    BY <2>2, <2>3, <2>4
  <2>6. ASSUME NEW h \in r.stay
        PROVE  \E j \in Slots : hash'[g][j] = h /\ (j < Left(l, r) => h \in r.got)
    BY <2>2, <2>3, <2>4
  <2> QED BY <2>1, <2>5, <2>6
<1>5. r.on /\ r.storage = -1 => r.got = {} /\ r.index = 0
  BY DEF RoverAt
<1> QED BY <1>3, <1>4, <1>5 DEF RoverAt, Left

LEMMA KnowsOn ==
    ASSUME IInv, IInv', Forward, NEW u \in Threads, Knows(pc[u], my[u], rover[u]),
           pc'[u] = pc[u], Alike(my'[u], my[u]), my[u].seen \subseteq my'[u].seen, Witnessed(u),
           rover'[u].on = rover[u].on, rover'[u].storage = rover[u].storage,
           rover'[u].index = rover[u].index, rover'[u].got = rover[u].got,
           rover'[u].stay \subseteq rover[u].stay,
           SeenLast(my[u])', \A h \in rover'[u].stay : content'[h] # NULL
    PROVE  Knows(pc[u], my[u], rover[u])'
<1>1. LookAt(pc[u], my[u])' /\ StoreAt(pc[u], my[u])'
  BY LookKept, StoreKept DEF Knows
<1>2. RoverAt(pc[u], my[u], rover[u])'
  <2>1. PICK r, l, m : r = rover'[u] /\ l = pc'[u] /\ m = my'[u]
    OBVIOUS
  <2>2. m.p = my[u].p /\ m.call = my[u].call
    BY <2>1 DEF Alike
  <2>3. RoverAt(pc[u], my[u], rover[u])
    BY DEF Knows
  <2>4. m.call # Idle /\ m.call.op = "next" => r.on
    BY <2>1, <2>2, <2>3 DEF RoverAt
  <2>5. RoverAt(l, m, r)'
    BY <2>1, <2>2, <2>3, <2>4, RoverKept
  <2> QED BY <2>1, <2>5 DEF RoverAt, Left
<1> QED BY <1>1, <1>2 DEF Knows

LEMMA OthersKnow ==
    ASSUME RInv, IInv', Forward, Steady, NEW t \in Threads,
           \A u \in Threads \ {t} : pc'[u] = pc[u] /\ my'[u] = my[u] /\ rover'[u] = rover[u]
    PROVE  \A u \in Threads \ {t} : Knows(pc[u], my[u], rover[u])'
<1> SUFFICES ASSUME NEW u \in Threads \ {t} PROVE Knows(pc[u], my[u], rover[u])'
  OBVIOUS
<1>1. IInv /\ Knows(pc[u], my[u], rover[u]) /\ content' = content
  BY DEF RInv, Steady
<1>2. Witnessed(u)
  BY DEF Witnessed, Steady
<1>3. SeenLast(my[u])'
  BY <1>1 DEF Knows, SeenLast
<1>4. \A h \in rover'[u].stay : content'[h] # NULL
  BY <1>1 DEF Knows, RoverAt
<1>5. Alike(my'[u], my[u]) /\ my[u].seen \subseteq my'[u].seen
  BY DEF Alike
<1> QED BY <1>1, <1>2, <1>3, <1>4, <1>5, KnowsOn

-----------------------------------------------------------------------------
(* Steps, as the callers see them *)

(* A thread that is not idle is in one of its calls. *)
LEMMA Caller ==
    ASSUME IInv, NEW t \in Threads, pc[t] # "idle"
    PROVE  /\ my[t].call \in Calls[t] /\ my[t].call # Idle /\ my[t].seen \subseteq Values \union {NULL}
           /\ my[t].call.op \in {"insert", "register", "remove", "lookup", "next", "migrate"}
           /\ my[t].call.op \notin {"next", "migrate"} =>
                my[t].call.hash \in Hashes /\ my[t].call.value \in Values \union {NULL}
           /\ my[t].call.op \in {"insert", "register", "remove"} => my[t].call.value \in Values
<1>1. my[t].call \in Calls[t] /\ my[t].seen \subseteq Values \union {NULL}
  BY Basics DEF CallAt
<1> QED BY <1>1, CallFacts

(* It is in the same one in the map that RemovableMap sees. *)
LEMMA CallSeen ==
    ASSUME IInv, NEW t \in Threads, pc[t] # "idle", my[t].call.op # "migrate"
    PROVE  /\ CallsMap[t] # Idle /\ CallsMap[t].op = my[t].call.op
           /\ my[t].call.op # "next" =>
                /\ CallsMap[t].hash = my[t].call.hash /\ CallsMap[t].value = my[t].call.value
                /\ CallsMap[t].seen = my[t].seen
<1>1. CallsMap[t] = CallMap(t)
  BY DEF CallsMap
<1>2. CASE my[t].call.op = "next"
  <2>1. CallsMap[t] = [op |-> "next"]
    BY <1>1, <1>2, Caller DEF CallMap
  <2> QED BY <1>2, <2>1, HashtableAssumption
<1>3. CASE my[t].call.op # "next"
  <2>1. CallsMap[t] = [op |-> my[t].call.op, hash |-> my[t].call.hash,
                       value |-> my[t].call.value, seen |-> my[t].seen]
    BY <1>1, <1>3, Caller DEF CallMap
  <2>2. CallsMap[t] \in [op : {"insert", "register", "remove", "lookup"}, hash : Hashes,
                         value : Values \union {NULL}, seen : SUBSET (Values \union {NULL})]
    BY <1>3, <2>1, Caller
  <2>3. CallsMap[t] # Idle
    BY <2>2, HashtableAssumption
  <2> QED BY <2>1, <2>3
<1> QED BY <1>2, <1>3

LEMMA CallStays ==
    ASSUME NEW t \in Threads,
           \/ my'[t].call = my[t].call /\ my'[t].seen = my[t].seen
           \/ my[t].call.op = "migrate" /\ my'[t].call = Idle,
           \A u \in Threads \ {t} : my'[u] = my[u]
    PROVE  CallsMap' = CallsMap
<1>1. CallMap(t)' = CallMap(t) /\ \A u \in Threads \ {t} : CallMap(u)' = CallMap(u)
  BY DEF CallMap
<1> QED BY <1>1 DEF CallsMap

LEMMA CallEnds ==
    ASSUME IInv, NEW t \in Threads, NEW a, Return(t, a)
    PROVE  /\ CallsMap' = [CallsMap EXCEPT ![t] = Idle]
           /\ answer' = [answer EXCEPT ![t] = a]
           /\ pc'[t] = "idle" /\ my'[t] = NoLocals
           /\ \A u \in Threads \ {t} : pc'[u] = pc[u] /\ my'[u] = my[u]
<1>1. pc \in [Threads -> Labels] /\ my \in [Threads -> Locals]
  BY Basics DEF ThreadTypes
<1>2. /\ pc'[t] = "idle" /\ my'[t] = NoLocals
      /\ \A u \in Threads \ {t} : pc'[u] = pc[u] /\ my'[u] = my[u]
  BY <1>1 DEF Return, Answer, Goto
<1>3. CallMap(t)' = Idle /\ \A u \in Threads \ {t} : CallMap(u)' = CallMap(u)
  BY <1>2 DEF CallMap, NoLocals
<1>4. CallsMap' = [CallsMap EXCEPT ![t] = Idle]
  BY <1>3 DEF CallsMap
<1> QED BY <1>2, <1>4 DEF Return, Answer

LEMMA RoversStay ==
    ASSUME \A u \in Threads : rover'[u].got = rover[u].got /\ rover'[u].stay = rover[u].stay
    PROVE  GotMap' = GotMap /\ StayMap' = StayMap
  BY DEF GotMap, StayMap

(* A step inside a call, which the callers do not see. *)
LEMMA InsideStep ==
    ASSUME RInv, IInv', Forward, Steady, NEW t \in Threads, pc[t] # "enum_value",
           pc'[t] \notin {"enum_hash", "enum_value"}, LookAt(pc[t], my[t])', StoreAt(pc[t], my[t])',
           \/ my'[t].call = my[t].call /\ my'[t].seen = my[t].seen
           \/ my[t].call.op = "migrate" /\ my'[t].call = Idle,
           \A u \in Threads \ {t} : pc'[u] = pc[u] /\ my'[u] = my[u], UNCHANGED <<rover, answer>>
    PROVE  RInv' /\ UNCHANGED Contract!vars
<1>1. IInv /\ Knows(pc[t], my[t], rover[t]) /\ content' = content
  BY DEF RInv, Steady
<1>2. PICK r, l, m : r = rover'[t] /\ l = pc'[t] /\ m = my'[t]
  OBVIOUS
<1>3. SeenLast(m)'
  BY <1>1, <1>2 DEF Knows, SeenLast
<1>4. LookAt(l, m)' /\ StoreAt(l, m)'
  BY <1>2 DEF LookAt, StoreAt, SlotOf, KeyOf
<1>5. RoverAt(l, m, r)'
  <2>1. m.call # Idle /\ m.call.op = "next" => r.on
    BY <1>1, <1>2 DEF Knows, RoverAt
  <2>2. \A h \in r.stay : content'[h] # NULL
    BY <1>1, <1>2 DEF Knows, RoverAt
  <2>3. RoverAt(pc[t], my[t], rover[t]) /\ r = rover[t] /\ l \notin {"enum_hash", "enum_value"}
    BY <1>1, <1>2 DEF Knows
  <2> QED BY <1>1, <1>2, <2>1, <2>2, <2>3, RoverKept
<1>6. Knows(pc[t], my[t], rover[t])'
  <2>1. Knows(l, m, r)'
    BY <1>3, <1>4, <1>5 DEF Knows
  <2> QED BY <1>2, <2>1 DEF Knows, SeenLast, LookAt, StoreAt, SlotOf, KeyOf, RoverAt, Left
<1>7. \A u \in Threads \ {t} : Knows(pc[u], my[u], rover[u])'
  BY OthersKnow
<1>8. RInv'
  BY <1>6, <1>7 DEF RInv
<1>9. UNCHANGED Contract!vars
  <2>1. CallsMap' = CallsMap
    BY CallStays
  <2> QED BY <1>1, <2>1, RoversStay, MapStutters
<1> QED BY <1>8, <1>9

(* Labels at which a call does not rely on what the map had. *)
Inside == Labels \ {"look_hash", "look_value", "value_cas", "enum_hash", "enum_value"}

LEMMA HiddenStep ==
    ASSUME RInv, IInv', Forward, Steady, NEW t \in Threads, pc[t] # "enum_value", pc'[t] \in Inside,
           \/ my'[t].call = my[t].call /\ my'[t].seen = my[t].seen
           \/ my[t].call.op = "migrate" /\ my'[t].call = Idle,
           \A u \in Threads \ {t} : pc'[u] = pc[u] /\ my'[u] = my[u], UNCHANGED <<rover, answer>>
    PROVE  RInv' /\ UNCHANGED Contract!vars
<1>1. LookAt(pc[t], my[t])' /\ StoreAt(pc[t], my[t])' /\ pc'[t] \notin {"enum_hash", "enum_value"}
  BY DEF LookAt, StoreAt, Inside
<1> QED BY <1>1, InsideStep

(* What a call that changes nothing has seen. *)
HasSeen(t, a) ==
    \/ /\ my[t].call.op \in {"insert", "register"}
       /\ \E v \in my[t].seen \ {NULL} : a = IF my[t].call.op = "insert" THEN "EEXIST" ELSE v
    \/ my[t].call.op = "remove" /\ my[t].seen \ {my[t].call.value} # {} /\ a = "ENOENT"
    \/ my[t].call.op = "lookup" /\ a \in my[t].seen
    \/ my[t].call.op = "next" /\ (a = "ECANCELED" \/ (a = "end" /\ rover[t].stay \subseteq rover[t].got))

(* A call that changes nothing returns. *)
LEMMA AnswerStep ==
    ASSUME RInv, IInv', NEW t \in Threads, NEW a, pc[t] # "idle", Return(t, a), HasSeen(t, a),
           UNCHANGED <<world, words, content>>,
           \A u \in Threads \ {t} : rover'[u] = rover[u],
           rover'[t].got = rover[t].got, rover'[t].stay = rover[t].stay,
           rover'[t].on => rover'[t] = rover[t] /\ pc[t] # "enum_value"
    PROVE  RInv' /\ Contract!Next
<1>1. IInv /\ Knows(pc[t], my[t], rover[t])
  BY DEF RInv
<1>2. /\ CallsMap' = [CallsMap EXCEPT ![t] = Idle] /\ answer' = [answer EXCEPT ![t] = a]
      /\ pc'[t] = "idle" /\ my'[t] = NoLocals
      /\ \A u \in Threads \ {t} : pc'[u] = pc[u] /\ my'[u] = my[u]
  BY <1>1, CallEnds
<1>3. Forward /\ Steady
  BY <1>1, QuietForward DEF world, words
<1>4. \A u \in Threads \ {t} : Knows(pc[u], my[u], rover[u])'
  BY <1>2, <1>3, OthersKnow
<1>5. PICK r, l, m : r = rover'[t] /\ l = pc'[t] /\ m = my'[t]
  OBVIOUS
<1>6. l = "idle" /\ m.call = Idle
  BY <1>2, <1>5 DEF NoLocals
<1>7. RoverAt(l, m, r)'
  <2>1. \A h \in r.stay : content'[h] # NULL
    BY <1>1, <1>5 DEF Knows, RoverAt
  <2>2. CASE r.on
    <3>1. RoverAt(pc[t], my[t], rover[t]) /\ r = rover[t]
      BY <1>1, <1>5, <2>2 DEF Knows
    <3> QED BY <1>1, <1>3, <1>5, <1>6, <2>1, <2>2, <3>1, RoverKept
  <2>3. CASE ~r.on
    BY <1>6, <2>1, <2>3 DEF RoverAt
  <2> QED BY <2>2, <2>3
<1>8. Knows(l, m, r)'
  BY <1>6, <1>7 DEF Knows, SeenLast, LookAt, StoreAt
<1>9. RInv'
  <2>1. Knows(pc[t], my[t], rover[t])'
    BY <1>5, <1>8 DEF Knows, SeenLast, LookAt, StoreAt, SlotOf, KeyOf, RoverAt, Left
  <2> QED BY <1>4, <2>1 DEF RInv
<1>10. my[t].call.op # "migrate"
  BY DEF HasSeen
<1>11. /\ CallsMap[t] # Idle /\ CallsMap[t].op = my[t].call.op
       /\ my[t].call.op # "next" =>
            /\ CallsMap[t].value = my[t].call.value /\ CallsMap[t].seen = my[t].seen
       /\ StayMap[t] = rover[t].stay /\ GotMap[t] = rover[t].got
  BY <1>1, <1>10, CallSeen DEF StayMap, GotMap
<1>12. MayAnswer(t, a)
  BY <1>11 DEF MayAnswer, HasSeen
<1>13. GotMap' = GotMap /\ StayMap' = StayMap
  BY RoversStay
<1> QED BY <1>2, <1>9, <1>11, <1>12, <1>13, MapAnswers

(* A call begins. *)
LEMMA CallRef ==
    ASSUME RInv, IInv', NEW t \in Threads, NEW c \in Calls[t], Call(t, c)
    PROVE  RInv' /\ [Contract!Next]_Contract!vars
<1>1. /\ IInv /\ Knows(pc[t], my[t], rover[t]) /\ pc[t] = "idle" /\ my[t].call = Idle
      /\ UNCHANGED <<world, words, rover, content>>
  <2>1. IInv /\ pc[t] = "idle"
    BY DEF RInv, Call
  <2>2. my[t].call = Idle
    BY <2>1, Basics DEF CallAt
  <2> QED BY <2>1, <2>2 DEF RInv, Call
<1>2. /\ c # Idle /\ c.op \in {"insert", "register", "remove", "lookup", "next", "migrate"}
      /\ c.op \notin {"next", "migrate"} => c.hash \in Hashes /\ c.value \in Values \union {NULL}
  BY CallFacts
<1>3. PICK s : s = IF c.op \in {"next", "migrate"} THEN {} ELSE {content[c.hash]}
  OBVIOUS
<1>4. PICK m : m = [NoLocals EXCEPT !.call = c, !.seen = s]
  OBVIOUS
<1>5. m.call = c /\ m.seen = s
  BY <1>4 DEF NoLocals
<1>6. /\ pc'[t] = "load" /\ my'[t] = m
      /\ \A u \in Threads \ {t} : pc'[u] = pc[u] /\ my'[u] = my[u]
      /\ answer' = [answer EXCEPT ![t] = IF c.op = "migrate" THEN @ ELSE Idle]
  <2>1. pc \in [Threads -> Labels] /\ my \in [Threads -> Locals]
    BY <1>1, Basics DEF ThreadTypes
  <2> QED BY <1>3, <1>4, <2>1 DEF Call, Goto
<1>7. Forward /\ Steady
  BY <1>1, QuietForward DEF world, words
<1>8. \A u \in Threads \ {t} : Knows(pc[u], my[u], rover[u])'
  <2>1. rover' = rover
    BY <1>1
  <2> QED BY <1>6, <1>7, <2>1, OthersKnow
<1>9. PICK r, l : r = rover'[t] /\ l = pc'[t]
  OBVIOUS
<1>10. RoverAt(l, m, r)'
  <2>1. r = rover[t] /\ l = "load"
    BY <1>1, <1>6, <1>9
  <2>2. m.call # Idle /\ m.call.op = "next" => r.on
    BY <1>5, <2>1 DEF Call
  <2>3. RoverAt(pc[t], my[t], rover[t]) /\ \A h \in r.stay : content'[h] # NULL
    BY <1>1, <2>1 DEF Knows, RoverAt
  <2> QED BY <1>1, <1>6, <1>7, <1>9, <2>1, <2>2, <2>3, RoverKept
<1>11. Knows(l, m, r)'
  <2>1. l = "load"
    BY <1>6, <1>9
  <2>2. SeenLast(m)'
    BY <1>1, <1>3, <1>5 DEF SeenLast
  <2> QED BY <1>10, <2>1, <2>2 DEF Knows, LookAt, StoreAt
<1>12. RInv'
  <2>1. Knows(pc[t], my[t], rover[t])'
    BY <1>6, <1>9, <1>11 DEF Knows, SeenLast, LookAt, StoreAt, SlotOf, KeyOf, RoverAt, Left
  <2> QED BY <1>8, <2>1 DEF RInv
<1>13. GotMap' = GotMap /\ StayMap' = StayMap /\ content' = content
  BY <1>1, RoversStay
<1>14. CallsMap[t] = Idle /\ \A u \in Threads \ {t} : CallMap(u)' = CallMap(u)
  BY <1>1, <1>6 DEF CallsMap, CallMap
<1>15. CASE c.op = "migrate"
  <2>1. CallMap(t)' = CallMap(t)
    BY <1>1, <1>5, <1>6, <1>15 DEF CallMap
  <2>2. CallsMap' = CallsMap
    BY <1>14, <2>1 DEF CallsMap
  <2>3. answer' = answer
    <3>1. answer \in [Threads -> Answers]
      BY <1>1, Basics DEF CallerTypes
    <3> QED BY <1>6, <1>15, <3>1
  <2> QED BY <1>12, <1>13, <2>2, <2>3, MapStutters
<1>16. CASE c.op = "next"
  <2>1. CallMap(t)' = [op |-> "next"]
    BY <1>2, <1>5, <1>6, <1>16 DEF CallMap
  <2>2. CallsMap' = [CallsMap EXCEPT ![t] = [op |-> "next"]]
    BY <1>14, <2>1 DEF CallsMap
  <2>3. answer' = [answer EXCEPT ![t] = Idle]
    BY <1>6, <1>16
  <2> QED BY <1>12, <1>13, <1>14, <2>2, <2>3, MapBeginsNext
<1>17. CASE c.op \notin {"next", "migrate"}
  <2>1. CallMap(t)' = [op |-> c.op, hash |-> c.hash, value |-> c.value, seen |-> {content[c.hash]}]
    BY <1>2, <1>3, <1>5, <1>6, <1>17 DEF CallMap
  <2>2. CallsMap' = [CallsMap EXCEPT ![t] =
                       [op |-> c.op, hash |-> c.hash, value |-> c.value, seen |-> {content[c.hash]}]]
    BY <1>14, <2>1 DEF CallsMap
  <2>3. answer' = [answer EXCEPT ![t] = Idle]
    BY <1>6, <1>17
  <2>4. PICK op \in {"insert", "register", "remove", "lookup"}, h \in Hashes, v \in Values \union {NULL} :
          op = c.op /\ h = c.hash /\ v = c.value
    BY <1>2, <1>17
  <2> QED BY <1>12, <1>13, <1>14, <2>2, <2>3, <2>4, MapBegins
<1> QED BY <1>15, <1>16, <1>17

(* An enumerator starts. *)
LEMMA EnumerateRef ==
    ASSUME RInv, IInv', NEW t \in Threads, Enumerate(t)
    PROVE  RInv' /\ Contract!Next
<1>1. /\ IInv /\ pc[t] = "idle" /\ my[t].call = Idle
      /\ UNCHANGED <<world, words, pc, my, answer, content>>
  <2>1. IInv /\ pc[t] = "idle"
    BY DEF RInv, Enumerate
  <2>2. my[t].call = Idle
    BY <2>1, Basics DEF CallAt
  <2> QED BY <2>1, <2>2 DEF Enumerate
<1>2. PICK r : r = [NoRover EXCEPT !.on = TRUE, !.stay = {h \in Hashes : content[h] # NULL}]
  OBVIOUS
<1>3. r.storage = -1 /\ r.index = 0 /\ r.got = {} /\ r.stay = {h \in Hashes : content[h] # NULL}
  BY <1>2 DEF NoRover
<1>4. rover' = [rover EXCEPT ![t] = r] /\ rover \in [Threads -> Rovers]
  BY <1>1, <1>2, Basics DEF Enumerate, CallerTypes
<1>5. rover'[t] = r /\ \A u \in Threads \ {t} : rover'[u] = rover[u]
  BY <1>4
<1>6. Forward /\ Steady
  BY <1>1, QuietForward DEF world, words
<1>7. \A u \in Threads \ {t} : Knows(pc[u], my[u], rover[u])'
  BY <1>1, <1>5, <1>6, OthersKnow
<1>8. Knows(pc[t], my[t], rover[t])'
  <2>1. SeenLast(my[t])' /\ LookAt(pc[t], my[t])' /\ StoreAt(pc[t], my[t])'
    BY <1>1 DEF SeenLast, LookAt, StoreAt
  <2>2. RoverAt(pc[t], my[t], rover[t])'
    BY <1>1, <1>3, <1>5 DEF RoverAt
  <2> QED BY <2>1, <2>2 DEF Knows
<1>9. RInv'
  BY <1>7, <1>8 DEF RInv
<1>10. /\ GotMap' = [GotMap EXCEPT ![t] = {}]
       /\ StayMap' = [StayMap EXCEPT ![t] = {h \in Hashes : content[h] # NULL}]
  BY <1>3, <1>5 DEF GotMap, StayMap
<1>11. CallsMap' = CallsMap /\ CallsMap[t] = Idle
  BY <1>1 DEF CallsMap, CallMap
<1> QED BY <1>1, <1>9, <1>10, <1>11, MapEnumerates

(* What the table's storage shows of a hash is what the map has. *)
LEMMA NowFacts ==
    ASSUME IInv, NEW t \in Threads, NEW h \in Hashes
    PROVE  /\ \A j \in Slots : hash[storage][j] = h => Shown(value[storage][j]) = content[h]
           /\ (\A j \in Slots : hash[storage][j] # h) => content[h] = NULL
           /\ content[h] # NULL => \E j \in Slots : hash[storage][j] = h
<1>1. TableTypes /\ SlotInv /\ ContentInv /\ storage \in Gens /\ h # NO_HASH
  BY Basics, ConstFacts
<1>2. ASSUME content[h] # NULL PROVE \E j \in Slots : hash[storage][j] = h /\ value[storage][j] = content[h]
  BY <1>1, <1>2 DEF ContentInv
<1>3. ASSUME NEW j \in Slots, hash[storage][j] = h PROVE Shown(value[storage][j]) = content[h]
  <2>1. CASE content[h] # NULL
    <3>1. PICK k \in Slots : hash[storage][k] = h /\ value[storage][k] = content[h]
      BY <1>2, <2>1
    <3>2. k = j
      BY <1>1, <1>3, <3>1 DEF SlotInv
    <3>3. content[h] # TOMB
      BY <1>1, <2>1, ConstFacts DEF TableTypes
    <3> QED BY <3>1, <3>2, <3>3 DEF Shown
  <2>2. CASE content[h] = NULL
    <3>1. value[storage][j] \notin Values
      <4>1. value[storage][j] \in Values => content[h] = value[storage][j]
        BY <1>1, <1>3 DEF ContentInv
      <4> QED BY <2>2, <4>1, ConstFacts
    <3>2. value[storage][j] \in Words
      BY <1>1 DEF TableTypes
    <3> QED BY <2>2, <3>1, <3>2 DEF Shown, Words
  <2> QED BY <2>1, <2>2
<1> QED BY <1>2, <1>3

(* The enumerator of a thread moves, or ends; the map does not change. *)
LEMMA EnumStep ==
    ASSUME RInv, IInv', NEW t \in Threads, NEW l, NEW m, NEW r,
           pc'[t] = l, my'[t] = m, rover'[t] = r,
           UNCHANGED <<world, words, content>>, RoverAt(l, m, r)',
           SeenLast(my[t])', LookAt(pc[t], my[t])', StoreAt(pc[t], my[t])',
           \A u \in Threads \ {t} : pc'[u] = pc[u] /\ my'[u] = my[u] /\ rover'[u] = rover[u]
    PROVE  RInv'
<1>1. IInv /\ Forward /\ Steady
  BY QuietForward DEF world, words, RInv
<1>2. \A u \in Threads \ {t} : Knows(pc[u], my[u], rover[u])'
  BY <1>1, OthersKnow
<1>3. Knows(pc[t], my[t], rover[t])'
  <2>1. RoverAt(pc[t], my[t], rover[t])'
    BY DEF RoverAt, Left
  <2> QED BY <2>1 DEF Knows
<1> QED BY <1>2, <1>3 DEF RInv

(* A call reads map->storage: from now on it looks at what the map has. *)
LEMMA LoadRef ==
    ASSUME RInv, IInv', NEW t \in Threads, Load(t)
    PROVE  RInv' /\ [Contract!Next]_Contract!vars
<1>1. /\ IInv /\ Knows(pc[t], my[t], rover[t]) /\ pc[t] = "load"
      /\ UNCHANGED <<world, words, content, calls>>
  BY DEF RInv, Load
<1>2. /\ my[t].call \in Calls[t] /\ my[t].call # Idle
      /\ my[t].call.op \in {"insert", "register", "remove", "lookup", "next", "migrate"}
      /\ my[t].call.op \notin {"next", "migrate"} => my[t].call.hash \in Hashes
  BY <1>1, Caller
<1>3. /\ rover \in [Threads -> Rovers] /\ rover[t] \in Rovers /\ my \in [Threads -> Locals]
      /\ my[t] \in Locals /\ pc \in [Threads -> Labels] /\ storage \in Gens /\ storage \in Nat
  BY <1>1, Basics DEF CallerTypes, ThreadTypes
<1>4. Forward /\ Steady
  BY <1>1, QuietForward DEF world, words
<1>5. CASE /\ my[t].call.op = "next" /\ Return(t, "ECANCELED")
           /\ rover' = [rover EXCEPT ![t].on = FALSE]
  <2>1. rover' = [rover EXCEPT ![t] = [rover[t] EXCEPT !.on = FALSE]]
    BY <1>5
  <2>2. /\ \A u \in Threads \ {t} : rover'[u] = rover[u]
        /\ rover'[t].got = rover[t].got /\ rover'[t].stay = rover[t].stay /\ ~rover'[t].on
    BY <1>3, <2>1 DEF Rovers
  <2>3. HasSeen(t, "ECANCELED")
    BY <1>5 DEF HasSeen
  <2> QED BY <1>1, <1>5, <2>2, <2>3, AnswerStep
<1>6. CASE /\ my[t].call.op = "next" => rover[t].storage \in {-1, storage}
           /\ my' = [my EXCEPT ![t].p = storage, ![t].d = storage, ![t].at = 0, ![t].then = "value"]
           /\ rover' = IF my[t].call.op = "next" THEN [rover EXCEPT ![t].storage = storage] ELSE rover
           /\ Goto(t, CASE my[t].call.op \in {"insert", "register"} -> "check"
                        [] my[t].call.op = "remove" -> "rem_hash"
                        [] my[t].call.op = "lookup" -> "look_hash"
                        [] my[t].call.op = "migrate" -> "mig_next"
                        [] my[t].call.op = "next" -> "enum_hash")
           /\ UNCHANGED answer
  <2> DEFINE m == [my[t] EXCEPT !.p = storage, !.d = storage, !.at = 0, !.then = "value"]
  <2>1. m.call = my[t].call /\ m.p = storage /\ m.seen = my[t].seen
    BY <1>3 DEF Locals
  <2>2. PICK l \in Labels :
          /\ Goto(t, l)
          /\ l \in {"check", "rem_hash", "look_hash", "mig_next", "enum_hash"}
          /\ l = "look_hash" => my[t].call.op = "lookup"
          /\ l = "enum_hash" <=> my[t].call.op = "next"
    BY <1>2, <1>6 DEF Labels
  <2>3. my' = [my EXCEPT ![t] = m]
    BY <1>6
  <2> HIDE DEF m
  <2>4. /\ pc'[t] = l /\ my'[t] = m
        /\ \A u \in Threads \ {t} : pc'[u] = pc[u] /\ my'[u] = my[u]
    BY <1>3, <2>2, <2>3 DEF Goto
  <2>5. CallsMap' = CallsMap
    BY <2>1, <2>4, CallStays
  <2>6. CASE my[t].call.op # "next"
    <3>1. UNCHANGED rover /\ l \notin {"enum_hash", "enum_value"}
      BY <1>6, <2>2, <2>6
    <3>2. LookAt(pc[t], my[t])'
      <4>1. SUFFICES ASSUME l = "look_hash" PROVE LookAt(pc[t], my[t])'
        BY <2>2, <2>4 DEF LookAt
      <4>2. PICK h \in Hashes : h = my[t].call.hash
        BY <1>2, <2>2, <4>1
      <4>3. content[h] \in my[t].seen
        BY <1>1, <1>2, <2>2, <4>1, <4>2 DEF Knows, SeenLast
      <4>4. /\ \A j \in Slots : hash[storage][j] = h => Shown(value[storage][j]) = content[h]
            /\ (\A j \in Slots : hash[storage][j] # h) => content[h] = NULL
        BY <1>1, NowFacts
      <4>5. /\ \A j \in Slots : hash[storage][j] = h => Shown(value[storage][j]) \in my[t].seen
            /\ NULL \in my[t].seen \/ \E j \in Slots : hash[storage][j] = h
        BY <4>3, <4>4
      <4>6. UNCHANGED <<hash, value>> /\ my'[t].p = storage /\ my'[t].call.hash = h /\ my'[t].seen = my[t].seen
        BY <1>1, <2>1, <2>4, <4>2 DEF words
      <4> QED BY <4>5, <4>6 DEF LookAt
    <3>3. StoreAt(pc[t], my[t])'
      BY <2>2, <2>4 DEF StoreAt
    <3>4. UNCHANGED <<rover, answer>>
      BY <1>6, <3>1
    <3>5. /\ pc[t] # "enum_value" /\ pc'[t] \notin {"enum_hash", "enum_value"}
          /\ my'[t].call = my[t].call /\ my'[t].seen = my[t].seen
      BY <1>1, <2>1, <2>4, <3>1
    <3> QED BY <1>4, <2>4, <3>2, <3>3, <3>4, <3>5, InsideStep
  <2>7. CASE my[t].call.op = "next"
    <3>1. PICK r : r = [rover[t] EXCEPT !.storage = storage]
      OBVIOUS
    <3>2. /\ r.storage = storage /\ r.on = rover[t].on /\ r.index = rover[t].index
          /\ r.got = rover[t].got /\ r.stay = rover[t].stay
      BY <1>3, <3>1 DEF Rovers
    <3>3. rover'[t] = r /\ \A u \in Threads \ {t} : rover'[u] = rover[u]
      BY <1>3, <1>6, <2>7, <3>1
    <3>4. l = "enum_hash"
      BY <2>2, <2>7
    <3>5. /\ RoverAt("load", my[t], rover[t])
          /\ rover[t].stay \subseteq Hashes /\ rover[t].index \in Nat
      BY <1>1, <1>3 DEF Knows, Rovers
    <3>6. storage # -1 /\ \A j \in Slots : ~(j < 0)
      BY <1>3 DEF Slots
    <3>7. rover[t].on /\ rover[t].storage \in {-1, storage}
      BY <1>2, <1>6, <2>7, <3>5 DEF RoverAt
    <3>8. \A h \in r.stay : content[h] # NULL
      BY <3>2, <3>5 DEF RoverAt
    <3>9. \A h \in r.got : \E j \in Slots : j < r.index /\ hash[storage][j] = h
      BY <3>2, <3>5, <3>7 DEF RoverAt, Left
    <3>10. \A h \in r.stay : \E j \in Slots : hash[storage][j] = h /\ (j < r.index => h \in r.got)
      <4>1. CASE rover[t].storage = storage
        BY <3>2, <3>5, <3>6, <3>7, <4>1 DEF RoverAt, Left
      <4>2. CASE rover[t].storage = -1
        <5>1. r.index = 0
          BY <3>2, <3>5, <3>7, <4>2 DEF RoverAt
        <5>2. \A h \in r.stay : \E j \in Slots : hash[storage][j] = h
          BY <1>1, <3>2, <3>5, <3>8, NowFacts
        <5> QED BY <3>6, <5>1, <5>2
      <4> QED BY <3>7, <4>1, <4>2
    <3>0. PICK n : n = my'[t]
      OBVIOUS
    <3>11. RoverAt(l, n, r)'
      <4>1. UNCHANGED <<content, hash>>
        BY <1>1 DEF words
      <4>2. \A h \in r.stay : content'[h] # NULL
        BY <3>8, <4>1
      <4>3. l = "enum_hash" /\ r.storage = n.p /\ r.on /\ r.storage = storage /\ Left(l, r) = r.index
        BY <2>1, <2>4, <3>2, <3>4, <3>7, <3>0 DEF Left
      <4>4. \A h \in r.got : \E j \in Slots : j < Left(l, r) /\ hash'[r.storage][j] = h
        BY <3>9, <4>1, <4>3
      <4>5. \A h \in r.stay : \E j \in Slots : hash'[r.storage][j] = h /\ (j < Left(l, r) => h \in r.got)
        BY <3>10, <4>1, <4>3
      <4>6. ~(r.storage = -1)
        BY <3>6, <4>3
      <4> QED BY <4>2, <4>3, <4>4, <4>5, <4>6 DEF RoverAt, Left
    <3>12. SeenLast(my[t])' /\ LookAt(pc[t], my[t])' /\ StoreAt(pc[t], my[t])'
      BY <2>1, <2>4, <2>7, <3>4 DEF SeenLast, LookAt, StoreAt
    <3>13. RInv'
      BY <1>1, <2>4, <3>0, <3>3, <3>11, <3>12, EnumStep
    <3>14. UNCHANGED Contract!vars
      <4>1. \A u \in Threads : rover'[u].got = rover[u].got /\ rover'[u].stay = rover[u].stay
        BY <3>2, <3>3
      <4>2. content' = content /\ answer' = answer
        BY <1>1, <1>6
      <4> QED BY <2>5, <4>1, <4>2, RoversStay, MapStutters
    <3> QED BY <3>13, <3>14
  <2> QED BY <2>6, <2>7
<1> QED BY <1>5, <1>6 DEF Load

(* lookup: what it reads, the map had while it was looking. *)
LEMMA LookHashRef ==
    ASSUME RInv, IInv', NEW t \in Threads, LookHash(t)
    PROVE  RInv' /\ [Contract!Next]_Contract!vars
<1>1. /\ IInv /\ Knows(pc[t], my[t], rover[t]) /\ pc[t] = "look_hash"
      /\ UNCHANGED <<world, words, rover, content, calls>>
  BY DEF RInv, LookHash
<1>2. /\ my[t].d = my[t].p /\ my[t].then = "value" /\ my[t].call.op = "lookup"
      /\ my[t].call.hash \in Hashes /\ my[t].p \in Gens
  BY <1>1, Basics, Looking DEF CallAt
<1>3. /\ Slot(t, my[t].p) = SlotOf(my[t]) /\ Key(t) = KeyOf(my[t])
      /\ KeyOf(my[t]) = my[t].call.hash /\ SlotOf(my[t]) \in Slots
      /\ SlotOf(my[t]) = Probe(size[my[t].p], KeyOf(my[t]), my[t].at)
  BY <1>1, <1>2, Addressed DEF Probing
<1>4. Forward /\ Steady
  BY <1>1, QuietForward DEF world, words
<1>5. my \in [Threads -> Locals] /\ my[t] \in Locals /\ pc \in [Threads -> Labels]
  BY <1>1, Basics DEF ThreadTypes
<1>6. CASE hash[my[t].p][SlotOf(my[t])] = NO_HASH /\ Return(t, NULL)
  <2>1. PICK g \in Gens, h \in Hashes, n \in Nat : g = my[t].p /\ h = my[t].call.hash /\ n = my[t].at
    BY <1>1, <1>2, Basics
  <2>2. n <= size[g] /\ Passed(g, h, n) /\ hash[g][Probe(size[g], h, n)] = NO_HASH
    BY <1>1, <1>2, <1>3, <1>6, <2>1, Basics DEF ProbeAt
  <2>3. TableTypes /\ SlotInv /\ size[g] > 0
    BY <1>1, <2>1, Basics
  <2>4. \A j \in Slots : hash[g][j] # h
    BY <2>2, <2>3, VirginMeans
  <2>5. NULL \in my[t].seen
    BY <1>1, <2>1, <2>4 DEF Knows, LookAt
  <2>6. HasSeen(t, NULL)
    BY <1>2, <2>5 DEF HasSeen
  <2>7. \A u \in Threads : rover'[u] = rover[u]
    BY <1>1
  <2> QED BY <1>1, <1>6, <2>6, <2>7, AnswerStep
<1>7. ASSUME pc'[t] \in {"look_hash", "look_value"}, UNCHANGED answer, my'[t].p = my[t].p,
             my'[t].call = my[t].call, my'[t].seen = my[t].seen,
             \A u \in Threads \ {t} : pc'[u] = pc[u] /\ my'[u] = my[u]
      PROVE  RInv' /\ [Contract!Next]_Contract!vars
  <2>1. LookAt(pc[t], my[t])'
    <3>1. LookAt("look_hash", my[t]) /\ UNCHANGED <<hash, value>>
      BY <1>1 DEF Knows, words
    <3> QED BY <1>7, <3>1 DEF LookAt
  <2>2. StoreAt(pc[t], my[t])'
    BY <1>7 DEF StoreAt
  <2>3. UNCHANGED <<rover, answer>> /\ pc[t] # "enum_value" /\ pc'[t] \notin {"enum_hash", "enum_value"}
    BY <1>1, <1>7
  <2> QED BY <1>4, <1>7, <2>1, <2>2, <2>3, InsideStep
<1>8. CASE Goto(t, "look_value") /\ UNCHANGED <<my, answer>>
  <2>1. pc'[t] = "look_value" /\ \A u \in Threads \ {t} : pc'[u] = pc[u]
    BY <1>5, <1>8 DEF Goto
  <2> QED BY <1>7, <1>8, <2>1
<1>9. CASE ProbeNext(t, my[t].p) /\ UNCHANGED <<pc, answer>>
  <2>1. my'[t] = [my[t] EXCEPT !.at = (my[t].at % size[my[t].p]) + 1]
        /\ \A u \in Threads \ {t} : my'[u] = my[u]
    BY <1>5, <1>9 DEF ProbeNext
  <2>2. my'[t].p = my[t].p /\ my'[t].call = my[t].call /\ my'[t].seen = my[t].seen
    BY <1>5, <2>1 DEF Locals
  <2> QED BY <1>1, <1>7, <1>9, <2>1, <2>2
<1> QED BY <1>3, <1>6, <1>8, <1>9 DEF LookHash

LEMMA LookValueRef ==
    ASSUME RInv, IInv', NEW t \in Threads, LookValue(t)
    PROVE  RInv' /\ [Contract!Next]_Contract!vars
<1>1. /\ IInv /\ Knows(pc[t], my[t], rover[t]) /\ pc[t] = "look_value"
      /\ UNCHANGED <<world, words, rover, content, calls>>
  BY DEF RInv, LookValue
<1>2. /\ my[t].d = my[t].p /\ my[t].then = "value" /\ my[t].call.op = "lookup"
      /\ my[t].call.hash \in Hashes /\ my[t].p \in Gens
  BY <1>1, Basics, Looking DEF CallAt
<1>3. /\ Slot(t, my[t].p) = SlotOf(my[t]) /\ KeyOf(my[t]) = my[t].call.hash /\ SlotOf(my[t]) \in Slots
  BY <1>1, <1>2, Addressed DEF Probing
<1>4. hash[my[t].p][SlotOf(my[t])] = my[t].call.hash
  BY <1>1, <1>2, <1>3, Basics DEF ProbeAt
<1>5. PICK a : a = Shown(value[my[t].p][SlotOf(my[t])])
  OBVIOUS
<1>6. a \in my[t].seen
  BY <1>1, <1>3, <1>4, <1>5 DEF Knows, LookAt
<1>7. Return(t, a)
  BY <1>3, <1>5 DEF LookValue, Shown
<1>8. HasSeen(t, a) /\ \A u \in Threads : rover'[u] = rover[u]
  BY <1>1, <1>2, <1>6 DEF HasSeen
<1> QED BY <1>1, <1>7, <1>8, AnswerStep

(* A call that leaves its storage to the migration. *)
LEMMA HelpRef ==
    ASSUME RInv, IInv', NEW t \in Threads, pc[t] # "enum_value", NEW l \in Inside, Goto(t, l),
           UNCHANGED <<my, answer, rover, world, words, content>>
    PROVE  RInv' /\ UNCHANGED Contract!vars
<1>1. IInv /\ Forward /\ Steady
  BY QuietForward DEF world, words, RInv
<1>2. pc'[t] = l /\ \A u \in Threads \ {t} : pc'[u] = pc[u]
  BY <1>1, Basics DEF Goto, ThreadTypes
<1> QED BY <1>1, <1>2, HiddenStep

LEMMA CheckRef ==
    ASSUME RInv, IInv', NEW t \in Threads, Check(t)
    PROVE  RInv' /\ [Contract!Next]_Contract!vars
<1>1. pc[t] = "check" /\ UNCHANGED <<my, answer, rover, world, words, content>>
  BY DEF Check
<1>2. PICK l \in Inside : Goto(t, l)
  BY DEF Check, Inside, Labels
<1> QED BY <1>1, <1>2, HelpRef

(* insert and register: what is in their slot, and the map. *)
LEMMA OwnSlot ==
    ASSUME RInv, NEW t \in Threads, pc[t] \in {"value", "value_cas", "rem_cas"}
    PROVE  /\ IInv /\ Knows(pc[t], my[t], rover[t])
           /\ my[t].d = my[t].p /\ my[t].p \in Gens /\ my[t] \in Locals
           /\ Slot(t, my[t].p) = SlotOf(my[t]) /\ SlotOf(my[t]) \in Slots
           /\ hash[my[t].p][SlotOf(my[t])] = my[t].call.hash /\ my[t].call.hash \in Hashes
           /\ value[my[t].p][SlotOf(my[t])] \in Words
           /\ content[my[t].call.hash] \in my[t].seen
           /\ pc[t] \in {"value", "value_cas"} => my[t].call.op \in {"insert", "register"}
           /\ pc[t] = "rem_cas" => my[t].call.op = "remove"
           /\ ~sealed[my[t].p][SlotOf(my[t])] =>
                /\ my[t].p = storage
                /\ Shown(value[my[t].p][SlotOf(my[t])]) = content[my[t].call.hash]
<1>1. IInv /\ Knows(pc[t], my[t], rover[t])
  BY DEF RInv
<1>2. /\ my[t].d = my[t].p /\ my[t].then = "value" /\ my[t].p \in Gens /\ my[t] \in Locals
      /\ my[t].call.hash \in Hashes /\ my[t].p <= storage /\ my[t].p \in Nat /\ storage \in Nat
      /\ Wants(my[t], my[t].call.hash)
  BY <1>1, Basics, Looking
<1>3. /\ Slot(t, my[t].p) = SlotOf(my[t]) /\ SlotOf(my[t]) \in Slots
      /\ KeyOf(my[t]) = my[t].call.hash
  BY <1>1, <1>2, Addressed DEF Probing
<1>4. hash[my[t].p][SlotOf(my[t])] = my[t].call.hash
  BY <1>1, <1>2, <1>3, Basics DEF ProbeAt
<1>5. value[my[t].p][SlotOf(my[t])] \in Words
  BY <1>1, <1>2, <1>3, Basics DEF TableTypes
<1>6. content[my[t].call.hash] \in my[t].seen
  BY <1>1, <1>2 DEF Knows, SeenLast, Wants
<1>7. /\ pc[t] \in {"value", "value_cas"} => my[t].call.op \in {"insert", "register"}
      /\ pc[t] = "rem_cas" => my[t].call.op = "remove"
  BY <1>1, Basics DEF CallAt, Owns
<1>8. ASSUME ~sealed[my[t].p][SlotOf(my[t])]
      PROVE  /\ my[t].p = storage
             /\ Shown(value[my[t].p][SlotOf(my[t])]) = content[my[t].call.hash]
  <2>1. hash[my[t].p][SlotOf(my[t])] # NO_HASH
    BY <1>2, <1>4, ConstFacts
  <2>2. my[t].p >= storage
    BY <1>1, <1>2, <1>3, <1>8, <2>1, Current
  <2>3. my[t].p = storage
    BY <1>2, <2>2
  <2> QED BY <1>1, <1>2, <1>3, <1>4, <2>3, NowFacts
<1> QED BY <1>1, <1>2, <1>3, <1>4, <1>5, <1>6, <1>7, <1>8

(* They read the value word, and mean to change it. *)
LEMMA Rereads ==
    ASSUME RInv, IInv', NEW t \in Threads, pc[t] \in {"value", "value_cas"},
           my' = [my EXCEPT ![t].expect = value[my[t].p][SlotOf(my[t])]],
           pc' = [pc EXCEPT ![t] = "value_cas"],
           UNCHANGED <<world, words, rover, answer, content>>
    PROVE  RInv' /\ UNCHANGED Contract!vars
<1>1. IInv /\ my[t].d = my[t].p /\ Forward /\ Steady
  BY OwnSlot, QuietForward DEF world, words
<1>2. pc \in [Threads -> Labels] /\ my \in [Threads -> Locals] /\ my[t] \in Locals
  BY <1>1, Basics DEF ThreadTypes
<1>3. PICK v : v = value[my[t].p][SlotOf(my[t])]
  OBVIOUS
<1>4. PICK m : m = [my[t] EXCEPT !.expect = v]
  OBVIOUS
<1>5. my'[t] = m /\ pc'[t] = "value_cas" /\ \A u \in Threads \ {t} : pc'[u] = pc[u] /\ my'[u] = my[u]
  BY <1>2, <1>3, <1>4
<1>6. /\ m.call = my[t].call /\ m.seen = my[t].seen /\ m.d = my[t].d /\ m.at = my[t].at
      /\ m.then = my[t].then /\ m.ch = my[t].ch /\ m.expect = v
  BY <1>2, <1>4 DEF Locals
<1>7. StoreAt(pc[t], my[t])'
  <2>1. UNCHANGED <<value, size>>
    BY DEF world, words
  <2>2. SlotOf(my[t])' = SlotOf(my[t])
    BY <1>5, <1>6, <2>1 DEF SlotOf, KeyOf
  <2>3. value'[my'[t].d][SlotOf(my[t])'] = v
    BY <1>1, <1>3, <1>5, <1>6, <2>1, <2>2
  <2> QED BY <1>5, <1>6, <2>3 DEF StoreAt
<1>8. LookAt(pc[t], my[t])' /\ pc[t] # "enum_value" /\ pc'[t] \notin {"enum_hash", "enum_value"}
      /\ my'[t].call = my[t].call /\ my'[t].seen = my[t].seen /\ UNCHANGED <<rover, answer>>
  BY <1>5, <1>6 DEF LookAt
<1> QED BY <1>1, <1>5, <1>7, <1>8, InsideStep

(* Or they tell of a value that they have seen. *)
LEMMA Tells ==
    ASSUME RInv, IInv', NEW t \in Threads, pc[t] \in {"value", "value_cas"}, NEW v, Exists(t, v),
           \/ v \in my[t].seen /\ v # NULL
           \/ my[t].call.op = "insert" /\ my[t].seen \ {NULL} # {},
           UNCHANGED <<world, words, rover, content>>
    PROVE  RInv' /\ Contract!Next
<1>1. my[t].call.op \in {"insert", "register"} /\ \A u \in Threads : rover'[u] = rover[u]
  BY OwnSlot
<1>2. PICK a : a = IF my[t].call.op = "insert" THEN "EEXIST" ELSE v
  OBVIOUS
<1>3. Return(t, a)
  BY <1>2 DEF Exists
<1>4. HasSeen(t, a)
  <2>1. PICK w \in my[t].seen \ {NULL} : a = IF my[t].call.op = "insert" THEN "EEXIST" ELSE w
    BY <1>2
  <2> QED BY <1>1, <2>1 DEF HasSeen
<1>5. pc[t] # "idle"
  OBVIOUS
<1> QED BY <1>1, <1>3, <1>4, <1>5, AnswerStep

LEMMA ReadValueRef ==
    ASSUME RInv, IInv', NEW t \in Threads, ReadValue(t)
    PROVE  RInv' /\ [Contract!Next]_Contract!vars
<1>1. pc[t] = "value" /\ UNCHANGED <<world, words, rover, content>>
  BY DEF ReadValue
<1>2. PICK v : v = value[my[t].p][SlotOf(my[t])]
  OBVIOUS
<1>3. /\ Slot(t, my[t].p) = SlotOf(my[t]) /\ content[my[t].call.hash] \in my[t].seen
      /\ ~sealed[my[t].p][SlotOf(my[t])] => Shown(v) = content[my[t].call.hash]
  BY <1>1, <1>2, OwnSlot
<1>4. CASE Goto(t, "mig_next") /\ UNCHANGED <<my, answer>>
  <2>1. "mig_next" \in Inside
    BY DEF Inside, Labels
  <2> QED BY <1>1, <1>4, <2>1, HelpRef
<1>5. CASE ~sealed[my[t].p][SlotOf(my[t])] /\ Live(v) /\ Exists(t, v)
  <2>1. v \in my[t].seen /\ v # NULL
    BY <1>3, <1>5, ConstFacts DEF Live, Shown
  <2> QED BY <1>1, <1>5, <2>1, Tells
<1>6. CASE my' = [my EXCEPT ![t].expect = v] /\ Goto(t, "value_cas") /\ UNCHANGED answer
  BY <1>1, <1>2, <1>6, Rereads DEF Goto
<1> QED BY <1>2, <1>3, <1>4, <1>5, <1>6 DEF ReadValue

(* remove: no slot, or another value. *)
LEMMA RemHashRef ==
    ASSUME RInv, IInv', NEW t \in Threads, RemHash(t)
    PROVE  RInv' /\ [Contract!Next]_Contract!vars
<1>1. /\ IInv /\ Knows(pc[t], my[t], rover[t]) /\ pc[t] = "rem_hash"
      /\ UNCHANGED <<world, words, rover, content, calls>>
  BY DEF RInv, RemHash
<1>2. /\ my[t].d = my[t].p /\ my[t].then = "value" /\ my[t].call.op = "remove"
      /\ my[t].call.hash \in Hashes /\ my[t].p \in Gens /\ my[t].p <= storage
      /\ my[t].call.value \in Values /\ Wants(my[t], my[t].call.hash)
  BY <1>1, Basics, Looking, Caller DEF CallAt
<1>3. /\ Slot(t, my[t].p) = SlotOf(my[t]) /\ KeyOf(my[t]) = my[t].call.hash
      /\ SlotOf(my[t]) \in Slots /\ SlotOf(my[t]) \in Index(my[t].p)
      /\ SlotOf(my[t]) = Probe(size[my[t].p], KeyOf(my[t]), my[t].at)
  BY <1>1, <1>2, Addressed DEF Probing
<1>4. my \in [Threads -> Locals] /\ my[t] \in Locals /\ pc \in [Threads -> Labels]
  BY <1>1, Basics DEF ThreadTypes
<1>5. CASE /\ ~frozen[my[t].p][SlotOf(my[t])] /\ hash[my[t].p][SlotOf(my[t])] = NO_HASH
           /\ Return(t, "ENOENT")
  <2>1. PICK g \in Gens, h \in Hashes, n \in Nat : g = my[t].p /\ h = my[t].call.hash /\ n = my[t].at
    BY <1>1, <1>2, Basics
  <2>2. n <= size[g] /\ Passed(g, h, n) /\ hash[g][Probe(size[g], h, n)] = NO_HASH
    BY <1>1, <1>2, <1>3, <1>5, <2>1, Basics DEF ProbeAt
  <2>3. TableTypes /\ SlotInv /\ size[g] > 0 /\ g \in Nat /\ storage \in Nat
    BY <1>1, <2>1, Basics
  <2>4. \A j \in Slots : hash[g][j] # h
    BY <2>2, <2>3, VirginMeans
  <2>5. g = storage
    <3>1. g >= storage
      BY <1>1, <1>3, <1>5, <2>1, Current
    <3> QED BY <1>2, <2>1, <2>3, <3>1
  <2>6. content[h] = NULL
    BY <1>1, <2>4, <2>5, NowFacts
  <2>7. NULL \in my[t].seen
    BY <1>1, <1>2, <2>1, <2>6 DEF Knows, SeenLast, Wants
  <2>8. my[t].seen \ {my[t].call.value} # {}
    BY <1>2, <2>7, ConstFacts
  <2>9. HasSeen(t, "ENOENT") /\ \A u \in Threads : rover'[u] = rover[u]
    BY <1>1, <1>2, <2>8 DEF HasSeen
  <2> QED BY <1>1, <1>5, <2>9, AnswerStep
<1>6. CASE \E l \in {"mig_next", "rem_cas"} : Goto(t, l) /\ UNCHANGED <<my, answer>>
  <2>1. PICK l \in {"mig_next", "rem_cas"} : Goto(t, l) /\ UNCHANGED <<my, answer>>
    BY <1>6
  <2>2. l \in Inside
    BY <2>1 DEF Inside, Labels
  <2> QED BY <1>1, <2>1, <2>2, HelpRef
<1>7. CASE ProbeNext(t, my[t].p) /\ UNCHANGED <<pc, answer>>
  <2>1. my'[t] = [my[t] EXCEPT !.at = (my[t].at % size[my[t].p]) + 1]
        /\ \A u \in Threads \ {t} : my'[u] = my[u]
    BY <1>4, <1>7 DEF ProbeNext
  <2>2. my'[t].call = my[t].call /\ my'[t].seen = my[t].seen
    BY <1>4, <2>1 DEF Locals
  <2>3. pc'[t] \in Inside
    BY <1>1, <1>7 DEF Inside, Labels
  <2>4. Forward /\ Steady
    BY <1>1, QuietForward DEF world, words
  <2> QED BY <1>1, <1>7, <2>1, <2>2, <2>3, <2>4, HiddenStep
<1> QED BY <1>3, <1>5, <1>6, <1>7 DEF RemHash

(* A call sees one value more. *)
LEMMA SeenMore ==
    ASSUME NEW o, NEW k, NEW w, NEW s, NEW x
    PROVE  [[op |-> o, hash |-> k, value |-> w, seen |-> s] EXCEPT !.seen = @ \union {x}]
              = [op |-> o, hash |-> k, value |-> w, seen |-> s \union {x}]
  OBVIOUS

(* A call that changes the map takes effect. *)
LEMMA WriteRef ==
    ASSUME RInv, IInv', NEW t \in Threads, NEW i \in Slots, NEW h \in Hashes, NEW v \in Words, v # NULL,
           NEW c \in Values \union {NULL}, NEW a \in Answers, v \in Values => c = v, v \notin Values => c = NULL,
           pc[t] \in {"value_cas", "rem_cas"}, value[storage][i] = NULL => v \in Values,
           hash[storage][i] = h, ~sealed[storage][i],
           value' = [value EXCEPT ![storage][i] = v], ReturnWritten(t, h, c, a),
           UNCHANGED <<world, hash, frozen, sealed, calls>>
    PROVE  RInv' /\ MapWrites(t, h, c)
<1>1. /\ IInv /\ \A u \in Threads : Knows(pc[u], my[u], rover[u])
      /\ my \in [Threads -> Locals] /\ rover \in [Threads -> Rovers]
      /\ content \in [Hashes -> Values \union {NULL}] /\ h # NO_HASH
  BY Basics, ConstFacts DEF RInv, ThreadTypes, CallerTypes, TableTypes
<1>0. c = Shown(v)
  BY ConstFacts DEF Shown, Words
<1>2. /\ \A g \in Gens : \A j \in Slots : g # storage \/ j # i => value'[g][j] = value[g][j]
      /\ value'[storage][i] = v /\ Forward
  <2>1. /\ value'[storage][i] = v /\ Forward
        /\ \A g \in Gens : \A j \in Slots : g # storage \/ j # i => value'[g][j] = value[g][j]
    BY <1>1, WriteTable, ZenonT(60)
  <2> QED BY <2>1
<1>3. /\ content' = [content EXCEPT ![h] = c] /\ pc'[t] = "idle" /\ my'[t] = NoLocals
      /\ \A u \in Threads \ {t} :
           pc'[u] = pc[u] /\ Alike(my'[u], my[u]) /\ rover'[u].index = rover[u].index
  BY <1>1, Written
<1>4. content'[h] = c /\ \A k \in Hashes : k # h => content'[k] = content[k]
  BY <1>1, <1>3
<1>5. /\ my' = [u \in Threads |->
                  IF u = t THEN NoLocals
                  ELSE IF my[u].call # Idle /\ my[u].call.op \notin {"next", "migrate"}
                          /\ my[u].call.hash = h
                  THEN [my[u] EXCEPT !.seen = @ \union {c}] ELSE my[u]]
      /\ rover' = [u \in Threads |->
                     IF c = NULL THEN [rover[u] EXCEPT !.stay = @ \ {h}] ELSE rover[u]]
  BY DEF ReturnWritten
<1>6. ASSUME NEW u \in Threads \ {t}
      PROVE  my'[u].seen = IF Wants(my[u], h) THEN my[u].seen \union {c} ELSE my[u].seen
  <2>1. my'[u] = IF Wants(my[u], h) THEN [my[u] EXCEPT !.seen = @ \union {c}] ELSE my[u]
    BY <1>5 DEF Wants
  <2>2. my[u] \in Locals
    BY <1>1
  <2> QED BY <2>1, <2>2 DEF Locals
<1>7. ASSUME NEW u \in Threads
      PROVE  /\ rover'[u].on = rover[u].on /\ rover'[u].storage = rover[u].storage
             /\ rover'[u].index = rover[u].index /\ rover'[u].got = rover[u].got
             /\ rover'[u].stay = IF c = NULL THEN rover[u].stay \ {h} ELSE rover[u].stay
             /\ \A k \in rover'[u].stay : content'[k] # NULL
  <2>1. rover'[u] = IF c = NULL THEN [rover[u] EXCEPT !.stay = @ \ {h}] ELSE rover[u]
    BY <1>5
  <2>2. rover[u] \in Rovers
    BY <1>1
  <2>3. /\ rover'[u].on = rover[u].on /\ rover'[u].storage = rover[u].storage
        /\ rover'[u].index = rover[u].index /\ rover'[u].got = rover[u].got
        /\ rover'[u].stay = IF c = NULL THEN rover[u].stay \ {h} ELSE rover[u].stay
    BY <2>1, <2>2 DEF Rovers
  <2>4. rover[u].stay \subseteq Hashes /\ \A k \in rover[u].stay : content[k] # NULL
    BY <1>1, <2>2 DEF Rovers, Knows, RoverAt
  <2>5. \A k \in rover'[u].stay : content'[k] # NULL
    BY <1>4, <2>3, <2>4
  <2> QED BY <2>3, <2>5
<1>8. ASSUME NEW u \in Threads \ {t} PROVE Knows(pc[u], my[u], rover[u])'
  <2>1. Witnessed(u)
    <3>1. SUFFICES ASSUME NEW g \in Gens, NEW j \in Slots, value'[g][j] # value[g][j]
                   PROVE  /\ value'[g][j] # NULL /\ hash[g][j] # NO_HASH
                          /\ value[g][j] = NULL => value'[g][j] \in Values
                          /\ Wants(my[u], hash[g][j]) => Shown(value'[g][j]) \in my'[u].seen
      BY DEF Witnessed
    <3>2. g = storage /\ j = i
      BY <1>2, <3>1
    <3> QED BY <1>0, <1>1, <1>2, <1>6, <3>2
  <2>2. SeenLast(my[u])'
    <3>1. SUFFICES ASSUME my'[u].call # Idle, my'[u].call.op \notin {"next", "migrate"}
                   PROVE  content'[my'[u].call.hash] \in my'[u].seen
      BY DEF SeenLast
    <3>2. my'[u].call = my[u].call
      BY <1>3 DEF Alike
    <3>3. my[u].call \in Calls[u]
      BY <1>1, <3>1, <3>2, Basics
    <3>4. PICK k \in Hashes : k = my[u].call.hash
      BY <3>1, <3>2, <3>3, CallFacts
    <3>5. content[k] \in my[u].seen
      BY <1>1, <3>1, <3>2, <3>4 DEF Knows, SeenLast
    <3>6. Wants(my[u], k)
      BY <3>1, <3>2, <3>4 DEF Wants
    <3>7. content'[k] \in my'[u].seen
      BY <1>4, <1>6, <3>5, <3>6
    <3> QED BY <3>2, <3>4, <3>7
  <2>3. my[u].seen \subseteq my'[u].seen
    BY <1>6
  <2>4. Knows(pc[u], my[u], rover[u]) /\ pc'[u] = pc[u] /\ Alike(my'[u], my[u])
    BY <1>1, <1>3
  <2>5. rover'[u].stay \subseteq rover[u].stay
    BY <1>7
  <2> QED BY <1>1, <1>2, <1>7, <2>1, <2>2, <2>3, <2>4, <2>5, KnowsOn
<1>9. Knows(pc[t], my[t], rover[t])'
  <2>1. PICK r, l, m : r = rover'[t] /\ l = pc'[t] /\ m = my'[t]
    OBVIOUS
  <2>2. l = "idle" /\ m.call = Idle
    BY <1>3, <2>1 DEF NoLocals
  <2>3. RoverAt(l, m, r)'
    <3>1. RoverAt(pc[t], my[t], rover[t])
      BY <1>1 DEF Knows
    <3>2. /\ r.on = rover[t].on /\ r.storage = rover[t].storage /\ r.index = rover[t].index
          /\ r.got = rover[t].got /\ r.stay \subseteq rover[t].stay
          /\ \A k \in r.stay : content'[k] # NULL
      BY <1>7, <2>1
    <3> QED BY <1>1, <1>2, <2>1, <2>2, <3>1, <3>2, RoverKept
  <2>4. Knows(l, m, r)'
    BY <2>2, <2>3 DEF Knows, SeenLast, LookAt, StoreAt
  <2> QED BY <2>1, <2>4 DEF Knows, SeenLast, LookAt, StoreAt, SlotOf, KeyOf, RoverAt, Left
<1>10. GotMap' = GotMap /\ StayMap' = [u \in Threads |-> IF c = NULL THEN StayMap[u] \ {h} ELSE StayMap[u]]
  BY <1>7 DEF GotMap, StayMap
<1>11. ASSUME NEW u \in Threads
       PROVE  CallMap(u)' = IF u = t \/ CallsMap[u] = Idle THEN Idle
                            ELSE IF CallsMap[u].op # "next" /\ CallsMap[u].hash = h
                            THEN [CallsMap[u] EXCEPT !.seen = @ \union {c}] ELSE CallsMap[u]
  <2>1. CASE u = t
    BY <1>3, <2>1 DEF CallMap, NoLocals
  <2>2. CASE u # t /\ (my[u].call = Idle \/ my[u].call.op = "migrate")
    <3>1. CallMap(u)' = Idle /\ CallsMap[u] = Idle
      BY <1>3, <2>2 DEF CallMap, CallsMap, Alike
    <3> QED BY <3>1
  <2>3. CASE u # t /\ my[u].call # Idle /\ my[u].call.op = "next"
    <3>1. CallMap(u)' = [op |-> "next"] /\ CallsMap[u] = [op |-> "next"]
      BY <1>3, <2>3 DEF CallMap, CallsMap, Alike
    <3> QED BY <2>3, <3>1, HashtableAssumption
  <2>4. CASE u # t /\ my[u].call # Idle /\ my[u].call.op \notin {"next", "migrate"}
    <3>1. pc[u] # "idle"
      BY <1>1, <2>4, Basics DEF CallAt
    <3>2. /\ CallsMap[u] # Idle /\ CallsMap[u].op = my[u].call.op /\ CallsMap[u].hash = my[u].call.hash
      BY <1>1, <2>4, <3>1, CallSeen
    <3>3. CallsMap[u] = [op |-> my[u].call.op, hash |-> my[u].call.hash,
                         value |-> my[u].call.value, seen |-> my[u].seen]
      BY <2>4 DEF CallsMap, CallMap
    <3>4. CallMap(u)' = [op |-> my[u].call.op, hash |-> my[u].call.hash,
                         value |-> my[u].call.value, seen |-> my'[u].seen]
      BY <1>3, <2>4 DEF CallMap, Alike
    <3>5. Wants(my[u], h) <=> CallsMap[u].op # "next" /\ CallsMap[u].hash = h
      BY <2>4, <3>2 DEF Wants
    <3>6. my'[u].seen = IF CallsMap[u].op # "next" /\ CallsMap[u].hash = h
                        THEN my[u].seen \union {c} ELSE my[u].seen
      BY <1>6, <2>4, <3>5
    <3>7. CASE CallsMap[u].op # "next" /\ CallsMap[u].hash = h
      <4>1. [CallsMap[u] EXCEPT !.seen = @ \union {c}]
              = [op |-> my[u].call.op, hash |-> my[u].call.hash,
                 value |-> my[u].call.value, seen |-> my[u].seen \union {c}]
        BY <3>3, SeenMore
      <4>2. my'[u].seen = my[u].seen \union {c}
        BY <3>6, <3>7
      <4>3. CallMap(u)' = [CallsMap[u] EXCEPT !.seen = @ \union {c}]
        BY <3>4, <4>1, <4>2
      <4> QED BY <2>4, <3>2, <3>7, <4>3
    <3>8. CASE ~(CallsMap[u].op # "next" /\ CallsMap[u].hash = h)
      BY <2>4, <3>2, <3>3, <3>4, <3>6, <3>8
    <3> QED BY <3>7, <3>8
  <2> QED BY <2>1, <2>2, <2>3, <2>4
<1>12. MapWrites(t, h, c)
  <2>1. CallsMap' = [u \in Threads |->
                       IF u = t \/ CallsMap[u] = Idle THEN Idle
                       ELSE IF CallsMap[u].op # "next" /\ CallsMap[u].hash = h
                       THEN [CallsMap[u] EXCEPT !.seen = @ \union {c}] ELSE CallsMap[u]]
    <3>1. CallsMap' = [u \in Threads |-> CallMap(u)']
      BY DEF CallsMap
    <3> QED BY <1>11, <3>1
  <2> QED BY <1>3, <1>10, <2>1 DEF MapWrites
<1>13. RInv'
  BY <1>8, <1>9 DEF RInv
<1> QED BY <1>12, <1>13

(* The moment at which insert and register take effect. *)
LEMMA ValueCasRef ==
    ASSUME RInv, IInv', NEW t \in Threads, ValueCas(t)
    PROVE  RInv' /\ [Contract!Next]_Contract!vars
<1>1. pc[t] = "value_cas" /\ UNCHANGED <<world, hash, frozen, sealed, n_hashs, calls>>
  BY DEF ValueCas
<1>2. /\ IInv /\ Knows(pc[t], my[t], rover[t])
      /\ my[t].d = my[t].p /\ my[t].p \in Gens /\ my[t].call.op \in {"insert", "register"}
      /\ Slot(t, my[t].p) = SlotOf(my[t]) /\ SlotOf(my[t]) \in Slots
      /\ hash[my[t].p][SlotOf(my[t])] = my[t].call.hash /\ my[t].call.hash \in Hashes
      /\ value[my[t].p][SlotOf(my[t])] \in Words
      /\ content[my[t].call.hash] \in my[t].seen
      /\ ~sealed[my[t].p][SlotOf(my[t])] =>
           /\ my[t].p = storage
           /\ Shown(value[my[t].p][SlotOf(my[t])]) = content[my[t].call.hash]
  BY <1>1, OwnSlot
<1>3. my[t].call.value \in Values /\ my[t].expect \notin Values /\ my[t].expect \in Words
  BY <1>1, <1>2, Basics, Caller DEF ProbeAt
<1>4. PICK g \in Gens, i \in Slots, h \in Hashes, w \in Values, v \in Words :
        /\ g = my[t].p /\ i = SlotOf(my[t]) /\ h = my[t].call.hash /\ w = my[t].call.value
        /\ v = value[g][i]
  BY <1>2, <1>3
<1>5. CASE /\ v = my[t].expect /\ ~sealed[g][i] /\ value' = [value EXCEPT ![g][i] = w]
           /\ ReturnWritten(t, h, w, IF my[t].call.op = "insert" THEN "0" ELSE NULL)
  <2>1. PICK a \in Answers : a = IF my[t].call.op = "insert" THEN "0" ELSE NULL
    BY DEF Answers
  <2>2. g = storage /\ hash[storage][i] = h /\ value[storage][i] = v /\ content[h] = Shown(v)
    BY <1>2, <1>4, <1>5
  <2>3. content[h] = NULL
    BY <1>3, <1>5, <2>2 DEF Shown, Words
  <2>4. w \in Words /\ w # NULL /\ w \in Values \union {NULL} /\ w \in Values
    BY ConstFacts DEF Words
  <2>5. ReturnWritten(t, h, w, a) /\ value' = [value EXCEPT ![storage][i] = w] /\ ~sealed[storage][i]
    BY <1>5, <2>1, <2>2
  <2>6. RInv' /\ MapWrites(t, h, w) /\ answer' = [answer EXCEPT ![t] = a]
    <3>1. value[storage][i] = NULL => w \in Values
      BY <1>4
    <3>2. UNCHANGED <<world, hash, frozen, sealed, calls>> /\ pc[t] \in {"value_cas", "rem_cas"}
      BY <1>1
    <3>3. i \in Slots /\ h \in Hashes /\ hash[storage][i] = h
      BY <1>4, <2>2
    <3>4. RInv' /\ MapWrites(t, h, w)
      BY <2>1, <2>4, <2>5, <3>1, <3>2, <3>3, WriteRef
    <3>5. answer' = [answer EXCEPT ![t] = a]
      BY <2>5 DEF ReturnWritten, Answer
    <3> QED BY <3>4, <3>5
  <2>7. /\ CallsMap[t] # Idle /\ CallsMap[t].op = my[t].call.op
        /\ CallsMap[t].hash = h /\ CallsMap[t].value = w
    BY <1>1, <1>2, <1>4, CallSeen
  <2>8. MapWrites(t, CallsMap[t].hash, CallsMap[t].value)
    BY <2>6, <2>7 DEF MapWrites
  <2>9. answer' = [answer EXCEPT ![t] = IF CallsMap[t].op = "insert" THEN "0" ELSE NULL]
    BY <2>1, <2>6, <2>7
  <2>10. CallsMap[t].op \in {"insert", "register"} /\ content[CallsMap[t].hash] = NULL
    BY <1>2, <2>3, <2>7
  <2> QED BY <2>6, <2>7, <2>8, <2>9, <2>10, MapStores
<1>6. CASE Goto(t, "mig_next") /\ UNCHANGED <<my, answer, value, content, rover>>
  <2>1. UNCHANGED words /\ "mig_next" \in Inside
    BY <1>1, <1>6 DEF words, Inside, Labels
  <2> QED BY <1>1, <1>6, <2>1, HelpRef
<1>7. CASE /\ v # my[t].expect /\ ~sealed[g][i]
           /\ my[t].call.op = "insert" \/ Live(v)
           /\ Exists(t, v)
           /\ UNCHANGED <<value, content, rover>>
  <2>1. UNCHANGED words
    BY <1>1, <1>7 DEF words
  <2>2. CASE Live(v)
    <3>1. v \in my[t].seen /\ v # NULL
      BY <1>2, <1>4, <1>7, <2>2, ConstFacts DEF Live, Shown
    <3> QED BY <1>1, <1>7, <2>1, <3>1, Tells
  <2>3. CASE ~Live(v)
    <3>1. v \in {NULL, TOMB} /\ my[t].expect \in {NULL, TOMB}
      BY <1>3, <2>3 DEF Live, Words
    <3>2. /\ my[t].expect # NULL => v # NULL
          /\ my[t].expect = NULL /\ v # NULL => my[t].seen \ {NULL} # {}
      BY <1>1, <1>2, <1>4 DEF Knows, StoreAt
    <3>3. my[t].seen \ {NULL} # {}
      BY <1>7, <3>1, <3>2
    <3>4. my[t].call.op = "insert"
      BY <1>7, <2>3
    <3> QED BY <1>1, <1>7, <2>1, <3>3, <3>4, Tells
  <2> QED BY <2>2, <2>3
<1>8. CASE /\ my' = [my EXCEPT ![t].expect = v]
           /\ UNCHANGED <<pc, answer, value, content, rover>>
  <2>1. UNCHANGED words
    BY <1>1, <1>8 DEF words
  <2>2. pc' = [pc EXCEPT ![t] = "value_cas"]
    BY <1>1, <1>2, <1>8, Basics DEF ThreadTypes
  <2>3. my' = [my EXCEPT ![t].expect = value[my[t].p][SlotOf(my[t])]]
    BY <1>4, <1>8
  <2> QED BY <1>1, <1>8, <2>1, <2>2, <2>3, Rereads
<1> QED
  <2>1. \/ /\ v = my[t].expect /\ ~sealed[g][i] /\ value' = [value EXCEPT ![g][i] = w]
           /\ ReturnWritten(t, h, w, IF my[t].call.op = "insert" THEN "0" ELSE NULL)
        \/ Goto(t, "mig_next") /\ UNCHANGED <<my, answer, value, content, rover>>
        \/ /\ v # my[t].expect /\ ~sealed[g][i]
           /\ IF my[t].call.op = "insert" \/ Live(v)
              THEN Exists(t, v)
              ELSE my' = [my EXCEPT ![t].expect = v] /\ UNCHANGED <<pc, answer>>
           /\ UNCHANGED <<value, content, rover>>
    BY <1>2, <1>4 DEF ValueCas
  <2> QED BY <1>5, <1>6, <1>7, <1>8, <2>1

(* The moment at which remove does. *)
LEMMA RemCasRef ==
    ASSUME RInv, IInv', NEW t \in Threads, RemCas(t)
    PROVE  RInv' /\ [Contract!Next]_Contract!vars
<1>1. pc[t] = "rem_cas" /\ UNCHANGED <<world, hash, frozen, sealed, n_hashs, calls>>
  BY DEF RemCas
<1>2. /\ IInv /\ Knows(pc[t], my[t], rover[t])
      /\ my[t].d = my[t].p /\ my[t].p \in Gens /\ my[t].call.op = "remove"
      /\ Slot(t, my[t].p) = SlotOf(my[t]) /\ SlotOf(my[t]) \in Slots
      /\ hash[my[t].p][SlotOf(my[t])] = my[t].call.hash /\ my[t].call.hash \in Hashes
      /\ value[my[t].p][SlotOf(my[t])] \in Words
      /\ content[my[t].call.hash] \in my[t].seen
      /\ ~sealed[my[t].p][SlotOf(my[t])] =>
           /\ my[t].p = storage
           /\ Shown(value[my[t].p][SlotOf(my[t])]) = content[my[t].call.hash]
  BY <1>1, OwnSlot
<1>3. my[t].call.value \in Values
  BY <1>1, <1>2, Caller
<1>4. PICK g \in Gens, i \in Slots, h \in Hashes, w \in Values, v \in Words :
        /\ g = my[t].p /\ i = SlotOf(my[t]) /\ h = my[t].call.hash /\ w = my[t].call.value
        /\ v = value[g][i]
  BY <1>2, <1>3
<1>5. CASE /\ v = w /\ ~sealed[g][i] /\ value' = [value EXCEPT ![g][i] = TOMB]
           /\ ReturnWritten(t, h, NULL, "0")
  <2>1. g = storage /\ hash[storage][i] = h /\ value[storage][i] = v /\ content[h] = Shown(v)
    BY <1>2, <1>4, <1>5
  <2>2. content[h] = w /\ v # NULL
    BY <1>5, <2>1, ConstFacts DEF Shown
  <2>3. TOMB \in Words /\ TOMB # NULL /\ TOMB \notin Values /\ NULL \in Values \union {NULL} /\ "0" \in Answers
    BY ConstFacts DEF Words, Answers
  <2>4. value' = [value EXCEPT ![storage][i] = TOMB] /\ ~sealed[storage][i]
    BY <1>5, <2>1
  <2>5. RInv' /\ MapWrites(t, h, NULL) /\ answer' = [answer EXCEPT ![t] = "0"]
    <3>1. RInv' /\ MapWrites(t, h, NULL)
      BY <1>1, <1>4, <1>5, <2>1, <2>2, <2>3, <2>4, WriteRef
    <3>2. answer' = [answer EXCEPT ![t] = "0"]
      BY <1>5 DEF ReturnWritten, Answer
    <3> QED BY <3>1, <3>2
  <2>6. CallsMap[t] # Idle /\ CallsMap[t].op = "remove" /\ CallsMap[t].hash = h /\ CallsMap[t].value = w
    BY <1>1, <1>2, <1>4, CallSeen
  <2>7. MapWrites(t, CallsMap[t].hash, NULL)
    BY <2>5, <2>6 DEF MapWrites
  <2>8. content[CallsMap[t].hash] = CallsMap[t].value
    BY <2>2, <2>6
  <2> QED BY <2>5, <2>6, <2>7, <2>8, MapRemoves
<1>6. CASE Goto(t, "mig_next") /\ UNCHANGED <<my, answer, value, content, rover>>
  <2>1. UNCHANGED words /\ "mig_next" \in Inside
    BY <1>1, <1>6 DEF words, Inside, Labels
  <2> QED BY <1>1, <1>6, <2>1, HelpRef
<1>7. CASE v # w /\ ~sealed[g][i] /\ Return(t, "ENOENT") /\ UNCHANGED <<value, content, rover>>
  <2>1. UNCHANGED words
    BY <1>1, <1>7 DEF words
  <2>2. Shown(v) # w
    BY <1>7, ConstFacts DEF Shown
  <2>3. my[t].seen \ {my[t].call.value} # {}
    BY <1>2, <1>4, <1>7, <2>2
  <2>4. HasSeen(t, "ENOENT") /\ \A u \in Threads : rover'[u] = rover[u]
    BY <1>2, <1>7, <2>3 DEF HasSeen
  <2> QED BY <1>1, <1>7, <2>1, <2>4, AnswerStep
<1> QED BY <1>2, <1>4, <1>5, <1>6, <1>7 DEF RemCas

(* Where an enumerator is. *)
LEMMA RoverFacts ==
    ASSUME RInv, NEW t \in Threads, pc[t] \in {"enum_hash", "enum_value"}
    PROVE  /\ IInv /\ my[t].call # Idle /\ my[t].call.op = "next"
           /\ rover \in [Threads -> Rovers] /\ rover[t] \in Rovers /\ rover[t].index \in Nat
           /\ rover[t].on /\ rover[t].storage = my[t].p /\ my[t].p \in Gens /\ my[t].p # -1
           /\ my[t].p \in Nat /\ storage \in Nat /\ my[t].p <= storage /\ size[my[t].p] \in Nat
           /\ \A h \in rover[t].stay : h \in Hashes /\ content[h] # NULL
           /\ \A h \in rover[t].got : \E j \in Slots :
                j < Left(pc[t], rover[t]) /\ hash[my[t].p][j] = h
           /\ \A h \in rover[t].stay : \E j \in Slots :
                hash[my[t].p][j] = h /\ (j < Left(pc[t], rover[t]) => h \in rover[t].got)
<1>1. IInv /\ Knows(pc[t], my[t], rover[t])
  BY DEF RInv
<1>2. my[t].call # Idle /\ my[t].call.op = "next"
  BY <1>1, Basics, Caller DEF CallAt
<1>3. /\ rover \in [Threads -> Rovers] /\ rover[t] \in Rovers /\ rover[t].index \in Nat
      /\ my[t].p \in Gens /\ my[t].p \in Nat /\ storage \in Nat /\ my[t].p <= storage
      /\ size[my[t].p] \in Nat
  BY <1>1, Basics DEF CallerTypes
<1>4. rover[t].stay \subseteq Hashes
  BY <1>3 DEF Rovers
<1>5. my[t].p # -1
  BY <1>3
<1> QED BY <1>1, <1>2, <1>3, <1>4, <1>5 DEF Knows, RoverAt

(* It goes on, or it is over. *)
LEMMA EnumHashRef ==
    ASSUME RInv, IInv', NEW t \in Threads, EnumHash(t)
    PROVE  RInv' /\ [Contract!Next]_Contract!vars
<1>1. pc[t] = "enum_hash" /\ UNCHANGED <<world, words, content>>
  BY DEF EnumHash
<1>2. /\ IInv /\ my[t].call # Idle /\ my[t].call.op = "next"
      /\ rover \in [Threads -> Rovers] /\ rover[t] \in Rovers
      /\ rover[t].on /\ rover[t].storage = my[t].p /\ my[t].p \in Gens /\ my[t].p # -1
      /\ size[my[t].p] \in Nat
      /\ \A h \in rover[t].stay : h \in Hashes /\ content[h] # NULL
  BY <1>1, RoverFacts
<1>3. PICK i \in Nat, p \in Gens : i = rover[t].index /\ p = my[t].p
  BY <1>1, RoverFacts
<1>4. /\ \A h \in rover[t].got : \E j \in Slots : j < i /\ hash[p][j] = h
      /\ \A h \in rover[t].stay : \E j \in Slots : hash[p][j] = h /\ (j < i => h \in rover[t].got)
  <2>1. Left(pc[t], rover[t]) = i
    BY <1>1, <1>3 DEF Left
  <2> QED BY <1>1, <1>3, <2>1, RoverFacts
<1>5. CASE \E a \in {"end", "ECANCELED"} : RoverEnds(t, a) /\ (a = "end" => i >= size[p])
  <2>1. PICK a \in {"end", "ECANCELED"} : RoverEnds(t, a) /\ (a = "end" => i >= size[p])
    BY <1>5
  <2>2. rover' = [rover EXCEPT ![t] = [rover[t] EXCEPT !.on = FALSE]] /\ Return(t, a)
    BY <2>1 DEF RoverEnds
  <2>3. /\ \A u \in Threads \ {t} : rover'[u] = rover[u]
        /\ rover'[t].got = rover[t].got /\ rover'[t].stay = rover[t].stay /\ ~rover'[t].on
    BY <1>2, <2>2 DEF Rovers
  <2>4. ASSUME a = "end", NEW h \in rover[t].stay PROVE h \in rover[t].got
    <3>1. PICK j \in Slots : hash[p][j] = h /\ (j < i => h \in rover[t].got)
      BY <1>4, <2>4
    <3>2. hash[p][j] # NO_HASH
      BY <1>2, <2>4, <3>1, ConstFacts
    <3>3. j \in Index(p)
      BY <1>2, <3>2, Current
    <3>4. j < i
      BY <1>2, <1>3, <2>1, <2>4, <3>3 DEF Index
    <3> QED BY <3>1, <3>4
  <2>5. HasSeen(t, a)
    BY <1>2, <2>1, <2>4 DEF HasSeen
  <2> QED BY <1>1, <2>2, <2>3, <2>5, AnswerStep
<1>6. CASE /\ rover' = [rover EXCEPT ![t].index = i + 1]
           /\ Goto(t, IF hash[p][i] = NO_HASH THEN "enum_hash" ELSE "enum_value")
           /\ UNCHANGED <<my, answer>>
  <2>1. PICK l \in {"enum_hash", "enum_value"} :
          Goto(t, l) /\ (l = "enum_hash" => hash[p][i] = NO_HASH)
    BY <1>6
  <2>2. PICK r, m : r = [rover[t] EXCEPT !.index = i + 1] /\ m = my[t]
    OBVIOUS
  <2>3. /\ r.on /\ r.storage = p /\ r.index = i + 1 /\ r.got = rover[t].got /\ r.stay = rover[t].stay
        /\ m.p = p
    BY <1>2, <1>3, <2>2 DEF Rovers
  <2>4. rover'[t] = r /\ \A u \in Threads \ {t} : rover'[u] = rover[u]
    BY <1>2, <1>6, <2>2
  <2>5. /\ pc'[t] = l /\ my'[t] = m /\ UNCHANGED <<my, answer>>
        /\ \A u \in Threads \ {t} : pc'[u] = pc[u] /\ my'[u] = my[u]
    BY <1>2, <1>6, <2>1, <2>2, Basics DEF Goto, ThreadTypes
  <2>6. PICK n : n = Left(l, r)
    OBVIOUS
  <2>7. \A j \in Slots : (j < i => j < n) /\ (j < n => j < i \/ (j = i /\ hash[p][i] = NO_HASH))
    <3>1. CASE l = "enum_hash"
      <4>1. n = i + 1
        BY <2>3, <2>6, <3>1 DEF Left
      <4> QED BY <2>1, <3>1, <4>1 DEF Slots
    <3>2. CASE l = "enum_value"
      <4>1. n = (i + 1) - 1
        BY <2>3, <2>6, <3>2 DEF Left
      <4> QED BY <4>1 DEF Slots
    <3> QED BY <2>1, <3>1, <3>2
  <2>8. \A h \in r.got : \E j \in Slots : j < n /\ hash[p][j] = h
    BY <1>4, <2>3, <2>7
  <2>9. \A h \in r.stay : \E j \in Slots : hash[p][j] = h /\ (j < n => h \in r.got)
    <3>1. SUFFICES ASSUME NEW h \in r.stay
                   PROVE  \E j \in Slots : hash[p][j] = h /\ (j < n => h \in r.got)
      OBVIOUS
    <3>2. PICK j \in Slots : hash[p][j] = h /\ (j < i => h \in rover[t].got)
      BY <1>4, <2>3
    <3>3. hash[p][j] # NO_HASH
      BY <1>2, <2>3, <3>2, ConstFacts
    <3> QED BY <2>3, <2>7, <3>2, <3>3
  <2>10. RoverAt(l, m, r)'
    <3>1. UNCHANGED <<content, hash>>
      BY <1>1 DEF words
    <3>2. \A h \in r.stay : content'[h] # NULL
      BY <1>2, <2>3, <3>1
    <3>3. \A h \in r.got : \E j \in Slots : j < n /\ hash'[p][j] = h
      BY <2>8, <3>1
    <3>4. \A h \in r.stay : \E j \in Slots : hash'[p][j] = h /\ (j < n => h \in r.got)
      BY <2>9, <3>1
    <3>5. p # -1
      BY <1>2, <1>3
    <3> QED BY <2>3, <2>6, <3>2, <3>3, <3>4, <3>5 DEF RoverAt, Left
  <2>11. SeenLast(my[t])' /\ LookAt(pc[t], my[t])' /\ StoreAt(pc[t], my[t])'
    BY <1>2, <2>1, <2>2, <2>5 DEF SeenLast, LookAt, StoreAt
  <2>12. RInv'
    BY <1>1, <2>4, <2>5, <2>10, <2>11, EnumStep
  <2>13. UNCHANGED Contract!vars
    <3>1. \A u \in Threads : rover'[u].got = rover[u].got /\ rover'[u].stay = rover[u].stay
      BY <2>3, <2>4
    <3>2. CallsMap' = CallsMap
      BY <2>5, CallStays
    <3>3. content' = content /\ answer' = answer
      BY <1>1, <2>5
    <3> QED BY <3>1, <3>2, <3>3, RoversStay, MapStutters
  <2> QED BY <2>12, <2>13
<1> QED BY <1>3, <1>5, <1>6 DEF EnumHash

(* It returns what its slot has. *)
LEMMA EnumValueRef ==
    ASSUME RInv, IInv', NEW t \in Threads, EnumValue(t)
    PROVE  RInv' /\ [Contract!Next]_Contract!vars
<1>1. pc[t] = "enum_value" /\ UNCHANGED <<world, words, content>>
  BY DEF EnumValue
<1>2. /\ IInv /\ my[t].call # Idle /\ my[t].call.op = "next"
      /\ rover \in [Threads -> Rovers] /\ rover[t] \in Rovers /\ rover[t].index \in Nat
      /\ rover[t].on /\ rover[t].storage = my[t].p /\ my[t].p \in Gens /\ my[t].p # -1
      /\ size[my[t].p] \in Nat /\ my[t].p \in Nat /\ storage \in Nat /\ my[t].p <= storage
      /\ \A h \in rover[t].stay : h \in Hashes /\ content[h] # NULL
  BY <1>1, RoverFacts
<1>3. /\ rover[t].index >= 1 /\ rover[t].index <= size[my[t].p]
      /\ hash[my[t].p][rover[t].index - 1] # NO_HASH
  BY <1>1, <1>2, Basics DEF CallAt
<1>4. rover[t].index - 1 \in Slots
  <2>1. rover[t].index - 1 \in Nat /\ rover[t].index - 1 < size[my[t].p] /\ TableTypes
    BY <1>2, <1>3, Basics
  <2> QED BY <1>2, <2>1, Numbers
<1>5. PICK i \in Slots, p \in Gens : i = rover[t].index - 1 /\ p = my[t].p
  BY <1>2, <1>4
<1>6. hash[p][i] \in Hashes /\ value[p][i] \in Words /\ SlotInv
  BY <1>2, <1>3, <1>5, Basics DEF TableTypes, Keys
<1>7. PICK h \in Hashes, v \in Words : h = hash[p][i] /\ v = value[p][i]
  BY <1>6
<1>8. /\ \A k \in rover[t].got : \E j \in Slots : j < i /\ hash[p][j] = k
      /\ \A k \in rover[t].stay : \E j \in Slots : hash[p][j] = k /\ (j < i => k \in rover[t].got)
  <2>1. Left(pc[t], rover[t]) = i
    BY <1>1, <1>5 DEF Left
  <2> QED BY <1>1, <1>5, <2>1, RoverFacts
<1>9. \A j \in Slots : (j < rover[t].index => j < i \/ j = i) /\ (j < i => j < rover[t].index) /\ i < rover[t].index
  BY <1>2, <1>5 DEF Slots
<1>10. \A j \in Slots : hash[p][j] = h => j = i
  BY <1>6, <1>7, ConstFacts DEF SlotInv
<1>11. ASSUME ~sealed[p][i] PROVE content[h] = Shown(v)
  <2>1. p >= storage
    BY <1>2, <1>6, <1>11, Current, ConstFacts
  <2>2. p = storage
    BY <1>2, <1>5, <2>1
  <2> QED BY <1>2, <1>7, <2>2, NowFacts
<1>12. UNCHANGED <<content, hash>>
  BY <1>1 DEF words
<1>13. CASE RoverEnds(t, "ECANCELED")
  <2>1. rover' = [rover EXCEPT ![t] = [rover[t] EXCEPT !.on = FALSE]] /\ Return(t, "ECANCELED")
    BY <1>13 DEF RoverEnds
  <2>2. /\ \A u \in Threads \ {t} : rover'[u] = rover[u]
        /\ rover'[t].got = rover[t].got /\ rover'[t].stay = rover[t].stay /\ ~rover'[t].on
    BY <1>2, <2>1 DEF Rovers
  <2>3. HasSeen(t, "ECANCELED")
    BY <1>2 DEF HasSeen
  <2> QED BY <1>1, <2>1, <2>2, <2>3, AnswerStep
<1>14. CASE ~sealed[p][i] /\ ~Live(v) /\ Goto(t, "enum_hash") /\ UNCHANGED <<my, answer, rover>>
  <2>1. PICK r, m, l : r = rover[t] /\ m = my[t] /\ l = "enum_hash"
    OBVIOUS
  <2>2. /\ rover'[t] = r /\ pc'[t] = l /\ my'[t] = m
        /\ \A u \in Threads \ {t} : pc'[u] = pc[u] /\ my'[u] = my[u] /\ rover'[u] = rover[u]
    BY <1>2, <1>14, <2>1, Basics DEF Goto, ThreadTypes
  <2>3. content[h] = NULL
    BY <1>11, <1>14 DEF Live, Shown, Words
  <2>4. \A k \in r.got : \E j \in Slots : j < r.index /\ hash[p][j] = k
    BY <1>8, <1>9, <2>1
  <2>5. \A k \in r.stay : \E j \in Slots : hash[p][j] = k /\ (j < r.index => k \in r.got)
    BY <1>2, <1>7, <1>8, <1>9, <2>1, <2>3
  <2>6. RoverAt(l, m, r)'
    <3>1. \A k \in r.stay : content'[k] # NULL
      BY <1>2, <1>12, <2>1
    <3>2. \A k \in r.got : \E j \in Slots : j < r.index /\ hash'[p][j] = k
      BY <1>12, <2>4
    <3>3. \A k \in r.stay : \E j \in Slots : hash'[p][j] = k /\ (j < r.index => k \in r.got)
      BY <1>12, <2>5
    <3>4. r.on /\ r.storage = p /\ m.p = p /\ p # -1 /\ Left(l, r) = r.index
      BY <1>2, <1>5, <2>1 DEF Left
    <3> QED BY <3>1, <3>2, <3>3, <3>4 DEF RoverAt, Left
  <2>7. SeenLast(my[t])' /\ LookAt(pc[t], my[t])' /\ StoreAt(pc[t], my[t])'
    BY <1>2, <2>1, <2>2 DEF SeenLast, LookAt, StoreAt
  <2>8. RInv'
    BY <1>1, <2>2, <2>6, <2>7, EnumStep
  <2>9. UNCHANGED Contract!vars
    <3>1. \A u \in Threads : rover'[u].got = rover[u].got /\ rover'[u].stay = rover[u].stay
      BY <1>14
    <3>2. CallsMap' = CallsMap
      BY <1>14, <2>2, CallStays
    <3>3. content' = content /\ answer' = answer
      BY <1>1, <1>14
    <3> QED BY <3>1, <3>2, <3>3, RoversStay, MapStutters
  <2> QED BY <2>8, <2>9
<1>15. CASE /\ ~sealed[p][i] /\ Live(v) /\ rover' = [rover EXCEPT ![t].got = @ \union {h}]
            /\ Return(t, v)
  <2>1. PICK r : r = [rover[t] EXCEPT !.got = rover[t].got \union {h}]
    OBVIOUS
  <2>2. /\ r.on /\ r.storage = p /\ r.index = rover[t].index /\ r.stay = rover[t].stay
        /\ r.got = rover[t].got \union {h}
    BY <1>2, <1>5, <2>1 DEF Rovers
  <2>3. rover'[t] = r /\ \A u \in Threads \ {t} : rover'[u] = rover[u]
    BY <1>2, <1>15, <2>1
  <2>4. /\ CallsMap' = [CallsMap EXCEPT ![t] = Idle] /\ answer' = [answer EXCEPT ![t] = v]
        /\ pc'[t] = "idle" /\ my'[t] = NoLocals
        /\ \A u \in Threads \ {t} : pc'[u] = pc[u] /\ my'[u] = my[u]
    BY <1>2, <1>15, CallEnds
  <2>5. content[h] = v /\ v # NULL
    BY <1>11, <1>15, ConstFacts DEF Live, Shown
  <2>6. h \notin rover[t].got
    <3>1. SUFFICES ASSUME h \in rover[t].got PROVE FALSE
      OBVIOUS
    <3>2. PICK j \in Slots : j < i /\ hash[p][j] = h
      BY <1>8, <3>1
    <3>3. j = i
      BY <1>10, <3>2
    <3> QED BY <3>2, <3>3 DEF Slots
  <2>7. \A k \in r.got : \E j \in Slots : j < r.index /\ hash[p][j] = k
    BY <1>7, <1>8, <1>9, <2>2
  <2>8. \A k \in r.stay : \E j \in Slots : hash[p][j] = k /\ (j < r.index => k \in r.got)
    BY <1>7, <1>8, <1>9, <2>2
  <2>9. PICK l, m : l = "idle" /\ m = NoLocals
    OBVIOUS
  <2>10. RoverAt(l, m, r)'
    <3>1. \A k \in r.stay : content'[k] # NULL
      BY <1>2, <1>12, <2>2
    <3>2. \A k \in r.got : \E j \in Slots : j < r.index /\ hash'[p][j] = k
      BY <1>12, <2>7
    <3>3. \A k \in r.stay : \E j \in Slots : hash'[p][j] = k /\ (j < r.index => k \in r.got)
      BY <1>12, <2>8
    <3>4. r.on /\ r.storage = p /\ p # -1 /\ Left(l, r) = r.index /\ m.call = Idle
      BY <1>2, <1>5, <2>2, <2>9 DEF Left, NoLocals
    <3> QED BY <2>9, <3>1, <3>2, <3>3, <3>4 DEF RoverAt, Left
  <2>11. SeenLast(my[t])' /\ LookAt(pc[t], my[t])' /\ StoreAt(pc[t], my[t])'
    BY <2>4 DEF SeenLast, LookAt, StoreAt, NoLocals
  <2>12. RInv'
    BY <1>1, <2>3, <2>4, <2>9, <2>10, <2>11, EnumStep
  <2>13. CallsMap[t] # Idle /\ CallsMap[t].op = "next"
    BY <1>1, <1>2, CallSeen
  <2>14. GotMap' = [GotMap EXCEPT ![t] = @ \union {h}] /\ StayMap' = StayMap /\ h \notin GotMap[t]
    BY <2>2, <2>3, <2>6 DEF GotMap, StayMap
  <2>15. content[h] # NULL /\ answer' = [answer EXCEPT ![t] = content[h]] /\ content' = content
    BY <1>1, <2>4, <2>5
  <2> QED BY <1>7, <2>4, <2>12, <2>13, <2>14, <2>15, MapFinds
<1> QED
  <2>1. \/ RoverEnds(t, "ECANCELED")
        \/ ~sealed[p][i] /\ ~Live(v) /\ Goto(t, "enum_hash") /\ UNCHANGED <<my, answer, rover>>
        \/ ~sealed[p][i] /\ Live(v) /\ rover' = [rover EXCEPT ![t].got = @ \union {h}] /\ Return(t, v)
    BY <1>5, <1>7 DEF EnumValue
  <2> QED BY <1>13, <1>14, <1>15, <2>1, SMTT(30)

(* The steps of a migration and of a claim *)

(* t is in the same call, and has seen no more of the map. *)
Keeps(t) ==
    /\ my'[t].call = my[t].call /\ my'[t].seen = my[t].seen
    /\ \A u \in Threads \ {t} : my'[u] = my[u]

LEMMA Keeping ==
    ASSUME IInv, NEW t \in Threads, NEW x, NEW y,
           \/ UNCHANGED my \/ StartCopy(t) \/ CopyNext(t) \/ CarryOn(t) \/ ProbeNext(t, x)
           \/ my' = [my EXCEPT ![t].ch = x]
           \/ my' = [my EXCEPT ![t].expect = x]
           \/ my' = [my EXCEPT ![t].p = 0, ![t].i = 0]
           \/ my' = [my EXCEPT ![t].cv = x, ![t].expect = NULL, ![t].d = y, ![t].at = 0, ![t].then = "carry"]
    PROVE  Keeps(t)
<1>1. my \in [Threads -> Locals] /\ my[t] \in Locals
  BY Basics DEF ThreadTypes
<1>2. CASE UNCHANGED my
  BY <1>2 DEF Keeps
<1>3. CASE StartCopy(t)
  BY <1>1, <1>3 DEF Keeps, StartCopy, Locals
<1>4. CASE CopyNext(t)
  BY <1>1, <1>4 DEF Keeps, CopyNext, Locals
<1>5. CASE CarryOn(t)
  BY <1>1, <1>5 DEF Keeps, CarryOn, Locals
<1>6. CASE ProbeNext(t, x)
  BY <1>1, <1>6 DEF Keeps, ProbeNext, Locals
<1>7. CASE my' = [my EXCEPT ![t].ch = x] \/ my' = [my EXCEPT ![t].expect = x]
  BY <1>1, <1>7 DEF Keeps, Locals
<1>8. CASE my' = [my EXCEPT ![t].p = 0, ![t].i = 0]
  BY <1>1, <1>8 DEF Keeps, Locals
<1>9. CASE my' = [my EXCEPT ![t].cv = x, ![t].expect = NULL, ![t].d = y, ![t].at = 0, ![t].then = "carry"]
  BY <1>1, <1>9 DEF Keeps, Locals
<1> QED BY <1>2, <1>3, <1>4, <1>5, <1>6, <1>7, <1>8, <1>9

(* It goes on inside its call. *)
LEMMA MigrationStays ==
    ASSUME IInv, NEW t \in Threads,
           \/ ClaimRead(t) \/ ClaimCas(t) \/ ClaimInc(t) \/ MigNext(t) \/ MigAlloc(t)
           \/ FreezeRead(t) \/ FreezeCas(t) \/ SealRead(t) \/ SealCas(t) \/ Carry(t)
    PROVE  Keeps(t) /\ \E l \in Inside : Goto(t, l)
<1>1. {"mig_next", "mig_alloc", "value", "claim", "carry", "claim_cas", "claim_inc", "freeze",
       "freeze_cas", "seal", "seal_cas", "swap"} \subseteq Inside
  BY DEF Inside, Labels
<1>2. my[t].then \in {"value", "carry"}
  BY Basics
<1>3. StartCopy(t) => Keeps(t) /\ \E l \in Inside : Goto(t, l)
  BY <1>1, Keeping DEF StartCopy
<1>4. CopyNext(t) => Keeps(t) /\ \E l \in Inside : Goto(t, l)
  BY <1>1, Keeping DEF CopyNext
<1>5. ASSUME NEW l \in Inside, UNCHANGED my, Goto(t, l) PROVE Keeps(t) /\ \E k \in Inside : Goto(t, k)
  BY <1>5, Keeping
<1>6. ASSUME NEW h, NEW f, Claimed(t, h, f) PROVE Keeps(t) /\ \E l \in Inside : Goto(t, l)
  <2>1. CASE FindOrClaim(t, h, f)
    BY <1>1, <2>1, Keeping DEF FindOrClaim
  <2>2. CASE CarryProbe(t, h)
    <3>1. UNCHANGED my \/ CarryOn(t) \/ ProbeNext(t, my[t].d)
      BY <2>2 DEF CarryProbe
    <3>2. \E l \in Inside : Goto(t, l)
      BY <1>1, <2>2 DEF CarryProbe
    <3> QED BY <3>1, <3>2, Keeping
  <2> QED BY <1>6, <2>1, <2>2 DEF Claimed
<1>7. ASSUME NEW h, Frozen(t, h) PROVE Keeps(t) /\ \E l \in Inside : Goto(t, l)
  BY <1>1, <1>4, <1>7, Keeping DEF Frozen
<1>8. ASSUME NEW v, Sealed(t, v) PROVE Keeps(t) /\ \E l \in Inside : Goto(t, l)
  <2>1. CASE CopyNext(t)
    BY <1>4, <2>1
  <2>2. CASE /\ my' = [my EXCEPT ![t].cv = v, ![t].expect = NULL, ![t].d = my[t].p + 1, ![t].at = 0,
                                 ![t].then = "carry"]
             /\ Goto(t, "claim")
    BY <1>1, <2>2, Keeping
  <2> QED BY <1>8, <2>1, <2>2 DEF Sealed
<1>9. CASE ClaimRead(t)
  BY <1>1, <1>5, <1>6, <1>9 DEF ClaimRead
<1>10. CASE ClaimCas(t)
  BY <1>1, <1>5, <1>6, <1>10 DEF ClaimCas
<1>11. CASE ClaimInc(t)
  BY <1>1, <1>2, <1>5, <1>11 DEF ClaimInc
<1>12. CASE MigNext(t) \/ MigAlloc(t)
  BY <1>1, <1>3, <1>5, <1>12 DEF MigNext, MigAlloc
<1>13. CASE FreezeRead(t)
  <2>1. \/ \E h : Frozen(t, h)
        \/ my' = [my EXCEPT ![t].ch = hash[my[t].p][my[t].i]] /\ Goto(t, "freeze_cas")
    BY <1>13 DEF FreezeRead
  <2> QED BY <1>1, <1>7, <2>1, Keeping
<1>14. CASE FreezeCas(t)
  <2>1. (\E h : Frozen(t, h)) \/ (UNCHANGED my /\ Goto(t, "freeze"))
    BY <1>14 DEF FreezeCas
  <2> QED BY <1>1, <1>5, <1>7, <2>1
<1>15. CASE SealRead(t)
  <2>1. \/ \E v : Sealed(t, v)
        \/ my' = [my EXCEPT ![t].expect = value[my[t].p][my[t].i]] /\ Goto(t, "seal_cas")
    BY <1>15 DEF SealRead
  <2> QED BY <1>1, <1>8, <2>1, Keeping
<1>16. CASE SealCas(t)
  <2>1. (\E v : Sealed(t, v)) \/ (UNCHANGED my /\ Goto(t, "seal"))
    BY <1>16 DEF SealCas
  <2> QED BY <1>1, <1>5, <1>8, <2>1
<1>17. CASE Carry(t)
  <2>1. CopyNext(t) \/ (CarryOn(t) /\ Goto(t, "claim"))
    BY <1>17 DEF Carry
  <2> QED BY <1>1, <1>4, <2>1, Keeping
<1> QED BY <1>9, <1>10, <1>11, <1>12, <1>13, <1>14, <1>15, <1>16, <1>17

(* No step of a migration or of a claim shows in the map. *)
LEMMA MigrationRef ==
    ASSUME RInv, IInv', NEW t \in Threads,
           \/ ClaimRead(t) \/ ClaimCas(t) \/ ClaimInc(t) \/ MigNext(t) \/ MigAlloc(t)
           \/ FreezeRead(t) \/ FreezeCas(t) \/ SealRead(t) \/ SealCas(t) \/ Carry(t) \/ Swap(t)
    PROVE  RInv' /\ UNCHANGED Contract!vars
<1>1. IInv
  BY DEF RInv
<1>2. Forward /\ Steady
  BY <1>1, MigrationForward
<1>3. pc[t] # "enum_value" /\ UNCHANGED <<rover, answer>>
  BY DEF ClaimRead, ClaimCas, ClaimInc, MigNext, MigAlloc, FreezeRead, FreezeCas, SealRead, SealCas,
         Carry, Swap
<1>4. \E l \in Inside : Goto(t, l)
  <2>1. CASE Swap(t)
    BY <2>1 DEF Swap, Inside, Labels
  <2> QED BY <1>1, <2>1, MigrationStays
<1>5. pc'[t] \in Inside /\ \A u \in Threads \ {t} : pc'[u] = pc[u]
  BY <1>1, <1>4, Basics DEF Goto, ThreadTypes
<1>6. /\ \/ my'[t].call = my[t].call /\ my'[t].seen = my[t].seen
         \/ my[t].call.op = "migrate" /\ my'[t].call = Idle
      /\ \A u \in Threads \ {t} : my'[u] = my[u]
  <2>1. CASE Swap(t)
    <3>1. CASE my[t].call.op = "migrate" /\ my' = [my EXCEPT ![t] = NoLocals]
      BY <1>1, <3>1, Basics DEF ThreadTypes, NoLocals
    <3>2. CASE my' = [my EXCEPT ![t].p = 0, ![t].i = 0]
      BY <1>1, <3>2, Keeping DEF Keeps
    <3> QED BY <2>1, <3>1, <3>2 DEF Swap
  <2>2. CASE ~Swap(t)
    BY <1>1, <2>2, MigrationStays DEF Keeps
  <2> QED BY <2>1, <2>2
<1> QED BY <1>2, <1>3, <1>5, <1>6, HiddenStep

-----------------------------------------------------------------------------
(* The hashtable implements the map *)

LEMMA InitRef ==
    ASSUME Init
    PROVE  RInv /\ Contract!Init
<1>1. IInv
  BY InitIInv
<1>2. /\ pc = [t \in Threads |-> "idle"] /\ my = [t \in Threads |-> NoLocals]
      /\ rover = [t \in Threads |-> NoRover] /\ answer = [t \in Threads |-> Idle]
      /\ content \in [Hashes -> Values \union {NULL}]
  BY <1>1 DEF Init, IInv, TypeInv, TableTypes
<1>3. ASSUME NEW t \in Threads PROVE Knows(pc[t], my[t], rover[t])
  BY <1>2 DEF Knows, SeenLast, LookAt, StoreAt, RoverAt, NoLocals, NoRover
<1>4. /\ CallsMap = [t \in Threads |-> Idle] /\ GotMap = [t \in Threads |-> {}]
      /\ StayMap = [t \in Threads |-> {}]
  BY <1>2 DEF CallsMap, CallMap, GotMap, StayMap, NoLocals, NoRover
<1>5. Contract!Init
  BY <1>2, <1>4 DEF Contract!Init, CallsMap, CallMap, GotMap, StayMap
<1> QED BY <1>1, <1>3, <1>5 DEF RInv

LEMMA NextRef ==
    ASSUME RInv, [Next]_vars
    PROVE  RInv' /\ [Contract!Next]_(Contract!vars)
<1>1. IInv /\ IInv'
  BY NextIInv DEF RInv
<1>2. ASSUME NEW t \in Threads, Step(t) PROVE RInv' /\ [Contract!Next]_(Contract!vars)
  <2>1. CASE \/ Load(t) \/ Check(t) \/ LookHash(t) \/ LookValue(t)
             \/ ReadValue(t) \/ ValueCas(t) \/ RemHash(t) \/ RemCas(t)
             \/ EnumHash(t) \/ EnumValue(t)
    BY <1>1, <2>1, LoadRef, CheckRef, LookHashRef, LookValueRef, ReadValueRef, ValueCasRef,
       RemHashRef, RemCasRef, EnumHashRef, EnumValueRef
  <2>2. CASE \/ ClaimRead(t) \/ ClaimCas(t) \/ ClaimInc(t) \/ MigNext(t) \/ MigAlloc(t)
             \/ FreezeRead(t) \/ FreezeCas(t) \/ SealRead(t) \/ SealCas(t) \/ Carry(t) \/ Swap(t)
    BY <1>1, <2>2, MigrationRef
  <2> QED BY <1>2, <2>1, <2>2 DEF Step
<1>3. ASSUME NEW t \in Threads, Enumerate(t) PROVE RInv' /\ Contract!Next
  BY <1>1, <1>3, EnumerateRef
<1>4. ASSUME NEW t \in Threads, NEW c \in Calls[t], Call(t, c)
      PROVE  RInv' /\ [Contract!Next]_(Contract!vars)
  BY <1>1, <1>4, CallRef
<1>5. CASE UNCHANGED vars
  <2>1. UNCHANGED <<size, hash, value, content, pc, my, rover, answer>>
    BY <1>5 DEF vars
  <2>2. ASSUME NEW u \in Threads PROVE Knows(pc[u], my[u], rover[u])'
    <3>1. SeenLast(my[u])' /\ LookAt(pc[u], my[u])' /\ StoreAt(pc[u], my[u])'
      BY <2>1 DEF RInv, Knows, SeenLast, LookAt, StoreAt, SlotOf, KeyOf
    <3>2. RoverAt(pc[u], my[u], rover[u])'
      BY <2>1 DEF RInv, Knows, RoverAt, Left
    <3> QED BY <3>1, <3>2 DEF Knows
  <2>3. CallsMap' = CallsMap /\ GotMap' = GotMap /\ StayMap' = StayMap
    BY <2>1 DEF CallsMap, CallMap, GotMap, StayMap
  <2> QED BY <1>1, <2>1, <2>2, <2>3, MapStutters DEF RInv
<1> QED BY <1>2, <1>3, <1>4, <1>5 DEF Next

(* MapSpec, for any threads, hashes, sizes and number of migrations: every *)
(* insert, register, remove and lookup takes effect at one moment of its   *)
(* call, also when its storage is migrated in the meantime, and an         *)
(* enumerator that comes to its end has returned all that stayed           *)
(* (_mulle_concurrent_hashtablestorage_insert, _remove, _lookup, _copy and *)
(* mulle_concurrent_hashtableenumerator_next).                             *)
THEOREM ImplementsMap == Spec => MapSpec
<1>1. Init => RInv /\ Contract!Init
  BY InitRef
<1>2. RInv /\ [Next]_vars => RInv' /\ [Contract!Next]_(Contract!vars)
  BY NextRef
<1> QED BY <1>1, <1>2, PTL DEF Spec, MapSpec, Contract!Spec

-----------------------------------------------------------------------------
(* What no step takes back *)

LEMMA NextForward ==
    ASSUME IInv, [Next]_vars
    PROVE  Forward
<1>1. ASSUME NEW t \in Threads, Step(t) PROVE Forward
  <2>1. CASE \/ Load(t) \/ Check(t) \/ LookHash(t) \/ LookValue(t)
             \/ ReadValue(t) \/ RemHash(t) \/ EnumHash(t) \/ EnumValue(t)
    <3>1. UNCHANGED <<world, words>>
      BY <2>1 DEF Load, Check, LookHash, LookValue, ReadValue, RemHash, EnumHash, EnumValue
    <3> QED BY <3>1, QuietForward DEF world, words
  <2>2. CASE ValueCas(t) \/ RemCas(t)
    <3>1. pc[t] \in {"value_cas", "rem_cas"} /\ UNCHANGED <<world, hash, frozen, sealed>>
      BY <2>2 DEF ValueCas, RemCas
    <3>2. CASE UNCHANGED value
      BY <3>1, <3>2, QuietForward DEF world
    <3>3. CASE value' # value
      <4>1. /\ Slot(t, my[t].p) = SlotOf(my[t]) /\ SlotOf(my[t]) \in Slots
            /\ KeyOf(my[t]) \in Hashes /\ hash[my[t].p][SlotOf(my[t])] = KeyOf(my[t])
            /\ my[t].call.value \in Values
            /\ ~sealed[my[t].p][SlotOf(my[t])] => my[t].p = storage
        BY <3>1, Unsealed
      <4>2. /\ ~sealed[my[t].p][SlotOf(my[t])]
            /\ \/ value' = [value EXCEPT ![my[t].p][SlotOf(my[t])] = my[t].call.value]
               \/ value' = [value EXCEPT ![my[t].p][SlotOf(my[t])] = TOMB]
        BY <2>2, <3>3, <4>1 DEF ValueCas, RemCas
      <4>3. my[t].call.value \in Words /\ my[t].call.value # NULL /\ TOMB \in Words /\ TOMB # NULL
        BY <4>1, ConstFacts DEF Words
      <4>4. PICK i \in Slots, h \in Hashes, v \in Words :
              /\ i = SlotOf(my[t]) /\ h = KeyOf(my[t]) /\ v # NULL
              /\ value' = [value EXCEPT ![storage][i] = v]
        BY <4>1, <4>2, <4>3
      <4>5. hash[storage][i] = h /\ ~sealed[storage][i]
        BY <4>1, <4>2, <4>4
      <4> QED BY <3>1, <4>4, <4>5, WriteTable
    <3> QED BY <3>2, <3>3
  <2>3. CASE \/ ClaimRead(t) \/ ClaimCas(t) \/ ClaimInc(t) \/ MigNext(t) \/ MigAlloc(t)
             \/ FreezeRead(t) \/ FreezeCas(t) \/ SealRead(t) \/ SealCas(t) \/ Carry(t) \/ Swap(t)
    BY <2>3, MigrationForward
  <2> QED BY <1>1, <2>1, <2>2, <2>3 DEF Step
<1>2. ASSUME NEW t \in Threads, Enumerate(t) \/ \E c \in Calls[t] : Call(t, c) PROVE Forward
  <2>1. UNCHANGED <<world, words>>
    BY <1>2 DEF Enumerate, Call
  <2> QED BY <2>1, QuietForward DEF world, words
<1>3. CASE UNCHANGED vars
  BY <1>3, QuietForward DEF vars
<1> QED BY <1>1, <1>2, <1>3 DEF Next

(* Every step only goes forward, from whatever storage it is made: a hash  *)
(* word that is claimed or frozen and a value word that is sealed never    *)
(* change again, a slot that had a value is never taken for one that never *)
(* had any, and map->storage does not go back.  This is what the reads of  *)
(* _find_or_claim, _carry and _copy, none of which locks anything, are     *)
(* built on.                                                               *)
THEOREM NothingTakenBack == Spec => [][Forward]_vars
<1>1. Init => IInv
  BY InitIInv
<1>2. IInv /\ [Next]_vars => IInv' /\ Forward
  BY NextIInv, NextForward
<1> QED BY <1>1, <1>2, PTL DEF Spec
=============================================================================
