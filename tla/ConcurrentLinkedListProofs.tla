--------------------- MODULE ConcurrentLinkedListProofs ---------------------
(***************************************************************************)
(* The concurrent list, for any threads, entries and numbers of calls: no  *)
(* entry is lost or in two places, and no chain has a cycle.               *)
(***************************************************************************)
EXTENDS ConcurrentLinkedList, FiniteSetTheorems, WellFoundedInduction, TLAPS

-----------------------------------------------------------------------------
(* Chains, for any contents nx of the _next fields *)

N == Cardinality(Entries)

Links == [Entries -> Pointer]

(* f[k] is what k links from p lead to. *)
Path(nx, p, f) ==
    f = [k \in 0 .. N |-> IF k = 0 THEN p ELSE IF f[k - 1] = NULL THEN NULL ELSE nx[f[k - 1]]]

WalkOf(nx, p) == CHOOSE f : Path(nx, p, f)

MembersOf(nx, p) == {WalkOf(nx, p)[k] : k \in 0 .. N} \ {NULL}

EndsOf(nx, p) == WalkOf(nx, p)[N] = NULL

LEMMA Numbers == N \in Nat /\ IsFiniteSet(Entries) /\ NULL \notin Entries
  BY ListAssumption, FS_CardinalityType DEF N

LEMMA Least ==
    ASSUME NEW S \in SUBSET Nat, S # {}
    PROVE  \E n \in S : \A m \in S : n <= m
<1>1. PICK n \in S : \A m \in S : <<m, n>> \notin OpToRel(<, Nat)
  BY NatLessThanWellFounded, WFMin
<1>2. \A m \in S : ~(m < n)
  BY <1>1 DEF OpToRel
<1> QED BY <1>2


(* The walk exists: a shortest part of it that did not could be continued. *)
LEMMA PathExists ==
    ASSUME NEW nx \in Links, NEW p \in Pointer
    PROVE  \E f : Path(nx, p, f)
<1> DEFINE Part(n, f) == /\ f \in [0 .. n -> Pointer] /\ f[0] = p
                         /\ \A k \in 1 .. n : f[k] = IF f[k - 1] = NULL THEN NULL ELSE nx[f[k - 1]]
<1> DEFINE Fails == {n \in Nat : ~\E f : Part(n, f)}
<1>1. Fails = {}
  <2> SUFFICES ASSUME Fails # {} PROVE FALSE
    OBVIOUS
  <2>1. PICK n \in Fails : \A m \in Fails : n <= m
    BY Least
  <2>2. n # 0
    <3>1. Part(0, [k \in 0 .. 0 |-> p])
      OBVIOUS
    <3> QED BY <2>1, <3>1
  <2>3. PICK f : Part(n - 1, f)
    <3>1. n \in Nat /\ n - 1 \in Nat /\ ~(n <= n - 1)
      BY <2>1, <2>2
    <3>2. n - 1 \notin Fails
      BY <2>1, <3>1
    <3> QED BY <3>1, <3>2
  <2> DEFINE q == IF f[n - 1] = NULL THEN NULL ELSE nx[f[n - 1]]
             g == [k \in 0 .. n |-> IF k = n THEN q ELSE f[k]]
  <2>4. n \in Nat /\ n > 0 /\ f[n - 1] \in Pointer
    BY <2>1, <2>2, <2>3
  <2>5. q \in Pointer
    BY <2>4 DEF Pointer, Links
  <2>6. Part(n, g)
    <3>1. g \in [0 .. n -> Pointer] /\ g[0] = p
      BY <2>3, <2>4, <2>5
    <3>2. ASSUME NEW k \in 1 .. n
          PROVE  g[k] = IF g[k - 1] = NULL THEN NULL ELSE nx[g[k - 1]]
      BY <2>3, <2>4, <3>2
    <3> QED BY <3>1, <3>2
  <2> QED BY <2>1, <2>6
<1>2. PICK f : Part(N, f)
  BY <1>1, Numbers
<1>3. f = [k \in 0 .. N |-> IF k = 0 THEN p ELSE IF f[k - 1] = NULL THEN NULL ELSE nx[f[k - 1]]]
  BY <1>2, Numbers
<1> QED BY <1>3 DEF Path

(* What a walk is, link by link. *)
LEMMA WalkSteps ==
    ASSUME NEW nx \in Links, NEW p \in Pointer
    PROVE  /\ WalkOf(nx, p) \in [0 .. N -> Pointer] /\ WalkOf(nx, p)[0] = p
           /\ \A k \in 1 .. N : WalkOf(nx, p)[k] =
                IF WalkOf(nx, p)[k - 1] = NULL THEN NULL ELSE nx[WalkOf(nx, p)[k - 1]]
<1>1. Path(nx, p, WalkOf(nx, p))
  BY PathExists DEF WalkOf
<1> DEFINE f == WalkOf(nx, p)
<1>2. f = [k \in 0 .. N |-> IF k = 0 THEN p ELSE IF f[k - 1] = NULL THEN NULL ELSE nx[f[k - 1]]]
  BY <1>1 DEF Path
<1> HIDE DEF f
<1>3. N \in Nat /\ f[0] = p
  BY <1>2, Numbers
<1>4. ASSUME NEW k \in 1 .. N PROVE f[k] = IF f[k - 1] = NULL THEN NULL ELSE nx[f[k - 1]]
  BY <1>2, <1>3, <1>4
<1> DEFINE Bad == {k \in 0 .. N : f[k] \notin Pointer}
<1>5. Bad = {}
  <2> SUFFICES ASSUME Bad # {} PROVE FALSE
    OBVIOUS
  <2>1. PICK n \in Bad : \A m \in Bad : n <= m
    <3>1. Bad \in SUBSET Nat
      BY <1>3
    <3> QED BY <3>1, Least
  <2>2. n \in 1 .. N /\ n - 1 \in 0 .. N /\ n - 1 \notin Bad
    BY <1>3, <2>1
  <2>3. f[n - 1] \in Pointer
    BY <2>2
  <2> QED BY <1>4, <2>1, <2>2, <2>3 DEF Pointer, Links
<1>6. f = [k \in 0 .. N |-> f[k]]
  BY <1>2
<1>7. f \in [0 .. N -> Pointer]
  BY <1>5, <1>6
<1> QED BY <1>3, <1>4, <1>7 DEF f

(* A set that is closed under the links. *)
Closed(nx, S) == \A e \in S : nx[e] = NULL \/ nx[e] \in S

LEMMA WalkStays ==
    ASSUME NEW nx \in Links, NEW p \in Pointer, NEW S, Closed(nx, S), p = NULL \/ p \in S
    PROVE  \A k \in 0 .. N : WalkOf(nx, p)[k] = NULL \/ WalkOf(nx, p)[k] \in S
<1> DEFINE f == WalkOf(nx, p)
           Bad == {k \in 0 .. N : f[k] # NULL /\ f[k] \notin S}
<1>1. /\ N \in Nat /\ f[0] = p
      /\ \A k \in 1 .. N : f[k] = IF f[k - 1] = NULL THEN NULL ELSE nx[f[k - 1]]
  BY WalkSteps, Numbers
<1> HIDE DEF f
<1> SUFFICES ASSUME Bad # {} PROVE FALSE
  BY DEF f
<1>2. PICK n \in Bad : \A m \in Bad : n <= m
  <2>1. Bad \in SUBSET Nat
    BY <1>1
  <2> QED BY <2>1, Least
<1>3. n \in 1 .. N /\ n - 1 \in 0 .. N /\ n - 1 \notin Bad
  BY <1>1, <1>2
<1> QED BY <1>1, <1>2, <1>3 DEF Closed

(* The members of a chain are the least closed set with its head. *)
LEMMA MembersLeast ==
    ASSUME NEW nx \in Links, NEW p \in Pointer, NEW S, Closed(nx, S), p = NULL \/ p \in S
    PROVE  MembersOf(nx, p) \subseteq S
  BY WalkStays DEF MembersOf

LEMMA MembersClosed ==
    ASSUME NEW nx \in Links, NEW p \in Pointer
    PROVE  /\ MembersOf(nx, p) \subseteq Entries
           /\ p # NULL => p \in MembersOf(nx, p)
           /\ p = NULL => MembersOf(nx, p) = {}
           /\ EndsOf(nx, p) => Closed(nx, MembersOf(nx, p))
<1>1. /\ N \in Nat /\ WalkOf(nx, p) \in [0 .. N -> Pointer] /\ WalkOf(nx, p)[0] = p
      /\ \A k \in 1 .. N : WalkOf(nx, p)[k] =
                IF WalkOf(nx, p)[k - 1] = NULL THEN NULL ELSE nx[WalkOf(nx, p)[k - 1]]
  BY WalkSteps, Numbers
<1>2. p = NULL => MembersOf(nx, p) = {}
  <2> SUFFICES ASSUME p = NULL PROVE MembersOf(nx, p) = {}
    OBVIOUS
  <2>1. Closed(nx, {})
    BY DEF Closed
  <2>2. MembersOf(nx, p) \subseteq {}
    BY <2>1, MembersLeast
  <2> QED BY <2>2
<1>3. ASSUME EndsOf(nx, p), NEW e \in MembersOf(nx, p)
      PROVE  nx[e] = NULL \/ nx[e] \in MembersOf(nx, p)
  <2>1. PICK k \in 0 .. N : WalkOf(nx, p)[k] = e /\ e # NULL
    BY <1>3 DEF MembersOf
  <2>2. k # N
    BY <1>3, <2>1 DEF EndsOf
  <2>3. k + 1 \in 1 .. N /\ k + 1 \in 0 .. N /\ (k + 1) - 1 = k
    BY <1>1, <2>2
  <2>4. WalkOf(nx, p)[k + 1] = nx[e]
    BY <1>1, <2>1, <2>3
  <2> QED BY <2>3, <2>4 DEF MembersOf
<1>4. MembersOf(nx, p) \subseteq Entries /\ (p # NULL => p \in MembersOf(nx, p))
  BY <1>1 DEF MembersOf, Pointer
<1> QED BY <1>2, <1>3, <1>4 DEF Closed

(* r gives the entries of S numbers that fall along the links. *)
Ranks(nx, S, r) ==
    /\ r \in [S -> Nat]
    /\ \A e \in S : nx[e] = NULL \/ (nx[e] \in S /\ r[nx[e]] < r[e])

(* A chain with falling numbers ends: it has no entry twice, and more      *)
(* links than entries there cannot be.                                     *)
LEMMA RankedEnds ==
    ASSUME NEW nx \in Links, NEW p \in Pointer, NEW S \in SUBSET Entries, NEW r, Ranks(nx, S, r),
           p = NULL \/ p \in S
    PROVE  EndsOf(nx, p)
<1> DEFINE f == WalkOf(nx, p)
<1>1. /\ N \in Nat /\ f \in [0 .. N -> Pointer] /\ f[0] = p
      /\ \A k \in 1 .. N : f[k] = IF f[k - 1] = NULL THEN NULL ELSE nx[f[k - 1]]
  BY WalkSteps, Numbers
<1>2. \A k \in 0 .. N : f[k] = NULL \/ f[k] \in S
  <2>1. Closed(nx, S)
    BY DEF Ranks, Closed
  <2> QED BY <2>1, WalkStays
<1> HIDE DEF f
<1> SUFFICES ASSUME f[N] # NULL PROVE FALSE
  BY DEF EndsOf, f
<1> DEFINE Odd(i) == {k \in 0 .. N : k > i /\ (f[k] = NULL \/ f[k] = f[i] \/ ~(r[f[k]] < r[f[i]]))}
<1>3. \A k \in 0 .. N : f[k] # NULL
  <2> DEFINE Null == {j \in Nat : j <= N /\ f[N - j] = NULL}
  <2> SUFFICES ASSUME Null # {} PROVE FALSE
    <3> SUFFICES ASSUME NEW k \in 0 .. N, f[k] = NULL PROVE FALSE
      OBVIOUS
    <3>1. N - k \in Nat /\ N - k <= N /\ N - (N - k) = k
      BY <1>1
    <3>2. N - k \in Null
      BY <3>1
    <3> QED BY <3>2
  <2>1. PICK n \in Null : \A m \in Null : n <= m
    BY Least
  <2>2. n # 0
    BY <1>1, <2>1
  <2>3. n - 1 \in Nat /\ n - 1 <= N /\ ~(n <= n - 1) /\ n \in Nat /\ n <= N
    BY <1>1, <2>1, <2>2
  <2>4. n - 1 \notin Null
    BY <2>1, <2>3
  <2>5. f[N - (n - 1)] # NULL /\ f[N - n] = NULL
    BY <2>1, <2>3, <2>4
  <2>6. N - (n - 1) \in 1 .. N /\ (N - (n - 1)) - 1 = N - n
    BY <1>1, <2>3
  <2> QED BY <1>1, <2>5, <2>6
<1>4. \A k \in 0 .. N : f[k] \in S
  BY <1>2, <1>3
<1>5. ASSUME NEW i \in 0 .. N PROVE Odd(i) = {}
  <2> SUFFICES ASSUME Odd(i) # {} PROVE FALSE
    OBVIOUS
  <2>1. Odd(i) \in SUBSET Nat
    BY <1>1
  <2>2. PICK n \in Odd(i) : \A m \in Odd(i) : n <= m
    BY <2>1, Least
  <2>3. n \in 1 .. N /\ n - 1 \in 0 .. N /\ n > i /\ ~(n <= n - 1) /\ n \in 0 .. N
    BY <1>1, <2>2
  <2>4. r[f[n]] < r[f[n - 1]] /\ f[n] \in S /\ f[n - 1] \in S /\ f[i] \in S
    <3>1. f[n] = nx[f[n - 1]] /\ f[n - 1] \in S /\ f[n] \in S /\ f[i] \in S
      BY <1>1, <1>3, <1>4, <2>3
    <3> QED BY <1>3, <2>3, <3>1 DEF Ranks
  <2>5. r[f[n]] \in Nat /\ r[f[n - 1]] \in Nat /\ r[f[i]] \in Nat
    BY <2>4 DEF Ranks
  <2>6. r[f[n]] < r[f[i]]
    <3>1. CASE n - 1 = i
      BY <2>4, <3>1
    <3>2. CASE n - 1 # i
      <4>1. n - 1 > i /\ n - 1 \notin Odd(i)
        BY <1>1, <2>2, <2>3, <3>2
      <4>2. r[f[n - 1]] < r[f[i]]
        BY <2>3, <4>1
      <4> QED BY <2>4, <2>5, <4>2
    <3> QED BY <3>1, <3>2
  <2>7. f[n] # f[i]
    BY <2>5, <2>6
  <2> QED BY <1>3, <2>2, <2>3, <2>6, <2>7
<1>6. f \in [0 .. N -> Entries]
  BY <1>1, <1>4
<1>7. f \in Injection(0 .. N, Entries)
  <2>1. ASSUME NEW i \in 0 .. N, NEW j \in 0 .. N, f[i] = f[j], i < j PROVE FALSE
    BY <1>5, <2>1
  <2>2. ASSUME NEW i \in 0 .. N, NEW j \in 0 .. N, f[i] = f[j] PROVE i = j
    <3>1. ~(i < j) /\ ~(j < i)
      BY <2>1, <2>2
    <3> QED BY <1>1, <3>1
  <2> QED BY <1>6, <2>2 DEF Injection, IsInjective
<1>8. Cardinality(0 .. N) <= Cardinality(Entries)
  BY <1>7, Numbers, FS_Injection DEF ExistsInjection
<1>9. Cardinality(0 .. N) = N + 1
  BY <1>1, FS_Interval
<1> QED BY <1>1, <1>8, <1>9 DEF N

(* The entries of a chain that ends have falling numbers: how far from the *)
(* end of the walk they were met last.                                     *)
LEMMA EndsRanked ==
    ASSUME NEW nx \in Links, NEW p \in Pointer, EndsOf(nx, p)
    PROVE  \E r \in [MembersOf(nx, p) -> 0 .. N] : Ranks(nx, MembersOf(nx, p), r)
<1> DEFINE f == WalkOf(nx, p)
           M == MembersOf(nx, p)
<1>1. /\ N \in Nat /\ f \in [0 .. N -> Pointer] /\ f[0] = p /\ f[N] = NULL
      /\ \A k \in 1 .. N : f[k] = IF f[k - 1] = NULL THEN NULL ELSE nx[f[k - 1]]
  BY WalkSteps, Numbers DEF EndsOf
<1>2. M = {f[k] : k \in 0 .. N} \ {NULL} /\ Closed(nx, M)
  BY MembersClosed DEF MembersOf
<1> HIDE DEF f, M
<1> DEFINE From(e) == {j \in 0 .. N : f[N - j] = e}
           First(e, j) == j \in From(e) /\ \A i \in From(e) : j <= i
<1>3. ASSUME NEW e \in M PROVE \E j \in 0 .. N : First(e, j)
  <2>1. PICK k \in 0 .. N : f[k] = e
    BY <1>2
  <2>2. N - k \in 0 .. N /\ N - (N - k) = k
    BY <1>1
  <2>3. From(e) # {} /\ From(e) \in SUBSET Nat
    BY <1>1, <2>1, <2>2
  <2>4. PICK j \in From(e) : \A i \in From(e) : j <= i
    BY <2>3, Least
  <2> QED BY <2>4
<1> DEFINE r == [e \in M |-> CHOOSE j \in 0 .. N : First(e, j)]
<1>4. r \in [M -> 0 .. N] /\ \A e \in M : First(e, r[e])
  BY <1>3
<1> HIDE DEF r
<1>5. ASSUME NEW e \in M, nx[e] # NULL PROVE nx[e] \in M /\ r[nx[e]] < r[e]
  <2>1. nx[e] \in M /\ e # NULL
    BY <1>2, <1>5 DEF Closed
  <2>2. r[e] \in 0 .. N /\ f[N - r[e]] = e /\ r[nx[e]] \in 0 .. N
    BY <1>4, <2>1
  <2>3. r[e] # 0
    BY <1>1, <2>1, <2>2
  <2>4. /\ r[e] - 1 \in 0 .. N /\ N - (r[e] - 1) \in 1 .. N
        /\ (N - (r[e] - 1)) - 1 = N - r[e]
    BY <1>1, <2>2, <2>3
  <2>5. f[N - (r[e] - 1)] = nx[e]
    BY <1>1, <2>1, <2>2, <2>4
  <2>6. r[e] - 1 \in From(nx[e])
    BY <2>4, <2>5
  <2>7. r[nx[e]] <= r[e] - 1
    BY <1>4, <2>1, <2>6
  <2> QED BY <1>1, <2>1, <2>2, <2>4, <2>7
<1>6. r \in [M -> Nat]
  BY <1>1, <1>4
<1>7. Ranks(nx, M, r)
  BY <1>5, <1>6 DEF Ranks
<1> QED BY <1>4, <1>7 DEF M

(* What ends and has the members M: what a chain is to those who hold it. *)
Chain(nx, p, M) == EndsOf(nx, p) /\ MembersOf(nx, p) = M

LEMMA ChainFacts ==
    ASSUME NEW nx \in Links, NEW p \in Pointer, NEW M, Chain(nx, p, M)
    PROVE  /\ M \in SUBSET Entries /\ Closed(nx, M) /\ (p = NULL \/ p \in M)
           /\ p = NULL => M = {}
           /\ \E r \in [M -> 0 .. N] : Ranks(nx, M, r)
  BY MembersClosed, EndsRanked DEF Chain

(* A closed set with falling numbers is the chain of p, if there is no     *)
(* smaller one.                                                            *)
LEMMA ChainOf ==
    ASSUME NEW nx \in Links, NEW p \in Pointer, NEW M \in SUBSET Entries, p = NULL \/ p \in M,
           NEW r, Ranks(nx, M, r),
           \A S \in SUBSET M : Closed(nx, S) /\ (p = NULL \/ p \in S) => M \subseteq S
    PROVE  Chain(nx, p, M)
<1>1. EndsOf(nx, p)
  BY RankedEnds
<1>2. Closed(nx, M)
  BY DEF Ranks, Closed
<1>3. MembersOf(nx, p) \subseteq M
  BY <1>2, MembersLeast
<1>4. Closed(nx, MembersOf(nx, p)) /\ (p = NULL \/ p \in MembersOf(nx, p))
  BY <1>1, MembersClosed
<1>5. M \subseteq MembersOf(nx, p)
  BY <1>3, <1>4
<1> QED BY <1>1, <1>3, <1>5 DEF Chain

LEMMA ChainMinimal ==
    ASSUME NEW nx \in Links, NEW p \in Pointer, NEW M, Chain(nx, p, M), NEW S, Closed(nx, S),
           p = NULL \/ p \in S
    PROVE  M \subseteq S
  BY MembersLeast DEF Chain

LEMMA EmptyChain ==
    ASSUME NEW nx \in Links
    PROVE  Chain(nx, NULL, {})
<1>1. NULL \in Pointer /\ Ranks(nx, {}, [e \in {} |-> 0]) /\ {} \in SUBSET Entries
  BY DEF Pointer, Ranks
<1>2. EndsOf(nx, NULL)
  BY <1>1, RankedEnds
<1> QED BY <1>1, <1>2, MembersClosed DEF Chain

(* A chain whose links are left alone stays what it is. *)
LEMMA ChainKept ==
    ASSUME NEW nx \in Links, NEW ny \in Links, NEW p \in Pointer, NEW M, Chain(nx, p, M),
           \A e \in M : ny[e] = nx[e]
    PROVE  Chain(ny, p, M)
<1>1. /\ M \in SUBSET Entries /\ (p = NULL \/ p \in M)
  BY ChainFacts
<1>2. PICK r \in [M -> 0 .. N] : Ranks(nx, M, r)
  BY ChainFacts
<1>3. Ranks(ny, M, r)
  BY <1>2 DEF Ranks
<1>4. ASSUME NEW S \in SUBSET M, Closed(ny, S), p = NULL \/ p \in S PROVE M \subseteq S
  <2>1. Closed(nx, S)
    BY <1>4 DEF Closed
  <2> QED BY <1>4, <2>1, ChainMinimal
<1> QED BY <1>1, <1>3, <1>4, ChainOf

(* The chain behind the head. *)
LEMMA ChainRest ==
    ASSUME NEW nx \in Links, NEW p \in Entries, NEW M, Chain(nx, p, M)
    PROVE  Chain(nx, nx[p], M \ {p}) /\ p \in M
<1>1. p \in Pointer /\ p # NULL /\ nx[p] \in Pointer
  BY Numbers DEF Pointer, Links
<1>2. M \in SUBSET Entries /\ Closed(nx, M) /\ p \in M /\ (nx[p] = NULL \/ nx[p] \in M)
  BY <1>1, ChainFacts DEF Closed
<1>3. PICK r \in [M -> 0 .. N] : Ranks(nx, M, r)
  BY <1>1, ChainFacts
<1>4. \A e \in M : r[e] \in Nat /\ (nx[e] = NULL \/ (nx[e] \in M /\ r[nx[e]] < r[e]))
  BY <1>3 DEF Ranks
<1> DEFINE Q == MembersOf(nx, nx[p])
           L == {e \in M : r[e] < r[p]}
<1>5. EndsOf(nx, nx[p])
  BY <1>1, <1>2, <1>3, RankedEnds
<1>6. Closed(nx, Q) /\ (nx[p] = NULL \/ nx[p] \in Q)
  BY <1>1, <1>5, MembersClosed
<1>7. Q \subseteq L
  <2>1. Closed(nx, L)
    BY <1>2, <1>4 DEF Closed
  <2>2. nx[p] = NULL \/ nx[p] \in L
    BY <1>2, <1>4
  <2> QED BY <1>1, <2>1, <2>2, MembersLeast
<1>8. p \notin Q
  BY <1>2, <1>4, <1>7
<1>9. M \subseteq {p} \union Q
  <2>1. Closed(nx, {p} \union Q)
    BY <1>6 DEF Closed
  <2> QED BY <1>1, <2>1, ChainMinimal
<1>10. Q = M \ {p}
  BY <1>7, <1>8, <1>9
<1> QED BY <1>2, <1>5, <1>10 DEF Chain

(* An entry is pushed on a chain. *)
LEMMA ChainPush ==
    ASSUME NEW nx \in Links, NEW p \in Entries, NEW M, Chain(nx, nx[p], M), p \notin M
    PROVE  Chain(nx, p, M \union {p})
<1>1. p \in Pointer /\ p # NULL /\ nx[p] \in Pointer
  BY Numbers DEF Pointer, Links
<1>2. M \in SUBSET Entries /\ Closed(nx, M) /\ (nx[p] = NULL \/ nx[p] \in M)
  BY <1>1, ChainFacts
<1>3. PICK r \in [M -> 0 .. N] : Ranks(nx, M, r)
  BY <1>1, ChainFacts
<1> DEFINE q == [e \in M \union {p} |-> IF e = p THEN N + 1 ELSE r[e]]
<1>4. Ranks(nx, M \union {p}, q)
  <2>1. q \in [M \union {p} -> Nat]
    BY <1>3, Numbers
  <2>2. ASSUME NEW e \in M \union {p}, nx[e] # NULL
        PROVE  nx[e] \in M \union {p} /\ q[nx[e]] < q[e]
    <3>1. nx[e] \in M
      BY <1>2, <2>2 DEF Closed
    <3>2. q[nx[e]] = r[nx[e]] /\ r[nx[e]] \in 0 .. N
      BY <1>3, <3>1
    <3>3. CASE e = p
      BY <3>1, <3>2, <3>3, Numbers
    <3>4. CASE e # p
      BY <1>3, <2>2, <3>1, <3>2, <3>4 DEF Ranks
    <3> QED BY <3>3, <3>4
  <2> QED BY <2>1, <2>2 DEF Ranks
<1>5. ASSUME NEW S \in SUBSET (M \union {p}), Closed(nx, S), p = NULL \/ p \in S
      PROVE  M \union {p} \subseteq S
  <2>1. p \in S /\ (nx[p] = NULL \/ nx[p] \in S)
    BY <1>1, <1>5 DEF Closed
  <2>2. M \subseteq S
    BY <1>1, <1>5, <2>1, ChainMinimal
  <2> QED BY <2>1, <2>2
<1>6. M \union {p} \in SUBSET Entries /\ (p = NULL \/ p \in M \union {p})
  BY <1>2
<1> QED BY <1>1, <1>4, <1>5, <1>6, ChainOf

(* Its tail. *)
LEMMA ChainTail ==
    ASSUME NEW nx \in Links, NEW p \in Entries, NEW M, Chain(nx, p, M)
    PROVE  \E e \in M : nx[e] = NULL
<1>1. p \in Pointer /\ p # NULL
  BY Numbers DEF Pointer
<1>2. M \in SUBSET Entries /\ p \in M
  BY <1>1, ChainFacts
<1>3. PICK r \in [M -> 0 .. N] : Ranks(nx, M, r)
  BY <1>1, ChainFacts
<1> DEFINE R == {r[e] : e \in M}
<1>4. R \in SUBSET Nat /\ R # {}
  BY <1>2, <1>3, Numbers
<1>5. PICK n \in R : \A m \in R : n <= m
  BY <1>4, Least
<1>6. PICK e \in M : r[e] = n
  BY <1>5
<1>7. nx[e] = NULL \/ (nx[e] \in M /\ r[nx[e]] < r[e] /\ r[nx[e]] \in R /\ r[nx[e]] \in Nat /\ r[e] \in Nat)
  BY <1>3, <1>4 DEF Ranks
<1> QED BY <1>5, <1>6, <1>7

(* A chain is put behind the tail of another. *)
LEMMA ChainAppended ==
    ASSUME NEW nx \in Links, NEW p \in Entries, NEW M, Chain(nx, p, M), NEW c \in Entries,
           NEW Q, Chain(nx, c, Q), M \intersect Q = {}, NEW e \in M, nx[e] = NULL
    PROVE  Chain([nx EXCEPT ![e] = c], p, M \union Q)
<1> DEFINE ny == [nx EXCEPT ![e] = c]
<1>1. p \in Pointer /\ c \in Pointer /\ p # NULL /\ c # NULL
  BY Numbers DEF Pointer
<1>2. /\ M \in SUBSET Entries /\ Closed(nx, M) /\ p \in M
      /\ Q \in SUBSET Entries /\ Closed(nx, Q) /\ c \in Q
  BY <1>1, ChainFacts
<1>3. ny \in Links /\ ny[e] = c /\ \A d \in (M \union Q) \ {e} : ny[d] = nx[d]
  BY <1>1, <1>2 DEF Links
<1> HIDE DEF ny
<1>4. PICK r \in [M -> 0 .. N] : Ranks(nx, M, r)
  BY <1>1, ChainFacts
<1>5. PICK q \in [Q -> 0 .. N] : Ranks(nx, Q, q)
  BY <1>1, ChainFacts
<1> DEFINE s == [d \in M \union Q |-> IF d \in M THEN r[d] + N + 1 ELSE q[d]]
<1>6. s \in [M \union Q -> Nat] /\ \A d \in M : s[d] > N /\ s[d] = r[d] + N + 1
  BY <1>4, <1>5, Numbers
<1>7. \A d \in Q : s[d] = q[d] /\ s[d] \in 0 .. N
  BY <1>2, <1>5
<1>8. Ranks(ny, M \union Q, s)
  <2>1. ASSUME NEW d \in M \union Q, ny[d] # NULL
        PROVE  ny[d] \in M \union Q /\ s[ny[d]] < s[d]
    <3>1. CASE d = e
      BY <1>2, <1>3, <1>6, <1>7, <3>1, Numbers
    <3>2. CASE d # e /\ d \in M
      <4>1. ny[d] \in M /\ r[ny[d]] < r[d] /\ r[ny[d]] \in Nat /\ r[d] \in Nat
        BY <1>3, <1>4, <2>1, <3>2, Numbers DEF Ranks
      <4> QED BY <1>6, <3>2, <4>1, Numbers
    <3>3. CASE d # e /\ d \in Q
      <4>1. ny[d] \in Q /\ q[ny[d]] < q[d]
        BY <1>3, <1>5, <2>1, <3>3 DEF Ranks
      <4> QED BY <1>7, <3>3, <4>1
    <3> QED BY <3>1, <3>2, <3>3
  <2> QED BY <1>6, <2>1 DEF Ranks
<1>9. ASSUME NEW S \in SUBSET (M \union Q), Closed(ny, S), p = NULL \/ p \in S
      PROVE  M \union Q \subseteq S
  <2>1. Closed(nx, S)
    <3> SUFFICES ASSUME NEW d \in S PROVE nx[d] = NULL \/ nx[d] \in S
      BY DEF Closed
    <3>1. CASE d = e
      BY <3>1
    <3>2. CASE d # e
      BY <1>3, <1>9, <3>2 DEF Closed
    <3> QED BY <3>1, <3>2
  <2>2. M \subseteq S
    BY <1>1, <1>9, <2>1, ChainMinimal
  <2>3. c \in S
    BY <1>1, <1>3, <1>9, <2>2 DEF Closed
  <2>4. Q \subseteq S
    BY <1>1, <2>1, <2>3, ChainMinimal
  <2> QED BY <2>2, <2>4
<1>10. Chain(ny, p, M \union Q)
  BY <1>1, <1>2, <1>3, <1>8, <1>9, ChainOf
<1> QED BY <1>10 DEF ny

-----------------------------------------------------------------------------
(* The invariant *)

List == <<"list", 0>>
Detached(t) == <<"chain", t>>
Hand(t) == <<"hand", t>>
Held(t) == <<"held", t>>

Places ==
    {List} \union {Detached(t) : t \in Threads} \union {Hand(t) : t \in Threads}
    \union {Held(t) : t \in Threads}

OwnPlaces(t) == {List, Detached(t), Hand(t), Held(t)}

In(own, place) == {e \in Entries : own[e] = place}

(* own says of each entry where it is: the list and the detached chains    *)
(* are chains that end, with these entries and no others.                  *)
Owner(own) ==
    /\ own \in [Entries -> Places]
    /\ Chain(next, head, In(own, List))
    /\ \A t \in Threads :
         /\ Chain(next, chain[t], In(own, Detached(t)))
         /\ InHand(t) = In(own, Hand(t))
         /\ held[t] = In(own, Held(t))

(* What a thread knows at each label. *)
LocalInv(t) ==
    /\ pc[t] \in {"idle", "all_load", "all_cas"} => entry[t] = NULL /\ chain[t] = NULL
    /\ pc[t] \in {"add_load", "add_cas"} => entry[t] # NULL /\ chain[t] = NULL
    /\ pc[t] = "add_cas" => next[entry[t]] = seen[t]
    /\ pc[t] \in {"all_cas", "one_cas"} => seen[t] # NULL
    /\ pc[t] \in {"one_load", "one_cas"} => (entry[t] = NULL <=> chain[t] = NULL)
    /\ pc[t] = "one_put" => entry[t] # NULL /\ chain[t] # NULL
    /\ pc[t] \in {"one_load", "one_cas", "one_put"} /\ entry[t] # NULL => next[entry[t]] = NULL
    /\ \A e \in held[t] : next[e] = NULL

IInv ==
    /\ TypeOK
    /\ \E own : Owner(own)
    /\ \A t \in Threads : LocalInv(t)

(* The model's walk is the one of the lemmas. *)
LEMMA WalksAgree ==
    ASSUME NEW p
    PROVE  Members(p) = MembersOf(next, p) /\ Walk(p)[Cardinality(Entries)] = WalkOf(next, p)[N]
<1>1. Walk(p) = WalkOf(next, p)
  BY DEF Walk, WalkOf, Path, N
<1> QED BY <1>1 DEF Members, MembersOf, N

LEMMA Apart ==
    ASSUME NEW t \in Threads, NEW u \in Threads \ {t}
    PROVE  /\ {Detached(u), Hand(u), Held(u)} \intersect OwnPlaces(t) = {}
           /\ OwnPlaces(t) \subseteq Places
           /\ List # Detached(t) /\ List # Hand(t) /\ List # Held(t)
           /\ Detached(t) # Hand(t) /\ Detached(t) # Held(t) /\ Hand(t) # Held(t)
  BY DEF List, Detached, Hand, Held, OwnPlaces, Places

LEMMA ApartAlone ==
    ASSUME NEW t \in Threads
    PROVE  /\ OwnPlaces(t) \subseteq Places
           /\ List # Detached(t) /\ List # Hand(t) /\ List # Held(t)
           /\ Detached(t) # Hand(t) /\ Detached(t) # Held(t) /\ Hand(t) # Held(t)
  BY DEF List, Detached, Hand, Held, OwnPlaces, Places

(* A step of t moves entries between the list and the places of t, and     *)
(* links only those.                                                       *)
Quiet(t, own, mine) ==
    /\ mine \in [Entries -> Places]
    /\ \A u \in Threads \ {t} :
         /\ pc'[u] = pc[u] /\ seen'[u] = seen[u] /\ entry'[u] = entry[u]
         /\ chain'[u] = chain[u] /\ held'[u] = held[u]
    /\ \A e \in Entries : mine[e] # own[e] => own[e] \in OwnPlaces(t) /\ mine[e] \in OwnPlaces(t)
    /\ \A e \in Entries : next'[e] # next[e] => own[e] \in OwnPlaces(t)

LEMMA StepKeeps ==
    ASSUME IInv, TypeOK', NEW t \in Threads, NEW own, Owner(own), NEW mine, Quiet(t, own, mine),
           Chain(next', head', In(mine, List)),
           Chain(next', chain'[t], In(mine, Detached(t))),
           InHand(t)' = In(mine, Hand(t)), held'[t] = In(mine, Held(t)), LocalInv(t)'
    PROVE  IInv'
<1>1. /\ next \in Links /\ next' \in Links
      /\ \A u \in Threads : /\ chain[u] \in Pointer /\ held[u] \subseteq Entries
                            /\ entry[u] \in Pointer
  BY DEF IInv, TypeOK, Links
<1>2. ASSUME NEW u \in Threads \ {t}
      PROVE  /\ Chain(next', chain'[u], In(mine, Detached(u)))
             /\ InHand(u)' = In(mine, Hand(u)) /\ held'[u] = In(mine, Held(u))
             /\ LocalInv(u)'
  <2>1. {Detached(u), Hand(u), Held(u)} \intersect OwnPlaces(t) = {}
    BY Apart
  <2>2. \A e \in Entries : own[e] \in {Detached(u), Hand(u), Held(u)} <=> mine[e] \in {Detached(u), Hand(u), Held(u)}
    BY <2>1 DEF Quiet
  <2>3. /\ In(mine, Detached(u)) = In(own, Detached(u)) /\ In(mine, Hand(u)) = In(own, Hand(u))
        /\ In(mine, Held(u)) = In(own, Held(u))
    BY <2>1 DEF Quiet, In
  <2>4. /\ pc'[u] = pc[u] /\ seen'[u] = seen[u] /\ entry'[u] = entry[u]
        /\ chain'[u] = chain[u] /\ held'[u] = held[u]
    BY DEF Quiet
  <2>5. \A e \in In(own, Detached(u)) \union In(own, Hand(u)) \union In(own, Held(u)) : next'[e] = next[e]
    BY <2>1 DEF Quiet, In
  <2>6. /\ Chain(next, chain[u], In(own, Detached(u)))
        /\ InHand(u) = In(own, Hand(u)) /\ held[u] = In(own, Held(u)) /\ LocalInv(u)
    BY DEF Owner, IInv
  <2>7. Chain(next', chain[u], In(own, Detached(u)))
    BY <1>1, <2>5, <2>6, ChainKept
  <2>8. InHand(u)' = InHand(u)
    BY <2>4 DEF InHand
  <2>9. LocalInv(u)'
    <3>1. entry[u] # NULL => next'[entry[u]] = next[entry[u]]
      BY <2>5, <2>6 DEF InHand
    <3>2. \A e \in held[u] : next'[e] = next[e]
      BY <2>5, <2>6
    <3> QED BY <2>4, <2>6, <3>1, <3>2 DEF LocalInv
  <2> QED BY <2>3, <2>4, <2>6, <2>7, <2>8, <2>9
<1>3. Owner(mine)'
  BY <1>2 DEF Owner, Quiet
<1>4. \A u \in Threads : LocalInv(u)'
  BY <1>2
<1> QED BY <1>3, <1>4 DEF IInv

(* What holds of t and its places before a step. *)
LEMMA Before ==
    ASSUME IInv, NEW t \in Threads, NEW own, Owner(own)
    PROVE  /\ TypeOK /\ LocalInv(t) /\ next \in Links /\ own \in [Entries -> Places]
           /\ Chain(next, head, In(own, List)) /\ Chain(next, chain[t], In(own, Detached(t)))
           /\ InHand(t) = In(own, Hand(t)) /\ held[t] = In(own, Held(t))
           /\ head = NULL => In(own, List) = {}
           /\ chain[t] = NULL => In(own, Detached(t)) = {}
           /\ entry[t] = NULL => In(own, Hand(t)) = {}
           /\ entry[t] # NULL => In(own, Hand(t)) = {entry[t]}
<1>1. /\ TypeOK /\ LocalInv(t) /\ next \in Links /\ own \in [Entries -> Places]
      /\ Chain(next, head, In(own, List)) /\ Chain(next, chain[t], In(own, Detached(t)))
      /\ InHand(t) = In(own, Hand(t)) /\ held[t] = In(own, Held(t))
      /\ head \in Pointer /\ chain[t] \in Pointer
  BY DEF IInv, Owner, TypeOK, Links
<1>2. head = NULL => In(own, List) = {}
  BY <1>1, ChainFacts
<1>3. chain[t] = NULL => In(own, Detached(t)) = {}
  BY <1>1, ChainFacts
<1>4. /\ entry[t] = NULL => In(own, Hand(t)) = {}
      /\ entry[t] # NULL => In(own, Hand(t)) = {entry[t]}
  BY <1>1 DEF InHand
<1> QED BY <1>1, <1>2, <1>3, <1>4

(* A step that leaves the list, the links and all places alone. *)
LEMMA PlainStep ==
    ASSUME IInv, TypeOK', NEW t \in Threads, UNCHANGED <<head, next, entry, chain, held>>,
           \A u \in Threads \ {t} : pc'[u] = pc[u] /\ seen'[u] = seen[u], LocalInv(t)'
    PROVE  IInv'
<1>1. PICK own : Owner(own)
  BY DEF IInv
<1>2. Quiet(t, own, own)
  BY <1>1 DEF Quiet, Owner
<1>3. /\ Chain(next', head', In(own, List)) /\ Chain(next', chain'[t], In(own, Detached(t)))
      /\ InHand(t)' = In(own, Hand(t)) /\ held'[t] = In(own, Held(t))
  BY <1>1, Before DEF InHand
<1> QED BY <1>1, <1>2, <1>3, StepKeeps

LEMMA AddCallStep ==
    ASSUME IInv, NEW t \in Threads, NEW e \in Entries, AddCall(t, e)
    PROVE  IInv'
<1>1. PICK own : Owner(own)
  BY DEF IInv
<1>2. /\ TypeOK /\ LocalInv(t) /\ own \in [Entries -> Places]
      /\ Chain(next, head, In(own, List)) /\ Chain(next, chain[t], In(own, Detached(t)))
      /\ held[t] = In(own, Held(t)) /\ entry[t] = NULL /\ In(own, Hand(t)) = {}
  BY <1>1, Before DEF LocalInv, AddCall
<1>3. TypeOK'
  BY <1>2, Numbers, ListAssumption DEF TypeOK, AddCall, Goto, Pointer, shared
<1> DEFINE mine == [own EXCEPT ![e] = Hand(t)]
<1>4. own[e] = Held(t)
  BY <1>2 DEF AddCall, In
<1>5. Quiet(t, own, mine)
  BY <1>2, <1>4, ApartAlone DEF Quiet, AddCall, Goto, TypeOK, OwnPlaces, shared
<1>6. /\ In(mine, List) = In(own, List) /\ In(mine, Detached(t)) = In(own, Detached(t))
      /\ In(mine, Hand(t)) = {e} /\ In(mine, Held(t)) = In(own, Held(t)) \ {e}
  BY <1>2, <1>4, ApartAlone DEF In
<1> HIDE DEF mine
<1>7. /\ pc'[t] = "add_load" /\ entry'[t] = e /\ held'[t] = held[t] \ {e} /\ e # NULL
      /\ UNCHANGED <<next, head, chain, seen>>
  BY <1>2, Numbers DEF AddCall, Goto, TypeOK, shared
<1>8. InHand(t)' = {e}
  BY <1>7 DEF InHand
<1>9. LocalInv(t)'
  BY <1>2, <1>7 DEF LocalInv, AddCall
<1> QED BY <1>1, <1>2, <1>3, <1>5, <1>6, <1>7, <1>8, <1>9, StepKeeps

LEMMA AddLoadStep ==
    ASSUME IInv, NEW t \in Threads, AddLoad(t)
    PROVE  IInv'
<1>1. PICK own : Owner(own)
  BY DEF IInv
<1>2. /\ TypeOK /\ LocalInv(t) /\ own \in [Entries -> Places] /\ next \in Links
      /\ Chain(next, head, In(own, List)) /\ Chain(next, chain[t], In(own, Detached(t)))
      /\ InHand(t) = In(own, Hand(t)) /\ held[t] = In(own, Held(t))
      /\ entry[t] # NULL /\ In(own, Hand(t)) = {entry[t]} /\ chain[t] = NULL
  BY <1>1, Before DEF LocalInv, AddLoad
<1>3. /\ entry[t] \in Entries /\ head \in Pointer /\ chain[t] \in Pointer /\ own[entry[t]] = Hand(t)
  BY <1>2 DEF TypeOK, Pointer, In
<1>4. /\ pc'[t] = "add_cas" /\ seen'[t] = head /\ next' = [next EXCEPT ![entry[t]] = head]
      /\ UNCHANGED <<head, held, entry, chain>>
  BY <1>2 DEF AddLoad, Goto, TypeOK
<1>5. TypeOK' /\ next' \in Links
  BY <1>2, <1>3, Numbers DEF TypeOK, AddLoad, Goto, Links, budget
<1>6. \A e \in Entries : own[e] # Hand(t) => next'[e] = next[e]
  BY <1>2, <1>3, <1>4 DEF Links
<1>7. Quiet(t, own, own)
  BY <1>2, <1>3, <1>4, <1>6 DEF Quiet, AddLoad, Goto, TypeOK, OwnPlaces
<1>8. Chain(next', head, In(own, List)) /\ Chain(next', chain[t], In(own, Detached(t)))
  <2>1. \A e \in In(own, List) \union In(own, Detached(t)) : next'[e] = next[e]
    BY <1>6, ApartAlone DEF In
  <2> QED BY <1>2, <1>3, <1>5, <2>1, ChainKept
<1>9. InHand(t)' = InHand(t)
  BY <1>4 DEF InHand
<1>10. \A e \in held[t] : next'[e] = next[e]
  BY <1>2, <1>6, ApartAlone DEF In
<1>11. LocalInv(t)'
  BY <1>2, <1>3, <1>4, <1>10 DEF LocalInv, Links
<1> QED BY <1>1, <1>2, <1>4, <1>5, <1>7, <1>8, <1>9, <1>11, StepKeeps

LEMMA AddCasStep ==
    ASSUME IInv, NEW t \in Threads, AddCas(t)
    PROVE  IInv'
<1>1. PICK own : Owner(own)
  BY DEF IInv
<1>2. /\ TypeOK /\ LocalInv(t) /\ own \in [Entries -> Places] /\ next \in Links
      /\ Chain(next, head, In(own, List)) /\ Chain(next, chain[t], In(own, Detached(t)))
      /\ InHand(t) = In(own, Hand(t)) /\ held[t] = In(own, Held(t))
      /\ entry[t] # NULL /\ In(own, Hand(t)) = {entry[t]} /\ chain[t] = NULL
      /\ next[entry[t]] = seen[t]
  BY <1>1, Before DEF LocalInv, AddCas
<1>3. entry[t] \in Entries /\ own[entry[t]] = Hand(t) /\ head \in Pointer
  BY <1>2 DEF TypeOK, Pointer, In
<1>4. CASE head # seen[t]
  <2>1. TypeOK'
    BY <1>2, <1>4 DEF AddCas, Goto, TypeOK, budget
  <2>2. UNCHANGED <<head, next, entry, chain, held, seen>> /\ pc'[t] = "add_load"
        /\ \A u \in Threads \ {t} : pc'[u] = pc[u]
    BY <1>2, <1>4 DEF AddCas, Goto, TypeOK
  <2>3. LocalInv(t)'
    BY <1>2, <2>2 DEF LocalInv
  <2> QED BY <2>1, <2>2, <2>3, PlainStep
<1>5. CASE head = seen[t]
  <2> DEFINE mine == [own EXCEPT ![entry[t]] = List]
  <2>1. TypeOK'
    BY <1>2, <1>3, <1>5 DEF AddCas, Goto, TypeOK, budget, Pointer
  <2>2. /\ UNCHANGED <<next, chain, held, seen>> /\ pc'[t] = "idle"
        /\ head' = entry[t] /\ entry'[t] = NULL
        /\ \A u \in Threads \ {t} : pc'[u] = pc[u] /\ entry'[u] = entry[u]
    BY <1>2, <1>5 DEF AddCas, Goto, TypeOK
  <2>3. Quiet(t, own, mine)
    BY <1>2, <1>3, <2>2, ApartAlone DEF Quiet, OwnPlaces
  <2>4. /\ In(mine, List) = In(own, List) \union {entry[t]} /\ In(mine, Hand(t)) = {}
        /\ In(mine, Detached(t)) = In(own, Detached(t)) /\ In(mine, Held(t)) = In(own, Held(t))
        /\ entry[t] \notin In(own, List)
    BY <1>2, <1>3, ApartAlone DEF In
  <2> HIDE DEF mine
  <2>5. Chain(next, entry[t], In(own, List) \union {entry[t]})
    BY <1>2, <1>3, <1>5, <2>4, ChainPush
  <2>6. InHand(t)' = {}
    BY <2>2 DEF InHand
  <2>7. LocalInv(t)'
    BY <1>2, <2>2 DEF LocalInv
  <2> QED BY <1>1, <1>2, <2>1, <2>2, <2>3, <2>4, <2>5, <2>6, <2>7, StepKeeps
<1> QED BY <1>4, <1>5

LEMMA RemoveCallStep ==
    ASSUME IInv, NEW t \in Threads, RemoveAllCall(t) \/ RemoveOneCall(t)
    PROVE  IInv'
<1>1. TypeOK /\ LocalInv(t)
  BY DEF IInv
<1>2. TypeOK'
  BY <1>1, ListAssumption DEF RemoveAllCall, RemoveOneCall, Goto, TypeOK, shared
<1>3. /\ UNCHANGED <<head, next, entry, chain, held, seen>> /\ pc[t] = "idle"
      /\ pc'[t] \in {"all_load", "one_load"} /\ \A u \in Threads \ {t} : pc'[u] = pc[u]
  BY <1>1 DEF RemoveAllCall, RemoveOneCall, Goto, TypeOK, shared
<1>4. LocalInv(t)'
  BY <1>1, <1>3 DEF LocalInv
<1> QED BY <1>2, <1>3, <1>4, PlainStep

LEMMA RemoveAllLoadStep ==
    ASSUME IInv, NEW t \in Threads, RemoveAllLoad(t)
    PROVE  IInv'
<1>1. TypeOK /\ LocalInv(t)
  BY DEF IInv
<1>2. TypeOK'
  BY <1>1 DEF RemoveAllLoad, Goto, TypeOK, shared, budget
<1>3. /\ UNCHANGED <<head, next, entry, chain, held>> /\ pc[t] = "all_load" /\ seen'[t] = head
      /\ pc'[t] = IF head = NULL THEN "idle" ELSE "all_cas"
      /\ \A u \in Threads \ {t} : pc'[u] = pc[u] /\ seen'[u] = seen[u]
  BY <1>1 DEF RemoveAllLoad, Goto, TypeOK, shared
<1>4. LocalInv(t)'
  BY <1>1, <1>3 DEF LocalInv
<1> QED BY <1>2, <1>3, <1>4, PlainStep

LEMMA RemoveAllCasStep ==
    ASSUME IInv, NEW t \in Threads, RemoveAllCas(t)
    PROVE  IInv'
<1>1. PICK own : Owner(own)
  BY DEF IInv
<1>2. /\ TypeOK /\ LocalInv(t) /\ own \in [Entries -> Places] /\ next \in Links
      /\ Chain(next, head, In(own, List)) /\ Chain(next, chain[t], In(own, Detached(t)))
      /\ InHand(t) = In(own, Hand(t)) /\ held[t] = In(own, Held(t))
      /\ entry[t] = NULL /\ chain[t] = NULL /\ In(own, Hand(t)) = {} /\ In(own, Detached(t)) = {}
  BY <1>1, Before DEF LocalInv, RemoveAllCas
<1>3. CASE WeakCasFails(seen[t]) /\ Goto(t, "all_load") /\ UNCHANGED <<held, next>>
  <2>1. TypeOK'
    BY <1>2, <1>3, ListAssumption DEF RemoveAllCas, WeakCasFails, Goto, TypeOK
  <2>2. /\ UNCHANGED <<head, next, entry, chain, held, seen>> /\ pc'[t] = "all_load"
        /\ \A u \in Threads \ {t} : pc'[u] = pc[u]
    BY <1>2, <1>3 DEF RemoveAllCas, WeakCasFails, Goto, TypeOK
  <2>3. LocalInv(t)'
    BY <1>2, <2>2 DEF LocalInv
  <2> QED BY <2>1, <2>2, <2>3, PlainStep
<1>4. CASE /\ WeakCas(seen[t], NULL)
           /\ held' = [held EXCEPT ![t] = @ \union Members(seen[t])]
           /\ next' = [e \in Entries |-> IF e \in Members(seen[t]) THEN NULL ELSE next[e]]
           /\ Goto(t, "idle")
  <2>1. head = seen[t] /\ Members(seen[t]) = In(own, List)
    BY <1>2, <1>4, WalksAgree DEF WeakCas, Chain
  <2> DEFINE mine == [e \in Entries |-> IF own[e] = List THEN Held(t) ELSE own[e]]
  <2>2. /\ head' = NULL /\ UNCHANGED <<seen, entry, chain>> /\ pc'[t] = "idle"
        /\ held'[t] = held[t] \union In(own, List)
        /\ next' = [e \in Entries |-> IF e \in In(own, List) THEN NULL ELSE next[e]]
        /\ \A u \in Threads \ {t} : pc'[u] = pc[u] /\ held'[u] = held[u]
    BY <1>2, <1>4, <2>1 DEF RemoveAllCas, WeakCas, Goto, TypeOK
  <2>3. TypeOK' /\ next' \in Links
    <3>1. In(own, List) \subseteq Entries
      BY DEF In
    <3>2. held' \in [Threads -> SUBSET Entries]
      BY <1>2, <1>4, <2>1, <3>1 DEF TypeOK
    <3>3. next' \in [Entries -> Pointer]
      BY <1>2, <2>2 DEF TypeOK, Pointer
    <3> QED BY <1>2, <1>4, <2>2, <3>2, <3>3 DEF RemoveAllCas, WeakCas, Goto, TypeOK, Links, Pointer
  <2>4. Quiet(t, own, mine)
    BY <1>2, <2>2, ApartAlone DEF Quiet, OwnPlaces, In
  <2>5. /\ In(mine, List) = {} /\ In(mine, Hand(t)) = {} /\ In(mine, Detached(t)) = {}
        /\ In(mine, Held(t)) = In(own, Held(t)) \union In(own, List)
    BY <1>2, ApartAlone DEF In
  <2> HIDE DEF mine
  <2>6. Chain(next', NULL, {})
    BY <2>3, EmptyChain
  <2>7. InHand(t)' = {}
    BY <1>2, <2>2 DEF InHand
  <2>8. LocalInv(t)'
    <3>1. \A e \in held'[t] : next'[e] = NULL
      BY <1>2, <2>2 DEF LocalInv, TypeOK, In
    <3> QED BY <1>2, <2>2, <3>1 DEF LocalInv
  <2> QED BY <1>1, <1>2, <2>2, <2>3, <2>4, <2>5, <2>6, <2>7, <2>8, StepKeeps
<1> QED BY <1>3, <1>4 DEF RemoveAllCas

(* An entry e and the chain c behind it, both of the list or of the thread *)
(* before, become what remove_one puts back, or what it returns.           *)
LEMMA OneDoneStep ==
    ASSUME IInv, TypeOK', NEW t \in Threads, NEW own, Owner(own), NEW e \in Entries,
           NEW c \in Pointer, NEW M, OneDone(t, e, c),
           seen'[t] \in Pointer, \A u \in Threads \ {t} : seen'[u] = seen[u],
           next' \in Links, next'[e] = NULL, Chain(next', c, M), e \notin M,
           \A d \in Entries : next'[d] # next[d] => own[d] \in {List, Detached(t), Hand(t)},
           \/ head' = head /\ M \union {e} = In(own, Detached(t)) \union In(own, Hand(t))
              /\ \A d \in In(own, List) : next'[d] = next[d]
           \/ head' = NULL
              /\ M \union {e} = In(own, List) \union In(own, Detached(t)) \union In(own, Hand(t))
    PROVE  IInv'
<1>1. /\ TypeOK /\ LocalInv(t) /\ own \in [Entries -> Places] /\ next \in Links
      /\ Chain(next, head, In(own, List)) /\ held[t] = In(own, Held(t))
      /\ head \in Pointer
  BY Before DEF TypeOK
<1>2. e # NULL
  BY Numbers
<1>3. /\ entry'[t] = (IF c = NULL THEN NULL ELSE e) /\ chain'[t] = c
      /\ held'[t] = (IF c = NULL THEN held[t] \union {e} ELSE held[t])
      /\ pc'[t] = (IF c = NULL THEN "idle" ELSE "one_put")
      /\ \A u \in Threads \ {t} : /\ pc'[u] = pc[u] /\ entry'[u] = entry[u]
                                  /\ chain'[u] = chain[u] /\ held'[u] = held[u]
  <2>1. /\ entry' = [entry EXCEPT ![t] = IF c = NULL THEN NULL ELSE e]
        /\ chain' = [chain EXCEPT ![t] = c]
        /\ held' = [held EXCEPT ![t] = IF c = NULL THEN @ \union ({e} \ {NULL}) ELSE @]
        /\ pc' = [pc EXCEPT ![t] = IF c = NULL THEN "idle" ELSE "one_put"]
    BY DEF OneDone, Goto
  <2>2. /\ DOMAIN entry = Threads /\ DOMAIN chain = Threads /\ DOMAIN held = Threads
        /\ DOMAIN pc = Threads
    BY <1>1 DEF TypeOK
  <2>3. {e} \ {NULL} = {e}
    BY <1>2
  <2>4. held'[t] = (IF c = NULL THEN held[t] \union {e} ELSE held[t])
    BY <2>1, <2>2, <2>3
  <2>5. \A u \in Threads \ {t} : /\ pc'[u] = pc[u] /\ entry'[u] = entry[u]
                                 /\ chain'[u] = chain[u] /\ held'[u] = held[u]
    BY <2>1, <2>2
  <2> QED BY <2>1, <2>2, <2>4, <2>5
<1>4. M \in SUBSET Entries /\ (c = NULL => M = {})
  BY ChainFacts
<1> DEFINE mine == [d \in Entries |-> IF d \in M THEN Detached(t)
                                      ELSE IF d = e THEN IF c = NULL THEN Held(t) ELSE Hand(t)
                                      ELSE own[d]]
<1>5. \A d \in M \union {e} : own[d] \in {List, Detached(t), Hand(t)}
  BY DEF In
<1>6. Quiet(t, own, mine)
  <2>1. mine \in [Entries -> Places]
    BY <1>1, ApartAlone DEF OwnPlaces
  <2>2. \A d \in Entries : mine[d] # own[d] => own[d] \in OwnPlaces(t) /\ mine[d] \in OwnPlaces(t)
    BY <1>5 DEF OwnPlaces
  <2>3. \A d \in Entries : next'[d] # next[d] => own[d] \in OwnPlaces(t)
    BY DEF OwnPlaces
  <2> QED BY <1>3, <2>1, <2>2, <2>3 DEF Quiet
<1>7. /\ In(mine, Detached(t)) = M
      /\ In(mine, Hand(t)) = (IF c = NULL THEN {} ELSE {e})
      /\ In(mine, Held(t)) = (IF c = NULL THEN held[t] \union {e} ELSE held[t])
  <2>1. ASSUME NEW d \in Entries
        PROVE  /\ mine[d] = Detached(t) <=> d \in M
               /\ mine[d] = Hand(t) <=> (d = e /\ c # NULL)
               /\ mine[d] = Held(t) <=> (d \in held[t] \/ (d = e /\ c = NULL))
    <3>1. d \in M \union {e} => mine[d] # own[d] \/ own[d] \in {Detached(t), Hand(t)}
      BY <1>5, ApartAlone
    <3>2. d \notin M \union {e} => own[d] \notin {Detached(t), Hand(t)} /\ mine[d] = own[d]
      BY DEF In
    <3>3. d \in held[t] <=> own[d] = Held(t)
      BY <1>1 DEF In
    <3>4. Detached(t) # Hand(t) /\ Detached(t) # Held(t) /\ Hand(t) # Held(t) /\ List # Held(t)
      BY ApartAlone
    <3>5. CASE d \in M
      BY <1>5, <3>3, <3>4, <3>5
    <3>6. CASE d = e
      BY <1>5, <3>3, <3>4, <3>6
    <3>7. CASE d \notin M \union {e}
      BY <3>2, <3>3, <3>4, <3>7
    <3> QED BY <3>5, <3>6, <3>7
  <2>2. held[t] \subseteq Entries
    BY <1>1 DEF TypeOK
  <2> HIDE DEF mine
  <2> QED BY <1>4, <2>1, <2>2 DEF In
<1>8. Chain(next', head', In(mine, List))
  <2>1. CASE /\ head' = head /\ M \union {e} = In(own, Detached(t)) \union In(own, Hand(t))
             /\ \A d \in In(own, List) : next'[d] = next[d]
    <3>1. ASSUME NEW d \in Entries PROVE mine[d] = List <=> own[d] = List
      <4>1. CASE d \in M \union {e}
        BY <2>1, <4>1, ApartAlone DEF In
      <4>2. CASE d \notin M \union {e}
        BY <4>2
      <4> QED BY <4>1, <4>2
    <3> HIDE DEF mine
    <3>2. In(mine, List) = In(own, List)
      BY <3>1 DEF In
    <3> QED BY <1>1, <2>1, <3>2, ChainKept
  <2>2. CASE /\ head' = NULL
             /\ M \union {e} = In(own, List) \union In(own, Detached(t)) \union In(own, Hand(t))
    <3>1. ASSUME NEW d \in Entries PROVE mine[d] # List
      BY <2>2, ApartAlone DEF In
    <3>2. In(mine, List) = {}
      BY <3>1 DEF In
    <3> QED BY <2>2, <3>2, EmptyChain
  <2> QED BY <2>1, <2>2
<1> HIDE DEF mine
<1>9. InHand(t)' = In(mine, Hand(t)) /\ held'[t] = In(mine, Held(t))
  BY <1>2, <1>3, <1>7 DEF InHand
<1>10. LocalInv(t)'
  <2>1. \A d \in held[t] : next'[d] = next[d]
    BY <1>1, ApartAlone DEF In
  <2> QED BY <1>1, <1>2, <1>3, <2>1 DEF LocalInv
<1> QED BY <1>3, <1>6, <1>7, <1>8, <1>9, <1>10, StepKeeps

LEMMA OneLoadStep ==
    ASSUME IInv, NEW t \in Threads, OneLoad(t)
    PROVE  IInv'
<1>1. PICK own : Owner(own)
  BY DEF IInv
<1>2. /\ TypeOK /\ LocalInv(t) /\ own \in [Entries -> Places] /\ next \in Links
      /\ Chain(next, chain[t], In(own, Detached(t)))
      /\ InHand(t) = In(own, Hand(t)) /\ (entry[t] # NULL => In(own, Hand(t)) = {entry[t]})
      /\ pc[t] = "one_load" /\ UNCHANGED <<head, next>> /\ chain[t] \in Pointer
      /\ seen'[t] = head /\ \A u \in Threads \ {t} : seen'[u] = seen[u]
  BY <1>1, Before DEF OneLoad, TypeOK, shared
<1>3. CASE head # NULL
  <2>1. TypeOK'
    BY <1>2, <1>3 DEF OneLoad, OneDone, Goto, TypeOK, shared, budget
  <2>2. UNCHANGED <<entry, chain, held>> /\ pc'[t] = "one_cas" /\ \A u \in Threads \ {t} : pc'[u] = pc[u]
    BY <1>2, <1>3 DEF OneLoad, Goto, TypeOK
  <2>3. LocalInv(t)'
    BY <1>2, <1>3, <2>2 DEF LocalInv
  <2> QED BY <1>2, <2>1, <2>2, <2>3, PlainStep
<1>4. CASE head = NULL /\ entry[t] = NULL
  <2>1. chain[t] = NULL /\ OneDone(t, NULL, NULL)
    BY <1>2, <1>4 DEF OneLoad, LocalInv
  <2>2. /\ entry' = [entry EXCEPT ![t] = NULL] /\ chain' = [chain EXCEPT ![t] = NULL]
        /\ held' = [held EXCEPT ![t] = @ \union ({NULL} \ {NULL})]
        /\ pc' = [pc EXCEPT ![t] = "idle"]
    BY <2>1 DEF OneDone, Goto
  <2>3. UNCHANGED <<entry, chain, held>>
    <3>1. held[t] \union ({NULL} \ {NULL}) = held[t]
      OBVIOUS
    <3>2. held' = [held EXCEPT ![t] = held[t]]
      BY <1>2, <2>2, <3>1
    <3>3. held' = held
      BY <1>2, <3>2 DEF TypeOK
    <3>4. entry' = entry /\ chain' = chain
      BY <1>2, <1>4, <2>1, <2>2 DEF TypeOK
    <3> QED BY <3>3, <3>4
  <2>4. TypeOK' /\ pc'[t] = "idle" /\ \A u \in Threads \ {t} : pc'[u] = pc[u]
    BY <1>2, <1>4, <2>2, <2>3 DEF OneLoad, TypeOK, shared, budget
  <2>5. LocalInv(t)'
    BY <1>2, <1>4, <2>1, <2>3, <2>4 DEF LocalInv
  <2> QED BY <1>2, <2>3, <2>4, <2>5, PlainStep
<1>5. CASE head = NULL /\ entry[t] # NULL
  <2>1. OneDone(t, entry[t], chain[t]) /\ entry[t] \in Entries /\ next[entry[t]] = NULL
    BY <1>2, <1>5 DEF OneLoad, LocalInv, TypeOK, Pointer
  <2>2. TypeOK'
    BY <1>2, <2>1 DEF OneLoad, OneDone, Goto, TypeOK, shared, budget, Pointer
  <2>3. entry[t] \notin In(own, Detached(t))
    BY <1>2, <1>5, ApartAlone DEF In
  <2>4. In(own, Detached(t)) \union {entry[t]} = In(own, Detached(t)) \union In(own, Hand(t))
    BY <1>2, <1>5
  <2>5. seen'[t] \in Pointer /\ next' \in Links /\ next'[entry[t]] = NULL
        /\ Chain(next', chain[t], In(own, Detached(t)))
    BY <1>2, <2>1, <2>2 DEF TypeOK
  <2> QED BY <1>1, <1>2, <2>1, <2>2, <2>3, <2>4, <2>5, OneDoneStep
<1> QED BY <1>3, <1>4, <1>5

LEMMA OneCasStep ==
    ASSUME IInv, NEW t \in Threads, OneCas(t)
    PROVE  IInv'
<1>1. PICK own : Owner(own)
  BY DEF IInv
<1>2. /\ TypeOK /\ LocalInv(t) /\ own \in [Entries -> Places] /\ next \in Links
      /\ Chain(next, head, In(own, List)) /\ Chain(next, chain[t], In(own, Detached(t)))
      /\ chain[t] = NULL => In(own, Detached(t)) = {}
      /\ entry[t] = NULL => In(own, Hand(t)) = {}
      /\ entry[t] # NULL => In(own, Hand(t)) = {entry[t]}
      /\ pc[t] = "one_cas" /\ seen[t] \in Entries /\ UNCHANGED seen
      /\ entry[t] = NULL <=> chain[t] = NULL
      /\ chain[t] \in Pointer /\ entry[t] \in Pointer
  BY <1>1, Before DEF OneCas, LocalInv, TypeOK, Pointer
<1>3. CASE WeakCasFails(seen[t]) /\ Goto(t, "one_load") /\ UNCHANGED <<next, held, entry, chain>>
  <2>1. TypeOK'
    BY <1>2, <1>3, ListAssumption DEF OneCas, WeakCasFails, Goto, TypeOK
  <2>2. /\ UNCHANGED <<head, next, entry, chain, held, seen>> /\ pc'[t] = "one_load"
        /\ \A u \in Threads \ {t} : pc'[u] = pc[u]
    BY <1>2, <1>3 DEF WeakCasFails, Goto, TypeOK
  <2>3. LocalInv(t)'
    BY <1>2, <2>2 DEF LocalInv
  <2> QED BY <2>1, <2>2, <2>3, PlainStep
<1>4. CASE /\ WeakCas(seen[t], NULL) /\ entry[t] = NULL
           /\ next' = [next EXCEPT ![seen[t]] = NULL]
           /\ OneDone(t, seen[t], next[seen[t]])
  <2> DEFINE L == In(own, List)
  <2>0. PICK e \in Entries, c \in Pointer : e = seen[t] /\ c = next[e]
    BY <1>2 DEF Links
  <2>1. /\ head = e /\ head' = NULL /\ e \in Entries /\ c \in Pointer /\ c = next[e] /\ e = seen[t]
        /\ OneDone(t, e, c)
    BY <1>2, <1>4, <2>0 DEF WeakCas
  <2>2. Chain(next, c, L \ {e}) /\ e \in L /\ e \notin L \ {e}
    BY <1>2, <2>1, ChainRest
  <2>3. next' \in Links /\ next'[e] = NULL /\ \A d \in Entries \ {e} : next'[d] = next[d]
    BY <1>2, <1>4, <2>1, Numbers DEF Links, Pointer
  <2>4. L \subseteq Entries
    BY DEF In
  <2>5. Chain(next', c, L \ {e})
    BY <1>2, <2>1, <2>2, <2>3, <2>4, ChainKept
  <2>6. TypeOK'
    BY <1>2, <1>4, <2>1, <2>3, Numbers DEF OneCas, OneDone, WeakCas, Goto, TypeOK, Links, Pointer
  <2>7. \A d \in Entries : next'[d] # next[d] => own[d] \in {List, Detached(t), Hand(t)}
    BY <2>2, <2>3 DEF In
  <2>8. (L \ {e}) \union {e} = L \union In(own, Detached(t)) \union In(own, Hand(t))
    BY <1>2, <1>4, <2>2
  <2>9. seen'[t] \in Pointer /\ \A u \in Threads \ {t} : seen'[u] = seen[u]
    BY <1>2 DEF Pointer
  <2> QED BY <1>1, <2>1, <2>2, <2>3, <2>5, <2>6, <2>7, <2>8, <2>9, OneDoneStep
<1>5. CASE /\ WeakCas(seen[t], NULL) /\ entry[t] # NULL
           /\ next' = [next EXCEPT ![Tail(seen[t])] = chain[t]]
           /\ OneDone(t, entry[t], seen[t])
  <2> DEFINE L == In(own, List)
             C == In(own, Detached(t))
             s == seen[t]
             c == chain[t]
             h == entry[t]
  <2>1. /\ head = s /\ head' = NULL /\ s \in Entries /\ s \in Pointer /\ c \in Entries /\ h \in Entries
        /\ Chain(next, s, L) /\ Chain(next, c, C)
    BY <1>2, <1>5 DEF WeakCas, Pointer
  <2>2. PICK e : e = Tail(s) /\ e \in L /\ next[e] = NULL
    <3>1. \E d \in L : next[d] = NULL
      BY <1>2, <2>1, ChainTail
    <3>2. Members(s) = L
      BY <2>1, WalksAgree DEF Chain
    <3> QED BY <3>1, <3>2 DEF Tail
  <2>3. L \intersect C = {} /\ h \notin L \union C /\ L \subseteq Entries /\ own[h] = Hand(t)
    BY <1>2, <1>5, ApartAlone DEF In
  <2>4. Chain([next EXCEPT ![e] = c], s, L \union C)
    BY <1>2, <2>1, <2>2, <2>3, ChainAppended
  <2>5. /\ next' = [next EXCEPT ![e] = c] /\ next' \in Links
        /\ \A d \in Entries \ {e} : next'[d] = next[d]
    BY <1>2, <1>5, <2>1, <2>2 DEF Links, Pointer
  <2>6. next'[h] = NULL
    BY <1>2, <1>5, <2>2, <2>3, <2>5 DEF LocalInv
  <2>7. TypeOK'
    BY <1>2, <1>5, <2>1, <2>5, Numbers DEF OneCas, OneDone, WeakCas, Goto, TypeOK, Links, Pointer
  <2>8. \A d \in Entries : next'[d] # next[d] => own[d] \in {List, Detached(t), Hand(t)}
    BY <2>2, <2>5 DEF In
  <2>9. (L \union C) \union {h} = L \union C \union In(own, Hand(t))
    BY <1>2, <1>5
  <2>10. Chain(next', s, L \union C)
    BY <2>4, <2>5
  <2> QED BY <1>1, <1>2, <1>5, <2>1, <2>3, <2>5, <2>6, <2>7, <2>8, <2>9, <2>10, OneDoneStep
<1> QED BY <1>3, <1>4, <1>5 DEF OneCas

LEMMA OnePutStep ==
    ASSUME IInv, NEW t \in Threads, OnePut(t)
    PROVE  IInv'
<1>1. PICK own : Owner(own)
  BY DEF IInv
<1>2. /\ TypeOK /\ LocalInv(t) /\ own \in [Entries -> Places] /\ next \in Links
      /\ Chain(next, head, In(own, List)) /\ Chain(next, chain[t], In(own, Detached(t)))
      /\ held[t] = In(own, Held(t)) /\ In(own, Hand(t)) = {entry[t]}
      /\ head = NULL => In(own, List) = {}
      /\ entry[t] \in Entries /\ next[entry[t]] = NULL
      /\ pc[t] = "one_put" /\ UNCHANGED <<next, seen>>
  BY <1>1, Before DEF OnePut, LocalInv, TypeOK, Pointer
<1>3. CASE WeakCasFails(NULL) /\ Goto(t, "one_load") /\ UNCHANGED <<chain, entry, held>>
  <2>1. TypeOK'
    BY <1>2, <1>3, ListAssumption DEF OnePut, WeakCasFails, Goto, TypeOK
  <2>2. /\ UNCHANGED <<head, next, entry, chain, held, seen>> /\ pc'[t] = "one_load"
        /\ \A u \in Threads \ {t} : pc'[u] = pc[u]
    BY <1>2, <1>3 DEF WeakCasFails, Goto, TypeOK
  <2>3. LocalInv(t)'
    BY <1>2, <2>2 DEF LocalInv
  <2> QED BY <2>1, <2>2, <2>3, PlainStep
<1>4. CASE /\ WeakCas(NULL, chain[t])
           /\ chain' = [chain EXCEPT ![t] = NULL]
           /\ entry' = [entry EXCEPT ![t] = NULL]
           /\ held' = [held EXCEPT ![t] = @ \union {entry[t]}]
           /\ Goto(t, "idle")
  <2> DEFINE mine == [d \in Entries |-> IF own[d] = Detached(t) THEN List
                                        ELSE IF own[d] = Hand(t) THEN Held(t) ELSE own[d]]
  <2>1. TypeOK'
    BY <1>2, <1>4 DEF OnePut, WeakCas, Goto, TypeOK, Pointer
  <2>2. /\ head = NULL /\ head' = chain[t] /\ chain'[t] = NULL /\ entry'[t] = NULL
        /\ held'[t] = held[t] \union {entry[t]} /\ pc'[t] = "idle"
        /\ \A u \in Threads \ {t} : /\ pc'[u] = pc[u] /\ entry'[u] = entry[u]
                                    /\ chain'[u] = chain[u] /\ held'[u] = held[u]
    BY <1>2, <1>4 DEF WeakCas, Goto, TypeOK
  <2>3. Quiet(t, own, mine)
    BY <1>2, <2>2, ApartAlone DEF Quiet, OwnPlaces
  <2>4. /\ In(mine, List) = In(own, List) \union In(own, Detached(t))
        /\ In(mine, Hand(t)) = {} /\ In(mine, Detached(t)) = {}
        /\ In(mine, Held(t)) = In(own, Held(t)) \union In(own, Hand(t))
    BY <1>2, ApartAlone DEF In
  <2> HIDE DEF mine
  <2>5. In(mine, List) = In(own, Detached(t))
    BY <1>2, <2>2, <2>4
  <2>6. Chain(next', NULL, {})
    BY <1>2, EmptyChain
  <2>7. InHand(t)' = {}
    BY <2>2 DEF InHand
  <2>8. LocalInv(t)'
    BY <1>2, <2>2 DEF LocalInv
  <2> QED BY <1>1, <1>2, <2>1, <2>2, <2>3, <2>4, <2>5, <2>6, <2>7, <2>8, StepKeeps
<1> QED BY <1>3, <1>4 DEF OnePut

LEMMA InitIInv == Init => IInv
<1> SUFFICES ASSUME Init PROVE IInv
  OBVIOUS
<1>1. PICK f \in [Entries -> Threads] : held = [t \in Threads |-> {e \in Entries : f[e] = t}]
  BY DEF Init
<1> DEFINE own == [e \in Entries |-> Held(f[e])]
<1>2. TypeOK /\ next \in Links
  BY <1>1, ListAssumption DEF Init, TypeOK, Pointer, Links
<1>3. own \in [Entries -> Places]
  BY ApartAlone DEF OwnPlaces
<1>4. In(own, List) = {}
  BY ApartAlone DEF In
<1>5. ASSUME NEW t \in Threads
      PROVE  In(own, Detached(t)) = {} /\ In(own, Hand(t)) = {} /\ In(own, Held(t)) = held[t]
  BY <1>1 DEF In, Detached, Hand, Held
<1> HIDE DEF own
<1>6. Chain(next, NULL, {})
  BY <1>2, EmptyChain
<1>7. Owner(own)
  BY <1>3, <1>4, <1>5, <1>6 DEF Owner, Init, InHand
<1>8. \A t \in Threads : LocalInv(t)
  BY <1>1 DEF Init, LocalInv
<1> QED BY <1>2, <1>7, <1>8 DEF IInv

LEMMA NextIInv == IInv /\ [Next]_vars => IInv'
<1> SUFFICES ASSUME IInv, [Next]_vars PROVE IInv'
  OBVIOUS
<1>1. ASSUME NEW t \in Threads, Begin(t) PROVE IInv'
  BY <1>1, AddCallStep, RemoveCallStep DEF Begin
<1>2. ASSUME NEW t \in Threads, Step(t) PROVE IInv'
  BY <1>2, AddLoadStep, AddCasStep, RemoveAllLoadStep, RemoveAllCasStep, OneLoadStep,
     OneCasStep, OnePutStep DEF Step
<1>3. CASE UNCHANGED vars
  <2>1. PICK own : Owner(own)
    BY DEF IInv
  <2>2. Owner(own)'
    BY <1>3, <2>1 DEF Owner, InHand, vars
  <2>3. TypeOK' /\ \A t \in Threads : LocalInv(t)'
    BY <1>3 DEF IInv, TypeOK, LocalInv, vars
  <2> QED BY <2>2, <2>3 DEF IInv
<1> QED BY <1>1, <1>2, <1>3 DEF Next

(* The inductive invariant: the entries have owners, and the list and the  *)
(* detached chains are made of exactly the entries that are theirs.        *)
THEOREM Invariance == Spec => []IInv
<1>1. Init => IInv
  BY InitIInv
<1>2. IInv /\ [Next]_vars => IInv'
  BY NextIInv
<1> QED BY <1>1, <1>2, PTL DEF Spec

(* Every entry is in one place, in the list, in one detached chain, or     *)
(* with one thread, whatever adds and removes overlap: the compare-and-    *)
(* swap loops of _mulle_concurrent_linkedlist_add, _remove_all and         *)
(* _remove_one lose no entry and return none twice.                        *)
THEOREM Accounted == Spec => []EntriesAccounted
<1>1. IInv => EntriesAccounted
  <2> SUFFICES ASSUME IInv PROVE EntriesAccounted
    OBVIOUS
  <2>1. PICK own : Owner(own)
    BY DEF IInv
  <2>2. ASSUME NEW e \in Entries
        PROVE  Cardinality({<<"list", 0>> : x \in {y \in {1} : e \in Members(head)}}
                 \union {<<"chain", t>> : t \in {u \in Threads : e \in Members(chain[u])}}
                 \union {<<"hand", t>> : t \in {u \in Threads : e \in InHand(u)}}
                 \union {<<"held", t>> : t \in {u \in Threads : e \in held[u]}}) = 1
    <3> DEFINE places == {<<"list", 0>> : x \in {y \in {1} : e \in Members(head)}}
                 \union {<<"chain", t>> : t \in {u \in Threads : e \in Members(chain[u])}}
                 \union {<<"hand", t>> : t \in {u \in Threads : e \in InHand(u)}}
                 \union {<<"held", t>> : t \in {u \in Threads : e \in held[u]}}
    <3>1. e \in Members(head) <=> own[e] = List
      BY <2>1, WalksAgree DEF Owner, Chain, In
    <3>2. ASSUME NEW t \in Threads
          PROVE  /\ e \in Members(chain[t]) <=> own[e] = Detached(t)
                 /\ e \in InHand(t) <=> own[e] = Hand(t)
                 /\ e \in held[t] <=> own[e] = Held(t)
      BY <2>1, WalksAgree DEF Owner, Chain, In
    <3>3. own[e] \in Places
      BY <2>1 DEF Owner
    <3>4. places \subseteq {own[e]}
      BY <3>1, <3>2 DEF List, Detached, Hand, Held
    <3>5. own[e] \in places
      <4>1. CASE own[e] = List
        BY <3>1, <4>1 DEF List
      <4>2. CASE own[e] # List
        <5>1. PICK t \in Threads : own[e] \in {Detached(t), Hand(t), Held(t)}
          BY <3>3, <4>2 DEF Places
        <5> QED BY <3>2, <5>1 DEF Detached, Hand, Held
      <4> QED BY <4>1, <4>2
    <3>6. places = {own[e]}
      BY <3>4, <3>5
    <3> HIDE DEF places
    <3>7. Cardinality(places) = 1
      BY <3>6, FS_Singleton
    <3> QED BY <3>7 DEF places
  <2> QED BY <2>2 DEF EntriesAccounted, IInv
<1> QED BY <1>1, Invariance, PTL

(* The list and the detached chains end, and what a caller has is not      *)
(* linked: no interleaving makes a cycle, and the asserts at the start of  *)
(* _mulle_concurrent_linkedlist_add hold.                                  *)
THEOREM NoCycle == Spec => []ChainsEnd
<1>1. IInv => ChainsEnd
  <2> SUFFICES ASSUME IInv PROVE ChainsEnd
    OBVIOUS
  <2>1. PICK own : Owner(own)
    BY DEF IInv
  <2>2. Walk(head)[Cardinality(Entries)] = NULL
    BY <2>1, WalksAgree DEF Owner, Chain, EndsOf
  <2>3. ASSUME NEW t \in Threads
        PROVE  /\ Walk(chain[t])[Cardinality(Entries)] = NULL
               /\ \A e \in held[t] : next[e] = NULL
               /\ pc[t] = "add_load" => head # entry[t]
    <3>1. Walk(chain[t])[Cardinality(Entries)] = NULL
      BY <2>1, WalksAgree DEF Owner, Chain, EndsOf
    <3>2. \A e \in held[t] : next[e] = NULL
      BY DEF IInv, LocalInv
    <3>3. ASSUME pc[t] = "add_load", head = entry[t] PROVE FALSE
      <4>1. /\ entry[t] # NULL /\ In(own, Hand(t)) = {entry[t]} /\ next \in Links
            /\ Chain(next, head, In(own, List)) /\ head \in Pointer
        BY <2>1, <3>3, Before DEF IInv, LocalInv, TypeOK
      <4>2. head \in In(own, List)
        BY <3>3, <4>1, ChainFacts
      <4> QED BY <3>3, <4>1, <4>2, ApartAlone DEF In
    <3> QED BY <3>1, <3>2, <3>3
  <2> QED BY <2>2, <2>3 DEF ChainsEnd
<1> QED BY <1>1, Invariance, PTL

(* A step links no entry that is in the hands of another thread, nor one   *)
(* that stays in the list.                                                 *)
OwnersLink ==
    /\ head' = head => \A e \in Members(head) : next'[e] = next[e]
    /\ \E t \in Threads : \A u \in Threads \ {t} :
         \A e \in Members(chain[u]) \union InHand(u) \union held[u] : next'[e] = next[e]

LEMMA LinksOwn ==
    ASSUME IInv, NEW t \in Threads, Begin(t) \/ Step(t), NEW own, Owner(own)
    PROVE  /\ \A e \in Entries : next'[e] # next[e] => own[e] \in OwnPlaces(t)
           /\ head' = head => \A e \in In(own, List) : next'[e] = next[e]
<1>1. /\ TypeOK /\ LocalInv(t) /\ next \in Links /\ Chain(next, head, In(own, List))
      /\ entry[t] # NULL => In(own, Hand(t)) = {entry[t]}
      /\ Members(head) = In(own, List)
  BY Before, WalksAgree DEF Chain
<1>2. CASE next' = next
  BY <1>2
<1>3. CASE AddLoad(t)
  <2>1. entry[t] \in Entries /\ own[entry[t]] = Hand(t)
    BY <1>1, <1>3 DEF AddLoad, LocalInv, TypeOK, Pointer, In
  <2>2. \A e \in Entries \ {entry[t]} : next'[e] = next[e]
    BY <1>1, <1>3 DEF AddLoad, Links
  <2> QED BY <2>1, <2>2, ApartAlone DEF OwnPlaces, In
<1>4. CASE next' # next /\ (RemoveAllCas(t) \/ OneCas(t))
  <2>1. head = seen[t] /\ seen[t] # NULL /\ head' = NULL
    BY <1>1, <1>4 DEF RemoveAllCas, OneCas, WeakCas, LocalInv
  <2>2. head \in Entries /\ head \in Pointer /\ head \in In(own, List)
    BY <1>1, <2>1, ChainFacts DEF TypeOK, Pointer
  <2>3. PICK e \in In(own, List) : e = Tail(head)
    <3>1. \E d \in Members(head) : next[d] = NULL
      BY <1>1, <2>2, ChainTail
    <3> QED BY <1>1, <3>1 DEF Tail
  <2>4. \A d \in Entries : d \notin In(own, List) => next'[d] = next[d]
    BY <1>1, <1>4, <2>1, <2>2, <2>3 DEF RemoveAllCas, OneCas, Links
  <2> QED BY <2>1, <2>4 DEF OwnPlaces, In
<1>5. next' = next \/ AddLoad(t) \/ RemoveAllCas(t) \/ OneCas(t)
  BY DEF Begin, Step, AddCall, AddCas, RemoveAllCall, RemoveAllLoad, RemoveOneCall, OneLoad,
     OnePut, shared
<1> QED BY <1>2, <1>3, <1>4, <1>5

(* _next is a plain field, and is written without synchronization: only by *)
(* the one thread that has the entry, in _mulle_concurrent_linkedlist_add  *)
(* before it is in the list, and in the removes once the chain is out of   *)
(* it.  So an access of another thread never meets such a write.           *)
THEOREM LinksPrivate == Spec => [][OwnersLink]_vars
<1>1. IInv /\ [Next]_vars => [OwnersLink]_vars
  <2> SUFFICES ASSUME IInv, Next PROVE OwnersLink
    OBVIOUS
  <2>1. PICK t \in Threads : Begin(t) \/ Step(t)
    BY DEF Next
  <2>2. PICK own : Owner(own)
    BY DEF IInv
  <2>3. /\ \A e \in Entries : next'[e] # next[e] => own[e] \in OwnPlaces(t)
        /\ head' = head => \A e \in In(own, List) : next'[e] = next[e]
    BY <2>1, <2>2, LinksOwn
  <2>4. Members(head) = In(own, List)
    BY <2>2, WalksAgree DEF Owner, Chain
  <2>5. ASSUME NEW u \in Threads \ {t}, NEW e \in Members(chain[u]) \union InHand(u) \union held[u]
        PROVE  next'[e] = next[e]
    <3>1. e \in Entries /\ own[e] \in {Detached(u), Hand(u), Held(u)}
      BY <2>2, WalksAgree DEF Owner, Chain, In
    <3> QED BY <2>3, <3>1, Apart
  <2> QED BY <2>3, <2>4, <2>5 DEF OwnersLink
<1> QED BY <1>1, Invariance, PTL DEF Spec
=============================================================================
