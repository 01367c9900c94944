-------------------- MODULE ConcurrentPointerArrayProofs --------------------
(***************************************************************************)
(* The pointerarray, for any threads, calls, sizes and number of           *)
(* migrations: a storage is retired only full, what is counted is filled,  *)
(* what is carried keeps its index, enumerators meet no hole, and the      *)
(* array implements AppendOnlyArray.                                       *)
(***************************************************************************)
EXTENDS ConcurrentPointerArray, Sequences, TLAPS

Words == Values \union {NULL, REDIRECT}

AllCalls == UNION {Calls[t] : t \in Threads}

Locals ==
    [call : AllCalls \union {Idle}, before : Nat, i : Nat, won : BOOLEAN,
     p : Gens, q : Gens, c : Nat, dst : Gens, value : Values \union {NULL},
     k : Nat, then : {"idle", "add_n", "freeze", "swap"}]

(* TypeOK, with what the types leave open. *)
TypeInv ==
    /\ storage \in Gens /\ next_storage \in Gens
    /\ n \in [Gens -> Nat] /\ \A g \in Gens : n[g] <= Size[g]
    /\ entries = [g \in Gens |-> entries[g]]
    /\ \A g \in Gens : entries[g] \in [Index(g) -> Words]
    /\ freed \in [Gens -> Nat]
    /\ pc \in [Threads -> Labels]
    /\ my \in [Threads -> Locals]
    /\ \A t \in Threads : my[t].call \in Calls[t] \union {Idle}
    /\ answer \in [Threads -> Values \union Nat \union {NULL, Idle}]
    /\ index \in [Threads -> Nat] /\ rindex \in [Threads -> Nat]
    /\ calls \in 0 .. MaxCalls

-----------------------------------------------------------------------------
(* Where a thread is in migrate_storage *)

Publishing(t) == pc[t] \in {"pub_n", "pub_entry", "pub_cas"}

Carrying(t) == pc[t] \in {"put", "follow", "freeze"} \/ (Publishing(t) /\ my[t].then = "freeze")

Carried(t) == pc[t] = "freeze" \/ (Publishing(t) /\ my[t].then = "freeze")

Copied(t) == pc[t] = "swap" \/ (Publishing(t) /\ my[t].then = "swap")

Migrating(t) == pc[t] = "copy" \/ Carrying(t) \/ Copied(t)

(* The next or prev of an enumerator that has seen a count above its index. *)
Covered(t) == my[t].call.op = "prev" \/ (my[t].call.op = "next" /\ my[t].won)

(* The storages: sizes grow, only the current one can have a successor and *)
(* has it only when full, and a storage that became current holds at least *)
(* its predecessor's elements.                                             *)
GenInv ==
    /\ \A g, h \in 0 .. next_storage : g <= h => Size[g] <= Size[h]
    /\ next_storage \in {storage, storage + 1}
    /\ \A g \in 0 .. storage - 1 :
         /\ freed[g] = IF Size[g] = 0 THEN 0 ELSE 1
         /\ n[g] = Size[g] /\ \A i \in Index(g) : entries[g][i] = REDIRECT
    /\ \A g \in storage .. MaxGen : freed[g] = 0
    /\ next_storage # storage => n[storage] = Size[storage]
    /\ \A g \in next_storage .. MaxGen : \A i \in Index(g) :
         entries[g][i] # NULL => g = next_storage /\ entries[g][i] # REDIRECT
    /\ \A g \in 1 .. storage : Size[g - 1] <= n[g]

(* The last two clauses of DensePrefix. *)
DenseInv ==
    /\ \A g \in Gens : \A i \in 0 .. n[g] - 1 : entries[g][i] # NULL
    /\ \A i \in Index(storage) :
         next_storage # storage =>
            /\ Element(i) \in Values
            /\ entries[next_storage][i] \in {NULL, Element(i)}

(* A migration that has begun is in some thread's hands until it is done. *)
MigratorInv ==
    next_storage # storage => \E t \in Threads : Migrating(t) /\ my[t].p = storage

-----------------------------------------------------------------------------
(* What a thread relies on, by where it is *)

CallAt(t) ==
    /\ my[t].p <= storage
    /\ pc[t] # "idle" => my[t].call \in Calls[t]
    /\ pc[t] \in {"add_n", "add_cas"} => my[t].call.op = "add"
    /\ pc[t] = "add_cas" => my[t].i < Size[my[t].p]
    /\ pc[t] = "get_entry" => my[t].i < n[my[t].p]
    /\ pc[t] \in {"migrate", "mig_next", "mig_alloc"} => n[my[t].p] = Size[my[t].p]

PublishAt(t) ==
    /\ Publishing(t) => my[t].dst <= next_storage
    /\ Publishing(t) /\ my[t].then \in {"idle", "add_n"} => my[t].call.op = "add"
    /\ pc[t] \in {"pub_entry", "pub_cas"} => my[t].k < Size[my[t].dst] /\ my[t].k <= n[my[t].dst]
    /\ pc[t] = "pub_cas" => entries[my[t].dst][my[t].k] # NULL

(* A copier: a stale one only ever finds slots that are frozen or have     *)
(* what it carries; one that is not stale has carried what it freezes.     *)
MigrateAt(t) ==
    /\ Migrating(t) =>
         /\ my[t].p < my[t].q /\ my[t].q <= next_storage
         /\ my[t].p < my[t].dst /\ my[t].dst <= next_storage
         /\ \A j \in 0 .. my[t].c - 1 : entries[my[t].p][j] = REDIRECT
    /\ pc[t] = "copy" \/ Carrying(t) => my[t].c < Size[my[t].p]
    /\ Carrying(t) => my[t].value \in Values /\ Element(my[t].c) = my[t].value
    /\ Carried(t) /\ my[t].p = storage => entries[next_storage][my[t].c] # NULL
    /\ Copied(t) => my[t].c = Size[my[t].p]
    /\ pc[t] = "swap" /\ my[t].p = storage => Size[my[t].p] <= n[next_storage]

EnumAt(t) ==
    /\ rindex[t] <= n[storage]
    /\ pc[t] # "idle" /\ Covered(t) => my[t].i < n[storage]
    /\ pc[t] \in {"get_n", "get_entry"} /\ Covered(t) => my[t].i < n[my[t].p]

ThreadAt(t) == CallAt(t) /\ PublishAt(t) /\ MigrateAt(t) /\ EnumAt(t)

(* The inductive invariant. *)
IInv == TypeInv /\ GenInv /\ DenseInv /\ MigratorInv /\ \A t \in Threads : ThreadAt(t)

-----------------------------------------------------------------------------
(* A slot number is a number, and a larger storage has it too. *)
LEMMA IndexType ==
    ASSUME NEW g \in Gens
    PROVE  Size[g] \in Nat /\ \A i : i \in Index(g) <=> i \in Nat /\ i < Size[g]
  BY PointerArrayAssumption DEF Index, Gens

(* The constants. *)
LEMMA ConstFacts ==
    /\ NULL \notin Values /\ REDIRECT \notin Values /\ NULL # REDIRECT
    /\ MaxGen \in Nat /\ MaxCalls \in Nat
    /\ Size \in [Gens -> Nat] /\ 0 \in Gens
  BY PointerArrayAssumption DEF Gens

(* The argument of a call. *)
LEMMA CallFacts ==
    ASSUME NEW t \in Threads, NEW c \in Calls[t]
    PROVE  /\ c.op \in {"add", "get", "count", "next", "prev"}
           /\ c.op = "add" => c.arg \in Values
           /\ c.op = "get" => c.arg \in 0 .. Size[MaxGen]
  BY PointerArrayAssumption

(* What a compare and swap of a slot does. *)
LEMMA CasFacts ==
    ASSUME TypeInv, NEW g \in Gens, NEW i \in Index(g), NEW new \in Words, NEW expect,
           CasEntry(g, i, new, expect)
    PROVE  /\ entries' = [h \in Gens |-> entries'[h]]
           /\ \A h \in Gens : entries'[h] \in [Index(h) -> Words]
           /\ entries'[g][i] = IF entries[g][i] = expect THEN new ELSE entries[g][i]
           /\ \A h \in Gens : \A j \in Index(h) :
                 h # g \/ j # i => entries'[h][j] = entries[h][j]
<1>1. entries' = [entries EXCEPT ![g] =
                    [entries[g] EXCEPT ![i] = IF entries[g][i] = expect THEN new ELSE entries[g][i]]]
  BY DEF CasEntry
<1>2. entries = [h \in Gens |-> entries[h]] /\ \A h \in Gens : entries[h] \in [Index(h) -> Words]
  BY DEF TypeInv
<1>3. entries[g][i] \in Words
  BY <1>2
<1>4. [entries[g] EXCEPT ![i] = IF entries[g][i] = expect THEN new ELSE entries[g][i]]
        \in [Index(g) -> Words]
  BY <1>2, <1>3
<1>5. entries' = [h \in Gens |-> entries'[h]] /\ \A h \in Gens \ {g} : entries'[h] = entries[h]
  BY <1>1, <1>2
<1>6. entries'[g] = [entries[g] EXCEPT ![i] = IF entries[g][i] = expect THEN new ELSE entries[g][i]]
  BY <1>1, <1>2
<1>7. \A h \in Gens : entries'[h] \in [Index(h) -> Words]
  BY <1>2, <1>4, <1>5, <1>6
<1>8. entries'[g][i] = IF entries[g][i] = expect THEN new ELSE entries[g][i]
  BY <1>2, <1>6
<1>9. ASSUME NEW h \in Gens, NEW j \in Index(h), h # g \/ j # i
      PROVE  entries'[h][j] = entries[h][j]
  <2>1. CASE h # g
    BY <1>5, <2>1
  <2>2. CASE h = g
    BY <1>2, <1>6, <1>9, <2>2
  <2> QED BY <2>1, <2>2
<1> QED BY <1>5, <1>7, <1>8, <1>9

LEMMA InitIInv == Init => IInv
<1> SUFFICES ASSUME Init PROVE IInv
  OBVIOUS
<1> USE PointerArrayAssumption DEF Init
<1>1. 0 \in Gens /\ \A g \in Gens : Size[g] \in Nat
  BY DEF Gens
<1>2. NoLocals \in Locals
  BY <1>1 DEF NoLocals, Locals
<1>3. TypeInv
  <2>1. \A g \in Gens : entries[g] \in [Index(g) -> Words]
    BY DEF Words
  <2> QED BY <1>1, <1>2, <2>1 DEF TypeInv, NoLocals, Labels
<1>4. \A g \in Gens : \A i \in Index(g) : entries[g][i] = NULL
  OBVIOUS
<1>5. GenInv
  BY <1>1, <1>4 DEF GenInv, Gens
<1>6. DenseInv /\ MigratorInv
  BY <1>1 DEF DenseInv, MigratorInv, Gens
<1>7. ASSUME NEW t \in Threads PROVE ThreadAt(t)
  <2>1. pc[t] = "idle" /\ my[t].p = 0 /\ rindex[t] = 0
    BY DEF NoLocals
  <2> QED BY <1>1, <2>1 DEF ThreadAt, CallAt, PublishAt, MigrateAt, EnumAt, Publishing, Carrying,
                            Carried, Copied, Migrating
<1> QED BY <1>3, <1>5, <1>6, <1>7 DEF IInv

(* The slots the threads address exist. *)
LEMMA Addressed ==
    ASSUME IInv, NEW t \in Threads
    PROVE  /\ my[t].p \in Gens /\ my[t].p <= storage /\ my[t].dst \in Gens
           /\ pc[t] = "add_cas" => my[t].i \in Index(my[t].p) /\ my[t].call.arg \in Values
           /\ pc[t] = "get_entry" => my[t].i \in Index(my[t].p) /\ my[t].i \in 0 .. n[my[t].p] - 1
           /\ pc[t] \in {"pub_entry", "pub_cas"} => my[t].k \in Index(my[t].dst)
           /\ pc[t] = "copy" \/ Carrying(t) =>
                 /\ my[t].c \in Index(my[t].p)
                 /\ my[t].c \in Index(storage) /\ my[t].c \in Index(next_storage)
                 /\ my[t].c \in Index(my[t].dst)
<1> USE PointerArrayAssumption
<1>1. TypeInv /\ GenInv /\ CallAt(t) /\ PublishAt(t) /\ MigrateAt(t) /\ my[t] \in Locals
  BY DEF IInv, ThreadAt, TypeInv
<1>2. my[t].p \in Gens /\ my[t].p <= storage /\ my[t].dst \in Gens
  BY <1>1 DEF Locals, CallAt
<1>3. /\ storage \in Gens /\ next_storage \in Gens
      /\ n \in [Gens -> Nat] /\ \A g \in Gens : n[g] <= Size[g]
      /\ my[t].i \in Nat /\ my[t].k \in Nat /\ my[t].c \in Nat
  BY <1>1 DEF TypeInv, Locals
<1>4. ASSUME pc[t] = "add_cas"
      PROVE  my[t].i \in Index(my[t].p) /\ my[t].call.arg \in Values
  BY <1>1, <1>2, <1>3, <1>4, IndexType DEF CallAt
<1>5. ASSUME pc[t] = "get_entry"
      PROVE  my[t].i \in Index(my[t].p) /\ my[t].i \in 0 .. n[my[t].p] - 1
  <2>1. my[t].i < n[my[t].p] /\ n[my[t].p] <= Size[my[t].p] /\ n[my[t].p] \in Nat
        /\ Size[my[t].p] \in Nat
    BY <1>1, <1>2, <1>3, <1>5, IndexType DEF CallAt
  <2> QED BY <1>2, <1>3, <2>1, IndexType
<1>6. ASSUME pc[t] \in {"pub_entry", "pub_cas"} PROVE my[t].k \in Index(my[t].dst)
  BY <1>1, <1>2, <1>3, <1>6, IndexType DEF PublishAt
<1>7. ASSUME pc[t] = "copy" \/ Carrying(t)
      PROVE  /\ my[t].c \in Index(my[t].p)
             /\ my[t].c \in Index(storage) /\ my[t].c \in Index(next_storage)
             /\ my[t].c \in Index(my[t].dst)
  <2>1. my[t].c < Size[my[t].p] /\ my[t].p < my[t].dst /\ my[t].dst <= next_storage
    BY <1>1, <1>7 DEF MigrateAt, Migrating
  <2>2. /\ my[t].p \in 0 .. next_storage /\ storage \in 0 .. next_storage
        /\ next_storage \in 0 .. next_storage /\ my[t].dst \in 0 .. next_storage
    <3>1. storage <= next_storage /\ storage \in Nat /\ next_storage \in Nat
      BY <1>1, <1>3 DEF GenInv, Gens
    <3>2. my[t].p \in Nat /\ my[t].dst \in Nat
      BY <1>2 DEF Gens
    <3> QED BY <1>2, <2>1, <3>1, <3>2
  <2>3. /\ Size[my[t].p] <= Size[storage] /\ Size[my[t].p] <= Size[next_storage]
        /\ Size[my[t].p] <= Size[my[t].dst]
    BY <1>1, <1>2, <2>1, <2>2 DEF GenInv, Gens
  <2> QED BY <1>2, <1>3, <2>1, <2>3, IndexType
<1> QED BY <1>2, <1>4, <1>5, <1>6, <1>7

(* Every action keeps the types. *)
LEMMA NextTypeInv == IInv /\ [Next]_vars => TypeInv'
<1> SUFFICES ASSUME IInv, [Next]_vars PROVE TypeInv'
  OBVIOUS
<1> USE ConstFacts DEF Goto, Labels, world, rovers
<1>0. TypeInv
  BY DEF IInv
<1>0a. \A t \in Threads : my[t] \in Locals
  BY <1>0 DEF TypeInv
<1>0b. NoLocals \in Locals /\ 0 \in Gens /\ \A g \in Gens : Size[g] \in Nat
  BY DEF NoLocals, Locals, Gens
<1>0c. ASSUME NEW t \in Threads, NEW a \in Values \union Nat \union {NULL}, Return(t, a)
       PROVE  /\ pc' \in [Threads -> Labels]
              /\ answer' \in [Threads -> Values \union Nat \union {NULL, Idle}]
              /\ my' \in [Threads -> Locals]
              /\ \A u \in Threads : my'[u].call \in Calls[u] \union {Idle}
  <2>1. NoLocals.call = Idle
    BY DEF NoLocals
  <2> QED BY <1>0, <1>0b, <1>0c, <2>1 DEF Return, TypeInv
<1>0d. ASSUME NEW t \in Threads, NEW m \in Locals, my' = [my EXCEPT ![t] = m],
              m.call \in Calls[t] \union {Idle}
       PROVE  /\ my' \in [Threads -> Locals]
              /\ \A u \in Threads : my'[u].call \in Calls[u] \union {Idle}
  BY <1>0, <1>0d DEF TypeInv
<1>1. ASSUME NEW t \in Threads, NEW c \in Calls[t], Call(t, c) PROVE TypeInv'
  <2> DEFINE i == CASE c.op = "get" -> c.arg
                    [] c.op = "next" -> index[t]
                    [] c.op = "prev" -> rindex[t] - 1
                    [] OTHER -> 0
             m == [NoLocals EXCEPT !.call = c, !.before = n[storage], !.i = i]
  <2>1. i \in Nat
    <3>1. CASE c.op = "get"
      <4>1. c.arg \in 0 .. Size[MaxGen] /\ i = c.arg
        BY <3>1, CallFacts
      <4> QED BY <4>1
    <3>2. CASE c.op = "next"
      BY <1>0, <3>2 DEF TypeInv
    <3>3. CASE c.op = "prev"
      BY <1>0, <1>1, <3>3 DEF Call, TypeInv
    <3>4. CASE c.op \notin {"get", "next", "prev"}
      BY <3>4
    <3> QED BY <3>1, <3>2, <3>3, <3>4
  <2>2. my' = [my EXCEPT ![t] = m] /\ c \in AllCalls /\ n[storage] \in Nat
    BY <1>0, <1>1 DEF Call, AllCalls, TypeInv
  <2> HIDE DEF i
  <2>3. m \in Locals /\ m.call = c
    BY <1>0b, <2>1, <2>2 DEF NoLocals, Locals
  <2> HIDE DEF m
  <2>4. /\ my' \in [Threads -> Locals]
        /\ \A u \in Threads : my'[u].call \in Calls[u] \union {Idle}
    BY <1>0d, <2>2, <2>3
  <2>5. rindex' \in [Threads -> Nat] /\ calls' \in 0 .. MaxCalls
    BY <1>0, <1>1 DEF Call, TypeInv
  <2> QED BY <1>0, <1>1, <2>4, <2>5 DEF Call, TypeInv
<1>0e. ASSUME NEW t \in Threads, NEW m \in Locals, m.call = my[t].call,
              my' = [my EXCEPT ![t] = m], NEW l \in Labels, Goto(t, l)
       PROVE  /\ pc' \in [Threads -> Labels] /\ my' \in [Threads -> Locals]
              /\ \A u \in Threads : my'[u].call \in Calls[u] \union {Idle}
  BY <1>0, <1>0d, <1>0e DEF TypeInv
<1>0f. ASSUME NEW t \in Threads, CopyNext(t)
       PROVE  /\ pc' \in [Threads -> Labels] /\ my' \in [Threads -> Locals]
              /\ \A u \in Threads : my'[u].call \in Calls[u] \union {Idle}
  <2>1. PICK x \in {"swap", "idle"}, l \in Labels :
          /\ my' = [my EXCEPT ![t] = [my[t] EXCEPT !.c = @ + 1, !.value = NULL, !.k = 0, !.then = x]]
          /\ Goto(t, l)
    <3>1. CASE my[t].c = Size[my[t].p] - 1
      BY <1>0f, <3>1, Zenon DEF CopyNext
    <3>2. CASE my[t].c # Size[my[t].p] - 1
      BY <1>0f, <3>2, Zenon DEF CopyNext
    <3> QED BY <3>1, <3>2
  <2>2. [my[t] EXCEPT !.c = @ + 1, !.value = NULL, !.k = 0, !.then = x] \in Locals
    <3>1. my[t].c + 1 \in Nat /\ NULL \in Values \union {NULL}
          /\ x \in {"idle", "add_n", "freeze", "swap"}
      BY <1>0a DEF Locals
    <3>2. [my[t] EXCEPT !.c = @ + 1, !.value = NULL] \in Locals
      BY <1>0a, <3>1 DEF Locals
    <3> QED BY <3>1, <3>2 DEF Locals
  <2>3. [my[t] EXCEPT !.c = @ + 1, !.value = NULL, !.k = 0, !.then = x].call = my[t].call
    BY <1>0a DEF Locals
  <2> QED BY <1>0e, <2>1, <2>2, <2>3
<1>0g. ASSUME NEW t \in Threads, NEW v \in Words, CopyLoop(t, v)
       PROVE  /\ pc' \in [Threads -> Labels] /\ my' \in [Threads -> Locals]
              /\ \A u \in Threads : my'[u].call \in Calls[u] \union {Idle}
  <2>1. CASE v = REDIRECT
    BY <1>0f, <1>0g, <2>1 DEF CopyLoop
  <2>2. CASE v # REDIRECT
    <3>1. PICK l \in Labels : Goto(t, l) /\ my' = [my EXCEPT ![t] = [my[t] EXCEPT !.value = v]]
      BY <1>0g, <2>2 DEF CopyLoop
    <3>2. [my[t] EXCEPT !.value = v] \in Locals /\ [my[t] EXCEPT !.value = v].call = my[t].call
      BY <1>0a, <2>2 DEF Locals, Words
    <3> QED BY <1>0e, <3>1, <3>2
  <2> QED BY <2>1, <2>2
<1>0h. ASSUME NEW t \in Threads, NEW q \in Gens, StartCopy(t, q)
       PROVE  /\ pc' \in [Threads -> Labels] /\ my' \in [Threads -> Locals]
              /\ \A u \in Threads : my'[u].call \in Calls[u] \union {Idle}
  <2>1. PICK l \in Labels :
          Goto(t, l) /\ my' = [my EXCEPT ![t] = [my[t] EXCEPT !.q = q, !.dst = q, !.c = 0]]
    BY <1>0h DEF StartCopy
  <2>2. /\ [my[t] EXCEPT !.q = q, !.dst = q, !.c = 0] \in Locals
        /\ [my[t] EXCEPT !.q = q, !.dst = q, !.c = 0].call = my[t].call
    BY <1>0a DEF Locals
  <2> QED BY <1>0e, <2>1, <2>2
<1>2. ASSUME NEW t \in Threads, Load(t) PROVE TypeInv'
  <2>1. PICK l \in Labels : Goto(t, l) /\ my' = [my EXCEPT ![t] = [my[t] EXCEPT !.p = storage]]
    <3>1. my' = [my EXCEPT ![t] = [my[t] EXCEPT !.p = storage]]
      BY <1>2 DEF Load
    <3>2. \E l \in {"add_n", "count", "get_n"} : Goto(t, l)
      BY <1>2 DEF Load
    <3> QED BY <3>1, <3>2
  <2>2. [my[t] EXCEPT !.p = storage] \in Locals /\ [my[t] EXCEPT !.p = storage].call = my[t].call
    <3>1. storage \in Gens
      BY <1>0 DEF TypeInv
    <3> QED BY <1>0a, <3>1 DEF Locals
  <2> QED BY <1>0, <1>0e, <1>2, <2>1, <2>2 DEF Load, TypeInv
<1>3. ASSUME NEW t \in Threads, Count(t) PROVE TypeInv'
  <2>1. n[my[t].p] \in Nat
    BY <1>0, <1>0a DEF TypeInv, Locals
  <2>2. rindex' \in [Threads -> Nat]
    BY <1>0, <1>3, <2>1 DEF Count, TypeInv
  <2>3. CASE Return(t, n[my[t].p]) \/ Return(t, NULL)
    BY <1>0, <1>0c, <1>3, <2>1, <2>2, <2>3 DEF Count, TypeInv
  <2>4. CASE my' = [my EXCEPT ![t].won = TRUE] /\ Goto(t, "load") /\ UNCHANGED answer
    <3>1. my' = [my EXCEPT ![t] = [my[t] EXCEPT !.won = TRUE]]
      BY <2>4
    <3>2. [my[t] EXCEPT !.won = TRUE] \in Locals /\ [my[t] EXCEPT !.won = TRUE].call = my[t].call
      BY <1>0a DEF Locals
    <3>3. /\ pc' \in [Threads -> Labels] /\ my' \in [Threads -> Locals]
          /\ \A u \in Threads : my'[u].call \in Calls[u] \union {Idle}
      BY <1>0e, <2>4, <3>1, <3>2
    <3> QED BY <1>0, <1>3, <2>2, <2>4, <3>3 DEF Count, TypeInv
  <2> QED BY <1>3, <2>3, <2>4 DEF Count
<1>4. ASSUME NEW t \in Threads, GetN(t) PROVE TypeInv'
  <2>1. CASE Return(t, NULL)
    BY <1>0, <1>0c, <1>4, <2>1 DEF GetN, TypeInv
  <2>2. CASE Goto(t, "get_entry") /\ UNCHANGED <<my, answer>>
    BY <1>0, <1>4, <2>2 DEF GetN, TypeInv
  <2> QED BY <1>4, <2>1, <2>2 DEF GetN
<1>5. ASSUME NEW t \in Threads, GetEntry(t) PROVE TypeInv'
  <2>1. entries[my[t].p][my[t].i] \in Words
    BY <1>0, <1>5, Addressed DEF GetEntry, TypeInv
  <2>2. index' \in [Threads -> Nat]
    BY <1>0, <1>5 DEF GetEntry, TypeInv
  <2>3. CASE entries[my[t].p][my[t].i] # REDIRECT
    <3>1. Return(t, entries[my[t].p][my[t].i]) /\ entries[my[t].p][my[t].i] \in Values \union {NULL}
      BY <1>5, <2>1, <2>3 DEF GetEntry, Words
    <3> QED BY <1>0, <1>0c, <1>5, <2>2, <3>1 DEF GetEntry, TypeInv
  <2>4. CASE entries[my[t].p][my[t].i] = REDIRECT
    BY <1>0, <1>5, <2>2, <2>4 DEF GetEntry, TypeInv
  <2> QED BY <2>3, <2>4
<1>6. ASSUME NEW t \in Threads, AddN(t) PROVE TypeInv'
  <2>1. n[my[t].p] \in Nat
    BY <1>0, <1>0a DEF TypeInv, Locals
  <2>2. PICK l \in Labels : Goto(t, l) /\ my' = [my EXCEPT ![t] = [my[t] EXCEPT !.i = n[my[t].p]]]
    BY <1>6 DEF AddN
  <2>3. /\ [my[t] EXCEPT !.i = n[my[t].p]] \in Locals
        /\ [my[t] EXCEPT !.i = n[my[t].p]].call = my[t].call
    BY <1>0a, <2>1 DEF Locals
  <2> QED BY <1>0, <1>0e, <1>6, <2>2, <2>3 DEF AddN, TypeInv
<1>7. ASSUME NEW t \in Threads, AddCas(t) PROVE TypeInv'
  <2>1. /\ my[t].p \in Gens /\ my[t].i \in Index(my[t].p) /\ my[t].call.arg \in Words
        /\ CasEntry(my[t].p, my[t].i, my[t].call.arg, NULL)
    BY <1>7, Addressed DEF AddCas, Words
  <2>2. entries' = [h \in Gens |-> entries'[h]] /\ \A h \in Gens : entries'[h] \in [Index(h) -> Words]
    BY <1>0, <2>1, CasFacts
  <2>3. CASE Goto(t, "migrate") /\ UNCHANGED my
    BY <1>0, <1>7, <2>2, <2>3 DEF AddCas, TypeInv
  <2>4. CASE entries[my[t].p][my[t].i] # REDIRECT
    <3> DEFINE w == entries[my[t].p][my[t].i] = NULL
               x == IF entries[my[t].p][my[t].i] = NULL THEN "idle" ELSE "add_n"
    <3>1. /\ my' = [my EXCEPT ![t] = [my[t] EXCEPT !.won = w, !.dst = my[t].p, !.then = x]]
          /\ Goto(t, "pub_n")
      BY <1>7, <2>4 DEF AddCas
    <3>2. w \in BOOLEAN /\ x \in {"idle", "add_n"}
      OBVIOUS
    <3> HIDE DEF w, x
    <3>3. /\ [my[t] EXCEPT !.won = w, !.dst = my[t].p, !.then = x] \in Locals
          /\ [my[t] EXCEPT !.won = w, !.dst = my[t].p, !.then = x].call = my[t].call
      BY <1>0a, <2>1, <3>2 DEF Locals
    <3>4. /\ pc' \in [Threads -> Labels] /\ my' \in [Threads -> Locals]
          /\ \A u \in Threads : my'[u].call \in Calls[u] \union {Idle}
      BY <1>0e, <3>1, <3>3
    <3> QED BY <1>0, <1>7, <2>2, <3>4 DEF AddCas, TypeInv
  <2> QED BY <1>7, <2>3, <2>4 DEF AddCas
<1>8. ASSUME NEW t \in Threads, PublishReturns(t)
      PROVE  /\ pc' \in [Threads -> Labels]
             /\ answer' \in [Threads -> Values \union Nat \union {NULL, Idle}]
             /\ my' \in [Threads -> Locals]
             /\ \A u \in Threads : my'[u].call \in Calls[u] \union {Idle}
  <2>1. CASE Return(t, 0)
    BY <1>0c, <2>1
  <2>2. CASE Goto(t, my[t].then) /\ UNCHANGED <<my, answer>>
    <3>1. my[t].then \in Labels
      BY <1>0a DEF Locals
    <3> QED BY <1>0, <2>2, <3>1 DEF TypeInv
  <2> QED BY <1>8, <2>1, <2>2 DEF PublishReturns
<1>9. ASSUME NEW t \in Threads, PubN(t) PROVE TypeInv'
  <2>1. CASE PublishReturns(t)
    BY <1>0, <1>8, <1>9, <2>1 DEF PubN, TypeInv
  <2>2. CASE ~PublishReturns(t)
    <3>1. /\ my' = [my EXCEPT ![t] = [my[t] EXCEPT !.k = n[my[t].dst]]]
          /\ Goto(t, "pub_entry") /\ UNCHANGED answer
      BY <1>9, <2>2 DEF PubN
    <3>2. n[my[t].dst] \in Nat
      BY <1>0, <1>0a DEF TypeInv, Locals
    <3>3. /\ [my[t] EXCEPT !.k = n[my[t].dst]] \in Locals
          /\ [my[t] EXCEPT !.k = n[my[t].dst]].call = my[t].call
      BY <1>0a, <3>2 DEF Locals
    <3>4. /\ pc' \in [Threads -> Labels] /\ my' \in [Threads -> Locals]
          /\ \A u \in Threads : my'[u].call \in Calls[u] \union {Idle}
      BY <1>0e, <3>1, <3>3
    <3> QED BY <1>0, <1>9, <3>1, <3>4 DEF PubN, TypeInv
  <2> QED BY <2>1, <2>2
<1>10. ASSUME NEW t \in Threads, PubEntry(t) PROVE TypeInv'
  <2>1. CASE PublishReturns(t)
    BY <1>0, <1>8, <1>10, <2>1 DEF PubEntry, TypeInv
  <2>2. CASE Goto(t, "pub_cas") /\ UNCHANGED <<my, answer>>
    BY <1>0, <1>10, <2>2 DEF PubEntry, TypeInv
  <2> QED BY <1>10, <2>1, <2>2 DEF PubEntry
<1>11. ASSUME NEW t \in Threads, PubCas(t) PROVE TypeInv'
  <2>1. my[t].dst \in Gens /\ my[t].k < Size[my[t].dst]
    BY <1>0a, <1>11 DEF PubCas, Locals, IInv, ThreadAt, PublishAt
  <2>2. n' \in [Gens -> Nat] /\ \A g \in Gens : n'[g] <= Size[g]
    BY <1>0, <1>0b, <1>11, <2>1 DEF PubCas, TypeInv
  <2> QED BY <1>0, <1>11, <2>2 DEF PubCas, TypeInv
<1>12. ASSUME NEW t \in Threads, Migrate(t) PROVE TypeInv'
  BY <1>0, <1>12 DEF Migrate, TypeInv
<1>13. ASSUME NEW t \in Threads, MigNext(t) PROVE TypeInv'
  <2>1. CASE next_storage = my[t].p
    BY <1>0, <1>13, <2>1 DEF MigNext, TypeInv
  <2>2. CASE next_storage # my[t].p
    BY <1>0, <1>0h, <1>13, <2>2 DEF MigNext, TypeInv
  <2> QED BY <2>1, <2>2
<1>14. ASSUME NEW t \in Threads, MigAlloc(t) PROVE TypeInv'
  <2>1. my[t].p + 1 \in Gens /\ next_storage \in Gens
    <3>1. my[t].p \in Gens /\ my[t].p < MaxGen
      BY <1>0a, <1>14 DEF MigAlloc, Locals
    <3>2. next_storage \in Gens
      BY <1>0 DEF TypeInv
    <3> QED BY <3>1, <3>2 DEF Gens
  <2> QED BY <1>0, <1>0h, <1>14, <2>1 DEF MigAlloc, TypeInv
<1>15. ASSUME NEW t \in Threads, Copy(t) PROVE TypeInv'
  <2>1. entries[my[t].p][my[t].c] \in Words
    BY <1>0, <1>15, Addressed DEF Copy, TypeInv
  <2> QED BY <1>0, <1>0g, <1>15, <2>1 DEF Copy, TypeInv
<1>16. ASSUME NEW t \in Threads, Put(t) PROVE TypeInv'
  <2>1. /\ my[t].dst \in Gens /\ my[t].c \in Index(my[t].dst) /\ my[t].value \in Words
        /\ CasEntry(my[t].dst, my[t].c, my[t].value, NULL)
    BY <1>0a, <1>16, Addressed DEF Put, Words, Carrying, Locals
  <2>2. entries' = [h \in Gens |-> entries'[h]] /\ \A h \in Gens : entries'[h] \in [Index(h) -> Words]
    BY <1>0, <2>1, CasFacts
  <2>3. CASE Goto(t, "follow") /\ UNCHANGED my
    BY <1>0, <1>16, <2>2, <2>3 DEF Put, TypeInv
  <2>4. CASE my' = [my EXCEPT ![t].then = "freeze"] /\ Goto(t, "pub_n")
    <3>1. my' = [my EXCEPT ![t] = [my[t] EXCEPT !.then = "freeze"]]
      BY <2>4
    <3>2. /\ [my[t] EXCEPT !.then = "freeze"] \in Locals
          /\ [my[t] EXCEPT !.then = "freeze"].call = my[t].call
      BY <1>0a DEF Locals
    <3>3. /\ pc' \in [Threads -> Labels] /\ my' \in [Threads -> Locals]
          /\ \A u \in Threads : my'[u].call \in Calls[u] \union {Idle}
      BY <1>0e, <2>4, <3>1, <3>2
    <3> QED BY <1>0, <1>16, <2>2, <3>3 DEF Put, TypeInv
  <2> QED BY <1>16, <2>3, <2>4 DEF Put
<1>17. ASSUME NEW t \in Threads, PutFollow(t) PROVE TypeInv'
  <2>1. my' = [my EXCEPT ![t] = [my[t] EXCEPT !.dst = next_storage]] /\ Goto(t, "put")
    BY <1>17 DEF PutFollow
  <2>2. /\ [my[t] EXCEPT !.dst = next_storage] \in Locals
        /\ [my[t] EXCEPT !.dst = next_storage].call = my[t].call
    <3>1. next_storage \in Gens
      BY <1>0 DEF TypeInv
    <3> QED BY <1>0a, <3>1 DEF Locals
  <2> QED BY <1>0, <1>0e, <1>17, <2>1, <2>2 DEF PutFollow, TypeInv
<1>18. ASSUME NEW t \in Threads, Freeze(t) PROVE TypeInv'
  <2>1. /\ my[t].p \in Gens /\ my[t].c \in Index(my[t].p)
        /\ CasEntry(my[t].p, my[t].c, REDIRECT, my[t].value)
    BY <1>18, Addressed DEF Freeze, Carrying
  <2>2. entries' = [h \in Gens |-> entries'[h]] /\ \A h \in Gens : entries'[h] \in [Index(h) -> Words]
    BY <1>0, <2>1, CasFacts DEF Words
  <2>3. entries[my[t].p][my[t].c] \in Words
    BY <1>0, <2>1 DEF TypeInv
  <2>4. /\ pc' \in [Threads -> Labels] /\ my' \in [Threads -> Locals]
        /\ \A u \in Threads : my'[u].call \in Calls[u] \union {Idle}
    BY <1>0f, <1>0g, <1>18, <2>3 DEF Freeze
  <2> QED BY <1>0, <1>18, <2>2, <2>4 DEF Freeze, TypeInv
<1>19. ASSUME NEW t \in Threads, Swap(t) PROVE TypeInv'
  <2> DEFINE m == [my[t] EXCEPT !.q = 0, !.c = 0, !.dst = 0, !.then = "idle"]
  <2>1. my' = [my EXCEPT ![t] = m] /\ Goto(t, "load")
    BY <1>19 DEF Swap
  <2>2. m \in Locals /\ m.call = my[t].call
    BY <1>0a, <1>0b DEF Locals
  <2> HIDE DEF m
  <2>3. /\ pc' \in [Threads -> Labels] /\ my' \in [Threads -> Locals]
        /\ \A u \in Threads : my'[u].call \in Calls[u] \union {Idle}
    BY <1>0e, <2>1, <2>2
  <2>4. storage' \in Gens /\ freed' \in [Gens -> Nat]
    BY <1>0, <1>0a, <1>19 DEF Swap, TypeInv, Locals
  <2> QED BY <1>0, <1>19, <2>3, <2>4 DEF Swap, TypeInv
<1>20. CASE UNCHANGED vars
  BY <1>0, <1>20 DEF vars, TypeInv
<1> QED
  BY <1>1, <1>2, <1>3, <1>4, <1>5, <1>6, <1>7, <1>9, <1>10, <1>11, <1>12, <1>13,
     <1>14, <1>15, <1>16, <1>17, <1>18, <1>19, <1>20
     DEF Next, Step

-----------------------------------------------------------------------------
(* What no step takes back: storages only advance, counts only grow, a     *)
(* filled slot stays filled, a frozen one frozen, and an element is what   *)
(* it was.                                                                 *)
Forward ==
    /\ storage <= storage' /\ next_storage <= next_storage'
    /\ storage' \in {storage, next_storage}
    /\ \A g \in Gens : n[g] <= n'[g]
    /\ n[storage] <= n'[storage']
    /\ \A g \in Gens : \A i \in Index(g) :
         /\ entries[g][i] # NULL => entries'[g][i] # NULL
         /\ entries[g][i] = REDIRECT => entries'[g][i] = REDIRECT
    /\ \A i \in Index(storage) : Element(i) \in Values => Element(i)' = Element(i)

(* What a thread relies on survives the steps of the others. *)
LEMMA ThreadStable ==
    ASSUME IInv, TypeInv', GenInv', Forward, NEW u \in Threads,
           pc'[u] = pc[u], my'[u] = my[u], rindex'[u] = rindex[u]
    PROVE  ThreadAt(u)'
<1>1. my[u] \in Locals /\ CallAt(u) /\ PublishAt(u) /\ MigrateAt(u) /\ EnumAt(u)
  BY DEF IInv, TypeInv, ThreadAt
<1>2. /\ storage \in Nat /\ storage' \in Nat /\ next_storage \in Nat /\ next_storage' \in Nat
      /\ storage \in Gens /\ storage' \in Gens /\ next_storage \in Gens /\ next_storage' \in Gens
  BY DEF IInv, TypeInv, Gens
<1>3. /\ n \in [Gens -> Nat] /\ n' \in [Gens -> Nat] /\ Size \in [Gens -> Nat]
      /\ \A g \in Gens : n[g] <= Size[g] /\ n'[g] <= Size[g]
  BY ConstFacts DEF IInv, TypeInv
<1>4. /\ my[u].p \in Gens /\ my[u].q \in Gens /\ my[u].dst \in Gens
      /\ my[u].p \in Nat /\ my[u].q \in Nat /\ my[u].dst \in Nat
      /\ my[u].i \in Nat /\ my[u].c \in Nat /\ my[u].k \in Nat
  BY <1>1 DEF Locals, Gens
<1>5. /\ storage <= storage' /\ next_storage <= next_storage'
      /\ storage' \in {storage, next_storage}
      /\ \A g \in Gens : n[g] <= n'[g]
      /\ n[storage] <= n'[storage']
  BY DEF Forward
<1>6. next_storage \in {storage, storage + 1} /\ next_storage' \in {storage', storage' + 1}
  BY DEF IInv, GenInv
<1>7. CallAt(u)'
  <2>1. my[u].p <= storage'
    BY <1>1, <1>2, <1>4, <1>5 DEF CallAt
  <2>2. pc[u] = "get_entry" => my[u].i < n'[my[u].p]
    BY <1>1, <1>3, <1>4, <1>5 DEF CallAt
  <2>3. pc[u] \in {"migrate", "mig_next", "mig_alloc"} => n'[my[u].p] = Size[my[u].p]
    BY <1>1, <1>3, <1>4, <1>5 DEF CallAt
  <2> QED BY <1>1, <2>1, <2>2, <2>3 DEF CallAt
<1>8. PublishAt(u)'
  <2>1. Publishing(u)' <=> Publishing(u)
    BY DEF Publishing
  <2>2. Publishing(u) => my[u].dst <= next_storage'
    BY <1>1, <1>2, <1>4, <1>5 DEF PublishAt
  <2>3. pc[u] \in {"pub_entry", "pub_cas"} => my[u].k <= n'[my[u].dst]
    BY <1>1, <1>3, <1>4, <1>5 DEF PublishAt
  <2>4. pc[u] = "pub_cas" => entries'[my[u].dst][my[u].k] # NULL
    BY <1>1, <1>4, Addressed DEF PublishAt, Forward
  <2> QED BY <1>1, <2>1, <2>2, <2>3, <2>4 DEF PublishAt
<1>9. MigrateAt(u)'
  <2>1. /\ (Publishing(u)' <=> Publishing(u))
        /\ (Carrying(u)' <=> Carrying(u)) /\ (Carried(u)' <=> Carried(u))
        /\ (Copied(u)' <=> Copied(u)) /\ (Migrating(u)' <=> Migrating(u))
    BY DEF Publishing, Carrying, Carried, Copied, Migrating
  <2>2. Migrating(u) => my[u].q <= next_storage' /\ my[u].dst <= next_storage'
    BY <1>1, <1>2, <1>4, <1>5 DEF MigrateAt
  <2>3. ASSUME Migrating(u), NEW j \in 0 .. my[u].c - 1 PROVE entries'[my[u].p][j] = REDIRECT
    <3>1. my[u].c <= Size[my[u].p]
      BY <1>1, <1>3, <1>4, <2>3 DEF MigrateAt, Migrating
    <3>2. j \in Index(my[u].p)
      BY <1>3, <1>4, <3>1 DEF Index
    <3> QED BY <1>1, <1>4, <2>3, <3>2 DEF MigrateAt, Forward
  <2>4. ASSUME Carrying(u) PROVE Element(my[u].c)' = my[u].value
    <3>1. my[u].c \in Index(storage) /\ my[u].value \in Values /\ Element(my[u].c) = my[u].value
      BY <1>1, <2>4, Addressed DEF MigrateAt
    <3>2. \A i \in Index(storage) : Element(i) \in Values => Element(i)' = Element(i)
      BY DEF Forward
    <3>3. my[u].c = my'[u].c
      OBVIOUS
    <3> QED BY <3>1, <3>2, <3>3 DEF Element
  <2>5. ASSUME Migrating(u), my[u].p = storage'
        PROVE  my[u].p = storage /\ next_storage' = next_storage
    <3>1. my[u].p < next_storage
      BY <1>1, <1>2, <1>4, <2>5 DEF MigrateAt
    <3>2. my[u].p = storage /\ storage' = storage
      BY <1>1, <1>2, <1>4, <1>5, <2>5, <3>1 DEF CallAt
    <3> QED BY <1>2, <1>5, <1>6, <3>1, <3>2
  <2>6. ASSUME Carried(u), my[u].p = storage' PROVE entries'[next_storage'][my[u].c] # NULL
    <3>1. Migrating(u) /\ Carrying(u)
      BY <2>6 DEF Carried, Carrying, Migrating
    <3>2. my[u].p = storage /\ next_storage' = next_storage
      BY <2>5, <2>6, <3>1
    <3>3. entries[next_storage][my[u].c] # NULL /\ my[u].c \in Index(next_storage)
      BY <1>1, <2>6, <3>1, <3>2, Addressed DEF MigrateAt
    <3> QED BY <1>2, <3>2, <3>3 DEF Forward
  <2>7. ASSUME pc[u] = "swap", my[u].p = storage' PROVE Size[my[u].p] <= n'[next_storage']
    <3>1. Migrating(u)
      BY <2>7 DEF Copied, Migrating
    <3>2. my[u].p = storage /\ next_storage' = next_storage
      BY <2>5, <2>7, <3>1
    <3>3. Size[my[u].p] <= n[next_storage]
      BY <1>1, <2>7, <3>2 DEF MigrateAt
    <3> QED BY <1>2, <1>3, <1>4, <1>5, <3>2, <3>3
  <2> QED BY <1>1, <2>1, <2>2, <2>3, <2>4, <2>6, <2>7 DEF MigrateAt
<1>10. EnumAt(u)'
  <2>1. Covered(u)' <=> Covered(u)
    BY DEF Covered
  <2>2. rindex[u] \in Nat
    BY DEF IInv, TypeInv
  <2>3. n[storage] \in Nat /\ n'[storage'] \in Nat /\ n[my[u].p] \in Nat /\ n'[my[u].p] \in Nat
        /\ n[my[u].p] <= n'[my[u].p]
    BY <1>2, <1>3, <1>4, <1>5
  <2> QED BY <1>1, <1>4, <1>5, <2>1, <2>2, <2>3 DEF EnumAt
<1> QED BY <1>7, <1>8, <1>9, <1>10 DEF ThreadAt

(* A step of one thread that leaves the storages alone. *)
LEMMA LocalStep ==
    ASSUME IInv, TypeInv', NEW t \in Threads,
           UNCHANGED <<storage, next_storage, n, entries, freed>>,
           \A u \in Threads \ {t} :
              pc'[u] = pc[u] /\ my'[u] = my[u] /\ rindex'[u] = rindex[u],
           ThreadAt(t)',
           Migrating(t) /\ my[t].p = storage => Migrating(t)' /\ my'[t].p = my[t].p
    PROVE  IInv' /\ Forward
<1>1. GenInv' /\ DenseInv'
  BY DEF IInv, GenInv, DenseInv, Element
<1>2. Forward
  <2>1. n \in [Gens -> Nat] /\ storage \in Nat /\ next_storage \in Nat /\ storage \in Gens
    BY DEF IInv, TypeInv, Gens
  <2> QED BY <2>1 DEF Forward, Element
<1>3. ASSUME NEW u \in Threads PROVE ThreadAt(u)'
  BY <1>1, <1>2, ThreadStable
<1>4. MigratorInv'
  <2>1. SUFFICES ASSUME next_storage # storage
                 PROVE  \E u \in Threads : Migrating(u)' /\ my'[u].p = storage
    BY DEF MigratorInv
  <2>2. PICK u \in Threads : Migrating(u) /\ my[u].p = storage
    BY <2>1 DEF IInv, MigratorInv
  <2>3. CASE u = t
    BY <2>2, <2>3
  <2>4. CASE u # t
    BY <2>2, <2>4 DEF Migrating, Carrying, Copied, Publishing
  <2> QED BY <2>3, <2>4
<1> QED BY <1>1, <1>2, <1>3, <1>4 DEF IInv

-----------------------------------------------------------------------------
(* What is known of a thread and of the storages before a step. *)
LEMMA Basics ==
    ASSUME IInv, NEW t \in Threads
    PROVE  /\ CallAt(t) /\ PublishAt(t) /\ MigrateAt(t) /\ EnumAt(t)
           /\ storage \in Nat /\ next_storage \in Nat /\ storage \in Gens /\ next_storage \in Gens
           /\ next_storage \in {storage, storage + 1}
           /\ n \in [Gens -> Nat] /\ Size \in [Gens -> Nat]
           /\ \A g \in Gens : n[g] <= Size[g]
           /\ my[t].p \in Gens /\ my[t].p \in Nat /\ my[t].dst \in Gens /\ my[t].dst \in Nat
           /\ my[t].q \in Nat /\ my[t].i \in Nat /\ my[t].c \in Nat /\ my[t].k \in Nat
           /\ my[t].p <= storage
           /\ rindex[t] \in Nat
<1>1. TypeInv /\ GenInv /\ ThreadAt(t) /\ my[t] \in Locals
  BY DEF IInv, TypeInv
<1>2. storage \in Nat /\ next_storage \in Nat /\ storage \in Gens /\ next_storage \in Gens
  BY <1>1 DEF TypeInv, Gens
<1>3. /\ n \in [Gens -> Nat] /\ Size \in [Gens -> Nat] /\ \A g \in Gens : n[g] <= Size[g]
      /\ rindex[t] \in Nat
  BY <1>1, ConstFacts DEF TypeInv
<1>4. /\ my[t].p \in Gens /\ my[t].p \in Nat /\ my[t].dst \in Gens /\ my[t].dst \in Nat
      /\ my[t].q \in Nat /\ my[t].i \in Nat /\ my[t].c \in Nat /\ my[t].k \in Nat
  BY <1>1 DEF Locals, Gens
<1> QED BY <1>1, <1>2, <1>3, <1>4 DEF ThreadAt, CallAt, GenInv

(* A thread that moves to label l with the locals m. *)
LEMMA Moved ==
    ASSUME TypeInv, NEW t \in Threads, NEW l, NEW m, Goto(t, l), my' = [my EXCEPT ![t] = m]
    PROVE  /\ pc'[t] = l /\ my'[t] = m
           /\ \A u \in Threads \ {t} : pc'[u] = pc[u] /\ my'[u] = my[u]
  BY DEF TypeInv, Goto

(* A thread outside publish and copy relies on nothing about them. *)
LEMMA Quiet ==
    ASSUME NEW t \in Threads,
           pc'[t] \in {"idle", "load", "count", "add_n", "add_cas", "get_n", "get_entry",
                       "migrate", "mig_next", "mig_alloc"},
           CallAt(t)', EnumAt(t)'
    PROVE  ThreadAt(t)'
  BY DEF ThreadAt, PublishAt, MigrateAt, Publishing, Carrying, Carried, Copied, Migrating

(* So does a thread that is not in a call. *)
LEMMA QuietNow ==
    ASSUME NEW t \in Threads,
           pc[t] \in {"idle", "load", "count", "add_n", "add_cas", "get_n", "get_entry",
                      "migrate", "mig_next", "mig_alloc"}
    PROVE  ~Migrating(t)
  BY DEF Publishing, Carrying, Copied, Migrating

(* No retired storage counts more than the current one. *)
LEMMA CountGrows ==
    ASSUME IInv, NEW g \in Gens, g <= storage
    PROVE  n[g] <= n[storage]
<1>1. /\ storage \in Nat /\ storage \in Gens /\ n \in [Gens -> Nat] /\ Size \in [Gens -> Nat]
      /\ \A h \in Gens : n[h] <= Size[h]
  BY ConstFacts DEF IInv, TypeInv, Gens
<1>2. /\ \A h, k \in 0 .. next_storage : h <= k => Size[h] <= Size[k]
      /\ next_storage \in {storage, storage + 1}
      /\ \A h \in 1 .. storage : Size[h - 1] <= n[h]
  BY DEF IInv, GenInv
<1>3. CASE g = storage
  BY <1>1, <1>3
<1>4. CASE g # storage
  <2>1. g \in Nat /\ g <= storage - 1 /\ storage - 1 \in Nat /\ storage \in 1 .. storage
    BY <1>1, <1>4 DEF Gens
  <2>2. Size[storage - 1] <= n[storage]
    BY <1>2, <2>1
  <2>3. g \in 0 .. next_storage /\ storage - 1 \in 0 .. next_storage
    BY <1>1, <1>2, <2>1
  <2>4. Size[g] <= Size[storage - 1]
    BY <1>2, <2>1, <2>3
  <2>5. storage - 1 \in Gens
    BY <1>1, <2>1, ConstFacts DEF Gens
  <2> QED BY <1>1, <2>2, <2>4, <2>5
<1> QED BY <1>3, <1>4

(* A storage with a frozen slot is full. *)
LEMMA FrozenFull ==
    ASSUME IInv, NEW g \in Gens, g <= storage, NEW i \in Index(g), entries[g][i] = REDIRECT
    PROVE  n[g] = Size[g]
<1>1. storage \in Nat /\ storage \in Gens /\ MaxGen \in Nat /\ GenInv
  BY ConstFacts DEF IInv, TypeInv, Gens
<1>2. CASE g = storage
  <2>1. next_storage # storage
    <3>1. SUFFICES ASSUME next_storage = storage PROVE FALSE
      OBVIOUS
    <3>2. g \in next_storage .. MaxGen
      BY <1>1, <1>2, <3>1 DEF Gens
    <3> QED BY <1>1, <3>2, ConstFacts DEF GenInv
  <2> QED BY <1>1, <1>2, <2>1 DEF GenInv
<1>3. CASE g # storage
  <2>1. g \in 0 .. storage - 1
    BY <1>1, <1>3 DEF Gens
  <2> QED BY <1>1, <2>1 DEF GenInv
<1> QED BY <1>2, <1>3

-----------------------------------------------------------------------------
(* The steps that leave the storages alone *)

LEMMA CallStep ==
    ASSUME IInv, TypeInv', NEW t \in Threads, NEW c \in Calls[t], Call(t, c)
    PROVE  IInv' /\ Forward
<1> DEFINE i == CASE c.op = "get" -> c.arg
                  [] c.op = "next" -> index[t]
                  [] c.op = "prev" -> rindex[t] - 1
                  [] OTHER -> 0
           m == [NoLocals EXCEPT !.call = c, !.before = n[storage], !.i = i]
<1>1. my' = [my EXCEPT ![t] = m] /\ Goto(t, "load")
  BY DEF Call
<1>2. c.op = "prev" => i = rindex[t] - 1
  OBVIOUS
<1> HIDE DEF i
<1>3. m.call = c /\ m.p = 0 /\ m.i = i /\ m.won = FALSE
  BY DEF NoLocals
<1> HIDE DEF m
<1>4. /\ pc'[t] = "load" /\ my'[t] = m
      /\ \A u \in Threads \ {t} : pc'[u] = pc[u] /\ my'[u] = my[u]
  BY <1>1, Moved DEF IInv
<1>5. /\ UNCHANGED <<storage, next_storage, n, entries, freed>>
      /\ pc[t] = "idle" /\ (c.op = "prev" => rindex[t] > 0)
      /\ rindex'[t] = IF c.op = "prev" THEN rindex[t] - 1 ELSE rindex[t]
      /\ \A u \in Threads \ {t} : rindex'[u] = rindex[u]
  BY DEF Call, world, IInv, TypeInv
<1>6. CallAt(t)'
  BY <1>3, <1>4, <1>5, Basics DEF CallAt
<1>7. EnumAt(t)'
  <2>1. rindex[t] <= n[storage] /\ n[storage] \in Nat /\ rindex[t] \in Nat
    BY Basics DEF EnumAt
  <2>2. rindex'[t] <= n[storage] /\ (c.op = "prev" => i < n[storage])
    BY <1>2, <1>5, <2>1
  <2> QED BY <1>3, <1>4, <1>5, <2>2 DEF EnumAt, Covered
<1> QED BY <1>4, <1>5, <1>6, <1>7, Quiet, QuietNow, LocalStep

LEMMA LoadStep ==
    ASSUME IInv, TypeInv', NEW t \in Threads, Load(t)
    PROVE  IInv' /\ Forward
<1> DEFINE m == [my[t] EXCEPT !.p = storage]
<1>1. my' = [my EXCEPT ![t] = m] /\ pc[t] = "load"
  BY DEF Load
<1>2. PICK l \in {"add_n", "count", "get_n"} : Goto(t, l) /\ (l = "add_n" => my[t].call.op = "add")
  BY DEF Load
<1>3. m.call = my[t].call /\ m.p = storage /\ m.i = my[t].i /\ m.won = my[t].won
  BY DEF IInv, TypeInv, Locals
<1> HIDE DEF m
<1>4. /\ pc'[t] = l /\ my'[t] = m
      /\ \A u \in Threads \ {t} : pc'[u] = pc[u] /\ my'[u] = my[u]
  BY <1>1, <1>2, Moved DEF IInv
<1>5. UNCHANGED <<storage, next_storage, n, entries, freed>> /\ UNCHANGED rindex
  BY DEF Load, world, rovers
<1>6. CallAt(t)'
  BY <1>1, <1>2, <1>3, <1>4, <1>5, Basics DEF CallAt
<1>7. EnumAt(t)'
  BY <1>1, <1>3, <1>4, <1>5, Basics DEF EnumAt, Covered
<1>8. ThreadAt(t)'
  BY <1>2, <1>4, <1>6, <1>7, Quiet
<1> QED BY <1>1, <1>4, <1>5, <1>8, QuietNow, LocalStep

(* A call that returns leaves nothing behind. *)
LEMMA ReturnStep ==
    ASSUME IInv, TypeInv', NEW t \in Threads, NEW a, Return(t, a),
           UNCHANGED <<storage, next_storage, n, entries, freed>>,
           \A u \in Threads \ {t} : rindex'[u] = rindex[u],
           rindex'[t] <= n[storage],
           ~(Migrating(t) /\ my[t].p = storage)
    PROVE  IInv' /\ Forward
<1>1. NoLocals.p = 0
  BY DEF NoLocals
<1>2. /\ pc'[t] = "idle" /\ my'[t] = NoLocals
      /\ \A u \in Threads \ {t} : pc'[u] = pc[u] /\ my'[u] = my[u]
  BY Moved DEF IInv, Return
<1>3. CallAt(t)' /\ EnumAt(t)'
  BY <1>1, <1>2, Basics DEF CallAt, EnumAt
<1>4. ThreadAt(t)'
  BY <1>2, <1>3, Quiet
<1> QED BY <1>2, <1>4, LocalStep

LEMMA CountStep ==
    ASSUME IInv, TypeInv', NEW t \in Threads, Count(t)
    PROVE  IInv' /\ Forward
<1>1. /\ UNCHANGED <<storage, next_storage, n, entries, freed>>
      /\ pc[t] = "count" /\ ~Migrating(t)
  BY QuietNow DEF Count, world
<1>2. n[my[t].p] <= n[storage] /\ n[my[t].p] \in Nat /\ n[storage] \in Nat /\ rindex[t] <= n[storage]
  BY Basics, CountGrows DEF EnumAt
<1>3. CASE rindex' = [rindex EXCEPT ![t] = n[my[t].p]] /\ Return(t, n[my[t].p])
  <2>1. rindex'[t] = n[my[t].p] /\ \A u \in Threads \ {t} : rindex'[u] = rindex[u]
    BY <1>3 DEF IInv, TypeInv
  <2> QED BY <1>1, <1>2, <1>3, <2>1, ReturnStep
<1>4. CASE Return(t, NULL) /\ UNCHANGED rindex
  BY <1>1, <1>2, <1>4, ReturnStep
<1>5. CASE /\ my[t].call.op = "next" /\ my[t].i < n[my[t].p]
           /\ my' = [my EXCEPT ![t].won = TRUE]
           /\ Goto(t, "load") /\ UNCHANGED <<rindex, answer>>
  <2> DEFINE m == [my[t] EXCEPT !.won = TRUE]
  <2>1. my' = [my EXCEPT ![t] = m]
    BY <1>5
  <2>2. m.call = my[t].call /\ m.p = my[t].p /\ m.i = my[t].i
    BY DEF IInv, TypeInv, Locals
  <2> HIDE DEF m
  <2>3. /\ pc'[t] = "load" /\ my'[t] = m
        /\ \A u \in Threads \ {t} : pc'[u] = pc[u] /\ my'[u] = my[u]
    BY <1>5, <2>1, Moved DEF IInv
  <2>4. CallAt(t)'
    BY <1>1, <2>2, <2>3, Basics DEF CallAt
  <2>5. my[t].i < n[storage]
    BY <1>2, <1>5, Basics
  <2>6. EnumAt(t)'
    BY <1>1, <1>5, <2>2, <2>3, <2>5, Basics DEF EnumAt
  <2>7. ThreadAt(t)'
    BY <2>3, <2>4, <2>6, Quiet
  <2> QED BY <1>1, <1>5, <2>3, <2>7, LocalStep
<1> QED BY <1>3, <1>4, <1>5 DEF Count

(* A thread that moves on with its locals as they are, outside publish and *)
(* copy.                                                                   *)
LEMMA GotoStep ==
    ASSUME IInv, TypeInv', NEW t \in Threads,
           NEW l \in {"load", "get_entry", "migrate", "mig_next", "mig_alloc", "add_n"},
           Goto(t, l), pc[t] # "idle",
           UNCHANGED <<storage, next_storage, n, entries, freed, my, rindex>>,
           ~Migrating(t) \/ my[t].p # storage,
           l = "add_n" => my[t].call.op = "add",
           l = "get_entry" => pc[t] = "get_n" /\ my[t].i < n[my[t].p],
           l \in {"migrate", "mig_next", "mig_alloc"} => n[my[t].p] = Size[my[t].p]
    PROVE  IInv' /\ Forward
<1>1. pc'[t] = l /\ \A u \in Threads \ {t} : pc'[u] = pc[u]
  BY DEF IInv, TypeInv, Goto
<1>2. CallAt(t)'
  BY <1>1, Basics DEF CallAt
<1>3. EnumAt(t)'
  BY <1>1, Basics DEF EnumAt, Covered
<1>4. ThreadAt(t)'
  BY <1>1, <1>2, <1>3, Quiet
<1> QED BY <1>1, <1>4, LocalStep

LEMMA GetNStep ==
    ASSUME IInv, TypeInv', NEW t \in Threads, GetN(t)
    PROVE  IInv' /\ Forward
<1>1. /\ UNCHANGED <<storage, next_storage, n, entries, freed>> /\ UNCHANGED rindex
      /\ pc[t] = "get_n" /\ ~Migrating(t) /\ rindex[t] <= n[storage]
  BY QuietNow, Basics DEF GetN, world, rovers, EnumAt
<1>2. CASE Return(t, NULL)
  BY <1>1, <1>2, ReturnStep
<1>3. CASE my[t].i < n[my[t].p] /\ Goto(t, "get_entry") /\ UNCHANGED <<my, answer>>
  BY <1>1, <1>3, GotoStep
<1> QED BY <1>2, <1>3 DEF GetN

LEMMA GetEntryStep ==
    ASSUME IInv, TypeInv', NEW t \in Threads, GetEntry(t)
    PROVE  IInv' /\ Forward
<1>1. /\ UNCHANGED <<storage, next_storage, n, entries, freed>> /\ UNCHANGED rindex
      /\ pc[t] = "get_entry" /\ ~Migrating(t) /\ rindex[t] <= n[storage]
  BY QuietNow, Basics DEF GetEntry, world, EnumAt
<1>2. CASE Return(t, entries[my[t].p][my[t].i])
  BY <1>1, <1>2, ReturnStep
<1>3. CASE entries[my[t].p][my[t].i] = REDIRECT /\ Goto(t, "migrate") /\ UNCHANGED my
  <2>1. n[my[t].p] = Size[my[t].p]
    BY <1>1, <1>3, Addressed, FrozenFull
  <2> QED BY <1>1, <1>3, <2>1, GotoStep
<1> QED BY <1>2, <1>3 DEF GetEntry

LEMMA AddNStep ==
    ASSUME IInv, TypeInv', NEW t \in Threads, AddN(t)
    PROVE  IInv' /\ Forward
<1> DEFINE m == [my[t] EXCEPT !.i = n[my[t].p]]
           l == IF n[my[t].p] >= Size[my[t].p] THEN "migrate" ELSE "add_cas"
<1>1. my' = [my EXCEPT ![t] = m] /\ Goto(t, l) /\ pc[t] = "add_n"
  BY DEF AddN
<1>2. m.call = my[t].call /\ m.p = my[t].p /\ m.i = n[my[t].p]
  BY DEF IInv, TypeInv, Locals
<1> HIDE DEF m
<1>3. /\ l \in {"migrate", "add_cas"} /\ (l = "add_cas" => n[my[t].p] < Size[my[t].p])
      /\ (l = "migrate" => n[my[t].p] = Size[my[t].p])
  BY Basics
<1> HIDE DEF l
<1>4. /\ pc'[t] = l /\ my'[t] = m
      /\ \A u \in Threads \ {t} : pc'[u] = pc[u] /\ my'[u] = my[u]
  BY <1>1, Moved DEF IInv
<1>5. UNCHANGED <<storage, next_storage, n, entries, freed>> /\ UNCHANGED rindex
  BY DEF AddN, world, rovers
<1>6. my[t].call.op = "add"
  BY <1>1, Basics DEF CallAt
<1>7. CallAt(t)'
  BY <1>1, <1>2, <1>3, <1>4, <1>5, <1>6, Basics DEF CallAt
<1>8. EnumAt(t)'
  BY <1>2, <1>4, <1>5, <1>6, Basics DEF EnumAt, Covered
<1>9. ThreadAt(t)'
  BY <1>3, <1>4, <1>7, <1>8, Quiet
<1> QED BY <1>1, <1>4, <1>5, <1>9, QuietNow, LocalStep

LEMMA MigrateStep ==
    ASSUME IInv, TypeInv', NEW t \in Threads, Migrate(t)
    PROVE  IInv' /\ Forward
<1>1. /\ UNCHANGED <<storage, next_storage, n, entries, freed, my, rindex>>
      /\ pc[t] = "migrate" /\ ~Migrating(t) /\ n[my[t].p] = Size[my[t].p]
  BY QuietNow, Basics DEF Migrate, world, rovers, CallAt
<1>2. CASE Goto(t, "mig_next")
  BY <1>1, <1>2, GotoStep
<1>3. CASE Goto(t, "load")
  BY <1>1, <1>3, GotoStep
<1> QED BY <1>2, <1>3 DEF Migrate

(* A thread that goes on in publish or copy keeps its call. *)
LEMMA Busy ==
    ASSUME IInv, TypeInv', Forward, NEW t \in Threads, pc[t] # "idle",
           pc'[t] \in {"pub_n", "pub_entry", "pub_cas", "copy", "put", "follow", "freeze", "swap"},
           my'[t].call = my[t].call, my'[t].p = my[t].p, my'[t].i = my[t].i,
           my'[t].won = my[t].won \/ my[t].call.op = "add", rindex'[t] = rindex[t]
    PROVE  CallAt(t)' /\ EnumAt(t)'
<1>1. /\ storage <= storage' /\ storage' \in Nat /\ n[storage] <= n'[storage'] /\ n'[storage'] \in Nat
  BY DEF Forward, TypeInv, Gens
<1>2. CallAt(t)'
  BY <1>1, Basics DEF CallAt
<1>3. EnumAt(t)'
  <2>1. Covered(t)' => Covered(t)
    BY DEF Covered
  <2>2. n[storage] \in Nat /\ rindex[t] \in Nat /\ my[t].i \in Nat /\ EnumAt(t)
    BY Basics
  <2> QED BY <1>1, <2>1, <2>2 DEF EnumAt
<1> QED BY <1>2, <1>3

(* The same when the storages stay as they are. *)
LEMMA BusyLocal ==
    ASSUME IInv, TypeInv', NEW t \in Threads, pc[t] # "idle",
           UNCHANGED <<storage, next_storage, n, entries, freed>>,
           pc'[t] \in {"pub_n", "pub_entry", "pub_cas", "copy", "put", "follow", "freeze", "swap"},
           my'[t].call = my[t].call, my'[t].p = my[t].p, my'[t].i = my[t].i,
           my'[t].won = my[t].won \/ my[t].call.op = "add", rindex'[t] = rindex[t]
    PROVE  CallAt(t)' /\ EnumAt(t)'
<1>1. CallAt(t)'
  BY Basics DEF CallAt
<1>2. EnumAt(t)'
  BY Basics DEF EnumAt, Covered
<1> QED BY <1>1, <1>2

(* The copier of the current storage works for the next one. *)
LEMMA CopierFacts ==
    ASSUME IInv, NEW t \in Threads, Migrating(t)
    PROVE  /\ my[t].p < next_storage /\ next_storage \in Nat /\ my[t].dst \in Gens
           /\ my[t].p = storage =>
                /\ next_storage = storage + 1
                /\ my[t].q = next_storage /\ my[t].dst = next_storage
                /\ Size[storage] <= Size[next_storage] /\ n[storage] = Size[storage]
<1>1. /\ my[t].p < my[t].q /\ my[t].q <= next_storage
      /\ my[t].p < my[t].dst /\ my[t].dst <= next_storage
  BY Basics DEF MigrateAt
<1>2. my[t].p < next_storage /\ next_storage \in Nat /\ my[t].dst \in Gens
  BY <1>1, Basics
<1>3. ASSUME my[t].p = storage
      PROVE  next_storage = storage + 1 /\ my[t].q = next_storage /\ my[t].dst = next_storage
  BY <1>1, <1>3, Basics
<1>4. ASSUME my[t].p = storage
      PROVE  Size[storage] <= Size[next_storage] /\ n[storage] = Size[storage]
  <2>1. storage \in 0 .. next_storage /\ next_storage \in 0 .. next_storage
    BY <1>3, <1>4, Basics
  <2> QED BY <1>3, <1>4, <2>1, Basics DEF IInv, GenInv
<1> QED BY <1>2, <1>3, <1>4

(* What a copier finds in its source: a frozen slot or the element. *)
LEMMA SourceFacts ==
    ASSUME IInv, NEW t \in Threads, Migrating(t), NEW j \in Index(my[t].p)
    PROVE  \/ entries[my[t].p][j] = REDIRECT
           \/ /\ my[t].p = storage /\ entries[my[t].p][j] \in Values
              /\ Element(j) = entries[my[t].p][j]
<1>1. CASE my[t].p = storage
  <2>1. Element(j) \in Values
    BY <1>1, CopierFacts, Basics DEF IInv, DenseInv
  <2> QED BY <1>1, <2>1 DEF Element
<1>2. CASE my[t].p # storage
  <2>1. my[t].p \in 0 .. storage - 1
    BY <1>2, Basics
  <2> QED BY <2>1 DEF IInv, GenInv
<1> QED BY <1>1, <1>2

(* When all is copied and publish has returned, the next storage counts at *)
(* least what the current one did.                                         *)
LEMMA PublishDone ==
    ASSUME IInv, NEW t \in Threads, Publishing(t), PublishReturns(t),
           UNCHANGED <<storage, next_storage, n, entries, freed, rindex>>, TypeInv',
           my[t].then = "swap" /\ my[t].p = storage => Size[my[t].p] <= n[next_storage]
    PROVE  IInv' /\ Forward
<1>0. pc[t] # "idle" /\ pc[t] \notin {"copy", "put", "follow", "freeze", "swap"}
  BY DEF Publishing
<1>1. CASE my[t].then = "idle" /\ Return(t, 0)
  <2>1. ~Migrating(t)
    BY <1>0, <1>1 DEF Migrating, Carrying, Copied
  <2> QED BY <1>1, <2>1, Basics, ReturnStep DEF EnumAt
<1>2. CASE my[t].then = "add_n" /\ Goto(t, "add_n") /\ UNCHANGED my
  <2>1. ~Migrating(t)
    BY <1>0, <1>2 DEF Migrating, Carrying, Copied
  <2> QED BY <1>0, <1>2, <2>1, Basics, GotoStep DEF PublishAt
<1>3. CASE my[t].then \in {"freeze", "swap"} /\ Goto(t, my[t].then) /\ UNCHANGED my
  <2>1. pc'[t] = my[t].then /\ \A u \in Threads \ {t} : pc'[u] = pc[u]
    BY <1>3 DEF IInv, TypeInv, Goto
  <2>2. CallAt(t)' /\ EnumAt(t)'
    BY <1>0, <1>3, <2>1, BusyLocal
  <2>3. PublishAt(t)'
    BY <1>3, <2>1 DEF PublishAt, Publishing
  <2>4. /\ (Carrying(t)' <=> Carrying(t)) /\ (Carried(t)' <=> Carried(t))
        /\ (Copied(t)' <=> Copied(t)) /\ (Migrating(t)' <=> Migrating(t))
    BY <1>0, <1>3, <2>1 DEF Publishing, Carrying, Carried, Copied, Migrating
  <2>5. MigrateAt(t)'
    <3>1. Element(my[t].c)' = Element(my[t].c)
      BY <1>3 DEF Element
    <3> QED BY <1>3, <2>1, <2>4, <3>1, Basics DEF MigrateAt
  <2> QED BY <1>3, <2>1, <2>2, <2>3, <2>4, <2>5, LocalStep DEF ThreadAt
<1>4. my[t].then \in {"idle", "add_n", "freeze", "swap"}
  BY DEF IInv, TypeInv, Locals
<1> QED BY <1>1, <1>2, <1>3, <1>4 DEF PublishReturns

LEMMA PubNStep ==
    ASSUME IInv, TypeInv', NEW t \in Threads, PubN(t)
    PROVE  IInv' /\ Forward
<1>1. /\ UNCHANGED <<storage, next_storage, n, entries, freed, rindex>>
      /\ pc[t] = "pub_n" /\ Publishing(t)
  BY DEF PubN, world, rovers, Publishing
<1>2. CASE n[my[t].dst] >= Size[my[t].dst] /\ PublishReturns(t)
  <2>1. ASSUME my[t].then = "swap", my[t].p = storage PROVE Size[my[t].p] <= n[next_storage]
    <3>1. Migrating(t)
      BY <1>1, <2>1 DEF Migrating, Copied
    <3>2. my[t].dst = next_storage /\ Size[storage] <= Size[next_storage]
      BY <2>1, <3>1, CopierFacts
    <3> QED BY <1>2, <2>1, <3>2, Basics
  <2> QED BY <1>1, <1>2, <2>1, PublishDone
<1>3. CASE /\ n[my[t].dst] < Size[my[t].dst]
           /\ my' = [my EXCEPT ![t].k = n[my[t].dst]] /\ Goto(t, "pub_entry")
  <2> DEFINE m == [my[t] EXCEPT !.k = n[my[t].dst]]
  <2>1. my' = [my EXCEPT ![t] = m]
    BY <1>3
  <2>2. /\ m.call = my[t].call /\ m.p = my[t].p /\ m.i = my[t].i /\ m.won = my[t].won
        /\ m.q = my[t].q /\ m.c = my[t].c /\ m.dst = my[t].dst /\ m.value = my[t].value
        /\ m.then = my[t].then /\ m.k = n[my[t].dst]
    BY DEF IInv, TypeInv, Locals
  <2> HIDE DEF m
  <2>3. /\ pc'[t] = "pub_entry" /\ my'[t] = m
        /\ \A u \in Threads \ {t} : pc'[u] = pc[u] /\ my'[u] = my[u]
    BY <1>3, <2>1, Moved DEF IInv
  <2>4. CallAt(t)' /\ EnumAt(t)'
    BY <1>1, <2>2, <2>3, BusyLocal
  <2>5. /\ (Carrying(t)' <=> Carrying(t)) /\ (Carried(t)' <=> Carried(t))
        /\ (Copied(t)' <=> Copied(t)) /\ (Migrating(t)' <=> Migrating(t))
    BY <1>1, <2>2, <2>3 DEF Publishing, Carrying, Carried, Copied, Migrating
  <2>6. PublishAt(t)'
    BY <1>1, <1>3, <2>2, <2>3, Basics DEF PublishAt, Publishing
  <2>7. MigrateAt(t)'
    <3>1. Element(my[t].c)' = Element(my[t].c)
      BY <1>1, <2>2, <2>3 DEF Element
    <3> QED BY <1>1, <2>2, <2>3, <2>5, <3>1, Basics DEF MigrateAt
  <2> QED BY <1>1, <2>2, <2>3, <2>4, <2>5, <2>6, <2>7, LocalStep DEF ThreadAt
<1> QED BY <1>2, <1>3 DEF PubN

LEMMA PubEntryStep ==
    ASSUME IInv, TypeInv', NEW t \in Threads, PubEntry(t)
    PROVE  IInv' /\ Forward
<1>1. /\ UNCHANGED <<storage, next_storage, n, entries, freed, rindex>>
      /\ pc[t] = "pub_entry" /\ Publishing(t)
      /\ my[t].k \in Index(my[t].dst) /\ my[t].k <= n[my[t].dst]
  BY Addressed, Basics DEF PubEntry, world, rovers, Publishing, PublishAt
<1>2. CASE entries[my[t].dst][my[t].k] \in {NULL, REDIRECT} /\ PublishReturns(t)
  <2>1. ASSUME my[t].then = "swap", my[t].p = storage PROVE Size[my[t].p] <= n[next_storage]
    <3>1. Migrating(t) /\ Copied(t)
      BY <1>1, <2>1 DEF Migrating, Copied
    <3>2. /\ my[t].dst = next_storage /\ next_storage # storage
          /\ my[t].c = Size[storage] /\ \A j \in 0 .. my[t].c - 1 : entries[storage][j] = REDIRECT
      BY <2>1, <3>1, CopierFacts, Basics DEF MigrateAt
    <3>3. entries[next_storage][my[t].k] = NULL
      <4>1. next_storage \in next_storage .. MaxGen
        BY Basics, ConstFacts DEF Gens
      <4> QED BY <1>1, <1>2, <3>2, <4>1, ConstFacts DEF IInv, GenInv
    <3>4. ~(my[t].k < Size[storage])
      <4>1. SUFFICES ASSUME my[t].k < Size[storage] PROVE FALSE
        OBVIOUS
      <4>2. my[t].k \in Index(storage) /\ my[t].k \in 0 .. my[t].c - 1
        BY <3>2, <4>1, Basics, IndexType
      <4>3. entries[storage][my[t].k] = REDIRECT /\ Element(my[t].k) \in Values
        BY <3>2, <4>2 DEF IInv, DenseInv
      <4> QED BY <3>3, <4>3, ConstFacts DEF Element
    <3> QED BY <1>1, <2>1, <3>2, <3>4, Basics
  <2> QED BY <1>1, <1>2, <2>1, PublishDone
<1>3. CASE entries[my[t].dst][my[t].k] # NULL /\ Goto(t, "pub_cas") /\ UNCHANGED <<my, answer>>
  <2>1. pc'[t] = "pub_cas" /\ \A u \in Threads \ {t} : pc'[u] = pc[u]
    BY <1>3 DEF IInv, TypeInv, Goto
  <2>2. CallAt(t)' /\ EnumAt(t)'
    BY <1>1, <1>3, <2>1, BusyLocal
  <2>3. /\ (Carrying(t)' <=> Carrying(t)) /\ (Carried(t)' <=> Carried(t))
        /\ (Copied(t)' <=> Copied(t)) /\ (Migrating(t)' <=> Migrating(t))
    BY <1>1, <1>3, <2>1 DEF Publishing, Carrying, Carried, Copied, Migrating
  <2>4. PublishAt(t)'
    BY <1>1, <1>3, <2>1, Basics DEF PublishAt, Publishing
  <2>5. MigrateAt(t)'
    <3>1. Element(my[t].c)' = Element(my[t].c)
      BY <1>1, <1>3 DEF Element
    <3> QED BY <1>1, <1>3, <2>1, <2>3, <3>1, Basics DEF MigrateAt
  <2> QED BY <1>1, <1>3, <2>1, <2>2, <2>3, <2>4, <2>5, LocalStep DEF ThreadAt
<1> QED BY <1>2, <1>3 DEF PubEntry

(* A copy that starts has nothing copied; one of the const storage has     *)
(* nothing to copy.                                                        *)
LEMMA StartCopyAt ==
    ASSUME IInv, NEW t \in Threads, NEW q \in Gens, StartCopy(t, q), my[t].p < q, q <= next_storage',
           my[t].p = storage' => n'[next_storage'] \in Nat
    PROVE  /\ pc'[t] \in {"copy", "swap"} /\ my'[t].p = my[t].p
           /\ my'[t].call = my[t].call /\ my'[t].i = my[t].i /\ my'[t].won = my[t].won
           /\ Migrating(t)' /\ PublishAt(t)' /\ MigrateAt(t)'
           /\ \A u \in Threads \ {t} : pc'[u] = pc[u] /\ my'[u] = my[u]
<1> DEFINE m == [my[t] EXCEPT !.q = q, !.dst = q, !.c = 0]
           l == IF Size[my[t].p] = 0 THEN "swap" ELSE "copy"
<1>1. my' = [my EXCEPT ![t] = m] /\ Goto(t, l)
  BY DEF StartCopy
<1>2. /\ m.call = my[t].call /\ m.p = my[t].p /\ m.i = my[t].i /\ m.won = my[t].won
      /\ m.q = q /\ m.c = 0 /\ m.dst = q
  BY DEF IInv, TypeInv, Locals
<1> HIDE DEF m
<1>3. l \in {"copy", "swap"} /\ (l = "swap" <=> Size[my[t].p] = 0) /\ Size[my[t].p] \in Nat
  BY Basics
<1> HIDE DEF l
<1>4. /\ pc'[t] = l /\ my'[t] = m
      /\ \A u \in Threads \ {t} : pc'[u] = pc[u] /\ my'[u] = my[u]
  BY <1>1, Moved DEF IInv
<1>5. /\ Migrating(t)' /\ ~Publishing(t)' /\ ~Carrying(t)' /\ ~Carried(t)'
      /\ (Copied(t)' <=> l = "swap")
  BY <1>3, <1>4 DEF Publishing, Carrying, Carried, Copied, Migrating
<1>6. PublishAt(t)'
  BY <1>3, <1>4, <1>5 DEF PublishAt
<1>7. MigrateAt(t)'
  <2>1. \A j \in 0 .. m.c - 1 : entries'[m.p][j] = REDIRECT
    BY <1>2
  <2>2. l = "copy" => 0 < Size[my[t].p]
    BY <1>3
  <2>3. l = "swap" /\ my[t].p = storage' => Size[my[t].p] <= n'[next_storage']
    BY <1>3
  <2> QED BY <1>2, <1>3, <1>4, <1>5, <2>1, <2>2, <2>3 DEF MigrateAt
<1> QED BY <1>2, <1>3, <1>4, <1>5, <1>6, <1>7

LEMMA MigNextStep ==
    ASSUME IInv, TypeInv', NEW t \in Threads, MigNext(t)
    PROVE  IInv' /\ Forward
<1>1. /\ UNCHANGED <<storage, next_storage, n, entries, freed, rindex>>
      /\ pc[t] = "mig_next" /\ ~Migrating(t) /\ n[my[t].p] = Size[my[t].p]
  BY QuietNow, Basics DEF MigNext, world, rovers, CallAt
<1>2. CASE next_storage = my[t].p
  BY <1>1, <1>2, GotoStep DEF MigNext
<1>3. CASE next_storage # my[t].p
  <2>1. StartCopy(t, next_storage)
    BY <1>3 DEF MigNext
  <2>2. my[t].p < next_storage
    BY <1>3, Basics
  <2>3. /\ pc'[t] \in {"copy", "swap"} /\ my'[t].p = my[t].p
        /\ my'[t].call = my[t].call /\ my'[t].i = my[t].i /\ my'[t].won = my[t].won
        /\ Migrating(t)' /\ PublishAt(t)' /\ MigrateAt(t)'
        /\ \A u \in Threads \ {t} : pc'[u] = pc[u] /\ my'[u] = my[u]
    BY <1>1, <2>1, <2>2, Basics, StartCopyAt
  <2>4. CallAt(t)' /\ EnumAt(t)'
    BY <1>1, <2>3, BusyLocal
  <2> QED BY <1>1, <2>3, <2>4, LocalStep DEF ThreadAt
<1> QED BY <1>2, <1>3

(* copy goes on to the next slot, or to publish. *)
LEMMA CopyNextAt ==
    ASSUME IInv, TypeInv', NEW t \in Threads, CopyNext(t), pc[t] = "copy" \/ Carrying(t),
           entries'[my[t].p][my[t].c] = REDIRECT, next_storage' = next_storage,
           \A j \in 0 .. my[t].c - 1 : entries'[my[t].p][j] = REDIRECT
    PROVE  /\ pc'[t] \in {"copy", "pub_n"} /\ my'[t].p = my[t].p
           /\ my'[t].call = my[t].call /\ my'[t].i = my[t].i /\ my'[t].won = my[t].won
           /\ Migrating(t)' /\ PublishAt(t)' /\ MigrateAt(t)'
           /\ \A u \in Threads \ {t} : pc'[u] = pc[u] /\ my'[u] = my[u]
<1> DEFINE last == my[t].c = Size[my[t].p] - 1
           x == IF last THEN "swap" ELSE "idle"
           m == [my[t] EXCEPT !.c = @ + 1, !.value = NULL, !.k = 0, !.then = x]
           l == IF last THEN "pub_n" ELSE "copy"
<1>1. my' = [my EXCEPT ![t] = m] /\ Goto(t, l)
  BY DEF CopyNext
<1>2. /\ m.call = my[t].call /\ m.p = my[t].p /\ m.i = my[t].i /\ m.won = my[t].won
      /\ m.q = my[t].q /\ m.c = my[t].c + 1 /\ m.dst = my[t].dst /\ m.then = x
  BY DEF IInv, TypeInv, Locals
<1> HIDE DEF m
<1>3. \/ l = "pub_n" /\ x = "swap" /\ my[t].c + 1 = Size[my[t].p]
      \/ l = "copy" /\ my[t].c + 1 < Size[my[t].p]
  <2>1. my[t].c < Size[my[t].p]
    BY Basics DEF MigrateAt
  <2> QED BY <2>1, Basics
<1> HIDE DEF l, x
<1>4. /\ pc'[t] = l /\ my'[t] = m
      /\ \A u \in Threads \ {t} : pc'[u] = pc[u] /\ my'[u] = my[u]
  BY <1>1, Moved DEF IInv
<1>5. /\ Migrating(t)' /\ ~Carrying(t)' /\ ~Carried(t)'
      /\ (Publishing(t)' <=> l = "pub_n") /\ (Copied(t)' <=> l = "pub_n")
  BY <1>2, <1>3, <1>4 DEF Publishing, Carrying, Carried, Copied, Migrating
<1>6. /\ my[t].p < my[t].q /\ my[t].q <= next_storage
      /\ my[t].p < my[t].dst /\ my[t].dst <= next_storage
  BY Basics DEF MigrateAt, Migrating
<1>7. PublishAt(t)'
  BY <1>2, <1>3, <1>4, <1>5, <1>6 DEF PublishAt
<1>8. MigrateAt(t)'
  <2>1. \A j \in 0 .. m.c - 1 : entries'[m.p][j] = REDIRECT
    BY <1>2, Basics
  <2> QED BY <1>2, <1>3, <1>4, <1>5, <1>6, <2>1 DEF MigrateAt
<1> QED BY <1>2, <1>3, <1>4, <1>5, <1>7, <1>8

(* The inner loop of copy; no copier finds an empty slot in its source. *)
LEMMA CopyLoopStep ==
    ASSUME IInv, TypeInv', NEW t \in Threads, pc[t] = "copy" \/ Carrying(t),
           CopyLoop(t, entries[my[t].p][my[t].c]),
           UNCHANGED <<storage, next_storage, n, entries, freed, rindex>>
    PROVE  IInv' /\ Forward
<1> DEFINE v == entries[my[t].p][my[t].c]
<1>1. Migrating(t) /\ my[t].c \in Index(my[t].p) /\ pc[t] # "idle"
  BY Addressed DEF Migrating, Carrying, Publishing
<1>2. /\ my[t].p < my[t].q /\ my[t].q <= next_storage
      /\ my[t].p < my[t].dst /\ my[t].dst <= next_storage
      /\ my[t].c < Size[my[t].p]
      /\ \A j \in 0 .. my[t].c - 1 : entries[my[t].p][j] = REDIRECT
  BY <1>1, Basics DEF MigrateAt
<1>3. CASE v = REDIRECT
  <2>1. CopyNext(t)
    BY <1>3 DEF CopyLoop
  <2>2. /\ pc'[t] \in {"copy", "pub_n"} /\ my'[t].p = my[t].p
        /\ my'[t].call = my[t].call /\ my'[t].i = my[t].i /\ my'[t].won = my[t].won
        /\ Migrating(t)' /\ PublishAt(t)' /\ MigrateAt(t)'
        /\ \A u \in Threads \ {t} : pc'[u] = pc[u] /\ my'[u] = my[u]
    BY <1>2, <1>3, <2>1, CopyNextAt
  <2>3. CallAt(t)' /\ EnumAt(t)'
    BY <1>1, <2>2, BusyLocal
  <2> QED BY <2>2, <2>3, LocalStep DEF ThreadAt
<1>4. CASE v # REDIRECT
  <2>1. v \in Values /\ Element(my[t].c) = v
    BY <1>1, <1>4, SourceFacts
  <2> DEFINE m == [my[t] EXCEPT !.value = v]
  <2>2. my' = [my EXCEPT ![t] = m] /\ Goto(t, "put")
    BY <1>4, <2>1, ConstFacts DEF CopyLoop
  <2>3. /\ m.call = my[t].call /\ m.p = my[t].p /\ m.i = my[t].i /\ m.won = my[t].won
        /\ m.q = my[t].q /\ m.c = my[t].c /\ m.dst = my[t].dst /\ m.value = v
    BY DEF IInv, TypeInv, Locals
  <2> HIDE DEF m
  <2>4. /\ pc'[t] = "put" /\ my'[t] = m
        /\ \A u \in Threads \ {t} : pc'[u] = pc[u] /\ my'[u] = my[u]
    BY <2>2, Moved DEF IInv
  <2>5. CallAt(t)' /\ EnumAt(t)'
    BY <1>1, <2>3, <2>4, BusyLocal
  <2>6. /\ Migrating(t)' /\ ~Publishing(t)' /\ Carrying(t)' /\ ~Carried(t)' /\ ~Copied(t)'
    BY <2>4 DEF Publishing, Carrying, Carried, Copied, Migrating
  <2>7. Element(my[t].c)' = v
    BY <2>1, <2>3, <2>4 DEF Element
  <2>8. PublishAt(t)' /\ MigrateAt(t)'
    BY <1>2, <2>1, <2>3, <2>4, <2>6, <2>7 DEF PublishAt, MigrateAt
  <2> QED BY <2>3, <2>4, <2>5, <2>6, <2>8, LocalStep DEF ThreadAt
<1> QED BY <1>3, <1>4

LEMMA CopyStep ==
    ASSUME IInv, TypeInv', NEW t \in Threads, Copy(t)
    PROVE  IInv' /\ Forward
  BY CopyLoopStep DEF Copy, world, rovers

LEMMA PutFollowStep ==
    ASSUME IInv, TypeInv', NEW t \in Threads, PutFollow(t)
    PROVE  IInv' /\ Forward
<1> DEFINE m == [my[t] EXCEPT !.dst = next_storage]
<1>1. /\ my' = [my EXCEPT ![t] = m] /\ Goto(t, "put") /\ pc[t] = "follow"
      /\ UNCHANGED <<storage, next_storage, n, entries, freed, rindex>>
  BY DEF PutFollow, world, rovers
<1>2. /\ m.call = my[t].call /\ m.p = my[t].p /\ m.i = my[t].i /\ m.won = my[t].won
      /\ m.q = my[t].q /\ m.c = my[t].c /\ m.dst = next_storage /\ m.value = my[t].value
  BY DEF IInv, TypeInv, Locals
<1> HIDE DEF m
<1>3. /\ pc'[t] = "put" /\ my'[t] = m
      /\ \A u \in Threads \ {t} : pc'[u] = pc[u] /\ my'[u] = my[u]
  BY <1>1, Moved DEF IInv
<1>4. CallAt(t)' /\ EnumAt(t)'
  BY <1>1, <1>2, <1>3, BusyLocal
<1>5. Migrating(t) /\ Carrying(t)
  BY <1>1 DEF Migrating, Carrying
<1>6. /\ Migrating(t)' /\ ~Publishing(t)' /\ Carrying(t)' /\ ~Carried(t)' /\ ~Copied(t)'
  BY <1>3 DEF Publishing, Carrying, Carried, Copied, Migrating
<1>7. Element(my[t].c)' = Element(my[t].c)
  BY <1>1, <1>2, <1>3 DEF Element
<1>8. my[t].p < next_storage
  BY <1>5, CopierFacts
<1>9. PublishAt(t)' /\ MigrateAt(t)'
  BY <1>1, <1>2, <1>3, <1>5, <1>6, <1>7, <1>8, Basics DEF PublishAt, MigrateAt
<1> QED BY <1>1, <1>2, <1>3, <1>4, <1>6, <1>9, LocalStep DEF ThreadAt

-----------------------------------------------------------------------------
(* The steps that change the storages *)

(* A compare and swap that fails. *)
LEMMA CasFails ==
    ASSUME TypeInv, NEW g \in Gens, NEW i \in Index(g), NEW new, NEW expect,
           CasEntry(g, i, new, expect), entries[g][i] # expect
    PROVE  entries' = entries
<1>1. entries = [h \in Gens |-> entries[h]] /\ entries[g] \in [Index(g) -> Words]
  BY DEF TypeInv
<1>2. entries' = [entries EXCEPT ![g] = [entries[g] EXCEPT ![i] = entries[g][i]]]
  BY DEF CasEntry
<1>3. [entries[g] EXCEPT ![i] = entries[g][i]] = entries[g]
  BY <1>1
<1> QED BY <1>1, <1>2, <1>3

(* The other threads' part of a step that changes the storages. *)
LEMMA SharedStep ==
    ASSUME IInv, TypeInv', GenInv', DenseInv', MigratorInv', Forward, NEW t \in Threads,
           \A u \in Threads \ {t} :
              pc'[u] = pc[u] /\ my'[u] = my[u] /\ rindex'[u] = rindex[u],
           ThreadAt(t)'
    PROVE  IInv' /\ Forward
<1>1. ASSUME NEW u \in Threads PROVE ThreadAt(u)'
  BY ThreadStable
<1> QED BY <1>1 DEF IInv

(* A migration stays in a thread's hands. *)
LEMMA MigratorStable ==
    ASSUME IInv, NEW t \in Threads, UNCHANGED <<storage, next_storage>>,
           \A u \in Threads \ {t} : pc'[u] = pc[u] /\ my'[u] = my[u],
           Migrating(t) /\ my[t].p = storage => Migrating(t)' /\ my'[t].p = my[t].p
    PROVE  MigratorInv'
<1>1. SUFFICES ASSUME next_storage # storage
               PROVE  \E u \in Threads : Migrating(u)' /\ my'[u].p = storage
  BY DEF MigratorInv
<1>2. PICK u \in Threads : Migrating(u) /\ my[u].p = storage
  BY <1>1 DEF IInv, MigratorInv
<1>3. CASE u = t
  BY <1>2, <1>3
<1>4. CASE u # t
  BY <1>2, <1>4 DEF Migrating, Carrying, Copied, Publishing
<1> QED BY <1>3, <1>4

(* A value that is put into an empty slot of the next storage, an element  *)
(* at its index if there is a migration.                                   *)
LEMMA FillSlot ==
    ASSUME IInv, TypeInv', NEW i \in Index(next_storage), NEW v \in Values,
           CasEntry(next_storage, i, v, NULL), entries[next_storage][i] = NULL,
           next_storage # storage => i \in Index(storage) /\ Element(i) = v,
           UNCHANGED <<storage, next_storage, n, freed>>
    PROVE  GenInv' /\ DenseInv' /\ Forward
<1>1. /\ storage \in Nat /\ next_storage \in Nat /\ storage \in Gens /\ next_storage \in Gens
      /\ n \in [Gens -> Nat] /\ Size \in [Gens -> Nat] /\ \A g \in Gens : n[g] <= Size[g]
      /\ v \in Words /\ v # NULL /\ v # REDIRECT /\ MaxGen \in Nat
  BY ConstFacts DEF IInv, TypeInv, Gens, Words
<1>2. /\ entries'[next_storage][i] = v
      /\ \A h \in Gens : \A j \in Index(h) :
            h # next_storage \/ j # i => entries'[h][j] = entries[h][j]
  BY <1>1, CasFacts DEF IInv
<1>3. next_storage \in {storage, storage + 1} /\ GenInv
  BY DEF IInv, GenInv
<1>4. \A g \in 0 .. storage - 1 : g \in Gens /\ g # next_storage
  BY <1>1, <1>3 DEF Gens
<1>5. \A g \in next_storage .. MaxGen : g \in Gens
  BY <1>1 DEF Gens
<1>6. GenInv'
  <2>1. \A g \in 0 .. storage - 1 : \A j \in Index(g) : entries'[g][j] = REDIRECT
    BY <1>2, <1>3, <1>4 DEF GenInv
  <2>2. \A g \in next_storage .. MaxGen : \A j \in Index(g) :
          entries'[g][j] # NULL => g = next_storage /\ entries'[g][j] # REDIRECT
    BY <1>1, <1>2, <1>3, <1>5 DEF GenInv
  <2> QED BY <1>3, <2>1, <2>2 DEF GenInv
<1>7. \A g \in Gens : \A j \in Index(g) :
        /\ entries[g][j] # NULL => entries'[g][j] # NULL
        /\ entries[g][j] = REDIRECT => entries'[g][j] = REDIRECT
  BY <1>1, <1>2, ConstFacts
<1>8. ASSUME NEW j \in Index(storage), Element(j) \in Values PROVE Element(j)' = Element(j)
  <2>1. CASE j = i
    <3>1. CASE next_storage # storage
      <4>1. entries[storage][j] = v /\ entries'[storage][j] = v
        BY <1>1, <1>2, <1>8, <2>1, <3>1, ConstFacts DEF Element
      <4> QED BY <1>1, <4>1 DEF Element
    <3>2. CASE next_storage = storage
      BY <1>8, <2>1, <3>2, ConstFacts DEF Element
    <3> QED BY <3>1, <3>2
  <2>2. CASE j # i
    <3>1. entries'[storage][j] = entries[storage][j]
      BY <1>1, <1>2, <2>2
    <3>2. j \in Index(next_storage)
      <4>1. storage \in 0 .. next_storage /\ next_storage \in 0 .. next_storage
        BY <1>1, <1>3
      <4>2. Size[storage] <= Size[next_storage]
        BY <1>1, <1>3, <4>1 DEF GenInv
      <4> QED BY <1>1, <4>2, IndexType
    <3>3. entries'[next_storage][j] = entries[next_storage][j]
      BY <1>1, <1>2, <2>2, <3>2
    <3> QED BY <3>1, <3>3 DEF Element
  <2> QED BY <2>1, <2>2
<1>9. Forward
  BY <1>1, <1>7, <1>8 DEF Forward
<1>10. DenseInv'
  <2>1. ASSUME NEW g \in Gens, NEW j \in 0 .. n[g] - 1 PROVE entries'[g][j] # NULL
    <3>1. j \in Index(g)
      <4>1. n[g] \in Nat /\ Size[g] \in Nat /\ n[g] <= Size[g]
        BY <1>1
      <4> QED BY <4>1, IndexType
    <3> QED BY <1>7, <3>1 DEF IInv, DenseInv
  <2>2. ASSUME NEW j \in Index(storage), next_storage # storage
        PROVE  Element(j)' \in Values /\ entries'[next_storage][j] \in {NULL, Element(j)'}
    <3>1. Element(j) \in Values /\ entries[next_storage][j] \in {NULL, Element(j)}
      BY <2>2 DEF IInv, DenseInv
    <3>2. Element(j)' = Element(j)
      BY <1>8, <3>1
    <3>3. j \in Index(next_storage)
      <4>1. storage \in 0 .. next_storage /\ next_storage \in 0 .. next_storage
        BY <1>1, <1>3
      <4>2. Size[storage] <= Size[next_storage]
        BY <1>1, <1>3, <4>1 DEF GenInv
      <4> QED BY <1>1, <4>2, IndexType
    <3> QED BY <1>1, <1>2, <2>2, <3>1, <3>2, <3>3
  <2> QED BY <2>1, <2>2 DEF DenseInv
<1> QED BY <1>6, <1>9, <1>10

(* Nothing changes in the storages. *)
LEMMA StillForward ==
    ASSUME IInv, UNCHANGED <<storage, next_storage, n, entries, freed>>
    PROVE  GenInv' /\ DenseInv' /\ Forward
<1>1. n \in [Gens -> Nat] /\ storage \in Nat /\ next_storage \in Nat /\ storage \in Gens
  BY DEF IInv, TypeInv, Gens
<1> QED BY <1>1 DEF Forward, Element, IInv, GenInv, DenseInv

(* An empty slot that an add finds is one of the current storage, and no   *)
(* migration has begun.                                                    *)
LEMMA AddFindsCurrent ==
    ASSUME IInv, NEW t \in Threads, pc[t] = "add_cas", entries[my[t].p][my[t].i] = NULL
    PROVE  my[t].p = storage /\ next_storage = storage
<1>1. my[t].i \in Index(my[t].p) /\ GenInv /\ DenseInv
  BY Addressed DEF IInv
<1>2. my[t].p = storage
  <2>1. SUFFICES ASSUME my[t].p # storage PROVE FALSE
    OBVIOUS
  <2>2. my[t].p \in 0 .. storage - 1
    BY <2>1, Basics
  <2> QED BY <1>1, <2>2, ConstFacts DEF GenInv
<1>3. next_storage = storage
  <2>1. SUFFICES ASSUME next_storage # storage PROVE FALSE
    OBVIOUS
  <2>2. n[storage] = Size[storage]
    BY <1>1, <2>1 DEF GenInv
  <2>3. my[t].i \in 0 .. n[storage] - 1
    BY <1>1, <1>2, <2>2, Basics, IndexType
  <2> QED BY <1>1, <1>2, <2>3, Basics DEF DenseInv
<1> QED BY <1>2, <1>3

LEMMA AddCasStep ==
    ASSUME IInv, TypeInv', NEW t \in Threads, AddCas(t)
    PROVE  IInv' /\ Forward
<1> DEFINE found == entries[my[t].p][my[t].i]
<1>1. /\ UNCHANGED <<storage, next_storage, n, freed, rindex>>
      /\ pc[t] = "add_cas" /\ ~Migrating(t) /\ my[t].call.op = "add"
      /\ CasEntry(my[t].p, my[t].i, my[t].call.arg, NULL)
  BY QuietNow, Basics DEF AddCas, world, rovers, CallAt
<1>2. /\ my[t].p \in Gens /\ my[t].i \in Index(my[t].p) /\ my[t].call.arg \in Values
  BY <1>1, Addressed
<1>3. CASE found = REDIRECT
  <2>1. entries' = entries
    BY <1>1, <1>2, <1>3, CasFails, ConstFacts DEF IInv
  <2>2. n[my[t].p] = Size[my[t].p]
    BY <1>2, <1>3, Basics, FrozenFull
  <2> QED BY <1>1, <1>3, <2>1, <2>2, GotoStep DEF AddCas
<1>4. CASE found # REDIRECT
  <2> DEFINE x == IF found = NULL THEN "idle" ELSE "add_n"
             w == found = NULL
             m == [my[t] EXCEPT !.won = w, !.dst = my[t].p, !.then = x]
  <2>1. my' = [my EXCEPT ![t] = m] /\ Goto(t, "pub_n")
    BY <1>4 DEF AddCas
  <2>2. x \in {"idle", "add_n"}
    OBVIOUS
  <2> HIDE DEF x, w
  <2>3. m.call = my[t].call /\ m.p = my[t].p /\ m.i = my[t].i /\ m.dst = my[t].p /\ m.then = x
    BY DEF IInv, TypeInv, Locals
  <2> HIDE DEF m
  <2>4. /\ pc'[t] = "pub_n" /\ my'[t] = m
        /\ \A u \in Threads \ {t} : pc'[u] = pc[u] /\ my'[u] = my[u]
    BY <2>1, Moved DEF IInv
  <2>5. GenInv' /\ DenseInv' /\ Forward
    <3>1. CASE found = NULL
      BY <1>1, <1>2, <3>1, AddFindsCurrent, FillSlot
    <3>2. CASE found # NULL
      <4>1. entries' = entries
        BY <1>1, <1>2, <3>2, CasFails DEF IInv
      <4> QED BY <1>1, <4>1, StillForward
    <3> QED BY <3>1, <3>2
  <2>6. CallAt(t)' /\ EnumAt(t)'
    BY <1>1, <2>3, <2>4, <2>5, Busy
  <2>7. PublishAt(t)'
    <3>1. my[t].p <= next_storage
      BY Basics
    <3> QED BY <1>1, <2>2, <2>3, <2>4, <3>1 DEF PublishAt
  <2>8. MigrateAt(t)'
    BY <2>2, <2>3, <2>4 DEF MigrateAt, Publishing, Carrying, Carried, Copied, Migrating
  <2>9. MigratorInv'
    BY <1>1, <2>4, MigratorStable
  <2> QED BY <1>1, <2>4, <2>5, <2>6, <2>7, <2>8, <2>9, SharedStep DEF ThreadAt
<1> QED BY <1>3, <1>4

(* A copier finds room for its value only in the next storage. *)
LEMMA PutFindsNext ==
    ASSUME IInv, NEW t \in Threads, pc[t] = "put", entries[my[t].dst][my[t].c] = NULL
    PROVE  my[t].dst = next_storage /\ next_storage # storage
<1>1. Carrying(t) /\ Migrating(t)
  BY DEF Carrying, Migrating
<1>2. /\ my[t].p < my[t].dst /\ my[t].dst <= next_storage /\ my[t].c < Size[my[t].p]
  BY <1>1, Basics DEF MigrateAt
<1>3. SUFFICES ASSUME my[t].dst <= storage PROVE FALSE
  BY <1>2, Basics
<1>4. my[t].dst \in 1 .. storage /\ my[t].dst - 1 \in 0 .. next_storage /\ my[t].p \in 0 .. next_storage
      /\ my[t].p <= my[t].dst - 1 /\ my[t].dst - 1 \in Gens
  <2>1. /\ storage \in Nat /\ next_storage \in Nat /\ storage <= next_storage
        /\ my[t].p \in Nat /\ my[t].dst \in Nat
    BY Basics
  <2>2. storage <= MaxGen /\ MaxGen \in Nat
    BY Basics, ConstFacts DEF Gens
  <2>3. my[t].dst >= 1 /\ my[t].dst - 1 \in Nat /\ my[t].dst - 1 <= MaxGen
    BY <1>2, <1>3, <2>1, <2>2
  <2>4. my[t].dst - 1 \in Gens
    BY <2>2, <2>3 DEF Gens
  <2> QED BY <1>2, <1>3, <2>1, <2>3, <2>4
<1>5. Size[my[t].dst - 1] <= n[my[t].dst] /\ Size[my[t].p] <= Size[my[t].dst - 1]
  BY <1>4 DEF IInv, GenInv
<1>6. my[t].c \in 0 .. n[my[t].dst] - 1
  <2>1. n[my[t].dst] \in Nat /\ Size[my[t].dst - 1] \in Nat /\ Size[my[t].p] \in Nat /\ my[t].c \in Nat
    BY <1>4, Basics
  <2> QED BY <1>2, <1>5, <2>1
<1> QED BY <1>6, Basics DEF IInv, DenseInv

LEMMA PutStep ==
    ASSUME IInv, TypeInv', NEW t \in Threads, Put(t)
    PROVE  IInv' /\ Forward
<1> DEFINE found == entries[my[t].dst][my[t].c]
<1>1. /\ UNCHANGED <<storage, next_storage, n, freed, rindex>>
      /\ pc[t] = "put" /\ CasEntry(my[t].dst, my[t].c, my[t].value, NULL)
  BY DEF Put, world, rovers
<1>2. Carrying(t) /\ Migrating(t)
  BY <1>1 DEF Carrying, Migrating
<1>3. /\ my[t].c \in Index(my[t].dst) /\ my[t].c \in Index(storage) /\ my[t].c \in Index(next_storage)
      /\ my[t].dst \in Gens
  BY <1>2, Addressed
<1>4. /\ my[t].p < my[t].q /\ my[t].q <= next_storage
      /\ my[t].p < my[t].dst /\ my[t].dst <= next_storage
      /\ \A j \in 0 .. my[t].c - 1 : entries[my[t].p][j] = REDIRECT
      /\ my[t].c < Size[my[t].p] /\ my[t].value \in Values /\ Element(my[t].c) = my[t].value
  BY <1>2, Basics DEF MigrateAt
<1>5. GenInv' /\ DenseInv' /\ Forward /\ (found # NULL => entries' = entries)
  <2>1. CASE found = NULL
    BY <1>1, <1>3, <1>4, <2>1, PutFindsNext, FillSlot
  <2>2. CASE found # NULL
    <3>1. entries' = entries
      BY <1>1, <1>3, <2>2, CasFails DEF IInv
    <3> QED BY <1>1, <3>1, StillForward
  <2> QED BY <2>1, <2>2
<1>6. \A j \in 0 .. my[t].c - 1 : entries'[my[t].p][j] = REDIRECT
  <2>1. \A j \in 0 .. my[t].c - 1 : j \in Index(my[t].p)
    BY <1>4, Basics, IndexType
  <2> QED BY <1>4, <1>5, <2>1, Basics DEF Forward
<1>7. \A i : i = my[t].c => Element(i)' = my[t].value
  BY <1>3, <1>4, <1>5 DEF Forward
<1>8. my[t].p = storage => entries'[next_storage][my[t].c] # NULL
  <2>1. SUFFICES ASSUME my[t].p = storage PROVE entries'[my[t].dst][my[t].c] # NULL
    BY <1>2, CopierFacts
  <2>2. CASE found = NULL
    <3>1. entries'[my[t].dst][my[t].c] = my[t].value
      BY <1>1, <1>3, <1>4, <2>2, CasFacts DEF IInv, Words
    <3> QED BY <1>4, <3>1, ConstFacts
  <2>3. CASE found # NULL
    BY <1>5, <2>3
  <2> QED BY <2>2, <2>3
<1>9. CASE found = REDIRECT /\ Goto(t, "follow") /\ UNCHANGED my
  <2>1. pc'[t] = "follow" /\ \A u \in Threads \ {t} : pc'[u] = pc[u]
    BY <1>9 DEF IInv, TypeInv, Goto
  <2>2. CallAt(t)' /\ EnumAt(t)'
    BY <1>1, <1>5, <1>9, <2>1, Busy
  <2>3. /\ Migrating(t)' /\ ~Publishing(t)' /\ Carrying(t)' /\ ~Carried(t)' /\ ~Copied(t)'
    BY <2>1 DEF Publishing, Carrying, Carried, Copied, Migrating
  <2>4. PublishAt(t)'
    BY <2>1, <2>3 DEF PublishAt
  <2>5. MigrateAt(t)'
    <3>1. Element(my[t].c)' = my[t].value
      BY <1>7, <1>9 DEF Element
    <3> QED BY <1>1, <1>4, <1>6, <1>9, <2>1, <2>3, <3>1 DEF MigrateAt
  <2>6. MigratorInv'
    BY <1>1, <1>9, <2>1, <2>3, MigratorStable
  <2> QED BY <1>1, <1>5, <1>9, <2>1, <2>2, <2>4, <2>5, <2>6, SharedStep DEF ThreadAt
<1>10. CASE my' = [my EXCEPT ![t].then = "freeze"] /\ Goto(t, "pub_n")
  <2> DEFINE m == [my[t] EXCEPT !.then = "freeze"]
  <2>1. my' = [my EXCEPT ![t] = m]
    BY <1>10
  <2>2. /\ m.call = my[t].call /\ m.p = my[t].p /\ m.i = my[t].i /\ m.won = my[t].won
        /\ m.q = my[t].q /\ m.c = my[t].c /\ m.dst = my[t].dst /\ m.value = my[t].value
        /\ m.then = "freeze"
    BY DEF IInv, TypeInv, Locals
  <2> HIDE DEF m
  <2>3. /\ pc'[t] = "pub_n" /\ my'[t] = m
        /\ \A u \in Threads \ {t} : pc'[u] = pc[u] /\ my'[u] = my[u]
    BY <1>10, <2>1, Moved DEF IInv
  <2>4. CallAt(t)' /\ EnumAt(t)'
    BY <1>1, <1>5, <2>2, <2>3, Busy
  <2>5. /\ Migrating(t)' /\ Publishing(t)' /\ Carrying(t)' /\ Carried(t)' /\ ~Copied(t)'
    BY <2>2, <2>3 DEF Publishing, Carrying, Carried, Copied, Migrating
  <2>6. PublishAt(t)'
    BY <1>1, <1>4, <2>2, <2>3, <2>5 DEF PublishAt
  <2>7. MigrateAt(t)'
    <3>1. Element(my[t].c)' = my[t].value
      <4>1. my'[t].c = my[t].c
        BY <2>2, <2>3
      <4> QED BY <1>7, <4>1 DEF Element
    <3> QED BY <1>1, <1>4, <1>6, <1>8, <2>2, <2>3, <2>5, <3>1 DEF MigrateAt
  <2>8. MigratorInv'
    BY <1>1, <2>2, <2>3, <2>5, MigratorStable
  <2> QED BY <1>1, <1>5, <2>3, <2>4, <2>6, <2>7, <2>8, SharedStep DEF ThreadAt
<1> QED BY <1>9, <1>10 DEF Put

LEMMA FreezeStep ==
    ASSUME IInv, TypeInv', NEW t \in Threads, Freeze(t)
    PROVE  IInv' /\ Forward
<1>1. /\ UNCHANGED <<storage, next_storage, n, freed, rindex>>
      /\ pc[t] = "freeze" /\ CasEntry(my[t].p, my[t].c, REDIRECT, my[t].value)
  BY DEF Freeze, world, rovers
<1>2. Carrying(t) /\ Migrating(t) /\ Carried(t)
  BY <1>1 DEF Carrying, Migrating, Carried
<1>3. /\ my[t].c \in Index(my[t].p) /\ my[t].c \in Index(storage) /\ my[t].c \in Index(next_storage)
      /\ my[t].p \in Gens
  BY <1>2, Addressed
<1>4. CASE entries[my[t].p][my[t].c] # my[t].value
  <2>1. entries' = entries
    BY <1>1, <1>3, <1>4, CasFails DEF IInv
  <2> QED BY <1>1, <1>2, <1>4, <2>1, CopyLoopStep DEF Freeze
<1>5. CASE entries[my[t].p][my[t].c] = my[t].value
  <2>1. my[t].value \in Values /\ \A j \in 0 .. my[t].c - 1 : entries[my[t].p][j] = REDIRECT
    BY <1>2, Basics DEF MigrateAt
  <2>2. my[t].p = storage /\ next_storage = storage + 1
    BY <1>2, <1>3, <1>5, <2>1, SourceFacts, CopierFacts, ConstFacts
  <2>3. /\ entries'[storage][my[t].c] = REDIRECT
        /\ \A h \in Gens : \A j \in Index(h) :
              h # storage \/ j # my[t].c => entries'[h][j] = entries[h][j]
    <3>1. REDIRECT \in Words /\ TypeInv
      BY DEF Words, IInv
    <3> QED BY <1>1, <1>3, <1>5, <2>2, <3>1, CasFacts
  <2>4. /\ storage \in Nat /\ storage \in Gens /\ next_storage \in Gens /\ MaxGen \in Nat
        /\ n \in [Gens -> Nat] /\ Size \in [Gens -> Nat] /\ \A g \in Gens : n[g] <= Size[g]
        /\ GenInv /\ DenseInv
    BY Basics, ConstFacts DEF IInv
  <2>5. GenInv'
    <3>1. \A g \in 0 .. storage - 1 : g \in Gens /\ g # storage
      BY <2>4 DEF Gens
    <3>2. \A g \in next_storage .. MaxGen : g \in Gens /\ g # storage
      BY <2>2, <2>4 DEF Gens
    <3>3. \A g \in 0 .. storage - 1 : \A j \in Index(g) : entries'[g][j] = REDIRECT
      BY <2>3, <2>4, <3>1 DEF GenInv
    <3>4. \A g \in next_storage .. MaxGen : \A j \in Index(g) :
            entries'[g][j] # NULL => g = next_storage /\ entries'[g][j] # REDIRECT
      BY <2>3, <2>4, <3>2 DEF GenInv
    <3> QED BY <1>1, <2>4, <3>3, <3>4 DEF GenInv
  <2>6. \A g \in Gens : \A j \in Index(g) :
          /\ entries[g][j] # NULL => entries'[g][j] # NULL
          /\ entries[g][j] = REDIRECT => entries'[g][j] = REDIRECT
    BY <2>3, ConstFacts
  <2>7. Size[storage] <= Size[next_storage]
    BY <1>2, <2>2, CopierFacts
  <2>8. ASSUME NEW j \in Index(storage)
        PROVE  /\ Element(j) \in Values /\ Element(j)' = Element(j)
               /\ entries'[next_storage][j] \in {NULL, Element(j)}
    <3>1. Element(j) \in Values /\ entries[next_storage][j] \in {NULL, Element(j)}
      BY <2>2, <2>4 DEF DenseInv
    <3>2. j \in Index(next_storage)
      BY <2>4, <2>7, IndexType
    <3>3. entries'[next_storage][j] = entries[next_storage][j]
      BY <2>2, <2>3, <2>4, <3>2
    <3>4. CASE j = my[t].c
      <4>1. entries[next_storage][j] # NULL
        BY <1>2, <2>2, <3>4, Basics DEF MigrateAt
      <4> QED BY <1>1, <2>3, <3>1, <3>3, <3>4, <4>1 DEF Element
    <3>5. CASE j # my[t].c
      <4>1. entries'[storage][j] = entries[storage][j]
        BY <2>3, <2>4, <3>5
      <4> QED BY <1>1, <3>1, <3>3, <4>1 DEF Element
    <3> QED BY <3>4, <3>5
  <2>9. Forward
    <3>1. \A j \in Index(storage) : Element(j) \in Values => Element(j)' = Element(j)
      BY <2>8
    <3>2. storage <= storage' /\ next_storage <= next_storage' /\ n[storage] <= n'[storage']
          /\ \A g \in Gens : n[g] <= n'[g]
      BY <1>1, <2>2, <2>4
    <3> QED BY <1>1, <2>6, <3>1, <3>2 DEF Forward
  <2>10. DenseInv'
    <3>1. ASSUME NEW g \in Gens, NEW j \in 0 .. n[g] - 1 PROVE entries'[g][j] # NULL
      <4>1. n[g] \in Nat /\ Size[g] \in Nat /\ n[g] <= Size[g]
        BY <2>4
      <4>2. j \in Index(g)
        BY <4>1, IndexType
      <4> QED BY <2>4, <2>6, <4>2 DEF DenseInv
    <3> QED BY <1>1, <2>8, <3>1 DEF DenseInv
  <2>11. \A j \in 0 .. my[t].c - 1 : entries'[my[t].p][j] = REDIRECT
    <3>1. \A j \in 0 .. my[t].c - 1 : j \in Index(storage)
      BY <1>3, <2>4, Basics, IndexType
    <3> QED BY <2>1, <2>2, <2>4, <2>6, <3>1
  <2>12. /\ pc'[t] \in {"copy", "pub_n"} /\ my'[t].p = my[t].p
         /\ my'[t].call = my[t].call /\ my'[t].i = my[t].i /\ my'[t].won = my[t].won
         /\ Migrating(t)' /\ PublishAt(t)' /\ MigrateAt(t)'
         /\ \A u \in Threads \ {t} : pc'[u] = pc[u] /\ my'[u] = my[u]
    <3>1. CopyNext(t)
      BY <1>5 DEF Freeze
    <3> QED BY <1>1, <1>2, <2>2, <2>3, <2>11, <3>1, CopyNextAt
  <2>13. CallAt(t)' /\ EnumAt(t)'
    BY <1>1, <2>9, <2>12, Busy
  <2>14. MigratorInv'
    BY <1>1, <2>12, MigratorStable
  <2> QED BY <1>1, <2>5, <2>9, <2>10, <2>12, <2>13, <2>14, SharedStep DEF ThreadAt
<1> QED BY <1>4, <1>5

LEMMA PubCasStep ==
    ASSUME IInv, TypeInv', NEW t \in Threads, PubCas(t)
    PROVE  IInv' /\ Forward
<1> DEFINE d == my[t].dst
<1>1. /\ UNCHANGED <<storage, next_storage, freed, entries, my, rindex>>
      /\ pc[t] = "pub_cas" /\ Publishing(t)
      /\ n' = [n EXCEPT ![d] = IF n[d] = my[t].k THEN n[d] + 1 ELSE n[d]]
  BY DEF PubCas, world, rovers, Publishing
<1>2. pc'[t] = "pub_n" /\ \A u \in Threads \ {t} : pc'[u] = pc[u]
  BY DEF PubCas, IInv, TypeInv, Goto
<1>3. /\ storage \in Nat /\ storage \in Gens /\ next_storage \in Gens /\ MaxGen \in Nat
      /\ n \in [Gens -> Nat] /\ Size \in [Gens -> Nat] /\ \A g \in Gens : n[g] <= Size[g]
      /\ d \in Gens /\ my[t].k \in Nat /\ my[t].k < Size[d] /\ entries[d][my[t].k] # NULL
      /\ next_storage \in Nat /\ next_storage \in {storage, storage + 1}
  BY <1>1, Basics, ConstFacts DEF PublishAt
<1>4. /\ n'[d] = (IF n[d] = my[t].k THEN n[d] + 1 ELSE n[d])
      /\ \A g \in Gens : g # d => n'[g] = n[g]
  BY <1>1, <1>3
<1> HIDE DEF d
<1>5. /\ \A g \in Gens : n[g] \in Nat /\ n'[g] \in Nat /\ n[g] <= n'[g]
      /\ \A g \in Gens : n[g] = Size[g] => n'[g] = n[g]
      /\ \A g \in Gens : \A j \in Nat : j < n'[g] => j < n[g] \/ (g = d /\ j = my[t].k)
  <2>1. ASSUME NEW g \in Gens, n'[g] = n[g]
        PROVE  /\ n[g] \in Nat /\ n'[g] \in Nat /\ n[g] <= n'[g]
               /\ \A j \in Nat : j < n'[g] => j < n[g]
    <3>1. n[g] \in Nat
      BY <1>3
    <3> QED BY <2>1, <3>1
  <2>2. ASSUME n'[d] # n[d]
        PROVE  /\ n[d] \in Nat /\ n'[d] \in Nat /\ n[d] <= n'[d] /\ n[d] # Size[d]
               /\ \A j \in Nat : j < n'[d] => j < n[d] \/ j = my[t].k
    <3>1. n[d] \in Nat /\ n[d] = my[t].k /\ n'[d] = n[d] + 1 /\ Size[d] \in Nat
      BY <1>3, <1>4, <2>2
    <3> QED BY <1>3, <3>1
  <2> QED BY <1>4, <2>1, <2>2
<1>6. GenInv /\ DenseInv
  BY DEF IInv
<1>7. GenInv'
  <2>1. ASSUME NEW g \in 0 .. storage - 1 PROVE n'[g] = Size[g]
    <3>1. g \in Gens /\ n[g] = Size[g]
      BY <1>3, <1>6 DEF GenInv, Gens
    <3> QED BY <1>5, <3>1
  <2>2. next_storage # storage => n'[storage] = Size[storage]
    BY <1>3, <1>5, <1>6 DEF GenInv
  <2>3. ASSUME NEW g \in 1 .. storage PROVE Size[g - 1] <= n'[g]
    <3>1. g \in Gens /\ g - 1 \in Gens
      BY <1>3 DEF Gens
    <3>2. Size[g - 1] <= n[g] /\ n[g] \in Nat /\ n'[g] \in Nat /\ n[g] <= n'[g] /\ Size[g - 1] \in Nat
      BY <1>3, <1>5, <1>6, <3>1 DEF GenInv
    <3> QED BY <3>2
  <2> QED BY <1>1, <1>6, <2>1, <2>2, <2>3 DEF GenInv
<1>8. DenseInv'
  <2>1. ASSUME NEW g \in Gens, NEW j \in 0 .. n'[g] - 1 PROVE entries[g][j] # NULL
    <3>1. j \in Nat /\ j < n'[g]
      BY <1>5
    <3>2. CASE j < n[g]
      <4>1. j \in 0 .. n[g] - 1
        BY <1>5, <3>1, <3>2
      <4> QED BY <1>6, <4>1 DEF DenseInv
    <3>3. CASE g = d /\ j = my[t].k
      BY <1>3, <3>3
    <3> QED BY <1>5, <3>1, <3>2, <3>3
  <2>2. \A i : Element(i)' = Element(i)
    BY <1>1 DEF Element
  <2> QED BY <1>1, <1>6, <2>1, <2>2 DEF DenseInv
<1>9. Forward
  <2>1. storage <= storage' /\ next_storage <= next_storage'
    BY <1>1, <1>3
  <2>2. n[storage] <= n'[storage']
    BY <1>1, <1>3, <1>5
  <2>3. \A i : Element(i)' = Element(i)
    BY <1>1 DEF Element
  <2> QED BY <1>1, <1>5, <2>1, <2>2, <2>3 DEF Forward
<1>10. CallAt(t)' /\ EnumAt(t)'
  BY <1>1, <1>2, <1>9, Busy
<1>11. /\ (Carrying(t)' <=> Carrying(t)) /\ (Carried(t)' <=> Carried(t))
       /\ (Copied(t)' <=> Copied(t)) /\ (Migrating(t)' <=> Migrating(t))
  BY <1>1, <1>2 DEF Publishing, Carrying, Carried, Copied, Migrating
<1>12. PublishAt(t)'
  BY <1>1, <1>2, Basics DEF PublishAt, Publishing
<1>13. MigrateAt(t)'
  <2>1. Element(my[t].c)' = Element(my[t].c)
    BY <1>1 DEF Element
  <2> QED BY <1>1, <1>2, <1>11, <2>1, Basics DEF MigrateAt
<1>14. MigratorInv'
  BY <1>1, <1>2, <1>11, MigratorStable
<1> QED BY <1>1, <1>2, <1>7, <1>8, <1>9, <1>10, <1>12, <1>13, <1>14, SharedStep DEF ThreadAt

(* The storage that migrate_storage allocates is the larger one. *)
LEMMA GrownLarger ==
    ASSUME NEW g \in Gens, g + 1 \in Gens
    PROVE  Size[g] \in Nat /\ Size[g + 1] \in Nat /\ Size[g] <= Size[g + 1]
<1>1. g + 1 \in 1 .. MaxGen /\ g \in Nat /\ MinSize \in Nat /\ Size[g] \in Nat /\ Size[g + 1] \in Nat
  BY PointerArrayAssumption DEF Gens
<1>2. Size[g + 1] = Grown(Size[(g + 1) - 1])
  BY <1>1, PointerArrayAssumption
<1>3. (g + 1) - 1 = g
  BY <1>1
<1>4. Size[g + 1] = Grown(Size[g])
  BY <1>2, <1>3
<1> QED BY <1>1, <1>4 DEF Grown

LEMMA MigAllocStep ==
    ASSUME IInv, TypeInv', NEW t \in Threads, MigAlloc(t)
    PROVE  IInv' /\ Forward
<1>1. /\ UNCHANGED <<storage, freed, n, entries, rindex>>
      /\ pc[t] = "mig_alloc" /\ my[t].p < MaxGen /\ ~Migrating(t)
      /\ n[my[t].p] = Size[my[t].p]
  BY QuietNow, Basics DEF MigAlloc, rovers, CallAt
<1>2. CASE next_storage # my[t].p /\ StartCopy(t, next_storage) /\ UNCHANGED next_storage
  <2>1. my[t].p < next_storage
    BY <1>2, Basics
  <2>2. /\ pc'[t] \in {"copy", "swap"} /\ my'[t].p = my[t].p
        /\ my'[t].call = my[t].call /\ my'[t].i = my[t].i /\ my'[t].won = my[t].won
        /\ Migrating(t)' /\ PublishAt(t)' /\ MigrateAt(t)'
        /\ \A u \in Threads \ {t} : pc'[u] = pc[u] /\ my'[u] = my[u]
    BY <1>1, <1>2, <2>1, Basics, StartCopyAt
  <2>3. CallAt(t)' /\ EnumAt(t)'
    BY <1>1, <1>2, <2>2, BusyLocal
  <2> QED BY <1>1, <1>2, <2>2, <2>3, LocalStep DEF ThreadAt
<1>3. CASE next_storage = my[t].p /\ next_storage' = my[t].p + 1 /\ StartCopy(t, my[t].p + 1)
  <2>1. /\ my[t].p = storage /\ next_storage = storage /\ next_storage' = storage + 1
        /\ storage \in Nat /\ storage \in Gens /\ MaxGen \in Nat /\ storage < MaxGen
        /\ n \in [Gens -> Nat] /\ Size \in [Gens -> Nat] /\ \A g \in Gens : n[g] <= Size[g]
    BY <1>1, <1>3, Basics, ConstFacts
  <2>2. storage + 1 \in Gens /\ n[storage] = Size[storage] /\ GenInv /\ DenseInv
    BY <1>1, <2>1 DEF Gens, IInv
  <2>3. Size[storage] <= Size[storage + 1]
    BY <2>1, <2>2, GrownLarger
  <2>4. \A g \in storage + 1 .. MaxGen : \A i \in Index(g) : entries[g][i] = NULL
    BY <2>1, <2>2 DEF GenInv
  <2>5. ASSUME NEW i \in Index(storage) PROVE entries[storage][i] \in Values
    <3>1. storage \in next_storage .. MaxGen /\ i \in 0 .. n[storage] - 1
      BY <2>1, <2>2, IndexType
    <3>2. entries[storage][i] # NULL /\ entries[storage][i] # REDIRECT
      BY <2>1, <2>2, <3>1 DEF GenInv, DenseInv
    <3>3. entries[storage][i] \in Words
      BY <2>1 DEF IInv, TypeInv
    <3> QED BY <3>2, <3>3 DEF Words
  <2>6. ASSUME NEW i \in Index(storage)
        PROVE  /\ Element(i)' = Element(i) /\ Element(i) \in Values
               /\ entries[storage + 1][i] = NULL
    <3>1. i \in Index(storage + 1) /\ storage + 1 \in storage + 1 .. MaxGen
      BY <2>1, <2>2, <2>3, IndexType
    <3>2. entries[storage][i] \in Values /\ entries[storage][i] # REDIRECT
      BY <2>5, ConstFacts
    <3> QED BY <1>1, <2>4, <3>1, <3>2 DEF Element
  <2>7. GenInv'
    <3>1. ASSUME NEW g \in 0 .. storage + 1, NEW h \in 0 .. storage + 1, g <= h
          PROVE  Size[g] <= Size[h]
      <4>1. CASE h <= storage
        BY <2>1, <2>2, <3>1, <4>1 DEF GenInv
      <4>2. CASE h = storage + 1 /\ g <= storage
        <5>1. Size[g] <= Size[storage] /\ g \in Gens
          BY <2>1, <2>2, <4>2 DEF GenInv, Gens
        <5> QED BY <2>1, <2>2, <2>3, <4>2, <5>1
      <4>3. CASE h = storage + 1 /\ g = storage + 1
        BY <2>1, <2>2, <4>3
      <4> QED BY <2>1, <3>1, <4>1, <4>2, <4>3
    <3> QED BY <1>1, <2>1, <2>2, <2>4, <3>1 DEF GenInv
  <2>8. DenseInv'
    BY <1>1, <2>1, <2>2, <2>6 DEF DenseInv
  <2>9. Forward
    <3>1. /\ storage <= storage' /\ next_storage <= next_storage' /\ n[storage] <= n'[storage']
          /\ \A g \in Gens : n[g] <= n'[g]
      BY <1>1, <2>1
    <3>2. \A i \in Index(storage) : Element(i) \in Values => Element(i)' = Element(i)
      BY <2>6
    <3> QED BY <1>1, <3>1, <3>2 DEF Forward
  <2>10. /\ pc'[t] \in {"copy", "swap"} /\ my'[t].p = my[t].p
         /\ my'[t].call = my[t].call /\ my'[t].i = my[t].i /\ my'[t].won = my[t].won
         /\ Migrating(t)' /\ PublishAt(t)' /\ MigrateAt(t)'
         /\ \A u \in Threads \ {t} : pc'[u] = pc[u] /\ my'[u] = my[u]
    <3>1. my[t].p < storage + 1 /\ storage + 1 <= next_storage' /\ n'[next_storage'] \in Nat
      BY <1>1, <2>1, <2>2
    <3> QED BY <1>3, <2>1, <2>2, <3>1, StartCopyAt
  <2>11. CallAt(t)' /\ EnumAt(t)'
    BY <1>1, <2>9, <2>10, Busy
  <2>12. MigratorInv'
    BY <1>1, <2>1, <2>10 DEF MigratorInv
  <2> QED BY <1>1, <2>7, <2>8, <2>9, <2>10, <2>11, <2>12, SharedStep DEF ThreadAt
<1> QED BY <1>2, <1>3 DEF MigAlloc

LEMMA SwapStep ==
    ASSUME IInv, TypeInv', NEW t \in Threads, Swap(t)
    PROVE  IInv' /\ Forward
<1> DEFINE m == [my[t] EXCEPT !.q = 0, !.c = 0, !.dst = 0, !.then = "idle"]
<1>1. /\ UNCHANGED <<next_storage, n, entries, rindex>> /\ pc[t] = "swap"
      /\ my' = [my EXCEPT ![t] = m] /\ Goto(t, "load")
  BY DEF Swap, rovers
<1>2. m.call = my[t].call /\ m.p = my[t].p /\ m.i = my[t].i /\ m.won = my[t].won
  BY DEF IInv, TypeInv, Locals
<1> HIDE DEF m
<1>3. /\ pc'[t] = "load" /\ my'[t] = m
      /\ \A u \in Threads \ {t} : pc'[u] = pc[u] /\ my'[u] = my[u]
  BY <1>1, Moved DEF IInv
<1>4. Copied(t) /\ Migrating(t)
  BY <1>1 DEF Copied, Migrating
<1>5. ASSUME Forward PROVE ThreadAt(t)'
  <2>1. /\ storage <= storage' /\ storage' \in Nat /\ n[storage] <= n'[storage'] /\ n'[storage'] \in Nat
    BY <1>5 DEF Forward, TypeInv, Gens
  <2>2. CallAt(t)'
    BY <1>1, <1>2, <1>3, <2>1, Basics DEF CallAt
  <2>3. EnumAt(t)'
    <3>1. Covered(t)' <=> Covered(t)
      BY <1>2, <1>3 DEF Covered
    <3>2. n[storage] \in Nat /\ rindex[t] \in Nat /\ my[t].i \in Nat /\ EnumAt(t)
      BY Basics
    <3> QED BY <1>1, <1>2, <1>3, <2>1, <3>1, <3>2 DEF EnumAt
  <2> QED BY <1>3, <2>2, <2>3, Quiet
<1>6. /\ storage \in Nat /\ storage \in Gens /\ next_storage \in Gens /\ MaxGen \in Nat
      /\ n \in [Gens -> Nat] /\ Size \in [Gens -> Nat] /\ freed \in [Gens -> Nat] /\ GenInv /\ DenseInv
  BY Basics, ConstFacts DEF IInv, TypeInv
<1>7. CASE storage # my[t].p
  <2>1. UNCHANGED <<storage, freed>>
    BY <1>6, <1>7 DEF Swap
  <2>2. Forward
    BY <1>1, <2>1, StillForward
  <2> QED BY <1>1, <1>3, <1>5, <1>7, <2>1, <2>2, LocalStep
<1>8. CASE storage = my[t].p
  <2>1. /\ next_storage = storage + 1 /\ my[t].q = next_storage /\ n[storage] = Size[storage]
        /\ Size[storage] <= n[next_storage]
        /\ \A j \in Index(storage) : entries[storage][j] = REDIRECT
    <3>1. /\ my[t].c = Size[storage] /\ \A j \in 0 .. my[t].c - 1 : entries[storage][j] = REDIRECT
          /\ Size[storage] <= n[next_storage]
      BY <1>1, <1>4, <1>8, Basics DEF MigrateAt
    <3> QED BY <1>4, <1>8, <3>1, CopierFacts DEF Index
  <2>2. /\ storage' = storage + 1 /\ next_storage' = storage + 1
        /\ freed'[storage] = freed[storage] + (IF Size[storage] = 0 THEN 0 ELSE 1)
        /\ \A g \in Gens : g # storage => freed'[g] = freed[g]
    BY <1>1, <1>6, <1>8, <2>1 DEF Swap
  <2>3. GenInv'
    <3>1. storage \in storage .. MaxGen
      BY <1>6 DEF Gens
    <3>2. freed[storage] = 0
      BY <1>6, <3>1 DEF GenInv
    <3>3. freed'[storage] = IF Size[storage] = 0 THEN 0 ELSE 1
      BY <2>2, <3>2
    <3>4. ASSUME NEW g \in 0 .. storage
          PROVE  /\ freed'[g] = IF Size[g] = 0 THEN 0 ELSE 1
                 /\ n[g] = Size[g] /\ \A i \in Index(g) : entries[g][i] = REDIRECT
      <4>1. CASE g = storage
        BY <2>1, <3>3, <4>1
      <4>2. CASE g # storage
        <5>1. g \in 0 .. storage - 1 /\ g \in Gens
          BY <1>6, <4>2 DEF Gens
        <5> QED BY <1>6, <2>2, <4>2, <5>1 DEF GenInv
      <4> QED BY <4>1, <4>2
    <3>5. ASSUME NEW g \in storage + 1 .. MaxGen PROVE freed'[g] = 0
      <4>1. g \in storage .. MaxGen /\ g \in Gens /\ g # storage
        BY <1>6 DEF Gens
      <4> QED BY <1>6, <2>2, <4>1 DEF GenInv
    <3>6. ASSUME NEW g \in 1 .. storage + 1 PROVE Size[g - 1] <= n[g]
      <4>1. CASE g = storage + 1
        BY <1>6, <2>1, <4>1
      <4>2. CASE g # storage + 1
        BY <1>6, <4>2 DEF GenInv
      <4> QED BY <4>1, <4>2
    <3>7. (storage + 1) - 1 = storage
      BY <1>6
    <3> QED BY <1>1, <1>6, <2>1, <2>2, <3>4, <3>5, <3>6, <3>7 DEF GenInv
  <2>4. DenseInv'
    BY <1>1, <1>6, <2>2 DEF DenseInv
  <2>5. ASSUME NEW i \in Index(storage) PROVE Element(i)' = Element(i)
    BY <1>1, <2>1, <2>2, <2>5 DEF Element
  <2>6. Forward
    <3>1. /\ storage <= storage' /\ next_storage <= next_storage' /\ storage' = next_storage
          /\ n[storage] <= n'[storage'] /\ \A g \in Gens : n[g] <= n'[g]
      BY <1>1, <1>6, <2>1, <2>2
    <3> QED BY <1>1, <2>5, <3>1 DEF Forward
  <2>7. MigratorInv'
    BY <2>2 DEF MigratorInv
  <2> QED BY <1>1, <1>3, <1>5, <2>3, <2>4, <2>6, <2>7, SharedStep
<1> QED BY <1>7, <1>8

-----------------------------------------------------------------------------
(* Every step keeps the inductive invariant and takes nothing back. *)
LEMMA NextIInv == IInv /\ [Next]_vars => IInv' /\ Forward
<1> SUFFICES ASSUME IInv, [Next]_vars PROVE IInv' /\ Forward
  OBVIOUS
<1>1. TypeInv'
  BY NextTypeInv
<1>2. CASE UNCHANGED vars
  <2>1. UNCHANGED <<storage, next_storage, n, entries, freed, pc, my, rindex>>
    BY <1>2 DEF vars
  <2>2. GenInv' /\ DenseInv' /\ Forward
    BY <2>1, StillForward
  <2>3. MigratorInv'
    BY <2>1 DEF IInv, MigratorInv, Publishing, Carrying, Copied, Migrating
  <2>4. ASSUME NEW u \in Threads PROVE ThreadAt(u)'
    BY <1>1, <2>1, <2>2, ThreadStable
  <2> QED BY <1>1, <2>2, <2>3, <2>4 DEF IInv
<1>3. CASE Next
  <2>1. PICK t \in Threads : Step(t) \/ \E c \in Calls[t] : Call(t, c)
    BY <1>3 DEF Next
  <2> QED BY <1>1, <2>1, CallStep, LoadStep, CountStep, GetNStep, GetEntryStep, AddNStep, AddCasStep,
             PubNStep, PubEntryStep, PubCasStep, MigrateStep, MigNextStep, MigAllocStep, CopyStep,
             PutStep, PutFollowStep, FreezeStep, SwapStep
             DEF Step
<1> QED BY <1>2, <1>3

(* The pointerarray keeps the inductive invariant. *)
THEOREM Invariance == Spec => []IInv
  BY InitIInv, NextIInv, PTL DEF Spec

(* No step, of whichever thread, takes back a storage, a count, a filled   *)
(* or a frozen slot, and no migration changes an element.                  *)
THEOREM NothingTakenBack == Spec => [][Forward]_vars
<1>1. IInv /\ [Next]_vars => Forward
  BY NextIInv
<1> QED BY <1>1, Invariance, PTL DEF Spec

(* A storage is retired only full, frozen in every slot and freed once;    *)
(* nothing the array can reach is freed, and with no call in progress      *)
(* there is one storage: mulle_concurrent_pointerarray_done has nothing    *)
(* else to free.                                                           *)
THEOREM StoragesRetireFull == Spec => []GenerationsOK
<1>1. IInv => GenerationsOK
  BY DEF IInv, GenInv, MigratorInv, GenerationsOK, Migrating, Carrying, Copied, Publishing
<1> QED BY <1>1, Invariance, PTL

(* The counted slots of every storage are filled, and a migration puts     *)
(* every element at the index it had.                                      *)
THEOREM CountedIsFilled == Spec => []DensePrefix
<1>1. ASSUME IInv PROVE TypeOK
  <2>1. TypeInv
    BY <1>1 DEF IInv
  <2>2. ASSUME NEW g \in Gens
        PROVE  /\ entries[g] \in [Index(g) -> Values \union {NULL, REDIRECT}]
               /\ n[g] \in 0 .. Size[g] /\ freed[g] \in Nat
    <3>1. n[g] \in Nat /\ Size[g] \in Nat /\ n[g] <= Size[g] /\ freed[g] \in Nat
      BY <2>1, ConstFacts DEF TypeInv
    <3>2. n[g] \in 0 .. Size[g]
      BY <3>1
    <3>3. entries[g] \in [Index(g) -> Words]
      BY <2>1 DEF TypeInv
    <3> QED BY <3>1, <3>2, <3>3 DEF Words
  <2>3. ASSUME NEW t \in Threads
        PROVE  /\ pc[t] \in Labels /\ my[t].call \in Calls[t] \union {Idle}
               /\ my[t].p \in Gens /\ my[t].q \in Gens /\ my[t].dst \in Gens
               /\ my[t].value \in Values \union {NULL}
               /\ answer[t] \in Values \union Nat \union {NULL, Idle}
               /\ index[t] \in Nat /\ rindex[t] \in Nat
    <3>1. my[t] \in Locals
      BY <2>1 DEF TypeInv
    <3> QED BY <2>1, <3>1 DEF TypeInv, Locals
  <2> QED BY <2>1, <2>2, <2>3 DEF TypeInv, TypeOK
<1>2. IInv => DensePrefix
  BY <1>1 DEF IInv, DenseInv, DensePrefix
<1> QED BY <1>2, Invariance, PTL

(* The assertion of both enumerators: what a count has covered, get finds, *)
(* whatever storage it reads and whoever migrates meanwhile.               *)
THEOREM NoHoles == Spec => []EnumeratorsMeetNoHole
<1>1. ASSUME IInv, NEW t \in Threads, pc[t] \in {"get_n", "get_entry"}, Covered(t)
      PROVE  my[t].i < n[my[t].p] /\ entries[my[t].p][my[t].i] # NULL
  <2>1. my[t].i < n[my[t].p] /\ my[t].i \in Nat /\ n[my[t].p] \in Nat /\ my[t].p \in Gens
    BY <1>1, Basics DEF EnumAt
  <2>2. my[t].i \in 0 .. n[my[t].p] - 1
    BY <2>1
  <2> QED BY <1>1, <2>1, <2>2 DEF IInv, DenseInv
<1>2. IInv => EnumeratorsMeetNoHole
  BY <1>1 DEF EnumeratorsMeetNoHole, Covered
<1> QED BY <1>2, Invariance, PTL
-----------------------------------------------------------------------------
(* Refinement *)

(* An add that has won its slot but is not counted yet. *)
Won(t) == pc[t] # "idle" /\ my[t].call.op = "add" /\ my[t].won

Pending(t) == Won(t) /\ n[storage] <= my[t].i

(* The uncounted slots: at most one is filled, the first, and its add is   *)
(* in progress.  The next storage has nothing that the current one has no  *)
(* room for.                                                               *)
TailInv ==
    /\ \A i \in Index(storage) : n[storage] < i => entries[storage][i] = NULL
    /\ \A i \in Index(storage) : i = n[storage] /\ entries[storage][i] # NULL => \E t \in Threads : Pending(t)
    /\ \A t, u \in Threads : Pending(t) /\ Pending(u) => t = u
    /\ next_storage # storage =>
         \A i \in Index(next_storage) : Size[storage] <= i => entries[next_storage][i] = NULL

(* The values an add has won, and where it is. *)
WonAt(t) ==
    /\ pc[t] = "add_cas" => my[t].i <= n[my[t].p]
    /\ Publishing(t) /\ my[t].then = "idle" => my[t].won
    /\ Won(t) =>
         /\ Publishing(t) /\ my[t].then = "idle" /\ my[t].dst = my[t].p /\ my[t].i < Size[my[t].p]
         /\ Pending(t) => /\ my[t].p = storage /\ my[t].i = n[storage]
                          /\ entries[storage][my[t].i] = my[t].call.arg

(* What a call knows of the count. *)
KnownAt(t) ==
    /\ pc[t] = "idle" => my[t].call = Idle
    /\ pc[t] # "idle" => my[t].before <= n[storage]
    /\ pc[t] \in {"count", "get_n", "get_entry"} => my[t].before <= n[my[t].p]
    /\ pc[t] = "count" => my[t].call.op \in {"count", "next"}
    /\ pc[t] \in {"get_n", "get_entry"} => my[t].call.op \in {"get", "next", "prev"}
    /\ index[t] <= n[storage]
    /\ pc[t] # "idle" /\ my[t].call.op = "next" => my[t].i = index[t]

(* The invariant of the refinement. *)
RInv == IInv /\ TailInv /\ \A t \in Threads : WonAt(t) /\ KnownAt(t)

-----------------------------------------------------------------------------
(* The array the callers see, as ConcurrentPointerArray maps it *)

SeqMap == [j \in 1 .. n[storage] |-> Element(j - 1)]

CallMap(t) ==
    IF my[t].call = Idle THEN Idle
    ELSE [op |-> IF my[t].call.op \in {"next", "prev"} THEN "get" ELSE my[t].call.op,
          arg |-> IF my[t].call.op = "add" THEN my[t].call.arg
                  ELSE IF my[t].call.op = "count" THEN 0 ELSE my[t].i,
          before |-> my[t].before,
          added |-> my[t].call.op = "add" /\ my[t].won /\ my[t].i < n[storage]]

CallsMap == [t \in Threads |-> CallMap(t)]

(* The steps of AppendOnlyArray on it. *)
LEMMA MapStutters ==
    ASSUME SeqMap' = SeqMap, CallsMap' = CallsMap, answer' = answer
    PROVE  UNCHANGED Contract!vars
  BY DEF Contract!vars, SeqMap, CallsMap, CallMap

LEMMA MapBegins ==
    ASSUME NEW t \in Threads, NEW op, NEW arg, NEW before,
           \/ op = "add" /\ arg \in Values
           \/ op = "get" /\ arg \in UNION {0 .. Size[g] : g \in Gens}
           \/ op = "count" /\ arg = 0,
           CallsMap[t] = Idle, before = Len(SeqMap),
           CallsMap' = [CallsMap EXCEPT ![t] =
                          [op |-> op, arg |-> arg, before |-> before, added |-> FALSE]],
           answer' = [answer EXCEPT ![t] = Idle], SeqMap' = SeqMap
    PROVE  Contract!Next
<1>1. Contract!Begin(t, op, arg)
  BY DEF Contract!Begin, SeqMap, CallsMap, CallMap
<1> QED BY <1>1 DEF Contract!Next

LEMMA MapAppends ==
    ASSUME NEW t \in Threads, CallsMap[t] # Idle, CallsMap[t].op = "add", ~CallsMap[t].added,
           SeqMap' = Append(SeqMap, CallsMap[t].arg),
           CallsMap' = [CallsMap EXCEPT ![t].added = TRUE], answer' = answer
    PROVE  Contract!Next
<1>1. Contract!Append1(t)
  BY DEF Contract!Append1, SeqMap, CallsMap, CallMap
<1> QED BY <1>1 DEF Contract!Next

LEMMA MapReturns ==
    ASSUME NEW t \in Threads, NEW a, CallsMap[t] # Idle,
           \/ CallsMap[t].op = "add" /\ CallsMap[t].added /\ a = 0
           \/ /\ CallsMap[t].op = "get" /\ CallsMap[t].arg < Len(SeqMap)
              /\ a = SeqMap[CallsMap[t].arg + 1]
           \/ CallsMap[t].op = "get" /\ CallsMap[t].arg >= CallsMap[t].before /\ a = NULL
           \/ CallsMap[t].op = "count" /\ a \in CallsMap[t].before .. Len(SeqMap),
           CallsMap' = [CallsMap EXCEPT ![t] = Idle],
           answer' = [answer EXCEPT ![t] = a], SeqMap' = SeqMap
    PROVE  Contract!Next
<1>1. Contract!Return(t, a)
  BY DEF Contract!Return, SeqMap, CallsMap, CallMap
<1>2. CASE CallsMap[t].op = "add" /\ CallsMap[t].added /\ a = 0
  <2>1. Contract!AddReturns(t)
    BY <1>1, <1>2 DEF Contract!AddReturns, CallsMap, CallMap
  <2> QED BY <2>1 DEF Contract!Next
<1>3. CASE /\ CallsMap[t].op = "get" /\ CallsMap[t].arg < Len(SeqMap)
           /\ a = SeqMap[CallsMap[t].arg + 1]
  <2>1. Contract!Return(t, SeqMap[CallsMap[t].arg + 1])
    BY <1>1, <1>3 DEF Contract!Return
  <2>2. Contract!GetReturns(t)
    BY <1>3, <2>1, Zenon DEF Contract!GetReturns, SeqMap, CallsMap, CallMap
  <2> QED BY <2>2 DEF Contract!Next
<1>4. CASE CallsMap[t].op = "get" /\ CallsMap[t].arg >= CallsMap[t].before /\ a = NULL
  <2>1. Contract!GetReturns(t)
    BY <1>1, <1>4 DEF Contract!GetReturns, SeqMap, CallsMap, CallMap
  <2> QED BY <2>1 DEF Contract!Next
<1>5. CASE CallsMap[t].op = "count" /\ a \in CallsMap[t].before .. Len(SeqMap)
  <2>1. Contract!CountReturns(t)
    BY <1>1, <1>5 DEF Contract!CountReturns, SeqMap, CallsMap, CallMap
  <2> QED BY <2>1 DEF Contract!Next
<1> QED BY <1>2, <1>3, <1>4, <1>5

-----------------------------------------------------------------------------
(* The numbers. *)
LEMMA Numbers ==
    ASSUME IInv
    PROVE  /\ storage \in Nat /\ storage \in Gens /\ next_storage \in Nat /\ next_storage \in Gens
           /\ n \in [Gens -> Nat] /\ Size \in [Gens -> Nat] /\ \A g \in Gens : n[g] <= Size[g]
           /\ next_storage \in {storage, storage + 1} /\ MaxGen \in Nat
           /\ n[storage] \in Nat /\ Size[storage] \in Nat /\ n[storage] <= Size[storage]
           /\ next_storage # storage => n[storage] = Size[storage]
<1>1. /\ storage \in Nat /\ storage \in Gens /\ next_storage \in Nat /\ next_storage \in Gens
      /\ n \in [Gens -> Nat] /\ Size \in [Gens -> Nat] /\ \A g \in Gens : n[g] <= Size[g]
      /\ MaxGen \in Nat
  BY ConstFacts DEF IInv, TypeInv, Gens
<1>2. /\ next_storage \in {storage, storage + 1}
      /\ next_storage # storage => n[storage] = Size[storage]
  BY DEF IInv, GenInv
<1> QED BY <1>1, <1>2

(* What is counted is an element. *)
LEMMA Counted ==
    ASSUME IInv, NEW i \in Nat, i < n[storage]
    PROVE  i \in Index(storage) /\ Element(i) \in Values
<1>1. /\ storage \in Nat /\ storage \in Gens /\ n[storage] \in Nat /\ Size[storage] \in Nat
      /\ n[storage] <= Size[storage] /\ MaxGen \in Nat /\ GenInv /\ DenseInv
      /\ next_storage \in {storage, storage + 1}
  BY Numbers DEF IInv
<1>2. i \in Index(storage) /\ i \in 0 .. n[storage] - 1
  BY <1>1, IndexType
<1>3. CASE next_storage # storage
  BY <1>1, <1>2, <1>3 DEF DenseInv
<1>4. CASE next_storage = storage
  <2>1. storage \in next_storage .. MaxGen
    BY <1>1, <1>4 DEF Gens
  <2>2. entries[storage][i] # NULL /\ entries[storage][i] # REDIRECT
    BY <1>1, <1>2, <1>4, <2>1 DEF GenInv, DenseInv
  <2>3. entries[storage][i] \in Words
    BY <1>1, <1>2 DEF IInv, TypeInv
  <2> QED BY <1>2, <2>2, <2>3 DEF Element, Words
<1> QED BY <1>2, <1>3, <1>4

(* What is known of a thread. *)
LEMMA ThreadNumbers ==
    ASSUME IInv, NEW t \in Threads
    PROVE  /\ my[t].i \in Nat /\ my[t].before \in Nat /\ my[t].p \in Gens /\ my[t].dst \in Gens
           /\ my[t].p <= storage /\ n[my[t].p] \in Nat /\ Size[my[t].p] \in Nat
           /\ n[my[t].p] <= n[storage] /\ n[my[t].p] <= Size[my[t].p]
           /\ my[t].won \in BOOLEAN
           /\ (pc[t] # "idle" => my[t].call \in Calls[t] /\ my[t].call # Idle)
           /\ index[t] \in Nat /\ rindex[t] \in Nat
           /\ pc[t] # "idle" /\ my[t].call.op = "add" => my[t].call.arg \in Values
<1>1. my[t] \in Locals /\ index[t] \in Nat /\ rindex[t] \in Nat
  BY DEF IInv, TypeInv
<1>2. my[t].i \in Nat /\ my[t].before \in Nat /\ my[t].p \in Gens /\ my[t].dst \in Gens
      /\ my[t].won \in BOOLEAN
  BY <1>1 DEF Locals
<1>3. my[t].p <= storage /\ (pc[t] # "idle" => my[t].call \in Calls[t])
  BY DEF IInv, ThreadAt, CallAt
<1>4. \A c \in Calls[t] : c # Idle
  BY PointerArrayAssumption
<1>5. pc[t] # "idle" /\ my[t].call.op = "add" => my[t].call.arg \in Values
  BY <1>3, CallFacts
<1> QED BY <1>1, <1>2, <1>3, <1>4, <1>5, Numbers, CountGrows

(* The array does not change when its count does not. *)
LEMMA SeqSame ==
    ASSUME IInv, Forward, n'[storage'] = n[storage]
    PROVE  SeqMap' = SeqMap
<1>1. ASSUME NEW j \in 1 .. n[storage] PROVE Element(j - 1)' = Element(j - 1)
  <2>1. j - 1 \in Nat /\ j - 1 < n[storage]
    BY Numbers
  <2>2. j - 1 \in Index(storage) /\ Element(j - 1) \in Values
    BY <2>1, Counted
  <2> QED BY <2>2 DEF Forward, Element
<1> QED BY <1>1 DEF SeqMap

(* The add that has filled the slot after the counted ones is known by it, *)
(* until it is counted.                                                    *)
LEMMA PendingStable ==
    ASSUME RInv, IInv', Forward, NEW u \in Threads, Pending(u), n'[storage'] <= my[u].i
    PROVE  /\ storage' = storage /\ my[u].p = storage /\ my[u].i = n[storage]
           /\ n'[storage'] = n[storage] /\ entries'[storage][my[u].i] = my[u].call.arg
<1>1. /\ my[u].p = storage /\ my[u].i = n[storage] /\ entries[storage][my[u].i] = my[u].call.arg
      /\ my[u].i < Size[storage] /\ my[u].call.arg \in Values /\ my[u].i \in Nat
  BY ThreadNumbers DEF RInv, WonAt, Pending, Won
<1>2. n[storage] <= n'[storage'] /\ n'[storage'] = n[storage]
  <2>1. n[storage] <= n'[storage']
    BY DEF Forward
  <2>2. n'[storage'] \in Nat
    BY DEF IInv, TypeInv
  <2> QED BY <1>1, <2>1, <2>2, Numbers DEF RInv
<1>3. storage' = storage
  <2>1. next_storage = storage
    BY <1>1, Numbers DEF RInv
  <2> QED BY <2>1 DEF Forward
<1>4. Element(my[u].i) = my[u].call.arg /\ my[u].i \in Index(storage)
  BY <1>1, ConstFacts, Numbers, IndexType DEF Element, RInv
<1>5. \A i \in Index(storage) : Element(i) \in Values => Element(i)' = Element(i)
  BY DEF Forward
<1>6. (IF entries'[storage][my[u].i] = REDIRECT THEN entries'[next_storage'][my[u].i]
       ELSE entries'[storage][my[u].i]) = my[u].call.arg
  BY <1>1, <1>3, <1>4, <1>5 DEF Element
<1>7. entries'[storage][my[u].i] # REDIRECT
  <2>1. next_storage' = storage
    <3>1. next_storage' # storage' => n'[storage'] = Size[storage']
      BY DEF IInv, GenInv
    <3> QED BY <1>1, <1>2, <1>3, <3>1, Numbers DEF RInv
  <2>2. storage \in next_storage' .. MaxGen
    BY <2>1, Numbers DEF RInv, Gens
  <2>3. GenInv'
    BY DEF IInv
  <2> QED BY <1>4, <2>2, <2>3, ConstFacts DEF GenInv
<1> QED BY <1>1, <1>2, <1>3, <1>6, <1>7

(* A thread whose call, place and slot stay as they are; a thread may go   *)
(* on within publish.                                                      *)
LEMMA RefStable ==
    ASSUME RInv, IInv', Forward, NEW u \in Threads,
           pc'[u] = pc[u] \/ (Publishing(u) /\ Publishing(u)'),
           my'[u].call = my[u].call, my'[u].before = my[u].before, my'[u].i = my[u].i,
           my'[u].won = my[u].won, my'[u].p = my[u].p, my'[u].dst = my[u].dst,
           my'[u].then = my[u].then, index'[u] = index[u]
    PROVE  WonAt(u)' /\ KnownAt(u)'
<1>1. /\ n[storage] <= n'[storage'] /\ n'[storage'] \in Nat /\ \A g \in Gens : n[g] <= n'[g]
      /\ n' \in [Gens -> Nat]
  BY DEF Forward, IInv, TypeInv
<1>2. WonAt(u) /\ KnownAt(u) /\ IInv
  BY DEF RInv
<1>3. n[my[u].p] <= n'[my[u].p] /\ n'[my[u].p] \in Nat
  BY <1>1, <1>2, ThreadNumbers
<1>4. (Publishing(u)' <=> Publishing(u)) /\ (pc'[u] # "idle" <=> pc[u] # "idle")
  BY DEF Publishing
<1>5. KnownAt(u)'
  <2>1. pc'[u] # "idle" => my[u].before <= n'[storage']
    BY <1>1, <1>2, <1>4, ThreadNumbers, Numbers DEF KnownAt
  <2>2. pc'[u] \in {"count", "get_n", "get_entry"} => my[u].before <= n'[my[u].p] /\ pc'[u] = pc[u]
    BY <1>2, <1>3, ThreadNumbers DEF KnownAt, Publishing
  <2>3. index[u] <= n'[storage']
    BY <1>1, <1>2, ThreadNumbers, Numbers DEF KnownAt
  <2> QED BY <1>2, <1>4, <2>1, <2>2, <2>3 DEF KnownAt, Publishing
<1>6. WonAt(u)'
  <2>1. Won(u)' <=> Won(u)
    BY <1>4 DEF Won
  <2>2. Pending(u)' => Pending(u) /\ n'[storage'] <= my[u].i
    BY <1>1, <1>2, <2>1, ThreadNumbers, Numbers DEF Pending
  <2>3. pc'[u] = "add_cas" => my[u].i <= n'[my[u].p]
    BY <1>2, <1>3, ThreadNumbers DEF WonAt, Publishing
  <2>4. Pending(u)' => /\ my[u].p = storage' /\ my[u].i = n'[storage']
                       /\ entries'[storage'][my[u].i] = my[u].call.arg
    BY <2>2, PendingStable
  <2> QED BY <1>2, <1>4, <2>1, <2>3, <2>4 DEF WonAt
<1> QED BY <1>5, <1>6

(* Its call is the one the callers see. *)
LEMMA CallSame ==
    ASSUME RInv, NEW u \in Threads, n'[storage'] = n[storage],
           pc'[u] # "idle" <=> pc[u] # "idle",
           my'[u].call = my[u].call, my'[u].before = my[u].before, my'[u].i = my[u].i,
           my'[u].won = my[u].won
    PROVE  CallMap(u)' = CallMap(u) /\ (Pending(u)' <=> Pending(u))
  BY DEF CallMap, Pending, Won

(* A step that changes neither the count nor what the callers see. *)
LEMMA Silent ==
    ASSUME RInv, IInv', Forward, TailInv', NEW t \in Threads,
           n'[storage'] = n[storage], answer' = answer,
           \A u \in Threads \ {t} : pc'[u] = pc[u] /\ my'[u] = my[u] /\ index'[u] = index[u],
           WonAt(t)', KnownAt(t)', CallMap(t)' = CallMap(t)
    PROVE  RInv' /\ UNCHANGED Contract!vars
<1>1. ASSUME NEW u \in Threads \ {t} PROVE WonAt(u)' /\ KnownAt(u)' /\ CallMap(u)' = CallMap(u)
  BY RefStable, CallSame
<1>2. CallsMap' = CallsMap
  BY <1>1 DEF CallsMap
<1>3. SeqMap' = SeqMap
  BY SeqSame DEF RInv
<1> QED BY <1>1, <1>2, <1>3, MapStutters DEF RInv

(* The tail of a storage that is not changed. *)
LEMMA TailSame ==
    ASSUME RInv, NEW t \in Threads, UNCHANGED <<storage, next_storage, entries>>,
           n'[storage] = n[storage],
           \A u \in Threads \ {t} : pc'[u] = pc[u] /\ my'[u] = my[u],
           Pending(t)' <=> Pending(t)
    PROVE  TailInv'
<1>1. ASSUME NEW u \in Threads PROVE Pending(u)' <=> Pending(u)
  BY DEF Pending, Won
<1> QED BY <1>1 DEF RInv, TailInv

-----------------------------------------------------------------------------
(* The steps that the callers do not see *)

(* A thread that goes on with its call outside count, get and publish.     *)
LEMMA GoesOn ==
    ASSUME RInv, IInv', Forward, TailInv', NEW t \in Threads,
           n'[storage'] = n[storage], answer' = answer, index' = index,
           \A u \in Threads \ {t} : pc'[u] = pc[u] /\ my'[u] = my[u],
           my'[t].call = my[t].call, my'[t].before = my[t].before, my'[t].i = my[t].i,
           my'[t].won = my[t].won, pc[t] # "idle",
           pc'[t] \notin {"idle", "count", "get_n", "get_entry", "add_cas"},
           ~Won(t), ~(Publishing(t)' /\ my'[t].then = "idle")
    PROVE  RInv' /\ UNCHANGED Contract!vars
<1>1. CallMap(t)' = CallMap(t) /\ ~Won(t)'
  BY CallSame DEF Won
<1>2. WonAt(t)'
  BY <1>1 DEF WonAt
<1>3. KnownAt(t)'
  <2>1. my[t].before <= n[storage] /\ index[t] <= n[storage]
        /\ (my[t].call.op = "next" => my[t].i = index[t])
    BY DEF RInv, KnownAt
  <2> QED BY <2>1 DEF KnownAt
<1> QED BY <1>1, <1>2, <1>3, Silent

(* An add outside publish has not won. *)
LEMMA NotWon ==
    ASSUME RInv, NEW t \in Threads, ~(Publishing(t) /\ my[t].then = "idle")
    PROVE  ~Won(t) /\ ~Pending(t)
  BY DEF RInv, WonAt, Pending

LEMMA LoadRef ==
    ASSUME RInv, IInv', Forward, NEW t \in Threads, Load(t)
    PROVE  RInv' /\ UNCHANGED Contract!vars
<1> DEFINE m == [my[t] EXCEPT !.p = storage]
<1>1. my' = [my EXCEPT ![t] = m] /\ pc[t] = "load"
  BY DEF Load
<1>2. PICK l \in {"add_n", "count", "get_n"} :
        /\ Goto(t, l)
        /\ (l = "add_n" <=> my[t].call.op = "add")
        /\ (l = "count" => my[t].call.op \in {"count", "next"})
        /\ (l = "get_n" => my[t].call.op # "count" /\ my[t].call.op # "add")
  BY DEF Load
<1>3. m.call = my[t].call /\ m.p = storage /\ m.i = my[t].i /\ m.won = my[t].won
      /\ m.before = my[t].before
  BY DEF RInv, IInv, TypeInv, Locals
<1> HIDE DEF m
<1>4. /\ pc'[t] = l /\ my'[t] = m
      /\ \A u \in Threads \ {t} : pc'[u] = pc[u] /\ my'[u] = my[u]
  BY <1>1, <1>2, Moved DEF RInv, IInv
<1>5. UNCHANGED <<storage, next_storage, n, entries, index, answer>>
  BY DEF Load, world, rovers
<1>6. ~Won(t) /\ ~Pending(t)
  BY <1>1, NotWon DEF Publishing
<1>7. CallMap(t)' = CallMap(t) /\ ~Won(t)' /\ ~Pending(t)'
  BY <1>1, <1>2, <1>3, <1>4, <1>5, <1>6 DEF CallMap, Won, Pending
<1>8. my[t].call.op \in {"add", "get", "count", "next", "prev"}
  BY <1>1, ThreadNumbers, CallFacts DEF RInv
<1>9. WonAt(t)'
  BY <1>2, <1>4, <1>7 DEF WonAt, Publishing
<1>10. KnownAt(t)'
  <2>1. my[t].before <= n[storage] /\ index[t] <= n[storage]
        /\ (my[t].call.op = "next" => my[t].i = index[t])
    BY <1>1 DEF RInv, KnownAt
  <2> QED BY <1>2, <1>3, <1>4, <1>5, <1>8, <2>1 DEF KnownAt
<1>11. TailInv'
  BY <1>4, <1>5, <1>6, <1>7, TailSame
<1> QED BY <1>4, <1>5, <1>7, <1>9, <1>10, <1>11, Silent

LEMMA CountGoesOnRef ==
    ASSUME RInv, IInv', Forward, NEW t \in Threads, pc[t] = "count",
           my[t].call.op = "next", my[t].i < n[my[t].p],
           my' = [my EXCEPT ![t].won = TRUE], Goto(t, "load"),
           UNCHANGED <<storage, next_storage, n, entries, index, answer>>
    PROVE  RInv' /\ UNCHANGED Contract!vars
<1> DEFINE m == [my[t] EXCEPT !.won = TRUE]
<1>1. my' = [my EXCEPT ![t] = m]
  OBVIOUS
<1>2. m.call = my[t].call /\ m.p = my[t].p /\ m.i = my[t].i /\ m.before = my[t].before
  BY DEF RInv, IInv, TypeInv, Locals
<1> HIDE DEF m
<1>3. /\ pc'[t] = "load" /\ my'[t] = m
      /\ \A u \in Threads \ {t} : pc'[u] = pc[u] /\ my'[u] = my[u]
  BY <1>1, Moved DEF RInv, IInv
<1>4. CallMap(t)' = CallMap(t) /\ ~Won(t)' /\ ~Pending(t)' /\ ~Pending(t)
  BY <1>2, <1>3 DEF CallMap, Won, Pending
<1>5. WonAt(t)'
  BY <1>3, <1>4 DEF WonAt, Publishing
<1>6. KnownAt(t)'
  <2>1. my[t].before <= n[storage] /\ index[t] <= n[storage] /\ my[t].i = index[t]
    BY DEF RInv, KnownAt
  <2> QED BY <1>2, <1>3, <2>1 DEF KnownAt
<1>7. TailInv'
  BY <1>3, <1>4, TailSame
<1> QED BY <1>3, <1>4, <1>5, <1>6, <1>7, Silent

LEMMA AddNRef ==
    ASSUME RInv, IInv', Forward, NEW t \in Threads, AddN(t)
    PROVE  RInv' /\ UNCHANGED Contract!vars
<1> DEFINE m == [my[t] EXCEPT !.i = n[my[t].p]]
           l == IF n[my[t].p] >= Size[my[t].p] THEN "migrate" ELSE "add_cas"
<1>1. my' = [my EXCEPT ![t] = m] /\ Goto(t, l) /\ pc[t] = "add_n"
  BY DEF AddN
<1>2. m.call = my[t].call /\ m.p = my[t].p /\ m.i = n[my[t].p] /\ m.won = my[t].won
      /\ m.before = my[t].before
  BY DEF RInv, IInv, TypeInv, Locals
<1> HIDE DEF m
<1>3. l \in {"migrate", "add_cas"}
  OBVIOUS
<1> HIDE DEF l
<1>4. /\ pc'[t] = l /\ my'[t] = m
      /\ \A u \in Threads \ {t} : pc'[u] = pc[u] /\ my'[u] = my[u]
  BY <1>1, Moved DEF RInv, IInv
<1>5. UNCHANGED <<storage, next_storage, n, entries, index, answer>>
  BY DEF AddN, world, rovers
<1>6. ~Won(t) /\ ~Pending(t) /\ my[t].call.op = "add"
  BY <1>1, NotWon DEF Publishing, RInv, IInv, ThreadAt, CallAt
<1>7. CallMap(t)' = CallMap(t) /\ ~Won(t)' /\ ~Pending(t)'
  BY <1>1, <1>2, <1>4, <1>5, <1>6 DEF CallMap, Won, Pending
<1>8. WonAt(t)'
  BY <1>2, <1>3, <1>4, <1>5, <1>7, ThreadNumbers DEF WonAt, Publishing, RInv
<1>9. KnownAt(t)'
  <2>1. my[t].before <= n[storage] /\ index[t] <= n[storage]
    BY <1>1 DEF RInv, KnownAt
  <2> QED BY <1>2, <1>3, <1>4, <1>5, <1>6, <2>1 DEF KnownAt
<1>10. TailInv'
  BY <1>4, <1>5, <1>6, <1>7, TailSame
<1> QED BY <1>4, <1>5, <1>7, <1>8, <1>9, <1>10, Silent

(* A step from outside publish that leaves the storages, the call and what *)
(* belongs to it alone.                                                    *)
LEMMA GoesOnLocal ==
    ASSUME RInv, IInv', Forward, NEW t \in Threads,
           UNCHANGED <<storage, next_storage, n, entries, index, answer>>,
           \A u \in Threads \ {t} : pc'[u] = pc[u] /\ my'[u] = my[u],
           my'[t].call = my[t].call, my'[t].before = my[t].before, my'[t].i = my[t].i,
           my'[t].won = my[t].won, pc[t] # "idle",
           pc'[t] \notin {"idle", "count", "get_n", "get_entry", "add_cas"},
           ~(Publishing(t) /\ my[t].then = "idle"), ~(Publishing(t)' /\ my'[t].then = "idle")
    PROVE  RInv' /\ UNCHANGED Contract!vars
<1>1. ~Won(t) /\ ~Pending(t)
  BY NotWon
<1>2. ~Pending(t)'
  BY <1>1 DEF Pending, Won
<1>3. TailInv'
  BY <1>1, <1>2, TailSame
<1> QED BY <1>1, <1>3, GoesOn

(* The same with all locals unchanged. *)
LEMMA GotoRef ==
    ASSUME RInv, IInv', Forward, NEW t \in Threads,
           UNCHANGED <<storage, next_storage, n, entries, index, answer, my>>,
           NEW l \in Labels \ {"idle", "count", "get_n", "get_entry", "add_cas"}, Goto(t, l),
           pc[t] # "idle", ~(Publishing(t) /\ my[t].then = "idle"),
           l \notin {"pub_n", "pub_entry", "pub_cas"} \/ my[t].then # "idle"
    PROVE  RInv' /\ UNCHANGED Contract!vars
<1>1. pc'[t] = l /\ \A u \in Threads \ {t} : pc'[u] = pc[u]
  BY DEF RInv, IInv, TypeInv, Goto
<1>2. ~(Publishing(t)' /\ my'[t].then = "idle")
  BY <1>1 DEF Publishing
<1> QED BY <1>1, <1>2, GoesOnLocal

LEMMA GetNGoesOnRef ==
    ASSUME RInv, IInv', Forward, NEW t \in Threads, pc[t] = "get_n",
           Goto(t, "get_entry"),
           UNCHANGED <<storage, next_storage, n, entries, index, answer, my>>
    PROVE  RInv' /\ UNCHANGED Contract!vars
<1>1. pc'[t] = "get_entry" /\ \A u \in Threads \ {t} : pc'[u] = pc[u]
  BY DEF RInv, IInv, TypeInv, Goto
<1>2. CallMap(t)' = CallMap(t) /\ ~Won(t)' /\ ~Pending(t)' /\ ~Pending(t)
  <2>1. ~Won(t) /\ ~Pending(t)
    BY NotWon DEF Publishing
  <2> QED BY <1>1, <2>1 DEF CallMap, Won, Pending
<1>3. WonAt(t)'
  BY <1>1, <1>2 DEF WonAt, Publishing
<1>4. KnownAt(t)'
  BY <1>1 DEF RInv, KnownAt
<1>5. TailInv'
  BY <1>1, <1>2, TailSame
<1> QED BY <1>1, <1>2, <1>3, <1>4, <1>5, Silent

-----------------------------------------------------------------------------
(* Calls and returns *)

(* A call in progress is one for AppendOnlyArray. *)
LEMMA CallRecord ==
    ASSUME IInv, NEW t \in Threads, pc[t] # "idle"
    PROVE  /\ CallsMap[t] = CallMap(t) /\ CallMap(t) # Idle
           /\ CallMap(t).op = (IF my[t].call.op \in {"next", "prev"} THEN "get" ELSE my[t].call.op)
           /\ CallMap(t).arg = (IF my[t].call.op = "add" THEN my[t].call.arg
                                ELSE IF my[t].call.op = "count" THEN 0 ELSE my[t].i)
           /\ CallMap(t).before = my[t].before
           /\ CallMap(t).added = (my[t].call.op = "add" /\ my[t].won /\ my[t].i < n[storage])
<1> DEFINE op == IF my[t].call.op \in {"next", "prev"} THEN "get" ELSE my[t].call.op
           arg == IF my[t].call.op = "add" THEN my[t].call.arg
                  ELSE IF my[t].call.op = "count" THEN 0 ELSE my[t].i
           added == my[t].call.op = "add" /\ my[t].won /\ my[t].i < n[storage]
           r == [op |-> op, arg |-> arg, before |-> my[t].before, added |-> added]
<1>1. my[t].call # Idle /\ my[t].call.op \in {"add", "get", "count", "next", "prev"}
  BY ThreadNumbers, CallFacts
<1>2. op \in {"add", "get", "count"} /\ arg \in Values \union Nat /\ added \in BOOLEAN
  BY <1>1, ThreadNumbers
<1>3. CallMap(t) = r
  BY <1>1 DEF CallMap
<1> HIDE DEF op, arg, added
<1>4. r \in [op : {"add", "get", "count"}, arg : Values \union Nat, before : Nat, added : BOOLEAN]
  BY <1>2, ThreadNumbers
<1>5. Idle \notin [op : {"add", "get", "count"}, arg : Values \union Nat, before : Nat, added : BOOLEAN]
  BY PointerArrayAssumption
<1>6. r # Idle /\ r.op = op /\ r.arg = arg /\ r.before = my[t].before /\ r.added = added
  BY <1>4, <1>5
<1> QED BY <1>3, <1>6 DEF CallsMap, op, arg, added

(* A call that returns what AppendOnlyArray lets it return. *)
LEMMA ReturnRef ==
    ASSUME RInv, IInv', Forward, NEW t \in Threads, NEW a, Return(t, a), pc[t] # "idle",
           UNCHANGED <<storage, next_storage, n, entries>>,
           index'[t] <= n[storage], \A u \in Threads \ {t} : index'[u] = index[u],
           \/ my[t].call.op = "add" /\ my[t].won /\ my[t].i < n[storage] /\ a = 0
           \/ /\ my[t].call.op \in {"get", "next", "prev"}
              /\ my[t].i < n[storage] /\ a = Element(my[t].i)
           \/ my[t].call.op \in {"get", "next", "prev"} /\ my[t].i >= my[t].before /\ a = NULL
           \/ my[t].call.op = "count" /\ a \in my[t].before .. n[storage]
    PROVE  RInv' /\ Contract!Next
<1>0. IInv /\ NoLocals.call = Idle /\ NoLocals.won = FALSE
  BY DEF RInv, NoLocals
<1>1. /\ pc'[t] = "idle" /\ my'[t] = NoLocals
      /\ \A u \in Threads \ {t} : pc'[u] = pc[u] /\ my'[u] = my[u]
  BY <1>0, Moved DEF IInv, Return
<1>2. ~Pending(t) /\ ~Pending(t)'
  BY <1>0, <1>1, ThreadNumbers, Numbers DEF Pending, Won
<1>3. TailInv'
  BY <1>1, <1>2, TailSame
<1>4. WonAt(t)' /\ KnownAt(t)'
  BY <1>0, <1>1 DEF WonAt, KnownAt, Won, Pending, Publishing
<1>5. ASSUME NEW u \in Threads \ {t} PROVE WonAt(u)' /\ KnownAt(u)' /\ CallMap(u)' = CallMap(u)
  BY <1>1, RefStable, CallSame
<1>6. CallMap(t)' = Idle
  BY <1>0, <1>1 DEF CallMap
<1>7. CallsMap' = [CallsMap EXCEPT ![t] = Idle]
  BY <1>5, <1>6 DEF CallsMap
<1>8. SeqMap' = SeqMap /\ answer' = [answer EXCEPT ![t] = a]
  BY <1>0, SeqSame DEF Return
<1>9. Len(SeqMap) = n[storage] /\ \A i \in Nat : i < n[storage] => SeqMap[i + 1] = Element(i)
  <2>1. DOMAIN SeqMap = 1 .. n[storage] /\ SeqMap \in Seq(Values)
    <3>1. \A j \in 1 .. n[storage] : j - 1 \in Nat /\ j - 1 < n[storage]
      BY <1>0, Numbers
    <3>2. \A j \in 1 .. n[storage] : Element(j - 1) \in Values
      BY <1>0, <3>1, Counted
    <3> QED BY <1>0, <3>2, Numbers DEF SeqMap
  <2>2. ASSUME NEW i \in Nat, i < n[storage] PROVE SeqMap[i + 1] = Element(i)
    <3>1. i + 1 \in 1 .. n[storage] /\ (i + 1) - 1 = i
      BY <1>0, <2>2, Numbers
    <3> QED BY <3>1 DEF SeqMap
  <2> QED BY <1>0, <2>1, <2>2, Numbers
<1>10. Contract!Next
  <2>1. /\ CallsMap[t] = CallMap(t) /\ CallMap(t) # Idle
        /\ CallMap(t).op = (IF my[t].call.op \in {"next", "prev"} THEN "get" ELSE my[t].call.op)
        /\ CallMap(t).arg = (IF my[t].call.op = "add" THEN my[t].call.arg
                             ELSE IF my[t].call.op = "count" THEN 0 ELSE my[t].i)
        /\ CallMap(t).before = my[t].before
        /\ CallMap(t).added = (my[t].call.op = "add" /\ my[t].won /\ my[t].i < n[storage])
    BY <1>0, CallRecord
  <2>2. my[t].i \in Nat
    BY <1>0, ThreadNumbers
  <2>3. \/ CallsMap[t].op = "add" /\ CallsMap[t].added /\ a = 0
        \/ /\ CallsMap[t].op = "get" /\ CallsMap[t].arg < Len(SeqMap)
           /\ a = SeqMap[CallsMap[t].arg + 1]
        \/ CallsMap[t].op = "get" /\ CallsMap[t].arg >= CallsMap[t].before /\ a = NULL
        \/ CallsMap[t].op = "count" /\ a \in CallsMap[t].before .. Len(SeqMap)
    <3>1. CASE my[t].call.op = "add" /\ my[t].won /\ my[t].i < n[storage] /\ a = 0
      BY <2>1, <3>1
    <3>2. CASE /\ my[t].call.op \in {"get", "next", "prev"}
               /\ my[t].i < n[storage] /\ a = Element(my[t].i)
      BY <1>9, <2>1, <2>2, <3>2
    <3>3. CASE my[t].call.op \in {"get", "next", "prev"} /\ my[t].i >= my[t].before /\ a = NULL
      BY <2>1, <3>3
    <3>4. CASE my[t].call.op = "count" /\ a \in my[t].before .. n[storage]
      BY <1>9, <2>1, <3>4
    <3> QED BY <3>1, <3>2, <3>3, <3>4
  <2> QED BY <1>7, <1>8, <2>1, <2>3, MapReturns
<1> QED BY <1>3, <1>4, <1>5, <1>10 DEF RInv

LEMMA CountRef ==
    ASSUME RInv, IInv', Forward, NEW t \in Threads, Count(t)
    PROVE  RInv' /\ [Contract!Next]_(Contract!vars)
<1>1. /\ UNCHANGED <<storage, next_storage, n, entries, index>> /\ pc[t] = "count" /\ IInv
      /\ my[t].before <= n[my[t].p] /\ index[t] <= n[storage] /\ n[my[t].p] <= n[storage]
      /\ n[my[t].p] \in Nat /\ n[storage] \in Nat /\ my[t].before \in Nat /\ my[t].i \in Nat
  BY ThreadNumbers, Numbers DEF Count, world, RInv, KnownAt
<1>2. CASE my[t].call.op = "count" /\ Return(t, n[my[t].p])
  BY <1>1, <1>2, ReturnRef
<1>3. CASE my[t].call.op = "next" /\ my[t].i >= n[my[t].p] /\ Return(t, NULL)
  <2>1. my[t].i >= my[t].before
    BY <1>1, <1>3
  <2> QED BY <1>1, <1>3, <2>1, ReturnRef
<1>4. CASE /\ my[t].call.op = "next" /\ my[t].i < n[my[t].p]
           /\ my' = [my EXCEPT ![t].won = TRUE]
           /\ Goto(t, "load") /\ UNCHANGED <<rindex, answer>>
  BY <1>1, <1>4, CountGoesOnRef
<1> QED BY <1>2, <1>3, <1>4 DEF Count

LEMMA GetNRef ==
    ASSUME RInv, IInv', Forward, NEW t \in Threads, GetN(t)
    PROVE  RInv' /\ [Contract!Next]_(Contract!vars)
<1>1. /\ UNCHANGED <<storage, next_storage, n, entries, index>> /\ pc[t] = "get_n" /\ IInv
      /\ my[t].before <= n[my[t].p] /\ index[t] <= n[storage]
      /\ n[my[t].p] \in Nat /\ my[t].before \in Nat /\ my[t].i \in Nat
      /\ my[t].call.op \in {"get", "next", "prev"}
  BY ThreadNumbers DEF GetN, world, rovers, RInv, KnownAt
<1>2. CASE my[t].i >= n[my[t].p] /\ Return(t, NULL)
  <2>1. my[t].i >= my[t].before
    BY <1>1, <1>2
  <2> QED BY <1>1, <1>2, <2>1, ReturnRef
<1>3. CASE Goto(t, "get_entry") /\ UNCHANGED <<my, answer>>
  BY <1>1, <1>3, GetNGoesOnRef
<1> QED BY <1>2, <1>3 DEF GetN

LEMMA GetEntryRef ==
    ASSUME RInv, IInv', Forward, NEW t \in Threads, GetEntry(t)
    PROVE  RInv' /\ [Contract!Next]_(Contract!vars)
<1>1. /\ UNCHANGED <<storage, next_storage, n, entries>> /\ pc[t] = "get_entry" /\ IInv
      /\ index[t] <= n[storage] /\ my[t].call.op \in {"get", "next", "prev"}
      /\ (my[t].call.op = "next" => my[t].i = index[t])
  BY DEF GetEntry, world, RInv, KnownAt
<1>2. /\ my[t].i < n[my[t].p] /\ my[t].i \in Nat /\ n[my[t].p] \in Nat /\ my[t].i < n[storage]
      /\ n[storage] \in Nat /\ my[t].p \in Gens /\ my[t].p <= storage /\ my[t].i \in Index(my[t].p)
      /\ index[t] \in Nat
  <2>1. my[t].i < n[my[t].p]
    BY <1>1 DEF IInv, ThreadAt, CallAt
  <2>2. n[my[t].p] <= n[storage] /\ my[t].i \in Nat /\ n[my[t].p] \in Nat /\ n[storage] \in Nat
        /\ my[t].p \in Gens /\ my[t].p <= storage /\ index[t] \in Nat
    BY <1>1, ThreadNumbers, Numbers
  <2> QED BY <1>1, <2>1, <2>2, Addressed
<1>3. CASE /\ entries[my[t].p][my[t].i] # REDIRECT
           /\ Return(t, entries[my[t].p][my[t].i])
           /\ index' = [index EXCEPT ![t] = IF my[t].call.op = "next" THEN index[t] + 1 ELSE index[t]]
  <2>1. my[t].p = storage
    <3>1. SUFFICES ASSUME my[t].p # storage PROVE FALSE
      OBVIOUS
    <3>2. my[t].p \in 0 .. storage - 1
      BY <1>1, <1>2, <3>1, Numbers DEF Gens
    <3> QED BY <1>1, <1>2, <1>3, <3>2 DEF IInv, GenInv
  <2>2. entries[my[t].p][my[t].i] = Element(my[t].i)
    BY <1>3, <2>1 DEF Element
  <2>3. /\ index'[t] = IF my[t].call.op = "next" THEN index[t] + 1 ELSE index[t]
        /\ \A u \in Threads \ {t} : index'[u] = index[u]
    BY <1>1, <1>3 DEF IInv, TypeInv
  <2>4. index'[t] <= n[storage]
    BY <1>1, <1>2, <2>3
  <2> QED BY <1>1, <1>2, <1>3, <2>2, <2>3, <2>4, ReturnRef
<1>4. CASE Goto(t, "migrate") /\ UNCHANGED <<my, answer, index>>
  BY <1>1, <1>4, GotoRef DEF Publishing, Labels
<1> QED BY <1>3, <1>4 DEF GetEntry

LEMMA CallRef ==
    ASSUME RInv, IInv', Forward, NEW t \in Threads, NEW c \in Calls[t], Call(t, c)
    PROVE  RInv' /\ [Contract!Next]_(Contract!vars)
<1> DEFINE i == CASE c.op = "get" -> c.arg
                  [] c.op = "next" -> index[t]
                  [] c.op = "prev" -> rindex[t] - 1
                  [] OTHER -> 0
           m == [NoLocals EXCEPT !.call = c, !.before = n[storage], !.i = i]
<1>1. my' = [my EXCEPT ![t] = m] /\ Goto(t, "load")
  BY DEF Call
<1>2. /\ (c.op = "prev" => i = rindex[t] - 1) /\ (c.op = "next" => i = index[t])
      /\ (c.op = "get" => i = c.arg)
  OBVIOUS
<1> HIDE DEF i
<1>3. m.call = c /\ m.p = 0 /\ m.i = i /\ m.won = FALSE /\ m.before = n[storage]
  BY DEF NoLocals
<1> HIDE DEF m
<1>4. /\ pc'[t] = "load" /\ my'[t] = m
      /\ \A u \in Threads \ {t} : pc'[u] = pc[u] /\ my'[u] = my[u]
  BY <1>1, Moved DEF RInv, IInv
<1>5. /\ UNCHANGED <<storage, next_storage, n, entries, index>> /\ pc[t] = "idle"
      /\ (c.op = "prev" => rindex[t] > 0) /\ answer' = [answer EXCEPT ![t] = Idle]
  BY DEF Call, world
<1>6. /\ IInv /\ index[t] <= n[storage] /\ rindex[t] <= n[storage] /\ index[t] \in Nat
      /\ rindex[t] \in Nat /\ n[storage] \in Nat /\ n[storage] <= Size[storage]
      /\ Size[storage] \in Nat /\ storage \in Gens
  BY ThreadNumbers, Numbers DEF RInv, KnownAt, IInv, ThreadAt, EnumAt
<1>7. /\ c.op \in {"add", "get", "count", "next", "prev"} /\ (c.op = "add" => c.arg \in Values)
      /\ (c.op = "get" => c.arg \in 0 .. Size[MaxGen]) /\ c # Idle /\ MaxGen \in Gens
  BY CallFacts, PointerArrayAssumption DEF Gens
<1>8. ~Pending(t) /\ ~Pending(t)' /\ ~Won(t)'
  BY <1>3, <1>4, <1>5 DEF Pending, Won
<1>9. TailInv'
  BY <1>4, <1>5, <1>8, TailSame
<1>10. WonAt(t)'
  BY <1>4, <1>8 DEF WonAt, Publishing
<1>11. KnownAt(t)'
  BY <1>2, <1>3, <1>4, <1>5, <1>6 DEF KnownAt
<1>12. ASSUME NEW u \in Threads \ {t} PROVE WonAt(u)' /\ KnownAt(u)' /\ CallMap(u)' = CallMap(u)
  BY <1>4, <1>5, RefStable, CallSame
<1>13. SeqMap' = SeqMap
  BY <1>5, <1>6, SeqSame
<1>14. Contract!Next
  <2> DEFINE op == IF c.op \in {"next", "prev"} THEN "get" ELSE c.op
             arg == IF c.op = "add" THEN c.arg ELSE IF c.op = "count" THEN 0 ELSE i
  <2>1. \/ op = "add" /\ arg \in Values
        \/ op = "get" /\ arg \in UNION {0 .. Size[g] : g \in Gens}
        \/ op = "count" /\ arg = 0
    <3>1. CASE c.op \in {"next", "prev"}
      <4>1. i \in 0 .. Size[storage]
        BY <1>2, <1>5, <1>6, <3>1
      <4> QED BY <1>6, <3>1, <4>1
    <3>2. CASE c.op = "get"
      BY <1>2, <1>7, <3>2
    <3>3. CASE c.op \in {"add", "count"}
      BY <1>7, <3>3
    <3> QED BY <1>7, <3>1, <3>2, <3>3
  <2>2. CallMap(t)' = [op |-> op, arg |-> arg, before |-> n[storage], added |-> FALSE]
    BY <1>3, <1>4, <1>7 DEF CallMap
  <2> HIDE DEF op, arg
  <2>3. CallsMap' = [CallsMap EXCEPT ![t] =
                       [op |-> op, arg |-> arg, before |-> n[storage], added |-> FALSE]]
    BY <1>12, <2>2 DEF CallsMap
  <2>4. CallsMap[t] = Idle
    BY <1>5 DEF CallsMap, CallMap, RInv, KnownAt
  <2>5. Len(SeqMap) = n[storage]
    <3>1. \A j \in 1 .. n[storage] : j - 1 \in Nat /\ j - 1 < n[storage]
      BY <1>6
    <3>2. \A j \in 1 .. n[storage] : Element(j - 1) \in Values
      BY <1>6, <3>1, Counted
    <3> QED BY <1>6, <3>2 DEF SeqMap
  <2> QED BY <1>5, <1>13, <2>1, <2>3, <2>4, <2>5, MapBegins
<1> QED BY <1>9, <1>10, <1>11, <1>12, <1>14 DEF RInv

-----------------------------------------------------------------------------
(* migrate_storage, which the callers do not see *)

(* What a step leaves alone of a thread's call. *)
KeepsCall(t) ==
    /\ my'[t].call = my[t].call /\ my'[t].before = my[t].before
    /\ my'[t].i = my[t].i /\ my'[t].won = my[t].won
    /\ \A u \in Threads \ {t} : pc'[u] = pc[u] /\ my'[u] = my[u]

(* Starting a copy keeps the call. *)
LEMMA StartCopyKeeps ==
    ASSUME IInv, NEW t \in Threads, NEW q, StartCopy(t, q)
    PROVE  KeepsCall(t) /\ pc'[t] \in {"copy", "swap"}
<1> DEFINE m == [my[t] EXCEPT !.q = q, !.dst = q, !.c = 0]
           l == IF Size[my[t].p] = 0 THEN "swap" ELSE "copy"
<1>1. my' = [my EXCEPT ![t] = m] /\ Goto(t, l)
  BY DEF StartCopy
<1>2. m.call = my[t].call /\ m.i = my[t].i /\ m.won = my[t].won /\ m.before = my[t].before
  BY DEF IInv, TypeInv, Locals
<1> HIDE DEF m
<1>3. l \in {"copy", "swap"}
  OBVIOUS
<1> HIDE DEF l
<1>4. /\ pc'[t] = l /\ my'[t] = m
      /\ \A u \in Threads \ {t} : pc'[u] = pc[u] /\ my'[u] = my[u]
  BY <1>1, Moved DEF IInv
<1> QED BY <1>2, <1>3, <1>4 DEF KeepsCall

(* So does going on to the next slot. *)
LEMMA CopyNextKeeps ==
    ASSUME IInv, NEW t \in Threads, CopyNext(t)
    PROVE  /\ KeepsCall(t) /\ pc'[t] \in {"copy", "pub_n"}
           /\ pc'[t] = "pub_n" => my'[t].then = "swap"
<1> DEFINE last == my[t].c = Size[my[t].p] - 1
           x == IF last THEN "swap" ELSE "idle"
           m == [my[t] EXCEPT !.c = @ + 1, !.value = NULL, !.k = 0, !.then = x]
           l == IF last THEN "pub_n" ELSE "copy"
<1>1. my' = [my EXCEPT ![t] = m] /\ Goto(t, l)
  BY DEF CopyNext
<1>2. l \in {"copy", "pub_n"} /\ (l = "pub_n" => x = "swap")
  OBVIOUS
<1> HIDE DEF l, x, last
<1>3. m.call = my[t].call /\ m.i = my[t].i /\ m.won = my[t].won /\ m.before = my[t].before
      /\ m.then = x
  BY DEF IInv, TypeInv, Locals
<1> HIDE DEF m
<1>4. /\ pc'[t] = l /\ my'[t] = m
      /\ \A u \in Threads \ {t} : pc'[u] = pc[u] /\ my'[u] = my[u]
  BY <1>1, Moved DEF IInv
<1> QED BY <1>2, <1>3, <1>4 DEF KeepsCall

(* And the inner loop. *)
LEMMA CopyLoopKeeps ==
    ASSUME IInv, NEW t \in Threads, NEW v, CopyLoop(t, v)
    PROVE  /\ KeepsCall(t) /\ pc'[t] \in {"copy", "pub_n", "freeze", "put"}
           /\ pc'[t] = "pub_n" => my'[t].then = "swap"
<1>1. CASE v = REDIRECT
  BY <1>1, CopyNextKeeps DEF CopyLoop
<1>2. CASE v # REDIRECT
  <2> DEFINE m == [my[t] EXCEPT !.value = v]
             l == IF v = NULL THEN "freeze" ELSE "put"
  <2>1. my' = [my EXCEPT ![t] = m] /\ Goto(t, l)
    BY <1>2 DEF CopyLoop
  <2>2. l \in {"freeze", "put"}
    OBVIOUS
  <2> HIDE DEF l
  <2>3. m.call = my[t].call /\ m.i = my[t].i /\ m.won = my[t].won /\ m.before = my[t].before
    BY DEF IInv, TypeInv, Locals
  <2> HIDE DEF m
  <2>4. /\ pc'[t] = l /\ my'[t] = m
        /\ \A u \in Threads \ {t} : pc'[u] = pc[u] /\ my'[u] = my[u]
    BY <2>1, Moved DEF IInv
  <2> QED BY <2>2, <2>3, <2>4 DEF KeepsCall
<1> QED BY <1>1, <1>2

LEMMA MigrateRef ==
    ASSUME RInv, IInv', Forward, NEW t \in Threads, Migrate(t)
    PROVE  RInv' /\ [Contract!Next]_(Contract!vars)
<1>1. /\ UNCHANGED <<storage, next_storage, n, entries, index, answer, my>> /\ pc[t] = "migrate"
  BY DEF Migrate, world, rovers
<1>2. PICK l \in {"mig_next", "load"} : Goto(t, l)
  BY DEF Migrate
<1> QED BY <1>1, <1>2, GotoRef DEF Publishing, Labels

LEMMA MigNextRef ==
    ASSUME RInv, IInv', Forward, NEW t \in Threads, MigNext(t)
    PROVE  RInv' /\ [Contract!Next]_(Contract!vars)
<1>1. /\ UNCHANGED <<storage, next_storage, n, entries, index, answer>> /\ pc[t] = "mig_next"
      /\ IInv
  BY DEF MigNext, world, rovers, RInv
<1>2. CASE Goto(t, "mig_alloc") /\ UNCHANGED my
  BY <1>1, <1>2, GotoRef DEF Publishing, Labels
<1>3. CASE StartCopy(t, next_storage)
  <2>1. KeepsCall(t) /\ pc'[t] \in {"copy", "swap"}
    BY <1>1, <1>3, StartCopyKeeps
  <2>2. ~(Publishing(t) /\ my[t].then = "idle") /\ ~(Publishing(t)' /\ my'[t].then = "idle")
    BY <1>1, <2>1 DEF Publishing
  <2> QED BY <1>1, <2>1, <2>2, GoesOnLocal DEF KeepsCall
<1> QED BY <1>2, <1>3 DEF MigNext

LEMMA CopyRef ==
    ASSUME RInv, IInv', Forward, NEW t \in Threads, NEW v, pc[t] \in {"copy", "freeze"},
           CopyLoop(t, v), UNCHANGED <<storage, next_storage, n, entries, index, answer>>
    PROVE  RInv' /\ [Contract!Next]_(Contract!vars)
<1>1. /\ KeepsCall(t) /\ pc'[t] \in {"copy", "pub_n", "freeze", "put"}
      /\ pc'[t] = "pub_n" => my'[t].then = "swap"
  BY CopyLoopKeeps DEF RInv
<1>2. ~(Publishing(t) /\ my[t].then = "idle") /\ ~(Publishing(t)' /\ my'[t].then = "idle")
  BY <1>1 DEF Publishing
<1> QED BY <1>1, <1>2, GoesOnLocal DEF KeepsCall

LEMMA PutFollowRef ==
    ASSUME RInv, IInv', Forward, NEW t \in Threads, PutFollow(t)
    PROVE  RInv' /\ [Contract!Next]_(Contract!vars)
<1> DEFINE m == [my[t] EXCEPT !.dst = next_storage]
<1>1. /\ my' = [my EXCEPT ![t] = m] /\ Goto(t, "put") /\ pc[t] = "follow"
      /\ UNCHANGED <<storage, next_storage, n, entries, index, answer>>
  BY DEF PutFollow, world, rovers
<1>2. m.call = my[t].call /\ m.i = my[t].i /\ m.won = my[t].won /\ m.before = my[t].before
  BY DEF RInv, IInv, TypeInv, Locals
<1> HIDE DEF m
<1>3. KeepsCall(t) /\ pc'[t] = "put"
  <2>1. /\ pc'[t] = "put" /\ my'[t] = m
        /\ \A u \in Threads \ {t} : pc'[u] = pc[u] /\ my'[u] = my[u]
    BY <1>1, Moved DEF RInv, IInv
  <2> QED BY <1>2, <2>1 DEF KeepsCall
<1>4. ~(Publishing(t) /\ my[t].then = "idle") /\ ~(Publishing(t)' /\ my'[t].then = "idle")
  BY <1>1, <1>3 DEF Publishing
<1> QED BY <1>1, <1>3, <1>4, GoesOnLocal DEF KeepsCall

(* A step of a migration that changes the storages but not the count. *)
LEMMA MigrationSilent ==
    ASSUME RInv, IInv', Forward, NEW t \in Threads, KeepsCall(t),
           n'[storage'] = n[storage], answer' = answer, index' = index,
           pc[t] \in {"mig_alloc", "put", "freeze", "swap"},
           pc'[t] \in {"load", "copy", "put", "follow", "freeze", "swap"}
             \/ (pc'[t] = "pub_n" /\ my'[t].then # "idle"),
           n[storage] = Size[storage], n'[storage'] = Size[storage']
             \/ \A i \in Index(storage') : n'[storage'] <= i => entries'[storage'][i] = NULL,
           next_storage' # storage' =>
             \A i \in Index(next_storage') :
               Size[storage'] <= i => entries'[next_storage'][i] = NULL
    PROVE  RInv' /\ UNCHANGED Contract!vars
<1>1. ~Won(t) /\ ~(Publishing(t)' /\ my'[t].then = "idle")
  BY NotWon DEF Publishing
<1>2. \A u \in Threads : ~Pending(u)
  <2>1. SUFFICES ASSUME NEW u \in Threads, Pending(u) PROVE FALSE
    OBVIOUS
  <2>2. my[u].i = n[storage] /\ my[u].i < Size[storage]
    BY <2>1 DEF RInv, WonAt, Pending
  <2> QED BY <2>2, Numbers DEF RInv
<1>3. \A u \in Threads : ~Pending(u)'
  <2>1. ~Won(t)'
    BY <1>1 DEF Won, KeepsCall
  <2>2. ASSUME NEW u \in Threads \ {t} PROVE Pending(u)' <=> Pending(u)
    BY DEF KeepsCall, Pending, Won
  <2> QED BY <1>2, <2>1, <2>2 DEF Pending
<1>4. \A i \in Index(storage') : n'[storage'] <= i => entries'[storage'][i] = NULL
  <2>1. storage' \in Gens
    BY DEF IInv, TypeInv
  <2> QED BY <2>1, IndexType
<1>5. TailInv'
  <2>1. \A i \in Index(storage') : i \in Nat /\ n'[storage'] \in Nat
    <3>1. storage' \in Gens /\ n'[storage'] \in Nat
      BY DEF IInv, TypeInv
    <3> QED BY <3>1, IndexType
  <2>2. \A i \in Index(storage') : n'[storage'] < i => entries'[storage'][i] = NULL
    BY <1>4, <2>1
  <2>3. \A i \in Index(storage') : i = n'[storage'] => entries'[storage'][i] = NULL
    BY <1>4, <2>1
  <2> QED BY <1>3, <2>2, <2>3 DEF TailInv, Index
<1> QED BY <1>1, <1>5, GoesOn DEF KeepsCall

LEMMA MigAllocRef ==
    ASSUME RInv, IInv', Forward, NEW t \in Threads, MigAlloc(t)
    PROVE  RInv' /\ [Contract!Next]_(Contract!vars)
<1>1. /\ UNCHANGED <<storage, n, entries, index, answer>> /\ pc[t] = "mig_alloc"
      /\ my[t].p < MaxGen /\ IInv
  BY DEF MigAlloc, rovers, RInv
<1>2. CASE /\ next_storage = my[t].p /\ next_storage' = my[t].p + 1
           /\ StartCopy(t, my[t].p + 1)
  <2>1. KeepsCall(t) /\ pc'[t] \in {"copy", "swap"}
    BY <1>1, <1>2, StartCopyKeeps
  <2>2. /\ my[t].p \in Nat /\ my[t].p <= storage /\ next_storage \in {storage, storage + 1}
        /\ storage \in Nat /\ MaxGen \in Nat /\ n[my[t].p] = Size[my[t].p] /\ GenInv
    BY <1>1, Basics, Numbers DEF CallAt, IInv
  <2>3. next_storage = storage /\ my[t].p = storage /\ storage + 1 \in next_storage .. MaxGen
    BY <1>1, <1>2, <2>2
  <2>4. \A i \in Index(storage + 1) : entries[storage + 1][i] = NULL
    BY <2>2, <2>3 DEF GenInv
  <2>5. \A i \in Index(next_storage') : entries'[next_storage'][i] = NULL
    BY <1>1, <1>2, <2>3, <2>4
  <2> QED BY <1>1, <2>1, <2>2, <2>3, <2>5, MigrationSilent
<1>3. CASE StartCopy(t, next_storage) /\ UNCHANGED next_storage
  <2>1. KeepsCall(t) /\ pc'[t] \in {"copy", "swap"}
    BY <1>1, <1>3, StartCopyKeeps
  <2>2. ~(Publishing(t) /\ my[t].then = "idle") /\ ~(Publishing(t)' /\ my'[t].then = "idle")
    BY <1>1, <2>1 DEF Publishing
  <2> QED BY <1>1, <1>3, <2>1, <2>2, GoesOnLocal DEF KeepsCall
<1> QED BY <1>2, <1>3 DEF MigAlloc

LEMMA PutRef ==
    ASSUME RInv, IInv', Forward, NEW t \in Threads, Put(t)
    PROVE  RInv' /\ [Contract!Next]_(Contract!vars)
<1>1. /\ UNCHANGED <<storage, next_storage, n, index, answer>> /\ pc[t] = "put" /\ IInv
      /\ CasEntry(my[t].dst, my[t].c, my[t].value, NULL)
  BY DEF Put, world, rovers, RInv
<1>2. KeepsCall(t) /\ (pc'[t] = "follow" \/ (pc'[t] = "pub_n" /\ my'[t].then = "freeze"))
  <2>1. CASE Goto(t, "follow") /\ UNCHANGED my
    BY <1>1, <2>1 DEF IInv, TypeInv, Goto, KeepsCall
  <2>2. CASE my' = [my EXCEPT ![t].then = "freeze"] /\ Goto(t, "pub_n")
    <3> DEFINE m == [my[t] EXCEPT !.then = "freeze"]
    <3>1. my' = [my EXCEPT ![t] = m]
      BY <2>2
    <3>2. m.call = my[t].call /\ m.i = my[t].i /\ m.won = my[t].won /\ m.before = my[t].before
          /\ m.then = "freeze"
      BY <1>1 DEF IInv, TypeInv, Locals
    <3> HIDE DEF m
    <3>3. /\ pc'[t] = "pub_n" /\ my'[t] = m
          /\ \A u \in Threads \ {t} : pc'[u] = pc[u] /\ my'[u] = my[u]
      BY <1>1, <2>2, <3>1, Moved DEF IInv
    <3> QED BY <3>2, <3>3 DEF KeepsCall
  <2> QED BY <2>1, <2>2 DEF Put
<1>3. /\ my[t].c \in Index(my[t].dst) /\ my[t].c \in Index(storage) /\ my[t].dst \in Gens
      /\ my[t].value \in Values
  BY <1>1, Addressed, Basics DEF Carrying, MigrateAt
<1>4. CASE entries[my[t].dst][my[t].c] # NULL
  <2>1. entries' = entries
    BY <1>1, <1>3, <1>4, CasFails DEF IInv
  <2>2. ~(Publishing(t) /\ my[t].then = "idle") /\ ~(Publishing(t)' /\ my'[t].then = "idle")
    BY <1>1, <1>2 DEF Publishing
  <2> QED BY <1>1, <1>2, <2>1, <2>2, GoesOnLocal DEF KeepsCall
<1>5. CASE entries[my[t].dst][my[t].c] = NULL
  <2>1. my[t].dst = next_storage /\ next_storage # storage
    BY <1>1, <1>5, PutFindsNext
  <2>2. n[storage] = Size[storage] /\ storage \in Gens /\ next_storage \in Gens
    BY <1>1, <2>1, Numbers
  <2>3. my[t].value \in Words /\ TypeInv
    BY <1>1, <1>3 DEF Words, IInv
  <2>4. \A j \in Index(next_storage) : j # my[t].c => entries'[next_storage][j] = entries[next_storage][j]
    BY <1>1, <1>3, <2>1, <2>2, <2>3, CasFacts
  <2>5. \A i \in Index(next_storage) : Size[storage] <= i => entries[next_storage][i] = NULL
    BY <2>1 DEF RInv, TailInv
  <2>6. my[t].c < Size[storage] /\ my[t].c \in Nat /\ Size[storage] \in Nat
    BY <1>3, <2>2, IndexType
  <2>7. \A i \in Index(next_storage) : Size[storage] <= i => entries'[next_storage][i] = NULL
    <3>1. \A i \in Index(next_storage) : i \in Nat
      BY <2>2, IndexType
    <3> QED BY <2>4, <2>5, <2>6, <3>1
  <2> QED BY <1>1, <1>2, <2>2, <2>7, MigrationSilent
<1> QED BY <1>4, <1>5

LEMMA FreezeRef ==
    ASSUME RInv, IInv', Forward, NEW t \in Threads, Freeze(t)
    PROVE  RInv' /\ [Contract!Next]_(Contract!vars)
<1>1. /\ UNCHANGED <<storage, next_storage, n, index, answer>> /\ pc[t] = "freeze" /\ IInv
      /\ CasEntry(my[t].p, my[t].c, REDIRECT, my[t].value)
  BY DEF Freeze, world, rovers, RInv
<1>2. /\ my[t].c \in Index(my[t].p) /\ my[t].p \in Gens /\ my[t].value \in Values /\ Migrating(t)
  BY <1>1, Addressed, Basics DEF Carrying, MigrateAt, Migrating
<1>3. CASE entries[my[t].p][my[t].c] = my[t].value /\ CopyNext(t)
  <2>1. /\ KeepsCall(t) /\ pc'[t] \in {"copy", "pub_n"}
        /\ pc'[t] = "pub_n" => my'[t].then = "swap"
    BY <1>1, <1>3, CopyNextKeeps
  <2>2. my[t].p = storage
    BY <1>1, <1>2, <1>3, SourceFacts, ConstFacts
  <2>3. next_storage = storage + 1 /\ n[storage] = Size[storage] /\ next_storage \in Gens
        /\ storage \in Nat /\ next_storage # storage
    BY <1>1, <1>2, <2>2, CopierFacts, Numbers
  <2>4. REDIRECT \in Words /\ TypeInv
    BY <1>1 DEF Words, IInv
  <2>5. \A j \in Index(next_storage) : entries'[next_storage][j] = entries[next_storage][j]
    BY <1>1, <1>2, <2>2, <2>3, <2>4, CasFacts
  <2>6. \A i \in Index(next_storage) : Size[storage] <= i => entries[next_storage][i] = NULL
    BY <2>3 DEF RInv, TailInv
  <2> QED BY <1>1, <2>1, <2>3, <2>5, <2>6, MigrationSilent
<1>4. CASE /\ entries[my[t].p][my[t].c] # my[t].value
           /\ CopyLoop(t, entries[my[t].p][my[t].c])
  <2>1. entries' = entries
    BY <1>1, <1>2, <1>4, CasFails DEF IInv
  <2> QED BY <1>1, <1>4, <2>1, CopyRef
<1> QED BY <1>3, <1>4 DEF Freeze

LEMMA SwapRef ==
    ASSUME RInv, IInv', Forward, NEW t \in Threads, Swap(t)
    PROVE  RInv' /\ [Contract!Next]_(Contract!vars)
<1> DEFINE m == [my[t] EXCEPT !.q = 0, !.c = 0, !.dst = 0, !.then = "idle"]
<1>1. /\ UNCHANGED <<next_storage, n, entries, index, answer>> /\ pc[t] = "swap" /\ IInv
      /\ storage' = (IF storage = my[t].p THEN my[t].q ELSE storage)
      /\ my' = [my EXCEPT ![t] = m] /\ Goto(t, "load")
  BY DEF Swap, rovers, RInv
<1>2. m.call = my[t].call /\ m.i = my[t].i /\ m.won = my[t].won /\ m.before = my[t].before
  BY <1>1 DEF IInv, TypeInv, Locals
<1> HIDE DEF m
<1>3. KeepsCall(t) /\ pc'[t] = "load"
  <2>1. /\ pc'[t] = "load" /\ my'[t] = m
        /\ \A u \in Threads \ {t} : pc'[u] = pc[u] /\ my'[u] = my[u]
    BY <1>1, Moved DEF IInv
  <2> QED BY <1>2, <2>1 DEF KeepsCall
<1>4. CASE storage # my[t].p
  <2>1. ~(Publishing(t) /\ my[t].then = "idle") /\ ~(Publishing(t)' /\ my'[t].then = "idle")
    BY <1>1, <1>3 DEF Publishing
  <2> QED BY <1>1, <1>3, <1>4, <2>1, GoesOnLocal DEF KeepsCall
<1>5. CASE storage = my[t].p
  <2>1. Migrating(t)
    BY <1>1 DEF Migrating, Copied
  <2>2. /\ next_storage = storage + 1 /\ my[t].q = next_storage /\ n[storage] = Size[storage]
        /\ Size[storage] <= n[next_storage] /\ storage \in Nat /\ next_storage \in Gens
        /\ n[next_storage] \in Nat /\ Size[storage] \in Nat /\ n[next_storage] <= Size[next_storage]
        /\ next_storage # storage
    BY <1>1, <1>5, <2>1, CopierFacts, Basics, Numbers DEF MigrateAt
  <2>3. \A i \in Index(next_storage) : Size[storage] <= i => entries[next_storage][i] = NULL
    BY <2>2 DEF RInv, TailInv
  <2>4. n[next_storage] = Size[storage]
    <3>1. SUFFICES ASSUME Size[storage] < n[next_storage] PROVE FALSE
      BY <2>2
    <3>2. Size[storage] \in 0 .. n[next_storage] - 1 /\ Size[storage] \in Index(next_storage)
      BY <2>2, <3>1, IndexType
    <3>3. entries[next_storage][Size[storage]] # NULL
      BY <1>1, <2>2, <3>2 DEF IInv, DenseInv
    <3> QED BY <2>2, <2>3, <3>2, <3>3
  <2>5. storage' = next_storage /\ next_storage' = storage' /\ n'[storage'] = n[storage]
    BY <1>1, <1>5, <2>2, <2>4
  <2>6. \A i \in Index(storage') : n'[storage'] <= i => entries'[storage'][i] = NULL
    BY <1>1, <2>2, <2>3, <2>4, <2>5
  <2> QED BY <1>1, <1>3, <2>2, <2>5, <2>6, MigrationSilent
<1> QED BY <1>4, <1>5

-----------------------------------------------------------------------------
(* storage_publish and the compare and swap of add *)

(* A thread that goes on within publish, with the count as it was. *)
LEMMA PublishGoesOn ==
    ASSUME RInv, IInv', Forward, NEW t \in Threads, Publishing(t), Publishing(t)',
           KeepsCall(t), my'[t].p = my[t].p, my'[t].dst = my[t].dst, my'[t].then = my[t].then,
           UNCHANGED <<storage, next_storage, entries, index, answer>>, n'[storage] = n[storage]
    PROVE  RInv' /\ [Contract!Next]_(Contract!vars)
<1>1. WonAt(t)' /\ KnownAt(t)'
  BY RefStable DEF KeepsCall
<1>2. CallMap(t)' = CallMap(t) /\ (Pending(t)' <=> Pending(t))
  BY CallSame DEF KeepsCall, Publishing
<1>3. TailInv'
  BY <1>2, TailSame DEF KeepsCall
<1> QED BY <1>1, <1>2, <1>3, Silent DEF KeepsCall

(* publish returns; an add that has won returns with its value counted.    *)
LEMMA PublishReturnsRef ==
    ASSUME RInv, IInv', Forward, NEW t \in Threads, Publishing(t), PublishReturns(t),
           UNCHANGED <<storage, next_storage, n, entries, index>>,
           my[t].then = "idle" => my[t].i < n[storage]
    PROVE  RInv' /\ [Contract!Next]_(Contract!vars)
<1>1. pc[t] # "idle"
  BY DEF Publishing
<1>2. CASE my[t].then = "idle" /\ Return(t, 0)
  <2>1. my[t].won /\ index[t] <= n[storage]
    BY <1>2 DEF RInv, WonAt, KnownAt
  <2>2. my[t].call.op = "add"
    BY <1>2 DEF RInv, IInv, ThreadAt, PublishAt
  <2> QED BY <1>1, <1>2, <2>1, <2>2, ReturnRef
<1>3. CASE my[t].then # "idle" /\ Goto(t, my[t].then) /\ UNCHANGED <<my, answer>>
  <2>1. my[t].then \in {"add_n", "freeze", "swap"}
    BY <1>3 DEF RInv, IInv, TypeInv, Locals
  <2>2. my[t].then \in Labels \ {"idle", "count", "get_n", "get_entry", "add_cas"}
    BY <2>1 DEF Labels
  <2> QED BY <1>1, <1>3, <2>1, <2>2, GotoRef
<1> QED BY <1>2, <1>3 DEF PublishReturns

LEMMA PubNRef ==
    ASSUME RInv, IInv', Forward, NEW t \in Threads, PubN(t)
    PROVE  RInv' /\ [Contract!Next]_(Contract!vars)
<1>1. /\ UNCHANGED <<storage, next_storage, n, entries, index>> /\ pc[t] = "pub_n" /\ IInv
      /\ Publishing(t)
  BY DEF PubN, world, rovers, RInv, Publishing
<1>2. CASE n[my[t].dst] >= Size[my[t].dst] /\ PublishReturns(t)
  <2>1. ASSUME my[t].then = "idle" PROVE my[t].i < n[storage]
    <3>1. my[t].won /\ my[t].call.op = "add"
      BY <1>1, <2>1 DEF RInv, WonAt, IInv, ThreadAt, PublishAt
    <3>2. my[t].dst = my[t].p /\ my[t].i < Size[my[t].p]
      BY <1>1, <3>1 DEF RInv, WonAt, Won
    <3> QED BY <1>1, <1>2, <3>2, ThreadNumbers, Numbers
  <2> QED BY <1>1, <1>2, <2>1, PublishReturnsRef
<1>3. CASE /\ my' = [my EXCEPT ![t].k = n[my[t].dst]]
           /\ Goto(t, "pub_entry") /\ UNCHANGED answer
  <2> DEFINE m == [my[t] EXCEPT !.k = n[my[t].dst]]
  <2>1. my' = [my EXCEPT ![t] = m]
    BY <1>3
  <2>2. /\ m.call = my[t].call /\ m.i = my[t].i /\ m.won = my[t].won /\ m.before = my[t].before
        /\ m.p = my[t].p /\ m.dst = my[t].dst /\ m.then = my[t].then
    BY <1>1 DEF IInv, TypeInv, Locals
  <2> HIDE DEF m
  <2>3. /\ pc'[t] = "pub_entry" /\ my'[t] = m
        /\ \A u \in Threads \ {t} : pc'[u] = pc[u] /\ my'[u] = my[u]
    BY <1>1, <1>3, <2>1, Moved DEF IInv
  <2>4. KeepsCall(t) /\ Publishing(t)'
    BY <2>2, <2>3 DEF KeepsCall, Publishing
  <2> QED BY <1>1, <1>3, <2>2, <2>3, <2>4, PublishGoesOn
<1> QED BY <1>2, <1>3 DEF PubN

LEMMA PubEntryRef ==
    ASSUME RInv, IInv', Forward, NEW t \in Threads, PubEntry(t)
    PROVE  RInv' /\ [Contract!Next]_(Contract!vars)
<1>1. /\ UNCHANGED <<storage, next_storage, n, entries, index>> /\ pc[t] = "pub_entry" /\ IInv
      /\ Publishing(t)
  BY DEF PubEntry, world, rovers, RInv, Publishing
<1>2. CASE entries[my[t].dst][my[t].k] \in {NULL, REDIRECT} /\ PublishReturns(t)
  <2>1. ASSUME my[t].then = "idle" PROVE my[t].i < n[storage]
    <3>1. my[t].won /\ my[t].call.op = "add"
      BY <1>1, <2>1 DEF RInv, WonAt, IInv, ThreadAt, PublishAt
    <3>2. my[t].dst = my[t].p
      BY <1>1, <3>1 DEF RInv, WonAt, Won
    <3>3. SUFFICES ASSUME n[storage] <= my[t].i PROVE FALSE
      BY <1>1, ThreadNumbers, Numbers
    <3>4. /\ my[t].p = storage /\ my[t].i = n[storage] /\ my[t].i < Size[storage]
          /\ entries[storage][my[t].i] = my[t].call.arg
      BY <1>1, <3>1, <3>3 DEF RInv, WonAt, Won, Pending
    <3>5. my[t].call.arg \in Values /\ storage \in Gens /\ my[t].i \in Nat
          /\ n[storage] \in Nat /\ Size[storage] \in Nat /\ storage <= storage
      BY <1>1, <3>1, ThreadNumbers, Numbers
    <3>6. my[t].k \in Index(storage) /\ my[t].k <= n[storage] /\ my[t].k \in Nat
      BY <1>1, <3>2, <3>4, Addressed, Basics DEF PublishAt
    <3>7. CASE my[t].k = n[storage]
      BY <1>2, <3>2, <3>4, <3>5, <3>7, ConstFacts
    <3>8. CASE my[t].k < n[storage]
      <4>1. my[t].k \in 0 .. n[storage] - 1
        BY <3>5, <3>6, <3>8
      <4>2. entries[storage][my[t].k] # NULL
        BY <1>1, <3>5, <4>1 DEF IInv, DenseInv
      <4>3. entries[storage][my[t].k] = REDIRECT
        BY <1>2, <3>2, <3>4, <4>2
      <4>4. n[storage] = Size[storage]
        BY <1>1, <3>5, <3>6, <4>3, FrozenFull
      <4> QED BY <3>4, <3>5, <4>4
    <3> QED BY <3>5, <3>6, <3>7, <3>8
  <2> QED BY <1>1, <1>2, <2>1, PublishReturnsRef
<1>3. CASE Goto(t, "pub_cas") /\ UNCHANGED <<my, answer>>
  <2>1. pc'[t] = "pub_cas" /\ \A u \in Threads \ {t} : pc'[u] = pc[u]
    BY <1>1, <1>3 DEF IInv, TypeInv, Goto
  <2>2. KeepsCall(t) /\ Publishing(t)'
    BY <1>3, <2>1 DEF KeepsCall, Publishing
  <2> QED BY <1>1, <1>3, <2>2, PublishGoesOn
<1> QED BY <1>2, <1>3 DEF PubEntry

(* An add that wins its slot: nothing the callers see, but its value is    *)
(* the one that is counted next.                                           *)
LEMMA AddWinsRef ==
    ASSUME RInv, IInv', Forward, NEW t \in Threads, pc[t] = "add_cas",
           UNCHANGED <<storage, next_storage, n, index, answer>>,
           entries[my[t].p][my[t].i] = NULL,
           CasEntry(my[t].p, my[t].i, my[t].call.arg, NULL),
           my' = [my EXCEPT ![t].won = TRUE, ![t].dst = my[t].p, ![t].then = "idle"],
           Goto(t, "pub_n")
    PROVE  RInv' /\ [Contract!Next]_(Contract!vars)
<1> DEFINE m == [my[t] EXCEPT !.won = TRUE, !.dst = my[t].p, !.then = "idle"]
<1>1. my' = [my EXCEPT ![t] = m] /\ IInv
  BY DEF RInv, IInv, TypeInv
<1>2. /\ m.call = my[t].call /\ m.i = my[t].i /\ m.won = TRUE /\ m.before = my[t].before
      /\ m.p = my[t].p /\ m.dst = my[t].p /\ m.then = "idle"
  BY DEF RInv, IInv, TypeInv, Locals
<1> HIDE DEF m
<1>3. /\ pc'[t] = "pub_n" /\ my'[t] = m
      /\ \A u \in Threads \ {t} : pc'[u] = pc[u] /\ my'[u] = my[u]
  BY <1>1, Moved DEF IInv
<1>4. /\ my[t].p = storage /\ next_storage = storage /\ my[t].i \in Index(storage)
      /\ my[t].call.arg \in Values /\ my[t].call.op = "add" /\ my[t].i <= n[storage]
      /\ storage \in Gens /\ n[storage] \in Nat /\ my[t].i \in Nat /\ my[t].i < Size[storage]
  <2>1. my[t].p = storage /\ next_storage = storage
    BY <1>1, AddFindsCurrent
  <2>2. my[t].i \in Index(storage) /\ my[t].call.arg \in Values /\ my[t].call.op = "add"
        /\ my[t].i <= n[storage] /\ my[t].i < Size[storage]
    BY <1>1, <2>1, Addressed, Basics DEF CallAt, RInv, WonAt
  <2> QED BY <1>1, <2>1, <2>2, ThreadNumbers, Numbers
<1>5. my[t].i = n[storage]
  <2>1. my[t].i \notin 0 .. n[storage] - 1
    BY <1>1, <1>4 DEF IInv, DenseInv
  <2> QED BY <1>4, <2>1
<1>6. ASSUME NEW u \in Threads PROVE ~Pending(u)
  <2>1. SUFFICES ASSUME Pending(u) PROVE FALSE
    OBVIOUS
  <2>2. my[u].i = n[storage] /\ entries[storage][my[u].i] = my[u].call.arg
        /\ my[u].call.arg \in Values
    BY <1>1, <2>1, ThreadNumbers DEF RInv, WonAt, Pending, Won
  <2> QED BY <1>4, <1>5, <2>2, ConstFacts
<1>7. my[t].call.arg \in Words /\ TypeInv
  BY <1>1, <1>4 DEF Words, IInv
<1>8. /\ entries'[storage][my[t].i] = my[t].call.arg
      /\ \A j \in Index(storage) : j # my[t].i => entries'[storage][j] = entries[storage][j]
  BY <1>4, <1>7, CasFacts
<1>9. /\ Pending(t)' /\ Won(t)' /\ Publishing(t)'
      /\ \A u \in Threads \ {t} : ~Pending(u)'
  <2>1. Won(t)' /\ Publishing(t)'
    BY <1>2, <1>3, <1>4 DEF Won, Publishing
  <2>2. Pending(t)'
    BY <1>2, <1>3, <1>4, <1>5, <2>1 DEF Pending
  <2>3. ASSUME NEW u \in Threads \ {t} PROVE ~Pending(u)'
    BY <1>3, <1>6 DEF Pending, Won
  <2> QED BY <2>1, <2>2, <2>3
<1>10. TailInv'
  <2>1. ASSUME NEW i \in Index(storage), n[storage] < i PROVE entries'[storage][i] = NULL
    <3>1. entries[storage][i] = NULL /\ i \in Nat
      BY <1>4, <2>1, IndexType DEF RInv, TailInv
    <3> QED BY <1>4, <1>5, <1>8, <2>1, <3>1
  <2> QED BY <1>4, <1>9, <2>1 DEF TailInv, Index
<1>11. WonAt(t)'
  BY <1>2, <1>3, <1>4, <1>5, <1>8, <1>9 DEF WonAt
<1>12. KnownAt(t)'
  <2>1. my[t].before <= n[storage] /\ index[t] <= n[storage]
    BY DEF RInv, KnownAt
  <2> QED BY <1>2, <1>3, <1>4, <2>1 DEF KnownAt
<1>13. CallMap(t)' = CallMap(t)
  <2>1. ~(my[t].i < n[storage])
    BY <1>4, <1>5
  <2> QED BY <1>2, <1>3, <1>4, <2>1 DEF CallMap
<1> QED BY <1>3, <1>10, <1>11, <1>12, <1>13, Silent

LEMMA AddCasRef ==
    ASSUME RInv, IInv', Forward, NEW t \in Threads, AddCas(t)
    PROVE  RInv' /\ [Contract!Next]_(Contract!vars)
<1> DEFINE found == entries[my[t].p][my[t].i]
<1>1. /\ UNCHANGED <<storage, next_storage, n, index, answer>> /\ pc[t] = "add_cas" /\ IInv
      /\ CasEntry(my[t].p, my[t].i, my[t].call.arg, NULL)
      /\ my[t].p \in Gens /\ my[t].i \in Index(my[t].p)
  BY Addressed DEF AddCas, world, rovers, RInv
<1>2. CASE found = NULL
  <2>1. /\ my' = [my EXCEPT ![t].won = TRUE, ![t].dst = my[t].p, ![t].then = "idle"]
        /\ Goto(t, "pub_n")
    BY <1>2, ConstFacts DEF AddCas
  <2> QED BY <1>1, <1>2, <2>1, AddWinsRef
<1>3. CASE found # NULL
  <2>1. entries' = entries
    BY <1>1, <1>3, CasFails DEF IInv
  <2>2. CASE Goto(t, "migrate") /\ UNCHANGED my
    BY <1>1, <2>1, <2>2, GotoRef DEF Publishing, Labels
  <2>3. CASE /\ my' = [my EXCEPT ![t].won = found = NULL, ![t].dst = my[t].p,
                                ![t].then = IF found = NULL THEN "idle" ELSE "add_n"]
             /\ Goto(t, "pub_n")
    <3> DEFINE m == [my[t] EXCEPT !.won = FALSE, !.dst = my[t].p, !.then = "add_n"]
    <3>1. my' = [my EXCEPT ![t] = m]
      BY <1>1, <1>3, <2>3 DEF IInv, TypeInv
    <3>2. /\ m.call = my[t].call /\ m.i = my[t].i /\ m.won = FALSE /\ m.before = my[t].before
          /\ m.then = "add_n"
      BY <1>1 DEF IInv, TypeInv, Locals
    <3> HIDE DEF m
    <3>3. /\ pc'[t] = "pub_n" /\ my'[t] = m
          /\ \A u \in Threads \ {t} : pc'[u] = pc[u] /\ my'[u] = my[u]
      BY <1>1, <2>3, <3>1, Moved DEF IInv
    <3>4. my[t].won = FALSE
      <4>1. ~Won(t) /\ my[t].call.op = "add" /\ my[t].won \in BOOLEAN
        BY <1>1, NotWon, Basics, ThreadNumbers DEF Publishing, CallAt
      <4> QED BY <1>1, <4>1 DEF Won
    <3>5. ~(Publishing(t) /\ my[t].then = "idle") /\ ~(Publishing(t)' /\ my'[t].then = "idle")
      BY <1>1, <3>2, <3>3 DEF Publishing
    <3> QED BY <1>1, <2>1, <3>2, <3>3, <3>4, <3>5, GoesOnLocal
  <2> QED BY <2>2, <2>3 DEF AddCas
<1> QED BY <1>2, <1>3

(* The array with a counted slot more. *)
LEMMA SeqGrows ==
    ASSUME IInv, UNCHANGED <<storage, next_storage, entries>>, n[storage] < Size[storage],
           n'[storage] = n[storage] + 1, Element(n[storage]) \in Values
    PROVE  SeqMap' = Append(SeqMap, Element(n[storage]))
<1> DEFINE k == n[storage]
<1>1. k \in Nat /\ \A i \in Nat : Element(i)' = Element(i)
  BY Numbers DEF Element
<1>2. SeqMap' = [j \in 1 .. k + 1 |-> Element(j - 1)]
  BY <1>1 DEF SeqMap, Element
<1>3. SeqMap \in Seq(Values) /\ Len(SeqMap) = k /\ \A j \in 1 .. k : SeqMap[j] = Element(j - 1)
  <2>1. \A j \in 1 .. k : j - 1 \in Nat /\ j - 1 < k
    BY <1>1
  <2>2. \A j \in 1 .. k : Element(j - 1) \in Values
    BY <2>1, Counted
  <2> QED BY <1>1, <2>2 DEF SeqMap
<1>4. [j \in 1 .. k + 1 |-> Element(j - 1)] \in Seq(Values)
  <2>1. ASSUME NEW j \in 1 .. k + 1 PROVE Element(j - 1) \in Values
    <3>1. CASE j = k + 1
      <4>1. j - 1 = k
        BY <1>1, <3>1
      <4> QED BY <4>1
    <3>2. CASE j # k + 1
      <4>1. j - 1 \in Nat /\ j - 1 < k
        BY <1>1, <3>2
      <4> QED BY <4>1, Counted
    <3> QED BY <3>1, <3>2
  <2> QED BY <1>1, <2>1
<1> HIDE DEF k
<1>5. [j \in 1 .. k + 1 |-> Element(j - 1)] = Append(SeqMap, Element(k))
  <2>1. Append(SeqMap, Element(k)) \in Seq(Values) /\ Len(Append(SeqMap, Element(k))) = k + 1
    BY <1>1, <1>3 DEF k
  <2>2. ASSUME NEW j \in 1 .. k + 1 PROVE Append(SeqMap, Element(k))[j] = Element(j - 1)
    <3>1. CASE j = k + 1
      <4>1. j - 1 = k
        BY <1>1, <3>1
      <4> QED BY <1>1, <1>3, <3>1, <4>1
    <3>2. CASE j # k + 1
      <4>1. j \in 1 .. k
        BY <1>1, <3>2
      <4> QED BY <1>3, <4>1
    <3> QED BY <3>1, <3>2
  <2>3. Append(SeqMap, Element(k)) = [j \in 1 .. k + 1 |-> Append(SeqMap, Element(k))[j]]
    <3>1. ASSUME NEW s \in Seq(Values), Len(s) = k + 1 PROVE s = [j \in 1 .. k + 1 |-> s[j]]
      BY <1>1, <3>1
    <3> QED BY <2>1, <3>1
  <2> QED BY <2>2, <2>3
<1> QED BY <1>2, <1>5 DEF k

LEMMA PubCasRef ==
    ASSUME RInv, IInv', Forward, NEW t \in Threads, PubCas(t)
    PROVE  RInv' /\ [Contract!Next]_(Contract!vars)
<1> DEFINE d == my[t].dst
           k == my[t].k
<1>1. /\ UNCHANGED <<storage, next_storage, my, entries, index, answer>> /\ pc[t] = "pub_cas"
      /\ IInv /\ Publishing(t)
      /\ n' = [n EXCEPT ![d] = IF n[d] = k THEN n[d] + 1 ELSE n[d]]
  BY DEF PubCas, world, rovers, RInv, Publishing
<1>2. /\ pc'[t] = "pub_n" /\ \A u \in Threads \ {t} : pc'[u] = pc[u]
  BY <1>1 DEF PubCas, Goto, IInv, TypeInv
<1>3. KeepsCall(t) /\ Publishing(t)'
  BY <1>1, <1>2 DEF KeepsCall, Publishing
<1>4. /\ storage \in Gens /\ n \in [Gens -> Nat] /\ d \in Gens /\ k \in Nat
      /\ k < Size[d] /\ entries[d][k] # NULL /\ Size[d] \in Nat
  BY <1>1, Basics DEF PublishAt
<1>5. CASE ~(d = storage /\ n[d] = k)
  <2>1. n'[storage] = n[storage]
    BY <1>1, <1>4, <1>5
  <2> QED BY <1>1, <1>3, <2>1, PublishGoesOn
<1>6. CASE d = storage /\ n[d] = k
  <2>1. n'[storage] = k + 1 /\ n[storage] = k /\ k < Size[storage] /\ k \in Index(storage)
        /\ entries[storage][k] # NULL
    BY <1>1, <1>4, <1>6, IndexType
  <2> HIDE DEF d, k
  <2>2. next_storage = storage
    BY <1>1, <1>4, <2>1, Numbers
  <2>3. PICK u \in Threads : Pending(u)
    BY <2>1 DEF RInv, TailInv
  <2>4. /\ pc[u] # "idle" /\ my[u].call.op = "add" /\ my[u].won /\ my[u].i = k
        /\ entries[storage][k] = my[u].call.arg /\ my[u].call.arg \in Values
    BY <1>1, <2>1, <2>3, ThreadNumbers DEF RInv, WonAt, Pending, Won
  <2>5. Element(n[storage]) = my[u].call.arg
    BY <2>1, <2>4, ConstFacts DEF Element
  <2>6. SeqMap' = Append(SeqMap, my[u].call.arg)
    BY <1>1, <2>1, <2>4, <2>5, SeqGrows
  <2>7. \A w \in Threads : pc'[w] # "idle" <=> pc[w] # "idle"
    BY <1>1, <1>2
  <2>8. ASSUME NEW w \in Threads PROVE WonAt(w)' /\ KnownAt(w)' /\ ~Pending(w)'
    <3>1. WonAt(w)' /\ KnownAt(w)'
      BY <1>1, <1>2, <1>3, RefStable
    <3>2. ~Pending(w)'
      <4>1. SUFFICES ASSUME Pending(w)' PROVE FALSE
        OBVIOUS
      <4>2. Won(w) /\ k + 1 <= my[w].i /\ my[w].i \in Nat
        BY <1>1, <2>1, <2>7, <4>1, ThreadNumbers DEF Pending, Won
      <4>3. Pending(w)
        BY <1>4, <2>1, <4>2 DEF Pending
      <4>4. my[w].i = k
        BY <2>1, <4>2, <4>3 DEF RInv, WonAt
      <4> QED BY <1>4, <4>2, <4>4
    <3> QED BY <3>1, <3>2
  <2>9. TailInv'
    <3>1. ASSUME NEW i \in Index(storage), k + 1 <= i PROVE entries[storage][i] = NULL
      <4>1. i \in Nat
        BY <1>4, IndexType
      <4> QED BY <1>4, <2>1, <3>1, <4>1 DEF RInv, TailInv
    <3>2. \A i \in Index(storage) : i \in Nat
      BY <1>4, IndexType
    <3>3. \A i \in Index(storage) : k + 1 < i => entries[storage][i] = NULL
      BY <1>4, <3>1, <3>2
    <3>4. \A i \in Index(storage) : i = k + 1 => entries[storage][i] = NULL
      BY <1>4, <3>1, <3>2
    <3> QED BY <1>1, <2>1, <2>2, <2>8, <3>3, <3>4 DEF TailInv, Index
  <2>10. CallMap(u)' = [CallMap(u) EXCEPT !.added = TRUE]
    <3>1. k < k + 1 /\ my[u].call # Idle
      BY <1>1, <1>4, <2>4, ThreadNumbers
    <3>2. CallMap(u)' = [op |-> "add", arg |-> my[u].call.arg, before |-> my[u].before, added |-> TRUE]
      BY <1>1, <2>1, <2>4, <3>1 DEF CallMap
    <3>3. PICK x : CallMap(u) = [op |-> "add", arg |-> my[u].call.arg, before |-> my[u].before, added |-> x]
      BY <2>4, <3>1 DEF CallMap
    <3>4. ASSUME NEW a, NEW b, NEW c, NEW y, NEW r, NEW z,
                 r = [op |-> a, arg |-> b, before |-> c, added |-> y]
          PROVE  [op |-> a, arg |-> b, before |-> c, added |-> z] = [r EXCEPT !.added = z]
      BY <3>4
    <3>5. PICK z : z = TRUE
      OBVIOUS
    <3>6. [op |-> "add", arg |-> my[u].call.arg, before |-> my[u].before, added |-> z]
            = [CallMap(u) EXCEPT !.added = z]
      BY <3>3, <3>4
    <3>7. CallMap(u)' = [op |-> "add", arg |-> my[u].call.arg, before |-> my[u].before, added |-> z]
      BY <3>2, <3>5
    <3>8. [CallMap(u) EXCEPT !.added = z] = [CallMap(u) EXCEPT !.added = TRUE]
      BY <3>5
    <3> QED BY <3>6, <3>7, <3>8, Zenon
  <2>11. ASSUME NEW w \in Threads \ {u} PROVE CallMap(w)' = CallMap(w)
    <3>1. CASE pc[w] = "idle"
      BY <1>1, <3>1 DEF CallMap, RInv, KnownAt
    <3>2. CASE pc[w] # "idle"
      <4>1. my[w].call.op = "add" /\ my[w].won => my[w].i # k
        <5>1. SUFFICES ASSUME my[w].call.op = "add", my[w].won, my[w].i = k PROVE FALSE
          OBVIOUS
        <5>2. Pending(w)
          BY <1>4, <2>1, <3>2, <5>1 DEF Pending, Won
        <5> QED BY <2>3, <5>2 DEF RInv, TailInv
      <4>2. my[w].i \in Nat
        BY <1>1, ThreadNumbers
      <4>3. my[w].call.op = "add" /\ my[w].won => (my[w].i < k + 1 <=> my[w].i < k)
        BY <1>4, <4>1, <4>2
      <4>4. (my[w].call.op = "add" /\ my[w].won /\ my[w].i < n'[storage'])
              = (my[w].call.op = "add" /\ my[w].won /\ my[w].i < n[storage])
        BY <1>1, <2>1, <4>3
      <4> QED BY <1>1, <4>4 DEF CallMap
    <3> QED BY <3>1, <3>2
  <2>12. CallsMap' = [CallsMap EXCEPT ![u].added = TRUE]
    <3>1. CallsMap' = [w \in Threads |-> CallMap(w)']
      BY DEF CallsMap
    <3>2. CallsMap = [w \in Threads |-> CallMap(w)]
      BY DEF CallsMap
    <3> QED BY <2>10, <2>11, <3>1, <3>2
  <2>13. CallsMap[u] # Idle /\ CallsMap[u].op = "add" /\ ~CallsMap[u].added
         /\ CallsMap[u].arg = my[u].call.arg
    <3>1. ~(my[u].i < n[storage])
      BY <1>4, <2>1, <2>4
    <3> QED BY <1>1, <2>4, <3>1, CallRecord
  <2>14. Contract!Next
    BY <1>1, <2>6, <2>12, <2>13, MapAppends
  <2> QED BY <2>8, <2>9, <2>14 DEF RInv
<1> QED BY <1>5, <1>6

-----------------------------------------------------------------------------
LEMMA InitRef == Init => RInv /\ Contract!Init
<1> SUFFICES ASSUME Init PROVE RInv /\ Contract!Init
  OBVIOUS
<1>1. IInv
  BY InitIInv
<1>2. /\ storage = 0 /\ next_storage = 0 /\ n[0] = 0 /\ 0 \in Gens
      /\ \A i \in Index(0) : entries[0][i] = NULL
      /\ \A t \in Threads : pc[t] = "idle" /\ my[t] = NoLocals /\ index[t] = 0
      /\ answer = [t \in Threads |-> Idle]
  BY ConstFacts DEF Init
<1>3. NoLocals.call = Idle
  BY DEF NoLocals
<1>4. TailInv
  BY <1>2 DEF TailInv, Pending, Won
<1>5. \A t \in Threads : WonAt(t) /\ KnownAt(t)
  BY <1>2, <1>3 DEF WonAt, KnownAt, Publishing, Won, Pending
<1>6. SeqMap = << >>
  BY <1>2 DEF SeqMap
<1>7. CallsMap = [t \in Threads |-> Idle]
  BY <1>2, <1>3 DEF CallsMap, CallMap
<1>8. Contract!Init
  BY <1>2, <1>6, <1>7 DEF Contract!Init, SeqMap, CallsMap, CallMap
<1> QED BY <1>1, <1>4, <1>5, <1>8 DEF RInv

(* A step of the pointerarray is one of AppendOnlyArray, or the callers do *)
(* not see it.                                                             *)
LEMMA NextRef == RInv /\ [Next]_vars => RInv' /\ [Contract!Next]_(Contract!vars)
<1> SUFFICES ASSUME RInv, [Next]_vars PROVE RInv' /\ [Contract!Next]_(Contract!vars)
  OBVIOUS
<1>1. IInv' /\ Forward
  BY NextIInv DEF RInv
<1>2. CASE UNCHANGED vars
  <2>1. /\ UNCHANGED <<storage, next_storage, n, entries, pc, my, index, rindex, answer, freed, calls>>
    BY <1>2 DEF vars
  <2>2. TailInv'
    BY <2>1 DEF RInv, TailInv, Pending, Won
  <2>3. \A u \in Threads : WonAt(u)' /\ KnownAt(u)'
    BY <2>1 DEF RInv, WonAt, KnownAt, Pending, Won, Publishing
  <2>4. CallsMap' = CallsMap /\ SeqMap' = SeqMap
    BY <2>1 DEF CallsMap, CallMap, SeqMap, Element
  <2> QED BY <1>1, <2>1, <2>2, <2>3, <2>4, MapStutters DEF RInv
<1>3. ASSUME NEW t \in Threads, NEW c \in Calls[t], Call(t, c)
      PROVE  RInv' /\ [Contract!Next]_(Contract!vars)
  BY <1>1, <1>3, CallRef
<1>4. ASSUME NEW t \in Threads, Step(t) PROVE RInv' /\ [Contract!Next]_(Contract!vars)
  <2>1. CASE Load(t)
    BY <1>1, <2>1, LoadRef
  <2>2. CASE Count(t)
    BY <1>1, <2>2, CountRef
  <2>3. CASE GetN(t)
    BY <1>1, <2>3, GetNRef
  <2>4. CASE GetEntry(t)
    BY <1>1, <2>4, GetEntryRef
  <2>5. CASE AddN(t)
    BY <1>1, <2>5, AddNRef
  <2>6. CASE AddCas(t)
    BY <1>1, <2>6, AddCasRef
  <2>7. CASE PubN(t)
    BY <1>1, <2>7, PubNRef
  <2>8. CASE PubEntry(t)
    BY <1>1, <2>8, PubEntryRef
  <2>9. CASE PubCas(t)
    BY <1>1, <2>9, PubCasRef
  <2>10. CASE Migrate(t)
    BY <1>1, <2>10, MigrateRef
  <2>11. CASE MigNext(t)
    BY <1>1, <2>11, MigNextRef
  <2>12. CASE MigAlloc(t)
    BY <1>1, <2>12, MigAllocRef
  <2>13. CASE Copy(t)
    BY <1>1, <2>13, CopyRef DEF Copy, world, rovers
  <2>14. CASE Put(t)
    BY <1>1, <2>14, PutRef
  <2>15. CASE PutFollow(t)
    BY <1>1, <2>15, PutFollowRef
  <2>16. CASE Freeze(t)
    BY <1>1, <2>16, FreezeRef
  <2>17. CASE Swap(t)
    BY <1>1, <2>17, SwapRef
  <2> QED BY <1>4, <2>1, <2>2, <2>3, <2>4, <2>5, <2>6, <2>7, <2>8, <2>9, <2>10, <2>11, <2>12,
             <2>13, <2>14, <2>15, <2>16, <2>17 DEF Step
<1> QED BY <1>2, <1>3, <1>4 DEF Next

(* The pointerarray implements AppendOnlyArray: whatever the threads, the  *)
(* calls, the sizes and the number of migrations, no add is lost, doubled, *)
(* moved or overwritten, every later call sees an add that has returned,   *)
(* and a count never goes back.                                            *)
THEOREM ImplementsArray == Spec => ArraySpec
<1>1. Init => RInv /\ Contract!Init
  BY InitRef
<1>2. RInv /\ [Next]_vars => RInv' /\ [Contract!Next]_(Contract!vars)
  BY NextRef
<1> QED BY <1>1, <1>2, PTL DEF Spec, ArraySpec, Contract!Spec
=============================================================================
