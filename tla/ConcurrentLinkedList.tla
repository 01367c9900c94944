------------------------ MODULE ConcurrentLinkedList ------------------------
(***************************************************************************)
(* mulle-linkedlist, the concurrent list: an atomic head and intrusive     *)
(* entries that belong to the caller.  Threads add single entries with a   *)
(* compare-and-swap of the head, detach the whole chain (remove_all), or   *)
(* detach it, keep one entry and put the rest back (remove_one).           *)
(*                                                                         *)
(* One action per access to the head.  The plain accesses to _next happen  *)
(* in the step of the neighbouring access to the head: they concern        *)
(* entries that the thread owns, which is what EntriesAccounted checks.    *)
(*                                                                         *)
(* The caller is part of the model: a thread adds entries that it holds,   *)
(* and takes apart the chain it got from remove_all.  Entries are reused,  *)
(* so that a head can come back (ABA).                                     *)
(***************************************************************************)
EXTENDS Integers, FiniteSets

CONSTANTS
    Threads,
    Entries,
    NULL,
    MaxAdds,      \* bound on the number of add calls
    MaxRemoves,   \* bound on the number of remove calls
    MaxSpurious   \* bound on the spurious failures of weakcas

ASSUME ListAssumption ==
    /\ IsFiniteSet(Entries) /\ NULL \notin Entries
    /\ MaxAdds \in Nat /\ MaxRemoves \in Nat /\ MaxSpurious \in Nat

VARIABLES
    head,         \* list->_head
    next,         \* next[e]: e->_next
    held,         \* held[t]: unlinked entries thread t owns
    pc,           \* per thread: where it is
    seen,         \* per thread: its copy of the head
    entry,        \* per thread: the local entry of add and remove_one
    chain,        \* per thread: the chain it has detached
    adds, removes, spurious    \* calls made, spurious failures so far

shared == <<head, next>>
budget == <<adds, removes, spurious>>
vars == <<head, next, held, pc, seen, entry, chain, adds, removes, spurious>>

Pointer == Entries \union {NULL}

(* Types; what the threads hold are entries, never NULL. *)
TypeOK ==
    /\ head \in Pointer
    /\ next \in [Entries -> Pointer]
    /\ held \in [Threads -> SUBSET Entries]
    /\ pc \in [Threads -> {"idle", "add_load", "add_cas", "all_load", "all_cas",
                           "one_load", "one_cas", "one_put"}]
    /\ seen \in [Threads -> Pointer]
    /\ entry \in [Threads -> Pointer]
    /\ chain \in [Threads -> Pointer]
    /\ adds \in 0 .. MaxAdds /\ removes \in 0 .. MaxRemoves
    /\ spurious \in 0 .. MaxSpurious

(* Walking a chain: the entry k links behind p, the entries of the chain   *)
(* and its last entry.  A chain never has more links than there are        *)
(* entries, unless it is a cycle.                                          *)
Walk(p) ==
    LET at[k \in 0 .. Cardinality(Entries)] ==
          IF k = 0 THEN p ELSE IF at[k - 1] = NULL THEN NULL ELSE next[at[k - 1]]
    IN at

Members(p) == {Walk(p)[k] : k \in 0 .. Cardinality(Entries)} \ {NULL}

Tail(p) == CHOOSE e \in Members(p) : next[e] = NULL

-----------------------------------------------------------------------------
(* init; at first the entries are in the hands of the threads. *)
Init ==
    /\ head = NULL
    /\ next = [e \in Entries |-> NULL]
    /\ \E f \in [Entries -> Threads] : held = [t \in Threads |-> {e \in Entries : f[e] = t}]
    /\ pc = [t \in Threads |-> "idle"]
    /\ seen = [t \in Threads |-> NULL]
    /\ entry = [t \in Threads |-> NULL]
    /\ chain = [t \in Threads |-> NULL]
    /\ adds = 0 /\ removes = 0 /\ spurious = 0

Goto(t, l) == pc' = [pc EXCEPT ![t] = l]

(* _mulle_atomic_pointer_weakcas( &list->_head, new, old): a failure may   *)
(* be spurious.                                                            *)
WeakCas(old, new) ==
    /\ head = old
    /\ head' = new
    /\ UNCHANGED spurious

WeakCasFails(old) ==
    /\ \/ head # old /\ UNCHANGED spurious
       \/ head = old /\ spurious < MaxSpurious /\ spurious' = spurious + 1
    /\ UNCHANGED head

-----------------------------------------------------------------------------
(* add: the caller gives up an entry it owns *)
AddCall(t, e) ==
    /\ pc[t] = "idle" /\ e \in held[t]
    /\ adds < MaxAdds /\ adds' = adds + 1
    /\ held' = [held EXCEPT ![t] = @ \ {e}]
    /\ entry' = [entry EXCEPT ![t] = e]
    /\ Goto(t, "add_load")
    /\ UNCHANGED <<shared, seen, chain, removes, spurious>>

(* head = list->_head; entry->_next = head *)
AddLoad(t) ==
    /\ pc[t] = "add_load"
    /\ seen' = [seen EXCEPT ![t] = head]
    /\ next' = [next EXCEPT ![entry[t]] = head]
    /\ Goto(t, "add_cas")
    /\ UNCHANGED <<head, held, entry, chain, budget>>

(* Mutant: the head is written without comparing. *)
AddCasBlind(t) ==
    /\ pc[t] = "add_cas"
    /\ head' = entry[t]
    /\ entry' = [entry EXCEPT ![t] = NULL]
    /\ Goto(t, "idle")
    /\ UNCHANGED <<next, held, seen, chain, budget>>

(* Mutant: after a failure the compare is repeated with the old head. *)
AddCasStale(t) ==
    /\ pc[t] = "add_cas"
    /\ \/ /\ head = seen[t]
          /\ head' = entry[t]
          /\ entry' = [entry EXCEPT ![t] = NULL]
          /\ Goto(t, "idle")
       \/ /\ head # seen[t]
          /\ UNCHANGED <<pc, head, entry>>
    /\ UNCHANGED <<next, held, seen, chain, budget>>

(* list->_head = entry if it still is the head that was read *)
AddCas(t) ==
    /\ pc[t] = "add_cas"
    /\ \/ /\ head = seen[t]
          /\ head' = entry[t]
          /\ entry' = [entry EXCEPT ![t] = NULL]
          /\ Goto(t, "idle")
       \/ /\ head # seen[t]
          /\ Goto(t, "add_load")
          /\ UNCHANGED <<head, entry>>
    /\ UNCHANGED <<next, held, seen, chain, budget>>

-----------------------------------------------------------------------------
(* remove_all *)
RemoveAllCall(t) ==
    /\ pc[t] = "idle" /\ removes < MaxRemoves /\ removes' = removes + 1
    /\ Goto(t, "all_load")
    /\ UNCHANGED <<shared, held, seen, entry, chain, adds, spurious>>

RemoveAllLoad(t) ==
    /\ pc[t] = "all_load"
    /\ seen' = [seen EXCEPT ![t] = head]
    /\ Goto(t, IF head = NULL THEN "idle" ELSE "all_cas")
    /\ UNCHANGED <<shared, held, entry, chain, budget>>

(* The caller unlinks every entry of the chain it gets. *)
RemoveAllCas(t) ==
    /\ pc[t] = "all_cas"
    /\ \/ /\ WeakCas(seen[t], NULL)
          /\ held' = [held EXCEPT ![t] = @ \union Members(seen[t])]
          /\ next' = [e \in Entries |-> IF e \in Members(seen[t]) THEN NULL ELSE next[e]]
          /\ Goto(t, "idle")
       \/ /\ WeakCasFails(seen[t])
          /\ Goto(t, "all_load")
          /\ UNCHANGED <<held, next>>
    /\ UNCHANGED <<seen, entry, chain, adds, removes>>

-----------------------------------------------------------------------------
(* remove_one; chain plays prev_chain until the next chain is detached *)
RemoveOneCall(t) ==
    /\ pc[t] = "idle" /\ removes < MaxRemoves /\ removes' = removes + 1
    /\ Goto(t, "one_load")
    /\ UNCHANGED <<shared, held, seen, entry, chain, adds, spurious>>

(* Where remove_one goes with an entry and a chain: it puts the chain back, *)
(* or returns the entry when there is no chain.                             *)
OneDone(t, e, c) ==
    /\ entry' = [entry EXCEPT ![t] = IF c = NULL THEN NULL ELSE e]
    /\ chain' = [chain EXCEPT ![t] = c]
    /\ held' = [held EXCEPT ![t] = IF c = NULL THEN @ \union ({e} \ {NULL}) ELSE @]
    /\ Goto(t, IF c = NULL THEN "idle" ELSE "one_put")

(* the load of remove_all; an empty list leaves chain = prev_chain *)
OneLoad(t) ==
    /\ pc[t] = "one_load"
    /\ seen' = [seen EXCEPT ![t] = head]
    /\ \/ /\ head = NULL
          /\ OneDone(t, entry[t], chain[t])
       \/ /\ head # NULL
          /\ Goto(t, "one_cas")
          /\ UNCHANGED <<entry, chain, held>>
    /\ UNCHANGED <<shared, budget>>

(* Mutant: a chain detached before is forgotten. *)
OneCasForgets(t) ==
    /\ pc[t] = "one_cas"
    /\ \/ /\ WeakCas(seen[t], NULL)
          /\ \/ /\ entry[t] = NULL
                /\ next' = [next EXCEPT ![seen[t]] = NULL]
                /\ OneDone(t, seen[t], next[seen[t]])
             \/ /\ entry[t] # NULL
                /\ OneDone(t, entry[t], seen[t])
                /\ UNCHANGED next
       \/ /\ WeakCasFails(seen[t])
          /\ Goto(t, "one_load")
          /\ UNCHANGED <<next, held, entry, chain>>
    /\ UNCHANGED <<seen, adds, removes>>

(* The chain is detached.  The first time its head is lopped off and the   *)
(* rest is the chain, later the chain from before goes behind its tail.    *)
OneCas(t) ==
    /\ pc[t] = "one_cas"
    /\ \/ /\ WeakCas(seen[t], NULL)
          /\ \/ /\ entry[t] = NULL
                /\ next' = [next EXCEPT ![seen[t]] = NULL]
                /\ OneDone(t, seen[t], next[seen[t]])
             \/ /\ entry[t] # NULL
                /\ next' = [next EXCEPT ![Tail(seen[t])] = chain[t]]
                /\ OneDone(t, entry[t], seen[t])
       \/ /\ WeakCasFails(seen[t])
          /\ Goto(t, "one_load")
          /\ UNCHANGED <<next, held, entry, chain>>
    /\ UNCHANGED <<seen, adds, removes>>

(* The chain goes back into an empty list, and the entry to the caller. *)
OnePut(t) ==
    /\ pc[t] = "one_put"
    /\ \/ /\ WeakCas(NULL, chain[t])
          /\ chain' = [chain EXCEPT ![t] = NULL]
          /\ entry' = [entry EXCEPT ![t] = NULL]
          /\ held' = [held EXCEPT ![t] = @ \union {entry[t]}]
          /\ Goto(t, "idle")
       \/ /\ WeakCasFails(NULL)
          /\ Goto(t, "one_load")
          /\ UNCHANGED <<chain, entry, held>>
    /\ UNCHANGED <<next, seen, adds, removes>>

Begin(t) == RemoveAllCall(t) \/ RemoveOneCall(t) \/ \E e \in Entries : AddCall(t, e)

Step(t) ==
    \/ AddLoad(t) \/ AddCas(t)
    \/ RemoveAllLoad(t) \/ RemoveAllCas(t)
    \/ OneLoad(t) \/ OneCas(t) \/ OnePut(t)

Next == \E t \in Threads : Begin(t) \/ Step(t)

Spec == Init /\ [][Next]_vars

(* A thread inside a call is scheduled again. *)
FairSpec == Spec /\ \A t \in Threads : WF_vars(Step(t))

-----------------------------------------------------------------------------
(* The entry thread t works on but has not given away yet. *)
InHand(t) == IF entry[t] = NULL THEN {} ELSE {entry[t]}

(* The types hold, and every entry is in exactly one place: in the list,   *)
(* in a chain one thread has detached, or in the hands of one thread.  So  *)
(* none is lost, none is returned twice, and no thread rewrites the _next  *)
(* of an entry another thread can reach.                                   *)
EntriesAccounted ==
    /\ TypeOK
    /\ \A e \in Entries :
       LET places == {<<"list", 0>> : x \in {y \in {1} : e \in Members(head)}}
                 \union {<<"chain", t>> : t \in {u \in Threads : e \in Members(chain[u])}}
                 \union {<<"hand", t>> : t \in {u \in Threads : e \in InHand(u)}}
                 \union {<<"held", t>> : t \in {u \in Threads : e \in held[u]}}
       IN Cardinality(places) = 1

(* Chains end: neither the list nor a detached chain has a cycle, and what *)
(* a caller holds is unlinked, so that the asserts of add hold when it is  *)
(* added again: entry->_next is NULL, head is not the entry.               *)
ChainsEnd ==
    /\ Walk(head)[Cardinality(Entries)] = NULL
    /\ \A t \in Threads :
         /\ Walk(chain[t])[Cardinality(Entries)] = NULL
         /\ \A e \in held[t] : next[e] = NULL
         /\ pc[t] = "add_load" => head # entry[t]

(* Every call returns once no new calls come in, however often chains are  *)
(* detached, appended and put back.                                        *)
EveryCallReturns ==
    \A t \in Threads : pc[t] # "idle" ~> pc[t] = "idle"
=============================================================================
