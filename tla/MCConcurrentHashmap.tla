------------------------ MODULE MCConcurrentHashmap -------------------------
(* ConcurrentHashmap for TLC.  1, 5 and 9 collide in a storage of 4, and   *)
(* so do 1 and 9 in one of 8.                                              *)
EXTENDS ConcurrentHashmap

CONSTANTS v1, v2, t1, t2

Insert(h, v) == [op |-> "insert", hash |-> h, value |-> v]
Register(h, v) == [op |-> "register", hash |-> h, value |-> v]
Lookup(h) == [op |-> "lookup", hash |-> h, value |-> NULL]
NextCall == [op |-> "next"]

Sizes == [g \in Gens |-> IF g = 0 THEN 1 ELSE 2^(g + 1)]

Scenario(first, filled, calls1, calls2, most, changes) ==
    [first |-> first, filled |-> filled, max_calls |-> most, max_patches |-> changes,
     calls |-> [t \in Threads |-> CASE t = t1 -> calls1 [] t = t2 -> calls2]]

(* race: both threads want 1, each with a value of its own, in the const   *)
(* empty storage.                                                          *)
(* grow: the first thread can cause two migrations while the other sleeps. *)
(* enum: an enumerator next to a migration.                                *)
AllStarts ==
    [race |-> Scenario(0, {}, {Insert(1, v1), Insert(5, v1), Lookup(5)},
                       {Register(1, v2), Insert(2, v2)}, 3, 1),
     grow |-> Scenario(1, {1, 2}, {Insert(3, v1), Insert(5, v1)},
                       {Register(9, v2)}, 4, 0),
     enum |-> Scenario(1, {2, 5}, {NextCall, Lookup(2)}, {Insert(3, v1), NextCall}, 5, 0)]

(* An enumerator that starts next to a migration. *)
EndStarts ==
    [enum |-> Scenario(1, {1, 2}, {NextCall}, {Insert(3, v1), Lookup(2)}, 4, 0)]
=============================================================================
