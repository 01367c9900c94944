----------------------- MODULE MCConcurrentHashtable ------------------------
(* ConcurrentHashtable for TLC.  1 and 5 collide in a storage of 4. *)
EXTENDS ConcurrentHashtable

CONSTANTS v1, v2

Insert(h, v) == [op |-> "insert", hash |-> h, value |-> v]
Register(h, v) == [op |-> "register", hash |-> h, value |-> v]
Remove(h, v) == [op |-> "remove", hash |-> h, value |-> v]
Lookup(h) == [op |-> "lookup", hash |-> h, value |-> NULL]
NextCall == [op |-> "next"]
Migrate == [op |-> "migrate"]

First == CHOOSE t \in Threads : TRUE
Second == CHOOSE t \in Threads \ {First} : TRUE

(* One thread takes an entry away and puts it back, the other migrates,    *)
(* reads and competes for the same entry.                                  *)
RaceCalls == [t \in Threads |->
    IF t = First THEN {Remove(1, v2), Insert(1, v1), Lookup(5), NextCall}
                 ELSE {Remove(1, v2), Register(1, v2), Insert(5, v2), Lookup(1), Migrate}]

(* Three threads claim all slots of a storage of 4 for 1, 2, 3 and 4. *)
FullCalls == [t \in Threads |->
    IF t = First THEN {Insert(2, v1), Lookup(5)}
    ELSE IF t = Second THEN {Insert(3, v1)} ELSE {Insert(4, v1)}]
=============================================================================
