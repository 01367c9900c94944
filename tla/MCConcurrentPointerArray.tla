---------------------- MODULE MCConcurrentPointerArray ----------------------
(* ConcurrentPointerArray for TLC, with storages of 0, 1, 2, ... slots. *)
EXTENDS ConcurrentPointerArray

CONSTANTS v1, v2

Add(v) == [op |-> "add", arg |-> v]
Get(i) == [op |-> "get", arg |-> i]
Op(o) == [op |-> o, arg |-> 0]

(* The const empty storage, 1, 2, 4, ... slots. *)
ArraySizes == [g \in Gens |-> IF g = 0 THEN 0 ELSE 2^(g - 1)]

First == CHOOSE t \in Threads : TRUE

(* One thread adds and can cause two migrations while the other, which     *)
(* does everything, sleeps.                                                *)
ArrayCalls == [t \in Threads |->
    IF t = First THEN {Add(v1), Get(1), Op("next"), Op("count"), Op("prev")}
                 ELSE {Add(v2)}]
=============================================================================
