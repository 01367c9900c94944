---------------------------- MODULE WriteOnceMap ----------------------------
(***************************************************************************)
(* What a mulle_concurrent_hashmap promises its callers, without storages  *)
(* or migrations: a map from hashes to values in which every call takes    *)
(* effect at one moment.  A value stays once it is in; only the single-    *)
(* threaded patch replaces or clears it.                                   *)
(*                                                                         *)
(* content[h] is the value of h, NULL if it has none.  call[t] is what     *)
(* thread t is calling; the field before is content[hash] at the time of   *)
(* the call.  answer[t] is what the last call of t returned, and got[t]    *)
(* what the enumerator of t has returned so far.                           *)
(***************************************************************************)
CONSTANTS Threads, Hashes, Values, NULL, Idle

VARIABLES content, call, answer, got

vars == <<content, call, answer, got>>

Init ==
    /\ content \in [Hashes -> Values \union {NULL}]
    /\ call = [t \in Threads |-> Idle]
    /\ answer = [t \in Threads |-> Idle]
    /\ got = [t \in Threads |-> {}]

Begin(t, op, h, v) ==
    /\ call[t] = Idle
    /\ call' = [call EXCEPT ![t] = [op |-> op, hash |-> h, value |-> v, before |-> content[h]]]
    /\ answer' = [answer EXCEPT ![t] = Idle]
    /\ UNCHANGED <<content, got>>

BeginNext(t) ==
    /\ call[t] = Idle
    /\ call' = [call EXCEPT ![t] = [op |-> "next"]]
    /\ answer' = [answer EXCEPT ![t] = Idle]
    /\ UNCHANGED <<content, got>>

Return(t, a) ==
    /\ call' = [call EXCEPT ![t] = Idle]
    /\ answer' = [answer EXCEPT ![t] = a]

(* insert returns 0 and register NULL to the one caller that stored its    *)
(* value.                                                                  *)
Store(t) ==
    /\ call[t] # Idle
    /\ call[t].op \in {"insert", "register"}
    /\ content[call[t].hash] = NULL
    /\ content' = [content EXCEPT ![call[t].hash] = call[t].value]
    /\ Return(t, IF call[t].op = "insert" THEN "0" ELSE NULL)
    /\ UNCHANGED got

(* The others get EEXIST, or the value that is there. *)
Exists(t) ==
    /\ call[t] # Idle
    /\ call[t].op \in {"insert", "register"}
    /\ content[call[t].hash] # NULL
    /\ Return(t, IF call[t].op = "insert" THEN "EEXIST" ELSE content[call[t].hash])
    /\ UNCHANGED <<content, got>>

(* lookup may miss a value that was stored while it ran, never one that    *)
(* was there before.                                                       *)
Lookup(t) ==
    /\ call[t] # Idle
    /\ call[t].op = "lookup"
    /\ \E a \in {content[call[t].hash], call[t].before} : Return(t, a)
    /\ UNCHANGED <<content, got>>

(* An enumerator starts over with nothing returned. *)
Enumerate(t) ==
    /\ call[t] = Idle
    /\ got' = [got EXCEPT ![t] = {}]
    /\ UNCHANGED <<content, call, answer>>

(* It returns each entry once, with the value of the entry, or it ends, or *)
(* it gives up.                                                            *)
NextEntry(t, h) ==
    /\ call[t] # Idle
    /\ call[t].op = "next"
    /\ content[h] # NULL
    /\ h \notin got[t]
    /\ got' = [got EXCEPT ![t] = @ \union {h}]
    /\ Return(t, content[h])
    /\ UNCHANGED content

NextNothing(t) ==
    /\ call[t] # Idle
    /\ call[t].op = "next"
    /\ \E a \in {"end", "ECANCELED"} : Return(t, a)
    /\ UNCHANGED <<content, got>>

(* patch replaces the value of an entry while no call is in progress. *)
Patch(h, v) ==
    /\ \A t \in Threads : call[t] = Idle
    /\ content' = [content EXCEPT ![h] = v]
    /\ UNCHANGED <<call, answer, got>>

Next ==
    \/ \E t \in Threads, op \in {"insert", "register", "lookup"}, h \in Hashes,
          v \in Values \union {NULL} : Begin(t, op, h, v)
    \/ \E t \in Threads :
          \/ BeginNext(t) \/ Store(t) \/ Exists(t) \/ Lookup(t)
          \/ Enumerate(t) \/ NextNothing(t)
          \/ \E h \in Hashes : NextEntry(t, h)
    \/ \E h \in Hashes, v \in Values \union {NULL} : Patch(h, v)

Spec == Init /\ [][Next]_vars
=============================================================================
