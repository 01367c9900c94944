---------------------------- MODULE RemovableMap ----------------------------
(***************************************************************************)
(* What a mulle_concurrent_hashtable promises its callers, without         *)
(* storages or migrations: a map in which every call, remove too, takes    *)
(* effect at one moment between its start and its return.                  *)
(*                                                                         *)
(* content[h] is the value of h, NULL if it has none.  call[t] is what     *)
(* thread t is calling, and its field seen what content[hash] has been     *)
(* since the call began: a call that changes nothing may answer for any of *)
(* these moments.  got[t] is what the enumerator of t has returned, and    *)
(* stay[t] what was in the map all the time since it started.              *)
(***************************************************************************)
CONSTANTS Threads, Hashes, Values, NULL, Idle

VARIABLES content, call, answer, got, stay

vars == <<content, call, answer, got, stay>>

Init ==
    /\ content \in [Hashes -> Values \union {NULL}]
    /\ call = [t \in Threads |-> Idle]
    /\ answer = [t \in Threads |-> Idle]
    /\ got = [t \in Threads |-> {}]
    /\ stay = [t \in Threads |-> {}]

Calling(t, ops) == call[t] # Idle /\ call[t].op \in ops

Begin(t, op, h, v) ==
    /\ call[t] = Idle
    /\ call' = [call EXCEPT ![t] = [op |-> op, hash |-> h, value |-> v, seen |-> {content[h]}]]
    /\ answer' = [answer EXCEPT ![t] = Idle]
    /\ UNCHANGED <<content, got, stay>>

BeginNext(t) ==
    /\ call[t] = Idle
    /\ call' = [call EXCEPT ![t] = [op |-> "next"]]
    /\ answer' = [answer EXCEPT ![t] = Idle]
    /\ UNCHANGED <<content, got, stay>>

Answer(t, a) == answer' = [answer EXCEPT ![t] = a]

(* The call of t gives h the value v and returns; the others get to see it. *)
Write(t, h, v) ==
    /\ content' = [content EXCEPT ![h] = v]
    /\ call' = [u \in Threads |->
                  IF u = t \/ call[u] = Idle THEN Idle
                  ELSE IF call[u].op # "next" /\ call[u].hash = h
                  THEN [call[u] EXCEPT !.seen = @ \union {v}] ELSE call[u]]
    /\ stay' = [u \in Threads |-> IF v = NULL THEN stay[u] \ {h} ELSE stay[u]]
    /\ UNCHANGED got

Quiet(t) ==
    /\ call' = [call EXCEPT ![t] = Idle]
    /\ UNCHANGED <<content, got, stay>>

(* insert and register store only where nothing is. *)
Store(t) ==
    /\ Calling(t, {"insert", "register"})
    /\ content[call[t].hash] = NULL
    /\ Write(t, call[t].hash, call[t].value)
    /\ Answer(t, IF call[t].op = "insert" THEN "0" ELSE NULL)

(* They tell of a value that was there at some moment of the call. *)
Exists(t) ==
    /\ Calling(t, {"insert", "register"})
    /\ \E v \in call[t].seen \ {NULL} :
         Answer(t, IF call[t].op = "insert" THEN "EEXIST" ELSE v)
    /\ Quiet(t)

(* remove takes away the pair it was given, once. *)
Remove(t) ==
    /\ Calling(t, {"remove"})
    /\ content[call[t].hash] = call[t].value
    /\ Write(t, call[t].hash, NULL)
    /\ Answer(t, "0")

Missing(t) ==
    /\ Calling(t, {"remove"})
    /\ call[t].seen \ {call[t].value} # {}
    /\ Answer(t, "ENOENT")
    /\ Quiet(t)

Lookup(t) ==
    /\ Calling(t, {"lookup"})
    /\ \E a \in call[t].seen : Answer(t, a)
    /\ Quiet(t)

Enumerate(t) ==
    /\ call[t] = Idle
    /\ got' = [got EXCEPT ![t] = {}]
    /\ stay' = [stay EXCEPT ![t] = {h \in Hashes : content[h] # NULL}]
    /\ UNCHANGED <<content, call, answer>>

(* An enumerator returns an entry once, with the value it has. *)
NextEntry(t, h) ==
    /\ Calling(t, {"next"})
    /\ content[h] # NULL /\ h \notin got[t]
    /\ got' = [got EXCEPT ![t] = @ \union {h}]
    /\ Answer(t, content[h])
    /\ call' = [call EXCEPT ![t] = Idle]
    /\ UNCHANGED <<content, stay>>

(* It ends when it has returned all that stayed, or it says that it gives  *)
(* up.                                                                     *)
NextEnds(t) ==
    /\ Calling(t, {"next"})
    /\ \/ stay[t] \subseteq got[t] /\ Answer(t, "end")
       \/ Answer(t, "ECANCELED")
    /\ Quiet(t)

Next ==
    \E t \in Threads :
       \/ \E op \in {"insert", "register", "remove", "lookup"}, h \in Hashes,
             v \in Values \union {NULL} : Begin(t, op, h, v)
       \/ BeginNext(t) \/ Store(t) \/ Exists(t) \/ Remove(t) \/ Missing(t) \/ Lookup(t)
       \/ Enumerate(t) \/ NextEnds(t)
       \/ \E h \in Hashes : NextEntry(t, h)

Spec == Init /\ [][Next]_vars
=============================================================================
