-------------------------- MODULE AppendOnlyArray ---------------------------
(***************************************************************************)
(* What a mulle_concurrent_pointerarray promises its callers, without      *)
(* storages or migrations: a sequence that only grows, at its end, and     *)
(* whose elements never change.                                            *)
(*                                                                         *)
(* call[t] is what thread t is calling, with the length the array had at   *)
(* the time of the call; answer[t] is what its last call returned.         *)
(***************************************************************************)
EXTENDS Naturals, Sequences

CONSTANTS Threads, Values, Indices, NULL, Idle

VARIABLES seq, call, answer

vars == <<seq, call, answer>>

Init ==
    /\ seq \in Seq(Values)
    /\ call = [t \in Threads |-> Idle]
    /\ answer = [t \in Threads |-> Idle]

Begin(t, op, arg) ==
    /\ call[t] = Idle
    /\ call' = [call EXCEPT ![t] = [op |-> op, arg |-> arg, before |-> Len(seq), added |-> FALSE]]
    /\ answer' = [answer EXCEPT ![t] = Idle]
    /\ UNCHANGED seq

(* One value of an add in progress is appended, by whichever thread. *)
Append1(t) ==
    /\ call[t] # Idle
    /\ call[t].op = "add" /\ ~call[t].added
    /\ seq' = Append(seq, call[t].arg)
    /\ call' = [call EXCEPT ![t].added = TRUE]
    /\ UNCHANGED answer

Return(t, a) ==
    /\ call' = [call EXCEPT ![t] = Idle]
    /\ answer' = [answer EXCEPT ![t] = a]
    /\ UNCHANGED seq

(* An add returns when its value is in the array for all to see. *)
AddReturns(t) ==
    /\ call[t] # Idle
    /\ call[t].op = "add" /\ call[t].added
    /\ Return(t, 0)

(* get and the enumerators never miss an element that was there when they  *)
(* were called, and have the one at their index and no other.              *)
GetReturns(t) ==
    /\ call[t] # Idle
    /\ call[t].op = "get"
    /\ LET i == call[t].arg
       IN \/ i < Len(seq) /\ Return(t, seq[i + 1])
          \/ i >= call[t].before /\ Return(t, NULL)

CountReturns(t) ==
    /\ call[t] # Idle
    /\ call[t].op = "count"
    /\ \E n \in call[t].before .. Len(seq) : Return(t, n)

Next ==
    \E t \in Threads :
       \/ \E v \in Values : Begin(t, "add", v)
       \/ \E i \in Indices : Begin(t, "get", i)
       \/ Begin(t, "count", 0)
       \/ Append1(t) \/ AddReturns(t) \/ GetReturns(t) \/ CountReturns(t)

Spec == Init /\ [][Next]_vars
=============================================================================
