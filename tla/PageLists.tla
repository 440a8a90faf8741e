------------------------------ MODULE PageLists ------------------------------
(***************************************************************************)
(* What the four page lists promise, seen from outside: each is a queue of *)
(* frames, oldest first, the threads carry frames between them on fixed    *)
(* routes, and the only frames that leave a queue out of turn, or leave    *)
(* the writer's hands, are those the user thread rescues.                  *)
(*                                                                         *)
(* MemoryManager implements this with sequences, LinkedLists with the      *)
(* linked entries of lists.c.                                              *)
(***************************************************************************)
EXTENDS VMTypes

CONSTANTS
  Frames,
  Order    (* the frames in the order they are first put on the free list  *)

VARIABLES
  list,    (* name of a list -> the frames on it, oldest first             *)
  hand     (* thread -> the frames it has taken and not passed on          *)

Names == {"free", "active", "modified", "standby"}

TakesFrom == [user |-> {"free", "standby"}, trimmer |-> {"active"},
              writer |-> {"modified"}]
PutsOn == [user |-> "active", trimmer |-> "modified", writer |-> "standby"]
RescuedFrom == {"modified", "standby"}

Init ==
  /\ list = [n \in Names |-> IF n = "free" THEN Order ELSE <<>>]
  /\ hand = [t \in Threads |-> {}]

(* The user thread has one frame in hand at most; the trimmer may take     *)
(* several at once.                                                        *)
Take(t, n) ==
  /\ n \in TakesFrom[t]
  /\ t = "user" => hand[t] = {}
  /\ \E k \in 1 .. Len(list[n]) :
       /\ t # "trimmer" => k = 1
       /\ hand' = [hand EXCEPT ![t] = @ \cup ToSet(SubSeq(list[n], 1, k))]
       /\ list' = [list EXCEPT ![n] = SubSeq(@, k + 1, Len(@))]

Put(t, f) ==
  /\ f \in hand[t]
  /\ hand' = [hand EXCEPT ![t] = @ \ {f}]
  /\ list' = [list EXCEPT ![PutsOn[t]] = Append(@, f)]

(* A rescue takes one frame from the middle of a list ...                  *)
Rescue(n, f) ==
  /\ n \in RescuedFrom
  /\ hand["user"] = {}
  /\ hand' = [hand EXCEPT !["user"] = {f}]
  /\ \E i \in DOMAIN list[n] :
       /\ list[n][i] = f
       /\ list' = [list EXCEPT ![n] = RemoveAt(@, i)]

(* ... or out of the writer's hands.                                       *)
RescueFromWriter(f) ==
  /\ hand["user"] = {}
  /\ f \in hand["writer"]
  /\ hand' = [hand EXCEPT !["user"] = {f}, !["writer"] = @ \ {f}]
  /\ list' = list

(* Each step puts a frame into a hand or takes one out of it.              *)
Next ==
  /\ hand' # hand
  /\ \/ \E t \in Threads, n \in Names : Take(t, n)
     \/ \E t \in Threads, f \in Frames : Put(t, f)
     \/ \E n \in Names, f \in Frames : Rescue(n, f)
     \/ \E f \in Frames : RescueFromWriter(f)

Spec == Init /\ [][Next]_<<list, hand>>
==============================================================================
