----------------------------- MODULE DelayedKeys ------------------------------
(***************************************************************************)
(* What the loop of the work queue expects of its priority queue: one      *)
(* instant per waiting key, the earliest it was given, and keys handed     *)
(* back in the order of their instants.                                    *)
(***************************************************************************)
EXTENDS Integers

CONSTANTS Keys, Times

NotWaiting == -1

VARIABLE waiting       \* key -> the instant it is due, or NotWaiting

Init == waiting = [k \in Keys |-> NotWaiting]

Insert(k, t) ==
  waiting' = [waiting EXCEPT ![k] = IF @ = NotWaiting \/ t < @ THEN t ELSE @]

TakeFirst(k) ==
  /\ waiting[k] # NotWaiting
  /\ \A j \in Keys : waiting[j] = NotWaiting \/ waiting[k] <= waiting[j]
  /\ waiting' = [waiting EXCEPT ![k] = NotWaiting]

Next == \E k \in Keys : TakeFirst(k) \/ \E t \in Times : Insert(k, t)

Spec == Init /\ [][Next]_waiting
===============================================================================
