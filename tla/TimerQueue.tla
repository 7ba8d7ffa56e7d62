----------------------------- MODULE TimerQueue -----------------------------
(***************************************************************************)
(* What skynet's timer promises: a timer fires at the tick it was set for, *)
(* not earlier and not later, and timers of one tick fire in the order in  *)
(* which they were set.                                                    *)
(***************************************************************************)
EXTENDS Integers, Sequences

CONSTANTS Timer, MaxDelay

VARIABLES due   (* the timers that wait, oldest first, and their ticks to go *)

Waiting(t) == \E i \in DOMAIN due : due[i].timer = t

Init == due = <<>>

Set == \E t \in Timer, d \in 1 .. MaxDelay :
  ~Waiting(t) /\ due' = Append(due, [timer |-> t, left |-> d])

(* Time does not go on while a timer is due.                               *)
Tick ==
  /\ \A i \in DOMAIN due : due[i].left > 0
  /\ due' = [i \in DOMAIN due |-> [due[i] EXCEPT !.left = @ - 1]]

(* The oldest one that is due fires.                                       *)
Fire == \E i \in DOMAIN due :
  /\ due[i].left = 0
  /\ \A j \in 1 .. i - 1 : due[j].left > 0
  /\ due' = SubSeq(due, 1, i - 1) \o SubSeq(due, i + 1, Len(due))

Next == Set \/ Tick \/ Fire

Spec == Init /\ [][Next]_due
=============================================================================
