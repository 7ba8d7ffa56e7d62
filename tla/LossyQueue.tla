----------------------------- MODULE LossyQueue -----------------------------
(***************************************************************************)
(* What the disk cache promises: a FIFO of which the oldest data are       *)
(* handed to the uplink and forgotten only when the uplink confirms them.  *)
(* Data are lost in one way only, the oldest first, and only to keep the   *)
(* Capacity newest ones.  Data are numbered in push order, so a queue is   *)
(* the set of the data in it.                                              *)
(***************************************************************************)
EXTENDS Integers, Sequences, FiniteSets

CONSTANTS Capacity   (* a push that loses data leaves at least this many    *)

VARIABLES next,    (* the next datum                                        *)
          queue,   (* the data held                                         *)
          flight,  (* the data handed to the uplink, oldest first           *)
          acked    (* the data confirmed by the uplink, in this order       *)

qvars == <<next, queue, flight, acked>>

Older(d) == {x \in queue : x <= d}
Newer(d) == {x \in queue : x > d}

(* s lists the data of D, oldest first.                                    *)
Lists(s, D) == /\ {s[i] : i \in 1 .. Len(s)} = D
               /\ \A i, j \in 1 .. Len(s) : i < j => s[i] < s[j]

Init == next = 1 /\ queue = {} /\ flight = <<>> /\ acked = <<>>

(* A push loses all data up to some number, if it loses any.               *)
Enqueue ==
  /\ next' = next + 1
  /\ \E lost \in 0 .. next - 1 :
       /\ queue' = Newer(lost) \cup {next}
       /\ Older(lost) # {} => Cardinality(queue') >= Capacity
  /\ UNCHANGED <<flight, acked>>

(* An empty queue may be bypassed.                                         *)
Bypass ==
  /\ queue = {}
  /\ next' = next + 1
  /\ acked' = Append(acked, next)
  /\ UNCHANGED <<queue, flight>>

HandOver ==
  /\ flight = <<>>
  /\ \E last \in queue : Lists(flight', Older(last))
  /\ UNCHANGED <<next, queue, acked>>

(* The first n data in flight are confirmed; those the queue lost in the   *)
(* meantime are not there to be removed.                                   *)
Confirm ==
  \E n \in 1 .. Len(flight) :
    /\ acked' = acked \o SubSeq(flight, 1, n)
    /\ queue' = Newer(flight[n])
    /\ flight' = <<>>
    /\ UNCHANGED next

Return == flight' = <<>> /\ UNCHANGED <<next, queue, acked>>

Next == Enqueue \/ Bypass \/ HandOver \/ Confirm \/ Return

Spec == Init /\ [][Next]_qvars
=============================================================================
