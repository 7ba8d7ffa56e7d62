------------------------------- MODULE Timer -------------------------------
(***************************************************************************)
(* skynet's timers (skynet-src/skynet_timer.c): a wheel with one list for  *)
(* each of the next ticks and levels of ever coarser lists behind them,    *)
(* which the timer thread turns by the ticks that the clock is ahead.      *)
(* Services set timers under the spin lock; the timer thread gives it up   *)
(* while it delivers a list.                                               *)
(*                                                                         *)
(* Times have the width of the wheel: in the code Near is 2^8, Level 2^6   *)
(* and Levels 4, which makes 32 bits.                                      *)
(***************************************************************************)
EXTENDS Integers, SequencesExt, FiniteSetsExt

CONSTANTS
  Timer,     (* timer nodes; one is used again after it fired               *)
  Near,      (* TIME_NEAR                                                   *)
  Level,     (* TIME_LEVEL                                                  *)
  Levels,    (* levels behind the near lists                                *)
  MaxDelay,  (* the largest int                                             *)
  MaxLag     (* bound: ticks the clock is ahead of the timer thread         *)

(* Ticks that a list of level i stands for: "mask <<= TIME_LEVEL_SHIFT".   *)
Wider(unit, i) == IF i = 0 THEN Near ELSE unit[i - 1] * Level
Unit(k) == LET unit[i \in 0 .. Levels] == Wider(unit, i) IN unit[k]
Range32 == Unit(Levels)           (* 2^32                                    *)

(* An int has not more than half the range of a uint32_t.                  *)
ASSUME TimerParameters ==
  /\ Near \in Nat \ {0} /\ Level \in Nat \ {0, 1} /\ Levels \in Nat \ {0}
  /\ MaxDelay \in Nat /\ MaxLag \in Nat
  /\ 2 * MaxDelay < Range32

VARIABLES
  time,      (* T->time                                                     *)
  list,      (* the lists; level -1 are the near ones                       *)
  expire,    (* node->expire                                                *)
  hand,      (* the list in the hand of dispatch_list                       *)
  stage,     (* the timer thread: idle, in the first or second timer_execute *)
  todo,      (* rounds left of the loop in skynet_updatetime                *)
  lag,       (* ticks of the clock since it was last read                   *)
  order      (* history: the timers that wait, oldest first                 *)

timervars == <<time, list, expire, hand, stage, todo, lag, order>>

-----------------------------------------------------------------------------
Lists == ({-1} \X (0 .. Near - 1)) \cup ((0 .. Levels - 1) \X (0 .. Level - 1))

(* add_node: the list for expiry e.                                        *)
PlaceOf(now, e) ==
  IF e \div Near = now \div Near THEN <<-1, e % Near>>
  ELSE LET i == Min({k \in 0 .. Levels - 1 : k = Levels - 1 \/ e \div Unit(k + 1) = now \div Unit(k + 1)})
       IN <<i, (e \div Unit(i)) % Level>>

MutNoWrap(now) ==                 (* nothing is done when time comes to 0    *)
  IF now % Near # 0 \/ now = 0 THEN {}
  ELSE LET i == Min({k \in 0 .. Levels - 1 : (now \div Unit(k)) % Level # 0})
       IN {<<i, (now \div Unit(i)) % Level>>}

(* timer_shift: the list whose time has come; none unless the near lists   *)
(* are through.                                                            *)
Shifted(now) ==
  IF now = 0 THEN {<<Levels - 1, 0>>}
  ELSE IF now % Near # 0 THEN {}
  ELSE LET i == Min({k \in 0 .. Levels - 1 : (now \div Unit(k)) % Level # 0})
       IN {<<i, (now \div Unit(i)) % Level>>}

MutPrepend(added, now, p, i) ==   (* nodes are put in front                  *)
  IF i = 0 THEN [list EXCEPT ![p] = <<>>]
  ELSE [added[i - 1] EXCEPT ![PlaceOf(now, expire[list[p][i]])] = <<list[p][i]>> \o @]

(* move_list: the nodes of list p are added anew, in their order.          *)
Added(added, now, p, i) ==
  IF i = 0 THEN [list EXCEPT ![p] = <<>>]
  ELSE [added[i - 1] EXCEPT ![PlaceOf(now, expire[list[p][i]])] = Append(@, list[p][i])]
Moved(now, p) == LET added[i \in 0 .. Len(list[p])] == Added(added, now, p, i) IN added[Len(list[p])]

Current == <<-1, time % Near>>

(* The timer thread has the lock from the start of a tick to its end,      *)
(* except while it delivers.                                               *)
LockFree == stage = "idle" \/ hand # <<>>

Pending == {order[i] : i \in DOMAIN order}

TimerInit ==
  /\ time = 0
  /\ list = [p \in Lists |-> <<>>]
  /\ expire = [t \in Timer |-> 0]
  /\ hand = <<>>
  /\ stage = "idle"
  /\ todo = 0
  /\ lag = 0
  /\ order = <<>>

-----------------------------------------------------------------------------
(* skynet_timeout and timer_add, by a worker.  A delay of 0 or less is     *)
(* answered at once and leaves no trace here.                              *)
Timeout(t, d) ==
  LET e == (time + d) % Range32 p == PlaceOf(time, e) IN
  /\ LockFree /\ t \notin Pending
  /\ expire' = [expire EXCEPT ![t] = e]
  /\ list' = [list EXCEPT ![p] = Append(@, t)]
  /\ order' = Append(order, t)
  /\ UNCHANGED <<time, hand, stage, todo, lag>>

(* The monotonic clock, in 1/100 s.                                        *)
Clock ==
  /\ lag < MaxLag
  /\ lag' = lag + 1
  /\ UNCHANGED <<time, list, expire, hand, stage, todo, order>>

(* skynet_updatetime reads the clock.                                      *)
ReadClock ==
  /\ stage = "idle" /\ todo = 0 /\ lag > 0
  /\ todo' = lag
  /\ lag' = 0
  /\ UNCHANGED <<time, list, expire, hand, stage, order>>

(* timer_update begins: the lock is taken.                                 *)
Begin ==
  /\ stage = "idle" /\ todo > 0
  /\ stage' = "first"
  /\ UNCHANGED <<time, list, expire, hand, todo, lag, order>>

(* timer_execute: the current list is taken out and the lock given up.     *)
Execute ==
  /\ stage # "idle" /\ hand = <<>> /\ list[Current] # <<>>
  /\ hand' = list[Current]
  /\ list' = [list EXCEPT ![Current] = <<>>]
  /\ UNCHANGED <<time, expire, stage, todo, lag, order>>

(* dispatch_list: one node, by skynet_context_push.                        *)
Dispatch ==
  /\ hand # <<>>
  /\ hand' = Tail(hand)
  /\ \E i \in DOMAIN order : order[i] = Head(hand) /\ order' = RemoveAt(order, i)
  /\ UNCHANGED <<time, list, expire, stage, todo, lag>>

(* timer_shift.                                                            *)
Shift ==
  /\ stage = "first" /\ hand = <<>> /\ list[Current] = <<>>
  /\ time' = (time + 1) % Range32
  /\ list' = IF Shifted(time') = {} THEN list ELSE Moved(time', CHOOSE p \in Shifted(time') : TRUE)
  /\ stage' = "second"
  /\ UNCHANGED <<expire, hand, todo, lag, order>>

(* The second timer_execute finds nothing: the tick is over.               *)
Finish ==
  /\ stage = "second" /\ hand = <<>> /\ list[Current] = <<>>
  /\ stage' = "idle"
  /\ todo' = todo - 1
  /\ UNCHANGED <<time, list, expire, hand, lag, order>>

TimerThread == ReadClock \/ Begin \/ Execute \/ Dispatch \/ Shift \/ Finish

TimerNext == TimerThread \/ Clock \/ \E t \in Timer, d \in 1 .. MaxDelay : Timeout(t, d)

TimerSpec == TimerInit /\ [][TimerNext]_timervars
FairTimerSpec == TimerSpec /\ WF_timervars(TimerThread) /\ WF_timervars(Clock)

-----------------------------------------------------------------------------
(* Properties.                                                             *)
(* The wheel is a queue of timers: each fires at its tick, neither earlier *)
(* nor later, also when time wraps (skynet_timer.c:77, 115), and timers of *)
(* one tick fire in the order they were set in, although they came to the  *)
(* near list from different levels.                                        *)
Due == [i \in DOMAIN order |-> [timer |-> order[i], left |-> (expire[order[i]] - time) % Range32]]
Ideal == INSTANCE TimerQueue WITH due <- Due
IsTimerQueue == Ideal!Spec

(* Every timer fires.                                                      *)
Fires == \A t \in Timer : t \in Pending ~> t \notin Pending
=============================================================================
