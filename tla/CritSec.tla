------------------------------ MODULE CritSec ------------------------------
(***************************************************************************)
(* The critical section of a service (skynet/queue.lua) and its lockable   *)
(* variant (lualib/skynet/lockable_queue.lua), which the upgrader puts     *)
(* around every installation, upgrade and reboot.  Coroutines of one       *)
(* service call it; only one runs its function at a time, the others wait  *)
(* in line, and a caller that holds the section may call it again.  The    *)
(* lockable variant refuses callers while it is locked.                    *)
(*                                                                         *)
(* As long as no caller asks for the lock, the lockable queue is           *)
(* skynet/queue.lua, statement by statement.                               *)
(***************************************************************************)
EXTENDS Integers, Sequences

CONSTANTS
  Threads,   (* the coroutines                                              *)
  None,      (* current_thread = nil                                        *)
  MaxDepth   (* bound: how deep a coroutine nests its calls                 *)

ASSUME CritSecAssumption ==
  None \notin Threads /\ MaxDepth \in Nat \ {0}

VARIABLES
  current,   (* current_thread                                              *)
  ref,       (* ref                                                         *)
  queue,     (* thread_queue                                                *)
  locked,    (* locked                                                      *)
  pc,        (* "out", "waiting", "woken" or "in" the critical section      *)
  depth,     (* the calls each coroutine is in                              *)
  asked      (* did it pass lock = true?                                    *)

csvars == <<current, ref, queue, locked, pc, depth, asked>>

-----------------------------------------------------------------------------
CSInit ==
  /\ current = None
  /\ ref = 0
  /\ queue = <<>>
  /\ locked = FALSE
  /\ pc = [t \in Threads |-> "out"]
  /\ depth = [t \in Threads |-> 0]
  /\ asked = [t \in Threads |-> FALSE]

Refused(t) == locked /\ current # t

MutRunOnce(t) ==      (* ref is set, not raised: nested calls do not count     *)
  /\ current' = t
  /\ ref' = 1
  /\ depth' = [depth EXCEPT ![t] = @ + 1]
  /\ pc' = [pc EXCEPT ![t] = "in"]

(* The function is entered.                                                *)
Run(t) == /\ current' = t
          /\ ref' = ref + 1
          /\ depth' = [depth EXCEPT ![t] = @ + 1]
          /\ pc' = [pc EXCEPT ![t] = "in"]

(* A call that goes straight in: nobody is inside, or the caller is.       *)
Enter(t, lock) ==
  /\ pc[t] \in {"out", "in"} /\ depth[t] < MaxDepth
  /\ ~Refused(t)
  /\ current \in {None, t}
  /\ locked' = (locked \/ lock)
  /\ asked' = [asked EXCEPT ![t] = @ \/ lock]
  /\ Run(t)
  /\ UNCHANGED queue

MutInFront(t) == <<t>> \o queue

InLine(t) == Append(queue, t)

(* A call that has to wait.  The lock is taken before waiting.             *)
Wait(t, lock) ==
  /\ pc[t] = "out"
  /\ ~Refused(t)
  /\ current \notin {None, t}
  /\ locked' = (locked \/ lock)
  /\ asked' = [asked EXCEPT ![t] = lock]
  /\ queue' = InLine(t)
  /\ pc' = [pc EXCEPT ![t] = "waiting"]
  /\ UNCHANGED <<current, ref, depth>>

(* skynet.wait returns.                                                    *)
Proceed(t) ==
  /\ pc[t] = "woken"
  /\ Run(t)
  /\ UNCHANGED <<queue, locked, asked>>

(* The coroutine that gets the section next, and those behind it.          *)
Heir == IF queue = <<>> THEN None ELSE Head(queue)
Behind == IF queue = <<>> THEN queue ELSE Tail(queue)

MutNoOwner ==         (* nobody owns the section until the woken one runs      *)
  locked' = FALSE /\ current' = None /\ queue' = Behind

HandOver == locked' = FALSE /\ current' = Heir /\ queue' = Behind

(* The function returns or raises an error: xpcall_ret.  The last return   *)
(* unlocks the section and hands it to the first coroutine in line, which  *)
(* runs later.                                                             *)
Return(t) ==
  /\ pc[t] = "in"
  /\ ref' = ref - 1
  /\ depth' = [depth EXCEPT ![t] = @ - 1]
  /\ asked' = [asked EXCEPT ![t] = IF depth[t] = 1 THEN FALSE ELSE @]
  /\ pc' = [u \in Threads |-> IF ref = 1 /\ u = Heir THEN "woken"
                              ELSE IF u = t /\ depth[t] = 1 THEN "out" ELSE pc[u]]
  /\ IF ref = 1 THEN HandOver ELSE UNCHANGED <<current, queue, locked>>

Call(t) == \E lock \in BOOLEAN : Enter(t, lock) \/ Wait(t, lock)

CSNext == \E t \in Threads : Call(t) \/ Proceed(t) \/ Return(t)

CSSpec == CSInit /\ [][CSNext]_csvars

(* A coroutine that is woken runs, and a function ends some time.          *)
Fairness == \A t \in Threads : /\ WF_csvars(Proceed(t)) /\ WF_csvars(Return(t))
                               /\ SF_csvars(depth[t] = 1 /\ Return(t))

FairSpec == CSSpec /\ Fairness

-----------------------------------------------------------------------------
CSTypeOK ==
  /\ current \in Threads \cup {None}
  /\ ref \in 0 .. MaxDepth
  /\ queue \in Seq(Threads)
  /\ locked \in BOOLEAN
  /\ pc \in [Threads -> {"out", "waiting", "woken", "in"}]
  /\ depth \in [Threads -> 0 .. MaxDepth]
  /\ asked \in [Threads -> BOOLEAN]

(* Two coroutines are never inside together, nested calls, handing over    *)
(* and callers that come in between included; and nobody is inside when a  *)
(* coroutine comes back from its wait: queue.lua:29, lockable_queue.lua:41 *)
(* assert(ref == 0).                                                       *)
MutualExclusion ==
  /\ \A t, u \in Threads : pc[t] = "in" /\ pc[u] = "in" => t = u
  /\ \A t \in Threads : pc[t] = "woken" => ref = 0

(* The lock never survives those who asked for it, or every later call     *)
(* would be refused.                                                       *)
NeverStuck == locked => \E t \in Threads : pc[t] # "out" /\ asked[t]

(* A section is a lock in good order: one coroutine inside, and closed to  *)
(* others only on behalf of one that asked (queue.lua:17-29,               *)
(* lockable_queue.lua:15-46).                                              *)
Orderly == CSTypeOK /\ MutualExclusion /\ NeverStuck

(* No call overtakes one that waits.                                       *)
NoBarging ==
  [][\A t, u \in Threads : pc[t] = "out" /\ pc'[t] = "in" =>
                             pc[u] \notin {"waiting", "woken"}]_csvars

(* A call that waits is served.                                            *)
Served == \A t \in Threads : pc[t] = "waiting" ~> pc[t] = "in"

(* lockable_queue.lua:61 "Lock current queue until current task executed". *)
LockHonoured == \A t \in Threads : pc[t] = "in" /\ asked[t] => locked
=============================================================================
