------------------------------ MODULE SkynetMQ ------------------------------
(***************************************************************************)
(* How skynet runs services on threads: mailboxes, the global queue of     *)
(* mailboxes that have messages, contexts kept alive by a reference count, *)
(* and worker threads that sleep when there is nothing to do.              *)
(* skynet-src/{skynet_mq,skynet_server,skynet_handle,skynet_start}.c       *)
(*                                                                         *)
(* A step is what a thread does between two accesses to shared data: one   *)
(* critical section of a spin lock, the reader-writer lock or the mutex,   *)
(* or one atomic operation.  Messages are numbered; -m is the error reply  *)
(* about message m.  A service in its callback sends, kills and launches   *)
(* as it likes.                                                            *)
(***************************************************************************)
EXTENDS Integers, Sequences, FiniteSets

CONSTANTS
  Service,   (* the handles; a handle is not given twice                    *)
  Boot,      (* the service launched before the threads start               *)
  Worker,    (* thread_worker                                               *)
  Outside,   (* thread_timer and thread_socket, as senders                  *)
  Weight,    (* worker_parm.weight                                          *)
  MaxMsg,    (* bound: messages sent by services and from outside           *)
  None

ASSUME Parameters ==
  /\ Boot \in Service
  /\ None \notin Service
  /\ Worker \cap Outside = {}
  /\ IsFiniteSet(Worker) /\ IsFiniteSet(Outside)
  /\ Weight \in [Worker -> {-1} \cup Nat]
  /\ MaxMsg \in Nat

Thread == Worker \cup Outside
Msg == -MaxMsg .. MaxMsg

VARIABLES
  ctx,       (* of a service: not launched, in its init function, running, freed *)
  ref,       (* ctx->ref                                                    *)
  dir,       (* the handles that skynet_handle_grab finds                   *)
  queue,     (* the messages of a mailbox                                   *)
  inGlobal,  (* mq->in_global                                               *)
  release,   (* mq->release                                                 *)
  freed,     (* the mailboxes that _release has freed                       *)
  globalq,   (* the list Q                                                  *)
  pc, q,     (* of a thread: where it is, and the mailbox in its hand       *)
  left,      (* turns of the dispatch loop to go, -1 before the first       *)
  msg, tgt,  (* the message being sent; the context sent to or released     *)
  new,       (* the service being launched                                  *)
  ret,       (* where a thread goes on after sending or releasing           *)
  quit,      (* monitor->quit                                               *)
  src, sent, (* of each message, its sender; the messages so far            *)
  done       (* history: messages dispatched, refused, or answered by an error *)

contexts == <<ctx, ref, dir>>
mailboxes == <<queue, inGlobal, release, freed>>
frame == <<msg, tgt, new, ret>>
history == <<src, sent, done>>
vars == <<contexts, mailboxes, globalq, pc, q, left, frame, quit, history>>

Goto(t, l) == pc' = [pc EXCEPT ![t] = l]

(* Call a subroutine on context s, and go on at l afterwards.              *)
Call(t, sub, s, l) ==
  /\ Goto(t, sub)
  /\ tgt' = [tgt EXCEPT ![t] = s]
  /\ ret' = [ret EXCEPT ![t] = l]

(* Threads inside monitor->mutex between ++sleep and pthread_cond_wait.    *)
MutexFree == \A t \in Worker : pc[t] # "counted"

(* skynet_context_total: contexts not yet freed.                           *)
Total == Cardinality({s \in Service : ctx[s] \in {"init", "ready"}})

Init ==
  /\ ctx = [s \in Service |-> IF s = Boot THEN "ready" ELSE "unborn"]
  /\ ref = [s \in Service |-> IF s = Boot THEN 1 ELSE 0]
  /\ dir = {Boot}
  /\ queue = [s \in Service |-> <<>>]
  /\ inGlobal = [s \in Service |-> s = Boot]
  /\ release = [s \in Service |-> FALSE]
  /\ freed = {}
  /\ globalq = <<Boot>>
  /\ pc = [t \in Thread |-> IF t \in Worker THEN "top" ELSE "out"]
  /\ q = [t \in Thread |-> None]
  /\ left = [t \in Worker |-> -1]
  /\ msg = [t \in Thread |-> 0]
  /\ tgt = [t \in Thread |-> None]
  /\ new = [t \in Thread |-> None]
  /\ ret = [t \in Thread |-> "top"]
  /\ quit = FALSE
  /\ src = [m \in 1 .. MaxMsg |-> None]
  /\ sent = 0
  /\ done = {}

-----------------------------------------------------------------------------
(* Sending and releasing: the subroutines of every thread.                 *)

(* skynet_context_push up to the push: skynet_handle_grab.  A send to a    *)
(* dead handle returns -1 and frees the message.                           *)
SendGrab(t) ==
  /\ pc[t] = "send"
  /\ \/ /\ tgt[t] \in dir
        /\ ref' = [ref EXCEPT ![tgt[t]] = @ + 1]
        /\ Goto(t, "push")
        /\ UNCHANGED done
     \/ /\ tgt[t] \notin dir
        /\ done' = done \cup ({msg[t], -msg[t]} \cap 1 .. MaxMsg)
        /\ Goto(t, ret[t])
        /\ UNCHANGED ref
  /\ UNCHANGED <<ctx, dir, mailboxes, globalq, q, left, frame, quit, src, sent>>

MutPushAlways(t) ==        (* in_global is not looked at                      *)
  LET s == tgt[t] IN
  /\ pc[t] = "push"
  /\ queue' = [queue EXCEPT ![s] = Append(@, msg[t])]
  /\ inGlobal' = [inGlobal EXCEPT ![s] = TRUE]
  /\ globalq' = Append(globalq, s)
  /\ done' = done \cup ({-msg[t]} \cap 1 .. MaxMsg)
  /\ Goto(t, "release")
  /\ UNCHANGED <<contexts, release, freed, q, left, frame, quit, src, sent>>

(* skynet_mq_push.                                                         *)
Push(t) ==
  LET s == tgt[t] IN
  /\ pc[t] = "push"
  /\ queue' = [queue EXCEPT ![s] = Append(@, msg[t])]
  /\ inGlobal' = [inGlobal EXCEPT ![s] = TRUE]
  /\ globalq' = IF inGlobal[s] THEN globalq ELSE Append(globalq, s)
  /\ done' = done \cup ({-msg[t]} \cap 1 .. MaxMsg)
  /\ Goto(t, "release")
  /\ UNCHANGED <<contexts, release, freed, q, left, frame, quit, src, sent>>

(* The atomic decrement of skynet_context_release.                         *)
Release(t) ==
  LET s == tgt[t] IN
  /\ pc[t] = "release"
  /\ ref' = [ref EXCEPT ![s] = @ - 1]
  /\ Goto(t, IF ref[s] = 1 THEN "delete" ELSE ret[t])
  /\ UNCHANGED <<ctx, dir, mailboxes, globalq, q, left, frame, quit, history>>

MutNoPush(t) ==            (* the mailbox is marked, not scheduled            *)
  /\ pc[t] = "delete"
  /\ release' = [release EXCEPT ![tgt[t]] = TRUE]
  /\ ctx' = [ctx EXCEPT ![tgt[t]] = "freed"]
  /\ Goto(t, ret[t])
  /\ UNCHANGED <<ref, dir, queue, inGlobal, freed, globalq, q, left, frame, quit, history>>

(* delete_context with skynet_mq_mark_release.                             *)
Delete(t) ==
  LET s == tgt[t] IN
  /\ pc[t] = "delete"
  /\ release' = [release EXCEPT ![s] = TRUE]
  /\ globalq' = IF inGlobal[s] THEN globalq ELSE Append(globalq, s)
  /\ ctx' = [ctx EXCEPT ![s] = "freed"]
  /\ Goto(t, ret[t])
  /\ UNCHANGED <<ref, dir, queue, inGlobal, freed, q, left, frame, quit, history>>

-----------------------------------------------------------------------------
(* A worker: thread_worker and skynet_context_message_dispatch.            *)

(* skynet_globalmq_pop.                                                    *)
PopGlobal(t) ==
  /\ pc[t] = "top" /\ q[t] = None /\ ~quit
  /\ \/ /\ globalq # <<>>
        /\ q' = [q EXCEPT ![t] = Head(globalq)]
        /\ globalq' = Tail(globalq)
        /\ UNCHANGED pc
     \/ /\ globalq = <<>>
        /\ Goto(t, "nap")
        /\ UNCHANGED <<q, globalq>>
  /\ UNCHANGED <<contexts, mailboxes, left, frame, quit, history>>

MutNoGrab(t) ==            (* the context is looked up and not counted        *)
  /\ pc[t] = "top" /\ q[t] # None /\ ~quit
  /\ left' = [left EXCEPT ![t] = -1]
  /\ Goto(t, IF q[t] \in dir THEN "loop" ELSE "orphan")
  /\ UNCHANGED <<contexts, mailboxes, globalq, q, frame, quit, history>>

(* skynet_handle_grab of the mailbox's service.                            *)
GrabOwner(t) ==
  /\ pc[t] = "top" /\ q[t] # None /\ ~quit
  /\ \/ /\ q[t] \in dir
        /\ ref' = [ref EXCEPT ![q[t]] = @ + 1]
        /\ left' = [left EXCEPT ![t] = -1]
        /\ Goto(t, "loop")
     \/ /\ q[t] \notin dir
        /\ Goto(t, "orphan")
        /\ UNCHANGED <<ref, left>>
  /\ UNCHANGED <<ctx, dir, mailboxes, globalq, q, frame, quit, history>>

(* Turns that follow the first one when n messages wait after it.          *)
Turns(t, n) ==
  IF Weight[t] < 0 \/ (n \div 2 ^ Weight[t]) = 0 THEN 0 ELSE n \div 2 ^ Weight[t] - 1

(* One turn of the loop: skynet_mq_pop and the start of the callback.      *)
Take(t) ==
  LET s == q[t] IN
  /\ pc[t] = "loop" /\ queue[s] # <<>>
  /\ queue' = [queue EXCEPT ![s] = Tail(@)]
  /\ left' = [left EXCEPT ![t] = IF @ = -1 THEN Turns(t, Len(queue[s]) - 1) ELSE @ - 1]
  /\ done' = done \cup ({Head(queue[s])} \cap 1 .. MaxMsg)
  /\ Goto(t, "callback")
  /\ UNCHANGED <<contexts, inGlobal, release, freed, globalq, q, frame, quit, src, sent>>

(* The mailbox is empty: it leaves the schedule until the next push.       *)
Empty(t) ==
  /\ pc[t] = "loop" /\ queue[q[t]] = <<>>
  /\ inGlobal' = [inGlobal EXCEPT ![q[t]] = FALSE]
  /\ q' = [q EXCEPT ![t] = None]
  /\ Call(t, "release", q[t], "top")
  /\ UNCHANGED <<contexts, queue, release, freed, globalq, left, msg, new, quit, history>>

(* The callback returns.                                                   *)
Return(t) ==
  /\ pc[t] = "callback"
  /\ Goto(t, IF left[t] > 0 THEN "loop" ELSE "round")
  /\ UNCHANGED <<contexts, mailboxes, globalq, q, left, frame, quit, history>>

(* After the last turn: take the next mailbox and give this one back, or   *)
(* keep it if there is no other.                                           *)
NextQueue(t) ==
  /\ pc[t] = "round"
  /\ \/ /\ globalq = <<>>
        /\ Call(t, "release", q[t], "top")
        /\ UNCHANGED <<q, globalq>>
     \/ /\ globalq # <<>>
        /\ q' = [q EXCEPT ![t] = Head(globalq)]
        /\ globalq' = Tail(globalq)
        /\ Call(t, "giveback", q[t], "top")
  /\ UNCHANGED <<contexts, mailboxes, left, msg, new, quit, history>>

GiveBack(t) ==
  /\ pc[t] = "giveback"
  /\ globalq' = Append(globalq, tgt[t])
  /\ Goto(t, "release")
  /\ UNCHANGED <<contexts, mailboxes, q, left, frame, quit, history>>

-----------------------------------------------------------------------------
(* skynet_mq_release, for the mailbox of a dead service or of a launch     *)
(* that failed.                                                            *)
Doomed(t) == IF new[t] # None THEN new[t] ELSE q[t]

(* The thread is through with the doomed mailbox.                          *)
LetGo(t) ==
  IF new[t] # None
  THEN /\ new' = [new EXCEPT ![t] = None]
       /\ Goto(t, "callback")
       /\ UNCHANGED q
  ELSE /\ q' = [q EXCEPT ![t] = None]
       /\ Goto(t, "top")
       /\ UNCHANGED new

(* Its context is still in use: it goes back to the global queue.          *)
Requeue(t) ==
  /\ pc[t] = "orphan" /\ ~release[Doomed(t)]
  /\ globalq' = Append(globalq, Doomed(t))
  /\ LetGo(t)
  /\ UNCHANGED <<contexts, mailboxes, left, msg, tgt, ret, quit, history>>

MutSilent(t) ==            (* the messages of a dead service are just freed   *)
  /\ pc[t] = "orphan" /\ release[Doomed(t)] /\ queue[Doomed(t)] # <<>>
  /\ queue' = [queue EXCEPT ![Doomed(t)] = <<>>]
  /\ UNCHANGED <<contexts, inGlobal, release, freed, globalq, pc, q, left, frame, quit, history>>

(* _drop_queue: each message is answered by an error.                      *)
Drop(t) ==
  LET s == Doomed(t)
      m == Head(queue[s])
      answer == m > 0 /\ src[m] # None
  IN
  /\ pc[t] = "orphan" /\ release[s] /\ queue[s] # <<>>
  /\ queue' = [queue EXCEPT ![s] = Tail(@)]
  /\ \/ /\ answer
        /\ msg' = [msg EXCEPT ![t] = -m]
        /\ Call(t, "send", src[m], "orphan")
        /\ UNCHANGED done
     \/ /\ ~answer
        /\ done' = done \cup ({m} \cap 1 .. MaxMsg)
        /\ UNCHANGED <<pc, msg, tgt, ret>>
  /\ UNCHANGED <<contexts, inGlobal, release, freed, globalq, q, left, new, quit, src, sent>>

FreeQueue(t) ==
  LET s == Doomed(t) IN
  /\ pc[t] = "orphan" /\ release[s] /\ queue[s] = <<>>
  /\ inGlobal' = [inGlobal EXCEPT ![s] = FALSE]
  /\ freed' = freed \cup {s}
  /\ LetGo(t)
  /\ UNCHANGED <<contexts, queue, release, globalq, left, msg, tgt, ret, quit, history>>

-----------------------------------------------------------------------------
(* What a service does in its callback or init function, and what the      *)
(* timer and socket threads do.                                            *)
Running == {"callback", "init", "out"}
Self(t) == IF pc[t] = "init" THEN new[t] ELSE q[t]

(* skynet_send.                                                            *)
Send(t, s) ==
  /\ pc[t] \in Running /\ ctx[s] # "unborn" /\ sent < MaxMsg
  /\ sent' = sent + 1
  /\ src' = [src EXCEPT ![sent'] = Self(t)]
  /\ msg' = [msg EXCEPT ![t] = sent']
  /\ Call(t, "send", s, pc[t])
  /\ UNCHANGED <<contexts, mailboxes, globalq, q, left, new, quit, done>>

(* skynet_handle_retire, by EXIT, KILL and ABORT.                          *)
Kill(t, s) ==
  /\ pc[t] = "callback" /\ s \in dir
  /\ dir' = dir \ {s}
  /\ Call(t, "release", s, "callback")
  /\ UNCHANGED <<ctx, ref, mailboxes, globalq, q, left, msg, new, quit, history>>

(* skynet_context_new up to the init function.  ref counts the launching   *)
(* thread and the directory.                                               *)
Launch(t, s) ==
  /\ pc[t] = "callback" /\ ctx[s] = "unborn"
  /\ ctx' = [ctx EXCEPT ![s] = "init"]
  /\ ref' = [ref EXCEPT ![s] = 2]
  /\ dir' = dir \cup {s}
  /\ inGlobal' = [inGlobal EXCEPT ![s] = TRUE]
  /\ new' = [new EXCEPT ![t] = s]
  /\ Goto(t, "init")
  /\ UNCHANGED <<queue, release, freed, globalq, q, left, msg, tgt, ret, quit, history>>

(* The init function returns.                                              *)
Launched(t, ok) ==
  /\ pc[t] = "init"
  /\ Call(t, "release", new[t], IF ok THEN "publish" ELSE "failed")
  /\ UNCHANGED <<contexts, mailboxes, globalq, q, left, msg, new, quit, history>>

(* ctx->init = true unless it was killed meanwhile, skynet_globalmq_push.  *)
Publish(t) ==
  LET s == new[t] IN
  /\ pc[t] = "publish"
  /\ ctx' = [ctx EXCEPT ![s] = IF @ = "init" THEN "ready" ELSE @]
  /\ globalq' = Append(globalq, s)
  /\ new' = [new EXCEPT ![t] = None]
  /\ Goto(t, "callback")
  /\ UNCHANGED <<ref, dir, mailboxes, q, left, msg, tgt, ret, quit, history>>

(* The launch failed: skynet_handle_retire of the new service.             *)
Failed(t) ==
  LET s == new[t] IN
  /\ pc[t] = "failed"
  /\ dir' = dir \ {s}
  /\ \/ /\ s \in dir
        /\ Call(t, "release", s, "orphan")
     \/ /\ s \notin dir
        /\ Goto(t, "orphan")
        /\ UNCHANGED <<tgt, ret>>
  /\ UNCHANGED <<ctx, ref, mailboxes, globalq, q, left, msg, new, quit, history>>

-----------------------------------------------------------------------------
(* Sleeping and waking: monitor->mutex and monitor->cond.                  *)

(* pthread_mutex_lock, ++sleep and the test of quit.                       *)
Count(t) ==
  /\ pc[t] = "nap" /\ MutexFree
  /\ Goto(t, IF quit THEN "top" ELSE "counted")
  /\ UNCHANGED <<contexts, mailboxes, globalq, q, left, frame, quit, history>>

(* pthread_cond_wait gives the mutex up.                                   *)
Wait(t) ==
  /\ pc[t] = "counted"
  /\ Goto(t, "asleep")
  /\ UNCHANGED <<contexts, mailboxes, globalq, q, left, frame, quit, history>>

(* A woken thread gets the mutex back and does --sleep.                    *)
Resume(t) ==
  /\ pc[t] = "woken" /\ MutexFree
  /\ Goto(t, "top")
  /\ UNCHANGED <<contexts, mailboxes, globalq, q, left, frame, quit, history>>

(* wakeup, by the timer thread every 2.5 ms until it ends, and by the      *)
(* socket thread: one sleeper is signalled.                                *)
Wakeup(t) ==
  /\ pc[t] = "asleep"
  /\ Goto(t, "woken")
  /\ UNCHANGED <<contexts, mailboxes, globalq, q, left, frame, quit, history>>

MutNoMutex ==              (* quit is set without the mutex                   *)
  /\ Total = 0 /\ ~quit
  /\ quit' = TRUE
  /\ pc' = [t \in Thread |-> IF pc[t] = "asleep" THEN "woken" ELSE pc[t]]
  /\ UNCHANGED <<contexts, mailboxes, globalq, q, left, frame, history>>

(* The timer thread ends when no context is left.                          *)
Abort ==
  /\ Total = 0 /\ ~quit /\ MutexFree
  /\ quit' = TRUE
  /\ pc' = [t \in Thread |-> IF pc[t] = "asleep" THEN "woken" ELSE pc[t]]
  /\ UNCHANGED <<contexts, mailboxes, globalq, q, left, frame, history>>

Stop(t) ==
  /\ pc[t] = "top" /\ quit
  /\ Goto(t, "stopped")
  /\ UNCHANGED <<contexts, mailboxes, globalq, q, left, frame, quit, history>>

-----------------------------------------------------------------------------
(* Steps a thread takes without being asked.                               *)
WorkerStep(t) ==
  \/ PopGlobal(t) \/ GrabOwner(t) \/ Take(t) \/ Empty(t) \/ Return(t) \/ NextQueue(t) \/ GiveBack(t)
  \/ Requeue(t) \/ Drop(t) \/ FreeQueue(t)
  \/ (\E ok \in BOOLEAN : Launched(t, ok)) \/ Publish(t) \/ Failed(t)
  \/ Count(t) \/ Wait(t) \/ Resume(t) \/ Stop(t)

Subroutine(t) == SendGrab(t) \/ Push(t) \/ Release(t) \/ Delete(t)

Next ==
  \/ \E t \in Thread : Subroutine(t) \/ (\E s \in Service : Send(t, s))
  \/ \E t \in Worker : WorkerStep(t) \/ Wakeup(t) \/ (\E s \in Service : Kill(t, s) \/ Launch(t, s))
  \/ Abort

Spec == Init /\ [][Next]_vars

(* Threads run, a callback returns, the timer thread keeps ticking, and    *)
(* gets a mutex that the workers leave free again and again.               *)
Fairness ==
  /\ \A t \in Thread : WF_vars(Subroutine(t))
  /\ \A t \in Worker : WF_vars(WorkerStep(t))
  /\ WF_vars(~quit /\ \E t \in Worker : Wakeup(t))
  /\ SF_vars(Abort)

FairSpec == Spec /\ Fairness

-----------------------------------------------------------------------------
(* Properties.                                                             *)
Places == {"top", "nap", "counted", "asleep", "woken", "stopped", "loop", "callback", "round",
  "giveback", "orphan", "init", "publish", "failed", "send", "push", "release", "delete", "out"}

TypeOK ==
  /\ ctx \in [Service -> {"unborn", "init", "ready", "freed"}]
  /\ ref \in [Service -> Nat]
  /\ dir \subseteq Service
  /\ queue \in [Service -> Seq(Msg)]
  /\ inGlobal \in [Service -> BOOLEAN]
  /\ release \in [Service -> BOOLEAN]
  /\ freed \subseteq Service
  /\ globalq \in Seq(Service)
  /\ pc \in [Thread -> Places]
  /\ q \in [Thread -> Service \cup {None}]
  /\ DOMAIN left = Worker
  /\ msg \in [Thread -> Msg]
  /\ tgt \in [Thread -> Service \cup {None}]
  /\ new \in [Thread -> Service \cup {None}]
  /\ ret \in [Thread -> Places]
  /\ quit \in BOOLEAN
  /\ src \in [1 .. MaxMsg -> Service \cup {None}]
  /\ sent \in 0 .. MaxMsg
  /\ done \subseteq 1 .. MaxMsg

Sub == {"send", "push", "release", "delete"}

(* Thread t is inside a call that service q[t] made, and so holds the      *)
(* reference that GrabOwner took.                                          *)
Dispatching(t) ==
  /\ q[t] # None
  /\ \/ pc[t] \in {"loop", "callback", "round"}
     \/ new[t] # None
     \/ (pc[t] \in Sub /\ ret[t] = "callback")

(* Thread t is inside the init function of the service it launches.        *)
Launching(t) == new[t] # None /\ (pc[t] = "init" \/ (pc[t] \in Sub /\ ret[t] = "init"))

(* The references on s: one of the directory, those of running callbacks,  *)
(* of launches, and those about to be used for a push or to be given up.   *)
Dispatchers(s) == {t \in Thread : Dispatching(t) /\ q[t] = s}
Launchers(s) == {t \in Thread : Launching(t) /\ new[t] = s}
Users(s) == {t \in Thread : pc[t] \in {"push", "release", "giveback"} /\ tgt[t] = s}

(* The reference count is exact: a context is freed when, and only when,   *)
(* the directory, the callbacks, the launches and the sends under way are  *)
(* through with it (skynet_server.c:221), so none of them uses freed       *)
(* memory, and assert(q->release == 0) of skynet_mq.c:221 holds.           *)
RefsExact ==
  /\ TypeOK
  /\ \A s \in Service :
       /\ ref[s] = Cardinality(Dispatchers(s)) + Cardinality(Launchers(s)) + Cardinality(Users(s))
                   + (IF s \in dir THEN 1 ELSE 0)
       /\ ref[s] > 0 => ctx[s] \in {"init", "ready"}
       /\ release[s] <=> ctx[s] = "freed"

(* Mailbox s is in the hand of thread t.                                   *)
Holds(t, s) == s \in {q[t], new[t]} \/ (pc[t] = "giveback" /\ tgt[t] = s)

(* A mailbox is in the global queue once, or in the hand of one thread:    *)
(* a service never runs on two threads, and assert(queue->next == NULL) of *)
(* skynet_mq.c:46 holds.  What is freed is in neither.                     *)
OneHolder ==
  /\ \A i, j \in 1 .. Len(globalq) : globalq[i] = globalq[j] => i = j
  /\ \A i \in 1 .. Len(globalq) : globalq[i] \notin freed
  /\ \A t \in Thread : \A s \in Service : Holds(t, s) =>
       /\ \A u \in Thread \ {t} : ~Holds(u, s)
       /\ \A i \in 1 .. Len(globalq) : globalq[i] # s
       /\ s \notin freed

InPlay(s) == (\E i \in 1 .. Len(globalq) : globalq[i] = s) \/ (\E t \in Thread : Holds(t, s))

(* No mailbox is forgotten: one that has messages, or waits to be freed,   *)
(* is in the global queue or in a hand, whatever pushes, an emptied queue  *)
(* and the end of the service come together (skynet_mq.c:163, 203, 223).   *)
Scheduled ==
  \A s \in Service \ freed : (queue[s] # <<>> \/ release[s]) => InPlay(s)

(* Every message is dispatched, refused, or answered by an error, although *)
(* a push wakes nobody and a sleeping worker is only woken by the timer    *)
(* (skynet_start.c:58).                                                    *)
Answered == \A m \in 1 .. MaxMsg : (sent >= m) ~> (m \in done \/ quit)

(* When no service is left every worker ends, also one that was about to   *)
(* sleep when quit was set (skynet_start.c:160, 190).                      *)
WorkersEnd == (Total = 0) ~> \A t \in Worker : pc[t] = "stopped"
=============================================================================
