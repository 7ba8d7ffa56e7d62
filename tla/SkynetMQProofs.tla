--------------------------- MODULE SkynetMQProofs ---------------------------
(***************************************************************************)
(* Theorems about SkynetMQ, for any number of services, workers, outside   *)
(* threads and messages: reference counts are exact, a mailbox is in one   *)
(* place, and none that has something to do is forgotten.                  *)
(***************************************************************************)
EXTENDS SkynetMQ, FiniteSetTheorems, SequenceTheorems, TLAPS

(* Where a thread is outside of the subroutines.                           *)
Point(t) == IF pc[t] \in Sub \cup {"giveback"} THEN ret[t] ELSE pc[t]

(* What a thread has in its hands at each point.                           *)
Hands(t) ==
  /\ Point(t) \notin Sub \cup {"giveback"}
  /\ Point(t) \in {"loop", "callback", "round", "orphan", "init", "publish", "failed"} => q[t] # None
  /\ Point(t) \in {"init", "publish", "failed"} => new[t] # None
  /\ Point(t) \notin {"init", "publish", "failed", "orphan"} => new[t] = None
  /\ pc[t] \in Sub \cup {"giveback"} => tgt[t] # None
  /\ pc[t] = "giveback" => ret[t] = "top" /\ q[t] # None
  /\ pc[t] \in Sub => ret[t] \notin {"loop", "round"}

Shape == \A t \in Thread : Hands(t)

LEMMA InitShape == Init => TypeOK /\ Shape
<1> SUFFICES ASSUME Init PROVE TypeOK /\ Shape
  OBVIOUS
<1>1. Thread = Worker \cup Outside
  BY DEF Thread
<1>2. quit \in BOOLEAN /\ inGlobal \in [Service -> BOOLEAN] /\ release \in [Service -> BOOLEAN]
  BY Zenon DEF Init
<1>3. TypeOK
  BY <1>1, <1>2, Parameters DEF Init, TypeOK, Places, Msg
<1>4. Shape
  BY <1>1 DEF Init, Shape, Hands, Point, Sub
<1> QED
  BY <1>3, <1>4

(* The subroutines keep types and hands; a count that is given up was not  *)
(* 0.                                                                      *)
LEMMA SubShape ==
  ASSUME TypeOK, Shape, NEW t \in Thread, Subroutine(t), pc[t] = "release" => ref[tgt[t]] > 0
  PROVE  TypeOK' /\ Shape'
<1> USE DEF Thread, contexts, mailboxes, frame, history, Goto
<1>0. tgt[t] # None => tgt[t] \in Service
  BY DEF TypeOK
<1>1. ASSUME SendGrab(t) PROVE TypeOK' /\ Shape'
  <2>1. tgt[t] \in Service
    BY <1>0, <1>1 DEF SendGrab, Shape, Hands, Sub
  <2>2. ref' \in [Service -> Nat]
    BY <1>1, <2>1 DEF SendGrab, TypeOK
  <2>3. TypeOK'
    BY <1>1, <2>2 DEF SendGrab, TypeOK, Places, Shape, Hands, Point, Sub
  <2>4. Shape'
    BY <1>1 DEF SendGrab, TypeOK, Shape, Hands, Point, Sub
  <2> QED BY <2>3, <2>4
<1>2. ASSUME Push(t) PROVE TypeOK' /\ Shape'
  <2>1. tgt[t] \in Service
    BY <1>0, <1>2 DEF Push, Shape, Hands, Sub
  <2>2. queue' \in [Service -> Seq(Msg)] /\ globalq' \in Seq(Service)
    BY <1>2, <2>1 DEF Push, TypeOK
  <2>3. TypeOK'
    BY <1>2, <2>2 DEF Push, TypeOK, Places, Shape, Hands, Point, Sub
  <2>4. Shape'
    BY <1>2 DEF Push, TypeOK, Shape, Hands, Point, Sub
  <2> QED BY <2>3, <2>4
<1>3. ASSUME Delete(t) PROVE TypeOK' /\ Shape'
  <2>1. TypeOK'
    BY <1>3 DEF Delete, TypeOK, Places, Shape, Hands, Point, Sub
  <2>2. Shape'
    BY <1>3 DEF Delete, TypeOK, Shape, Hands, Point, Sub
  <2> QED BY <2>1, <2>2
<1>4. ASSUME Release(t) PROVE TypeOK' /\ Shape'
  <2>1. tgt[t] \in Service /\ ref[tgt[t]] > 0
    BY <1>0, <1>4 DEF Release, Shape, Hands, Sub
  <2>2. ref' \in [Service -> Nat]
    BY <1>4, <2>1 DEF Release, TypeOK
  <2>3. TypeOK'
    BY <1>4, <2>2 DEF Release, TypeOK, Places, Shape, Hands, Point, Sub
  <2>4. Shape'
    BY <1>4 DEF Release, TypeOK, Shape, Hands, Point, Sub
  <2> QED BY <2>3, <2>4
<1> QED
  BY <1>1, <1>2, <1>3, <1>4 DEF Subroutine

(* So do the steps of a worker ...                                         *)
LEMMA WorkerShape ==
  ASSUME TypeOK, Shape, NEW t \in Worker, WorkerStep(t)
  PROVE  TypeOK' /\ Shape'
<1> USE DEF contexts, mailboxes, frame, history, Goto, Call, LetGo
<1>0. t \in Thread /\ t \in Worker /\ (q[t] # None => q[t] \in Service) /\ (new[t] # None => new[t] \in Service)
  BY DEF TypeOK, Thread
<1>1. ASSUME PopGlobal(t) PROVE TypeOK' /\ Shape'
  <2>a. globalq # <<>> => Head(globalq) \in Service /\ Tail(globalq) \in Seq(Service)
    BY DEF TypeOK
  <2>b. globalq' \in Seq(Service) /\ q' \in [Thread -> Service \cup {None}]
    BY <1>0, <1>1, <2>a DEF PopGlobal, TypeOK
  <2>1. TypeOK'
    BY <1>0, <1>1, <2>b DEF PopGlobal, TypeOK, Places
  <2>2. Shape'
    BY <1>0, <1>1, <2>a, Parameters DEF PopGlobal, TypeOK, Shape, Hands, Point, Sub
  <2> QED BY <2>1, <2>2
<1>2. ASSUME GrabOwner(t) PROVE TypeOK' /\ Shape'
  <2>a. ref' \in [Service -> Nat]
    <3>1. CASE q[t] \in dir
      <4>1. q[t] \in Service /\ ref \in [Service -> Nat]
        BY <3>1 DEF TypeOK
      <4>2. ref' = [ref EXCEPT ![q[t]] = @ + 1]
        BY <1>2, <3>1 DEF GrabOwner
      <4> QED BY <4>1, <4>2
    <3>2. CASE q[t] \notin dir
      BY <1>2, <3>2 DEF GrabOwner, TypeOK
    <3> QED BY <3>1, <3>2
  <2>1. TypeOK'
    BY <1>0, <1>2, <2>a DEF GrabOwner, TypeOK, Places
  <2>2. Shape'
    BY SMTT(30), <1>0, <1>2 DEF GrabOwner, TypeOK, Shape, Hands, Point, Sub
  <2> QED BY <2>1, <2>2
<1>3. ASSUME Take(t) PROVE TypeOK' /\ Shape'
  <2>a. q[t] \in Service /\ queue[q[t]] \in Seq(Msg) /\ queue[q[t]] # <<>>
    BY <1>0, <1>3 DEF Take, TypeOK, Shape, Hands, Point, Sub
  <2>b. queue' \in [Service -> Seq(Msg)]
    BY <1>3, <2>a DEF Take, TypeOK
  <2>c. DOMAIN left' = Worker
    BY <1>3 DEF Take, TypeOK
  <2>1. TypeOK'
    BY <1>0, <1>3, <2>b, <2>c DEF Take, TypeOK, Places
  <2>2. Shape'
    BY <1>0, <1>3 DEF Take, TypeOK, Shape, Hands, Point, Sub
  <2> QED BY <2>1, <2>2
<1>4. ASSUME Empty(t) PROVE TypeOK' /\ Shape'
  <2>1. TypeOK'
    BY <1>0, <1>4 DEF Empty, TypeOK, Places, Shape, Hands, Point, Sub
  <2>2. Shape'
    BY <1>0, <1>4 DEF Empty, TypeOK, Shape, Hands, Point, Sub
  <2> QED BY <2>1, <2>2
<1>5. ASSUME Return(t) PROVE TypeOK' /\ Shape'
  <2>1. TypeOK'
    BY <1>0, <1>5 DEF Return, TypeOK, Places, Shape, Hands, Point, Sub
  <2>2. Shape'
    BY <1>0, <1>5 DEF Return, TypeOK, Shape, Hands, Point, Sub
  <2> QED BY <2>1, <2>2
<1>6. ASSUME NextQueue(t) PROVE TypeOK' /\ Shape'
  <2>a. globalq # <<>> => Head(globalq) \in Service /\ Tail(globalq) \in Seq(Service)
    BY DEF TypeOK
  <2>b. globalq' \in Seq(Service) /\ q' \in [Thread -> Service \cup {None}]
    <3>1. CASE globalq = <<>>
      BY <1>6, <3>1 DEF NextQueue, TypeOK
    <3>2. CASE globalq # <<>>
      <4>1. q \in [Thread -> Service \cup {None}] /\ Head(globalq) \in Service /\ Tail(globalq) \in Seq(Service)
        BY <2>a, <3>2 DEF TypeOK
      <4>2. q' = [q EXCEPT ![t] = Head(globalq)] /\ globalq' = Tail(globalq)
        BY <1>6, <3>2 DEF NextQueue
      <4> QED BY <4>1, <4>2
    <3> QED BY <3>1, <3>2
  <2>c. q[t] \in Service /\ new[t] = None
    BY <1>0, <1>6 DEF NextQueue, TypeOK, Shape, Hands, Point, Sub
  <2>d. tgt' \in [Thread -> Service \cup {None}] /\ ret' \in [Thread -> Places] /\ pc' \in [Thread -> Places]
    BY <1>0, <1>6, <2>c DEF NextQueue, TypeOK, Places
  <2>1. TypeOK'
    BY <1>0, <1>6, <2>b, <2>d DEF NextQueue, TypeOK
  <2>e. q[t] # None /\ q'[t] # None
    BY <1>0, <1>6, <2>a, <2>c, Parameters DEF NextQueue, TypeOK
  <2>f. /\ \A u \in Thread \ {t} : q'[u] = q[u]
        /\ pc' = [pc EXCEPT ![t] = "release"] \/ pc' = [pc EXCEPT ![t] = "giveback"]
        /\ ret' = [ret EXCEPT ![t] = "top"] /\ tgt' = [tgt EXCEPT ![t] = q[t]]
        /\ new' = new /\ pc[t] = "round"
    BY <1>6 DEF NextQueue, TypeOK
  <2>2. Shape'
    BY <1>0, <2>c, <2>e, <2>f DEF TypeOK, Shape, Hands, Point, Sub
  <2> QED BY <2>1, <2>2
<1>7. ASSUME GiveBack(t) PROVE TypeOK' /\ Shape'
  <2>1. TypeOK'
    BY <1>0, <1>7 DEF GiveBack, TypeOK, Places, Shape, Hands, Point, Sub
  <2>2. Shape'
    BY <1>0, <1>7 DEF GiveBack, TypeOK, Shape, Hands, Point, Sub
  <2> QED BY <2>1, <2>2
<1>8. ASSUME Requeue(t) PROVE TypeOK' /\ Shape'
  <2>a. Doomed(t) \in Service
    BY <1>0, <1>8 DEF Requeue, Doomed, Shape, Hands, Point, Sub
  <2>b. globalq' \in Seq(Service)
    BY <1>8, <2>a DEF Requeue, TypeOK
  <2>1. TypeOK'
    BY <1>0, <1>8, <2>b DEF Requeue, TypeOK, Places
  <2>c. pc[t] = "orphan" /\ LetGo(t) /\ UNCHANGED <<tgt, ret>>
    BY <1>8 DEF Requeue
  <2>2. Shape'
    BY <1>0, <2>c DEF TypeOK, Shape, Hands, Point, Sub
  <2> QED BY <2>1, <2>2
<1>9. ASSUME Drop(t) PROVE TypeOK' /\ Shape'
  <2>a. Doomed(t) \in Service
    BY <1>0, <1>9 DEF Drop, Doomed, Shape, Hands, Point, Sub
  <2>b. queue[Doomed(t)] \in Seq(Msg) /\ queue[Doomed(t)] # <<>> /\ Head(queue[Doomed(t)]) \in Msg
    BY <1>9, <2>a DEF Drop, TypeOK
  <2>c. queue' \in [Service -> Seq(Msg)]
    BY <1>9, <2>a, <2>b DEF Drop, TypeOK
  <2>d. \A m \in Msg : -m \in Msg /\ (m > 0 => src[m] \in Service \cup {None})
    BY Parameters DEF Msg, TypeOK
  <2>e. msg' \in [Thread -> Msg]
    BY <1>0, <1>9, <2>b, <2>d DEF Drop, TypeOK
  <2>f. tgt' \in [Thread -> Service \cup {None}]
    BY <1>0, <1>9, <2>b, <2>d DEF Drop, TypeOK
  <2>1. TypeOK'
    BY <1>0, <1>9, <2>c, <2>e, <2>f DEF Drop, TypeOK, Places
  <2>2. Shape'
    BY <1>0, <1>9 DEF Drop, TypeOK, Shape, Hands, Point, Sub
  <2> QED BY <2>1, <2>2
<1>10. ASSUME FreeQueue(t) PROVE TypeOK' /\ Shape'
  <2>a. Doomed(t) \in Service
    BY <1>0, <1>10 DEF FreeQueue, Doomed, Shape, Hands, Point, Sub
  <2>b. freed' \subseteq Service /\ inGlobal' \in [Service -> BOOLEAN]
    BY <1>10, <2>a DEF FreeQueue, TypeOK
  <2>c. /\ q' \in [Thread -> Service \cup {None}]
        /\ new' \in [Thread -> Service \cup {None}]
        /\ pc' \in [Thread -> Places]
    BY ZenonT(30), <1>0, <1>10 DEF FreeQueue, TypeOK, Places
  <2>1. TypeOK'
    BY <1>0, <1>10, <2>b, <2>c DEF FreeQueue, TypeOK
  <2>d. pc[t] = "orphan" /\ LetGo(t) /\ UNCHANGED <<tgt, ret>>
    BY <1>10 DEF FreeQueue
  <2>2. Shape'
    BY <1>0, <2>d DEF TypeOK, Shape, Hands, Point, Sub
  <2> QED BY <2>1, <2>2
<1>11. ASSUME Publish(t) PROVE TypeOK' /\ Shape'
  <2>a. new[t] \in Service
    BY <1>0, <1>11 DEF Publish, Shape, Hands, Point, Sub
  <2>b. globalq' \in Seq(Service)
    BY <1>11, <2>a DEF Publish, TypeOK
  <2>c. ctx' \in [Service -> {"unborn", "init", "ready", "freed"}]
    BY <1>11, <2>a DEF Publish, TypeOK
  <2>1. TypeOK'
    BY <1>0, <1>11, <2>b, <2>c DEF Publish, TypeOK, Places
  <2>2. Shape'
    BY <1>0, <1>11 DEF Publish, TypeOK, Shape, Hands, Point, Sub
  <2> QED BY <2>1, <2>2
<1>12. ASSUME Failed(t) PROVE TypeOK' /\ Shape'
  <2>1. TypeOK'
    BY <1>0, <1>12 DEF Failed, TypeOK, Places, Shape, Hands, Point, Sub
  <2>2. Shape'
    BY <1>0, <1>12 DEF Failed, TypeOK, Shape, Hands, Point, Sub
  <2> QED BY <2>1, <2>2
<1>13. ASSUME Count(t) PROVE TypeOK' /\ Shape'
  <2>1. TypeOK'
    BY <1>0, <1>13 DEF Count, TypeOK, Places, Shape, Hands, Point, Sub
  <2>2. Shape'
    BY <1>0, <1>13 DEF Count, TypeOK, Shape, Hands, Point, Sub
  <2> QED BY <2>1, <2>2
<1>14. ASSUME Wait(t) PROVE TypeOK' /\ Shape'
  <2>1. TypeOK'
    BY <1>0, <1>14 DEF Wait, TypeOK, Places, Shape, Hands, Point, Sub
  <2>2. Shape'
    BY <1>0, <1>14 DEF Wait, TypeOK, Shape, Hands, Point, Sub
  <2> QED BY <2>1, <2>2
<1>15. ASSUME Resume(t) PROVE TypeOK' /\ Shape'
  <2>1. TypeOK'
    BY <1>0, <1>15 DEF Resume, TypeOK, Places, Shape, Hands, Point, Sub
  <2>2. Shape'
    BY <1>0, <1>15 DEF Resume, TypeOK, Shape, Hands, Point, Sub
  <2> QED BY <2>1, <2>2
<1>16. ASSUME Stop(t) PROVE TypeOK' /\ Shape'
  <2>1. TypeOK'
    BY <1>0, <1>16 DEF Stop, TypeOK, Places, Shape, Hands, Point, Sub
  <2>2. Shape'
    BY <1>0, <1>16 DEF Stop, TypeOK, Shape, Hands, Point, Sub
  <2> QED BY <2>1, <2>2
<1>17. ASSUME NEW ok \in BOOLEAN, Launched(t, ok) PROVE TypeOK' /\ Shape'
  <2>1. TypeOK'
    BY <1>0, <1>17 DEF Launched, TypeOK, Places, Shape, Hands, Point, Sub
  <2>2. Shape'
    BY <1>0, <1>17 DEF Launched, TypeOK, Shape, Hands, Point, Sub
  <2> QED BY <2>1, <2>2
<1> QED
  BY <1>1, <1>2, <1>3, <1>4, <1>5, <1>6, <1>7, <1>8, <1>9, <1>10, <1>11, <1>12, <1>13, <1>14, <1>15, <1>16, <1>17 DEF WorkerStep
(* ... and what a service does in its callback, and the timer thread.      *)
LEMMA ServiceShape ==
  ASSUME TypeOK, Shape, NEW t \in Thread, NEW s \in Service,
         Send(t, s) \/ (t \in Worker /\ (Wakeup(t) \/ Kill(t, s) \/ Launch(t, s)))
  PROVE  TypeOK' /\ Shape'
<1> USE DEF contexts, mailboxes, frame, history, Goto, Call
<1>1. ASSUME Send(t, s) PROVE TypeOK' /\ Shape'
  <2>1. sent' \in 0 .. MaxMsg /\ sent' \in 1 .. MaxMsg /\ sent' \in Msg
    BY <1>1, Parameters DEF Send, TypeOK, Msg
  <2>2. Self(t) \in Service \cup {None}
    BY DEF Self, TypeOK
  <2>3. src' \in [1 .. MaxMsg -> Service \cup {None}]
    BY <1>1, <2>1, <2>2 DEF Send, TypeOK
  <2>4. TypeOK'
    BY <1>1, <2>1, <2>3 DEF Send, TypeOK, Places, Running
  <2>5. Shape'
    BY SMTT(30), <1>1, Parameters DEF Send, TypeOK, Shape, Hands, Point, Sub, Running
  <2> QED BY <2>4, <2>5
<1>2. ASSUME Wakeup(t) PROVE TypeOK' /\ Shape'
  <2>1. TypeOK'
    BY <1>2 DEF Wakeup, TypeOK, Places
  <2>2. Shape'
    BY <1>2 DEF Wakeup, TypeOK, Shape, Hands, Point, Sub
  <2> QED BY <2>1, <2>2
<1>3. ASSUME Kill(t, s) PROVE TypeOK' /\ Shape'
  <2>1. TypeOK'
    BY <1>3 DEF Kill, TypeOK, Places
  <2>2. Shape'
    BY <1>3, Parameters DEF Kill, TypeOK, Shape, Hands, Point, Sub
  <2> QED BY <2>1, <2>2
<1>4. ASSUME Launch(t, s) PROVE TypeOK' /\ Shape'
  <2>1. TypeOK'
    BY <1>4 DEF Launch, TypeOK, Places
  <2>2. Shape'
    BY <1>4, Parameters DEF Launch, TypeOK, Shape, Hands, Point, Sub
  <2> QED BY <2>1, <2>2
<1> QED
  BY <1>1, <1>2, <1>3, <1>4

LEMMA AbortShape ==
  ASSUME TypeOK, Shape, Abort
  PROVE  TypeOK' /\ Shape'
<1> USE DEF contexts, mailboxes, frame, history
<1>1. quit' \in BOOLEAN
  BY Zenon DEF Abort
<1>2. TypeOK'
  BY <1>1 DEF Abort, TypeOK, Places
<1>3. Shape'
  BY DEF Abort, TypeOK, Shape, Hands, Point, Sub
<1> QED
  BY <1>2, <1>3

-----------------------------------------------------------------------------
(* Counting references.                                                    *)

(* One element more or less makes a difference of one.                     *)
LEMMA OneMoved ==
  ASSUME NEW S, NEW T, NEW x, IsFiniteSet(S), S \ {x} = T \ {x}
  PROVE  /\ IsFiniteSet(T)
         /\ Cardinality(S) \in Nat /\ Cardinality(T) \in Nat
         /\ Cardinality(T) = Cardinality(S) - (IF x \in S THEN 1 ELSE 0) + (IF x \in T THEN 1 ELSE 0)
         /\ x \in S => Cardinality(S) > 0
<1> DEFINE R == S \ {x}
<1>1. IsFiniteSet(R) /\ Cardinality(R) \in Nat
  BY FS_Subset, FS_CardinalityType
<1>2. /\ x \in S => S = R \cup {x}
      /\ x \notin S => S = R
      /\ x \in T => T = R \cup {x}
      /\ x \notin T => T = R
  OBVIOUS
<1>3. x \notin R
  OBVIOUS
<1>4. IsFiniteSet(R \cup {x}) /\ Cardinality(R \cup {x}) = Cardinality(R) + 1
  BY <1>1, <1>3, FS_AddElement
<1> HIDE DEF R
<1>a. Cardinality(R) + 1 \in Nat /\ Cardinality(R) + 1 > 0
  BY <1>1
<1>5. CASE x \in S /\ x \in T
  <2>1. S = R \cup {x} /\ T = R \cup {x}
    BY <1>2, <1>5
  <2> QED BY <1>1, <1>a, <1>4, <1>5, <2>1
<1>6. CASE x \in S /\ x \notin T
  <2>1. S = R \cup {x} /\ T = R
    BY <1>2, <1>6
  <2> QED BY <1>1, <1>a, <1>4, <1>6, <2>1
<1>7. CASE x \notin S /\ x \in T
  <2>1. S = R /\ T = R \cup {x}
    BY <1>2, <1>7
  <2> QED BY <1>1, <1>a, <1>4, <1>7, <2>1
<1>8. CASE x \notin S /\ x \notin T
  BY <1>1, <1>2, <1>4, <1>8
<1> QED
  BY <1>5, <1>6, <1>7, <1>8

One(b) == IF b THEN 1 ELSE 0

(* The references on s, and those of thread t.                             *)
Refs(s) == Cardinality(Dispatchers(s)) + Cardinality(Launchers(s)) + Cardinality(Users(s))
Share(t, s) == One(t \in Dispatchers(s)) + One(t \in Launchers(s)) + One(t \in Users(s))

(* Only thread t moves.                                                    *)
Others(t) == \A u \in Thread \ {t} :
  pc'[u] = pc[u] /\ q'[u] = q[u] /\ tgt'[u] = tgt[u] /\ new'[u] = new[u] /\ ret'[u] = ret[u]

LEMMA RefsMove ==
  ASSUME NEW t \in Thread, NEW s, Others(t)
  PROVE  /\ Refs(s) \in Nat /\ Refs(s)' \in Nat
         /\ Refs(s)' = Refs(s) - Share(t, s) + Share(t, s)'
         /\ Share(t, s) > 0 => Refs(s) > 0
<1>1. IsFiniteSet(Thread)
  BY Parameters, FS_Union DEF Thread
<1>2. /\ IsFiniteSet(Dispatchers(s)) /\ IsFiniteSet(Launchers(s)) /\ IsFiniteSet(Users(s))
  BY <1>1, FS_Subset DEF Dispatchers, Launchers, Users
<1>3. Dispatchers(s) \ {t} = Dispatchers(s)' \ {t}
  BY DEF Others, Dispatchers, Dispatching
<1>4. Launchers(s) \ {t} = Launchers(s)' \ {t}
  BY DEF Others, Launchers, Launching
<1>5. Users(s) \ {t} = Users(s)' \ {t}
  BY DEF Others, Users
<1> DEFINE D == Dispatchers(s) L == Launchers(s) U == Users(s)
<1>6. /\ Cardinality(D) \in Nat /\ Cardinality(D') \in Nat
      /\ Cardinality(D') = Cardinality(D) - One(t \in D) + One(t \in D')
      /\ t \in D => Cardinality(D) > 0
  BY <1>2, <1>3, OneMoved DEF One
<1>7. /\ Cardinality(L) \in Nat /\ Cardinality(L') \in Nat
      /\ Cardinality(L') = Cardinality(L) - One(t \in L) + One(t \in L')
      /\ t \in L => Cardinality(L) > 0
  BY <1>2, <1>4, OneMoved DEF One
<1>8. /\ Cardinality(U) \in Nat /\ Cardinality(U') \in Nat
      /\ Cardinality(U') = Cardinality(U) - One(t \in U) + One(t \in U')
      /\ t \in U => Cardinality(U) > 0
  BY <1>2, <1>5, OneMoved DEF One
<1> HIDE DEF D, L, U
<1>9. /\ Refs(s) = Cardinality(D) + Cardinality(L) + Cardinality(U)
      /\ Refs(s)' = Cardinality(D') + Cardinality(L') + Cardinality(U')
      /\ Share(t, s) = One(t \in D) + One(t \in L) + One(t \in U)
      /\ Share(t, s)' = One(t \in D') + One(t \in L') + One(t \in U')
  BY DEF D, L, U, Refs, Share
<1> QED
  BY <1>6, <1>7, <1>8, <1>9 DEF One

Using(t) == pc[t] \in {"push", "release", "giveback"}

LEMMA ShareIs ==
  ASSUME NEW t \in Thread, NEW s
  PROVE  /\ Share(t, s) = One(Dispatching(t) /\ q[t] = s) + One(Launching(t) /\ new[t] = s) + One(Using(t) /\ tgt[t] = s)
         /\ Share(t, s)' = One(Dispatching(t)' /\ q'[t] = s) + One(Launching(t)' /\ new'[t] = s) + One(Using(t)' /\ tgt'[t] = s)
  BY DEF Share, Dispatchers, Launchers, Users, Using, One

(* What thread t gains or gives up is what the counts and the directory    *)
(* gain or give up.                                                        *)
Balanced(t) == \A s \in Service :
  ref'[s] + Share(t, s) + One(s \in dir) = ref[s] + Share(t, s)' + One(s \in dir')

LEMMA SubBalanced ==
  ASSUME TypeOK, Shape, NEW t \in Thread, Subroutine(t), pc[t] = "release" => ref[tgt[t]] > 0
  PROVE  Others(t) /\ Balanced(t)
<1> USE DEF contexts, mailboxes, frame, history, Goto, Dispatchers, Launchers, Users
<1>0. pc[t] \in Sub => tgt[t] \in Service
  BY DEF TypeOK, Shape, Hands
<1>1. ASSUME SendGrab(t) PROVE Others(t) /\ Balanced(t)
  <2>1. Others(t)
    BY <1>1 DEF SendGrab, Others, TypeOK
  <2>a. pc[t] = "send" /\ tgt[t] \in Service
    BY <1>0, <1>1 DEF SendGrab, Sub
  <2>b. new' = new /\ q' = q /\ ret' = ret /\ tgt' = tgt /\ dir' = dir
    BY <1>1 DEF SendGrab
  <2>c. \/ pc'[t] = "push" /\ ref' = [ref EXCEPT ![tgt[t]] = @ + 1]
        \/ pc'[t] = ret[t] /\ ref' = ref
    BY <1>1 DEF SendGrab, TypeOK
  <2>d. Hands(t)
    BY DEF Shape
  <2>e. ~Using(t) /\ (Dispatching(t)' <=> Dispatching(t)) /\ (Launching(t)' <=> Launching(t)) /\ (Using(t)' <=> pc'[t] = "push")
    BY <2>a, <2>b, <2>c, <2>d DEF Dispatching, Launching, Using, Sub, Hands, Point
  <2>g. pc'[t] = "push" => ref' = [ref EXCEPT ![tgt[t]] = @ + 1]
    BY <2>a, <2>c, <2>d DEF Hands, Point, Sub
  <2>h. pc'[t] # "push" => ref' = ref
    BY <2>c
  <2>f. ref \in [Service -> Nat]
    BY DEF TypeOK
  <2>2. Balanced(t)
    BY <1>0, <2>a, <2>b, <2>e, <2>f, <2>g, <2>h, ShareIs DEF Balanced, One
  <2> QED BY <2>1, <2>2
<1>2. ASSUME Push(t) PROVE Others(t) /\ Balanced(t)
  <2>1. Others(t)
    BY <1>2 DEF Push, Others, TypeOK
  <2>2. Balanced(t)
    BY <1>0, <1>2 DEF Push, Balanced, Share, One, Dispatching, Launching, TypeOK, Shape, Hands, Point, Sub
  <2> QED BY <2>1, <2>2
<1>3. ASSUME Release(t) PROVE Others(t) /\ Balanced(t)
  <2>1. Others(t)
    BY <1>3 DEF Release, Others, TypeOK
  <2>a. pc[t] = "release" /\ tgt[t] \in Service
    BY <1>0, <1>3 DEF Release, Sub
  <2>b. /\ pc'[t] \in {ret[t], "delete"} /\ new' = new /\ q' = q /\ ret' = ret /\ tgt' = tgt
        /\ ref' = [ref EXCEPT ![tgt[t]] = @ - 1] /\ dir' = dir
    BY <1>3 DEF Release, TypeOK
  <2>c. Hands(t)
    BY DEF Shape
  <2>d. Using(t) /\ (Dispatching(t)' <=> Dispatching(t)) /\ (Launching(t)' <=> Launching(t)) /\ ~Using(t)'
    BY <2>a, <2>b, <2>c DEF Dispatching, Launching, Using, Sub, Hands, Point
  <2>f. ref \in [Service -> Nat]
    BY DEF TypeOK
  <2>2. Balanced(t)
    BY <1>0, <2>a, <2>b, <2>d, <2>f, ShareIs DEF Balanced, One
  <2> QED BY <2>1, <2>2
<1>4. ASSUME Delete(t) PROVE Others(t) /\ Balanced(t)
  <2>1. Others(t)
    BY <1>4 DEF Delete, Others, TypeOK
  <2>a. pc[t] = "delete" /\ tgt[t] \in Service
    BY <1>0, <1>4 DEF Delete, Sub
  <2>b. pc'[t] = ret[t] /\ new' = new /\ q' = q /\ ret' = ret /\ tgt' = tgt /\ ref' = ref /\ dir' = dir
    BY <1>4 DEF Delete, TypeOK
  <2>c. Hands(t)
    BY DEF Shape
  <2>d. \A s \in Service : Share(t, s)' = Share(t, s)
    BY <2>a, <2>b, <2>c DEF Share, One, Dispatching, Launching, Sub, Hands, Point
  <2>f. ref \in [Service -> Nat]
    BY DEF TypeOK
  <2>2. Balanced(t)
    BY <2>b, <2>d, <2>f DEF Balanced, Share, One
  <2> QED BY <2>1, <2>2
<1> QED
  BY <1>1, <1>2, <1>3, <1>4 DEF Subroutine

LEMMA WorkerBalanced ==
  ASSUME TypeOK, Shape, NEW t \in Worker, WorkerStep(t)
  PROVE  Others(t) /\ Balanced(t)
<1> USE DEF contexts, mailboxes, frame, history, Goto, Call, LetGo, Dispatchers, Launchers, Users
<1>0. t \in Thread /\ t \in Worker /\ (q[t] # None => q[t] \in Service) /\ (new[t] # None => new[t] \in Service)
  BY DEF TypeOK, Thread
<1>1. ASSUME PopGlobal(t) PROVE Others(t) /\ Balanced(t)
  <2>1. Others(t)
    BY <1>1 DEF PopGlobal, Others, TypeOK
  <2>2. Balanced(t)
    BY <1>0, <1>1 DEF PopGlobal, Balanced, Share, One, Dispatching, Launching, TypeOK, Shape, Hands, Point, Sub
  <2> QED BY <2>1, <2>2
<1>2. ASSUME GrabOwner(t) PROVE Others(t) /\ Balanced(t)
  <2>1. Others(t)
    BY <1>2 DEF GrabOwner, Others, TypeOK
  <2>a. pc[t] = "top" /\ new[t] = None /\ q[t] \in Service
    BY <1>0, <1>2 DEF GrabOwner, Shape, Hands, Point, Sub
  <2>b. new' = new /\ q' = q /\ tgt' = tgt /\ dir' = dir
    BY <1>0, <1>2 DEF GrabOwner
  <2>c. \/ pc'[t] = "loop" /\ ref' = [ref EXCEPT ![q[t]] = @ + 1]
        \/ pc'[t] = "orphan" /\ ref' = ref
    BY <1>0, <1>2 DEF GrabOwner, TypeOK
  <2>d. ~Dispatching(t) /\ ~Launching(t) /\ ~Using(t) /\ ~Launching(t)' /\ ~Using(t)'
    BY <2>a, <2>b, <2>c DEF Dispatching, Launching, Using, Sub
  <2>e. Dispatching(t)' <=> pc'[t] = "loop"
    BY <1>0, <2>a, <2>b, <2>c, Parameters DEF Dispatching, Sub
  <2>f. ref \in [Service -> Nat]
    BY DEF TypeOK
  <2>2. Balanced(t)
    BY <1>0, <2>a, <2>b, <2>c, <2>d, <2>e, <2>f, ShareIs DEF Balanced, One
  <2> QED BY <2>1, <2>2
<1>3. ASSUME Take(t) PROVE Others(t) /\ Balanced(t)
  <2>1. Others(t)
    BY <1>3 DEF Take, Others, TypeOK
  <2>2. Balanced(t)
    BY <1>0, <1>3 DEF Take, Balanced, Share, One, Dispatching, Launching, TypeOK, Shape, Hands, Point, Sub
  <2> QED BY <2>1, <2>2
<1>4. ASSUME Empty(t) PROVE Others(t) /\ Balanced(t)
  <2>1. Others(t)
    BY <1>4 DEF Empty, Others, TypeOK
  <2>a. pc[t] = "loop" /\ new[t] = None /\ q[t] \in Service
    BY <1>0, <1>4 DEF Empty, Shape, Hands, Point, Sub
  <2>b. /\ pc'[t] = "release" /\ tgt'[t] = q[t] /\ ret'[t] = "top"
        /\ new' = new /\ q'[t] = None /\ ref' = ref /\ dir' = dir
    BY <1>0, <1>4 DEF Empty, TypeOK
  <2>c. Dispatching(t) /\ ~Launching(t) /\ ~Using(t)
    BY <2>a, Parameters DEF Dispatching, Launching, Using, Sub
  <2>d. ~Dispatching(t)' /\ ~Launching(t)' /\ Using(t)'
    BY <2>a, <2>b, Parameters DEF Dispatching, Launching, Using, Sub
  <2>f. ref \in [Service -> Nat]
    BY DEF TypeOK
  <2>2. Balanced(t)
    BY <1>0, <2>a, <2>b, <2>c, <2>d, <2>f, ShareIs DEF Balanced, One
  <2> QED BY <2>1, <2>2
<1>5. ASSUME Return(t) PROVE Others(t) /\ Balanced(t)
  <2>1. Others(t)
    BY <1>5 DEF Return, Others, TypeOK
  <2>2. Balanced(t)
    BY <1>0, <1>5 DEF Return, Balanced, Share, One, Dispatching, Launching, TypeOK, Shape, Hands, Point, Sub
  <2> QED BY <2>1, <2>2
<1>6. ASSUME NextQueue(t) PROVE Others(t) /\ Balanced(t)
  <2>1. Others(t)
    BY <1>6 DEF NextQueue, Others, TypeOK
  <2>a. pc[t] = "round" /\ new[t] = None /\ q[t] \in Service
    BY <1>0, <1>6 DEF NextQueue, Shape, Hands, Point, Sub
  <2>b. /\ pc'[t] \in {"release", "giveback"} /\ tgt'[t] = q[t] /\ ret'[t] = "top"
        /\ new' = new /\ ref' = ref /\ dir' = dir
    BY <1>0, <1>6 DEF NextQueue, TypeOK
  <2>c. Dispatching(t) /\ ~Launching(t) /\ ~Using(t)
    BY <2>a, Parameters DEF Dispatching, Launching, Using, Sub
  <2>d. ~Dispatching(t)' /\ ~Launching(t)' /\ Using(t)'
    BY <2>a, <2>b, Parameters DEF Dispatching, Launching, Using, Sub
  <2>f. ref \in [Service -> Nat]
    BY DEF TypeOK
  <2>2. Balanced(t)
    BY <1>0, <2>a, <2>b, <2>c, <2>d, <2>f, ShareIs DEF Balanced, One
  <2> QED BY <2>1, <2>2
<1>7. ASSUME GiveBack(t) PROVE Others(t) /\ Balanced(t)
  <2>1. Others(t)
    BY <1>7 DEF GiveBack, Others, TypeOK
  <2>2. Balanced(t)
    BY <1>0, <1>7 DEF GiveBack, Balanced, Share, One, Dispatching, Launching, TypeOK, Shape, Hands, Point, Sub
  <2> QED BY <2>1, <2>2
<1>8. ASSUME Requeue(t) PROVE Others(t) /\ Balanced(t)
  <2>1. Others(t)
    BY <1>8 DEF Requeue, Others, TypeOK
  <2>2. Balanced(t)
    BY <1>0, <1>8 DEF Requeue, Balanced, Share, One, Dispatching, Launching, TypeOK, Shape, Hands, Point, Sub
  <2> QED BY <2>1, <2>2
<1>9. ASSUME Drop(t) PROVE Others(t) /\ Balanced(t)
  <2>1. Others(t)
    BY <1>9 DEF Drop, Others, TypeOK
  <2>2. Balanced(t)
    BY SMTT(30), <1>0, <1>9 DEF Drop, Balanced, Share, One, Dispatching, Launching, TypeOK, Shape, Hands, Point, Sub
  <2> QED BY <2>1, <2>2
<1>10. ASSUME FreeQueue(t) PROVE Others(t) /\ Balanced(t)
  <2>1. Others(t)
    BY <1>10 DEF FreeQueue, Others, TypeOK
  <2>2. Balanced(t)
    BY <1>0, <1>10 DEF FreeQueue, Balanced, Share, One, Dispatching, Launching, TypeOK, Shape, Hands, Point, Sub
  <2> QED BY <2>1, <2>2
<1>11. ASSUME Publish(t) PROVE Others(t) /\ Balanced(t)
  <2>1. Others(t)
    BY <1>11 DEF Publish, Others, TypeOK
  <2>2. Balanced(t)
    BY <1>0, <1>11 DEF Publish, Balanced, Share, One, Dispatching, Launching, TypeOK, Shape, Hands, Point, Sub
  <2> QED BY <2>1, <2>2
<1>12. ASSUME Failed(t) PROVE Others(t) /\ Balanced(t)
  <2>1. Others(t)
    BY <1>12 DEF Failed, Others, TypeOK
  <2>2. Balanced(t)
    BY <1>0, <1>12 DEF Failed, Balanced, Share, One, Dispatching, Launching, TypeOK, Shape, Hands, Point, Sub
  <2> QED BY <2>1, <2>2
<1>13. ASSUME Count(t) PROVE Others(t) /\ Balanced(t)
  <2>1. Others(t)
    BY <1>13 DEF Count, Others, TypeOK
  <2>2. Balanced(t)
    BY <1>0, <1>13 DEF Count, Balanced, Share, One, Dispatching, Launching, TypeOK, Shape, Hands, Point, Sub
  <2> QED BY <2>1, <2>2
<1>14. ASSUME Wait(t) PROVE Others(t) /\ Balanced(t)
  <2>1. Others(t)
    BY <1>14 DEF Wait, Others, TypeOK
  <2>2. Balanced(t)
    BY <1>0, <1>14 DEF Wait, Balanced, Share, One, Dispatching, Launching, TypeOK, Shape, Hands, Point, Sub
  <2> QED BY <2>1, <2>2
<1>15. ASSUME Resume(t) PROVE Others(t) /\ Balanced(t)
  <2>1. Others(t)
    BY <1>15 DEF Resume, Others, TypeOK
  <2>2. Balanced(t)
    BY <1>0, <1>15 DEF Resume, Balanced, Share, One, Dispatching, Launching, TypeOK, Shape, Hands, Point, Sub
  <2> QED BY <2>1, <2>2
<1>16. ASSUME Stop(t) PROVE Others(t) /\ Balanced(t)
  <2>1. Others(t)
    BY <1>16 DEF Stop, Others, TypeOK
  <2>2. Balanced(t)
    BY <1>0, <1>16 DEF Stop, Balanced, Share, One, Dispatching, Launching, TypeOK, Shape, Hands, Point, Sub
  <2> QED BY <2>1, <2>2
<1>17. ASSUME NEW ok \in BOOLEAN, Launched(t, ok) PROVE Others(t) /\ Balanced(t)
  <2>1. Others(t)
    BY <1>17 DEF Launched, Others, TypeOK
  <2>a. pc[t] = "init" /\ new[t] \in Service /\ q[t] # None
    BY <1>0, <1>17 DEF Launched, Shape, Hands, Point, Sub
  <2>b. /\ pc'[t] = "release" /\ tgt'[t] = new[t] /\ ret'[t] \in {"publish", "failed"}
        /\ new' = new /\ q' = q /\ ref' = ref /\ dir' = dir
    BY <1>0, <1>17 DEF Launched, TypeOK
  <2>c. Dispatching(t) /\ Launching(t) /\ ~Using(t)
    BY <2>a, Parameters DEF Dispatching, Launching, Using, Sub
  <2>d. Dispatching(t)' /\ ~Launching(t)' /\ Using(t)'
    BY <2>a, <2>b, Parameters DEF Dispatching, Launching, Using, Sub
  <2>f. ref \in [Service -> Nat]
    BY DEF TypeOK
  <2>2. Balanced(t)
    BY <1>0, <2>a, <2>b, <2>c, <2>d, <2>f, ShareIs DEF Balanced, One
  <2> QED BY <2>1, <2>2
<1> QED
  BY <1>1, <1>2, <1>3, <1>4, <1>5, <1>6, <1>7, <1>8, <1>9, <1>10, <1>11, <1>12, <1>13, <1>14, <1>15, <1>16, <1>17 DEF WorkerStep

LEMMA ServiceBalanced ==
  ASSUME TypeOK, Shape, NEW t \in Thread, NEW s \in Service,
         Send(t, s) \/ (t \in Worker /\ (Wakeup(t) \/ Kill(t, s)))
  PROVE  Others(t) /\ Balanced(t)
<1> USE DEF contexts, mailboxes, frame, history, Goto, Call, Dispatchers, Launchers, Users
<1>0. (q[t] # None => q[t] \in Service) /\ None \notin Service
  BY Parameters DEF TypeOK, Thread
<1>1. ASSUME Send(t, s) PROVE Others(t) /\ Balanced(t)
  <2>1. Others(t)
    BY <1>1 DEF Send, Others, TypeOK
  <2>2. Balanced(t)
    BY <1>0, <1>1 DEF Send, Balanced, Share, One, Dispatching, Launching, TypeOK, Shape, Hands, Point, Sub, Running
  <2> QED BY <2>1, <2>2
<1>2. ASSUME Wakeup(t) PROVE Others(t) /\ Balanced(t)
  <2>1. Others(t)
    BY <1>2 DEF Wakeup, Others, TypeOK
  <2>2. Balanced(t)
    BY <1>0, <1>2 DEF Wakeup, Balanced, Share, One, Dispatching, Launching, TypeOK, Shape, Hands, Point, Sub
  <2> QED BY <2>1, <2>2
<1>3. ASSUME Kill(t, s) PROVE Others(t) /\ Balanced(t)
  <2>1. Others(t)
    BY <1>3 DEF Kill, Others, TypeOK
  <2>2. Balanced(t)
    BY <1>0, <1>3 DEF Kill, Balanced, Share, One, Dispatching, Launching, TypeOK, Shape, Hands, Point, Sub
  <2> QED BY <2>1, <2>2
<1> QED
  BY <1>1, <1>2, <1>3

-----------------------------------------------------------------------------
(* The counts are exact, and one thread deletes a context.                 *)
Counted == \A s \in Service :
  /\ ref[s] = Refs(s) + One(s \in dir)
  /\ ref[s] > 0 => ctx[s] \in {"init", "ready"}
  /\ release[s] <=> ctx[s] = "freed"

Dying == \A t \in Thread : pc[t] = "delete" =>
  /\ ref[tgt[t]] = 0 /\ ctx[tgt[t]] \in {"init", "ready"}
  /\ \A u \in Thread : pc[u] = "delete" /\ tgt[u] = tgt[t] => u = t

RefsInv == TypeOK /\ Shape /\ Counted /\ Dying

LEMMA ShareCounted ==
  ASSUME NEW t \in Thread, NEW s
  PROVE  Refs(s) \in Nat /\ Share(t, s) \in Nat /\ (Share(t, s) > 0 => Refs(s) > 0)
<1>1. IsFiniteSet(Thread)
  BY Parameters, FS_Union DEF Thread
<1>2. /\ IsFiniteSet(Dispatchers(s)) /\ IsFiniteSet(Launchers(s)) /\ IsFiniteSet(Users(s))
  BY <1>1, FS_Subset DEF Dispatchers, Launchers, Users
<1> DEFINE D == Dispatchers(s) L == Launchers(s) U == Users(s)
<1>3. Cardinality(D) \in Nat /\ (t \in D => Cardinality(D) > 0)
  BY <1>2, OneMoved
<1>4. Cardinality(L) \in Nat /\ (t \in L => Cardinality(L) > 0)
  BY <1>2, OneMoved
<1>5. Cardinality(U) \in Nat /\ (t \in U => Cardinality(U) > 0)
  BY <1>2, OneMoved
<1> HIDE DEF D, L, U
<1>6. /\ Refs(s) = Cardinality(D) + Cardinality(L) + Cardinality(U)
      /\ Share(t, s) = One(t \in D) + One(t \in L) + One(t \in U)
  BY DEF D, L, U, Refs, Share
<1> QED
  BY <1>3, <1>4, <1>5, <1>6 DEF One

LEMMA CountKept ==
  ASSUME TypeOK, TypeOK', Counted, NEW t \in Thread, Others(t), Balanced(t), NEW s \in Service
  PROVE  ref'[s] = Refs(s)' + One(s \in dir')
<1>1. /\ Refs(s) \in Nat /\ Refs(s)' \in Nat
      /\ Refs(s)' = Refs(s) - Share(t, s) + Share(t, s)'
  BY RefsMove
<1>2. Share(t, s) \in Nat /\ Share(t, s)' \in Nat
  BY ShareIs DEF One
<1>3. One(s \in dir) \in Nat /\ One(s \in dir') \in Nat
  BY DEF One
<1>4. ref[s] = Refs(s) + One(s \in dir) /\ ref[s] \in Nat /\ ref'[s] \in Nat
  BY DEF Counted, TypeOK
<1>5. ref'[s] + Share(t, s) + One(s \in dir) = ref[s] + Share(t, s)' + One(s \in dir')
  BY DEF Balanced
<1> QED
  BY <1>1, <1>2, <1>3, <1>4, <1>5

(* A thread gives up only what it has.                                     *)
LEMMA ReleaseCounted ==
  ASSUME TypeOK, Shape, Counted, NEW t \in Thread, pc[t] \in {"push", "release", "giveback"}
  PROVE  ref[tgt[t]] > 0 /\ tgt[t] \in Service
<1>1. tgt[t] \in Service
  BY DEF TypeOK, Shape, Hands, Sub
<1>2. Share(t, tgt[t]) > 0
  <2>1. Using(t)
    BY DEF Using
  <2> QED BY <2>1, ShareIs DEF One
<1>3. Refs(tgt[t]) \in Nat /\ Refs(tgt[t]) > 0
  BY <1>2, ShareCounted
<1>4. ref[tgt[t]] = Refs(tgt[t]) + One(tgt[t] \in dir)
  BY <1>1 DEF Counted
<1> QED
  BY <1>1, <1>3, <1>4 DEF One

(* So does one that runs a service: the context is alive.                  *)
LEMMA DispatchCounted ==
  ASSUME TypeOK, Counted, NEW t \in Thread, Dispatching(t)
  PROVE  ref[q[t]] > 0 /\ q[t] \in Service
<1>1. q[t] \in Service
  BY DEF TypeOK, Dispatching
<1>2. Share(t, q[t]) > 0
  BY ShareIs DEF One
<1>3. Refs(q[t]) \in Nat /\ Refs(q[t]) > 0
  BY <1>2, ShareCounted
<1>4. ref[q[t]] = Refs(q[t]) + One(q[t] \in dir)
  BY <1>1 DEF Counted
<1> QED
  BY <1>1, <1>3, <1>4 DEF One

LEMMA LaunchBalanced ==
  ASSUME TypeOK, Shape, Counted, NEW t \in Worker, NEW s \in Service, Launch(t, s)
  PROVE  Others(t) /\ Balanced(t)
<1> USE DEF contexts, mailboxes, frame, history, Goto
<1>0. t \in Thread /\ q[t] # None /\ pc[t] = "callback" /\ new[t] = None /\ None \notin Service
  BY Parameters DEF Launch, Thread, Shape, Hands, Point, Sub
<1>1. Others(t)
  BY DEF Launch, Others, TypeOK
<1>2. ref[s] \in Nat /\ ~(ref[s] > 0)
  BY DEF Launch, Counted, TypeOK
<1>3. ref[s] = 0 /\ s \notin dir /\ q[t] # s
  <2>1. Dispatching(t)
    BY <1>0 DEF Dispatching
  <2> QED BY <1>0, <1>2, <2>1, DispatchCounted, ShareCounted DEF Counted, One
<1>4. Dispatching(t) /\ ~Launching(t) /\ ~Using(t)
  BY <1>0 DEF Dispatching, Launching, Using, Sub
<1>5. /\ pc'[t] = "init" /\ new'[t] = s /\ q' = q /\ tgt' = tgt
      /\ ref' = [ref EXCEPT ![s] = 2] /\ dir' = dir \cup {s}
  BY <1>0 DEF Launch, TypeOK
<1>6. Dispatching(t)' /\ Launching(t)' /\ ~Using(t)'
  BY <1>0, <1>5 DEF Dispatching, Launching, Using, Sub
<1>7. ref \in [Service -> Nat]
  BY DEF TypeOK
<1>8. Balanced(t)
  BY <1>0, <1>3, <1>4, <1>5, <1>6, <1>7, ShareIs DEF Balanced, One
<1> QED
  BY <1>1, <1>8

(* Steps that change no count, no context and delete nothing.              *)
Quiet(t) == UNCHANGED <<ctx, ref, release>> /\ pc'[t] # "delete"

LEMMA QuietKeeps ==
  ASSUME RefsInv, NEW t \in Thread, Others(t), Balanced(t), TypeOK', Shape', Quiet(t)
  PROVE  RefsInv'
<1>1. Counted'
  BY CountKept DEF RefsInv, Counted, Quiet
<1>2. Dying'
  BY DEF RefsInv, Dying, Others, Quiet
<1> QED
  BY <1>1, <1>2 DEF RefsInv

(* A context that the directory knows is grabbed.                          *)
LEMMA GrabKeeps ==
  ASSUME RefsInv, NEW t \in Thread, Others(t), Balanced(t), TypeOK', Shape',
         NEW s \in dir, ref' = [ref EXCEPT ![s] = @ + 1], UNCHANGED <<ctx, release>>, pc'[t] # "delete"
  PROVE  RefsInv'
<1>1. s \in Service /\ ref[s] > 0 /\ ref \in [Service -> Nat]
  BY ShareCounted DEF RefsInv, TypeOK, Counted, One
<1>2. Counted'
  BY <1>1, CountKept DEF RefsInv, Counted
<1>3. Dying'
  BY <1>1 DEF RefsInv, Dying, Others
<1> QED
  BY <1>2, <1>3 DEF RefsInv

LEMMA SubRefs ==
  ASSUME RefsInv, NEW t \in Thread, Subroutine(t)
  PROVE  RefsInv'
<1> USE DEF contexts, mailboxes, frame, history, Goto
<1>0. /\ TypeOK /\ Shape /\ Hands(t)
      /\ pc[t] \in Sub => tgt[t] \in Service
      /\ pc[t] = "release" => ref[tgt[t]] > 0
  BY ReleaseCounted DEF RefsInv, TypeOK, Shape, Hands
<1>1. TypeOK' /\ Shape' /\ Others(t) /\ Balanced(t)
  BY <1>0, SubShape, SubBalanced
<1>2. CASE SendGrab(t)
  <2>1. pc'[t] # "delete"
    BY <1>0, <1>2 DEF SendGrab, TypeOK, Hands, Point, Sub
  <2>2. CASE tgt[t] \in dir /\ ref' = [ref EXCEPT ![tgt[t]] = @ + 1]
    BY <1>1, <1>2, <2>1, <2>2, GrabKeeps DEF SendGrab
  <2>3. CASE ref' = ref
    BY <1>1, <1>2, <2>1, <2>3, QuietKeeps DEF SendGrab, Quiet
  <2> QED BY <1>2, <2>2, <2>3 DEF SendGrab
<1>3. CASE Push(t)
  <2>1. Quiet(t)
    BY <1>0, <1>3 DEF Push, TypeOK, Quiet
  <2> QED BY <1>1, <2>1, QuietKeeps
<1>4. CASE Release(t)
  <2> DEFINE s == tgt[t]
  <2>1. /\ s \in Service /\ ref[s] > 0 /\ pc[t] = "release" /\ ref \in [Service -> Nat]
        /\ ref' = [ref EXCEPT ![s] = @ - 1] /\ UNCHANGED <<ctx, release, tgt>>
    BY <1>0, <1>4 DEF Release, Sub, TypeOK
  <2>2. pc'[t] = "delete" <=> ref[s] = 1
    BY <1>0, <1>4 DEF Release, TypeOK, Hands, Point, Sub
  <2>3. Counted'
    BY <1>0, <1>1, <2>1, CountKept DEF RefsInv, Counted
  <2>4. \A u \in Thread \ {t} : pc[u] = "delete" => tgt[u] # s /\ tgt[u] \in Service
    BY <1>0, <2>1 DEF RefsInv, Dying, Shape, Hands, TypeOK, Sub
  <2>5. Dying'
    BY <1>1, <2>1, <2>2, <2>4 DEF RefsInv, Dying, Others, Counted
  <2> QED BY <1>1, <2>3, <2>5 DEF RefsInv
<1>5. CASE Delete(t)
  <2> DEFINE s == tgt[t]
  <2>1. /\ s \in Service /\ ref[s] = 0 /\ pc[t] = "delete" /\ pc'[t] # "delete"
        /\ ctx' = [ctx EXCEPT ![s] = "freed"] /\ release' = [release EXCEPT ![s] = TRUE]
        /\ UNCHANGED <<ref, tgt>>
        /\ ctx \in [Service -> {"unborn", "init", "ready", "freed"}] /\ release \in [Service -> BOOLEAN]
    BY <1>0, <1>5 DEF Delete, Sub, TypeOK, RefsInv, Dying, Hands, Point
  <2>2. Counted'
    BY <1>0, <1>1, <2>1, CountKept DEF RefsInv, Counted
  <2>3. \A u \in Thread \ {t} : pc[u] = "delete" => tgt[u] # s /\ tgt[u] \in Service
    BY <1>0, <2>1 DEF RefsInv, Dying, Shape, Hands, TypeOK, Sub
  <2>4. Dying'
    BY <1>1, <2>1, <2>3 DEF RefsInv, Dying, Others
  <2> QED BY <1>1, <2>2, <2>4 DEF RefsInv
<1> QED
  BY <1>2, <1>3, <1>4, <1>5 DEF Subroutine

LEMMA WorkerRefs ==
  ASSUME RefsInv, NEW t \in Worker, WorkerStep(t)
  PROVE  RefsInv'
<1> USE DEF contexts, mailboxes, frame, history, Goto, Call, LetGo
<1>0. /\ TypeOK /\ Shape /\ t \in Thread
      /\ TypeOK' /\ Shape' /\ Others(t) /\ Balanced(t)
  BY WorkerShape, WorkerBalanced DEF RefsInv, Thread
<1>1. CASE PopGlobal(t)
  <2>1. Quiet(t)
    BY <1>0, <1>1 DEF PopGlobal, TypeOK, Quiet
  <2> QED BY <1>0, <2>1, QuietKeeps
<1>2. CASE Take(t)
  <2>1. Quiet(t)
    BY <1>0, <1>2 DEF Take, TypeOK, Quiet
  <2> QED BY <1>0, <2>1, QuietKeeps
<1>3. CASE Empty(t)
  <2>1. Quiet(t)
    BY <1>0, <1>3 DEF Empty, TypeOK, Quiet
  <2> QED BY <1>0, <2>1, QuietKeeps
<1>4. CASE Return(t)
  <2>1. Quiet(t)
    BY <1>0, <1>4 DEF Return, TypeOK, Quiet
  <2> QED BY <1>0, <2>1, QuietKeeps
<1>5. CASE NextQueue(t)
  <2>1. Quiet(t)
    BY <1>0, <1>5 DEF NextQueue, TypeOK, Quiet
  <2> QED BY <1>0, <2>1, QuietKeeps
<1>6. CASE GiveBack(t)
  <2>1. Quiet(t)
    BY <1>0, <1>6 DEF GiveBack, TypeOK, Quiet
  <2> QED BY <1>0, <2>1, QuietKeeps
<1>7. CASE Requeue(t)
  <2>1. Quiet(t)
    BY <1>0, <1>7 DEF Requeue, TypeOK, Quiet
  <2> QED BY <1>0, <2>1, QuietKeeps
<1>8. CASE Drop(t)
  <2>1. Quiet(t)
    BY <1>0, <1>8 DEF Drop, TypeOK, Quiet
  <2> QED BY <1>0, <2>1, QuietKeeps
<1>9. CASE FreeQueue(t)
  <2>1. Quiet(t)
    BY <1>0, <1>9 DEF FreeQueue, TypeOK, Quiet
  <2> QED BY <1>0, <2>1, QuietKeeps
<1>10. CASE Failed(t)
  <2>1. Quiet(t)
    BY <1>0, <1>10 DEF Failed, TypeOK, Quiet
  <2> QED BY <1>0, <2>1, QuietKeeps
<1>11. CASE Count(t)
  <2>1. Quiet(t)
    BY <1>0, <1>11 DEF Count, TypeOK, Quiet
  <2> QED BY <1>0, <2>1, QuietKeeps
<1>12. CASE Wait(t)
  <2>1. Quiet(t)
    BY <1>0, <1>12 DEF Wait, TypeOK, Quiet
  <2> QED BY <1>0, <2>1, QuietKeeps
<1>13. CASE Resume(t)
  <2>1. Quiet(t)
    BY <1>0, <1>13 DEF Resume, TypeOK, Quiet
  <2> QED BY <1>0, <2>1, QuietKeeps
<1>14. CASE Stop(t)
  <2>1. Quiet(t)
    BY <1>0, <1>14 DEF Stop, TypeOK, Quiet
  <2> QED BY <1>0, <2>1, QuietKeeps
<1>20. ASSUME NEW ok \in BOOLEAN, Launched(t, ok) PROVE RefsInv'
  <2>1. Quiet(t)
    BY <1>0, <1>20 DEF Launched, TypeOK, Quiet
  <2> QED BY <1>0, <2>1, QuietKeeps
<1>21. CASE GrabOwner(t)
  <2>1. pc'[t] # "delete"
    BY <1>0, <1>21 DEF GrabOwner, TypeOK
  <2>2. CASE q[t] \in dir /\ ref' = [ref EXCEPT ![q[t]] = @ + 1]
    BY <1>0, <1>21, <2>1, <2>2, GrabKeeps DEF GrabOwner
  <2>3. CASE ref' = ref
    BY <1>0, <1>21, <2>1, <2>3, QuietKeeps DEF GrabOwner, Quiet
  <2> QED BY <1>21, <2>2, <2>3 DEF GrabOwner
<1>22. CASE Publish(t)
  <2>1. new[t] \in Service
    BY <1>0, <1>22 DEF Publish, Shape, Hands, Point, Sub, TypeOK
  <2>2. /\ UNCHANGED <<ref, release>> /\ pc'[t] # "delete" /\ ctx \in [Service -> {"unborn", "init", "ready", "freed"}]
        /\ ctx' = [ctx EXCEPT ![new[t]] = IF @ = "init" THEN "ready" ELSE @]
    BY <1>0, <1>22 DEF Publish, TypeOK
  <2>3. \A s \in Service : /\ ctx'[s] \in {"init", "ready"} <=> ctx[s] \in {"init", "ready"}
                           /\ ctx'[s] = "freed" <=> ctx[s] = "freed"
    BY <2>1, <2>2
  <2>4. Counted'
    BY <1>0, <2>2, <2>3, CountKept DEF RefsInv, Counted
  <2>5. \A u \in Thread : pc[u] = "delete" => tgt[u] \in Service
    BY <1>0 DEF Shape, Hands, TypeOK, Sub
  <2>6. Dying'
    BY <1>0, <2>2, <2>3, <2>5 DEF RefsInv, Dying, Others
  <2> QED BY <1>0, <2>4, <2>6 DEF RefsInv
<1> QED
  BY <1>1, <1>2, <1>3, <1>4, <1>5, <1>6, <1>7, <1>8, <1>9, <1>10, <1>11, <1>12, <1>13, <1>14, <1>20, <1>21, <1>22 DEF WorkerStep

LEMMA ServiceRefs ==
  ASSUME RefsInv, NEW t \in Thread, NEW s \in Service,
         Send(t, s) \/ (t \in Worker /\ (Wakeup(t) \/ Kill(t, s) \/ Launch(t, s)))
  PROVE  RefsInv'
<1> USE DEF contexts, mailboxes, frame, history, Goto, Call
<1>0. TypeOK /\ Shape /\ TypeOK' /\ Shape'
  BY ServiceShape DEF RefsInv
<1>1. CASE Send(t, s) \/ (t \in Worker /\ (Wakeup(t) \/ Kill(t, s)))
  <2>1. Others(t) /\ Balanced(t)
    BY <1>0, <1>1, ServiceBalanced
  <2>2. Quiet(t)
    BY <1>0, <1>1 DEF Send, Wakeup, Kill, TypeOK, Quiet
  <2> QED BY <1>0, <2>1, <2>2, QuietKeeps
<1>2. CASE t \in Worker /\ Launch(t, s)
  <2>1. Others(t) /\ Balanced(t)
    BY <1>0, <1>2, LaunchBalanced DEF RefsInv
  <2>2. /\ ctx[s] = "unborn" /\ ctx' = [ctx EXCEPT ![s] = "init"] /\ ref' = [ref EXCEPT ![s] = 2]
        /\ ctx \in [Service -> {"unborn", "init", "ready", "freed"}] /\ ref \in [Service -> Nat]
        /\ release' = release /\ pc'[t] # "delete"
    BY <1>0, <1>2 DEF Launch, TypeOK
  <2>3. Counted'
    BY <1>0, <2>1, <2>2, CountKept DEF RefsInv, Counted
  <2>4. \A u \in Thread : pc[u] = "delete" => tgt[u] \in Service
    BY <1>0 DEF Shape, Hands, TypeOK, Sub
  <2>5. Dying'
    BY <2>1, <2>2, <2>4 DEF RefsInv, Dying, Others
  <2> QED BY <1>0, <2>3, <2>5 DEF RefsInv
<1> QED
  BY <1>1, <1>2

LEMMA AbortRefs ==
  ASSUME RefsInv, Abort
  PROVE  RefsInv'
<1> USE DEF contexts, mailboxes, frame, history
<1>1. TypeOK' /\ Shape'
  BY AbortShape DEF RefsInv
<1>2. /\ UNCHANGED <<ctx, ref, dir, release, q, tgt, new, ret>>
      /\ \A t \in Thread : pc'[t] = pc[t] \/ (pc[t] = "asleep" /\ pc'[t] = "woken")
  BY DEF Abort
<1>3. \A s : Dispatchers(s)' = Dispatchers(s) /\ Launchers(s)' = Launchers(s) /\ Users(s)' = Users(s)
  BY <1>2 DEF Dispatchers, Dispatching, Launchers, Launching, Users, Sub
<1>4. \A s : Refs(s)' = Refs(s)
  BY <1>3 DEF Refs
<1>5. Counted'
  BY <1>2, <1>4 DEF RefsInv, Counted
<1>6. Dying'
  BY <1>2 DEF RefsInv, Dying
<1> QED
  BY <1>1, <1>5, <1>6 DEF RefsInv

LEMMA NextRefs ==
  ASSUME RefsInv, [Next]_vars
  PROVE  RefsInv'
<1>1. ASSUME NEW t \in Thread, Subroutine(t) \/ \E s \in Service : Send(t, s) PROVE RefsInv'
  BY <1>1, SubRefs, ServiceRefs
<1>2. ASSUME NEW t \in Worker, WorkerStep(t) PROVE RefsInv'
  BY <1>2, WorkerRefs
<1>3. ASSUME NEW t \in Worker, NEW s \in Service, Kill(t, s) \/ Launch(t, s) PROVE RefsInv'
  BY <1>3, ServiceRefs DEF Thread
<1>4. ASSUME NEW t \in Worker, Wakeup(t) PROVE RefsInv'
  BY <1>4, Parameters, ServiceRefs DEF Thread
<1>5. CASE Abort
  BY <1>5, AbortRefs
<1>6. CASE UNCHANGED vars
  <2>1. /\ UNCHANGED <<ctx, ref, dir, queue, inGlobal, release, freed, globalq, pc, q, left, msg, tgt, new, ret>>
        /\ UNCHANGED <<quit, src, sent, done>>
    BY <1>6 DEF vars, contexts, mailboxes, frame, history
  <2>2. quit' \in BOOLEAN
    BY <2>1, Zenon DEF RefsInv, TypeOK
  <2>3. TypeOK' /\ Shape'
    BY <2>1, <2>2 DEF RefsInv, TypeOK, Shape, Hands, Point
  <2>4. \A s : Refs(s)' = Refs(s)
    BY <2>1 DEF Refs, Dispatchers, Dispatching, Launchers, Launching, Users
  <2>5. Counted' /\ Dying'
    BY <2>1, <2>4 DEF RefsInv, Counted, Dying
  <2> QED BY <2>3, <2>5 DEF RefsInv
<1> QED
  BY <1>1, <1>2, <1>3, <1>4, <1>5, <1>6 DEF Next

LEMMA InitRefs == Init => RefsInv
<1> SUFFICES ASSUME Init PROVE RefsInv
  OBVIOUS
<1>1. TypeOK /\ Shape
  BY InitShape
<1>2. \A t \in Thread : pc[t] \in {"top", "out"} /\ q[t] = None /\ new[t] = None
  BY DEF Init
<1>3. \A s : Dispatchers(s) = {} /\ Launchers(s) = {} /\ Users(s) = {}
  BY <1>2 DEF Dispatchers, Dispatching, Launchers, Launching, Users
<1>4. \A s : Refs(s) = 0
  BY <1>3, FS_EmptySet DEF Refs
<1>5. Counted
  BY <1>4, Parameters DEF Init, Counted, One
<1>6. Dying
  BY <1>2 DEF Dying
<1> QED
  BY <1>1, <1>5, <1>6 DEF RefsInv

LEMMA RefsInductive == Spec => []RefsInv
  BY InitRefs, NextRefs, PTL DEF Spec

(* skynet_context_release: a context is freed exactly when the directory,  *)
(* the callbacks, the launches and the sends under way are through with    *)
(* it, for any number of threads that send, kill and launch at any time.   *)
THEOREM CountsExact == Spec => []RefsExact
<1>1. RefsInv => RefsExact
  BY DEF RefsInv, Counted, Refs, RefsExact, One
<1> QED
  BY <1>1, RefsInductive, PTL

-----------------------------------------------------------------------------
(* Where mailboxes are.                                                    *)
Elems(Q) == {Q[i] : i \in 1 .. Len(Q)}
Distinct(Q) == \A i, j \in 1 .. Len(Q) : Q[i] = Q[j] => i = j

Held(t) == {s \in Service : Holds(t, s)}
Played == Elems(globalq) \cup UNION {Held(t) : t \in Thread}

Apart(t) ==
  /\ Held(t) \cap (Elems(globalq) \cup freed) = {}
  /\ \A u \in Thread \ {t} : Held(t) \cap Held(u) = {}
  /\ q[t] # None => q[t] # new[t]
  /\ pc[t] = "giveback" => tgt[t] # q[t]

Placed ==
  /\ Distinct(globalq)
  /\ Elems(globalq) \cap freed = {}
  /\ \A t \in Thread : Apart(t)

(* What in_global, release and the context say about it.                   *)
Marked == \A s \in Service :
  /\ inGlobal[s] => s \in Played
  /\ s \in Played /\ ~release[s] => inGlobal[s]
  /\ s \in Played => ctx[s] # "unborn"
  /\ s \in freed => release[s]
  /\ (queue[s] # <<>> \/ release[s]) /\ s \notin freed => s \in Played

MailInv == Placed /\ Marked

LEMMA AppendElems ==
  ASSUME NEW Q \in Seq(Service), NEW s \in Service
  PROVE  /\ Elems(Append(Q, s)) = Elems(Q) \cup {s}
         /\ Distinct(Q) /\ s \notin Elems(Q) => Distinct(Append(Q, s))
<1>1. /\ Len(Append(Q, s)) = Len(Q) + 1 /\ Len(Q) \in Nat
      /\ \A i \in 1 .. Len(Q) : Append(Q, s)[i] = Q[i]
      /\ Append(Q, s)[Len(Q) + 1] = s
  OBVIOUS
<1>2. 1 .. Len(Q) + 1 = (1 .. Len(Q)) \cup {Len(Q) + 1}
  BY <1>1
<1>3. Elems(Append(Q, s)) = Elems(Q) \cup {s}
  BY <1>1, <1>2 DEF Elems
<1>4. ASSUME Distinct(Q), s \notin Elems(Q) PROVE Distinct(Append(Q, s))
  BY <1>1, <1>2, <1>4 DEF Elems, Distinct
<1> QED
  BY <1>3, <1>4

LEMMA TailElems ==
  ASSUME NEW Q \in Seq(Service), Q # <<>>, Distinct(Q)
  PROVE  /\ Head(Q) \in Elems(Q) /\ Head(Q) \in Service
         /\ Elems(Tail(Q)) = Elems(Q) \ {Head(Q)}
         /\ Distinct(Tail(Q))
<1>1. /\ Len(Tail(Q)) = Len(Q) - 1 /\ Len(Q) \in Nat /\ Len(Q) > 0
      /\ \A i \in 1 .. Len(Tail(Q)) : Tail(Q)[i] = Q[i + 1]
      /\ Head(Q) = Q[1] /\ Q[1] \in Service
  OBVIOUS
<1>2. Elems(Tail(Q)) \subseteq Elems(Q) \ {Head(Q)}
  BY <1>1 DEF Elems, Distinct
<1>3. ASSUME NEW x \in Elems(Q), x # Head(Q) PROVE x \in Elems(Tail(Q))
  <2>1. PICK i \in 1 .. Len(Q) : x = Q[i]
    BY DEF Elems
  <2>2. i # 1 /\ i - 1 \in 1 .. Len(Tail(Q)) /\ (i - 1) + 1 = i
    BY <1>1, <1>3, <2>1
  <2> QED BY <1>1, <2>1, <2>2 DEF Elems
<1>4. Distinct(Tail(Q))
  BY <1>1 DEF Distinct
<1>5. Head(Q) \in Elems(Q)
  BY <1>1 DEF Elems
<1> QED
  BY <1>1, <1>2, <1>3, <1>4, <1>5

(* Thread t moves mailboxes between its hands and the global queue, and    *)
(* those in N come in.                                                     *)
LEMMA Moves ==
  ASSUME Placed, NEW t \in Thread, Others(t), NEW N \in SUBSET Service, N \cap Played = {},
         Distinct(globalq)',
         Elems(globalq)' \cup Held(t)' \subseteq Elems(globalq) \cup Held(t) \cup N,
         Elems(globalq)' \cap Held(t)' = {},
         freed' \cap (Elems(globalq)' \cup Held(t)') = {},
         freed' \subseteq freed \cup Held(t),
         q'[t] # None => q'[t] # new'[t],
         pc'[t] = "giveback" => tgt'[t] # q'[t]
  PROVE  /\ Placed'
         /\ Played' = (Played \ (Elems(globalq) \cup Held(t))) \cup Elems(globalq)' \cup Held(t)'
<1> DEFINE G == Elems(globalq) H == Held(t)
<1>1. \A u \in Thread \ {t} : Held(u)' = Held(u)
  BY DEF Others, Held, Holds
<1>2. \A u \in Thread \ {t} : Held(u) \cap (G \cup H \cup N \cup freed) = {}
  BY DEF Placed, Apart, Played
<1>3. \A u \in Thread \ {t} : Held(u)' \cap (G' \cup H' \cup freed') = {}
  BY <1>1, <1>2
<1>4. \A u \in Thread : /\ Held(u)' \cap (G' \cup freed') = {}
                        /\ \A v \in Thread \ {u} : Held(u)' \cap Held(v)' = {}
  <2>1. \A u, v \in Thread \ {t} : u # v => Held(u)' \cap Held(v)' = {}
    BY <1>1 DEF Placed, Apart
  <2> QED BY <1>3, <2>1
<1>5. \A u \in Thread : /\ q'[u] # None => q'[u] # new'[u]
                        /\ pc'[u] = "giveback" => tgt'[u] # q'[u]
  BY DEF Placed, Apart, Others
<1>6. Placed'
  <2>1. Distinct(globalq)' /\ Elems(globalq)' \cap freed' = {}
    OBVIOUS
  <2>2. \A u \in Thread : Held(u)' \cap (Elems(globalq)' \cup freed') = {}
    BY <1>4
  <2>3. \A u \in Thread : Apart(u)'
    BY <1>4, <1>5, <2>2 DEF Apart
  <2> QED BY <2>1, <2>3, Zenon DEF Placed
<1>7. Played = G \cup H \cup UNION {Held(u) : u \in Thread \ {t}}
  BY DEF Played
<1>8. Played' = G' \cup H' \cup UNION {Held(u) : u \in Thread \ {t}}
  BY <1>1 DEF Played
<1> DEFINE R == UNION {Held(u) : u \in Thread \ {t}}
<1>9. R \cap (G \cup H) = {}
  BY <1>2
<1> HIDE DEF G, H, R
<1>10. Played' = (Played \ (G \cup H)) \cup G' \cup H'
  BY <1>7, <1>8, <1>9 DEF R
<1> QED
  BY <1>6, <1>10 DEF G, H

(* Thread t moves mailboxes that are in play.                              *)
LEMMA Stays ==
  ASSUME MailInv, NEW t \in Thread, Others(t), Distinct(globalq)',
         Elems(globalq)' \cup Held(t)' = Elems(globalq) \cup Held(t),
         Elems(globalq)' \cap Held(t)' = {},
         freed' = freed, inGlobal' = inGlobal,
         q'[t] # None => q'[t] # new'[t],
         pc'[t] = "giveback" => tgt'[t] # q'[t],
         \A s \in Service : /\ ctx'[s] = "unborn" => ctx[s] = "unborn"
                            /\ release[s] => release'[s]
                            /\ release'[s] /\ ~release[s] => s \in Played
                            /\ queue'[s] # <<>> => queue[s] # <<>> \/ s \in Played
  PROVE  MailInv'
<1> DEFINE G == Elems(globalq) H == Held(t)
<1>1. freed \cap (G \cup H) = {}
  BY DEF MailInv, Placed, Apart
<1>2. freed' \cap (G' \cup H') = {}
  BY <1>1
<1>3. Placed' /\ Played' = (Played \ (G \cup H)) \cup G' \cup H'
  BY <1>2, Moves DEF MailInv
<1>4. G \cup H \subseteq Played
  BY DEF Played
<1>5. Played' = Played
  BY <1>3, <1>4
<1>6. Marked'
  BY <1>5 DEF MailInv, Marked
<1> QED
  BY <1>3, <1>6 DEF MailInv

(* Mailbox s comes into play.                                              *)
LEMMA Enters ==
  ASSUME MailInv, NEW t \in Thread, Others(t), NEW s \in Service, s \notin Played \cup freed,
         Distinct(globalq)',
         Elems(globalq)' \cup Held(t)' = Elems(globalq) \cup Held(t) \cup {s},
         Elems(globalq)' \cap Held(t)' = {},
         freed' = freed,
         q'[t] # None => q'[t] # new'[t],
         pc'[t] = "giveback" => tgt'[t] # q'[t],
         ctx'[s] # "unborn", inGlobal'[s] \/ release'[s],
         \A x \in Service \ {s} : /\ ctx'[x] = ctx[x] /\ release'[x] = release[x]
                                  /\ inGlobal'[x] = inGlobal[x] /\ queue'[x] = queue[x]
  PROVE  MailInv'
<1> DEFINE G == Elems(globalq) H == Held(t)
<1>1. freed \cap (G \cup H) = {}
  BY DEF MailInv, Placed, Apart
<1>2. freed' \cap (G' \cup H') = {}
  BY <1>1
<1>3. Placed' /\ Played' = (Played \ (G \cup H)) \cup G' \cup H'
  <2>1. {s} \in SUBSET Service /\ {s} \cap Played = {}
    OBVIOUS
  <2> QED BY <1>2, <2>1, Moves DEF MailInv
<1>4. G \cup H \subseteq Played
  BY DEF Played
<1>5. Played' = Played \cup {s}
  BY <1>3, <1>4
<1>6. Marked'
  BY <1>5 DEF MailInv, Marked
<1> QED
  BY <1>3, <1>6 DEF MailInv

(* Mailbox s leaves the hand of thread t and is idle, or freed.            *)
LEMMA Leaves ==
  ASSUME MailInv, NEW t \in Thread, Others(t), NEW s \in Held(t),
         globalq' = globalq, Held(t)' = Held(t) \ {s},
         freed' \in {freed, freed \cup {s}},
         q'[t] # None => q'[t] # new'[t],
         pc'[t] = "giveback" => tgt'[t] # q'[t],
         UNCHANGED <<ctx, release, queue>>,
         ~inGlobal'[s], \A x \in Service \ {s} : inGlobal'[x] = inGlobal[x],
         s \in freed' => release[s],
         s \notin freed' => queue[s] = <<>> /\ ~release[s]
  PROVE  MailInv'
<1> DEFINE G == Elems(globalq) H == Held(t)
<1>0. s \in Service
  BY DEF Held
<1>1. freed \cap (G \cup H) = {} /\ G \cap H = {} /\ Distinct(globalq)
  BY DEF MailInv, Placed, Apart
<1>2. G' = G /\ Distinct(globalq)'
  BY <1>1 DEF Elems, Distinct
<1>3. freed' \cap (G' \cup H') = {} /\ G' \cap H' = {} /\ freed' \subseteq freed \cup H
      /\ G' \cup H' \subseteq G \cup H \cup {}
  BY <1>1, <1>2
<1>4. Placed' /\ Played' = (Played \ (G \cup H)) \cup G' \cup H'
  <2>1. {} \in SUBSET Service /\ {} \cap Played = {}
    OBVIOUS
  <2> QED BY <1>2, <1>3, <2>1, Moves DEF MailInv
<1>5. G \cup H \subseteq Played
  BY DEF Played
<1>6. Played' = Played \ {s}
  BY <1>1, <1>2, <1>4, <1>5
<1>7. Marked'
  BY <1>0, <1>6 DEF MailInv, Marked
<1> QED
  BY <1>4, <1>7 DEF MailInv

(* Nothing is moved.                                                       *)
LEMMA Still ==
  ASSUME MailInv, NEW t \in Thread, Others(t),
         UNCHANGED <<globalq, freed, inGlobal, release>>,
         q'[t] = q[t], new'[t] = new[t], pc[t] # "giveback", pc'[t] # "giveback",
         \A s \in Service : /\ ctx'[s] = "unborn" => ctx[s] = "unborn"
                            /\ queue'[s] # <<>> => queue[s] # <<>> \/ s \in Played
  PROVE  MailInv'
<1>1. Held(t)' = Held(t)
  BY DEF Held, Holds
<1>2. Elems(globalq)' = Elems(globalq) /\ (Distinct(globalq) => Distinct(globalq)')
  BY DEF Elems, Distinct
<1>3. Distinct(globalq) /\ Elems(globalq) \cap Held(t) = {} /\ (q[t] # None => q[t] # new[t])
  BY DEF MailInv, Placed, Apart
<1> QED
  BY <1>1, <1>2, <1>3, Stays

-----------------------------------------------------------------------------
(* The subroutines.                                                        *)
LEMMA SubMail ==
  ASSUME RefsInv, MailInv, NEW t \in Thread, Subroutine(t)
  PROVE  MailInv'
<1> USE DEF contexts, mailboxes, frame, history, Goto
<1>0. /\ TypeOK /\ Shape /\ Hands(t)
      /\ pc[t] \in Sub => tgt[t] \in Service
      /\ pc[t] = "release" => ref[tgt[t]] > 0
  BY ReleaseCounted DEF RefsInv, TypeOK, Shape, Hands
<1>1. Others(t)
  BY <1>0, SubBalanced
<1>2. /\ Distinct(globalq) /\ globalq \in Seq(Service)
      /\ Elems(globalq) \cap Held(t) = {}
      /\ q[t] # None => q[t] # new[t]
  BY <1>0 DEF MailInv, Placed, Apart, TypeOK
<1>3. CASE SendGrab(t)
  <2>1. pc[t] # "giveback" /\ pc'[t] # "giveback"
    BY <1>0, <1>3 DEF SendGrab, TypeOK, Hands, Point, Sub
  <2> QED BY <1>1, <1>3, <2>1, Still DEF SendGrab
<1>4. CASE Release(t)
  <2>1. pc[t] # "giveback" /\ pc'[t] # "giveback"
    BY <1>0, <1>4 DEF Release, TypeOK, Hands, Point, Sub
  <2> QED BY <1>1, <1>4, <2>1, Still DEF Release
<1>5. ASSUME pc[t] \in {"push", "delete"}, pc'[t] # "giveback", UNCHANGED <<q, new>>
      PROVE  Held(t)' = Held(t)
  BY <1>5 DEF Held, Holds
<1>6. CASE Push(t)
  <2> DEFINE s == tgt[t]
  <2>1. /\ s \in Service /\ ctx[s] \in {"init", "ready"} /\ ~release[s]
        /\ pc[t] = "push" /\ pc'[t] # "giveback" /\ UNCHANGED <<q, new, ctx, release, freed>>
        /\ queue \in [Service -> Seq(Msg)] /\ inGlobal \in [Service -> BOOLEAN]
        /\ queue' = [queue EXCEPT ![s] = Append(@, msg[t])]
        /\ inGlobal' = [inGlobal EXCEPT ![s] = TRUE]
    BY <1>0, <1>6, ReleaseCounted DEF Push, Sub, TypeOK, RefsInv, Counted
  <2>2. Held(t)' = Held(t)
    BY <1>5, <2>1
  <2>3. \A x \in Service \ {s} : inGlobal'[x] = inGlobal[x] /\ queue'[x] = queue[x]
    BY <2>1
  <2>4. CASE inGlobal[s]
    <3>1. s \in Played /\ inGlobal' = inGlobal /\ globalq' = globalq
      BY <1>6, <2>1, <2>4 DEF MailInv, Marked, Push
    <3>2. Elems(globalq)' = Elems(globalq) /\ Distinct(globalq)'
      BY <1>2, <3>1 DEF Elems, Distinct
    <3> QED BY <1>1, <1>2, <2>1, <2>2, <2>3, <3>1, <3>2, Stays
  <2>5. CASE ~inGlobal[s]
    <3>1. s \notin Played \cup freed
      BY <2>1, <2>5 DEF MailInv, Marked
    <3>2. s \notin Elems(globalq) \cup Held(t)
      BY <3>1 DEF Played
    <3>3. globalq' = Append(globalq, s)
      BY <1>6, <2>5 DEF Push
    <3>4. Elems(Append(globalq, s)) = Elems(globalq) \cup {s} /\ Distinct(Append(globalq, s))
      BY <1>2, <2>1, <3>2, AppendElems
    <3>5. Elems(globalq)' = Elems(globalq) \cup {s} /\ Distinct(globalq)'
      BY <3>3, <3>4 DEF Elems, Distinct
    <3>6. inGlobal'[s] /\ ctx'[s] # "unborn"
      BY <2>1
    <3>7. \A x \in Service \ {s} : /\ ctx'[x] = ctx[x] /\ release'[x] = release[x]
                                    /\ inGlobal'[x] = inGlobal[x] /\ queue'[x] = queue[x]
      BY <2>1, <2>3
    <3>8. /\ Elems(globalq)' \cup Held(t)' = Elems(globalq) \cup Held(t) \cup {s}
          /\ Elems(globalq)' \cap Held(t)' = {}
      BY <1>2, <2>2, <3>2, <3>5
    <3>9. /\ freed' = freed
          /\ q'[t] # None => q'[t] # new'[t]
          /\ pc'[t] = "giveback" => tgt'[t] # q'[t]
      BY <1>2, <2>1
    <3> QED BY <1>1, <2>1, <3>1, <3>5, <3>6, <3>7, <3>8, <3>9, Enters
  <2> QED BY <2>4, <2>5
<1>7. CASE Delete(t)
  <2> DEFINE s == tgt[t]
  <2>1. /\ s \in Service /\ ctx[s] \in {"init", "ready"} /\ ~release[s]
        /\ pc[t] = "delete" /\ pc'[t] # "giveback" /\ UNCHANGED <<q, new, queue, inGlobal, freed>>
        /\ ctx \in [Service -> {"unborn", "init", "ready", "freed"}] /\ release \in [Service -> BOOLEAN]
        /\ ctx' = [ctx EXCEPT ![s] = "freed"]
        /\ release' = [release EXCEPT ![s] = TRUE]
    BY <1>0, <1>7 DEF Delete, Sub, TypeOK, RefsInv, Counted, Dying, Hands, Point
  <2>2. Held(t)' = Held(t)
    BY <1>5, <2>1
  <2>3. /\ \A x \in Service \ {s} : ctx'[x] = ctx[x] /\ release'[x] = release[x]
        /\ ctx'[s] = "freed" /\ release'[s] = TRUE
    BY <2>1
  <2>4. CASE inGlobal[s]
    <3>1. s \in Played /\ globalq' = globalq
      BY <1>7, <2>1, <2>4 DEF MailInv, Marked, Delete
    <3>2. Elems(globalq)' = Elems(globalq) /\ Distinct(globalq)'
      BY <1>2, <3>1 DEF Elems, Distinct
    <3> QED BY <1>1, <1>2, <2>1, <2>2, <2>3, <3>1, <3>2, Stays
  <2>5. CASE ~inGlobal[s]
    <3>1. s \notin Played \cup freed
      BY <2>1, <2>5 DEF MailInv, Marked
    <3>2. s \notin Elems(globalq) \cup Held(t)
      BY <3>1 DEF Played
    <3>3. globalq' = Append(globalq, s)
      BY <1>7, <2>5 DEF Delete
    <3>4. Elems(Append(globalq, s)) = Elems(globalq) \cup {s} /\ Distinct(Append(globalq, s))
      BY <1>2, <2>1, <3>2, AppendElems
    <3>5. Elems(globalq)' = Elems(globalq) \cup {s} /\ Distinct(globalq)'
      BY <3>3, <3>4 DEF Elems, Distinct
    <3>6. release'[s] /\ ctx'[s] # "unborn"
      BY <2>3
    <3>7. \A x \in Service \ {s} : /\ ctx'[x] = ctx[x] /\ release'[x] = release[x]
                                    /\ inGlobal'[x] = inGlobal[x] /\ queue'[x] = queue[x]
      BY <2>1, <2>3
    <3>8. /\ Elems(globalq)' \cup Held(t)' = Elems(globalq) \cup Held(t) \cup {s}
          /\ Elems(globalq)' \cap Held(t)' = {}
      BY <1>2, <2>2, <3>2, <3>5
    <3>9. /\ freed' = freed
          /\ q'[t] # None => q'[t] # new'[t]
          /\ pc'[t] = "giveback" => tgt'[t] # q'[t]
      BY <1>2, <2>1
    <3> QED BY <1>1, <2>1, <3>1, <3>5, <3>6, <3>7, <3>8, <3>9, Enters
  <2> QED BY <2>4, <2>5
<1> QED
  BY <1>3, <1>4, <1>6, <1>7 DEF Subroutine

(* The steps of a worker that move nothing ...                             *)
LEMMA WorkerStill ==
  ASSUME RefsInv, MailInv, NEW t \in Worker,
         \/ GrabOwner(t) \/ Take(t) \/ Return(t) \/ Drop(t) \/ Failed(t)
         \/ Count(t) \/ Wait(t) \/ Resume(t) \/ Stop(t) \/ \E ok \in BOOLEAN : Launched(t, ok),
         Others(t)
  PROVE  MailInv'
<1> USE DEF contexts, mailboxes, frame, history, Goto, Call
<1>0. /\ TypeOK /\ Hands(t) /\ t \in Thread
      /\ pc[t] = "loop" => q[t] \in Service
      /\ pc[t] = "orphan" => Doomed(t) \in Service
  BY DEF RefsInv, TypeOK, Shape, Thread, Hands, Point, Sub, Doomed
<1>1. UNCHANGED <<globalq, freed, inGlobal, release, ctx>>
  BY DEF GrabOwner, Take, Return, Drop, Failed, Count, Wait, Resume, Stop, Launched
<1>2. q'[t] = q[t] /\ new'[t] = new[t] /\ pc[t] # "giveback" /\ pc'[t] # "giveback"
  BY <1>0 DEF GrabOwner, Take, Return, Drop, Failed, Count, Wait, Resume, Stop, Launched, TypeOK
<1>3. \A s \in Service : queue'[s] # <<>> => queue[s] # <<>>
  <2>1. ASSUME NEW s \in Service, queue' = [queue EXCEPT ![s] = Tail(@)], queue[s] # <<>>
        PROVE  \A x \in Service : queue'[x] # <<>> => queue[x] # <<>>
    BY <1>0, <2>1 DEF TypeOK
  <2>2. CASE Take(t)
    BY <1>0, <2>1, <2>2 DEF Take
  <2>3. CASE Drop(t)
    BY <1>0, <2>1, <2>3 DEF Drop
  <2>4. CASE queue' = queue
    BY <2>4
  <2> QED BY <2>2, <2>3, <2>4 DEF GrabOwner, Return, Failed, Count, Wait, Resume, Stop, Launched
<1> QED
  BY <1>0, <1>1, <1>2, <1>3, Still

(* ... and those that do.                                                  *)
LEMMA WorkerMoves ==
  ASSUME RefsInv, MailInv, NEW t \in Worker, Others(t),
         \/ PopGlobal(t) \/ NextQueue(t) \/ GiveBack(t) \/ Requeue(t) \/ Publish(t)
         \/ Empty(t) \/ FreeQueue(t)
  PROVE  MailInv'
<1> USE DEF contexts, mailboxes, frame, history, Goto, Call
<1>0. /\ TypeOK /\ Hands(t) /\ t \in Thread /\ None \notin Service
      /\ q[t] # None => q[t] \in Service
      /\ new[t] # None => new[t] \in Service
      /\ tgt[t] # None => tgt[t] \in Service
  BY Parameters DEF RefsInv, TypeOK, Shape, Thread
<1>1. /\ Distinct(globalq) /\ globalq \in Seq(Service)
      /\ Elems(globalq) \cap Held(t) = {}
      /\ q[t] # None => q[t] # new[t]
      /\ pc[t] = "giveback" => tgt[t] # q[t]
  BY <1>0 DEF MailInv, Placed, Apart, TypeOK
<1>2. ASSUME globalq # <<>>, globalq' = Tail(globalq)
      PROVE  /\ Head(globalq) \in Service /\ Head(globalq) \in Elems(globalq)
             /\ Elems(globalq)' = Elems(globalq) \ {Head(globalq)} /\ Distinct(globalq)'
  <2>1. /\ Head(globalq) \in Elems(globalq) /\ Head(globalq) \in Service
        /\ Elems(Tail(globalq)) = Elems(globalq) \ {Head(globalq)}
        /\ Distinct(Tail(globalq))
    BY <1>1, <1>2, TailElems
  <2> QED BY <1>2, <2>1 DEF Elems, Distinct
<1>3. ASSUME NEW s \in Service, s \notin Elems(globalq), globalq' = Append(globalq, s)
      PROVE  Elems(globalq)' = Elems(globalq) \cup {s} /\ Distinct(globalq)'
  <2>1. Elems(Append(globalq, s)) = Elems(globalq) \cup {s} /\ Distinct(Append(globalq, s))
    BY <1>1, <1>3, AppendElems
  <2> QED BY <1>3, <2>1 DEF Elems, Distinct
<1>4. ASSUME Distinct(globalq)',
             Elems(globalq)' \cup Held(t)' = Elems(globalq) \cup Held(t),
             Elems(globalq)' \cap Held(t)' = {},
             UNCHANGED <<mailboxes>>, \A s \in Service : ctx'[s] = "unborn" => ctx[s] = "unborn",
             q'[t] # None => q'[t] # new'[t], pc'[t] = "giveback" => tgt'[t] # q'[t]
      PROVE  MailInv'
  BY <1>0, <1>4, Stays
<1>5. CASE PopGlobal(t)
  <2>1. pc[t] = "top" /\ q[t] = None /\ new[t] = None /\ Held(t) = {}
    BY <1>0, <1>5 DEF PopGlobal, Hands, Point, Sub, Held, Holds
  <2>2. CASE globalq = <<>>
    <3>1. /\ UNCHANGED <<globalq, freed, inGlobal, release, ctx, queue>>
          /\ q'[t] = q[t] /\ new'[t] = new[t] /\ pc[t] # "giveback" /\ pc'[t] # "giveback"
      BY <1>0, <1>5, <2>1, <2>2 DEF PopGlobal, TypeOK
    <3> QED BY <1>0, <3>1, Still
  <2>3. CASE globalq # <<>>
    <3> DEFINE h == Head(globalq)
    <3>1. /\ globalq' = Tail(globalq) /\ q'[t] = h /\ new'[t] = None /\ pc'[t] = "top"
          /\ UNCHANGED <<mailboxes, ctx>>
      BY <1>0, <1>5, <2>1, <2>3 DEF PopGlobal, TypeOK
    <3>2. /\ h \in Service /\ h \in Elems(globalq)
          /\ Elems(globalq)' = Elems(globalq) \ {h} /\ Distinct(globalq)'
      BY <1>2, <2>3, <3>1
    <3>3. Held(t)' = {h}
      BY <1>0, <3>1, <3>2 DEF Held, Holds
    <3> HIDE DEF h
    <3> QED BY <1>0, <1>4, <2>1, <3>1, <3>2, <3>3
  <2> QED BY <2>2, <2>3
<1>6. CASE NextQueue(t)
  <2>1. pc[t] = "round" /\ q[t] \in Service /\ new[t] = None /\ Held(t) = {q[t]}
    BY <1>0, <1>6 DEF NextQueue, Hands, Point, Sub, Held, Holds
  <2>2. CASE globalq = <<>>
    <3>1. /\ UNCHANGED <<globalq, freed, inGlobal, release, ctx, queue>>
          /\ q'[t] = q[t] /\ new'[t] = new[t] /\ pc[t] # "giveback" /\ pc'[t] # "giveback"
      BY <1>0, <1>6, <2>1, <2>2 DEF NextQueue, TypeOK
    <3> QED BY <1>0, <3>1, Still
  <2>3. CASE globalq # <<>>
    <3> DEFINE h == Head(globalq)
    <3>1. /\ globalq' = Tail(globalq) /\ q'[t] = h /\ new'[t] = None /\ pc'[t] = "giveback"
          /\ tgt'[t] = q[t] /\ UNCHANGED <<mailboxes, ctx>>
      BY <1>0, <1>6, <2>1, <2>3 DEF NextQueue, TypeOK
    <3>2. /\ h \in Service /\ h \in Elems(globalq)
          /\ Elems(globalq)' = Elems(globalq) \ {h} /\ Distinct(globalq)'
      BY <1>2, <2>3, <3>1
    <3>3. Held(t)' = {h, q[t]}
      BY <1>0, <2>1, <3>1, <3>2 DEF Held, Holds
    <3>4. h # q[t]
      BY <1>1, <2>1, <3>2
    <3> HIDE DEF h
    <3> QED BY <1>0, <1>1, <1>4, <2>1, <3>1, <3>2, <3>3, <3>4
  <2> QED BY <2>2, <2>3
<1>7. CASE GiveBack(t)
  <2> DEFINE s == tgt[t]
  <2>1. pc[t] = "giveback" /\ q[t] \in Service /\ new[t] = None /\ s \in Service /\ s # q[t]
    BY <1>0, <1>1, <1>7 DEF GiveBack, Hands, Point, Sub
  <2>2. Held(t) = {q[t], s}
    BY <1>0, <2>1 DEF Held, Holds
  <2>3. /\ globalq' = Append(globalq, s) /\ pc'[t] = "release" /\ UNCHANGED <<q, new, mailboxes, ctx>>
    BY <1>0, <1>7 DEF GiveBack, TypeOK
  <2>4. Held(t)' = {q[t]}
    BY <1>0, <2>1, <2>3 DEF Held, Holds
  <2>5. Elems(globalq)' = Elems(globalq) \cup {s} /\ Distinct(globalq)'
    BY <1>1, <1>3, <2>1, <2>2, <2>3
  <2> QED BY <1>1, <1>4, <2>1, <2>2, <2>3, <2>4, <2>5
<1>8. ASSUME pc[t] = "orphan", LetGo(t)
      PROVE  /\ Held(t)' = Held(t) \ {Doomed(t)} /\ Doomed(t) \in Held(t) /\ Doomed(t) \in Service
             /\ q'[t] # None => q'[t] # new'[t]
             /\ pc'[t] # "giveback"
  <2>1. q[t] \in Service /\ q[t] # new[t]
    BY <1>0, <1>1, <1>8 DEF Hands, Point, Sub
  <2>2. CASE new[t] # None
    <3>1. q'[t] = q[t] /\ new'[t] = None /\ pc'[t] = "callback" /\ Doomed(t) = new[t] /\ new[t] \in Service
      BY <1>0, <1>8, <2>2 DEF LetGo, Doomed, TypeOK
    <3> QED BY <1>0, <1>8, <2>1, <3>1 DEF Held, Holds
  <2>3. CASE new[t] = None
    <3>1. q'[t] = None /\ new'[t] = None /\ pc'[t] = "top" /\ Doomed(t) = q[t]
      BY <1>0, <1>8, <2>3 DEF LetGo, Doomed, TypeOK
    <3> QED BY <1>0, <1>8, <2>1, <2>3, <3>1 DEF Held, Holds
  <2> QED BY <2>2, <2>3
<1>9. CASE Requeue(t)
  <2> DEFINE s == Doomed(t)
  <2>1. /\ Held(t)' = Held(t) \ {s} /\ s \in Held(t) /\ s \in Service
        /\ q'[t] # None => q'[t] # new'[t]
        /\ pc'[t] # "giveback"
    BY <1>8, <1>9 DEF Requeue
  <2>2. globalq' = Append(globalq, s) /\ UNCHANGED <<mailboxes, ctx>>
    BY <1>9 DEF Requeue
  <2> HIDE DEF s
  <2>3. Elems(globalq)' = Elems(globalq) \cup {s} /\ Distinct(globalq)'
    BY <1>1, <1>3, <2>1, <2>2
  <2> QED BY <1>1, <1>4, <2>1, <2>2, <2>3
<1>10. CASE Publish(t)
  <2> DEFINE s == new[t]
  <2>1. /\ pc[t] = "publish" /\ s \in Service /\ q[t] \in Service /\ s # q[t]
    BY <1>0, <1>1, <1>10 DEF Publish, Hands, Point, Sub
  <2>2. Held(t) = {q[t], s}
    BY <1>0, <2>1 DEF Held, Holds
  <2>3. /\ globalq' = Append(globalq, s) /\ pc'[t] = "callback" /\ q'[t] = q[t] /\ new'[t] = None
        /\ UNCHANGED mailboxes
    BY <1>0, <1>10 DEF Publish, TypeOK
  <2>4. Held(t)' = {q[t]}
    BY <1>0, <2>1, <2>3 DEF Held, Holds
  <2>5. Elems(globalq)' = Elems(globalq) \cup {s} /\ Distinct(globalq)'
    BY <1>1, <1>3, <2>1, <2>2, <2>3
  <2>6. \A x \in Service : ctx'[x] = "unborn" => ctx[x] = "unborn"
    BY <1>0, <1>10, <2>1 DEF Publish, TypeOK
  <2> QED BY <1>0, <1>1, <1>4, <2>1, <2>2, <2>3, <2>4, <2>5, <2>6
<1>11. CASE Empty(t)
  <2> DEFINE s == q[t]
  <2>1. pc[t] = "loop" /\ s \in Service /\ new[t] = None /\ Held(t) = {s} /\ Dispatching(t)
    BY <1>0, <1>11 DEF Empty, Hands, Point, Sub, Held, Holds, Dispatching
  <2>2. ref[s] > 0 /\ ~release[s]
    BY <1>0, <2>1, DispatchCounted DEF RefsInv, Counted
  <2>3. /\ queue[s] = <<>> /\ inGlobal' = [inGlobal EXCEPT ![s] = FALSE] /\ UNCHANGED <<globalq, freed, ctx, release, queue>>
        /\ q'[t] = None /\ new'[t] = None /\ pc'[t] = "release" /\ inGlobal \in [Service -> BOOLEAN]
    BY <1>0, <1>11, <2>1 DEF Empty, TypeOK
  <2>4. Held(t)' = {}
    BY <1>0, <2>3 DEF Held, Holds
  <2>5. s \notin freed'
    BY <2>1, <2>2, <2>3 DEF MailInv, Marked
  <2>6. ~inGlobal'[s] /\ \A x \in Service \ {s} : inGlobal'[x] = inGlobal[x]
    BY <2>1, <2>3
  <2> HIDE DEF s
  <2> QED BY <1>0, <2>1, <2>2, <2>3, <2>4, <2>5, <2>6, Leaves
<1>12. CASE FreeQueue(t)
  <2> DEFINE s == Doomed(t)
  <2>1. /\ Held(t)' = Held(t) \ {s} /\ s \in Held(t) /\ s \in Service
        /\ q'[t] # None => q'[t] # new'[t]
        /\ pc'[t] # "giveback"
    BY <1>8, <1>12 DEF FreeQueue
  <2>2. /\ release[s] /\ inGlobal' = [inGlobal EXCEPT ![s] = FALSE] /\ freed' = freed \cup {s}
        /\ UNCHANGED <<globalq, ctx, release, queue>> /\ inGlobal \in [Service -> BOOLEAN]
    BY <1>0, <1>12 DEF FreeQueue, TypeOK
  <2> HIDE DEF s
  <2>3. ~inGlobal'[s] /\ \A x \in Service \ {s} : inGlobal'[x] = inGlobal[x]
    BY <2>1, <2>2
  <2>4. s \in freed'
    BY <2>2
  <2> QED BY <1>0, <2>1, <2>2, <2>3, <2>4, Leaves
<1> QED
  BY <1>5, <1>6, <1>7, <1>9, <1>10, <1>11, <1>12

LEMMA ServiceMail ==
  ASSUME RefsInv, MailInv, NEW t \in Thread, NEW s \in Service,
         Send(t, s) \/ (t \in Worker /\ (Wakeup(t) \/ Kill(t, s) \/ Launch(t, s)))
  PROVE  MailInv'
<1> USE DEF contexts, mailboxes, frame, history, Goto, Call
<1>0. /\ TypeOK /\ Shape /\ Hands(t) /\ None \notin Service
      /\ q[t] # None => q[t] \in Service
  BY Parameters DEF RefsInv, TypeOK, Shape
<1>1. CASE Send(t, s) \/ (t \in Worker /\ (Wakeup(t) \/ Kill(t, s)))
  <2>1. Others(t)
    BY <1>0, <1>1, ServiceBalanced
  <2>2. /\ UNCHANGED <<globalq, freed, inGlobal, release, ctx, queue>>
        /\ q'[t] = q[t] /\ new'[t] = new[t] /\ pc[t] # "giveback" /\ pc'[t] # "giveback"
    BY <1>0, <1>1 DEF Send, Wakeup, Kill, TypeOK, Running
  <2> QED BY <2>1, <2>2, Still
<1>2. CASE t \in Worker /\ Launch(t, s)
  <2>1. Others(t)
    BY <1>0, <1>2, LaunchBalanced DEF RefsInv
  <2>2. /\ pc[t] = "callback" /\ new[t] = None /\ q[t] \in Service /\ ctx[s] = "unborn"
    BY <1>0, <1>2 DEF Launch, Hands, Point, Sub
  <2>3. /\ ctx'[s] = "init" /\ inGlobal'[s] = TRUE /\ new'[t] = s /\ q'[t] = q[t] /\ pc'[t] = "init"
        /\ UNCHANGED <<globalq, freed, release, queue>>
        /\ \A x \in Service \ {s} : ctx'[x] = ctx[x] /\ inGlobal'[x] = inGlobal[x]
    BY <1>0, <1>2 DEF Launch, TypeOK
  <2>4. s \notin Played \cup freed
    BY <2>2 DEF MailInv, Marked, RefsInv, Counted
  <2>5. Held(t) = {q[t]} /\ Held(t)' = {q[t], s}
    BY <1>0, <2>2, <2>3 DEF Held, Holds
  <2>6. q[t] # s /\ s \notin Elems(globalq)
    BY <2>4, <2>5 DEF Played
  <2>7. /\ Distinct(globalq)' /\ Elems(globalq)' = Elems(globalq)
        /\ Elems(globalq) \cap Held(t) = {}
    BY <2>3 DEF MailInv, Placed, Apart, Elems, Distinct
  <2>8. /\ Elems(globalq)' \cup Held(t)' = Elems(globalq) \cup Held(t) \cup {s}
        /\ Elems(globalq)' \cap Held(t)' = {}
    BY <2>5, <2>6, <2>7
  <2>9. /\ ctx'[s] # "unborn" /\ inGlobal'[s]
        /\ \A x \in Service \ {s} : /\ ctx'[x] = ctx[x] /\ release'[x] = release[x]
                                    /\ inGlobal'[x] = inGlobal[x] /\ queue'[x] = queue[x]
        /\ q'[t] # None => q'[t] # new'[t]
        /\ pc'[t] = "giveback" => tgt'[t] # q'[t]
        /\ freed' = freed
    BY <2>3, <2>6
  <2> QED BY <2>1, <2>4, <2>7, <2>8, <2>9, Enters
<1> QED
  BY <1>1, <1>2

(* Steps that wake sleepers, or change nothing.                            *)
LEMMA WakeMail ==
  ASSUME MailInv, UNCHANGED <<ctx, queue, inGlobal, release, freed, globalq, q, tgt, new>>,
         \A t \in Thread : pc'[t] = "giveback" <=> pc[t] = "giveback"
  PROVE  MailInv'
<1>1. \A t \in Thread : Held(t)' = Held(t)
  BY DEF Held, Holds
<1>2. Elems(globalq)' = Elems(globalq) /\ (Distinct(globalq) => Distinct(globalq)')
  BY DEF Elems, Distinct
<1>3. \A t \in Thread : Apart(t)'
  BY <1>1, <1>2 DEF MailInv, Placed, Apart
<1>4. Placed'
  <2>1. Distinct(globalq)' /\ (Elems(globalq) \cap freed = {})'
    BY <1>2 DEF MailInv, Placed
  <2> QED BY <1>3, <2>1, Zenon DEF Placed
<1>5. Played' = Played
  BY <1>1, <1>2 DEF Played
<1>6. Marked'
  BY <1>5 DEF MailInv, Marked
<1> QED
  BY <1>4, <1>6 DEF MailInv

LEMMA NextMail ==
  ASSUME RefsInv, MailInv, [Next]_vars
  PROVE  MailInv'
<1>1. ASSUME NEW t \in Thread, Subroutine(t) \/ \E s \in Service : Send(t, s) PROVE MailInv'
  BY <1>1, SubMail, ServiceMail
<1>2. ASSUME NEW t \in Worker, WorkerStep(t) PROVE MailInv'
  <2>1. Others(t)
    BY <1>2, WorkerBalanced DEF RefsInv
  <2> QED BY <1>2, <2>1, WorkerStill, WorkerMoves DEF WorkerStep
<1>3. ASSUME NEW t \in Worker, NEW s \in Service, Kill(t, s) \/ Launch(t, s) PROVE MailInv'
  BY <1>3, ServiceMail DEF Thread
<1>4. ASSUME NEW t \in Worker, Wakeup(t) PROVE MailInv'
  BY <1>4, Parameters, ServiceMail DEF Thread
<1>5. CASE Abort
  <2>1. UNCHANGED <<ctx, queue, inGlobal, release, freed, globalq, q, tgt, new>>
    BY <1>5 DEF Abort, contexts, mailboxes, frame
  <2>2. \A t \in Thread : pc'[t] = "giveback" <=> pc[t] = "giveback"
    BY <1>5 DEF Abort
  <2> QED BY <2>1, <2>2, WakeMail
<1>6. CASE UNCHANGED vars
  <2>1. UNCHANGED <<ctx, queue, inGlobal, release, freed, globalq, q, tgt, new, pc>>
    BY <1>6 DEF vars, contexts, mailboxes, frame
  <2> QED BY <2>1, WakeMail
<1> QED
  BY <1>1, <1>2, <1>3, <1>4, <1>5, <1>6 DEF Next

LEMMA InitMail == Init => MailInv
<1> SUFFICES ASSUME Init PROVE MailInv
  OBVIOUS
<1>1. \A t \in Thread : Held(t) = {}
  BY Parameters DEF Init, Held, Holds
<1>2. Elems(globalq) = {Boot} /\ Distinct(globalq) /\ freed = {}
  BY DEF Init, Elems, Distinct
<1>3. Played = {Boot}
  BY <1>1, <1>2 DEF Played
<1>4. Placed
  BY <1>1, <1>2 DEF Init, Placed, Apart
<1>5. Marked
  BY <1>2, <1>3, Parameters DEF Init, Marked
<1> QED
  BY <1>4, <1>5 DEF MailInv

LEMMA MailInductive == Spec => [](RefsInv /\ MailInv)
<1>1. Init => RefsInv /\ MailInv
  BY InitRefs, InitMail
<1>2. RefsInv /\ MailInv /\ [Next]_vars => (RefsInv /\ MailInv)'
  BY NextRefs, NextMail
<1> QED
  BY <1>1, <1>2, PTL DEF Spec

(* skynet_globalmq_push and _pop: a mailbox is in the global queue once or *)
(* in the hand of one thread, so no service runs on two threads, however   *)
(* many there are.                                                         *)
THEOREM OneThreadEach == Spec => []OneHolder
<1>1. ASSUME RefsInv, MailInv PROVE OneHolder
  <2>1. /\ \A i, j \in 1 .. Len(globalq) : globalq[i] = globalq[j] => i = j
        /\ \A i \in 1 .. Len(globalq) : globalq[i] \in Elems(globalq)
    BY <1>1 DEF MailInv, Placed, Distinct, Elems
  <2>2. \A i \in 1 .. Len(globalq) : globalq[i] \notin freed
    BY <1>1, <2>1 DEF MailInv, Placed
  <2>3. \A t \in Thread : \A s \in Service : Holds(t, s) <=> s \in Held(t)
    BY DEF Held
  <2>4. ASSUME NEW t \in Thread, NEW s \in Service, s \in Held(t)
        PROVE  /\ \A u \in Thread \ {t} : s \notin Held(u)
               /\ \A i \in 1 .. Len(globalq) : globalq[i] # s
               /\ s \notin freed
    BY <1>1, <2>1, <2>4 DEF MailInv, Placed, Apart
  <2> QED BY <2>1, <2>2, <2>3, <2>4 DEF OneHolder
<1> QED
  BY <1>1, MailInductive, PTL

(* skynet_mq_push, _pop and _mark_release: a mailbox with messages, or one *)
(* that waits to be freed, is never forgotten.                             *)
THEOREM NoneForgotten == Spec => []Scheduled
<1>1. ASSUME MailInv PROVE Scheduled
  <2>1. \A s \in Service \ freed : (queue[s] # <<>> \/ release[s]) => s \in Played
    BY <1>1 DEF MailInv, Marked
  <2>2. \A s \in Service : s \in Played => InPlay(s)
    BY DEF Played, Elems, Held, InPlay
  <2> QED BY <2>1, <2>2 DEF Scheduled
<1> QED
  BY <1>1, MailInductive, PTL
=============================================================================
