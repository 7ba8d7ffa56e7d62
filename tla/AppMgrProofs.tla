---------------------------- MODULE AppMgrProofs ----------------------------
(***************************************************************************)
(* What overlapping requests can and cannot do to the application manager, *)
(* for any number of requests: an instance runs without the manager        *)
(* knowing it only if its start failed the assertion of appmgr.lua:42 or   *)
(* its newservice raised an error.                                         *)
(* The argument needs PromptErrors: if another service could be launched   *)
(* before the error reply of a dead one is handled, that error would reset *)
(* app.inst of the new instance.  Requests that do not overlap need no     *)
(* such assumption to leave everything in order.                           *)
(***************************************************************************)
EXTENDS AppMgr, TLAPS

(* The handle of a service that its request left behind is nobody else's:  *)
(* neither the manager's, nor another request's, nor a target of a stop.   *)
LostAlone ==
  \A p \in Ops : pc[p] \in Lost =>
    /\ handle[p] \notin {inst, None}
    /\ \A o \in Ops : target[o] # handle[p]
    /\ \A o \in Ops \ {p} : handle[o] # handle[p]

(* While the error of a broken start is under way nothing is running that  *)
(* it could make the manager forget.                                       *)
BrokenForgotten == (\E o \in Ops : StartBroken(o)) => inst \notin alive

IInv == TypeOK /\ OnlyLostLeft /\ LostAlone /\ BrokenForgotten

(* Nothing has been launched at the start.                                 *)
LEMMA InitIInv == Init => IInv
<1> SUFFICES ASSUME Init PROVE IInv
  OBVIOUS
<1>1. TypeOK
  <2>1. overlap \in BOOLEAN
    BY Zenon DEF Init
  <2> QED
    BY <2>1 DEF Init, TypeOK, None
<1>2. alive = {} /\ \A o \in Ops : pc[o] = "none"
  BY DEF Init
<1>3. OnlyLostLeft
  BY <1>2 DEF OnlyLostLeft
<1>4. LostAlone /\ BrokenForgotten
  BY <1>2 DEF LostAlone, Lost, BrokenForgotten, StartBroken
<1> QED
  BY <1>1, <1>3, <1>4 DEF IInv

(* An instance that some request asks to exit, and that is alive, is the   *)
(* one the manager knows.                                                  *)
LEMMA Victim ==
  ASSUME IInv, NEW o \in Ops
  PROVE  /\ target[o] \in alive => target[o] = inst
         /\ handle[o] \in alive /\ pc[o] \notin Lost => handle[o] = inst
  BY DEF IInv, OnlyLostLeft, LeftBy, Lost, LostAlone

LEMMA RaisedTypes ==
  ASSUME TypeOK, NEW o \in Ops, NewServiceRaises(o)
  PROVE  TypeOK'
<1>1. /\ launched' \in {launched, launched + 1} /\ launched' \in Nat
      /\ UNCHANGED <<inst, forced, kind, target, killer, timer, told, overlap>>
  BY DEF NewServiceRaises, TypeOK
<1>2. alive' \subseteq 1 .. launched'
  <2>1. alive \subseteq 1 .. launched /\ launched \in Nat
    BY DEF TypeOK
  <2>2. \/ alive' = alive /\ launched' = launched
        \/ alive' = alive \cup {launched + 1} /\ launched' = launched + 1
    BY DEF NewServiceRaises
  <2>3. CASE alive' = alive /\ launched' = launched
    BY <2>1, <2>3
  <2>4. CASE alive' = alive \cup {launched + 1} /\ launched' = launched + 1
    BY <2>1, <2>4
  <2> QED
    BY <2>2, <2>3, <2>4
<1>5. handle' \in [Ops -> 0 .. launched']
  BY DEF NewServiceRaises, TypeOK
<1>3. pc' \in [Ops -> {"none", "start", "newservice", "starting", "discard", "stop",
                      "stopping", "done", "failed"} \cup Lost]
  BY DEF NewServiceRaises, TypeOK, Lost
<1>4. inst' \in 0 .. launched' /\ forced' \subseteq 1 .. launched' /\ target' \in [Ops -> 0 .. launched']
  BY <1>1 DEF TypeOK
<1> QED
  BY <1>1, <1>2, <1>3, <1>4, <1>5 DEF TypeOK

(* The four parts of IInv survive each action; PromptErrors is used for    *)
(* NewService only.                                                        *)
LEMMA NextIInv ==
  ASSUME PromptErrors, IInv, [Next]_vars
  PROVE  IInv'
<1> USE DEF IInv, LeftBy, Lost, None
<1>1. ASSUME NEW o \in Ops, NEW k \in {"start", "stop", "restart"}, Request(o, k)
      PROVE  IInv'
  BY <1>1 DEF Request, manager, TypeOK, OnlyLostLeft, LostAlone, BrokenForgotten, StartBroken
<1>2. ASSUME NEW o \in Ops, Start(o)
      PROVE  IInv'
  BY <1>2 DEF Start, TypeOK, OnlyLostLeft, LostAlone, BrokenForgotten, StartBroken
<1>3. ASSUME NEW o \in Ops, NewService(o)
      PROVE  IInv'
  <2>1. TypeOK'
    BY <1>3 DEF NewService, TypeOK
  <2>2. /\ launched' \notin alive /\ launched' # inst /\ launched' # 0
        /\ \A p \in Ops : launched' # target[p] /\ launched' # handle[p]
    BY <1>3 DEF NewService, TypeOK
  <2>3. BrokenForgotten'
    <3>1. \A p \in Ops : ~StartBroken(p)'
      BY <1>3 DEF NewService, TypeOK, StartBroken
    <3> QED
      BY <3>1 DEF BrokenForgotten
  <2>4. CASE inst # None
    <3>1. pc' = [pc EXCEPT ![o] = "asserted"] /\ inst' = inst
      BY <1>3, <2>4 DEF NewService
    <3>2. OnlyLostLeft'
      BY <1>3, <3>1 DEF NewService, TypeOK, OnlyLostLeft
    <3>3. LostAlone'
      BY <1>3, <2>2, <3>1 DEF NewService, TypeOK, LostAlone
    <3> QED
      BY <2>1, <2>3, <3>2, <3>3
  <2>5. CASE inst = None
    <3>1. pc' = [pc EXCEPT ![o] = "starting"] /\ inst' = launched'
      BY <1>3, <2>5 DEF NewService
    <3>2. OnlyLostLeft'
      BY <1>3, <2>5, <3>1 DEF NewService, TypeOK, OnlyLostLeft
    <3>3. LostAlone'
      BY <1>3, <2>2, <3>1 DEF NewService, TypeOK, LostAlone
    <3> QED
      BY <2>1, <2>3, <3>2, <3>3
  <2> QED
    BY <2>4, <2>5
<1>14. ASSUME NEW o \in Ops, NewServiceRaises(o)
       PROVE  IInv'
  <2>1. TypeOK'
    BY <1>14, RaisedTypes
  <2>2. BrokenForgotten'
    <3>1. \A p \in Ops : ~StartBroken(p)'
      BY <1>14 DEF NewServiceRaises, TypeOK, StartBroken
    <3> QED
      BY <3>1 DEF BrokenForgotten
  <2>3. CASE pc' = [pc EXCEPT ![o] = "failed"] /\ UNCHANGED <<launched, alive, handle>>
    BY <1>14, <2>1, <2>2, <2>3 DEF NewServiceRaises, TypeOK, OnlyLostLeft, LostAlone
  <2>4. CASE pc' = [pc EXCEPT ![o] = "raised"] /\ alive' = alive \cup {launched + 1}
             /\ handle' = [handle EXCEPT ![o] = launched + 1]
    <3>1. /\ launched + 1 \notin alive /\ launched + 1 # inst /\ launched + 1 # 0
          /\ \A p \in Ops : launched + 1 # target[p] /\ launched + 1 # handle[p]
      BY DEF TypeOK
    <3>2. inst' = inst /\ target' = target
      BY <1>14 DEF NewServiceRaises
    <3>3. OnlyLostLeft'
      BY <1>14, <2>4, <3>2 DEF NewServiceRaises, TypeOK, OnlyLostLeft
    <3>4. LostAlone'
      BY <2>4, <3>1, <3>2 DEF TypeOK, LostAlone
    <3> QED
      BY <2>1, <2>2, <3>3, <3>4
  <2> QED
    BY <1>14, <2>3, <2>4 DEF NewServiceRaises
<1>4. ASSUME NEW o \in Ops, StartOk(o)
      PROVE  IInv'
  BY <1>4 DEF StartOk, TypeOK, OnlyLostLeft, LostAlone, BrokenForgotten, StartBroken
<1>5. ASSUME NEW o \in Ops, StartError(o)
      PROVE  IInv'
  <2>1. inst \notin alive
    BY <1>5 DEF StartError, BrokenForgotten
  <2>2. TypeOK' /\ BrokenForgotten'
    BY <1>5 DEF StartError, TypeOK, BrokenForgotten
  <2>3. OnlyLostLeft'
    BY <1>5, <2>1 DEF StartError, StartBroken, TypeOK, OnlyLostLeft
  <2>4. LostAlone'
    BY <1>5 DEF StartError, TypeOK, LostAlone
  <2> QED
    BY <2>2, <2>3, <2>4
<1>6. ASSUME NEW o \in Ops, StartFalse(o)
      PROVE  IInv'
  BY <1>6 DEF StartFalse, TypeOK, OnlyLostLeft, LostAlone, BrokenForgotten, StartBroken
<1>7. ASSUME NEW o \in Ops, Discarded(o)
      PROVE  IInv'
  <2>1. TypeOK'
    <3>1. alive' \subseteq alive /\ inst' \in {inst, 0}
      BY <1>7 DEF Discarded
    <3>2. alive' \subseteq 1 .. launched /\ inst' \in 0 .. launched
      BY <3>1 DEF TypeOK
    <3> QED
      BY <1>7, <3>2 DEF Discarded, TypeOK
  <2>5. LostAlone'
    <3>1. \A p \in Ops : pc'[p] \in Lost => pc[p] \in Lost
      BY <1>7 DEF Discarded, TypeOK
    <3>2. inst' \in {inst, None} /\ UNCHANGED <<handle, target>>
      BY <1>7 DEF Discarded
    <3> QED
      BY <3>1, <3>2 DEF LostAlone
  <2>2. handle[o] \in alive => handle[o] = inst
    BY <1>7, Victim DEF Discarded
  <2>3. OnlyLostLeft'
    BY ZenonT(30), <1>7, <2>2 DEF Discarded, TypeOK, OnlyLostLeft
  <2>4. BrokenForgotten'
    BY <1>7, <2>2 DEF Discarded, TypeOK, BrokenForgotten, StartBroken
  <2> QED
    BY <2>1, <2>3, <2>4, <2>5
<1>8. ASSUME NEW o \in Ops, Stop(o)
      PROVE  IInv'
  <2>1. /\ UNCHANGED <<inst, launched, alive, forced, kind, handle>>
        /\ \A p \in Ops : pc'[p] \in Lost => pc[p] \in Lost
        /\ \A p \in Ops : pc'[p] = "starting" => pc[p] = "starting"
        /\ \A p \in Ops : target'[p] \in {target[p], inst}
    BY <1>8 DEF Stop, AfterStop, TypeOK
  <2>2. TypeOK'
    BY <1>8 DEF Stop, AfterStop, TypeOK
  <2>3. LostAlone'
    BY <2>1 DEF LostAlone
  <2>4. BrokenForgotten'
    BY <2>1 DEF BrokenForgotten, StartBroken
  <2>5. OnlyLostLeft'
    <3>1. \A p \in Ops : pc[p] \in Lost => pc'[p] \in Lost
      BY <1>8 DEF Stop, AfterStop, TypeOK
    <3> QED
      BY <2>1, <3>1 DEF OnlyLostLeft
  <2> QED
    BY <2>2, <2>3, <2>4, <2>5
<1>9. ASSUME NEW o \in Ops, Killed(o)
      PROVE  IInv'
  <2>1. TypeOK'
    <3>1. alive' \subseteq alive /\ inst' = 0
      BY <1>9 DEF Killed
    <3>2. alive' \subseteq 1 .. launched /\ inst' \in 0 .. launched
      BY <3>1 DEF TypeOK
    <3> QED
      BY <1>9, <3>2 DEF Killed, TypeOK
  <2>5. BrokenForgotten'
    BY <1>9 DEF Killed, TypeOK, BrokenForgotten
  <2>4. LostAlone'
    BY <1>9 DEF Killed, LostAlone
  <2>2. target[o] = inst
    BY <1>9, Victim DEF Killed
  <2>3. OnlyLostLeft'
    BY <1>9, <2>2 DEF Killed, TypeOK, OnlyLostLeft
  <2> QED
    BY <2>1, <2>3, <2>4, <2>5
<1>10. ASSUME NEW o \in Ops, KillError(o)
       PROVE  IInv'
  BY <1>10 DEF KillError, TypeOK, OnlyLostLeft, LostAlone, BrokenForgotten, StartBroken
<1>11. ASSUME NEW o \in Ops, ForceKill(o)
       PROVE  IInv'
  <2>1. TypeOK'
    <3>1. alive' \subseteq alive /\ inst' \in {inst, 0} /\ forced' \subseteq forced \cup ({inst} \ {0})
      BY <1>11 DEF ForceKill
    <3>2. alive' \subseteq 1 .. launched /\ inst' \in 0 .. launched /\ forced' \subseteq 1 .. launched
      BY <3>1 DEF TypeOK
    <3> QED
      BY <1>11, <3>2 DEF ForceKill, TypeOK
  <2>2. LostAlone'
    BY <1>11 DEF ForceKill, LostAlone
  <2>3. OnlyLostLeft'
    BY <1>11 DEF ForceKill, OnlyLostLeft
  <2>4. BrokenForgotten'
    <3>1. CASE inst = None
      BY <1>11, <3>1 DEF ForceKill, TypeOK, BrokenForgotten
    <3>2. CASE inst # None
      BY <1>11, <3>2 DEF ForceKill, TypeOK, BrokenForgotten
    <3> QED
      BY <3>1, <3>2
  <2> QED
    BY <2>1, <2>2, <2>3, <2>4
<1>12. ASSUME NEW o \in Ops, Poll(o)
       PROVE  IInv'
  BY <1>12 DEF Poll, AfterStop, TypeOK, OnlyLostLeft, LostAlone, BrokenForgotten, StartBroken
<1>13. ASSUME UNCHANGED vars
       PROVE  IInv'
  BY <1>13 DEF vars, manager, TypeOK, OnlyLostLeft, LostAlone, BrokenForgotten, StartBroken
<1> QED
  BY <1>1, <1>2, <1>3, <1>4, <1>5, <1>6, <1>7, <1>8, <1>9, <1>10, <1>11, <1>12, <1>13, <1>14
     DEF Next, Step

(* With any number of overlapping requests, an instance that is alive is   *)
(* the one the manager would stop, or its start raised "Bug found when     *)
(* starting application!!" (appmgr.lua:42) or an error in snax.newservice  *)
(* (appmgr.lua:41).                                                        *)
THEOREM LeftOnlyByLost ==
  ASSUME PromptErrors
  PROVE  Spec => []OnlyLostLeft
<1>1. Init => IInv
  BY InitIInv
<1>2. IInv /\ [Next]_vars => IInv'
  BY NextIInv
<1>3. IInv => OnlyLostLeft
  BY DEF IInv
<1> QED
  BY <1>1, <1>2, <1>3, PTL DEF Spec

(* The same with the types of the manager's state.                         *)
THEOREM AllContained ==
  ASSUME PromptErrors
  PROVE  Spec => []Contained
<1>1. Init => IInv
  BY InitIInv
<1>2. IInv /\ [Next]_vars => IInv'
  BY NextIInv
<1>3. IInv => Contained
  BY DEF IInv, Contained
<1> QED
  BY <1>1, <1>2, <1>3, PTL DEF Spec
-----------------------------------------------------------------------------
(* Requests one after the other: the request that is running, and what     *)
(* else may be true while it runs.                                         *)
OneRequest == \A o, p \in Ops : ~Finished(o) /\ ~Finished(p) => o = p

(* The services that exist are the one the manager knows and those whose   *)
(* init raised an error.                                                   *)
KnownAlive == alive = ({inst} \ {None}) \cup LeftBy({"raised"})

(* A start found no instance before it launched its own.                   *)
Starting == \A o \in Ops : /\ pc[o] = "newservice" => inst = None
                           /\ pc[o] \in {"starting", "discard"} => handle[o] = inst /\ inst # None
                           /\ pc[o] # "asserted"

(* A timer is armed only while its stop polls and its instance is there,   *)
(* and so is a coroutine that can still kill.                              *)
Threatening == \A o \in Ops :
  /\ timer[o] => pc[o] = "stopping" /\ target[o] = inst /\ inst # None
  /\ killer[o] /\ target[o] \in alive => timer[o]

(* What listeners believe is right but for what the running request is     *)
(* about to tell them.                                                     *)
Believed ==
  /\ (\A o \in Ops : pc[o] \notin {"starting", "discard", "stopping"}) => (told = "start" <=> inst # None)
  /\ (\E o \in Ops : pc[o] \in {"starting", "discard"}) => told # "start"

Serial == OneRequest /\ KnownAlive /\ Starting /\ Threatening /\ Believed

SInv == TypeOK /\ LostAlone /\ (~overlap => Serial)

(* Types do not depend on the order of requests or of errors.              *)
LEMMA TypeStep ==
  ASSUME TypeOK, [Next]_vars
  PROVE  TypeOK'
<1> USE DEF TypeOK, Lost, None
<1>1. ASSUME NEW o \in Ops, NEW k \in {"start", "stop", "restart"}, Request(o, k)
      PROVE  TypeOK'
  <2>1. overlap' \in BOOLEAN
    BY Zenon, <1>1 DEF Request
  <2> QED
    BY <1>1, <2>1 DEF Request, manager
<1>2. ASSUME NEW o \in Ops, Start(o) \/ NewService(o) \/ NewServiceRaises(o)
      PROVE  TypeOK'
  <2>1. CASE Start(o)
    BY <2>1 DEF Start
  <2>2. CASE NewService(o)
    BY <2>2 DEF NewService
  <2> QED
    BY <1>2, <2>1, <2>2, RaisedTypes
<1>3. ASSUME NEW o \in Ops, StartOk(o) \/ StartError(o) \/ StartFalse(o)
      PROVE  TypeOK'
  <2>1. CASE StartOk(o)
    BY <2>1 DEF StartOk
  <2>2. CASE StartError(o)
    BY <2>2 DEF StartError
  <2>3. CASE StartFalse(o)
    BY <2>3 DEF StartFalse
  <2> QED
    BY <1>3, <2>1, <2>2, <2>3
<1>4. ASSUME NEW o \in Ops, Discarded(o)
      PROVE  TypeOK'
  <2>1. alive' \subseteq alive /\ inst' \in {inst, 0}
    BY <1>4 DEF Discarded
  <2>2. alive' \subseteq 1 .. launched /\ inst' \in 0 .. launched
    BY <2>1
  <2> QED
    BY <1>4, <2>2 DEF Discarded
<1>5. ASSUME NEW o \in Ops, Stop(o) \/ Poll(o)
      PROVE  TypeOK'
  BY <1>5 DEF Stop, Poll, AfterStop
<1>6. ASSUME NEW o \in Ops, Killed(o) \/ KillError(o)
      PROVE  TypeOK'
  <2>1. alive' \subseteq alive /\ inst' \in {inst, 0}
    BY <1>6 DEF Killed, KillError
  <2>2. alive' \subseteq 1 .. launched /\ inst' \in 0 .. launched
    BY <2>1
  <2> QED
    BY <1>6, <2>2 DEF Killed, KillError
<1>7. ASSUME NEW o \in Ops, ForceKill(o)
      PROVE  TypeOK'
  <2>1. alive' \subseteq alive /\ inst' \in {inst, 0} /\ forced' \subseteq forced \cup ({inst} \ {0})
    BY <1>7 DEF ForceKill
  <2>2. alive' \subseteq 1 .. launched /\ inst' \in 0 .. launched /\ forced' \subseteq 1 .. launched
    BY <2>1
  <2> QED
    BY <1>7, <2>2 DEF ForceKill
<1>8. ASSUME UNCHANGED vars
      PROVE  TypeOK'
  BY <1>8 DEF vars, manager
<1> QED
  BY <1>1, <1>2, <1>3, <1>4, <1>5, <1>6, <1>7, <1>8 DEF Next, Step

(* Nobody comes to know a service that was left behind.                    *)
LEMMA LostStep ==
  ASSUME TypeOK, LostAlone, [Next]_vars
  PROVE  LostAlone'
<1> USE DEF Lost, None
<1>1. ASSUME NEW o \in Ops, NewService(o) \/ NewServiceRaises(o)
      PROVE  LostAlone'
  <2>1. /\ launched + 1 # inst /\ launched + 1 # 0
        /\ \A p \in Ops : launched + 1 # target[p] /\ launched + 1 # handle[p]
    BY DEF TypeOK
  <2>2. CASE NewService(o)
    BY <2>1, <2>2 DEF NewService, TypeOK, LostAlone
  <2>3. CASE NewServiceRaises(o)
    BY <2>1, <2>3 DEF NewServiceRaises, TypeOK, LostAlone
  <2> QED
    BY <1>1, <2>2, <2>3
<1>2. ASSUME /\ \A p \in Ops : pc'[p] \in Lost => pc[p] \in Lost
             /\ inst' \in {inst, None} /\ handle' = handle
             /\ \A p \in Ops : target'[p] \in {target[p], inst}
      PROVE  LostAlone'
  BY <1>2 DEF LostAlone
<1>3. ASSUME NEW o \in Ops, NEW k \in {"start", "stop", "restart"}, Request(o, k)
      PROVE  LostAlone'
  BY <1>2, <1>3 DEF Request, manager, TypeOK
<1>4. ASSUME NEW o \in Ops, \/ Start(o) \/ StartOk(o) \/ StartError(o) \/ StartFalse(o)
                            \/ Discarded(o) \/ Stop(o) \/ Poll(o)
      PROVE  LostAlone'
  <2>1. \A p \in Ops : pc'[p] \in Lost => pc[p] \in Lost
    BY <1>4 DEF Start, StartOk, StartError, StartFalse, Discarded, Stop, Poll, AfterStop, TypeOK
  <2>2. inst' \in {inst, None} /\ handle' = handle
    BY <1>4 DEF Start, StartOk, StartError, StartFalse, Discarded, Stop, Poll
  <2>3. \A p \in Ops : target'[p] \in {target[p], inst}
    BY <1>4 DEF Start, StartOk, StartError, StartFalse, Discarded, Stop, Poll, TypeOK
  <2> QED
    BY <2>1, <2>2, <2>3, <1>2
<1>5. ASSUME NEW o \in Ops, Killed(o) \/ KillError(o) \/ ForceKill(o)
      PROVE  LostAlone'
  <2>1. inst' \in {inst, None} /\ UNCHANGED <<handle, pc, target>>
    BY <1>5 DEF Killed, KillError, ForceKill
  <2> QED
    BY <2>1, <1>2
<1>6. ASSUME UNCHANGED vars
      PROVE  LostAlone'
  BY <1>2, <1>6 DEF vars, manager
<1> QED
  BY <1>1, <1>3, <1>4, <1>5, <1>6 DEF Next, Step

(* What a step leaves of the services left behind.                         *)
LEMMA SameLeft ==
  ASSUME handle' = handle, \A p \in Ops : pc'[p] = "raised" <=> pc[p] = "raised"
  PROVE  LeftBy({"raised"})' = LeftBy({"raised"})
BY DEF LeftBy

LEMMA StrangerLeft ==
  ASSUME LostAlone
  PROVE  /\ inst \notin LeftBy({"raised"}) /\ None \notin LeftBy({"raised"})
         /\ \A o \in Ops : /\ target[o] \notin LeftBy({"raised"})
                          /\ pc[o] \notin Lost => handle[o] \notin LeftBy({"raised"})
BY DEF LostAlone, LeftBy, Lost

(* Serial survives each action of the one request that runs.  It rests on  *)
(* nothing but the order of requests: PromptErrors is not used.            *)
LEMMA SerialStep ==
  ASSUME TypeOK, LostAlone, Serial, [Next]_vars, ~overlap'
  PROVE  Serial'
<1> USE DEF Lost, None
<1>1. ASSUME NEW o \in Ops, NEW k \in {"start", "stop", "restart"}, Request(o, k)
      PROVE  Serial'
  <2>1. \A p \in Ops : Finished(p)
    BY <1>1 DEF Request, Idle
  <2>2. /\ UNCHANGED manager
        /\ pc'[o] \in {"start", "stop"}
        /\ \A p \in Ops \ {o} : pc'[p] = pc[p]
    BY <1>1 DEF Request, TypeOK
  <2>3. OneRequest'
    BY <2>1, <2>2 DEF OneRequest, Finished
  <2>4. KnownAlive' /\ Starting'
    <3>1. LeftBy({"raised"})' = LeftBy({"raised"})
      BY <1>1, <2>2, SameLeft DEF Request, manager
    <3> QED
      BY <2>2, <3>1 DEF Serial, KnownAlive, Starting, manager
  <2>5. Threatening'
    BY <2>1, <2>2 DEF Serial, Threatening, manager, Finished
  <2>6. Believed'
    BY <2>1, <2>2 DEF Serial, Believed, manager, Finished
  <2> QED
    BY <2>3, <2>4, <2>5, <2>6 DEF Serial
<1>2. ASSUME NEW o \in Ops, Start(o)
      PROVE  Serial'
  <2>1. OneRequest'
    BY <1>2 DEF Start, TypeOK, Serial, OneRequest, Finished, Threatening
  <2>2. KnownAlive'
    <3>1. LeftBy({"raised"})' = LeftBy({"raised"})
      BY <1>2, SameLeft DEF Start, TypeOK
    <3> QED
      BY <1>2, <3>1, StrangerLeft DEF Start, TypeOK, Serial, KnownAlive, Starting, Threatening
  <2>3. Starting'
    BY <1>2 DEF Start, TypeOK, Serial, KnownAlive, Starting, Threatening, OneRequest, Finished
  <2>4. Threatening'
    BY <1>2 DEF Start, TypeOK, Serial, KnownAlive, Starting, Threatening, OneRequest, Finished
  <2>5. Believed'
    BY <1>2 DEF Start, TypeOK, Serial, KnownAlive, Starting, Threatening, Believed, OneRequest, Finished
  <2> QED
    BY <2>1, <2>2, <2>3, <2>4, <2>5 DEF Serial
<1>3. ASSUME NEW o \in Ops, NewService(o)
      PROVE  Serial'
  <2>1. OneRequest'
    BY <1>3 DEF NewService, TypeOK, Serial, OneRequest, Finished, Threatening
  <2>2. KnownAlive'
    <3>1. LeftBy({"raised"})' = LeftBy({"raised"})
      <4>1. \A p \in Ops : pc'[p] = "raised" <=> pc[p] = "raised" /\ p # o
        BY <1>3 DEF NewService, TypeOK
      <4>2. \A p \in Ops : p # o => handle'[p] = handle[p]
        BY <1>3 DEF NewService, TypeOK
      <4>3. pc[o] # "raised"
        BY <1>3 DEF NewService
      <4> QED
        BY <4>1, <4>2, <4>3 DEF LeftBy
    <3> QED
      BY <1>3, <3>1, StrangerLeft DEF NewService, TypeOK, Serial, KnownAlive, Starting, Threatening
  <2>3. Starting'
    BY <1>3 DEF NewService, TypeOK, Serial, KnownAlive, Starting, Threatening, OneRequest, Finished
  <2>4. Threatening'
    BY <1>3 DEF NewService, TypeOK, Serial, KnownAlive, Starting, Threatening, OneRequest, Finished
  <2>5. Believed'
    BY <1>3 DEF NewService, TypeOK, Serial, KnownAlive, Starting, Threatening, Believed, OneRequest, Finished
  <2> QED
    BY <2>1, <2>2, <2>3, <2>4, <2>5 DEF Serial
<1>14. ASSUME NEW o \in Ops, NewServiceRaises(o)
       PROVE  Serial'
  <2>1. OneRequest'
    BY <1>14 DEF NewServiceRaises, TypeOK, Serial, OneRequest, Finished, Threatening
  <2>2. KnownAlive'
    <3>1. CASE pc' = [pc EXCEPT ![o] = "failed"] /\ UNCHANGED <<launched, alive, handle>>
      <4>1. LeftBy({"raised"})' = LeftBy({"raised"})
        BY <1>14, <3>1, SameLeft DEF NewServiceRaises, TypeOK
      <4> QED
        BY <1>14, <3>1, <4>1 DEF NewServiceRaises, Serial, KnownAlive
    <3>2. CASE /\ pc' = [pc EXCEPT ![o] = "raised"] /\ alive' = alive \cup {launched + 1}
               /\ handle' = [handle EXCEPT ![o] = launched + 1]
      <4>1. LeftBy({"raised"})' = LeftBy({"raised"}) \cup {launched + 1}
        BY <1>14, <3>2 DEF NewServiceRaises, TypeOK, LeftBy
      <4> QED
        BY <1>14, <3>2, <4>1 DEF NewServiceRaises, Serial, KnownAlive
    <3> QED
      BY <1>14, <3>1, <3>2 DEF NewServiceRaises
  <2>3. Starting'
    BY <1>14 DEF NewServiceRaises, TypeOK, Serial, Starting, OneRequest, Finished
  <2>4. Threatening'
    <3>1. \A p \in Ops : target[p] # launched + 1
      BY DEF TypeOK
    <3> QED
      BY <1>14, <3>1 DEF NewServiceRaises, TypeOK, Serial, Threatening, OneRequest, Finished
  <2>5. Believed'
    BY <1>14 DEF NewServiceRaises, TypeOK, Serial, KnownAlive, Starting, Threatening, Believed, OneRequest, Finished
  <2> QED
    BY <2>1, <2>2, <2>3, <2>4, <2>5 DEF Serial
<1>4. ASSUME NEW o \in Ops, StartOk(o)
      PROVE  Serial'
  <2>1. OneRequest'
    BY <1>4 DEF StartOk, TypeOK, Serial, OneRequest, Finished, Threatening
  <2>2. KnownAlive'
    <3>1. LeftBy({"raised"})' = LeftBy({"raised"})
      BY <1>4, SameLeft DEF StartOk, TypeOK
    <3> QED
      BY <1>4, <3>1, StrangerLeft DEF StartOk, TypeOK, Serial, KnownAlive, Starting, Threatening
  <2>3. Starting'
    BY <1>4 DEF StartOk, TypeOK, Serial, KnownAlive, Starting, Threatening, OneRequest, Finished
  <2>4. Threatening'
    BY <1>4 DEF StartOk, TypeOK, Serial, KnownAlive, Starting, Threatening, OneRequest, Finished
  <2>5. Believed'
    BY <1>4 DEF StartOk, TypeOK, Serial, KnownAlive, Starting, Threatening, Believed, OneRequest, Finished
  <2> QED
    BY <2>1, <2>2, <2>3, <2>4, <2>5 DEF Serial
<1>5. ASSUME NEW o \in Ops, StartError(o)
      PROVE  Serial'
  <2>1. OneRequest'
    BY <1>5 DEF StartError, StartBroken, TypeOK, Serial, OneRequest, Finished, Threatening
  <2>2. KnownAlive'
    <3>1. LeftBy({"raised"})' = LeftBy({"raised"})
      BY <1>5, SameLeft DEF StartError, StartBroken, TypeOK
    <3> QED
      BY <1>5, <3>1, StrangerLeft DEF StartError, StartBroken, TypeOK, Serial, KnownAlive, Starting, Threatening
  <2>3. Starting'
    BY <1>5 DEF StartError, StartBroken, TypeOK, Serial, KnownAlive, Starting, Threatening, OneRequest, Finished
  <2>4. Threatening'
    BY <1>5 DEF StartError, StartBroken, TypeOK, Serial, KnownAlive, Starting, Threatening, OneRequest, Finished
  <2>5. Believed'
    BY <1>5 DEF StartError, StartBroken, TypeOK, Serial, KnownAlive, Starting, Threatening, Believed, OneRequest, Finished
  <2> QED
    BY <2>1, <2>2, <2>3, <2>4, <2>5 DEF Serial
<1>6. ASSUME NEW o \in Ops, StartFalse(o)
      PROVE  Serial'
  <2>1. OneRequest'
    BY <1>6 DEF StartFalse, TypeOK, Serial, OneRequest, Finished, Threatening
  <2>2. KnownAlive'
    <3>1. LeftBy({"raised"})' = LeftBy({"raised"})
      BY <1>6, SameLeft DEF StartFalse, TypeOK
    <3> QED
      BY <1>6, <3>1, StrangerLeft DEF StartFalse, TypeOK, Serial, KnownAlive, Starting, Threatening
  <2>3. Starting'
    BY <1>6 DEF StartFalse, TypeOK, Serial, KnownAlive, Starting, Threatening, OneRequest, Finished
  <2>4. Threatening'
    BY <1>6 DEF StartFalse, TypeOK, Serial, KnownAlive, Starting, Threatening, OneRequest, Finished
  <2>5. Believed'
    BY <1>6 DEF StartFalse, TypeOK, Serial, KnownAlive, Starting, Threatening, Believed, OneRequest, Finished
  <2> QED
    BY <2>1, <2>2, <2>3, <2>4, <2>5 DEF Serial
<1>7. ASSUME NEW o \in Ops, Discarded(o)
      PROVE  Serial'
  <2>1. OneRequest'
    BY <1>7 DEF Discarded, TypeOK, Serial, OneRequest, Finished, Threatening
  <2>2. KnownAlive'
    <3>1. LeftBy({"raised"})' = LeftBy({"raised"})
      BY <1>7, SameLeft DEF Discarded, TypeOK
    <3> QED
      BY <1>7, <3>1, StrangerLeft DEF Discarded, TypeOK, Serial, KnownAlive, Starting, Threatening
  <2>3. Starting'
    BY <1>7 DEF Discarded, TypeOK, Serial, KnownAlive, Starting, Threatening, OneRequest, Finished
  <2>4. Threatening'
    BY <1>7 DEF Discarded, TypeOK, Serial, KnownAlive, Starting, Threatening, OneRequest, Finished
  <2>5. Believed'
    BY <1>7 DEF Discarded, TypeOK, Serial, KnownAlive, Starting, Threatening, Believed, OneRequest, Finished
  <2> QED
    BY <2>1, <2>2, <2>3, <2>4, <2>5 DEF Serial
<1>8. ASSUME NEW o \in Ops, Stop(o)
      PROVE  Serial'
  <2>1. OneRequest'
    BY <1>8 DEF Stop, AfterStop, TypeOK, Serial, OneRequest, Finished, Threatening
  <2>2. KnownAlive'
    <3>1. LeftBy({"raised"})' = LeftBy({"raised"})
      BY <1>8, SameLeft DEF Stop, AfterStop, TypeOK
    <3> QED
      BY <1>8, <3>1, StrangerLeft DEF Stop, AfterStop, TypeOK, Serial, KnownAlive, Starting, Threatening
  <2>3. Starting'
    BY <1>8 DEF Stop, AfterStop, TypeOK, Serial, KnownAlive, Starting, Threatening, OneRequest, Finished
  <2>4. Threatening'
    BY <1>8 DEF Stop, AfterStop, TypeOK, Serial, KnownAlive, Starting, Threatening, OneRequest, Finished
  <2>5. Believed'
    BY <1>8 DEF Stop, AfterStop, TypeOK, Serial, KnownAlive, Starting, Threatening, Believed, OneRequest, Finished
  <2> QED
    BY <2>1, <2>2, <2>3, <2>4, <2>5 DEF Serial
<1>9. ASSUME NEW o \in Ops, Killed(o)
      PROVE  Serial'
  <2>1. OneRequest'
    BY <1>9 DEF Killed, TypeOK, Serial, OneRequest, Finished, Threatening
  <2>2. KnownAlive'
    <3>1. LeftBy({"raised"})' = LeftBy({"raised"})
      BY <1>9, SameLeft DEF Killed, TypeOK
    <3> QED
      BY <1>9, <3>1, StrangerLeft DEF Killed, TypeOK, Serial, KnownAlive, Starting, Threatening
  <2>3. Starting'
    BY <1>9 DEF Killed, TypeOK, Serial, KnownAlive, Starting, Threatening, OneRequest, Finished
  <2>4. Threatening'
    BY <1>9 DEF Killed, TypeOK, Serial, KnownAlive, Starting, Threatening, OneRequest, Finished
  <2>5. Believed'
    BY <1>9 DEF Killed, TypeOK, Serial, KnownAlive, Starting, Threatening, Believed, OneRequest, Finished
  <2> QED
    BY <2>1, <2>2, <2>3, <2>4, <2>5 DEF Serial
<1>10. ASSUME NEW o \in Ops, KillError(o)
      PROVE  Serial'
  <2>1. OneRequest'
    BY <1>10 DEF KillError, TypeOK, Serial, OneRequest, Finished, Threatening
  <2>2. KnownAlive'
    <3>1. LeftBy({"raised"})' = LeftBy({"raised"})
      BY <1>10, SameLeft DEF KillError, TypeOK
    <3> QED
      BY <1>10, <3>1, StrangerLeft DEF KillError, TypeOK, Serial, KnownAlive, Starting, Threatening
  <2>3. Starting'
    BY <1>10 DEF KillError, TypeOK, Serial, KnownAlive, Starting, Threatening, OneRequest, Finished
  <2>4. Threatening'
    BY <1>10 DEF KillError, TypeOK, Serial, KnownAlive, Starting, Threatening, OneRequest, Finished
  <2>5. Believed'
    BY <1>10 DEF KillError, TypeOK, Serial, KnownAlive, Starting, Threatening, Believed, OneRequest, Finished
  <2> QED
    BY <2>1, <2>2, <2>3, <2>4, <2>5 DEF Serial
<1>11. ASSUME NEW o \in Ops, ForceKill(o)
      PROVE  Serial'
  <2>1. OneRequest'
    BY <1>11 DEF ForceKill, TypeOK, Serial, OneRequest, Finished, Threatening
  <2>2. KnownAlive'
    <3>1. LeftBy({"raised"})' = LeftBy({"raised"})
      BY <1>11, SameLeft DEF ForceKill, TypeOK
    <3> QED
      BY <1>11, <3>1, StrangerLeft DEF ForceKill, TypeOK, Serial, KnownAlive, Starting, Threatening
  <2>3. Starting'
    BY <1>11 DEF ForceKill, TypeOK, Serial, KnownAlive, Starting, Threatening, OneRequest, Finished
  <2>4. Threatening'
    BY <1>11 DEF ForceKill, TypeOK, Serial, KnownAlive, Starting, Threatening, OneRequest, Finished
  <2>5. Believed'
    BY <1>11 DEF ForceKill, TypeOK, Serial, KnownAlive, Starting, Threatening, Believed, OneRequest, Finished
  <2> QED
    BY <2>1, <2>2, <2>3, <2>4, <2>5 DEF Serial
<1>12. ASSUME NEW o \in Ops, Poll(o)
      PROVE  Serial'
  <2>1. OneRequest'
    BY <1>12 DEF Poll, AfterStop, TypeOK, Serial, OneRequest, Finished, Threatening
  <2>2. KnownAlive'
    <3>1. LeftBy({"raised"})' = LeftBy({"raised"})
      BY <1>12, SameLeft DEF Poll, AfterStop, TypeOK
    <3> QED
      BY <1>12, <3>1, StrangerLeft DEF Poll, AfterStop, TypeOK, Serial, KnownAlive, Starting, Threatening
  <2>3. Starting'
    BY <1>12 DEF Poll, AfterStop, TypeOK, Serial, KnownAlive, Starting, Threatening, OneRequest, Finished
  <2>4. Threatening'
    BY <1>12 DEF Poll, AfterStop, TypeOK, Serial, KnownAlive, Starting, Threatening, OneRequest, Finished
  <2>5. Believed'
    BY <1>12 DEF Poll, AfterStop, TypeOK, Serial, KnownAlive, Starting, Threatening, Believed, OneRequest, Finished
  <2> QED
    BY <2>1, <2>2, <2>3, <2>4, <2>5 DEF Serial
<1>13. ASSUME UNCHANGED vars
      PROVE  Serial'
  BY <1>13 DEF vars, manager, Serial, OneRequest, Finished, KnownAlive, Starting, Threatening, Believed, LeftBy
<1> QED
  BY <1>1, <1>2, <1>3, <1>4, <1>5, <1>6, <1>7, <1>8, <1>9, <1>10, <1>11, <1>12, <1>13, <1>14 DEF Next, Step

(* Once requests have overlapped, they have.                               *)
LEMMA InitSInv == Init => SInv
  BY InitIInv DEF Init, IInv, SInv, Serial, OneRequest, Finished, KnownAlive, Starting, Threatening, Believed, LeftBy, None

LEMMA NextSInv ==
  ASSUME SInv, [Next]_vars
  PROVE  SInv'
<1>1. TypeOK'
  BY TypeStep DEF SInv
<1>3. LostAlone'
  BY LostStep DEF SInv
<1>2. ASSUME ~overlap' PROVE Serial'
  <2>1. ~overlap
    BY <1>2 DEF Next, Step, Request, Start, NewService, NewServiceRaises, StartOk, StartError, StartFalse,
                Discarded, Stop, Killed, KillError, ForceKill, Poll, vars
  <2> QED
    BY <1>2, <2>1, SerialStep DEF SInv
<1> QED
  BY <1>1, <1>2, <1>3 DEF SInv

(* appmgr.lua:42 and :97: without overlap the assertion never fails and a  *)
(* timer kills only the instance its own stop waits for, for any number of *)
(* requests and whether error replies are prompt or not.                   *)
THEOREM SerialRequestsSafe == Spec => []SerialSafe
<1>1. SInv => SerialSafe
  BY DEF SInv, SerialSafe, Serial, ForceKillOnlyStuck, NoStartBug, Threatening, Starting
<1> QED
  BY <1>1, InitSInv, NextSInv, PTL DEF Spec

(* Whenever the manager has come to rest, the services that exist are the  *)
(* one it knows and those whose init raised an error in snax.newservice    *)
(* (appmgr.lua:41), and listeners believe so.                              *)
THEOREM AtRestManaged == Spec => []Managed
<1>1. SInv => Managed
  BY DEF SInv, Managed, Serial, KnownAlive, Believed, Idle, Finished, Lost
<1> QED
  BY <1>1, InitSInv, NextSInv, PTL DEF Spec
=============================================================================
