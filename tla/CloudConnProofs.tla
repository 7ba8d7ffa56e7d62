-------------------------- MODULE CloudConnProofs --------------------------
(***************************************************************************)
(* The connection to the broker, for any number of procedures, failures    *)
(* and requests, and without PromptAck: whatever is published goes to a    *)
(* live client, the gateway is never left without a procedure, and it has  *)
(* one only, unless reconnect was requested or the online message failed.  *)
(***************************************************************************)
EXTENDS CloudConn, TLAPS

(* SingleProcedure needs ClientInUse, for a client in its loop is the one  *)
(* procedure; NeverStranded needs to know that closing was asked for.      *)
IInv ==
  /\ TypeOK
  /\ ClientInUse
  /\ closing => asked
  /\ NeverStranded
  /\ SingleProcedure

LEMMA InitIInv == Init => IInv
<1> SUFFICES ASSUME Init PROVE IInv
  OBVIOUS
<1>1. closing \in BOOLEAN /\ asked \in BOOLEAN /\ doubled \in BOOLEAN /\ ~closing
  BY Zenon DEF Init
<1>2. TypeOK
  BY <1>1, CloudConnAssumption DEF Init, TypeOK
<1>3. Active = {} /\ due = 1 /\ client = None
  BY DEF Init, Active
<1> QED
  BY <1>1, <1>2, <1>3 DEF IInv, ClientInUse, NeverStranded, SingleProcedure

(* The procedure p ends, after ON_DISCONNECT.                              *)
LEMMA EndSound ==
  ASSUME IInv, NEW p \in Procs, pc[p] = "loop", OnDisconnect(p), Done(p),
         UNCHANGED <<faults, requests, asked, doubled>>
  PROVE  IInv'
<1> USE DEF IInv
<1>1. /\ Active' = Active \ {p} /\ p \in Active
      /\ \A q \in Procs \ {p} : pc'[q] = pc[q] /\ link'[q] = link[q]
      /\ pc'[p] = "free" /\ link'[p] = "none"
  BY DEF Done, TypeOK, Active
<1>2. closing' = FALSE /\ closing' \in BOOLEAN
  BY Zenon DEF Done
<1>3. due' \in Nat /\ due' \in {due, due + 1} /\ client' \in {client, None}
  BY DEF OnDisconnect, TypeOK
<1>4. TypeOK'
  BY <1>1, <1>2, <1>3 DEF TypeOK, Done
<1>5. client' # None => client' = client /\ client # p
  BY DEF OnDisconnect, Current
<1>6. ClientInUse'
  BY <1>1, <1>5 DEF ClientInUse, TypeOK
<1>7. NeverStranded'
  <2>1. CASE Current(p) /\ ~closing
    <3>1. due' = due + 1 /\ due \in Nat
      BY <2>1 DEF OnDisconnect, TypeOK
    <3> QED BY <3>1 DEF NeverStranded
  <2>2. CASE Current(p) /\ closing
    <3>1. asked'
      BY <2>2
    <3> QED BY <3>1 DEF NeverStranded
  <2>3. CASE ~Current(p)
    <3>1. client # None /\ client # p /\ client \in Procs /\ pc[client] = "loop"
      BY <2>3 DEF Current, ClientInUse, TypeOK
    <3>2. client \in Active'
      BY <1>1, <3>1 DEF Active
    <3> QED BY <3>2 DEF NeverStranded
  <2> QED BY <2>1, <2>2, <2>3
<1>8. SingleProcedure'
  <2> SUFFICES ASSUME ~doubled PROVE SingleProcedure'
    BY DEF SingleProcedure
  <2>1. due = 0 /\ Active = {p}
    BY <1>1 DEF SingleProcedure
  <2> QED
    BY <1>1, <1>3, <2>1 DEF SingleProcedure
<1> QED
  BY <1>2, <1>4, <1>6, <1>7, <1>8

(* One attempt to connect, made by a procedure that is not in its loop,    *)
(* leaves it in its loop or in a pause unless disconnect is waiting.       *)
LEMMA ConnectSound ==
  ASSUME TypeOK, NEW p \in Procs, pc[p] # "loop", Connect(p)
  PROVE  /\ pc' \in [Procs -> {"free", "retry", "loop"}]
         /\ link' \in [Procs -> {"none", "sent", "acked", "up"}]
         /\ \A q \in Procs : link'[q] # "none" <=> pc'[q] = "loop"
         /\ cut' \subseteq {q \in Procs : pc'[q] = "loop"}
         /\ faults' \in 0 .. MaxFaults
         /\ \A q \in Procs \ {p} : pc'[q] = pc[q] /\ link'[q] = link[q]
         /\ closing' \in BOOLEAN
         /\ closing' => closing
         /\ ~closing => pc'[p] # "free"
<1>1. closing' \in BOOLEAN /\ (closing' => closing)
  BY Zenon DEF Connect, Done, TypeOK
<1>2. faults' \in 0 .. MaxFaults
  BY CloudConnAssumption DEF Connect, Fails, TypeOK
<1>3. CASE pc' = [pc EXCEPT ![p] = "retry"] /\ link' = link /\ cut' = cut
  BY <1>1, <1>2, <1>3 DEF TypeOK
<1>4. CASE /\ pc' = [pc EXCEPT ![p] = "loop"] /\ link' = [link EXCEPT ![p] = "sent"]
           /\ cut' = cut
  BY <1>1, <1>2, <1>4 DEF TypeOK
<1>5. CASE closing /\ Done(p)
  BY <1>1, <1>2, <1>5 DEF TypeOK, Done
<1> QED
  BY <1>3, <1>4, <1>5 DEF Connect

(* The invariant survives each action.                                     *)
LEMMA NextIInv ==
  ASSUME IInv, [Next]_vars
  PROVE  IInv'
<1> USE DEF IInv
<1>1. ASSUME NEW p \in Procs, Begin(p)
      PROVE  IInv'
  <2>1. due \in Nat /\ due > 0 /\ due' = due - 1 /\ pc[p] = "free" /\ p \notin Active
    BY <1>1 DEF Begin, TypeOK, Active
  <2>2. UNCHANGED <<client, requests, asked, doubled>>
    BY <1>1 DEF Begin
  <2>3. CASE client = None
    <3>1. Connect(p)
      BY <1>1, <2>3 DEF Begin
    <3>2. TypeOK' /\ (closing' => asked')
      BY <2>1, <2>2, <3>1, ConnectSound DEF TypeOK
    <3>3. ~closing => p \in Active'
      BY <2>1, <3>1, ConnectSound DEF Active
    <3>4. Active' \subseteq Active \cup {p}
      BY <2>1, <3>1, ConnectSound DEF Active
    <3>5. ClientInUse'
      BY <2>2, <2>3 DEF ClientInUse
    <3>6. NeverStranded'
      BY <2>2, <3>3 DEF NeverStranded
    <3>7. SingleProcedure'
      BY <2>1, <2>2, <3>4 DEF SingleProcedure
    <3> QED
      BY <3>2, <3>5, <3>6, <3>7
  <2>4. CASE client # None
    <3>1. UNCHANGED <<closing, pc, link, cut, faults>>
      BY <1>1, <2>4 DEF Begin
    <3>2. client \in Active
      BY <2>4 DEF ClientInUse, TypeOK, Active
    <3> QED
      BY <2>1, <2>2, <3>1, <3>2
      DEF TypeOK, ClientInUse, NeverStranded, SingleProcedure, Active
  <2> QED
    BY <2>3, <2>4
<1>2. ASSUME NEW p \in Procs, Retry(p)
      PROVE  IInv'
  <2>1. Connect(p) /\ pc[p] = "retry" /\ p \in Active
    BY <1>2 DEF Retry, Active
  <2>2. UNCHANGED <<client, due, requests, asked, doubled>>
    BY <1>2 DEF Retry
  <2>3. TypeOK' /\ (closing' => asked')
    BY <2>1, <2>2, ConnectSound DEF TypeOK
  <2>4. Active' \subseteq Active /\ (~closing => p \in Active')
    BY <2>1, ConnectSound DEF Active
  <2>5. ClientInUse'
    <3>1. client # None => client # p
      BY <2>1 DEF ClientInUse
    <3> QED
      BY <2>1, <2>2, <3>1, ConnectSound DEF ClientInUse, TypeOK
  <2>6. NeverStranded'
    BY <2>2, <2>4 DEF NeverStranded
  <2>7. SingleProcedure'
    BY <2>2, <2>4 DEF SingleProcedure
  <2> QED
    BY <2>3, <2>5, <2>6, <2>7
<1>3. ASSUME NEW p \in Procs, GiveUp(p)
      PROVE  IInv'
  <2>1. /\ pc[p] = "retry" /\ pc' = [pc EXCEPT ![p] = "free"] /\ due' \in Nat
        /\ due' = (IF client = None THEN due + 1 ELSE due) /\ faults' \in 0 .. MaxFaults
        /\ UNCHANGED <<client, closing, link, cut, requests, asked, doubled>>
    BY <1>3, CloudConnAssumption DEF GiveUp, Reconnects, Fails, TypeOK
  <2>2. Active' = Active \ {p} /\ p \in Active
    BY <2>1 DEF TypeOK, Active
  <2>3. TypeOK' /\ ClientInUse'
    BY <2>1 DEF TypeOK, ClientInUse
  <2>4. client # None => client \in Active'
    BY <2>1, <2>2 DEF ClientInUse, TypeOK, Active
  <2>5. NeverStranded'
    BY <2>1, <2>4 DEF NeverStranded, TypeOK
  <2>6. SingleProcedure'
    BY <2>1, <2>2 DEF SingleProcedure, TypeOK
  <2> QED
    BY <2>1, <2>3, <2>5, <2>6
<1>4. ASSUME NEW p \in Procs, OnConnectSecond(p) \/ Lost(p) \/ Close(p)
      PROVE  IInv'
  <2>1. pc[p] = "loop"
    BY <1>4 DEF OnConnectSecond, Lost, Close, TypeOK
  <2> QED
    BY <1>4, <2>1, EndSound DEF OnConnectSecond, Lost, Close
<1>5. ASSUME NEW p \in Procs, OnConnectUnpublished(p)
      PROVE  IInv'
  <2>1. /\ client = None /\ client' = None /\ doubled' = TRUE
        /\ closing' = FALSE /\ asked' = asked
    BY <1>5 DEF OnConnectUnpublished, Done
  <2>2. due' \in Nat /\ due' > 0 /\ faults' \in 0 .. MaxFaults
    BY <1>5, CloudConnAssumption DEF OnConnectUnpublished, Reconnects, Fails, TypeOK
  <2>3. TypeOK'
    <3>1. closing' \in BOOLEAN /\ asked' \in BOOLEAN /\ doubled' \in BOOLEAN
      BY <2>1, Zenon DEF TypeOK
    <3> QED
      BY <1>5, <2>1, <2>2, <3>1 DEF OnConnectUnpublished, Done, TypeOK
  <2> QED
    BY <2>1, <2>2, <2>3 DEF ClientInUse, NeverStranded, SingleProcedure
<1>6. ASSUME NEW p \in Procs, OnConnect(p)
      PROVE  IInv'
  <2>1. client = None /\ pc[p] = "loop" /\ UNCHANGED <<due, faults, requests, asked, doubled>>
    BY <1>6 DEF OnConnect, TypeOK
  <2>2. CASE closing
    <3>1. Done(p) /\ client' = None /\ asked /\ asked'
      BY <1>6, <2>1, <2>2 DEF OnConnect
    <3>2. TypeOK'
      <4>1. closing' \in BOOLEAN
        BY <3>1, Zenon DEF Done
      <4> QED BY <2>1, <3>1, <4>1 DEF Done, TypeOK
    <3>3. Active' \subseteq Active
      BY <3>1 DEF Done, TypeOK, Active
    <3> QED
      BY <2>1, <3>1, <3>2, <3>3 DEF Done, ClientInUse, NeverStranded, SingleProcedure
  <2>3. CASE ~closing
    <3>1. /\ client' = p /\ link' = [link EXCEPT ![p] = "up"]
          /\ UNCHANGED <<closing, pc, cut>>
      BY <1>6, <2>3 DEF OnConnect
    <3> QED
      BY <2>1, <3>1 DEF TypeOK, ClientInUse, NeverStranded, SingleProcedure, Active
  <2> QED
    BY <2>2, <2>3
<1>7. ASSUME NEW p \in Procs, Accept(p)
      PROVE  IInv'
  <2>1. client # None => client # p
    BY <1>7 DEF Accept, ClientInUse
  <2> QED
    BY <1>7, <2>1 DEF Accept, TypeOK, ClientInUse, NeverStranded, SingleProcedure, Active
<1>8. ASSUME NEW p \in Procs, Break(p)
      PROVE  IInv'
  BY <1>8, CloudConnAssumption
  DEF Break, Fails, TypeOK, ClientInUse, NeverStranded, SingleProcedure, Active
<1>9. CASE Disconnect
  <2>1. closing' \in BOOLEAN /\ asked' \in BOOLEAN /\ asked'
    BY <1>9, Zenon DEF Disconnect
  <2> QED
    BY <1>9, <2>1, CloudConnAssumption
    DEF Disconnect, Requested, TypeOK, ClientInUse, NeverStranded, SingleProcedure, Active
<1>10. CASE Reconnect
  <2>1. doubled' \in BOOLEAN /\ doubled'
    BY <1>10, Zenon DEF Reconnect
  <2> QED
    BY <1>10, <2>1, CloudConnAssumption
    DEF Reconnect, Requested, TypeOK, ClientInUse, NeverStranded, SingleProcedure, Active
<1>11. CASE UNCHANGED vars
  BY <1>11 DEF vars, TypeOK, ClientInUse, NeverStranded, SingleProcedure, Active
<1> QED
  BY <1>1, <1>2, <1>3, <1>4, <1>5, <1>6, <1>7, <1>8, <1>9, <1>10, <1>11 DEF Next, Turn

LEMMA Inductive == Spec => []IInv
  BY InitIInv, NextIInv, PTL DEF Spec

(* Publishing never uses a client whose procedure ended and destroyed it.  *)
THEOREM ClientUsable == Spec => []ClientInUse
  BY Inductive, PTL DEF IInv

(* With the types of the state: a client in use has a link, and a link its *)
(* procedure.                                                              *)
THEOREM ClientAlwaysSound == Spec => []ClientSound
  BY Inductive, PTL DEF IInv, ClientSound

(* Without a request to disconnect the service always goes on connecting.  *)
THEOREM AlwaysProcedure == Spec => []NeverStranded
  BY Inductive, PTL DEF IInv

(* Failures of any number do not multiply the procedures.                  *)
THEOREM OneProcedure == Spec => []SingleProcedure
  BY Inductive, PTL DEF IInv

(* When a procedure that is the only one ends for a waiting disconnect     *)
(* nothing is left.                                                        *)
LEMMA StepCloses ==
  ASSUME IInv, [Next]_vars, closing, ~closing', ~doubled'
  PROVE  client' = None /\ due' = 0 /\ Active' = {}
<1> USE DEF IInv
<1>1. ~doubled
  BY DEF Next, Begin, Retry, GiveUp, Turn, OnConnectSecond, OnConnectUnpublished, OnConnect,
         Lost, Close, Accept, Break, Disconnect, Reconnect, vars
<1>2. ASSUME NEW p \in Procs, pc[p] = "loop", Done(p)
      PROVE  due = 0 /\ Active' = {} /\ client \in {None, p}
  <2>1. p \in Active /\ Active' = Active \ {p}
    BY <1>2 DEF Done, TypeOK, Active
  <2>2. client # None => client \in Active
    BY DEF ClientInUse, TypeOK, Active
  <2> QED
    BY <1>1, <2>1, <2>2 DEF SingleProcedure
<1>3. ASSUME NEW p \in Procs, Begin(p)
      PROVE  client' = None /\ due' = 0 /\ Active' = {}
  <2>1. client = None /\ client' = None /\ Done(p) /\ due > 0 /\ due' = due - 1
    BY <1>3 DEF Begin, Connect
  <2>2. due = 1 /\ Active = {}
    BY <1>1, <2>1 DEF SingleProcedure, TypeOK
  <2> QED
    BY <2>1, <2>2 DEF Done, TypeOK, Active
<1>4. ASSUME NEW p \in Procs, Retry(p)
      PROVE  client' = None /\ due' = 0 /\ Active' = {}
  <2>1. pc[p] = "retry" /\ Done(p) /\ client' = client /\ due' = due
    BY <1>4 DEF Retry, Connect
  <2>2. p \in Active /\ Active' = Active \ {p}
    BY <2>1 DEF Done, TypeOK, Active
  <2>3. client # None => client \in Active /\ client # p
    BY <2>1 DEF ClientInUse, TypeOK, Active
  <2> QED
    BY <1>1, <2>1, <2>2, <2>3 DEF SingleProcedure
<1>5. ASSUME NEW p \in Procs, OnConnectSecond(p) \/ Lost(p) \/ Close(p)
      PROVE  client' = None /\ due' = 0 /\ Active' = {}
  <2>1. pc[p] = "loop" /\ Done(p) /\ OnDisconnect(p)
    BY <1>5 DEF OnConnectSecond, Lost, Close, TypeOK
  <2> QED
    BY <2>1, <1>2 DEF OnDisconnect, Current
<1>6. ASSUME NEW p \in Procs, OnConnect(p)
      PROVE  client' = None /\ due' = 0 /\ Active' = {}
  <2>1. pc[p] = "loop" /\ Done(p) /\ client' = None /\ due' = due
    BY <1>6 DEF OnConnect, TypeOK
  <2> QED
    BY <2>1, <1>2
<1>7. ASSUME NEW p \in Procs, OnConnectUnpublished(p)
      PROVE  FALSE
  BY <1>7 DEF OnConnectUnpublished
<1>8. ASSUME \/ \E p \in Procs : GiveUp(p) \/ Accept(p) \/ Break(p)
             \/ Disconnect \/ Reconnect \/ UNCHANGED vars
      PROVE  FALSE
  BY <1>8 DEF GiveUp, Accept, Break, Disconnect, Reconnect, vars
<1> QED
  BY <1>3, <1>4, <1>5, <1>6, <1>7, <1>8 DEF Next, Turn

(* A disconnect that returns has closed the connection for good.           *)
THEOREM DisconnectCloses == Spec => ClosedForGood
<1>1. IInv /\ [Next]_vars
      => [closing /\ ~closing' /\ ~doubled'
          => client' = None /\ due' = 0 /\ Active' = {}]_vars
  BY StepCloses
<1> QED
  BY <1>1, Inductive, PTL DEF Spec, ClosedForGood
=============================================================================
