----------------------------- MODULE CloudConn -----------------------------
(***************************************************************************)
(* The connection of the gateway to its MQTT broker (snax/cloud.lua).  A   *)
(* connection procedure, connect_proc, makes a client, tries to connect    *)
(* and then runs the client's loop until the client is closed; callbacks   *)
(* of the client and timers start the next procedure.  All of them share   *)
(* mqtt_client and close_connection.  A procedure waits only between two   *)
(* attempts and at skynet.sleep(0) before a turn of its loop, so one turn, *)
(* with the callbacks inside, is one action.                               *)
(*                                                                         *)
(* The broker keeps one session per device: a new one ends the others.     *)
(* disconnect calls ON_DISCONNECT for a client that did not hear of the    *)
(* end of its connection before.                                           *)
(***************************************************************************)
EXTENDS Integers

CONSTANTS
  Procs,       (* bound: procedures that run at a time                      *)
  None,        (* mqtt_client = nil                                         *)
  PromptAck,   (* is an answer of the broker that is under way read before  *)
               (* a timer of start_reconnect, a second at least, fires?     *)
  MaxFaults,   (* bound: attempts, connections and publishes that fail      *)
  MaxRequests  (* bound: requests to disconnect and to reconnect            *)

ASSUME CloudConnAssumption ==
  /\ None \notin Procs /\ PromptAck \in BOOLEAN
  /\ MaxFaults \in Nat /\ MaxRequests \in Nat

VARIABLES
  client,   (* mqtt_client: the procedure whose client it is                *)
  closing,  (* close_connection # nil: is response.disconnect waiting?      *)
  due,      (* the calls of connect_proc that a timer or fork will make     *)
  pc,       (* per procedure: "free", "retry" between two attempts, "loop"  *)
  link,     (* its connection: "none", "sent" CONNECT, "acked", "up"        *)
  cut,      (* the procedures whose connection broke without their notice   *)
  faults,   (* the failures so far                                          *)
  requests, (* the requests so far                                          *)
  asked,    (* history: was disconnect requested?                           *)
  doubled   (* history: was reconnect requested, or the online message not  *)
            (* published, each of which starts one procedure more?          *)

vars == <<client, closing, due, pc, link, cut, faults, requests, asked, doubled>>

-----------------------------------------------------------------------------
Active == {p \in Procs : pc[p] # "free"}

Init == /\ client = None
        /\ closing = FALSE
        /\ due = 1
        /\ pc = [p \in Procs |-> "free"]
        /\ link = [p \in Procs |-> "none"]
        /\ cut = {}
        /\ faults = 0
        /\ requests = 0
        /\ asked = FALSE
        /\ doubled = FALSE

Fails == faults < MaxFaults /\ faults' = faults + 1

(* start_reconnect, which does nothing while there is a client.            *)
Reconnects(c) == IF c = None THEN 1 ELSE 0

MutNoWake(p) ==             (* a wait for the end is not woken               *)
  /\ pc' = [pc EXCEPT ![p] = "free"]
  /\ link' = [link EXCEPT ![p] = "none"]
  /\ cut' = cut \ {p}
  /\ UNCHANGED closing

(* The procedure destroys its client and wakes the waiting disconnect,     *)
(* which returns at once.                                                  *)
Done(p) == /\ pc' = [pc EXCEPT ![p] = "free"]
           /\ link' = [link EXCEPT ![p] = "none"]
           /\ cut' = cut \ {p}
           /\ closing' = FALSE

Current(p) == client \in {None, p}

MutKeepClient(p) ==         (* mqtt_client = nil is missing                  *)
  /\ UNCHANGED client
  /\ due' = IF Current(p) /\ ~closing THEN due + 1 ELSE due

MutOnlyClient(p) ==         (* "not mqtt_client or" is missing               *)
  IF client = p
  THEN client' = None /\ due' = IF closing THEN due ELSE due + 1
  ELSE UNCHANGED <<client, due>>

MutReconnectAlways(p) ==    (* close_connection is not looked at             *)
  IF Current(p)
  THEN client' = None /\ due' = due + 1
  ELSE UNCHANGED <<client, due>>

(* ON_DISCONNECT.                                                          *)
OnDisconnect(p) ==
  IF Current(p)
  THEN client' = None /\ due' = IF closing THEN due ELSE due + 1
  ELSE UNCHANGED <<client, due>>

-----------------------------------------------------------------------------
(* One attempt to connect; a waiting disconnect ends the procedure before  *)
(* the first turn of its loop.                                             *)
Connect(p) ==
  \/ /\ Fails
     /\ pc' = [pc EXCEPT ![p] = "retry"]
     /\ UNCHANGED <<closing, link, cut>>
  \/ /\ UNCHANGED faults
     /\ IF closing
        THEN Done(p)
        ELSE /\ pc' = [pc EXCEPT ![p] = "loop"]
             /\ link' = [link EXCEPT ![p] = "sent"]
             /\ UNCHANGED <<closing, cut>>

MutBegin(p) ==              (* connect_proc does not look at mqtt_client     *)
  /\ due > 0 /\ pc[p] = "free"
  /\ PromptAck => \A q \in Procs : link[q] # "acked"
  /\ due' = due - 1
  /\ Connect(p)
  /\ UNCHANGED <<client, requests, asked, doubled>>

(* connect_proc is called.                                                 *)
Begin(p) ==
  /\ due > 0 /\ pc[p] = "free"
  /\ PromptAck => \A q \in Procs : link[q] # "acked"
  /\ due' = due - 1
  /\ IF client = None THEN Connect(p) ELSE UNCHANGED <<closing, pc, link, cut, faults>>
  /\ UNCHANGED <<client, requests, asked, doubled>>

(* It tries again after a sleep ...                                        *)
Retry(p) ==
  /\ pc[p] = "retry"
  /\ Connect(p)
  /\ UNCHANGED <<client, due, requests, asked, doubled>>

(* ... or, when the sleep has grown too long, leaves it to a new one.      *)
GiveUp(p) ==
  /\ pc[p] = "retry"
  /\ Fails
  /\ pc' = [pc EXCEPT ![p] = "free"]
  /\ due' = due + Reconnects(client)
  /\ UNCHANGED <<client, closing, link, cut, requests, asked, doubled>>

(* ON_CONNECT(true) while there is another client: this one is closed.     *)
OnConnectSecond(p) ==
  /\ link[p] = "acked" /\ client # None
  /\ OnDisconnect(p)
  /\ Done(p)
  /\ UNCHANGED <<faults, requests, asked, doubled>>

(* ON_CONNECT(true), but the online message cannot be published: one       *)
(* reconnection is started here, another by ON_DISCONNECT.                 *)
OnConnectUnpublished(p) ==
  /\ link[p] = "acked" /\ client = None
  /\ Fails
  /\ doubled' = TRUE
  /\ due' = due + Reconnects(client) + (IF closing THEN 0 ELSE 1)
  /\ Done(p)
  /\ UNCHANGED <<client, requests, asked>>

(* ON_CONNECT(true); a waiting disconnect closes the client right after.   *)
OnConnect(p) ==
  /\ link[p] = "acked" /\ client = None
  /\ IF closing
     THEN Done(p) /\ UNCHANGED client
     ELSE /\ client' = p
          /\ link' = [link EXCEPT ![p] = "up"]
          /\ UNCHANGED <<closing, pc, cut>>
  /\ UNCHANGED <<due, faults, requests, asked, doubled>>

MutLost(p) ==               (* a refusal starts a reconnection of its own    *)
  /\ p \in cut
  /\ client' = (IF Current(p) THEN None ELSE client)
  /\ due' = due + (IF Current(p) /\ ~closing THEN 1 ELSE 0)
                + (IF link[p] = "sent" THEN Reconnects(client) ELSE 0)
  /\ Done(p)
  /\ UNCHANGED <<faults, requests, asked, doubled>>

(* A turn that finds the connection lost or refused.                       *)
Lost(p) ==
  /\ p \in cut
  /\ OnDisconnect(p)
  /\ Done(p)
  /\ UNCHANGED <<faults, requests, asked, doubled>>

(* A turn without an event while disconnect is waiting.                    *)
Close(p) ==
  /\ pc[p] = "loop" /\ closing
  /\ OnDisconnect(p)
  /\ Done(p)
  /\ UNCHANGED <<faults, requests, asked, doubled>>

Turn(p) == OnConnectSecond(p) \/ OnConnectUnpublished(p) \/ OnConnect(p)
           \/ Lost(p) \/ Close(p)

-----------------------------------------------------------------------------
(* The broker accepts a connection and ends the others of this device.     *)
Accept(p) ==
  /\ link[p] = "sent" /\ p \notin cut
  /\ link' = [link EXCEPT ![p] = "acked"]
  /\ cut' = cut \cup {q \in Procs \ {p} : link[q] \in {"acked", "up"}}
  /\ UNCHANGED <<client, closing, due, pc, faults, requests, asked, doubled>>

(* A connection breaks, or the broker refuses it.                          *)
Break(p) ==
  /\ pc[p] = "loop" /\ p \notin cut
  /\ Fails
  /\ cut' = cut \cup {p}
  /\ UNCHANGED <<client, closing, due, pc, link, requests, asked, doubled>>

Requested == requests < MaxRequests /\ requests' = requests + 1

(* response.disconnect up to its wait.                                     *)
Disconnect ==
  /\ Requested
  /\ ~closing
  /\ closing' = TRUE
  /\ asked' = TRUE
  /\ UNCHANGED <<client, due, pc, link, cut, faults, doubled>>

(* response.reconnect without a client.                                    *)
Reconnect ==
  /\ Requested
  /\ client = None
  /\ due' = due + 1
  /\ doubled' = TRUE
  /\ UNCHANGED <<client, closing, pc, link, cut, faults, asked>>

Next == \/ \E p \in Procs : \/ Begin(p) \/ Retry(p) \/ GiveUp(p) \/ Turn(p)
                            \/ Accept(p) \/ Break(p)
        \/ Disconnect \/ Reconnect

Spec == Init /\ [][Next]_vars

(* Timers fire, procedures run, and the broker answers a connection that   *)
(* does not break.                                                         *)
Fairness == /\ WF_vars(\E p \in Procs : Begin(p))
            /\ \A p \in Procs : /\ WF_vars(Retry(p)) /\ WF_vars(Turn(p))
                                /\ WF_vars(Accept(p))

FairSpec == Spec /\ Fairness

-----------------------------------------------------------------------------
TypeOK == /\ client \in Procs \cup {None}
          /\ closing \in BOOLEAN
          /\ due \in Nat
          /\ pc \in [Procs -> {"free", "retry", "loop"}]
          /\ link \in [Procs -> {"none", "sent", "acked", "up"}]
          /\ \A p \in Procs : link[p] # "none" <=> pc[p] = "loop"
          /\ cut \subseteq {p \in Procs : pc[p] = "loop"}
          /\ faults \in 0 .. MaxFaults /\ requests \in 0 .. MaxRequests
          /\ asked \in BOOLEAN /\ doubled \in BOOLEAN

(* What the rest of the service publishes with is a client in its loop     *)
(* that the broker has accepted, never one that was destroyed.             *)
ClientInUse == client # None => pc[client] = "loop" /\ link[client] = "up"

(* The same with the types of the state it relates: a client is in its     *)
(* loop exactly while it has a link, and only such a link can break.       *)
ClientSound == TypeOK /\ ClientInUse

(* Until somebody asks to disconnect there is always a procedure that runs *)
(* or will run, whichever callback is called first.                        *)
NeverStranded == ~asked => due > 0 \/ Active # {}

(* One procedure leads to one procedure, through every failure: there is   *)
(* never a second one, or a timer for it, without the two known reasons.   *)
SingleProcedure ==
  ~doubled => \/ due <= 1 /\ Active = {}
              \/ due = 0 /\ \A p, q \in Active : p = q

(* Then disconnect keeps its word as well: when it returns, nothing is     *)
(* connected, nothing is connecting and nothing will be.                   *)
ClosedForGood ==
  [][closing /\ ~closing' /\ ~doubled'
       => client' = None /\ due' = 0 /\ Active' = {}]_vars

(* Once no more failures come, the gateway stays connected, with exactly   *)
(* one procedure left of all those that failures and requests started.     *)
Settled == client # None /\ Active = {client} /\ cut = {} /\ due = 0

Settles == <>[](asked \/ Settled)

(* disconnect returns if there is something to wait for.                   *)
DisconnectEnds == closing /\ (due > 0 \/ Active # {}) ~> ~closing
=============================================================================
