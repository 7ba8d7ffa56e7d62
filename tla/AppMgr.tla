------------------------------- MODULE AppMgr -------------------------------
(***************************************************************************)
(* The life of one application under the application manager               *)
(* (snax/appmgr.lua).  Requests to start, stop and restart the application *)
(* run as coroutines of the manager and interleave wherever they wait: for *)
(* a new appwrap service, for the application's start, for its exit, or in *)
(* the polling loop of stop.  A stop arms a timer that kills the           *)
(* application if it does not close within 60 seconds.                     *)
(*                                                                         *)
(* Instances are numbered in the order their services are launched.        *)
(***************************************************************************)
EXTENDS Integers

CONSTANTS
  Ops,          (* the requests; each is issued at most once                *)
  PromptErrors  (* are the two messages an exiting service sends back to    *)
                (* back handled before another service is launched?         *)

ASSUME AppMgrAssumption == PromptErrors \in BOOLEAN

None == 0       (* app.inst = nil; instances are numbered from 1            *)

VARIABLES
  inst,      (* app.inst                                                    *)
  launched,  (* the number of instances launched so far                     *)
  alive,     (* the instances whose service exists                          *)
  forced,    (* the instances killed without closing                        *)
  pc,        (* where each request is                                       *)
  kind,      (* what each request asks for                                  *)
  handle,    (* the instance launched for each request; inst, the local     *)
             (* variable of response.start, once newservice has returned    *)
  target,    (* the instance the coroutine forked by stop asked to exit     *)
  killer,    (* is that coroutine waiting for the exit?                     *)
  timer,     (* is the force_kill of this stop still armed?                 *)
  told,      (* the last of the events start and stop posted to listeners   *)
  overlap    (* history: was a request issued while another one was running? *)

manager == <<inst, launched, alive, forced, handle, target, killer, timer, told>>
vars == <<manager, pc, kind, overlap>>

-----------------------------------------------------------------------------
(* How a request ends that leaves behind the service launched for it.      *)
Lost == {"asserted", "raised"}

Finished(o) == pc[o] \in {"none", "done", "failed"} \cup Lost

Idle == \A o \in Ops : Finished(o)

(* A request that waits for the start of an instance whose service is gone *)
(* gets an error, unless the service was killed from outside.              *)
StartBroken(o) ==
  pc[o] = "starting" /\ handle[o] \notin alive /\ handle[o] \notin forced

Init == /\ inst = None
        /\ launched = 0
        /\ alive = {}
        /\ forced = {}
        /\ pc = [o \in Ops |-> "none"]
        /\ kind = [o \in Ops |-> "start"]
        /\ handle = [o \in Ops |-> None]
        /\ target = [o \in Ops |-> None]
        /\ killer = [o \in Ops |-> FALSE]
        /\ timer = [o \in Ops |-> FALSE]
        /\ told = "none"
        /\ overlap = FALSE

(* A request arrives.                                                      *)
Request(o, k) ==
  /\ pc[o] = "none"
  /\ overlap' = (overlap \/ ~Idle)
  /\ kind' = [kind EXCEPT ![o] = k]
  /\ pc' = [pc EXCEPT ![o] = IF k = "start" THEN "start" ELSE "stop"]
  /\ UNCHANGED manager

(* response.start up to snax.newservice.                                   *)
Start(o) ==
  /\ pc[o] = "start"
  /\ pc' = [pc EXCEPT ![o] = IF inst # None THEN "done" ELSE "newservice"]
  /\ UNCHANGED <<inst, launched, alive, forced, kind, handle, target, killer, timer, told, overlap>>

MutNoAssert(o) ==       (* the new instance takes the place of the other one *)
  /\ pc[o] = "newservice"
  /\ launched' = launched + 1
  /\ alive' = alive \cup {launched'}
  /\ handle' = [handle EXCEPT ![o] = launched']
  /\ pc' = [pc EXCEPT ![o] = "starting"]
  /\ inst' = launched'
  /\ UNCHANGED <<forced, kind, target, killer, timer, told, overlap>>

(* The appwrap service is there: the assertion, then inst.req.start.       *)
NewService(o) ==
  /\ pc[o] = "newservice"
  /\ PromptErrors => ~\E p \in Ops : StartBroken(p)
  /\ launched' = launched + 1
  /\ alive' = alive \cup {launched'}
  /\ handle' = [handle EXCEPT ![o] = launched']
  /\ IF inst # None
     THEN /\ pc' = [pc EXCEPT ![o] = "asserted"]
          /\ UNCHANGED inst
     ELSE /\ pc' = [pc EXCEPT ![o] = "starting"]
          /\ inst' = launched'
  /\ UNCHANGED <<forced, kind, target, killer, timer, told, overlap>>

(* snax.newservice raises an error, which ends the request: no service     *)
(* could be launched, or the init of the one that was raised an error      *)
(* (appwrap.lua:219), and it stays without anyone to tell it to exit.      *)
NewServiceRaises(o) ==
  /\ pc[o] = "newservice"
  /\ PromptErrors => ~\E p \in Ops : StartBroken(p)
  /\ \/ /\ launched' = launched + 1
        /\ alive' = alive \cup {launched'}
        /\ handle' = [handle EXCEPT ![o] = launched']
        /\ pc' = [pc EXCEPT ![o] = "raised"]
     \/ /\ pc' = [pc EXCEPT ![o] = "failed"]
        /\ UNCHANGED <<launched, alive, handle>>
  /\ UNCHANGED <<inst, forced, kind, target, killer, timer, told, overlap>>

(* The application started.  "Applicaiton stoped during starting" is seen  *)
(* by app.inst being nil.                                                  *)
StartOk(o) ==
  /\ pc[o] = "starting"
  /\ handle[o] \in alive
  /\ pc' = [pc EXCEPT ![o] = "done"]
  /\ told' = IF inst = None THEN told ELSE "start"
  /\ UNCHANGED <<inst, launched, alive, forced, kind, handle, target, killer, timer, overlap>>

(* The call to start fails because the service is gone.                    *)
StartError(o) ==
  /\ StartBroken(o)
  /\ inst' = None
  /\ pc' = [pc EXCEPT ![o] = "failed"]
  /\ UNCHANGED <<launched, alive, forced, kind, handle, target, killer, timer, told, overlap>>

(* The application refuses to start: its service is asked to exit ...      *)
StartFalse(o) ==
  /\ pc[o] = "starting"
  /\ handle[o] \in alive
  /\ pc' = [pc EXCEPT ![o] = "discard"]
  /\ UNCHANGED <<inst, launched, alive, forced, kind, handle, target, killer, timer, told, overlap>>

MutNoKill(o) ==         (* no snax.kill: a failed start just forgets         *)
  /\ pc[o] = "discard"
  /\ inst' = None
  /\ pc' = [pc EXCEPT ![o] = "failed"]
  /\ UNCHANGED <<launched, alive, forced, kind, handle, target, killer, timer, told, overlap>>

(* ... and has, or somebody else's request made it exit first and the call *)
(* raises an error.                                                        *)
Discarded(o) ==
  /\ pc[o] = "discard"
  /\ handle[o] \notin forced
  /\ IF handle[o] \in alive
     THEN inst' = None /\ alive' = alive \ {handle[o]}
     ELSE UNCHANGED <<inst, alive>>
  /\ pc' = [pc EXCEPT ![o] = "failed"]
  /\ UNCHANGED <<launched, forced, kind, handle, target, killer, timer, told, overlap>>

(* Where a request goes once its stop is over.                             *)
AfterStop(o) == [pc EXCEPT ![o] = IF kind[o] = "restart" THEN "start" ELSE "done"]

(* response.stop up to its polling loop; the forked coroutine runs as soon *)
(* as this one waits, before any other message.                            *)
Stop(o) ==
  /\ pc[o] = "stop"
  /\ IF inst = None
     THEN /\ pc' = AfterStop(o)
          /\ told' = "stop"
          /\ UNCHANGED <<target, killer, timer>>
     ELSE /\ pc' = [pc EXCEPT ![o] = "stopping"]
          /\ target' = [target EXCEPT ![o] = inst]
          /\ killer' = [killer EXCEPT ![o] = TRUE]
          /\ timer' = [timer EXCEPT ![o] = TRUE]
          /\ UNCHANGED told
  /\ UNCHANGED <<inst, launched, alive, forced, kind, handle, overlap>>

MutTimerArmed(o) ==     (* force_kill = nil is missing                       *)
  /\ killer[o]
  /\ target[o] \in alive
  /\ alive' = alive \ {target[o]}
  /\ inst' = None
  /\ killer' = [killer EXCEPT ![o] = FALSE]
  /\ UNCHANGED <<launched, forced, pc, kind, handle, target, timer, told, overlap>>

(* The application closed and its service answers the forked coroutine.    *)
Killed(o) ==
  /\ killer[o]
  /\ target[o] \in alive
  /\ alive' = alive \ {target[o]}
  /\ inst' = None
  /\ killer' = [killer EXCEPT ![o] = FALSE]
  /\ timer' = [timer EXCEPT ![o] = FALSE]
  /\ UNCHANGED <<launched, forced, pc, kind, handle, target, told, overlap>>

(* The service went away on another request: the call raises an error and  *)
(* the rest of the forked coroutine does not run.                          *)
KillError(o) ==
  /\ killer[o]
  /\ target[o] \notin alive
  /\ killer' = [killer EXCEPT ![o] = FALSE]
  /\ UNCHANGED <<inst, launched, alive, forced, pc, kind, handle, target, timer, told, overlap>>

MutKeepInst(o) ==       (* app.inst = nil is missing after skynet.kill       *)
  /\ timer[o]
  /\ timer' = [timer EXCEPT ![o] = FALSE]
  /\ alive' = alive \ {inst}
  /\ forced' = forced \cup ({inst} \ {None})
  /\ UNCHANGED <<inst, launched, pc, kind, handle, target, killer, told, overlap>>

(* 60 seconds later.  Without an instance the timer's function raises an   *)
(* error and changes nothing.                                              *)
ForceKill(o) ==
  /\ timer[o]
  /\ timer' = [timer EXCEPT ![o] = FALSE]
  /\ IF inst = None
     THEN UNCHANGED <<inst, alive, forced>>
     ELSE /\ alive' = alive \ {inst}
          /\ forced' = forced \cup {inst}
          /\ inst' = None
  /\ UNCHANGED <<launched, pc, kind, handle, target, killer, told, overlap>>

MutUntold(o) ==         (* the listeners are told only if nothing was running *)
  /\ pc[o] = "stopping"
  /\ inst = None
  /\ pc' = AfterStop(o)
  /\ UNCHANGED <<inst, launched, alive, forced, kind, handle, target, killer, timer, told, overlap>>

(* The polling loop of stop sees that the instance is gone.                *)
Poll(o) ==
  /\ pc[o] = "stopping"
  /\ inst = None
  /\ pc' = AfterStop(o)
  /\ told' = "stop"
  /\ UNCHANGED <<inst, launched, alive, forced, kind, handle, target, killer, timer, overlap>>

Step(o) == \/ Start(o) \/ NewService(o) \/ NewServiceRaises(o) \/ StartOk(o)
           \/ StartError(o) \/ StartFalse(o) \/ Discarded(o) \/ Stop(o)
           \/ Killed(o) \/ KillError(o) \/ ForceKill(o) \/ Poll(o)

Next == \E o \in Ops : Step(o) \/ \E k \in {"start", "stop", "restart"} : Request(o, k)

Spec == Init /\ [][Next]_vars

(* Coroutines that are ready run and timers fire; applications may take    *)
(* for ever to start or to close.                                          *)
Fairness == \A o \in Ops : /\ WF_vars(Start(o)) /\ WF_vars(Stop(o))
                           /\ WF_vars(Poll(o)) /\ WF_vars(ForceKill(o))
                           /\ WF_vars(NewService(o)) /\ WF_vars(StartError(o))

FairSpec == Spec /\ Fairness

-----------------------------------------------------------------------------
TypeOK ==
  /\ launched \in Nat
  /\ inst \in 0 .. launched
  /\ alive \subseteq 1 .. launched
  /\ forced \subseteq 1 .. launched
  /\ pc \in [Ops -> {"none", "start", "newservice", "starting", "discard", "stop",
                     "stopping", "done", "failed"} \cup Lost]
  /\ kind \in [Ops -> {"start", "stop", "restart"}]
  /\ handle \in [Ops -> 0 .. launched]
  /\ target \in [Ops -> 0 .. launched]
  /\ killer \in [Ops -> BOOLEAN]
  /\ timer \in [Ops -> BOOLEAN]
  /\ told \in {"none", "start", "stop"}
  /\ overlap \in BOOLEAN

(* The services left behind by requests that ended in one of these ways.   *)
LeftBy(ends) == {handle[o] : o \in {p \in Ops : pc[p] \in ends}}

(* Requests one after the other: whatever starts, fails, hangs or is       *)
(* killed, at rest the manager knows every service but those whose init    *)
(* raised an error inside snax.newservice (appmgr.lua:41), which it can    *)
(* never stop; and listeners were told the truth.                          *)
Managed == ~overlap /\ Idle => /\ alive = ({inst} \ {None}) \cup LeftBy({"raised"})
                              /\ told = "start" <=> inst # None

(* appmgr.lua:97 "Force to kill app ... as it is not closed within 60      *)
(* seconds": an armed timer threatens only the instance its stop is        *)
(* waiting for.                                                            *)
ForceKillOnlyStuck ==
  \A o \in Ops : timer[o] /\ inst # None => inst = target[o]

(* appmgr.lua:42 assert(not app.inst, "Bug found when starting             *)
(* application!!").                                                        *)
NoStartBug == \A o \in Ops : pc[o] # "asserted"

(* Both hold as long as requests do not overlap, over any sequence of      *)
(* starts, stops, hangs and forced kills.                                  *)
SerialSafe == ~overlap => ForceKillOnlyStuck /\ NoStartBug

(* With overlapping requests too, an instance that runs is the one the     *)
(* manager would stop, or was launched by a start that failed the          *)
(* assertion of appmgr.lua:42 or whose newservice raised an error; no      *)
(* other request leaves an instance behind.                                *)
OnlyLostLeft == alive \subseteq {inst} \cup LeftBy(Lost)

(* The manager's state stays what it can be, and contains every instance.  *)
Contained == TypeOK /\ OnlyLostLeft

(* A stop ends although the application never closes: the timer sees to    *)
(* it, unless another request gives the stop a new instance to wait for.   *)
StopEnds ==
  \A o \in Ops : pc[o] = "stopping" /\ ~overlap ~> pc[o] # "stopping" \/ overlap
=============================================================================
