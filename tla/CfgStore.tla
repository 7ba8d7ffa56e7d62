------------------------------ MODULE CfgStore ------------------------------
(***************************************************************************)
(* The configuration service (service/cfg.lua): it loads cfg.json when the *)
(* gateway boots, saves the configuration that the datacenter holds when   *)
(* it differs from what was saved last, or one that was downloaded, and    *)
(* keeps a backup of the file it is about to overwrite.  Each file has a   *)
(* checksum beside it.  A file whose checksum is wrong is moved away at    *)
(* boot, its backup takes its place and the gateway starts anew.           *)
(*                                                                         *)
(* Opens of files by the service may fail; at boot it takes a file that    *)
(* cannot be opened for one that is missing.                               *)
(* Power may be lost between any two operations on files.  Until `sync'    *)
(* has run, each file comes back with any text it had since the last one,  *)
(* or cut off.                                                             *)
(***************************************************************************)
EXTENDS Naturals

CONSTANTS
  Values,      (* the texts of configurations                               *)
  Default,     (* the one that sys_defaults and cloud_defaults make         *)
  Torn,        (* texts that are cut off: no configuration can be read      *)
  Empty,       (* the one that is cut off at its beginning                  *)
  Garbled,     (* a checksum that is cut off                                *)
  None,        (* no file; in memory, no text                               *)
  MaxChanges,  (* bound: changes of the configuration, and downloads        *)
  MaxFaults    (* bound: losses of power, failing opens, other restarts     *)

ASSUME CfgAssumption ==
  /\ Default \in Values /\ Empty \in Torn
  /\ Values \cap Torn = {} /\ {Garbled, None} \cap (Values \cup Torn) = {} /\ Garbled # None
  /\ MaxChanges \in Nat /\ MaxFaults \in Nat

(* A checksum is known by the text it is the checksum of: texts that       *)
(* differ have different ones.  One that is cut off is that of no text.    *)
Text == Values \cup Torn
File == {"cfg", "sum", "cfgBackup", "sumBackup"}
CutOff(f) == IF f \in {"cfg", "cfgBackup"} THEN Torn ELSE {Garbled}

VARIABLES
  file,      (* what a read of each file returns                            *)
  may,       (* what each may hold after a loss of power                    *)
  pc,        (* where the service is                                        *)
  job,       (* what the operations on files are for                        *)
  str,       (* content: what is to be written                              *)
  dc,        (* the configuration in the datacenter                         *)
  md5sum,    (* of the configuration the service takes to be saved          *)
  aborting,  (* was ioe.abort called?                                       *)
  committed, (* what was saved completely last                              *)
  attempt,   (* what a save began to write since                            *)
  safe,      (* since then, no loss of power during a restoration, no boot  *)
             (* that could not open a file, and no save that could not open *)
             (* the checksum                                                *)
  changes, faults

Loading == {"load", "bareLoad"}      (* bareLoad: without a checksum        *)
Restoring == {"dropSum", "restoreCfg", "restoreSum", "restored"}
Copying == {"copyCfg", "copySum", "backup"}
Writing == {"openSum", "writeCfg", "writeSum", "written"}
Phases == {"boot", "dropCfg", "up", "openCfg"} \cup Restoring \cup Copying \cup Writing

disk == <<file, may>>
memory == <<dc, md5sum, aborting>>
history == <<committed, attempt, safe>>
bounds == <<changes, faults>>
vars == <<file, may, pc, job, str, dc, md5sum, aborting, committed, attempt, safe, changes, faults>>

Init == /\ file = [f \in File |-> None]
        /\ may = [f \in File |-> {None}]
        /\ pc = "boot" /\ job = "load" /\ str = None
        /\ dc = None /\ md5sum = None /\ aborting = FALSE
        /\ committed = Default /\ attempt = None /\ safe = TRUE
        /\ changes = 0 /\ faults = 0

-----------------------------------------------------------------------------
(* Operations on files.                                                    *)
Write(f, t) ==
  /\ file' = [file EXCEPT ![f] = t]
  /\ may' = [may EXCEPT ![f] = @ \cup {t} \cup CutOff(f)]

Remove(f) ==
  /\ file' = [file EXCEPT ![f] = None]
  /\ may' = [may EXCEPT ![f] = @ \cup {None}]

Copy(from, to) ==
  IF file[from] = None THEN UNCHANGED disk ELSE Write(to, file[from])

(* mv replaces the file in one step, so that it is never cut off.          *)
Move(from, to) ==
  IF file[from] = None THEN UNCHANGED disk ELSE
  /\ file' = [file EXCEPT ![to] = file[from], ![from] = None]
  /\ may' = [may EXCEPT ![to] = @ \cup may[from], ![from] = @ \cup {None}]

MutAsync == UNCHANGED disk     (* sync runs in the background                  *)

Sync == may' = [f \in File |-> {file[f]}] /\ UNCHANGED file

-----------------------------------------------------------------------------
(* load_cfg.                                                               *)
Decoded(t) == IF t \in Values THEN t ELSE Default

Loaded(t) == /\ dc' = Decoded(t)
             /\ md5sum' = Decoded(t)
             /\ UNCHANGED aborting

Fault == faults < MaxFaults /\ faults' = faults + 1

(* There is no file, or it cannot be opened: then it stays where it is,    *)
(* and the next SAVE overwrites it.                                        *)
LoadNothing ==
  /\ pc = "boot"
  /\ \/ /\ file["cfg"] = None
        /\ committed' = Default /\ attempt' = None
        /\ UNCHANGED <<safe, faults>>
     \/ /\ file["cfg"] # None /\ Fault
        /\ safe' = FALSE
        /\ UNCHANGED <<committed, attempt>>
  /\ pc' = "up"
  /\ dc' = Default
  /\ UNCHANGED <<disk, job, str, md5sum, aborting, changes>>

LoadChecked ==
  /\ pc = "boot" /\ file["cfg"] # None /\ file["sum"] = file["cfg"]
  /\ Loaded(file["cfg"])
  /\ pc' = "copyCfg" /\ job' = "load"
  /\ UNCHANGED <<disk, str, history, bounds>>

(* There is no checksum, or it cannot be opened: it is made from what was  *)
(* read, or the service goes on without one when it cannot be created.     *)
LoadUnchecked ==
  /\ pc = "boot" /\ file["cfg"] # None
  /\ \/ /\ file["sum"] = None
        /\ Write("sum", file["cfg"]) /\ job' = "load"
        /\ UNCHANGED <<safe, faults>>
     \/ /\ file["sum"] # None /\ Fault
        /\ Write("sum", file["cfg"]) /\ job' = "load"
        /\ safe' = FALSE
     \/ /\ Fault
        /\ UNCHANGED disk /\ job' = "bareLoad"
        /\ safe' = FALSE
  /\ Loaded(file["cfg"])
  /\ pc' = "copyCfg"
  /\ UNCHANGED <<str, committed, attempt, changes>>

(* The checksum is wrong.  A script that cannot be created leaves          *)
(* everything as it is for the next boot.                                  *)
LoadRefused ==
  /\ pc = "boot" /\ file["cfg"] # None /\ file["sum"] \notin {file["cfg"], None}
  /\ \/ pc' = "dropCfg" /\ UNCHANGED faults
     \/ pc' = "boot" /\ Fault
  /\ UNCHANGED <<disk, job, str, memory, history, changes>>

(* on_cfg_failure: the script, a sleep and skynet.abort.                   *)
DropCfg ==
  /\ pc = "dropCfg"
  /\ Remove("cfg")
  /\ pc' = "dropSum"
  /\ UNCHANGED <<job, str, memory, history, bounds>>

DropSum ==
  /\ pc = "dropSum"
  /\ Remove("sum")
  /\ pc' = IF file["cfgBackup"] # None THEN "restoreCfg" ELSE "restored"
  /\ UNCHANGED <<job, str, memory, history, bounds>>

RestoreCfg ==
  /\ pc = "restoreCfg"
  /\ Move("cfgBackup", "cfg")
  /\ pc' = "restoreSum"
  /\ UNCHANGED <<job, str, memory, history, bounds>>

RestoreSum ==
  /\ pc = "restoreSum"
  /\ Move("sumBackup", "sum")
  /\ pc' = "restored"
  /\ UNCHANGED <<job, str, memory, history, bounds>>

Restored ==
  /\ pc = "restored"
  /\ Sync
  /\ pc' = "boot"
  /\ UNCHANGED <<job, str, memory, history, bounds>>

-----------------------------------------------------------------------------
(* backup_cfg, at the end of load_cfg and at the beginning of save_cfg.    *)
CopyCfg ==
  /\ pc = "copyCfg"
  /\ Copy("cfg", "cfgBackup")
  /\ pc' = "copySum"
  /\ UNCHANGED <<job, str, memory, history, bounds>>

CopySum ==
  /\ pc = "copySum"
  /\ Copy("sum", "sumBackup")
  /\ pc' = "backup"
  /\ UNCHANGED <<job, str, memory, history, bounds>>

BackedUp ==
  /\ pc = "backup"
  /\ Sync
  /\ IF job \in Loading
       THEN /\ pc' = "up"
            /\ committed' = dc /\ attempt' = None /\ safe' = (job = "load")
       ELSE pc' = "openCfg" /\ UNCHANGED history
  /\ UNCHANGED <<job, str, memory, bounds>>

(* save_cfg.  A file is empty as soon as it is opened.                     *)
OpenCfg ==
  /\ pc = "openCfg"
  /\ Write("cfg", Empty)
  /\ attempt' = str
  /\ pc' = "openSum"
  /\ UNCHANGED <<job, str, memory, committed, safe, bounds>>

OpenCfgFails ==
  /\ pc = "openCfg"
  /\ Fault
  /\ pc' = "up"
  /\ UNCHANGED <<disk, job, str, memory, history, changes>>

OpenSum ==
  /\ pc = "openSum"
  /\ Write("sum", Garbled)
  /\ pc' = "writeCfg"
  /\ UNCHANGED <<job, str, memory, history, bounds>>

OpenSumFails ==
  /\ pc = "openSum"
  /\ Fault
  /\ pc' = "up"
  /\ safe' = FALSE
  /\ UNCHANGED <<disk, job, str, memory, committed, attempt, changes>>

WriteCfg ==
  /\ pc = "writeCfg"
  /\ Write("cfg", str)
  /\ pc' = "writeSum"
  /\ UNCHANGED <<job, str, memory, history, bounds>>

WriteSum ==
  /\ pc = "writeSum"
  /\ Write("sum", str)
  /\ pc' = "written"
  /\ UNCHANGED <<job, str, memory, history, bounds>>

Written ==
  /\ pc = "written"
  /\ Sync
  /\ pc' = "up"
  /\ IF job = "save" THEN md5sum' = str /\ UNCHANGED aborting
                     ELSE aborting' = TRUE /\ UNCHANGED md5sum
  /\ committed' = str /\ attempt' = None /\ safe' = TRUE
  /\ UNCHANGED <<job, str, dc, bounds>>

-----------------------------------------------------------------------------
(* Another service changes the configuration.                              *)
Change(v) ==
  /\ dc # None /\ v # dc
  /\ pc \notin Copying \/ job \notin Loading
  /\ changes < MaxChanges /\ changes' = changes + 1
  /\ dc' = v
  /\ UNCHANGED <<disk, pc, job, str, md5sum, aborting, history, faults>>

MutBelieve == /\ pc = "up" /\ dc # md5sum   (* md5sum is set before the save *)
              /\ str' = dc /\ job' = "save" /\ pc' = "copyCfg" /\ md5sum' = dc
              /\ UNCHANGED <<disk, dc, aborting, history, bounds>>

MutNoBackup == /\ pc = "up" /\ dc # md5sum  (* the file is not backed up first  *)
               /\ str' = dc /\ job' = "save" /\ pc' = "openCfg"
               /\ UNCHANGED <<disk, memory, history, bounds>>

(* SAVE, called every 5 s.                                                 *)
Save ==
  /\ pc = "up"
  /\ dc # md5sum
  /\ str' = dc /\ job' = "save"
  /\ pc' = "copyCfg"
  /\ UNCHANGED <<disk, memory, history, bounds>>

(* DOWNLOAD, of a text whose checksum is right.                            *)
Download(v) ==
  /\ pc = "up"
  /\ changes < MaxChanges /\ changes' = changes + 1
  /\ str' = v /\ job' = "download"
  /\ pc' = "copyCfg"
  /\ UNCHANGED <<disk, memory, history, faults>>

Down == dc' = None /\ md5sum' = None /\ aborting' = FALSE

(* The process ends, 5 s after ioe.abort or because another service called *)
(* it, and is started again.                                               *)
Restart ==
  /\ pc = "up"
  /\ \/ aborting /\ UNCHANGED faults
     \/ Fault
  /\ pc' = "boot" /\ Down
  /\ UNCHANGED <<disk, job, str, history, changes>>

PowerLoss ==
  /\ Fault
  /\ file' \in {g \in [File -> UNION {may[f] : f \in File}] : \A f \in File : g[f] \in may[f]}
  /\ may' = [f \in File |-> {file'[f]}]
  /\ pc' = "boot" /\ Down
  /\ safe' = (safe /\ pc \notin Restoring)
  /\ UNCHANGED <<job, str, committed, attempt, changes>>

Load == LoadNothing \/ LoadChecked \/ LoadUnchecked \/ LoadRefused
Restore == DropCfg \/ DropSum \/ RestoreCfg \/ RestoreSum \/ Restored
Backup == CopyCfg \/ CopySum \/ BackedUp
Store == OpenCfg \/ OpenSum \/ WriteCfg \/ WriteSum \/ Written

Next == \/ Load \/ Restore \/ Backup \/ Store
        \/ OpenCfgFails \/ OpenSumFails
        \/ \E v \in Values : Change(v) \/ Download(v)
        \/ Save \/ Restart \/ PowerLoss

Spec == Init /\ [][Next]_vars

(* The service goes on with what it began, SAVE is called again and again, *)
(* and the process ends some time after ioe.abort.                         *)
FairSpec == Spec /\ WF_vars(Load \/ Restore \/ Backup \/ Store)
                 /\ WF_vars(Save) /\ WF_vars(aborting /\ Restart)

-----------------------------------------------------------------------------
TypeOK ==
  /\ file \in [File -> Text \cup {Garbled, None}]
  /\ may \in [File -> SUBSET (Text \cup {Garbled, None})]
  /\ \A f \in File : file[f] \in may[f]
  /\ pc \in Phases /\ job \in Loading \cup {"save", "download"}
  /\ str \in Values \cup {None} /\ dc \in Values \cup {None} /\ md5sum \in Values \cup {None}
  /\ aborting \in BOOLEAN /\ safe \in BOOLEAN
  /\ committed \in Values /\ attempt \in Values \cup {None}
  /\ changes \in 0 .. MaxChanges /\ faults \in 0 .. MaxFaults

(* Whenever a save has returned, or a load that could open its files or at *)
(* least write a checksum, the configuration and its checksum would        *)
(* survive a loss of power.                                                *)
SavedIsDurable ==
  /\ TypeOK
  /\ pc = "up" /\ safe =>
       /\ \A f \in File : may[f] = {file[f]}
       /\ IF file["cfg"] = None THEN committed = Default
          ELSE file["sum"] = file["cfg"] /\ Decoded(file["cfg"]) = committed

(* Whenever power is lost, a boot that can open its files loads the        *)
(* configuration that was saved completely last, or the one that was being *)
(* saved.  A boot that cannot may load the defaults instead.               *)
BootsLastSaved ==
  [][pc = "boot" /\ dc' # None /\ safe /\ faults' = faults
       => dc' \in {committed, attempt}]_vars

(* A boot ends, that is the same files are not restored for ever, and the  *)
(* file has the configuration in the end.  SAVE is tried again where it    *)
(* fails; a DOWNLOAD that fails leaves the file empty.                     *)
SavedInTheEnd ==
  <>[](/\ pc = "up" /\ dc = md5sum
       /\ safe => Decoded(file["cfg"]) = dc /\ file["sum"] = file["cfg"])
=============================================================================
