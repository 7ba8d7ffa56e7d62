--------------------------- MODULE CfgStoreProofs ---------------------------
(***************************************************************************)
(* Theorems about CfgStore, for any configurations, changes and losses of  *)
(* power: a boot loads the configuration that was saved last.              *)
(***************************************************************************)
EXTENDS CfgStore, TLAPS

(* What a boot may load.                                                   *)
Good == {committed, attempt} \cap Values

Synced == \A f \in File : may[f] = {file[f]}

(* The configuration is in its file, or there is none yet, nor a backup.   *)
InPlace(t) ==
  \/ /\ file["cfg"] = None /\ file["cfgBackup"] = None
     /\ may["cfg"] = {None} /\ may["cfgBackup"] = {None}
     /\ t = Default
  \/ /\ file["cfg"] # None /\ file["sum"] = file["cfg"]
     /\ may["cfg"] = {file["cfg"]} /\ may["sum"] = {file["cfg"]}
     /\ Decoded(file["cfg"]) = t

(* The backup is as good.                                                  *)
BackupServes(d) ==
  /\ d["cfgBackup"] # None => Decoded(d["cfgBackup"]) \in Good
  /\ Default \in Good \/ (d["cfgBackup"] # None /\ d["sumBackup"] = d["cfgBackup"])

(* What a boot may find.                                                   *)
Recovers(d) ==
  IF d["cfg"] = None THEN d["cfgBackup"] = None /\ Default \in Good
  ELSE IF d["sum"] = d["cfg"] THEN Decoded(d["cfg"]) \in Good
  ELSE IF d["sum"] = None
    THEN Decoded(d["cfg"]) \in Good /\ Default \in Good /\ BackupServes(d)
  ELSE BackupServes(d)

AtBoot == pc = "boot" => Synced /\ Recovers(file)
AtUp == pc = "up" => attempt = None /\ Synced /\ InPlace(committed)

AtRestore ==
  /\ pc = "dropCfg" => Synced /\ file["cfg"] # None /\ file["sum"] \notin {file["cfg"], None} /\ BackupServes(file)
  /\ pc \in {"dropSum", "restoreCfg"} => file["cfg"] = None /\ BackupServes(file)
  /\ pc = "restoreCfg" => file["sum"] = None /\ file["cfgBackup"] # None
  /\ pc = "restoreSum" => /\ file["cfg"] # None /\ file["cfgBackup"] = None /\ file["sum"] = None
                          /\ Decoded(file["cfg"]) \in Good
                          /\ Default \in Good \/ file["sumBackup"] = file["cfg"]
  /\ pc = "restored" => /\ file["cfgBackup"] = None
                        /\ file["cfg"] = None => Default \in Good
                        /\ file["cfg"] # None => /\ Decoded(file["cfg"]) \in Good
                                                 /\ Default \in Good \/ file["sum"] = file["cfg"]

AtLoad ==
  pc \in Copying /\ job \in Loading =>
    /\ job = "load"
    /\ dc \in Good /\ may["cfg"] = {file["cfg"]}
    /\ \/ may["sum"] = {file["cfg"]}
       \/ /\ Default \in Good
          /\ may["sum"] \subseteq {None, Garbled, file["cfg"]}
          /\ \A t \in may["cfgBackup"] : t # None => Decoded(t) \in Good

AtSave ==
  pc \in Copying /\ job \notin Loading =>
    /\ attempt = None /\ InPlace(committed)
    /\ pc # "copyCfg" => file["cfgBackup"] = file["cfg"]
    /\ pc = "backup" /\ file["cfg"] # None => file["sumBackup"] = file["cfg"]

(* While the file is written its backup is in place.                       *)
BackupInPlace ==
  /\ may["cfgBackup"] = {file["cfgBackup"]} /\ may["sumBackup"] = {file["sumBackup"]}
  /\ IF file["cfgBackup"] = None THEN committed = Default
     ELSE file["sumBackup"] = file["cfgBackup"] /\ Decoded(file["cfgBackup"]) = committed

AtWrite ==
  /\ pc = "openCfg" => /\ attempt = None /\ Synced /\ InPlace(committed) /\ BackupInPlace
                       /\ file["cfgBackup"] = file["cfg"]
  /\ pc \in Writing =>
       /\ attempt = str /\ BackupInPlace
       /\ may["cfg"] \subseteq {file["cfgBackup"], str} \cup Torn
       /\ None \in may["sum"] \/ may["sum"] \cap Torn # {} => committed = Default

(* These hold whatever happened.                                           *)
Always ==
  /\ dc = None <=> pc \in {"boot", "dropCfg"} \cup Restoring
  /\ pc \in Copying /\ job \in Loading =>
       /\ file["cfg"] # None /\ dc = Decoded(file["cfg"])
       /\ job = "load" => file["sum"] = file["cfg"]
  /\ pc \in {"openCfg"} \cup Writing \/ (pc \in Copying /\ job \notin Loading)
       => str \in Values /\ job \notin Loading
  /\ pc \in {"writeSum", "written"} => file["cfg"] = str
  /\ pc = "written" => file["sum"] = str

CInv == /\ TypeOK /\ Always
        /\ safe => AtBoot /\ AtUp /\ AtRestore /\ AtLoad /\ AtSave /\ AtWrite

-----------------------------------------------------------------------------
(* The operations on files.                                                *)
LEMMA Constants ==
  /\ Default \in Values /\ Empty \in Torn /\ Values \cap Torn = {}
  /\ None \notin Values /\ None \notin Torn /\ Garbled \notin Values /\ Garbled \notin Torn /\ Garbled # None
  /\ \A t : (t \in Values => Decoded(t) = t) /\ (t \notin Values => Decoded(t) = Default)
  /\ \A t : Decoded(t) \in Values
  BY CfgAssumption DEF Decoded

LEMMA WriteDoes ==
  ASSUME TypeOK, NEW f \in File, NEW t \in Text \cup {Garbled}, Write(f, t)
  PROVE  /\ file'[f] = t /\ may'[f] = may[f] \cup {t} \cup CutOff(f)
         /\ \A g \in File : g # f => file'[g] = file[g] /\ may'[g] = may[g]
         /\ file' \in [File -> Text \cup {Garbled, None}]
         /\ may' \in [File -> SUBSET (Text \cup {Garbled, None})]
         /\ \A g \in File : file'[g] \in may'[g]
<1>1. CutOff(f) \subseteq Text \cup {Garbled, None}
  BY DEF CutOff, Text
<1> QED
  BY <1>1 DEF Write, TypeOK

LEMMA RemoveDoes ==
  ASSUME TypeOK, NEW f \in File, Remove(f)
  PROVE  /\ file'[f] = None
         /\ \A g \in File : g # f => file'[g] = file[g] /\ may'[g] = may[g]
         /\ file' \in [File -> Text \cup {Garbled, None}]
         /\ may' \in [File -> SUBSET (Text \cup {Garbled, None})]
         /\ \A g \in File : file'[g] \in may'[g]
  BY DEF Remove, TypeOK

LEMMA CopyDoes ==
  ASSUME TypeOK, NEW from \in File, NEW to \in File, from # to, Copy(from, to)
  PROVE  /\ file[from] = None => file' = file /\ may' = may
         /\ file[from] # None => file'[to] = file[from] /\ may'[to] = may[to] \cup {file[from]} \cup CutOff(to)
         /\ \A g \in File : g # to => file'[g] = file[g] /\ may'[g] = may[g]
         /\ file' \in [File -> Text \cup {Garbled, None}]
         /\ may' \in [File -> SUBSET (Text \cup {Garbled, None})]
         /\ \A g \in File : file'[g] \in may'[g]
<1>1. CASE file[from] = None
  BY <1>1 DEF Copy, disk, TypeOK
<1>2. CASE file[from] # None
  <2>1. Write(to, file[from]) /\ file[from] \in Text \cup {Garbled}
    BY <1>2 DEF Copy, TypeOK
  <2> QED BY <1>2, <2>1, WriteDoes
<1> QED BY <1>1, <1>2

LEMMA MoveDoes ==
  ASSUME TypeOK, NEW from \in File, NEW to \in File, from # to, Move(from, to)
  PROVE  /\ file[from] = None => file' = file /\ may' = may
         /\ file[from] # None => file'[to] = file[from] /\ file'[from] = None
         /\ \A g \in File : g # to /\ g # from => file'[g] = file[g] /\ may'[g] = may[g]
         /\ file' \in [File -> Text \cup {Garbled, None}]
         /\ may' \in [File -> SUBSET (Text \cup {Garbled, None})]
         /\ \A g \in File : file'[g] \in may'[g]
<1>1. CASE file[from] = None
  BY <1>1 DEF Move, disk, TypeOK
<1>2. CASE file[from] # None
  BY <1>2 DEF Move, TypeOK
<1> QED BY <1>1, <1>2

LEMMA SyncDoes ==
  ASSUME TypeOK, Sync
  PROVE  /\ file' = file /\ Synced'
         /\ file' \in [File -> Text \cup {Garbled, None}]
         /\ may' \in [File -> SUBSET (Text \cup {Garbled, None})]
         /\ \A g \in File : file'[g] \in may'[g]
  BY DEF Sync, TypeOK, Synced

LEMMA PowerLossDoes ==
  ASSUME TypeOK, PowerLoss
  PROVE  /\ \A f \in File : file'[f] \in may[f]
         /\ Synced'
         /\ file' \in [File -> Text \cup {Garbled, None}]
         /\ may' \in [File -> SUBSET (Text \cup {Garbled, None})]
         /\ \A g \in File : file'[g] \in may'[g]
<1>1. /\ \A f \in File : file'[f] \in may[f] /\ may'[f] = {file'[f]}
      /\ file' \in [File -> UNION {may[f] : f \in File}]
      /\ may' = [f \in File |-> {file'[f]}]
  BY DEF PowerLoss
<1>2. \A f \in File : file'[f] \in Text \cup {Garbled, None}
  BY <1>1 DEF TypeOK
<1> QED
  BY <1>1, <1>2 DEF Synced

-----------------------------------------------------------------------------
(* The invariants of the places where the service is not.                  *)
LEMMA Elsewhere ==
  /\ pc # "boot" => AtBoot
  /\ pc # "up" => AtUp
  /\ pc \notin {"dropCfg"} \cup Restoring => AtRestore
  /\ pc \notin Copying => AtLoad /\ AtSave
  /\ pc \notin {"openCfg"} \cup Writing => AtWrite
  BY DEF AtBoot, AtUp, AtRestore, AtLoad, AtSave, AtWrite, Restoring

LEMMA ElsewhereNext ==
  /\ pc' # "boot" => AtBoot'
  /\ pc' # "up" => AtUp'
  /\ pc' \notin {"dropCfg"} \cup Restoring => AtRestore'
  /\ pc' \notin Copying => AtLoad' /\ AtSave'
  /\ pc' \notin {"openCfg"} \cup Writing => AtWrite'
  BY DEF AtBoot, AtUp, AtRestore, AtLoad, AtSave, AtWrite, Restoring

LEMMA CInit == Init => CInv
<1> SUFFICES ASSUME Init PROVE CInv
  OBVIOUS
<1>1. TypeOK
  <2>1. 0 \in 0 .. MaxChanges /\ 0 \in 0 .. MaxFaults
    BY CfgAssumption
  <2>2. committed \in Values
    BY Constants DEF Init
  <2>3. file \in [File -> Text \cup {Garbled, None}] /\ may \in [File -> SUBSET (Text \cup {Garbled, None})]
        /\ \A f \in File : file[f] \in may[f]
    BY DEF Init
  <2> QED BY <2>1, <2>2, <2>3 DEF Init, TypeOK, Phases, Loading
<1>2. Always
  BY DEF Init, Always, Copying, Writing, Restoring, Loading
<1>3. AtBoot
  BY Constants DEF Init, AtBoot, Synced, Recovers, Good, File
<1>4. AtUp /\ AtRestore /\ AtLoad /\ AtSave /\ AtWrite
  BY DEF Init, AtUp, AtRestore, AtLoad, AtSave, AtWrite, Copying, Writing
<1> QED
  BY <1>1, <1>2, <1>3, <1>4 DEF CInv

(* Loading.                                                                *)
LEMMA LoadNothingKeeps ==
  ASSUME CInv, LoadNothing
  PROVE  CInv'
<1>1. /\ pc = "boot" /\ pc' = "up"
      /\ file' = file /\ may' = may /\ job' = job /\ str' = str /\ md5sum' = md5sum
      /\ aborting' = aborting /\ changes' = changes /\ dc' = Default
      /\ \/ /\ file["cfg"] = None /\ committed' = Default /\ attempt' = None
            /\ safe' = safe /\ faults' = faults
         \/ /\ safe' = FALSE /\ committed' = committed /\ attempt' = attempt
            /\ faults < MaxFaults /\ faults' = faults + 1
  BY DEF LoadNothing, Fault, disk
<1>2. TypeOK'
  <2>1. faults' \in 0 .. MaxFaults /\ committed' \in Values /\ attempt' \in Values \cup {None}
    BY <1>1, Constants, CfgAssumption DEF CInv, TypeOK
  <2>2. safe \in BOOLEAN
    BY DEF CInv, TypeOK
  <2>3. safe' \in BOOLEAN
    BY <1>1, <2>2, Zenon
  <2> QED BY <1>1, <2>1, <2>3, Constants DEF CInv, TypeOK, Phases, Loading, Restoring, Copying, Writing
<1>3. Always'
  BY <1>1, Constants DEF Always, Copying, Writing, Restoring, Loading
<1>4. ASSUME safe' PROVE AtUp'
  <2>1. safe /\ file["cfg"] = None /\ committed' = Default /\ attempt' = None
    BY <1>1, <1>4
  <2>2. Synced /\ file["cfgBackup"] = None
    BY <1>1, <2>1 DEF CInv, AtBoot, Recovers
  <2> QED BY <1>1, <2>1, <2>2 DEF AtUp, InPlace, Synced, File
<1> QED
  BY <1>1, <1>2, <1>3, <1>4, ElsewhereNext DEF CInv, Copying, Writing, Restoring

LEMMA LoadCheckedKeeps ==
  ASSUME CInv, LoadChecked
  PROVE  CInv'
<1>1. /\ pc = "boot" /\ pc' = "copyCfg" /\ file["cfg"] # None /\ file["sum"] = file["cfg"] /\ job' = "load"
      /\ file' = file /\ may' = may /\ str' = str /\ aborting' = aborting
      /\ safe' = safe /\ changes' = changes /\ faults' = faults
      /\ committed' = committed /\ attempt' = attempt
      /\ dc' = Decoded(file["cfg"]) /\ md5sum' = Decoded(file["cfg"])
  BY DEF LoadChecked, Loaded, disk, history, bounds
<1>2. TypeOK'
  BY <1>1, Constants DEF CInv, TypeOK, Phases, Loading, Restoring, Copying, Writing
<1>3. Always'
  BY <1>1, Constants DEF Always, Copying, Writing, Restoring, Loading
<1>4. ASSUME safe' PROVE AtLoad' /\ AtSave'
  <2>1. Synced /\ Decoded(file["cfg"]) \in Good
    BY <1>1, <1>4 DEF CInv, AtBoot, Recovers
  <2> QED BY <1>1, <2>1 DEF AtLoad, AtSave, Synced, File, Good, Loading
<1> QED
  BY <1>1, <1>2, <1>3, <1>4, ElsewhereNext DEF CInv, Copying, Writing, Restoring

LEMMA LoadUncheckedKeeps ==
  ASSUME CInv, LoadUnchecked
  PROVE  CInv'
<1>1. /\ pc = "boot" /\ pc' = "copyCfg" /\ file["cfg"] # None
      /\ str' = str /\ aborting' = aborting /\ changes' = changes
      /\ committed' = committed /\ attempt' = attempt
      /\ dc' = Decoded(file["cfg"]) /\ md5sum' = Decoded(file["cfg"])
      /\ \/ job' = "load" /\ Write("sum", file["cfg"])
         \/ job' = "bareLoad" /\ file' = file /\ may' = may
      /\ \/ job' = "load" /\ file["sum"] = None /\ safe' = safe /\ faults' = faults
         \/ safe' = FALSE /\ faults < MaxFaults /\ faults' = faults + 1
  BY DEF LoadUnchecked, Loaded, Fault, disk
<1>2. /\ job' = "load" => /\ file'["sum"] = file["cfg"]
                          /\ may'["sum"] = may["sum"] \cup {file["cfg"], Garbled}
      /\ file'["cfg"] = file["cfg"] /\ may'["cfg"] = may["cfg"] /\ may'["cfgBackup"] = may["cfgBackup"]
      /\ file' \in [File -> Text \cup {Garbled, None}]
      /\ may' \in [File -> SUBSET (Text \cup {Garbled, None})]
      /\ \A g \in File : file'[g] \in may'[g]
  <2>1. TypeOK /\ "sum" \in File /\ file["cfg"] \in Text \cup {Garbled} /\ CutOff("sum") = {Garbled}
    BY <1>1 DEF CInv, TypeOK, File, CutOff
  <2>2. CASE job' = "load"
    <3>1. Write("sum", file["cfg"])
      BY <1>1, <2>2
    <3> QED BY <2>1, <3>1, WriteDoes DEF File
  <2>3. CASE job' = "bareLoad" /\ file' = file /\ may' = may
    BY <2>1, <2>3 DEF TypeOK
  <2> QED BY <1>1, <2>2, <2>3
<1>3. TypeOK'
  <2>1. faults' \in 0 .. MaxFaults
    BY <1>1, CfgAssumption DEF CInv, TypeOK
  <2>2. safe \in BOOLEAN
    BY DEF CInv, TypeOK
  <2>3. safe' \in BOOLEAN
    BY <1>1, <2>2, Zenon
  <2> QED BY <1>1, <1>2, <2>1, <2>3, Constants DEF CInv, TypeOK, Phases, Loading, Restoring, Copying, Writing
<1>4. Always'
  BY <1>1, <1>2, Constants DEF Always, Copying, Writing, Restoring, Loading
<1>5. ASSUME safe' PROVE AtLoad' /\ AtSave'
  <2>0. safe /\ job' = "load" /\ file["sum"] = None
    BY <1>1, <1>5
  <2>1. Synced /\ Decoded(file["cfg"]) \in Good /\ Default \in Good /\ BackupServes(file)
    BY <1>1, <2>0 DEF CInv, AtBoot, Recovers
  <2>2. /\ may["cfg"] = {file["cfg"]} /\ may["sum"] = {None} /\ may["cfgBackup"] = {file["cfgBackup"]}
    BY <2>0, <2>1 DEF Synced, File
  <2> QED BY <1>1, <1>2, <2>0, <2>1, <2>2 DEF AtLoad, AtSave, Good, BackupServes, Loading
<1> QED
  BY <1>1, <1>3, <1>4, <1>5, ElsewhereNext DEF CInv, Copying, Writing, Restoring

LEMMA LoadRefusedKeeps ==
  ASSUME CInv, LoadRefused
  PROVE  CInv'
<1>1. /\ pc = "boot" /\ file["cfg"] # None /\ file["sum"] \notin {file["cfg"], None}
      /\ file' = file /\ may' = may /\ job' = job /\ str' = str /\ aborting' = aborting
      /\ safe' = safe /\ changes' = changes
      /\ committed' = committed /\ attempt' = attempt /\ dc' = dc /\ md5sum' = md5sum
      /\ \/ pc' = "dropCfg" /\ faults' = faults
         \/ pc' = "boot" /\ faults < MaxFaults /\ faults' = faults + 1
  BY DEF LoadRefused, Fault, disk, memory, history
<1>2. TypeOK'
  <2>1. faults' \in 0 .. MaxFaults
    BY <1>1, CfgAssumption DEF CInv, TypeOK
  <2> QED BY <1>1, <2>1 DEF CInv, TypeOK, Phases, Loading, Restoring, Copying, Writing
<1>3. Always'
  BY <1>1 DEF CInv, Always, Copying, Writing, Restoring, Loading
<1>4. ASSUME safe' PROVE AtBoot' /\ AtRestore'
  <2>1. Synced /\ Recovers(file) /\ BackupServes(file)
    BY <1>1, <1>4 DEF CInv, AtBoot, Recovers
  <2>2. CASE pc' = "boot"
    BY <1>1, <2>1, <2>2, ElsewhereNext DEF AtBoot, Synced, Recovers, BackupServes, Good, Restoring
  <2>3. CASE pc' = "dropCfg"
    BY <1>1, <2>1, <2>3, ElsewhereNext DEF AtRestore, Synced, BackupServes, Good
  <2> QED BY <1>1, <2>2, <2>3
<1> QED
  BY <1>1, <1>2, <1>3, <1>4, ElsewhereNext DEF CInv, Copying, Writing, Restoring

(* Restoring.                                                              *)
LEMMA RestoreKeeps ==
  ASSUME CInv, Restore
  PROVE  CInv'
<1>1. /\ job' = job /\ str' = str /\ aborting' = aborting
      /\ safe' = safe /\ changes' = changes /\ faults' = faults
      /\ committed' = committed /\ attempt' = attempt /\ dc' = dc /\ md5sum' = md5sum
  BY DEF Restore, DropCfg, DropSum, RestoreCfg, RestoreSum, Restored, memory, history, bounds
<1>2. TypeOK /\ Always /\ {"cfg", "sum", "cfgBackup", "sumBackup"} = File
  BY DEF CInv, File
<1>3. ASSUME safe' PROVE AtRestore
  BY <1>1, <1>3 DEF CInv
<1>4. CASE DropCfg
  <2>1. /\ pc = "dropCfg" /\ pc' = "dropSum" /\ Remove("cfg")
    BY <1>4 DEF DropCfg
  <2>2. /\ file'["cfg"] = None /\ file'["cfgBackup"] = file["cfgBackup"] /\ file'["sumBackup"] = file["sumBackup"]
        /\ file' \in [File -> Text \cup {Garbled, None}]
        /\ may' \in [File -> SUBSET (Text \cup {Garbled, None})]
        /\ \A g \in File : file'[g] \in may'[g]
    BY <1>2, <2>1, RemoveDoes
  <2>3. TypeOK'
    BY <1>1, <2>1, <2>2 DEF CInv, TypeOK, Phases, Loading, Restoring, Copying, Writing
  <2>4. Always'
    BY <1>1, <1>2, <2>1 DEF Always, Copying, Writing, Restoring, Loading
  <2>5. ASSUME safe' PROVE AtRestore'
    BY <1>1, <1>3, <2>1, <2>2, <2>5 DEF AtRestore, BackupServes, Good
  <2> QED
    BY <2>1, <2>3, <2>4, <2>5, ElsewhereNext DEF CInv, Copying, Writing, Restoring
<1>5. CASE DropSum
  <2>1. /\ pc = "dropSum" /\ pc' = (IF file["cfgBackup"] # None THEN "restoreCfg" ELSE "restored") /\ Remove("sum")
    BY <1>5 DEF DropSum
  <2>2. /\ file'["sum"] = None /\ file'["cfg"] = file["cfg"]
        /\ file'["cfgBackup"] = file["cfgBackup"] /\ file'["sumBackup"] = file["sumBackup"]
        /\ file' \in [File -> Text \cup {Garbled, None}]
        /\ may' \in [File -> SUBSET (Text \cup {Garbled, None})]
        /\ \A g \in File : file'[g] \in may'[g]
    BY <1>2, <2>1, RemoveDoes
  <2>3. TypeOK'
    BY <1>1, <2>1, <2>2 DEF CInv, TypeOK, Phases, Loading, Restoring, Copying, Writing
  <2>4. Always'
    BY <1>1, <1>2, <2>1 DEF Always, Copying, Writing, Restoring, Loading
  <2>5. ASSUME safe' PROVE AtRestore'
    BY <1>1, <1>3, <2>1, <2>2, <2>5 DEF AtRestore, BackupServes, Good
  <2> QED
    BY <2>1, <2>3, <2>4, <2>5, ElsewhereNext DEF CInv, Copying, Writing, Restoring
<1>6. CASE RestoreCfg
  <2>1. /\ pc = "restoreCfg" /\ pc' = "restoreSum" /\ Move("cfgBackup", "cfg")
    BY <1>6 DEF RestoreCfg
  <2>2. /\ file["cfgBackup"] # None => file'["cfg"] = file["cfgBackup"] /\ file'["cfgBackup"] = None
        /\ file'["sum"] = file["sum"] /\ file'["sumBackup"] = file["sumBackup"]
        /\ file' \in [File -> Text \cup {Garbled, None}]
        /\ may' \in [File -> SUBSET (Text \cup {Garbled, None})]
        /\ \A g \in File : file'[g] \in may'[g]
    BY <1>2, <2>1, MoveDoes
  <2>3. TypeOK'
    BY <1>1, <2>1, <2>2 DEF CInv, TypeOK, Phases, Loading, Restoring, Copying, Writing
  <2>4. Always'
    BY <1>1, <1>2, <2>1 DEF Always, Copying, Writing, Restoring, Loading
  <2>5. ASSUME safe' PROVE AtRestore'
    BY <1>1, <1>3, <2>1, <2>2, <2>5 DEF AtRestore, BackupServes, Good
  <2> QED
    BY <2>1, <2>3, <2>4, <2>5, ElsewhereNext DEF CInv, Copying, Writing, Restoring
<1>7. CASE RestoreSum
  <2>1. /\ pc = "restoreSum" /\ pc' = "restored" /\ Move("sumBackup", "sum")
    BY <1>7 DEF RestoreSum
  <2>2. /\ file["sumBackup"] # None => file'["sum"] = file["sumBackup"]
        /\ file'["cfg"] = file["cfg"] /\ file'["cfgBackup"] = file["cfgBackup"]
        /\ file' \in [File -> Text \cup {Garbled, None}]
        /\ may' \in [File -> SUBSET (Text \cup {Garbled, None})]
        /\ \A g \in File : file'[g] \in may'[g]
    BY <1>2, <2>1, MoveDoes
  <2>3. TypeOK'
    BY <1>1, <2>1, <2>2 DEF CInv, TypeOK, Phases, Loading, Restoring, Copying, Writing
  <2>4. Always'
    BY <1>1, <1>2, <2>1 DEF Always, Copying, Writing, Restoring, Loading
  <2>5. ASSUME safe' PROVE AtRestore'
    BY <1>1, <1>3, <2>1, <2>2, <2>5 DEF AtRestore, BackupServes, Good
  <2> QED
    BY <2>1, <2>3, <2>4, <2>5, ElsewhereNext DEF CInv, Copying, Writing, Restoring
<1>8. CASE Restored
  <2>1. /\ pc = "restored" /\ pc' = "boot" /\ Sync
    BY <1>8 DEF Restored
  <2>2. /\ file' = file /\ Synced'
        /\ may' \in [File -> SUBSET (Text \cup {Garbled, None})]
        /\ \A g \in File : file'[g] \in may'[g]
    BY <1>2, <2>1, SyncDoes
  <2>3. TypeOK'
    BY <1>1, <2>1, <2>2 DEF CInv, TypeOK, Phases, Loading, Restoring, Copying, Writing
  <2>4. Always'
    BY <1>1, <1>2, <2>1 DEF Always, Copying, Writing, Restoring, Loading
  <2>5. ASSUME safe' PROVE AtBoot'
    <3>1. Recovers(file)
      BY <1>1, <1>3, <2>1, <2>5 DEF AtRestore, BackupServes, Recovers
    <3> QED BY <1>1, <2>2, <3>1 DEF AtBoot, Recovers, BackupServes, Good
  <2> QED
    BY <2>1, <2>3, <2>4, <2>5, ElsewhereNext DEF CInv, Copying, Writing, Restoring
<1> QED
  BY <1>4, <1>5, <1>6, <1>7, <1>8 DEF Restore

(* Backing up.                                                             *)
LEMMA BackupKeeps ==
  ASSUME CInv, Backup
  PROVE  CInv'
<1>1. /\ job' = job /\ str' = str /\ aborting' = aborting
      /\ changes' = changes /\ faults' = faults /\ dc' = dc /\ md5sum' = md5sum
  BY DEF Backup, CopyCfg, CopySum, BackedUp, memory, bounds
<1>2. TypeOK /\ Always /\ {"cfg", "sum", "cfgBackup", "sumBackup"} = File
      /\ CutOff("cfgBackup") = Torn
  BY DEF CInv, File, CutOff
<1>3. ASSUME safe PROVE AtLoad /\ AtSave
  BY <1>3 DEF CInv
<1>4. CASE CopyCfg
  <2>1. /\ pc = "copyCfg" /\ pc' = "copySum" /\ Copy("cfg", "cfgBackup")
        /\ committed' = committed /\ attempt' = attempt /\ safe' = safe
    BY <1>4 DEF CopyCfg, history
  <2>2. /\ file["cfg"] = None => file' = file /\ may' = may
        /\ file["cfg"] # None => /\ file'["cfgBackup"] = file["cfg"]
                                 /\ may'["cfgBackup"] = may["cfgBackup"] \cup {file["cfg"]} \cup Torn
        /\ file'["cfg"] = file["cfg"] /\ file'["sum"] = file["sum"]
        /\ may'["cfg"] = may["cfg"] /\ may'["sum"] = may["sum"]
        /\ file' \in [File -> Text \cup {Garbled, None}]
        /\ may' \in [File -> SUBSET (Text \cup {Garbled, None})]
        /\ \A g \in File : file'[g] \in may'[g]
    BY <1>2, <2>1, CopyDoes
  <2>3. TypeOK'
    BY <1>1, <2>1, <2>2 DEF CInv, TypeOK, Phases, Loading, Restoring, Copying, Writing
  <2>4. Always'
    BY <1>1, <1>2, <2>1, <2>2 DEF Always, Copying, Writing, Restoring, Loading
  <2>5. ASSUME safe', job \in Loading PROVE AtLoad' /\ AtSave'
    BY <1>1, <1>2, <1>3, <2>1, <2>2, <2>5, Constants DEF AtLoad, AtSave, Always, Good, Copying
  <2>6. ASSUME safe', job \notin Loading PROVE AtLoad' /\ AtSave'
    BY <1>1, <1>3, <2>1, <2>2, <2>6 DEF AtLoad, AtSave, InPlace, Copying
  <2> QED
    BY <2>1, <2>3, <2>4, <2>5, <2>6, ElsewhereNext DEF CInv, Copying, Writing, Restoring
<1>5. CASE CopySum
  <2>1. /\ pc = "copySum" /\ pc' = "backup" /\ Copy("sum", "sumBackup")
        /\ committed' = committed /\ attempt' = attempt /\ safe' = safe
    BY <1>5 DEF CopySum, history
  <2>2. /\ file["sum"] # None => file'["sumBackup"] = file["sum"]
        /\ file'["cfg"] = file["cfg"] /\ file'["sum"] = file["sum"] /\ file'["cfgBackup"] = file["cfgBackup"]
        /\ may'["cfg"] = may["cfg"] /\ may'["sum"] = may["sum"] /\ may'["cfgBackup"] = may["cfgBackup"]
        /\ file' \in [File -> Text \cup {Garbled, None}]
        /\ may' \in [File -> SUBSET (Text \cup {Garbled, None})]
        /\ \A g \in File : file'[g] \in may'[g]
    BY <1>2, <2>1, CopyDoes
  <2>3. TypeOK'
    BY <1>1, <2>1, <2>2 DEF CInv, TypeOK, Phases, Loading, Restoring, Copying, Writing
  <2>4. Always'
    BY <1>1, <1>2, <2>1, <2>2 DEF Always, Copying, Writing, Restoring, Loading
  <2>5. ASSUME safe', job \in Loading PROVE AtLoad' /\ AtSave'
    BY <1>1, <1>2, <1>3, <2>1, <2>2, <2>5 DEF AtLoad, AtSave, Always, Good, Copying
  <2>6. ASSUME safe', job \notin Loading PROVE AtLoad' /\ AtSave'
    BY <1>1, <1>3, <2>1, <2>2, <2>6 DEF AtLoad, AtSave, InPlace, Copying
  <2> QED
    BY <2>1, <2>3, <2>4, <2>5, <2>6, ElsewhereNext DEF CInv, Copying, Writing, Restoring
<1>6. CASE BackedUp
  <2>1. /\ pc = "backup" /\ Sync
        /\ job \in Loading => pc' = "up" /\ committed' = dc /\ attempt' = None /\ safe' = (job = "load")
        /\ job \notin Loading => pc' = "openCfg" /\ committed' = committed /\ attempt' = attempt /\ safe' = safe
    BY <1>6 DEF BackedUp, history
  <2>2. /\ file' = file /\ Synced'
        /\ file' \in [File -> Text \cup {Garbled, None}]
        /\ may' \in [File -> SUBSET (Text \cup {Garbled, None})]
        /\ \A g \in File : file'[g] \in may'[g]
    BY <1>2, <2>1, SyncDoes
  <2>3. CASE job \in Loading
    <3>1. /\ file["cfg"] # None /\ dc = Decoded(file["cfg"]) /\ dc \in Values
          /\ job = "load" => file["sum"] = file["cfg"]
      BY <1>2, <2>1, <2>3, Constants DEF Always, Copying
    <3>2. TypeOK'
      BY <1>1, <2>1, <2>2, <2>3, <3>1 DEF CInv, TypeOK, Phases, Loading, Restoring, Copying, Writing
    <3>3. Always'
      BY <1>1, <1>2, <2>1, <2>3 DEF Always, Copying, Writing, Restoring, Loading
    <3>4. ASSUME safe' PROVE AtUp'
      <4>1. file["sum"] = file["cfg"]
        BY <2>1, <2>3, <3>1, <3>4
      <4> QED BY <1>2, <2>1, <2>2, <2>3, <3>1, <4>1 DEF AtUp, InPlace, Synced, Decoded
    <3> QED
      BY <2>1, <2>3, <3>2, <3>3, <3>4, ElsewhereNext DEF CInv, Copying, Writing, Restoring
  <2>4. CASE job \notin Loading
    <3>2. TypeOK'
      BY <1>1, <2>1, <2>2, <2>4 DEF CInv, TypeOK, Phases, Loading, Restoring, Copying, Writing
    <3>3. Always'
      BY <1>1, <1>2, <2>1, <2>4 DEF Always, Copying, Writing, Restoring, Loading
    <3>4. ASSUME safe' PROVE AtWrite'
      <4>1. /\ attempt = None /\ InPlace(committed) /\ file["cfgBackup"] = file["cfg"]
            /\ file["cfg"] # None => file["sumBackup"] = file["cfg"]
        BY <1>3, <2>1, <2>4, <3>4 DEF AtSave, Copying
      <4>2. \A f \in File : may'[f] = {file[f]}
        BY <2>2 DEF Synced
      <4>3. InPlace(committed)'
        BY <1>2, <2>1, <2>2, <2>4, <4>1, <4>2 DEF InPlace, Decoded
      <4>4. BackupInPlace'
        BY <1>2, <2>1, <2>2, <2>4, <4>1, <4>2 DEF InPlace, BackupInPlace, Decoded
      <4> QED
        BY <1>2, <2>1, <2>2, <2>4, <4>1, <4>3, <4>4 DEF AtWrite, Writing
    <3> QED
      BY <2>1, <2>4, <3>2, <3>3, <3>4, ElsewhereNext DEF CInv, Copying, Writing, Restoring
  <2> QED BY <2>3, <2>4
<1> QED
  BY <1>4, <1>5, <1>6 DEF Backup

(* Writing.                                                                *)
LEMMA StoreKeeps ==
  ASSUME CInv, Store
  PROVE  CInv'
<1>1. /\ job' = job /\ str' = str /\ dc' = dc /\ changes' = changes /\ faults' = faults
  BY DEF Store, OpenCfg, OpenSum, WriteCfg, WriteSum, Written, memory, bounds
<1>2. TypeOK /\ Always /\ {"cfg", "sum", "cfgBackup", "sumBackup"} = File
      /\ CutOff("cfg") = Torn /\ CutOff("sum") = {Garbled}
  BY DEF CInv, File, CutOff
<1>3. ASSUME safe PROVE AtWrite
  BY <1>3 DEF CInv
<1>4. CASE OpenCfg
  <2>1. /\ pc = "openCfg" /\ pc' = "openSum" /\ Write("cfg", Empty)
        /\ committed' = committed /\ attempt' = str /\ safe' = safe
        /\ md5sum' = md5sum /\ aborting' = aborting
    BY <1>4 DEF OpenCfg, history, memory
  <2>2. /\ file'["cfg"] = Empty /\ may'["cfg"] = may["cfg"] \cup {Empty} \cup CutOff("cfg")
        /\ \A g \in File : g # "cfg" => file'[g] = file[g] /\ may'[g] = may[g]
        /\ file' \in [File -> Text \cup {Garbled, None}]
        /\ may' \in [File -> SUBSET (Text \cup {Garbled, None})]
        /\ \A g \in File : file'[g] \in may'[g]
    <3>1. Empty \in Text \cup {Garbled}
      BY <1>2, <2>1, Constants DEF Always, Writing, Text
    <3> QED BY <1>2, <2>1, <3>1, WriteDoes
  <2>3. TypeOK'
    BY <1>1, <1>2, <2>1, <2>2 DEF CInv, TypeOK, Always, Phases, Loading, Restoring, Copying, Writing
  <2>4. Always'
    BY <1>1, <1>2, <2>1, <2>2 DEF Always, Copying, Writing, Restoring, Loading
  <2>5. ASSUME safe' PROVE AtWrite'
    <3>1. AtWrite
      BY <1>3, <2>1, <2>5
    <3>2. BackupInPlace'
      BY <1>2, <2>1, <2>2, <3>1 DEF AtWrite, BackupInPlace
    <3>3. /\ Synced /\ InPlace(committed) /\ file["cfgBackup"] = file["cfg"]
      BY <2>1, <3>1 DEF AtWrite
    <3>4. may'["cfg"] \subseteq {file'["cfgBackup"], str'} \cup Torn
      BY <1>1, <1>2, <2>2, <3>3, Constants DEF Synced
    <3>5. None \in may'["sum"] \/ may'["sum"] \cap Torn # {} => committed = Default
      <4>1. may'["sum"] = {file["sum"]}
        BY <1>2, <2>2, <3>3 DEF Synced
      <4> QED BY <3>3, <4>1, Constants DEF InPlace
    <3> QED BY <1>1, <2>1, <3>2, <3>4, <3>5 DEF AtWrite, Writing
  <2> QED
    BY <2>1, <2>3, <2>4, <2>5, ElsewhereNext DEF CInv, Copying, Writing, Restoring
<1>5. CASE OpenSum
  <2>1. /\ pc = "openSum" /\ pc' = "writeCfg" /\ Write("sum", Garbled)
        /\ committed' = committed /\ attempt' = attempt /\ safe' = safe
        /\ md5sum' = md5sum /\ aborting' = aborting
    BY <1>5 DEF OpenSum, history, memory
  <2>2. /\ file'["sum"] = Garbled /\ may'["sum"] = may["sum"] \cup {Garbled} \cup CutOff("sum")
        /\ \A g \in File : g # "sum" => file'[g] = file[g] /\ may'[g] = may[g]
        /\ file' \in [File -> Text \cup {Garbled, None}]
        /\ may' \in [File -> SUBSET (Text \cup {Garbled, None})]
        /\ \A g \in File : file'[g] \in may'[g]
    <3>1. Garbled \in Text \cup {Garbled}
      BY <1>2, <2>1, Constants DEF Always, Writing, Text
    <3> QED BY <1>2, <2>1, <3>1, WriteDoes
  <2>3. TypeOK'
    BY <1>1, <1>2, <2>1, <2>2 DEF CInv, TypeOK, Always, Phases, Loading, Restoring, Copying, Writing
  <2>4. Always'
    BY <1>1, <1>2, <2>1, <2>2 DEF Always, Copying, Writing, Restoring, Loading
  <2>5. ASSUME safe' PROVE AtWrite'
    <3>1. AtWrite
      BY <1>3, <2>1, <2>5
    <3>2. BackupInPlace'
      BY <1>2, <2>1, <2>2, <3>1 DEF AtWrite, Writing, BackupInPlace
    <3> QED BY <1>1, <1>2, <2>1, <2>2, <3>1, <3>2, Constants DEF AtWrite, Writing
  <2> QED
    BY <2>1, <2>3, <2>4, <2>5, ElsewhereNext DEF CInv, Copying, Writing, Restoring
<1>6. CASE WriteCfg
  <2>1. /\ pc = "writeCfg" /\ pc' = "writeSum" /\ Write("cfg", str)
        /\ committed' = committed /\ attempt' = attempt /\ safe' = safe
        /\ md5sum' = md5sum /\ aborting' = aborting
    BY <1>6 DEF WriteCfg, history, memory
  <2>2. /\ file'["cfg"] = str /\ may'["cfg"] = may["cfg"] \cup {str} \cup CutOff("cfg")
        /\ \A g \in File : g # "cfg" => file'[g] = file[g] /\ may'[g] = may[g]
        /\ file' \in [File -> Text \cup {Garbled, None}]
        /\ may' \in [File -> SUBSET (Text \cup {Garbled, None})]
        /\ \A g \in File : file'[g] \in may'[g]
    <3>1. str \in Text \cup {Garbled}
      BY <1>2, <2>1, Constants DEF Always, Writing, Text
    <3> QED BY <1>2, <2>1, <3>1, WriteDoes
  <2>3. TypeOK'
    BY <1>1, <1>2, <2>1, <2>2 DEF CInv, TypeOK, Always, Phases, Loading, Restoring, Copying, Writing
  <2>4. Always'
    BY <1>1, <1>2, <2>1, <2>2 DEF Always, Copying, Writing, Restoring, Loading
  <2>5. ASSUME safe' PROVE AtWrite'
    <3>1. AtWrite
      BY <1>3, <2>1, <2>5
    <3>2. BackupInPlace'
      BY <1>2, <2>1, <2>2, <3>1 DEF AtWrite, Writing, BackupInPlace
    <3> QED BY <1>1, <1>2, <2>1, <2>2, <3>1, <3>2, Constants DEF AtWrite, Writing
  <2> QED
    BY <2>1, <2>3, <2>4, <2>5, ElsewhereNext DEF CInv, Copying, Writing, Restoring
<1>7. CASE WriteSum
  <2>1. /\ pc = "writeSum" /\ pc' = "written" /\ Write("sum", str)
        /\ committed' = committed /\ attempt' = attempt /\ safe' = safe
        /\ md5sum' = md5sum /\ aborting' = aborting
    BY <1>7 DEF WriteSum, history, memory
  <2>2. /\ file'["sum"] = str /\ may'["sum"] = may["sum"] \cup {str} \cup CutOff("sum")
        /\ \A g \in File : g # "sum" => file'[g] = file[g] /\ may'[g] = may[g]
        /\ file' \in [File -> Text \cup {Garbled, None}]
        /\ may' \in [File -> SUBSET (Text \cup {Garbled, None})]
        /\ \A g \in File : file'[g] \in may'[g]
    <3>1. str \in Text \cup {Garbled}
      BY <1>2, <2>1, Constants DEF Always, Writing, Text
    <3> QED BY <1>2, <2>1, <3>1, WriteDoes
  <2>3. TypeOK'
    BY <1>1, <1>2, <2>1, <2>2 DEF CInv, TypeOK, Always, Phases, Loading, Restoring, Copying, Writing
  <2>4. Always'
    BY <1>1, <1>2, <2>1, <2>2 DEF Always, Copying, Writing, Restoring, Loading
  <2>5. ASSUME safe' PROVE AtWrite'
    <3>1. AtWrite
      BY <1>3, <2>1, <2>5
    <3>2. BackupInPlace'
      BY <1>2, <2>1, <2>2, <3>1 DEF AtWrite, Writing, BackupInPlace
    <3>3. str \in Values
      BY <1>2, <2>1 DEF Always, Writing
    <3>4. may'["sum"] = may["sum"] \cup {str, Garbled} /\ may'["cfg"] = may["cfg"]
      BY <1>2, <2>2
    <3>5. None \in may'["sum"] \/ may'["sum"] \cap Torn # {} => None \in may["sum"] \/ may["sum"] \cap Torn # {}
      BY <3>3, <3>4, Constants
    <3> QED BY <1>1, <1>2, <2>1, <2>2, <3>1, <3>2, <3>4, <3>5 DEF AtWrite, Writing
  <2> QED
    BY <2>1, <2>3, <2>4, <2>5, ElsewhereNext DEF CInv, Copying, Writing, Restoring
<1>8. CASE Written
  <2>1. /\ pc = "written" /\ pc' = "up" /\ Sync
        /\ committed' = str /\ attempt' = None /\ safe' = TRUE
        /\ md5sum' \in {md5sum, str} /\ aborting' \in BOOLEAN
    BY <1>2, <1>8 DEF Written, TypeOK
  <2>2. /\ file' = file /\ Synced'
        /\ file' \in [File -> Text \cup {Garbled, None}]
        /\ may' \in [File -> SUBSET (Text \cup {Garbled, None})]
        /\ \A g \in File : file'[g] \in may'[g]
    BY <1>2, <2>1, SyncDoes
  <2>3. str \in Values /\ file["cfg"] = str /\ file["sum"] = str
    BY <1>2, <2>1 DEF Always, Writing
  <2>4. TypeOK'
    BY <1>1, <2>1, <2>2, <2>3 DEF CInv, TypeOK, Phases, Loading, Restoring, Copying, Writing
  <2>5. Always'
    BY <1>1, <1>2, <2>1 DEF Always, Copying, Writing, Restoring, Loading
  <2>6. AtUp'
    <3>1. \A f \in File : may'[f] = {file[f]}
      BY <2>2 DEF Synced
    <3> QED BY <1>2, <2>1, <2>2, <2>3, <3>1, Constants DEF AtUp, InPlace, Synced, Decoded
  <2> QED
    BY <2>1, <2>4, <2>5, <2>6, ElsewhereNext DEF CInv, Copying, Writing, Restoring
<1> QED
  BY <1>4, <1>5, <1>6, <1>7, <1>8 DEF Store

LEMMA OpenFailsKeeps ==
  ASSUME CInv, OpenCfgFails \/ OpenSumFails
  PROVE  CInv'
<1>1. /\ pc \in {"openCfg", "openSum"} /\ pc' = "up"
      /\ file' = file /\ may' = may /\ job' = job /\ str' = str /\ aborting' = aborting
      /\ changes' = changes /\ faults < MaxFaults /\ faults' = faults + 1
      /\ committed' = committed /\ attempt' = attempt /\ dc' = dc /\ md5sum' = md5sum
      /\ \/ pc = "openCfg" /\ safe' = safe
         \/ safe' = FALSE
  BY DEF OpenCfgFails, OpenSumFails, Fault, disk, memory, history
<1>2. TypeOK'
  <2>1. faults' \in 0 .. MaxFaults
    BY <1>1, CfgAssumption DEF CInv, TypeOK, Phases, Loading, Restoring, Copying, Writing
  <2> QED BY <1>1, <2>1 DEF CInv, TypeOK, Phases, Loading, Restoring, Copying, Writing
<1>3. Always'
  BY <1>1 DEF CInv, Always, Copying, Writing, Restoring, Loading
<1>4. ASSUME safe' PROVE AtUp'
  <2>1. attempt = None /\ Synced /\ InPlace(committed)
    BY <1>1, <1>4 DEF CInv, AtWrite
  <2> QED BY <1>1, <2>1 DEF AtUp, Synced, InPlace
<1> QED
  BY <1>1, <1>2, <1>3, <1>4, ElsewhereNext DEF CInv, Copying, Writing, Restoring

-----------------------------------------------------------------------------
(* What the service is asked to do.                                        *)
LEMMA ChangeKeeps ==
  ASSUME CInv, NEW v \in Values, Change(v)
  PROVE  CInv'
<1>1. /\ dc # None /\ (pc \notin Copying \/ job \notin Loading) /\ dc' = v
      /\ file' = file /\ may' = may /\ pc' = pc /\ job' = job /\ str' = str /\ aborting' = aborting
      /\ changes < MaxChanges /\ changes' = changes + 1 /\ faults' = faults
      /\ committed' = committed /\ attempt' = attempt /\ safe' = safe /\ md5sum' = md5sum
  BY DEF Change, disk, history, Copying
<1>2. TypeOK'
  <2>1. changes' \in 0 .. MaxChanges
    BY <1>1, CfgAssumption DEF CInv, TypeOK, Phases, Loading, Restoring, Copying, Writing
  <2> QED BY <1>1, <2>1 DEF CInv, TypeOK, Phases, Loading, Restoring, Copying, Writing
<1>3. Always'
  BY <1>1, Constants DEF CInv, Always
<1>4. ASSUME safe' PROVE (AtBoot /\ AtUp /\ AtRestore /\ AtLoad /\ AtSave /\ AtWrite)'
  <2>1. AtBoot /\ AtUp /\ AtRestore /\ AtLoad /\ AtSave /\ AtWrite
    BY <1>1, <1>4 DEF CInv
  <2>2. AtBoot' /\ AtUp'
    BY <1>1, <2>1 DEF AtBoot, AtUp, Synced, Recovers, BackupServes, Good, InPlace
  <2>3. AtRestore'
    BY <1>1, <2>1 DEF AtRestore, Synced, BackupServes, Good
  <2>4. AtLoad' /\ AtSave'
    BY <1>1, <2>1 DEF AtLoad, AtSave, InPlace, Good, Loading
  <2>5. AtWrite'
    BY <1>1, <2>1 DEF AtWrite, Synced, InPlace, BackupInPlace
  <2> QED BY <2>2, <2>3, <2>4, <2>5
<1> QED
  BY <1>2, <1>3, <1>4 DEF CInv

LEMMA SaveKeeps ==
  ASSUME CInv, Save \/ \E v \in Values : Download(v)
  PROVE  CInv'
<1>1. /\ pc = "up" /\ pc' = "copyCfg" /\ job' \in {"save", "download"} /\ str' \in Values \cup {None}
      /\ file' = file /\ may' = may /\ aborting' = aborting
      /\ changes' \in 0 .. MaxChanges /\ faults' = faults
      /\ committed' = committed /\ attempt' = attempt /\ safe' = safe /\ dc' = dc /\ md5sum' = md5sum
  <2>1. CASE Save
    BY <2>1 DEF Save, disk, memory, history, bounds, CInv, TypeOK
  <2>2. CASE \E v \in Values : Download(v)
    BY <2>2, CfgAssumption DEF Download, disk, memory, history, CInv, TypeOK
  <2> QED BY <2>1, <2>2
<1>s. str' \in Values
  <2>1. CASE Save
    BY <1>1, <2>1 DEF Save, CInv, Always, TypeOK, Restoring
  <2>2. CASE \E v \in Values : Download(v)
    BY <2>2 DEF Download
  <2> QED BY <2>1, <2>2
<1>2. TypeOK'
  BY <1>1 DEF CInv, TypeOK, Phases, Loading, Restoring, Copying, Writing
<1>3. Always'
  BY <1>1, <1>s DEF CInv, Always, Copying, Writing, Restoring, Loading
<1>4. ASSUME safe' PROVE AtLoad' /\ AtSave'
  <2>1. attempt = None /\ InPlace(committed)
    BY <1>1, <1>4 DEF CInv, AtUp
  <2> QED BY <1>1, <2>1 DEF AtLoad, AtSave, InPlace, Loading
<1> QED
  BY <1>1, <1>2, <1>3, <1>4, ElsewhereNext DEF CInv, Copying, Writing, Restoring

-----------------------------------------------------------------------------
(* Every end of the process finds what a boot recovers from.               *)
LEMMA RestartKeeps ==
  ASSUME CInv, Restart
  PROVE  CInv'
<1>1. /\ pc = "up" /\ pc' = "boot" /\ dc' = None /\ md5sum' = None /\ aborting' = FALSE
      /\ file' = file /\ may' = may /\ job' = job /\ str' = str /\ changes' = changes
      /\ committed' = committed /\ attempt' = attempt /\ safe' = safe
      /\ faults' = faults \/ (faults < MaxFaults /\ faults' = faults + 1)
  BY DEF Restart, Fault, Down, disk, history
<1>2. TypeOK'
  <2>1. faults' \in 0 .. MaxFaults
    BY <1>1, CfgAssumption DEF CInv, TypeOK, Phases, Loading, Restoring, Copying, Writing
  <2> QED BY <1>1, <2>1 DEF CInv, TypeOK, Phases, Loading, Restoring, Copying, Writing
<1>3. Always'
  BY <1>1 DEF Always, Copying, Writing, Restoring, Loading
<1>4. ASSUME safe' PROVE AtBoot'
  <2>1. Synced /\ InPlace(committed) /\ committed \in Values
    BY <1>1, <1>4 DEF CInv, AtUp, TypeOK
  <2> QED BY <1>1, <2>1 DEF AtBoot, Synced, InPlace, Recovers, Good
<1> QED
  BY <1>1, <1>2, <1>3, <1>4, ElsewhereNext DEF CInv, Copying, Writing, Restoring

LEMMA PowerLossKeeps ==
  ASSUME CInv, PowerLoss
  PROVE  CInv'
<1>1. /\ pc' = "boot" /\ dc' = None /\ md5sum' = None /\ aborting' = FALSE
      /\ job' = job /\ str' = str /\ changes' = changes /\ faults < MaxFaults /\ faults' = faults + 1
      /\ committed' = committed /\ attempt' = attempt /\ safe' = (safe /\ pc \notin Restoring)
  BY DEF PowerLoss, Fault, Down
<1>2. TypeOK /\ Always /\ {"cfg", "sum", "cfgBackup", "sumBackup"} = File /\ committed \in Values
      /\ None \notin Values
  BY Constants DEF CInv, TypeOK, File
<1>3. /\ file'["cfg"] \in may["cfg"] /\ file'["sum"] \in may["sum"]
      /\ file'["cfgBackup"] \in may["cfgBackup"] /\ file'["sumBackup"] \in may["sumBackup"]
      /\ Synced'
      /\ file' \in [File -> Text \cup {Garbled, None}]
      /\ may' \in [File -> SUBSET (Text \cup {Garbled, None})]
      /\ \A g \in File : file'[g] \in may'[g]
  BY <1>2, PowerLossDoes
<1>4. TypeOK'
  <2>1. faults' \in 0 .. MaxFaults
    BY <1>1, CfgAssumption DEF CInv, TypeOK, Phases, Loading, Restoring, Copying, Writing
  <2>2. safe' \in BOOLEAN
    BY <1>1
  <2> QED BY <1>1, <1>3, <2>1, <2>2 DEF CInv, TypeOK, Phases, Loading, Restoring, Copying, Writing
<1>5. Always'
  BY <1>1 DEF Always, Copying, Writing, Restoring, Loading
<1>6. ASSUME safe' PROVE Recovers(file')
  <2>1. safe /\ pc \notin Restoring
    BY <1>1, <1>6, Zenon
  <2>2. AtBoot /\ AtUp /\ AtRestore /\ AtLoad /\ AtSave /\ AtWrite
    BY <2>1 DEF CInv
  <2>3. CASE pc \in {"boot", "dropCfg", "up", "openCfg"}
    <3>1. Synced /\ file' = file
      <4>1. Synced
        BY <2>2, <2>3 DEF AtBoot, AtRestore, AtUp, AtWrite
      <4> QED BY <1>2, <1>3, <4>1, PowerLossDoes DEF Synced, TypeOK
    <3>2. Recovers(file)
      <4>1. CASE pc = "boot"
        BY <2>2, <4>1 DEF AtBoot
      <4>2. CASE pc = "dropCfg"
        BY <2>2, <4>2 DEF AtRestore, Recovers
      <4>3. CASE pc \in {"up", "openCfg"}
        BY <1>2, <2>2, <4>3 DEF AtUp, AtWrite, InPlace, Recovers, Good
      <4> QED BY <2>3, <4>1, <4>2, <4>3
    <3> QED BY <3>1, <3>2
  <2>4. CASE pc \in Copying /\ job \in Loading
    <3>1. /\ file["cfg"] # None /\ dc = Decoded(file["cfg"]) /\ file'["cfg"] = file["cfg"] /\ dc \in Good
      BY <1>2, <1>3, <2>2, <2>4 DEF Always, AtLoad
    <3> QED BY <1>2, <1>3, <2>2, <2>4, <3>1, Constants DEF AtLoad, Recovers, BackupServes
  <2>5. CASE pc \in Copying /\ job \notin Loading
    <3>1. InPlace(committed)
      BY <2>2, <2>5 DEF AtSave
    <3> QED BY <1>2, <1>3, <3>1 DEF InPlace, Recovers, Good
  <2>6. CASE pc \in Writing
    <3>1. /\ attempt = str /\ str \in Values /\ BackupInPlace
          /\ may["cfg"] \subseteq {file["cfgBackup"], str} \cup Torn
          /\ None \in may["sum"] \/ may["sum"] \cap Torn # {} => committed = Default
      BY <1>2, <2>2, <2>6 DEF AtWrite, Always
    <3>2. committed \in Good /\ str \in Good
      BY <1>2, <3>1 DEF Good
    <3>3. file'["cfgBackup"] = file["cfgBackup"] /\ file'["sumBackup"] = file["sumBackup"]
      BY <1>3, <3>1 DEF BackupInPlace
    <3>4. file["cfgBackup"] = None => committed = Default
      BY <3>1 DEF BackupInPlace
    <3>5. BackupServes(file')
      BY <3>1, <3>2, <3>3, <3>4 DEF BackupServes, BackupInPlace
    <3>6. CASE file'["cfg"] = None
      BY <1>2, <1>3, <3>1, <3>2, <3>3, <3>4, <3>6, Constants DEF Recovers
    <3>7. CASE file'["cfg"] # None
      <4>1. Decoded(file'["cfg"]) \in Good \/ file'["cfg"] \in Torn
        BY <1>3, <3>1, <3>2, <3>3, <3>7, Constants DEF BackupInPlace
      <4>2. file'["sum"] = None \/ file'["sum"] \in Torn => Default \in Good
        BY <1>3, <3>1, <3>2
      <4>3. file'["cfg"] \in Torn => Decoded(file'["cfg"]) = Default
        BY Constants
      <4> QED BY <3>5, <3>7, <4>1, <4>2, <4>3 DEF Recovers
    <3> QED BY <3>6, <3>7
  <2> QED BY <1>2, <2>1, <2>3, <2>4, <2>5, <2>6 DEF TypeOK, Phases
<1>7. ASSUME safe' PROVE AtBoot'
  <2>1. Recovers(file)'
    BY <1>1, <1>6, <1>7 DEF Recovers, BackupServes, Good
  <2> QED BY <1>3, <2>1 DEF AtBoot
<1> QED
  BY <1>1, <1>4, <1>5, <1>7, ElsewhereNext DEF CInv, Copying, Writing, Restoring

LEMMA CStep == CInv /\ [Next]_vars => CInv'
<1> SUFFICES ASSUME CInv, [Next]_vars PROVE CInv'
  OBVIOUS
<1>1. CASE Load
  BY <1>1, LoadNothingKeeps, LoadCheckedKeeps, LoadUncheckedKeeps, LoadRefusedKeeps DEF Load
<1>2. CASE Restore \/ Backup \/ Store
  BY <1>2, RestoreKeeps, BackupKeeps, StoreKeeps
<1>3. CASE OpenCfgFails \/ OpenSumFails
  BY <1>3, OpenFailsKeeps
<1>4. CASE \E v \in Values : Change(v) \/ Download(v)
  BY <1>4, ChangeKeeps, SaveKeeps
<1>5. CASE Save
  BY <1>5, SaveKeeps
<1>6. CASE Restart \/ PowerLoss
  BY <1>6, RestartKeeps, PowerLossKeeps
<1>7. CASE UNCHANGED vars
  <2>1. /\ file' = file /\ may' = may /\ pc' = pc /\ job' = job /\ str' = str /\ aborting' = aborting
        /\ changes' = changes /\ faults' = faults /\ dc' = dc /\ md5sum' = md5sum
        /\ committed' = committed /\ attempt' = attempt /\ safe' = safe
    BY <1>7 DEF vars
  <2>2. TypeOK' /\ Always'
    BY <2>1 DEF CInv, TypeOK, Always
  <2>3. ASSUME safe' PROVE (AtBoot /\ AtUp /\ AtRestore /\ AtLoad /\ AtSave /\ AtWrite)'
    <3>1. AtBoot /\ AtUp /\ AtRestore /\ AtLoad /\ AtSave /\ AtWrite
      BY <2>1, <2>3 DEF CInv
    <3>2. AtBoot' /\ AtUp'
      BY <2>1, <3>1 DEF AtBoot, AtUp, Synced, Recovers, BackupServes, Good, InPlace
    <3>3. AtRestore'
      BY <2>1, <3>1 DEF AtRestore, Synced, BackupServes, Good
    <3>4. AtLoad' /\ AtSave'
      BY <2>1, <3>1 DEF AtLoad, AtSave, InPlace, Good, Loading
    <3>5. AtWrite'
      BY <2>1, <3>1 DEF AtWrite, Synced, InPlace, BackupInPlace
    <3> QED BY <3>2, <3>3, <3>4, <3>5
  <2> QED BY <2>2, <2>3 DEF CInv
<1> QED
  BY <1>1, <1>2, <1>3, <1>4, <1>5, <1>6, <1>7 DEF Next

THEOREM CInvariant == Spec => []CInv
  BY CInit, CStep, PTL DEF Spec

-----------------------------------------------------------------------------
(* Whenever power was lost, and however often, load_cfg finds the          *)
(* configuration that save_cfg wrote completely last, or the one it was    *)
(* writing (cfg.lua), but for a loss of power while the backup is moved to *)
(* its place, a boot now or since then that could not open a file, and a   *)
(* save that could not open the checksum.                                  *)
THEOREM LastSavedLoaded == Spec => BootsLastSaved
<1> DEFINE A == pc = "boot" /\ dc' # None /\ safe /\ faults' = faults => dc' \in {committed, attempt}
<1>1. CInv /\ [Next]_vars => [A]_vars
  <2> SUFFICES ASSUME CInv, Next, pc = "boot", dc' # None, safe, faults' = faults
               PROVE  dc' \in {committed, attempt}
    OBVIOUS
  <2>1. dc = None /\ Recovers(file) /\ ~Fault
    BY CfgAssumption DEF CInv, TypeOK, Always, AtBoot, Fault
  <2>2. LoadNothing \/ LoadChecked \/ LoadUnchecked
    BY <2>1 DEF Next, Load, LoadRefused, Restore, DropCfg, DropSum, RestoreCfg, RestoreSum, Restored,
                Backup, CopyCfg, CopySum, BackedUp, Store, OpenCfg, OpenSum, WriteCfg, WriteSum, Written,
                OpenCfgFails, OpenSumFails, Change, Download, Save, Restart, PowerLoss, Down, memory
  <2>3. dc' \in Good
    BY <2>1, <2>2 DEF LoadNothing, LoadChecked, LoadUnchecked, Loaded, Recovers
  <2> QED BY <2>3 DEF Good
<1> HIDE DEF A
<1>2. [][A]_vars => BootsLastSaved
  BY DEF BootsLastSaved, A
<1> QED BY <1>1, <1>2, CInvariant, PTL DEF Spec

(* When save_cfg or load_cfg has returned, a loss of power cannot undo     *)
(* what is saved.                                                          *)
THEOREM SavedStaysSaved == Spec => []SavedIsDurable
<1>1. CInv => SavedIsDurable
  <2> SUFFICES ASSUME CInv, pc = "up", safe
               PROVE  /\ \A f \in File : may[f] = {file[f]}
                      /\ IF file["cfg"] = None THEN committed = Default
                         ELSE file["sum"] = file["cfg"] /\ Decoded(file["cfg"]) = committed
    BY DEF CInv, SavedIsDurable
  <2>1. Synced /\ InPlace(committed)
    BY DEF CInv, AtUp
  <2> QED BY <2>1 DEF Synced, InPlace
<1> QED BY <1>1, CInvariant, PTL
=============================================================================
