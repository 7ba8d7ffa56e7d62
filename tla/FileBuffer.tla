----------------------------- MODULE FileBuffer -----------------------------
(***************************************************************************)
(* The disk cache of freeioe (lualib/buffer/file.lua), as the cloud        *)
(* service (snax/cloud.lua) and the MQTT application base use it: data that *)
(* could not be uploaded is appended to a memory tail, every PerFile data  *)
(* the tail becomes a cache file, at most MaxFiles files are kept, and one *)
(* coroutine replays the cache in batches.  The batch callback yields, so  *)
(* pushes run between the hand-over of a batch and its result.             *)
(*                                                                         *)
(* Data are the numbers 1 .. MaxPush, in the order they are pushed.        *)
(***************************************************************************)
EXTENDS Integers, Sequences, FiniteSets

CONSTANTS
  PerFile,      (* data_count_per_file                                      *)
  MaxFiles,     (* max_file_count                                           *)
  MaxBatch,     (* max_batch_size; PerFile or more stands for no limit      *)
  IndexMod,     (* file indices are taken modulo this number (0xFFFFFFFF)   *)
  DirectFire,   (* may the one-datum callback accept a datum pushed while   *)
                (* the cache is empty?  cloud.lua's never does              *)
  WriteFaults,  (* may creating a cache file fail?                          *)
  ReadFaults,   (* may opening, reading or parsing a cache file fail?       *)
  RaiseFaults,  (* may inflating a cache file raise an error?               *)
  MaxPush       (* bound: the number of data pushed                         *)

ASSUME FileBufferAssumption ==
  /\ PerFile \in Nat \ {0}
  /\ MaxFiles \in Nat \ {0}
  /\ MaxBatch \in Nat \ {0}
  /\ IndexMod \in Nat
  /\ IndexMod > MaxFiles + 1
  /\ MaxPush \in Nat
  /\ {DirectFire, WriteFaults, ReadFaults, RaiseFaults} \subseteq BOOLEAN

None == -1      (* _fire_index = nil *)

Data == 1 .. MaxPush

VARIABLES
  fb,      (* the buffer object: files, buffer, fire_buffer, fire_offset,   *)
           (* fire_index and the cache folder (index -> content); history: *)
           (* faulty, has a file failed?, stale, did the last load raise an *)
           (* error?, raised, the number of pushes that did, and overtook,  *)
           (* the data accepted as they were pushed, with a batch in flight *)
  next,    (* the next datum to be pushed                                   *)
  pc,      (* the fire coroutine: asleep, at the head of the batch loop,    *)
           (* inside the batch callback, or ended                           *)
  working, (* working_index of the batch loop                               *)
  batch,   (* the data handed to the callback                               *)
  stopped, (* _stop                                                         *)
  acked    (* history: the data the callback accepted, in order             *)

vars == <<fb, next, pc, working, batch, stopped, acked>>

-----------------------------------------------------------------------------
(* The cache, as operators on the object.  Definitions named Mut... are    *)
(* the faulty variants a run uses to show that a property can fail.        *)

ToData(s) == {s[i] : i \in 1 .. Len(s)}

Empty(s) == s.files = <<>> /\ s.buffer = <<>> /\ s.fire_buffer = <<>>

(* What _load_next_file keeps of the file list before it looks for a file: *)
(* the fired one is popped.                                                *)
Unfired(s) ==
  IF s.fire_index # None /\ s.files # <<>> /\ Head(s.files) = s.fire_index
  THEN Tail(s.files)
  ELSE s.files

(* How many files at the front cannot be opened, read or parsed.           *)
Unreadable(s) == IF ReadFaults THEN 0 .. Len(Unfired(s)) ELSE {0}

(* Fault: the fired file is not removed from the folder.                   *)
MutLeaveFile(s, n) ==
  LET left == SubSeq(Unfired(s), n + 1, Len(Unfired(s)))
  IN  [s EXCEPT !.files = left,
                !.fire_index = IF left = <<>> THEN None ELSE Head(left),
                !.faulty = @ \/ n > 0]

(* The first n files are skipped and removed, with the fired one.          *)
Skip(s, n) ==
  LET left == SubSeq(Unfired(s), n + 1, Len(Unfired(s)))
      kept == DOMAIN s.disk \ (ToData(s.files) \ ToData(left))
  IN  [s EXCEPT !.files = left,
                !.disk = [i \in kept |-> s.disk[i]],
                !.fire_index = IF left = <<>> THEN None ELSE Head(left),
                !.faulty = @ \/ n > 0]

(* _load_next_file, followed by the reset of the offset its callers do:    *)
(* the next file becomes the fire buffer.                                  *)
LoadNext(s, n) ==
  LET left == SubSeq(Unfired(s), n + 1, Len(Unfired(s)))
  IN  [Skip(s, n) EXCEPT !.fire_buffer = IF left = <<>> THEN <<>> ELSE s.disk[Head(left)],
                         !.fire_offset = 1,
                         !.stale = FALSE]

(* The next file is corrupt, and inflating it raises an error: it stays    *)
(* where it is, its index is the fire index, and the fire buffer is still  *)
(* the one before.                                                         *)
LoadRaises(s, n) == [Skip(s, n) EXCEPT !.faulty = TRUE, !.stale = TRUE]

(* Raised in a push: the tail also stays in memory.                        *)
PushRaises(s, n, tail) == [LoadRaises(s, n) EXCEPT !.buffer = tail, !.raised = @ + 1]

Corrupt(s) == {n \in Unreadable(s) : RaiseFaults /\ n < Len(Unfired(s))}

(* The index of the next file.                                             *)
NextIndex(s) ==
  ((IF s.fire_index = None THEN 1 ELSE s.fire_index) + Len(s.files)) % IndexMod

(* The file is written and listed; without a fire buffer it becomes it.    *)
AddFile(s, index) ==
  LET listed == [s EXCEPT !.files = Append(s.files, index),
                          !.disk = [i \in DOMAIN s.disk \cup {index} |->
                                      IF i = index THEN s.buffer ELSE s.disk[i]],
                          !.buffer = <<>>]
  IN  IF s.fire_index = None
      THEN [listed EXCEPT !.fire_index = index,
                          !.fire_buffer = s.buffer,
                          !.fire_offset = 1]
      ELSE listed

(* _dump_buffer_to_file and the "_buffer = {}" after each call of it: the  *)
(* possible results.  A file that cannot be created loses the tail, a file *)
(* too many evicts the oldest one.  An error raised there leaves the tail  *)
(* in memory, although its file is listed.                                 *)
Dumps(s) ==
  LET added == AddFile(s, NextIndex(s))
  IN  (IF WriteFaults THEN {[s EXCEPT !.buffer = <<>>, !.faulty = TRUE]} ELSE {})
      \cup
      (IF Len(added.files) > MaxFiles
       THEN {LoadNext(added, n) : n \in Unreadable(added)}
            \cup {PushRaises(added, n, s.buffer) : n \in Corrupt(added)}
       ELSE {added})

(* _push *)
Pushes(s, d) ==
  LET appended == [s EXCEPT !.buffer = Append(s.buffer, d)]
  IN  IF Len(appended.buffer) >= PerFile THEN Dumps(appended) ELSE {appended}

(* The part of the fire buffer the callback is to send.                    *)
Pending(s) == SubSeq(s.fire_buffer, s.fire_offset, Len(s.fire_buffer))

Slice(s) ==
  IF MaxBatch < Len(Pending(s))
  THEN SubSeq(Pending(s), 1, MaxBatch)
  ELSE Pending(s)

-----------------------------------------------------------------------------
EmptyCache == [files |-> <<>>, buffer |-> <<>>, fire_buffer |-> <<>>,
               fire_offset |-> 1, fire_index |-> None,
               disk |-> [i \in {} |-> <<>>], faulty |-> FALSE, stale |-> FALSE,
               raised |-> 0, overtook |-> {}]

Init == /\ fb = EmptyCache
        /\ next = 1
        /\ pc = "sleep"
        /\ working = None
        /\ batch = <<>>
        /\ stopped = FALSE
        /\ acked = <<>>

(* push: the owner drops its reference when it stops the buffer, so        *)
(* nothing is pushed to a stopped one.  The batch loop does not yield      *)
(* between two callbacks, so nothing runs while pc = "loop".               *)
Push ==
  /\ next <= MaxPush
  /\ ~stopped
  /\ pc # "loop"
  /\ next' = next + 1
  /\ \/ /\ Empty(fb)
        /\ DirectFire
        /\ acked' = Append(acked, next)
        /\ fb' = IF pc = "call" THEN [fb EXCEPT !.overtook = @ \cup {next}] ELSE fb
     \/ /\ fb' \in Pushes(fb, next)
        /\ UNCHANGED acked
  /\ UNCHANGED <<pc, working, batch, stopped>>

(* The fire coroutine wakes up with something to send.                     *)
Wake ==
  /\ pc = "sleep"
  /\ ~stopped
  /\ ~Empty(fb)
  /\ pc' = "loop"
  /\ UNCHANGED <<fb, next, working, batch, stopped, acked>>

(* Fault: the coroutine ends only once everything is sent.                 *)
MutEndDrained ==
  /\ pc = "sleep"
  /\ stopped
  /\ Empty(fb)
  /\ pc' = "done"
  /\ UNCHANGED <<fb, next, working, batch, stopped, acked>>

(* The coroutine wakes up after stop and ends.                             *)
End ==
  /\ pc = "sleep"
  /\ stopped
  /\ pc' = "done"
  /\ UNCHANGED <<fb, next, working, batch, stopped, acked>>

(* Fault: the memory tail waits for a full file.                           *)
MutTailStuck ==
  /\ pc = "loop"
  /\ IF Empty(fb)
     THEN /\ pc' = "sleep"
          /\ UNCHANGED <<fb, working, batch>>
     ELSE /\ working' = fb.fire_index
          /\ batch' = Slice(fb)
          /\ pc' = "call"
          /\ UNCHANGED fb
  /\ UNCHANGED <<next, stopped, acked>>

(* One turn of the batch loop up to the callback: the memory tail becomes  *)
(* a file when nothing else is left, then a slice is handed over.          *)
Fire ==
  /\ pc = "loop"
  /\ IF Empty(fb)
     THEN /\ pc' = "sleep"
          /\ UNCHANGED <<fb, working, batch>>
     ELSE /\ fb' \in (IF fb.fire_index = None /\ fb.files = <<>>
                      THEN Dumps(fb) ELSE {fb})
          /\ working' = fb'.fire_index
          /\ batch' = Slice(fb')
          /\ pc' = "call"
  /\ UNCHANGED <<next, stopped, acked>>

(* Fault: the offset moves even if the fire buffer was replaced.           *)
MutNoIndexCheck(s, done) ==
  LET moved == [s EXCEPT !.fire_offset = @ + done]
  IN  IF Len(moved.fire_buffer) < moved.fire_offset
      THEN {LoadNext(moved, n) : n \in Unreadable(moved)}
      ELSE {moved}

(* Fault: the offset does not move inside a file.                          *)
MutNoOffset(s, done) ==
  IF working # s.fire_index THEN {s}
  ELSE IF Len(s.fire_buffer) < s.fire_offset + done
       THEN {LoadNext(s, n) : n \in Unreadable(s)}
       ELSE {s}

(* The cache after the callback reported "done" data sent.                 *)
Advances(s, done) ==
  IF working # s.fire_index THEN {s}
  ELSE LET moved == [s EXCEPT !.fire_offset = @ + done]
       IN  IF Len(moved.fire_buffer) < moved.fire_offset
           THEN {LoadNext(moved, n) : n \in Unreadable(moved)}
           ELSE {moved}

(* The cache when an error of _load_next_file ends the fire coroutine.     *)
AdvanceRaises(s, done) ==
  LET moved == [s EXCEPT !.fire_offset = @ + done]
  IN  IF working = s.fire_index /\ Len(moved.fire_buffer) < moved.fire_offset
      THEN {LoadRaises(moved, n) : n \in Corrupt(moved)}
      ELSE {}

(* The callback returns the number of data it sent.                        *)
FireOk(done) ==
  /\ pc = "call"
  /\ done \in 1 .. Len(batch)
  /\ acked' = acked \o SubSeq(batch, 1, done)
  /\ \/ fb' \in Advances(fb, done) /\ pc' = "loop"
     \/ fb' \in AdvanceRaises(fb, done) /\ pc' = "done"
  /\ batch' = <<>>
  /\ UNCHANGED <<next, working, stopped>>

(* The callback raises an error or returns nil: the round is over.         *)
FireFail ==
  /\ pc = "call"
  /\ batch' = <<>>
  /\ pc' = "sleep"
  /\ UNCHANGED <<fb, next, working, stopped, acked>>

(* stop: seen by the coroutine only between two rounds.                    *)
Stop ==
  /\ ~stopped
  /\ pc # "loop"
  /\ stopped' = TRUE
  /\ UNCHANGED <<fb, next, pc, working, batch, acked>>

Next == \/ Push \/ Wake \/ End \/ Fire \/ FireFail \/ Stop
        \/ \E done \in 1 .. Len(batch) : FireOk(done)

Spec == Init /\ [][Next]_vars

(* The runtime resumes a coroutine whose sleep ended and the callback      *)
(* always comes back; the link comes up again and again, so a callback     *)
(* that is retried for ever succeeds again and again.                      *)
Fairness == /\ WF_vars(Wake) /\ WF_vars(End) /\ WF_vars(Fire)
            /\ WF_vars(FireFail)
            /\ SF_vars(\E done \in 1 .. Len(batch) : FireOk(done))

FairSpec == Spec /\ Fairness

-----------------------------------------------------------------------------
Index == 0 .. IndexMod - 1

(* What an object with its folder looks like.                              *)
IsCache(s) ==
  /\ DOMAIN s.disk \subseteq Index
  /\ s \in [files : Seq(Index), buffer : Seq(Data), fire_buffer : Seq(Data),
            fire_offset : Nat \ {0}, fire_index : Index \cup {None},
            disk : [DOMAIN s.disk -> Seq(Data)], faulty : BOOLEAN,
            stale : BOOLEAN, raised : Nat, overtook : SUBSET Data]

TypeOK ==
  /\ IsCache(fb)
  /\ next \in 1 .. MaxPush + 1
  /\ pc \in {"sleep", "loop", "call", "done"}
  /\ working \in Index \cup {None}
  /\ batch \in Seq(Data)
  /\ stopped \in BOOLEAN
  /\ acked \in Seq(Data)

(* The memory and the cache folder agree: the folder holds exactly the     *)
(* listed files (no cache file is ever left behind or listed but gone),    *)
(* their indices are consecutive, and the fire index is that of the oldest *)
(* one.  Unless the last load raised an error, the fire buffer is the      *)
(* content of that file.  The offset points into the fire buffer, unless   *)
(* such an error ended the fire coroutine.                                 *)
StoreConsistent ==
  /\ DOMAIN fb.disk = ToData(fb.files)
  /\ \A i \in 1 .. Len(fb.files) :
       fb.files[i] = (fb.files[1] + (i - 1)) % IndexMod
  /\ fb.files = <<>> => fb.fire_index = None /\ fb.fire_buffer = <<>>
  /\ fb.files # <<>> =>
       /\ fb.fire_index = fb.files[1]
       /\ fb.stale \/ fb.fire_buffer = fb.disk[fb.files[1]]
       /\ (fb.stale /\ pc = "done") \/ fb.fire_offset <= Len(fb.fire_buffer)

(* The cache stays within its limits at every step, in memory and on disk. *)
(* Each push that ended with an error leaves room for one more datum in    *)
(* the tail, hence in a file.                                              *)
Bounded ==
  /\ Len(fb.files) <= MaxFiles
  /\ Len(fb.buffer) < PerFile + fb.raised
  /\ Len(fb.fire_buffer) <= PerFile + fb.raised

(* What the cache is worth at every step, also after files could not be    *)
(* created, read or inflated (file.lua:123, 144, 188, 197): typed, in      *)
(* agreement with its folder and within its limits.                        *)
CacheSound == TypeOK /\ StoreConsistent /\ Bounded

(* file.lua:176 "until we got one correct file", 210 "continue with next   *)
(* file": a load ends with the content of a file that is correct.          *)
GetsCorrectFile == fb.files # <<>> => fb.fire_buffer = fb.disk[fb.files[1]]

(* file.lua:315 "if index equal means the self._fire_buffer is valid one": *)
(* when the callback comes back and the index is still the one the batch   *)
(* was taken from, the fire buffer is the one the batch was taken from, so *)
(* the offset is advanced over the data that were sent and no others.      *)
IndexEqualMeansValid ==
  pc = "call" /\ working = fb.fire_index /\ batch # <<>> => batch = Slice(fb)

(* The lists of data on their way through the cache, oldest first: those   *)
(* confirmed, what is left of the fire buffer, the other files, the tail.  *)
Pieces ==
  [k \in 0 .. Len(fb.files) + 1 |->
     IF k = 0 THEN acked
     ELSE IF k = Len(fb.files) + 1 THEN fb.buffer
     ELSE IF k = 1 THEN Pending(fb)
     ELSE fb.disk[fb.files[k]]]

Places == UNION {{k} \X (1 .. Len(Pieces[k])) : k \in DOMAIN Pieces}
Ahead(p, q) == p[1] < q[1] \/ (p[1] = q[1] /\ p[2] < q[2])
DatumAt(p) == Pieces[p[1]][p[2]]

(* Data leave in the order they were pushed and none is confirmed twice or *)
(* both confirmed and still held, whatever is evicted while a batch is in  *)
(* flight and whatever cannot be read back, until a push ends with an      *)
(* error: the tail it leaves in memory is written and sent again, and so   *)
(* may be the fire buffer.  When the file in flight was evicted and the    *)
(* next ones cannot be read, the cache is empty and a callback that        *)
(* accepts single data lets them overtake the batch.                       *)
InOrder == fb.raised = 0 =>
  /\ \A p, q \in {r \in Places : DatumAt(r) \notin fb.overtook} :
       Ahead(p, q) => DatumAt(p) < DatumAt(q)
  /\ ~fb.faulty => fb.overtook = {}

(* Every datum the cache holds.                                            *)
Held(s) ==
  ToData(Pending(s)) \cup ToData(s.buffer)
                     \cup UNION {ToData(s.disk[s.files[k]]) : k \in 2 .. Len(s.files)}

(* Until a file fails the cache is the lossy queue: no datum is skipped,   *)
(* sent data are forgotten once confirmed and not before, and eviction     *)
(* keeps MaxFiles full files of the newest data (file.lua:357 "lost 100"   *)
(* of 200 with 10 files of 10).                                            *)
Cache == INSTANCE LossyQueue WITH Capacity <- MaxFiles * PerFile,
                                  queue <- Held(fb), flight <- batch

IsLossyQueue == Cache!Init /\ [][fb'.faulty \/ Cache!Next]_Cache!qvars

(* Once the link works again, the whole cache is uploaded: no datum is     *)
(* stuck in the memory tail or in a file for ever, also after pushes ended *)
(* with errors, unless the fire coroutine ended with one.                  *)
Drains == ([](~stopped /\ pc # "done")) => []<>Empty(fb)

(* A stopped cache releases its coroutine, even with data left.            *)
StopEnds == stopped ~> (pc = "done")
=============================================================================
