# Verification of FreeIOE

FreeIOE (`src/freeioe`) turns a small Linux box into an IoT gateway. It runs on skynet
(`src/skynet-master`): the program is a set of *services*, each an actor with a mailbox and its
own Lua state. A message is handled by a coroutine of the service; handlers of one service
interleave only where they wait (`skynet.call`, `sleep`, `wait`, a request to another service),
never in between. Underneath, skynet's C runtime runs the services on a few threads: workers that share a global queue
of mailboxes, a timer thread and a socket thread, with spin locks, a reader-writer lock, reference counts and a pipe
between them. Those waits and those locks are where this code is hard, and what these modules are about.

## Inventory

| component | state it keeps | operations | talks to | what is hard |
|---|---|---|---|---|
| upload buffer `lualib/buffer/period.lua` | a list in memory | push, fire_all (period coroutine and flush), push back, drop | cloud, disk cache (drop callback) | callback waits while others push, fire and push back; the limit |
| disk cache `lualib/buffer/file.lua` | memory tail, list of files, the file being fired, offset, index | push, dump, load next, fire loop, stop | cloud | eviction of what is being fired, index reuse, I/O failures, stop while firing |
| unconfirmed messages `lualib/utils/index_stack.lua` | list of (id, message) | push, remove, fire_all | cloud, MQTT client | ids start again on each connection, pauses in the resend, lost connections |
| cloud connection and service `snax/cloud.lua` | MQTT client, buffers, options | connect, reconnect, disconnect, publish, commands | broker, appmgr, upgrader, cfg | several connection procedures, timers and callbacks on one set of variables |
| change of value `lualib/cov.lua` | last value per input | handle, timer, snapshot | cloud | timer writes back after its callback waited |
| event threshold, cycle buffer `lualib/buffer/{threshold,cycle}.lua` | a short list | push, fire | app API, web | little |
| application manager `snax/appmgr.lua` | per application: instance, conf, last heartbeat | start, stop, restart, rename, set_conf, heartbeat check | appwrap services, listeners | requests overlap at every wait; a 60 s kill timer; asynchronous exits |
| application wrapper and API `snax/appwrap.lua`, `lualib/app/*` | the application object, devices, channels | start, stop, publish, commands | appmgr, multicast | closing while callbacks run |
| application ports `lualib/app/port/*` | a stream and its channel | request with timeout, reopen | applications | a late answer after a timeout |
| upgrader `service/upgrader.lua`, `startup.sh` | task list, aborting flag, files in `ipt/` | install, upgrade, remove applications; core upgrade, ack, rollback | appmgr, cloud, shell scripts | queueing of actions, power loss between commands |
| critical sections `lualib/skynet/lockable_queue.lua`, `skynet/queue.lua` | owner, nesting, line, lock | call, return | upgrader, extension manager | hand-over, nesting, lock while others wait |
| extension manager `service/ioe_ext.lua` | installed extensions, tasks | install, upgrade, clean | upgrader, appwrap | a sleep stands for "the task has the lock"; clean-up outside the lock |
| configuration `service/cfg.lua` | `cfg.json`, its checksum, a backup of both; the checksum of what was saved last | load, save, back up, restore, up- and download | all | power loss between file operations; a failing open |
| buffer, logger, web socket, ubus services `snax/{buffer,logger,ws,ubus}.lua` | listeners, short lists | forward | multicast, clients | start/stop events out of date |
| skynet mailboxes and scheduler `skynet-src/{skynet_mq,skynet_server,skynet_start}.c` | mailboxes, the global queue, contexts and their reference counts, sleeping workers | send, dispatch, launch, kill, end of the process | all | a push, an emptied mailbox and the end of a service at the same moment on three threads; who frees what; waking sleepers |
| skynet sockets `skynet-src/{socket_server,skynet_socket}.c` | slots, two lists and a direct-write buffer each, a command pipe, epoll events | connect, send with two priorities, close, shutdown | cloud, ports, web | services write from their own threads; half-closed and closing sockets; partial writes |
| skynet timer `skynet-src/skynet_timer.c` | a wheel of lists, time in 32 bits | set, turn, deliver | all | carry between levels, wrapping time, timers set while a list is delivered |
| skynet handles and names `skynet-src/skynet_handle.c` | slots that double, the next handle, sorted names | register, retire, retire all, name, find | scheduler | wrapping handles, growth, ABORT while services are launched and die |
| third-party code, web pages | | | | left aside |

What makes each of the modelled parts correct is stated below with its properties. `PROJECT.json`
lists the components with their status and every hazard with its line.

## Modules

| module | what it is |
|---|---|
| `FileBuffer` | the disk cache: one record `fb` for the object's fields and the folder, the fire coroutine's program counter and locals. Push, Wake, Fire, FireOk, FireFail, End, Stop are the code between two waits. |
| `LossyQueue` | what the disk cache promises: a FIFO that loses only its oldest data and only beyond a capacity. `FileBuffer` is mapped to it (`IsLossyQueue`): the data held are the queue, the batch is what is in flight. |
| `PeriodBuffer` | the upload buffer with any number of coroutines inside `fire_all`. |
| `AppMgr` | the life of one application: start, stop, restart requests as coroutines, the instances of its appwrap service, the coroutine and the timer a stop creates. |
| `CritSec` | `lockable_queue.lua`; as long as nobody asks for the lock it is `skynet/queue.lua`. A queue with a parent (the upgrader's `app_lock`) is the parent's section around it, so the parent's properties are the ones that count. |
| `QosStack` | the unconfirmed messages, over connections that number messages from 1, with failing publishes and disconnections in the pauses of a resend. |
| `CloudConn` | the connection to the broker: any number of connection procedures (`connect_proc`), the callbacks of their clients, timers, the waiting `disconnect`, and a broker with one session per device. One turn of a client's loop, with the callbacks in it, is one action, because the code does not wait inside it. |
| `SkynetMQ` | mailboxes, global queue, contexts and workers. A step is one critical section or one atomic operation of a thread; sending and releasing are subroutines of every thread (`SendGrab`, `Push`, `Release`, `Delete`). |
| `SocketServer` | one slot of the socket server and the connections that use it one after the other: the callers' steps between two accesses to shared data, the commands, the events, and the kernel behind the descriptor. |
| `Timer` | the wheel: setting, catching up with the clock, delivery without the lock. |
| `TimerQueue` | what the timer promises: each timer fires at its tick, those of one tick in the order in which they were set. `Timer` is shown to implement it (`IsTimerQueue`). |
| `Handles` | the table of handles with its growth, retiring one and all, and the sorted names with their binary search. |
| `CfgStore` | the configuration service: load, SAVE, DOWNLOAD, the backup and the script that restores it, one action per operation on a file, and a file system that after a loss of power returns for each file any text it had since the last `sync`, or a cut-off one. |
| `*Proofs` | theorems about the module they are named after; `LibraryProofs` about `CritSec`, `QosStack`, `Handles` and `Timer`. |
| `MC*` | values for the constants of the module they are named after. |

Data are numbered in the order they are pushed (or are model values); their content never matters
to the code. Compression, JSON, logging and statistics are left out. Definitions named `Mut...`
are faulty variants of the definition that follows them: each property is violated when one of
them takes the place of the code.

## Runs

Bounds are small because what matters is relative: a cache of two files of three data already has
a file being fired, one waiting and a tail, and evicts; a second coroutine in `fire_all` already
overtakes; three requests contain a start, a stop whose timer is left armed and another start.

| run | question and answer |
|---|---|
| `file_buffer` | Creating and reading files may fail at any time, and inflating a corrupt one may raise an error, which ends the push or the fire coroutine it is raised in (see `GetsCorrectFile` below). Until something fails (history `faulty`) the cache implements `LossyQueue` (`IsLossyQueue`), so the callback gets data in push order, and nothing but the oldest is lost. With failures too, list and folder agree and the limits hold, where each push that ended with an error (`raised`) makes room for one datum more (`CacheSound`); until a push ends so, accepted data are in order but for single data that overtake a batch whose file is gone (`InOrder`); the cache drains unless an error ended the fire coroutine (`Drains`), and stop ends the loop (`StopEnds`). `IndexMod = 4` makes file indexes wrap as `0xFFFFFFFF` would: ten pushes are enough for a tail of one and three full files behind it, which wrap and evict. |
| `period_buffer` | Up to three coroutines in `fire_all`, pushes, refused batches: nothing is lost and the limit holds (`Kept`), and it drains if uploads succeed again and again. Nothing is sent twice and, as long as no flush ran beside the period coroutine (history variable `overlap`), data leave in the order they came (`SentInOrder`); with a flush beside it they need not. |
| `app_mgr` | Requests, one after the other or overlapping in any way (history variable `overlap`), with applications whose init raises an error, that fail to start, hang in closing and are killed. Without overlap: when no request is running, the only services left that the manager does not know are those whose init raised an error inside `snax.newservice` (`appmgr.lua:41`: nobody has their handle), and listeners were told the truth (`Managed`), an armed timer threatens only the instance its stop waits for and the assertion of `start` holds (`SerialSafe`), a stop ends (`StopEnds`). With it: services are left behind only there and by starts that failed the assertion (`Contained`). |
| `crit_sec` | Four coroutines, calls nested twice, with and without the lock: exclusion, `assert(ref == 0)`, and the lock does not outlive the calls that asked for it, otherwise every later call would be refused for ever (`Orderly`); no overtaking (`NoBarging`); every waiting call is served (`Served`). |
| `qos_stack` | A message is kept, once, until it is confirmed, whatever ids are reused and wherever a resend stops (`ExactlyOnce`); the only loss is a resend that raised an error (`lost`), and that takes at least `sleep_count` messages sent before it and only messages it had not sent (`LosesOnlyBacklog`). |
| `cloud_conn` | Connection procedures overlap, attempts fail, connections break or are taken over by another procedure's session, and requests to disconnect and reconnect come at any time. What is published goes to a live client (`ClientSound`); the gateway never stops trying unless asked (`NeverStranded`); failures do not multiply procedures (`SingleProcedure`); after the last failure one procedure and one connection remain (`Settles`); `disconnect` returns if there is a procedure to wait for (`DisconnectEnds`), and has then closed the connection for good unless procedures had been doubled (`ClosedForGood`). |
| `skynet_mq` | Two workers with different weights and the timer thread as a sender; a service in its callback or init function sends, kills (also itself) and launches at any time, launches fail. Contexts are freed exactly when their last user is through (`RefsExact`); a mailbox is in one place (`OneHolder`) and never forgotten (`Scheduled`); every message is dispatched, refused or answered by an error (`Answered`); when no service is left all workers end (`WorkersEnd`). |
| `socket_server` | Two services write to a connection, directly or through the socket thread, while its owner closes it or shuts it down and the peer sends, half-closes or resets; then the slot is used again. The peer gets whole messages in order (`WireInOrder`); the assertions hold (`Asserts`); `SOCKET_CLOSE` comes once and nothing after it (`ClosedOnce`); a graceful close sends first what was sent before it (`Flushed`); nothing is stranded (`Settles`). |
| `socket_leak` | *Violated.* A close is handled while a message of another service is counted in `sending` but still behind it in the pipe, and nothing else is to be written: the socket is marked as closing, the message is then dropped because it is closing, writing was never enabled, and no event is left that would close it. `Settles` leaves out exactly these connections (`bare`). |
| `timer` | The wheel implements `TimerQueue` (`IsTimerQueue`), through several wraps of time and with timers set while a list is delivered; every timer fires (`Fires`). |
| `handles` | The table doubles and handles wrap while services are launched and retired and ABORT passes over the slots: each service is found by its handle and no other, each name by the search (`Reachable`), and ABORT leaves none of the services that were there (`AllGone`). |
| `cfg_store` | Power is lost at any point, also twice in a row and during a restoration, files cannot be opened, and the configuration changes at any time. When a save or a load has returned, a loss of power cannot undo it (`SavedIsDurable`); a boot that can open its files loads the configuration saved completely last or the one that was being saved (`BootsLastSaved`); no restoration is repeated for ever, and in the end the file has the configuration (`SavedInTheEnd`). |

`CHECK_DEADLOCK FALSE` is set where the system may stop: all data pushed and sent, all requests
issued, all connections made, all workers ended, nothing left to save. In `CritSec`, `Timer` and `Handles` something can always happen and
deadlock is checked.

**Bounds of the runtime.** `SkynetMQ`: two services, so that one can kill, launch or send to the other or itself; two
workers, the fewest that can race; two messages, so that one can be queued behind, or answer, another. A handle is not
given twice (`Handles` is about that). `SocketServer`: messages of two parts, one of low priority (two high-priority messages of one service never
meet here; `PeersGetTheirOrder` is proved for any number); the slot is used by
two connections, and everything may happen to the first while the second is steady, which is enough to see what of the first is left;
the slot is given again only when no event of the former connection is pending, and no command comes between the two steps of
`reserve_id`, because ids go round 65536 slots. `Timer`: near lists of 2 and three levels of 2 make time 4 bits wide, so it wraps after
16 ticks; the largest delay, 7, is less than half of that, as the largest `int` is of 32 bits (`TimerParameters`: without it a timer set almost a turn ahead would
be put on the list of an earlier tick, and fire there). The clock is at most two ticks ahead.
`Handles`: three contexts, a table of 2 that doubles once, handles up to 5; one thread launches, because
`service/launcher.lua:95` launches all services after the start (see `ExpandAssert` below); wraps where only slot 0 is free are bounded out (`WithinBounds`), and so is a doubled table without a free slot among the handles tried, which sizes that are powers of 2 exclude.

**Bounds of the configuration service.** Three configurations, the defaults among them, so that an old backup, the file and what is being saved can all differ;
texts that are cut off at their beginning or later; two changes or downloads and three faults, enough for a loss of power in a save, one in the
restoration that follows and a failing open between them. Every open of a file by the service may fail: of `cfg.json` and its checksum at boot, for reading and for writing, of the script that
restores, and in a save. The theorems have no such bounds. Three histories are left out of the safety properties by the variable
`safe`, because the code loses the configuration in them and nothing in the repository says it should not: power is lost *during* a restoration (after the script moved
`cfg.json` away a boot finds no file, loads the defaults and does not look at the backup, `cfg.lua:149`; later the
files of the backup may be of different ages); a boot cannot open a file that is there (`cfg.lua:150` takes a `cfg.json` for missing, loads the defaults, and the next save writes them over it;
`cfg.lua:165` takes a checksum for missing and makes a new one of whatever was read; `cfg.lua:181` goes on without one); and the checksum cannot be opened after `cfg.json` was emptied (`cfg.lua:225`: the next save copies
the empty file over the backup). `safe` is set again by the next complete save, and by the next load that finds or makes a checksum. With `safe` struck out TLC finds all three in a few steps.

**Statements of the sources that fail.** Some definitions state what an assertion or a name in the code says and are kept in their
module because TLC refutes them under conditions that the runs above either show to be harmless or leave out:
`AppMgr.NoStartBug`, the assertion of `appmgr.lua:42`, and `AppMgr.ForceKillOnlyStuck` (the timer of an old stop kills a new
instance, `appmgr.lua:97`), with requests that overlap; `FileBuffer.IndexEqualMeansValid`, with files that cannot be read
the index can return to its old value over other data while the callback waits (`file.lua:315`); `FileBuffer.GetsCorrectFile`: `file.lua:176` and
`210` promise to go on until a correct file is found, but `_decompress` (`file.lua:197`) is called unprotected and raises an error when a
file is corrupt, so the file stays and the fire buffer is the one before. In the fire loop (`file.lua:321`) the error ends the coroutine and
nothing leaves the cache any more; in a push (`file.lua:150`) it skips `self._buffer = {}` (`165`), so data already written to a file are written, and sent, again.
`CritSec.LockHonoured`, a call
that asks for the lock but has to wait runs unlocked (`lockable_queue.lua:61`); `Handles.ExpandAssert`
(`skynet_handle.c:64`), with two threads that launch, because `ctx->handle` is set only after `skynet_handle_register` has given the lock up
(`skynet_server.c:155`). Add them to the configuration of the run, with `FourOps` for `AppMgr`, `PerFile = 2` and `IndexMod = 100` for `FileBuffer.IndexEqualMeansValid`
or `Thread = {w1, w2}` for `Handles`.

**Fairness.** Liveness assumes that a coroutine that is ready runs (skynet's scheduler is a FIFO) and
that timers fire: weak fairness of the steps of the fire loop, of the manager's own steps and of
woken coroutines. `Drains` further assumes a callback that keeps being tried succeeds again and
again (strong fairness of acceptance), i.e. that the link comes back; `Served` that functions run
inside a critical section end (strong fairness of the outermost return). Applications are given no
fairness: `StopEnds` holds although an application never closes.
In the runtime, weak fairness of each thread (the operating system runs it, a callback returns) and of the timer
thread's `Wakeup` (it runs every 2.5 ms until it ends), which is the only thing that wakes a sleeping worker after a push; strong fairness of
`Abort`, which needs a mutex that the workers take and leave for ever. The environment of a socket gets none: a peer may stop
reading for ever only by dying, as the kernel reports a connection that is up as writable. A timer is set by nobody in particular; the clock goes on.
In the configuration service, weak fairness of its own steps, of SAVE (its loop calls it every 5 s, `cfg.lua:371`) and of the end of the process after
`ioe.abort` (a timer of 5 s). Losses of power and failing opens have none, and are finitely many in a run.

**Assumptions about the runtime.** `PromptErrors` (AppMgr): the error that a dying service sends to its
callers and the answer to the one who killed it are sent together, and the manager handles both
before a further service can be launched, which takes several messages between other services.
`PromptAck` (CloudConn, used by `Settles` only): an answer of the broker that is on its way is read before a
timer of `start_reconnect` fires, which takes at least 1 s. Without it two procedures can take the session from
each other for ever: each loses its connection to the other's, and has already started the next when it notices.
`client:disconnect` calls ON_DISCONNECT unless it was called before (the code of ON_DISCONNECT relies on it by testing
`close_connection`).
QosStack: no connection is made during a pause of 0.1 s, because `start_reconnect` waits for 1 s; this is the case of one
connection procedure (`SingleProcedure`).

## Proofs

The theorems hold for every value of the constants that satisfies the named assumptions.

* `FileBufferProofs`: three layers, each on top of the one before.
  `CacheAlwaysSound` (types, folder, limits), whatever fails. `Room` is the limit of a file: `PerFile`, and one more for each push that ended with an error and left its data in the tail.
  The inductive invariant `IInv` adds to the
  three properties that the indexes of the files are consecutive modulo `IndexMod`, starting at the
  fired one, and are therefore distinct (`IndexMod > MaxFiles + 1`): that is why a new file never overwrites
  a listed one. One lemma per operator on the record (`LoadNextSound`, `LoadRaisesSound`, `AddFileSound`, `DumpsSound`,
  `PushesSound`, `AdvancesSound`, `AdvanceRaisesSound`), then one step per action. The offset may point behind the fire buffer only when an error ended the fire coroutine (`KeepsOffset`).
  `CacheInOrder`, whatever fails, until a push ends with an error (`QInv`; an error in the fire coroutine does no harm to the order, as nothing is sent after it). `OInv` says that files and tail are increasing and each older than the next (`Ordered`), that
  what has been confirmed is older than what is in flight and what is held (`AckedOK`), and that a batch in flight is either the front of the fire
  buffer under an unchanged index or older than everything held, because its file was evicted (`FlightOK`). The second
  case is the hard one: the index may come round and be equal again, and even then advancing over the wrong data only skips some.
  `CacheIsLossyQueue`, until a file fails, if the file indices do not come round during a run (`MaxPush <= IndexMod * PerFile`; the code has
  2^32 - 1 indices, and data are counted from the start of the process). The data held are an interval without a gap (`Gapless`, `SpanIs`): all files are full but the
  one being fired. `Evicted` counts the files lost while a batch is in flight: each takes `PerFile` new data, so fewer than `IndexMod` can have been, and the
  index differs as soon as one has (`OtherEvicted`). Then a push is `Enqueue` or `Bypass`, a hand-over `HandOver`, an answer `Confirm`, an error `Return`,
  and everything else a stutter. `IndexTellsEviction` is the comment of `file.lua:315`, which the same invariant implies; it fails once a file
  could not be read (see above).
* `PeriodBufferProofs`: `PeriodKept`. What is taken by coroutines, kept, sent and
  dropped together covers all data pushed; each operator on the list is shown to split it into two parts. `PeriodSentInOrder`: the lengths of the list, the
  batches, what was sent and what was dropped add up to the number of data pushed, which all are there, so none is there twice; and as long as `overlap` is false
  one coroutine at most has a batch, newer than what was sent and older than the list (`OneFirer`, `InOrder`): so a refused batch can be put back in front, and an accepted one follows what was sent.
* `AppMgrProofs`: `AllContained`, under `PromptErrors`. The property alone is not inductive: one also
  needs that the handle of a lost start is nobody else's (`LostAlone`), so that killing a target never
  makes the manager forget another instance, and that no error of a dead service is under way while
  another one runs (`BrokenForgotten`), so that `app.inst = nil` in the error path forgets nothing alive.
  `SerialRequestsSafe` and `AtRestManaged` are about requests that do not overlap and need no `PromptErrors`: their invariant follows
  the one request through its waits and says at each what the instance, the exit coroutine and the timer of the last stop may still do.
* `CloudConnProofs`: `ClientAlwaysSound`, `AlwaysProcedure`, `OneProcedure`, `DisconnectCloses`, without `PromptAck`. The invariants
  support each other: a client in use is a running procedure, so a second client that closes leaves one behind, and with a
  single procedure there is no second client. `EndSound` covers every way a procedure ends, `ConnectSound` every attempt.
* `LibraryProofs` is about two library classes, `CritSec` and `QosStack`, and about `Handles` and `Timer`, which have nothing in common and so are extended side by side (the names
  `CSInit`, `CSSpec`, `HandleInit`, `HandleSpec`, `TimerSpec`, ... are there for that). `SectionOrderly`: the invariant says who owns the section (`Owner`: the
  owner is the one inside or woken, and `ref` counts its calls), that those in line wait and stand there
  once (`Line`), and that coroutines outside ask for nothing (`Asking`). `NobodyOvertakes`: a coroutine that waits, or was woken and has
  not run yet, keeps the section from being free (`Queued`), so a call that enters at once overtakes nobody.
  `KeptExactlyOnce`, `OnlyBacklogLost`: a message waits at one place (`WaitsOnce`), and what may still be
  confirmed is in the stack under a key that nothing else there has (`ConfirmsItsOwn`): keys are at most the client's last id, so a new
  one is free, and what is put back has the one key that no confirmation matches. One lemma per operator
  (`RemovedSound`, `ResentSound`, `PutBackSound`, `ResendSound`), then one per action.
  `ServicesReachable`, `RetireAllRetires`, under `OneLauncher` (no two threads launch at the same time, see `ExpandAssert` above), and `EveryNameFound`, without it. `Placed` says that each context
  is at the place of its handle; a table of twice the size moves it up by the old size or not at all (`Doubled`), so no two contexts meet (`ExpandedIs`) and none gets behind
  a pass of `skynet_handle_retireall` (`Ahead`). For the names, that the loops of the search and of the removal have a result at all, and which, is shown by induction on the length of what they
  have left to look at (`SearchIsStep`, `SearchIs`, `KeptIsMove`, `KeptIs`): of the lengths for which it fails there would be a least one (`SetMin`, from the library's `WFMin`).
  `WheelIsQueue`, for any number of timers, lists and levels: a setting is `Set`, a tick `Tick`, a delivery `Fire`, everything else a stutter of `TimerQueue`. A list stands for a block of ticks (`Block`); a timer is
  on the list of the finest level that parts its expiry from now (`Apart`, `ListIs`), and a tick takes apart the list of the block that starts, if any (`Opens`, `ShiftedIs`). `Turn` is the heart: at a tick a timer ahead either
  keeps its list, or its list is the one taken apart, its next list is finer, and no timer at all is on a list finer than that one. This is shown for an expiry above the present time (`TurnedAhead`) and below it, after a wrap (`TurnedBehind`):
  such a timer is more than half the range behind, hence on the last level (`FarBehind`). So what is moved goes to empty lists and stays in the order of setting (`MovedIs`, by induction on the nodes moved).
  The invariant `TInv` says that what waits is in the hand of the timer thread or on its list and nowhere else (`Listed`, `NoneLost`), that the hand holds what is due and comes before the current list (`HandDue`, `HandFirst`),
  and that every list is in the order of setting (`Ordered`); then the first of the hand is the oldest that is due, and when the hand and the current list are empty nothing is.
* `CfgStoreProofs`: `LastSavedLoaded`, `SavedStaysSaved`, for any configurations and any number of faults. The invariant `CInv` says for each phase what the disk may
  hold: `InPlace`, the file and its checksum are the configuration saved last, on the disk and not just in memory; `BackupInPlace`, while the
  file is written its backup is; `Recovers`, what a boot may find leads to a configuration that counts as saved, whichever of the three ways `load_cfg` takes. `AtRestore` follows
  the script. One lemma per operation on files (`WriteDoes`, `CopyDoes`, `MoveDoes`, `SyncDoes`, `PowerLossDoes`), then one per action.
* `SkynetMQProofs`: `CountsExact`, `OneThreadEach`, `NoneForgotten`, for any number of services, threads and messages. `Shape` says what a thread has in
  its hands at each point, so that its reference is known from where it is. `RefsMove` shows that a step of one thread changes the sum of
  references by what that thread's share changes, and `Balanced` that `ref` changes by the same; with
  `Counted`, a thread about to push or to release uses a living context (`ReleaseCounted`), and only one thread sees the count go to 0 (`Dying`).
  For the mailboxes `MailInv` adds the two facts the code never states: `in_global` of a living mailbox says precisely that it is in the global queue or
  in a hand (`Marked`), and a dead one is marked only after its count was 0, so no push can follow. Every action is one of four
  moves (`Stays`, `Enters`, `Leaves`, `Still`) of mailboxes between the hands of one thread and the queue.
* `SocketServerProofs`: `PeersGetTheirOrder`, `NoAssertFails`, `ClosesOnlyOnce`, `ClosingFlushes`, `TypeCorrect`, for any number of services, connections, messages and parts of a message, and any
  choice of messages of low priority. The first three are consequences of one invariant, `IInv`, which follows what the threads do without a common lock. The hard part is the order (`Streams`):
  what is on the wire, the rest of a direct write, the high list and the low list make one sequence (`Stream`), in which messages are in order and
  before all that still wait in a call or in the pipe; all of it that was not shut down is made of whole messages, of which only the first of the lists may have been begun (`Shape`).
  The order rests on `Sending`: the count is the number of messages posted or about to be, so a direct write, which needs a count of 0, finds no earlier message of its service that
  could still come from the pipe. `Jobs` says whose message each service works on and that the pipe has those of a service in their order.
  An error makes a service shut its connection down, which may cut a message off: `Deaths` says this happens only when the connection is dead, where nothing more is written.
  `Closings` (told of a close once) and the facts about a slot that is given again (`Slots`, `Opens`, `Empty`, `Quiet`: nothing of a new connection before it is made) support all of them.
  The proof first turns every action into what it does to lists, counts and reports (`Outcomes`, `Steps`, `Flows`, `Counts`, `Calms`), and then goes through the steps once for each part of the invariant.
  `ClosingFlushes` takes a second invariant, `FInv`, on top of the first. What was sent when the close was asked for (`due`) left the services, and stands in the pipe before the command
  to close (`Due`, `Asked`), so nothing of it waits any more when that command is obeyed. Until then no message to a connection that is neither dead nor shut down is lost, and afterwards none that is due (`Gentle`: it waits or
  is through the sequence of wire and lists); the lists are given up only when `NoMoreSending` finds them empty, and then the wire is the whole sequence (`OnTheWire`). `Gone` says
  that a connection told open does not end before that. `NoMoreSending` is true of a half-written socket whatever its lists hold, but only a dead connection is half-written (`GoodLives`).

Every safety property of the disk cache, the upload buffer, the manager, the critical sections, the unconfirmed messages, the connection, the mailboxes,
the handles, the sockets, the timer and the configuration that a run checks is also proved. Model-checked only: all liveness (`Drains`, `StopEnds`, `Served`, `Settles`, `DisconnectEnds`, `Answered`,
`WorkersEnd`, `Fires`, `SavedInTheEnd`), which is out of the prover's reach.

## Not modelled

In the parts above: `QosStack` keeps every entry, as the code does (`max_size` only triggers a log line that says a message was
dropped, `cloud.lua:1582`), so there is no bound to check; the one-datum mode of the disk cache and `load_index` (the gateway uses neither); start, stop
and change of period of the upload buffer, and an error raised by its drop callback, which the disk cache may raise (`file.lua:197`): it would end the push, or the
period coroutine before the rest of what is dropped was handed over (`period.lua:35`, `75`); configuration, renaming, `close_all` and the heartbeat's loop in
the manager; coroutines killed from outside inside a critical section. The MQTT application base passes a
callback without a result to `fire_all` and so republishes the first message at every reconnection
(`lualib/app/base/mqtt.lua:131`); `QosStack` models the cloud service's callback.

In the configuration service: GET and SET and the upload, which change no file of it, SAVE with another path, which nobody calls, the rewriting of configurations of
older versions when they are loaded (`cfg.lua:187`), write errors, which the code does not look at (`cfg.lua:230`), and a file left without checksum by an older version, that is lost if power fails during its
first load. The shell's `cp`, `mv` and `sync` are taken to succeed
unless power is lost between them.

In the runtime: `skynet_context_new` uses the context after it gave its reference up (`skynet_server.c:164`: `Publish` reads `ctx` of a service that a
kill may have freed; the model gives that read its harmless outcome); overload warnings, the monitor of endless loops, profiling, session numbers and harbor;
of sockets `sp_enable` when it fails (`socket_server.c:665`, `993`, `1050`, `1537`), the aliasing of the 16 bits of the id and the overflow of the 16 bits of the count
that share the word `sending` (its tag is the whole id in the model), listening and accepting, pausing, UDP, options and statistics, and a slot that is given again while an event of its former
connection is in the current batch (`socket_server.c:354`); of the timer the wall clock (`skynet_fixtime`, and the loop of `skynet_updatetime`
when the clock goes back, `skynet_timer.c:254`); of handles a wrap that finds only slot 0 free, where the code takes the table for full and reads a NULL (`skynet_handle.c:46`).

Everything else of the inventory is listed in `PROJECT.json` as `not_modelled` with the reason. Of the C code in the
repository (about 85 000 lines) three quarters are third-party libraries (Lua, curl, cjson, lpeg, iconv, ...) that this
project leaves aside; the gateway itself is written in Lua.

## Plan

In the order of importance; each with an MC module, and theorems where named.

1. `DataPath`: `PeriodBuffer` in front of `FileBuffer` through the drop callback, composed; end to end nothing is lost
   while the cache has room. `CacheReenable`: two `FileBuffer` objects on one folder.
2. `CoreUpgrade`: upgrade, rollback and ack scripts as sequences of commands with power loss between any two,
   over the files in `ipt/`; after any number of crashes the box runs a version that is complete.
3. `CfgStore` as a refinement of a register that holds the old or the new value; upload.
4. `UpgradeTasks` over `CritSec`: aborting, queued actions; `ExtMgr`: installation, dependencies, clean-up.
5. `Cov`, the port's request with timeout, listening sockets.
