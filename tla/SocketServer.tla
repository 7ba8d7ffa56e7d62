---------------------------- MODULE SocketServer ----------------------------
(***************************************************************************)
(* One slot of skynet's socket server (skynet-src/socket_server.c): TCP    *)
(* connections that a service opens, services that write to them from      *)
(* their own threads, and the socket thread, which polls the file          *)
(* descriptor and obeys the commands that come through a pipe.             *)
(*                                                                         *)
(* The connections that use the slot one after the other are numbered: the *)
(* number is the socket id, and stands for the file descriptor too.  A     *)
(* message has Units parts that a write may take one by one.  Services     *)
(* behave as lualib/skynet/socket.lua makes them: they write once the      *)
(* connection is reported open, and shut it down when told of an error.    *)
(***************************************************************************)
EXTENDS Integers, Sequences

CONSTANTS
  Service,   (* services that write                                         *)
  Owner,     (* the one that opens and closes the connections               *)
  MaxId,     (* bound: connections                                          *)
  MaxMsg,    (* bound: messages                                             *)
  Low,       (* the messages that are sent with low priority                *)
  Units,     (* parts of a message                                          *)
  May        (* bound: what may happen to each connection                   *)

Id == 1 .. MaxId

ASSUME Parameters ==
  /\ Owner \in Service
  /\ Low \subseteq 1 .. MaxMsg
  /\ May \in [Id -> SUBSET {"data", "fin", "reset", "shutdown"}]
  /\ MaxId \in Nat /\ MaxMsg \in Nat /\ Units \in Nat \ {0}

VARIABLES
  slot,      (* struct socket                                               *)
  net,       (* the connection behind it, in the kernel                     *)
  pipe,      (* the commands                                                *)
  tp,        (* the socket thread: handles the first event of a batch, then *)
             (* drains the pipe, then handles the other event; or waits in  *)
             (* force_close for dw_lock                                     *)
  event,     (* the event of the slot still to be handled                   *)
  result,    (* what force_close is to report                               *)
  at, job,   (* of a service: where it is in a call, and its argument       *)
  last,      (* alloc_id                                                    *)
  box,       (* the messages so far                                         *)
  wire,      (* history: what each peer was sent                            *)
  told,      (* what the services were told of each connection; history:    *)
             (* told too late, it died, closing began with nothing to write *)
  asked      (* history: what the owner asked of each connection            *)

kernel == <<net, wire>>
thread == <<tp, event, result>>
callers == <<at, job, last, box, asked>>
vars == <<slot, kernel, pipe, thread, callers, told>>

-----------------------------------------------------------------------------
NoEvent == [read |-> FALSE, write |-> FALSE, error |-> FALSE, eof |-> FALSE]
NoNet == [st |-> "none", err |-> FALSE, data |-> "none", fin |-> FALSE]

MutRestBehind == slot.high \o slot.dw      (* the rest of a direct write goes last *)

(* What is to be written: the rest of a direct write goes first.           *)
High == slot.dw \o slot.high
Unsent == High \o slot.low

Invalid(id) == slot.id # id \/ slot.type = "invalid"
ListsEmpty == slot.high = <<>> /\ slot.low = <<>>
MutForgetRest ==           (* dw_buffer is not looked at                     *)
  (ListsEmpty /\ slot.sending = 0) \/ slot.type = "halfwrite"

NoMoreSending == (ListsEmpty /\ slot.dw = <<>> /\ slot.sending = 0) \/ slot.type = "halfwrite"
CanDirectWrite(id) == slot.id = id /\ NoMoreSending /\ slot.type = "connected"

(* dw_lock is held by services for their direct writes only; what the      *)
(* socket thread does with it is one step.                                 *)
LockFree == \A v \in Service : at[v] # "locked"

(* A buffer of a list is the run of parts of its message.                  *)
Parts(m) == [i \in 1 .. Units |-> <<m, i>>]

Init ==
  /\ slot = [type |-> "invalid", id |-> 0, tcp |-> FALSE, closing |-> FALSE, reading |-> FALSE,
             writing |-> FALSE, high |-> <<>>, low |-> <<>>, dw |-> <<>>, tag |-> 0, sending |-> 0]
  /\ net = NoNet
  /\ pipe = <<>>
  /\ tp = "event"
  /\ event = NoEvent
  /\ result = [what |-> "none", next |-> "event", cmd |-> FALSE]
  /\ at = [v \in Service |-> "idle"]
  /\ job = [v \in Service |-> 0]
  /\ last = 0
  /\ box = <<>>
  /\ wire = [c \in Id |-> <<>>]
  /\ told = [c \in Id |-> [open |-> FALSE, closes |-> 0, err |-> FALSE, late |-> FALSE, died |-> FALSE, bare |-> FALSE]]
  /\ asked = [c \in Id |-> [close |-> FALSE, shut |-> FALSE, due |-> {}]]

-----------------------------------------------------------------------------
(* The services.  A call that finds the socket gone just returns.          *)
Goto(v, l) == at' = [at EXCEPT ![v] = l]

Command(op, id, m) == [op |-> op, id |-> id, m |-> m]
Request(op, id, m) == pipe' = Append(pipe, Command(op, id, m))

(* socket_server_send and socket_server_send_lowpriority.                  *)
Send(v, c) ==
  LET m == Len(box) + 1 IN
  /\ at[v] = "idle" /\ told[c].open /\ Len(box) < MaxMsg
  /\ ~Invalid(c)
  /\ m \in Low \/ ~slot.closing
  /\ box' = Append(box, [by |-> v, to |-> c])
  /\ job' = [job EXCEPT ![v] = m]
  /\ Goto(v, IF m \notin Low /\ CanDirectWrite(c) THEN "try" ELSE "count")
  /\ UNCHANGED <<slot, kernel, pipe, thread, last, told, asked>>

TryLock(v) ==
  /\ at[v] = "try"
  /\ Goto(v, IF LockFree THEN "locked" ELSE "count")
  /\ UNCHANGED <<slot, kernel, pipe, thread, job, last, box, told, asked>>

(* The double check, the write, and what was not written into dw_buffer.   *)
DirectWrite(v) ==
  LET m == job[v] c == box[m].to IN
  /\ at[v] = "locked"
  /\ \/ /\ ~CanDirectWrite(c)
        /\ Goto(v, "count")
        /\ UNCHANGED <<slot, kernel>>
     \/ /\ CanDirectWrite(c)
        /\ \E k \in IF net.st = "up" THEN 0 .. Units ELSE {0} :
             /\ wire' = [wire EXCEPT ![c] = @ \o SubSeq(Parts(m), 1, k)]
             /\ net' = [net EXCEPT !.err = FALSE]
             /\ IF k = Units
                THEN UNCHANGED slot /\ Goto(v, "idle")
                ELSE /\ slot' = [slot EXCEPT !.dw = SubSeq(Parts(m), k + 1, Units)]
                     /\ Goto(v, "trigger")
  /\ UNCHANGED <<pipe, thread, job, last, box, told, asked>>

MutNoTrigger(v) ==         (* nobody is told of the rest                     *)
  /\ at[v] = "trigger"
  /\ Goto(v, "idle")
  /\ UNCHANGED <<slot, kernel, pipe, thread, job, last, box, told, asked>>

(* Let the socket thread enable the write event.                           *)
Trigger(v) ==
  /\ at[v] = "trigger"
  /\ Request("W", box[job[v]].to, 0)
  /\ Goto(v, "idle")
  /\ UNCHANGED <<slot, kernel, thread, job, last, box, told, asked>>

(* inc_sending_ref.                                                        *)
IncSending(v) ==
  LET c == box[job[v]].to IN
  /\ at[v] = "count"
  /\ slot' = [slot EXCEPT !.sending = IF slot.tcp /\ slot.tag = c THEN @ + 1 ELSE @]
  /\ Goto(v, "post")
  /\ UNCHANGED <<kernel, pipe, thread, job, last, box, told, asked>>

Post(v) ==
  LET m == job[v] IN
  /\ at[v] = "post"
  /\ Request(IF m \in Low THEN "P" ELSE "D", box[m].to, m)
  /\ Goto(v, "idle")
  /\ UNCHANGED <<slot, kernel, thread, job, last, box, told, asked>>

(* socket_server_connect: reserve_id gets the slot with a compare-and-swap *)
(* and then writes the new id into it.  Bound: ids go round 65536 slots,   *)
(* so by then the socket thread has no event of the former socket left,    *)
(* and no command for it comes between the two steps.                      *)
Reserve ==
  /\ at[Owner] = "idle" /\ last < MaxId /\ slot.type = "invalid"
  /\ event = NoEvent
  /\ last' = last + 1
  /\ slot' = [slot EXCEPT !.type = "reserve"]
  /\ Goto(Owner, "name")
  /\ UNCHANGED <<kernel, pipe, thread, job, box, told, asked>>

SetId ==
  /\ at[Owner] = "name"
  /\ slot' = [slot EXCEPT !.id = last, !.tcp = FALSE]
  /\ Goto(Owner, "open")
  /\ UNCHANGED <<kernel, pipe, thread, job, last, box, told, asked>>

OpenRequest ==
  /\ at[Owner] = "open"
  /\ Request("O", last, 0)
  /\ Goto(Owner, "idle")
  /\ UNCHANGED <<slot, kernel, thread, job, last, box, told, asked>>

(* socket_server_close.  due: the messages whose sending has returned.     *)
Close(c) ==
  /\ at[Owner] = "idle" /\ told[c].open /\ ~asked[c].close
  /\ Request("K", c, 0)
  /\ asked' = [asked EXCEPT ![c].close = TRUE,
                 ![c].due = {m \in 1 .. Len(box) : /\ box[m].to = c
                                                   /\ \A v \in Service : at[v] # "idle" => job[v] # m}]
  /\ UNCHANGED <<slot, kernel, thread, at, job, last, box, told>>

(* socket_server_shutdown, when the user asks for it or an error is told.  *)
Shutdown(c) ==
  /\ "shutdown" \in May[c]
  /\ at[Owner] = "idle" /\ told[c].open /\ ~asked[c].close /\ ~asked[c].shut
  /\ Request("K", c, 1)
  /\ asked' = [asked EXCEPT ![c].shut = TRUE]
  /\ UNCHANGED <<slot, kernel, thread, at, job, last, box, told>>

OnError(c) ==
  /\ at[Owner] = "idle" /\ told[c].err
  /\ Request("K", c, 1)
  /\ told' = [told EXCEPT ![c].err = FALSE]
  /\ UNCHANGED <<slot, kernel, thread, callers>>

-----------------------------------------------------------------------------
(* What the socket thread reports; "none" is -1.                           *)
Tell(c, what) ==
  told' = [told EXCEPT ![c].open = @ \/ what = "open",
                       ![c].closes = IF what = "close" THEN @ + 1 ELSE @,
                       ![c].err = @ \/ what = "err",
                       ![c].late = @ \/ (what \in {"open", "data"} /\ told[c].closes > 0)]

(* Where it goes on after an event.                                        *)
NextOf(p) == IF p = "first" THEN "drain" ELSE p

(* force_close: the lists are freed first, the rest is done under dw_lock. *)
Freed(s) == [s EXCEPT !.high = <<>>, !.low = <<>>]
Closed(s) == [Freed(s) EXCEPT !.dw = <<>>, !.type = "invalid"]

(* force_close, to report what.                                            *)
ForceClose(what, cmd) ==
  /\ slot' = Freed(slot)
  /\ tp' = "closing"
  /\ result' = [what |-> what, next |-> NextOf(tp), cmd |-> cmd]
  /\ UNCHANGED told

(* Its second half, with clear_closed_event after a command.               *)
CloseSlot ==
  /\ tp = "closing" /\ LockFree
  /\ slot' = Closed(slot)
  /\ net' = NoNet
  /\ Tell(slot.id, result.what)
  /\ event' = IF result.cmd /\ result.what # "none" THEN NoEvent ELSE event
  /\ tp' = result.next
  /\ UNCHANGED <<pipe, wire, result, callers>>

(* The commands.                                                           *)
Cmd(ops) ==
  /\ tp = "drain" /\ pipe # <<>> /\ Head(pipe).op \in ops
  /\ at[Owner] # "name"

(* open_socket with new_fd: the address is not found or refused, the       *)
(* connection is under way, or made at once.                               *)
OpenSocket ==
  LET c == Head(pipe).id
      s == [slot EXCEPT !.tcp = TRUE, !.reading = TRUE, !.writing = FALSE, !.closing = FALSE,
                        !.tag = c, !.sending = 0, !.dw = <<>>]
  IN
  /\ Cmd({"O"})
  /\ pipe' = Tail(pipe)
  /\ \/ /\ slot' = [slot EXCEPT !.type = "invalid"]
        /\ Tell(c, "err")
        /\ UNCHANGED net
     \/ /\ slot.type = "reserve" /\ ListsEmpty
        /\ slot' = [s EXCEPT !.type = "connecting", !.writing = TRUE]
        /\ net' = [NoNet EXCEPT !.st = "connecting"]
        /\ UNCHANGED told
     \/ /\ slot.type = "reserve" /\ ListsEmpty
        /\ slot' = [s EXCEPT !.type = "connected"]
        /\ net' = [NoNet EXCEPT !.st = "up"]
        /\ Tell(c, "open")
  /\ UNCHANGED <<wire, thread, callers>>

(* send_socket: what becomes of the slot when message m is appended.       *)
Dropped(c) == Invalid(c) \/ slot.type = "halfwrite" \/ slot.closing
Appended(m) ==
  IF ListsEmpty THEN [slot EXCEPT !.high = Parts(m), !.writing = TRUE]
  ELSE IF m \in Low THEN [slot EXCEPT !.low = @ \o Parts(m)]
  ELSE [slot EXCEPT !.high = @ \o Parts(m)]

(* send_socket, then dec_sending_ref.                                      *)
SendSocket ==
  LET c == Head(pipe).id
      s == IF Dropped(c) THEN slot ELSE Appended(Head(pipe).m)
  IN
  /\ Cmd({"D", "P"})
  /\ pipe' = Tail(pipe)
  /\ slot' = IF slot.id = c /\ slot.tcp THEN [s EXCEPT !.sending = @ - 1] ELSE s
  /\ UNCHANGED <<kernel, thread, callers, told>>

TriggerWrite ==
  /\ Cmd({"W"})
  /\ pipe' = Tail(pipe)
  /\ slot' = [slot EXCEPT !.writing = @ \/ ~Invalid(Head(pipe).id)]
  /\ UNCHANGED <<kernel, thread, callers, told>>

MutCloseAgain ==           (* SOCKET_CLOSE also after the peer closed        *)
  /\ Cmd({"K"})
  /\ pipe' = Tail(pipe)
  /\ IF Invalid(Head(pipe).id) THEN UNCHANGED <<slot, tp, result, told>> ELSE ForceClose("close", TRUE)
  /\ UNCHANGED <<kernel, event, callers>>

(* close_socket.                                                           *)
CloseSocket ==
  LET c == Head(pipe).id
      now == Head(pipe).m = 1 \/ NoMoreSending
      what == IF slot.type = "halfread" THEN "none" ELSE "close"
  IN
  /\ Cmd({"K"})
  /\ pipe' = Tail(pipe)
  /\ \/ /\ Invalid(c)
        /\ UNCHANGED <<slot, tp, result, told>>
     \/ /\ ~Invalid(c) /\ now
        /\ ForceClose(what, TRUE)
     \/ /\ ~Invalid(c) /\ ~now
        /\ slot' = [slot EXCEPT !.closing = TRUE, !.type = "halfread", !.reading = IF what = "close" THEN FALSE ELSE @]
        /\ told' = [told EXCEPT ![c].closes = IF what = "close" THEN @ + 1 ELSE @, ![c].bare = Unsent = <<>>]
        /\ UNCHANGED <<tp, result>>
  /\ UNCHANGED <<kernel, event, callers>>

(* No command is left.                                                     *)
Drained ==
  /\ tp = "drain" /\ pipe = <<>>
  /\ tp' = "event"
  /\ UNCHANGED <<slot, kernel, pipe, event, result, callers, told>>

-----------------------------------------------------------------------------
(* The events of the slot.                                                 *)

(* What the kernel reports: level-triggered epoll.                         *)
Ready ==
  [read : {slot.reading /\ (net.data = "unread" \/ net.fin \/ net.st = "dead")},
   write : IF slot.writing /\ net.st = "dead" THEN {TRUE} ELSE {FALSE, slot.writing /\ net.st = "up"},
   error : {net.err},
   eof : {net.st = "dead" \/ (net.fin /\ slot.type = "halfwrite")}]

(* sp_wait: the event of the slot comes before or after that of the pipe,  *)
(* or there is only one of them.                                           *)
Poll ==
  /\ tp = "event" /\ event = NoEvent
  /\ \/ /\ slot.type \notin {"invalid", "reserve"}
        /\ event' \in Ready \ {NoEvent}
        /\ \/ tp' = "first"
           \/ pipe # <<>> /\ tp' = "drain"
     \/ /\ pipe # <<>>
        /\ tp' = "drain"
        /\ UNCHANGED event
  /\ UNCHANGED <<slot, kernel, pipe, result, callers, told>>

Established == {"connected", "halfread", "halfwrite"}

Handling == tp \in {"first", "event"} /\ event # NoEvent

(* The event is done.                                                      *)
Report(what) ==
  /\ Tell(slot.id, what)
  /\ tp' = NextOf(tp)
  /\ event' = NoEvent
  /\ UNCHANGED result

(* report_connect; SO_ERROR is 0 also while the connection is under way.   *)
ReportConnect ==
  /\ Handling /\ slot.type = "connecting"
  /\ \/ /\ net.st = "dead"
        /\ ForceClose("err", FALSE)
        /\ event' = NoEvent
     \/ /\ net.st # "dead"
        /\ slot' = [slot EXCEPT !.type = "connected", !.writing = @ /\ ~NoMoreSending]
        /\ Report("open")
  /\ UNCHANGED <<kernel, pipe, callers>>

InvalidSocket ==
  /\ Handling /\ slot.type = "invalid"
  /\ Report("none")
  /\ UNCHANGED <<slot, kernel, pipe, callers>>

Reading == Handling /\ event.read /\ slot.type \in Established

(* The write flag of the event is looked at later, after the pipe was      *)
(* drained if this is the first event.                                     *)
Retry == event' = IF event.write THEN [event EXCEPT !.read = FALSE] ELSE NoEvent
ReportRead(what) ==
  /\ Tell(slot.id, what)
  /\ tp' = NextOf(tp)
  /\ Retry
  /\ UNCHANGED result

(* forward_message_tcp: read fails, or returns data.                       *)
ReadMore ==
  /\ Reading
  /\ \/ /\ net.err
        /\ net' = [net EXCEPT !.err = FALSE]
        /\ Report("err")
     \/ /\ ~net.err /\ net.data = "unread"
        /\ net' = [net EXCEPT !.data = "read"]
        /\ ReportRead(IF slot.type = "halfread" THEN "none" ELSE "data")
  /\ UNCHANGED <<slot, wire, pipe, callers>>

(* forward_message_tcp: read returns 0.                                    *)
ReadEnd ==
  LET t == slot.type IN
  /\ Reading /\ ~net.err /\ net.data # "unread"
  /\ net.st = "dead" \/ net.fin \/ t = "halfread"
  /\ \/ /\ slot.closing /\ NoMoreSending
        /\ ForceClose("none", FALSE)
        /\ Retry
     \/ /\ t = "halfread" /\ ~(slot.closing /\ NoMoreSending)
        /\ ReportRead("none")
        /\ UNCHANGED slot
     \/ /\ t = "halfwrite" /\ ~slot.closing
        /\ ForceClose("close", FALSE)
        /\ event' = NoEvent
     \/ /\ t = "connected" /\ ~slot.closing
        /\ slot' = [slot EXCEPT !.type = "halfread", !.reading = FALSE]
        /\ Report("close")
  /\ UNCHANGED <<kernel, pipe, callers>>

Writing == Handling /\ event.write /\ ~event.read /\ slot.type \in Established

MutNoRaise(k) ==           (* raise_uncomplete is not called                 *)
  LET n == Len(High) IN
  [slot EXCEPT !.dw = <<>>, !.high = SubSeq(High, k + 1, n), !.low = SubSeq(@, IF k > n THEN k - n + 1 ELSE 1, Len(@))]

(* send_list_tcp for both lists, when k parts are taken.  The rest of a    *)
(* message of the low list is raised to the high list.                     *)
Written(k) ==
  LET n == Len(High)
      low == SubSeq(slot.low, k - n + 1, Len(slot.low))
      started == IF low # <<>> /\ Head(low)[2] > 1 THEN Units - Head(low)[2] + 1 ELSE 0
  IN
  IF k < n THEN [slot EXCEPT !.dw = <<>>, !.high = SubSeq(High, k + 1, n)]
  ELSE [slot EXCEPT !.dw = <<>>, !.high = SubSeq(low, 1, started), !.low = SubSeq(low, started + 1, Len(low))]

(* send_buffer, when a direct write holds the lock.                        *)
SendBlocked ==
  /\ Writing /\ ~LockFree
  /\ Report("none")
  /\ UNCHANGED <<slot, kernel, pipe, callers>>

(* send_buffer, when all is written: step 4 of send_buffer_.               *)
SendAll ==
  /\ Writing /\ LockFree
  /\ Unsent = <<>> \/ net.st = "up"
  /\ wire' = [wire EXCEPT ![slot.id] = @ \o Unsent]
  /\ \/ /\ slot.closing
        /\ slot' = Closed(slot)
        /\ net' = NoNet
        /\ Report("none")
     \/ /\ ~slot.closing
        /\ slot' = [Closed(slot) EXCEPT !.type = slot.type, !.writing = FALSE]
        /\ Report("none")
        /\ UNCHANGED net
  /\ UNCHANGED <<pipe, callers>>

(* send_buffer, when the kernel takes only a part.                         *)
SendSome ==
  /\ Writing /\ LockFree /\ net.st = "up"
  /\ \E k \in 1 .. Len(Unsent) - 1 :
       /\ wire' = [wire EXCEPT ![slot.id] = @ \o SubSeq(Unsent, 1, k)]
       /\ slot' = Written(k)
  /\ Report("none")
  /\ UNCHANGED <<net, pipe, callers>>

(* send_buffer, when the write fails: close_write.                         *)
CloseWrite ==
  LET s == [slot EXCEPT !.dw = <<>>, !.high = High] IN
  /\ Writing /\ LockFree /\ Unsent # <<>> /\ net.st = "dead"
  /\ \/ /\ slot.closing \/ slot.type = "halfread"
        /\ slot' = Closed(slot)
        /\ net' = NoNet
        /\ Report("none")
     \/ /\ ~slot.closing /\ slot.type = "connected"
        /\ slot' = [s EXCEPT !.type = "halfwrite", !.writing = FALSE]
        /\ net' = [net EXCEPT !.err = FALSE]
        /\ Report("err")
     \/ /\ ~slot.closing /\ slot.type = "halfwrite"
        /\ slot' = s
        /\ net' = [net EXCEPT !.err = FALSE]
        /\ Report("none")
  /\ UNCHANGED <<wire, pipe, callers>>

Ending == Handling /\ ~event.read /\ ~event.write /\ slot.type \in Established

(* EPOLLERR.                                                               *)
EventError ==
  /\ Ending /\ event.error
  /\ net' = [net EXCEPT !.err = FALSE]
  /\ Report("err")
  /\ UNCHANGED <<slot, wire, pipe, callers>>

(* EPOLLHUP.                                                               *)
EventEof ==
  /\ Ending /\ ~event.error
  /\ ForceClose(IF slot.type = "halfread" THEN "none" ELSE "close", FALSE)
  /\ event' = NoEvent
  /\ UNCHANGED <<kernel, pipe, callers>>

-----------------------------------------------------------------------------
(* The peer and the kernel.                                                *)
Peer(n) == net' = n /\ UNCHANGED <<slot, wire, pipe, thread, callers, told>>

Connected == net.st = "connecting" /\ Peer([net EXCEPT !.st = "up"])
PeerData == net.st = "up" /\ "data" \in May[slot.id] /\ net.data = "none" /\ ~net.fin /\ Peer([net EXCEPT !.data = "unread"])
PeerFin == net.st = "up" /\ "fin" \in May[slot.id] /\ ~net.fin /\ Peer([net EXCEPT !.fin = TRUE])

(* The connection is refused or reset; died is the history of it.          *)
Reset ==
  /\ net.st \in {"connecting", "up"} /\ "reset" \in May[slot.id]
  /\ net' = [net EXCEPT !.st = "dead", !.err = TRUE]
  /\ told' = [told EXCEPT ![slot.id].died = TRUE]
  /\ UNCHANGED <<slot, wire, pipe, thread, callers>>

Environment == Connected \/ PeerData \/ PeerFin \/ Reset

SocketThread ==
  \/ OpenSocket \/ SendSocket \/ TriggerWrite \/ CloseSocket \/ Drained \/ CloseSlot
  \/ Poll \/ ReportConnect \/ InvalidSocket \/ ReadMore \/ ReadEnd
  \/ SendBlocked \/ SendAll \/ SendSome \/ CloseWrite \/ EventError \/ EventEof

Caller(v) ==
  \/ TryLock(v) \/ DirectWrite(v) \/ Trigger(v) \/ IncSending(v) \/ Post(v)
  \/ v = Owner /\ (SetId \/ OpenRequest \/ \E c \in Id : OnError(c))

Next ==
  \/ SocketThread \/ Environment \/ Reserve
  \/ \E v \in Service : Caller(v) \/ (\E c \in Id : Send(v, c))
  \/ \E c \in Id : Close(c) \/ Shutdown(c)

Spec == Init /\ [][Next]_vars

Fairness == WF_vars(SocketThread) /\ \A v \in Service : WF_vars(Caller(v))

FairSpec == Spec /\ Fairness

-----------------------------------------------------------------------------
(* Properties.                                                             *)
Alive(c) == slot.id = c /\ slot.type \in {"connecting"} \cup Established

(* The parts of message m that its peer was sent.                          *)
Place(m, i) == {j \in DOMAIN wire[box[m].to] : wire[box[m].to][j] = <<m, i>>}
Sent(m) == \A i \in 1 .. Units : Place(m, i) # {}

(* A peer gets only what was sent to it, each part once and in order, no   *)
(* message inside another (unless the connection is being shut down), and  *)
(* the messages of one service in its order, those of low priority behind: *)
(* whether they were written directly, in part, or from either list        *)
(* (socket_server.c:815, 923, 1025).                                       *)
WireInOrder ==
  \A c \in Id : \A j \in DOMAIN wire[c] :
    LET m == wire[c][j][1] i == wire[c][j][2] IN
    /\ box[m].to = c
    /\ i > 1 => j > 1 /\ wire[c][j - 1] = <<m, i - 1>>
    /\ i < Units /\ j < Len(wire[c]) /\ ~asked[c].shut => wire[c][j + 1] = <<m, i + 1>>
    /\ \A k \in 1 .. j - 1 :
         LET n == wire[c][k][1] IN
         box[n].by = box[m].by => n <= m \/ (m \in Low /\ n \notin Low) \/ asked[c].shut

(* No assertion fails: a new connection finds an empty, reserved slot      *)
(* (socket_server.c:558, 576), commands under way are counted (1333), a    *)
(* message sent in part is not in the low list (860), and a slot without a *)
(* file descriptor gets no event that would close it (489).                *)
Asserts ==
  /\ Cmd({"O"}) => slot.type = "reserve" /\ ListsEmpty
  /\ Cmd({"D", "P"}) /\ slot.id = Head(pipe).id /\ slot.tcp => slot.sending > 0
  /\ slot.low # <<>> => Head(slot.low)[2] = 1
  /\ Handling /\ slot.type = "reserve" => ~event.read /\ ~(event.write /\ slot.closing)

(* SOCKET_CLOSE is raised only once (socket_server.c:1122), and nothing is *)
(* read or opened afterwards.                                              *)
ClosedOnce == \A c \in Id : told[c].closes <= 1 /\ ~told[c].late

(* Closing is graceful: unless the connection died or was shut down, all   *)
(* messages whose sending had returned when the service asked to close are *)
(* on the wire when the socket is closed (socket_server.c:1153).           *)
Flushed ==
  \A c \in Id : asked[c].close /\ ~asked[c].shut /\ ~told[c].died /\ ~Alive(c) =>
    \A m \in asked[c].due : Sent(m)

(* Nothing is stranded: every message is sent, unless its connection dies  *)
(* or is to be closed, and a connection that is to be closed is closed,    *)
(* although nobody but the socket thread writes after a direct write gave  *)
(* up (socket_server.c:1858), writing is enabled only when a list gets its *)
(* first buffer (1050), and a closing socket closes when a write event     *)
(* finds nothing left (894).  Connections with nothing to write when the   *)
(* close is handled, but a message counted behind it, are left out.        *)
Stranded(m) ==
  LET c == box[m].to IN ~Sent(m) /\ ~told[c].died /\ ~asked[c].close /\ ~asked[c].shut

Settles ==
  []<>(/\ \A m \in DOMAIN box : ~Stranded(m)
       /\ \A c \in Id : asked[c].close /\ Alive(c) => told[c].bare)

(* A socket that is closing is closed some time: socket_server.c:1152      *)
(* "waiting for sending data out", 895 "finish writing".                   *)
ClosingEnds == \A c \in Id : Alive(c) /\ slot.closing ~> ~Alive(c)
=============================================================================
