------------------------------ MODULE QosStack ------------------------------
(***************************************************************************)
(* The buffer of messages that were published with QoS 1 and not yet       *)
(* confirmed by the broker (lualib/utils/index_stack.lua), as the cloud    *)
(* service uses it (snax/cloud.lua): a message is pushed under the id the  *)
(* client gave it, removed when the broker confirms that id, and sent      *)
(* again, under a new id, when a new connection is there.  Sending again   *)
(* pauses after every SleepCount messages, and then other coroutines of    *)
(* the service publish, receive confirmations or lose the connection.      *)
(*                                                                         *)
(* Each connection numbers its messages from 1.  A new connection is never *)
(* made during such a pause of 0.1 s: start_reconnect waits for a second   *)
(* at least.                                                               *)
(***************************************************************************)
EXTENDS Integers, SequencesExt, FiniteSetsExt

CONSTANTS
  Msgs,        (* the messages                                              *)
  SleepCount,  (* sleep_count                                               *)
  MaxConnects  (* bound: how many connections are made                      *)

ASSUME QosAssumption ==
  SleepCount \in Nat \ {0} /\ MaxConnects \in Nat

ResetKey == 0  (* msg[1] = {}: equal to no id of the client                 *)

VARIABLES
  client,    (* is mqtt_client set?                                         *)
  connects,  (* the number of connections made                              *)
  mid,       (* the last id the client gave to a message                    *)
  wire,      (* id and message of what this connection may still confirm    *)
  buf,       (* self._buf: keys and messages                                *)
  batch,     (* buf, the local variable of fire_all: what it did not send   *)
  sent,      (* count - 1: how many it sent                                 *)
  firing,    (* is fire_all in its pause?                                   *)
  published, (* the messages that were published                            *)
  acked,     (* those the broker confirmed to this device                   *)
  lost       (* those that went away with a fire_all that raised an error   *)

vars == <<client, connects, mid, wire, buf, batch, sent, firing, published, acked, lost>>

-----------------------------------------------------------------------------
Init == /\ client = FALSE
        /\ connects = 0
        /\ mid = 0
        /\ wire = {}
        /\ buf = <<>>
        /\ batch = <<>>
        /\ sent = 0
        /\ firing = FALSE
        /\ published = {}
        /\ acked = {}
        /\ lost = {}

(* stack:push.  A full stack is reported to on_drop_cb, and kept whole.    *)
Pushed(b, key, m) == Append(b, [key |-> key, msg |-> m])

(* The messages of s as they are published again and pushed, under the ids *)
(* from first on.                                                          *)
Resent(first, s) ==
  [i \in 1 .. Len(s) |-> [key |-> first + i - 1, msg |-> s[i].msg]]

MutStale(s) == Reverse(s)      (* fire_all is called without reset_key         *)

(* What was not sent goes back under a key that no confirmation matches,   *)
(* each message in front of the one before it.                             *)
PutBack(s) == Reverse([i \in 1 .. Len(s) |-> [s[i] EXCEPT !.key = ResetKey]])

(* mqtt_client_publish, called for a new message.                          *)
Publish(m) ==
  /\ client
  /\ m \notin published
  /\ mid' = mid + 1
  /\ wire' = wire \cup {[key |-> mid', msg |-> m]}
  /\ buf' = Pushed(buf, mid', m)
  /\ published' = published \cup {m}
  /\ UNCHANGED <<client, connects, batch, sent, firing, acked, lost>>

(* stack:remove: the first message with the key.                           *)
Removed(b, key) ==
  LET at == {i \in 1 .. Len(b) : b[i].key = key}
  IN IF at = {} THEN b ELSE RemoveAt(b, CHOOSE i \in at : \A j \in at : i <= j)

(* ON_PUBLISH(mid).                                                        *)
OnPublish(w) ==
  /\ client
  /\ w \in wire
  /\ wire' = wire \ {w}
  /\ acked' = acked \cup {w.msg}
  /\ buf' = Removed(buf, w.key)
  /\ UNCHANGED <<client, connects, mid, batch, sent, firing, published, lost>>

(* ON_DISCONNECT.                                                          *)
OnDisconnect ==
  /\ client
  /\ client' = FALSE
  /\ wire' = {}
  /\ UNCHANGED <<connects, mid, buf, batch, sent, firing, published, acked, lost>>

MutEarly(done) == SleepCount - ((done + 1) % SleepCount)  (* count is raised too early *)

(* How many messages fire_all sends before its next pause ...              *)
ToPause(done) == SleepCount - (done % SleepCount)

(* ... and how many if it ends first.                                      *)
Stretch(b, done) == Min({Len(b), ToPause(done)})

(* fire_all goes on: of the messages b it sends n, the client numbering    *)
(* them from first on, and pauses, ends or stops where a publish fails.    *)
Resend(b, onto, done, first, n) ==
  LET rest == SubSeq(b, n + 1, Len(b))
      new == Resent(first, SubSeq(b, 1, n))
      failed == n < Stretch(b, done)
      pause == n = ToPause(done)
  IN /\ n \in 0 .. Stretch(b, done)
     /\ mid' = first + n - 1
     /\ buf' = (IF failed THEN PutBack(rest) ELSE <<>>) \o onto \o new
     /\ batch' = IF pause THEN rest ELSE <<>>
     /\ sent' = IF pause THEN done + n ELSE 0
     /\ firing' = pause

(* ON_CONNECT; the coroutine that sends the messages again starts before   *)
(* any other runs.                                                         *)
OnConnect(n) ==
  /\ ~client /\ ~firing
  /\ connects < MaxConnects
  /\ client' = TRUE
  /\ connects' = connects + 1
  /\ Resend(buf, <<>>, 0, 1, n)
  /\ wire' = Range(Resent(1, SubSeq(buf, 1, n)))
  /\ UNCHANGED <<published, acked, lost>>

(* The pause is over and the connection still there.                       *)
Resume(n) ==
  /\ firing
  /\ client \/ batch = <<>>
  /\ Resend(batch, buf, sent, mid + 1, n)
  /\ wire' = wire \cup Range(Resent(mid + 1, SubSeq(batch, 1, n)))
  /\ UNCHANGED <<client, connects, published, acked, lost>>

(* The pause is over and mqtt_client is nil: the callback raises an error, *)
(* and what fire_all has not sent goes with its local variable.            *)
ResumeError ==
  /\ firing
  /\ ~client /\ batch # <<>>
  /\ firing' = FALSE
  /\ lost' = lost \cup {batch[i].msg : i \in DOMAIN batch}
  /\ batch' = <<>>
  /\ sent' = 0
  /\ UNCHANGED <<client, connects, mid, wire, buf, published, acked>>

Next == \/ \E m \in Msgs : Publish(m)
        \/ \E w \in wire : OnPublish(w)
        \/ \E n \in 0 .. Cardinality(Msgs) : OnConnect(n) \/ Resume(n)
        \/ OnDisconnect
        \/ ResumeError

Spec == Init /\ [][Next]_vars

-----------------------------------------------------------------------------
Entry == [key : Nat, msg : Msgs]

TypeOK == /\ client \in BOOLEAN /\ firing \in BOOLEAN
          /\ connects \in 0 .. MaxConnects
          /\ mid \in Nat /\ sent \in Nat
          /\ wire \subseteq [key : Nat \ {ResetKey}, msg : Msgs]
          /\ buf \in Seq(Entry) /\ batch \in Seq(Entry)
          /\ published \subseteq Msgs
          /\ acked \subseteq published /\ lost \subseteq published

Waiting == {buf[i].msg : i \in DOMAIN buf} \cup {batch[i].msg : i \in DOMAIN batch}

(* A message is kept until the broker confirmed it, across confirmations   *)
(* of other messages with reused ids, reconnections and failures; only a   *)
(* resend that raised an error takes some away.                            *)
KeptUntilConfirmed == published \ (acked \cup lost) \subseteq Waiting

(* A message that is confirmed or kept once is not kept once more.         *)
KeptOnce == /\ IsInjective([i \in DOMAIN (buf \o batch) |-> (buf \o batch)[i].msg])
            /\ acked \cap Waiting = {}

(* Both together: an unconfirmed message is in the stack, or under way in  *)
(* a resend, exactly once, and a confirmed one no longer.                  *)
ExactlyOnce == TypeOK /\ KeptUntilConfirmed /\ KeptOnce

(* Messages are lost only by a resend that sent SleepCount of them before  *)
(* the disconnection: a backlog no longer than that survives every one,    *)
(* and what is lost never includes a message that was sent again.          *)
LosesOnlyBacklog ==
  [][lost' # lost => sent >= SleepCount /\ lost' \ lost \subseteq Waiting \ Waiting']_vars
=============================================================================
