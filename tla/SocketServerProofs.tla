------------------------ MODULE SocketServerProofs --------------------------
(***************************************************************************)
(* Proofs about SocketServer.  The inductive invariant IInv consists of    *)
(*   Fields, TypeOK  the fields of the records and the types               *)
(*   Slots, Opens    the slot and its id, and the command to open          *)
(*   Empty           a slot not in use has no list                         *)
(*   Jobs            the messages services work on and those in the pipe   *)
(*   Quiet           nothing is told or asked of connections not made      *)
(*   Closings        closing is told once                                  *)
(*   Deaths          errors are told of dead connections only              *)
(*   Sending         sending counts the messages posted or about to be     *)
(*   Streams         what is on the wire and in the lists, in order        *)
(* First come facts about lists of parts, then what the steps do, then one *)
(* lemma per part and step, and the theorems that follow from IInv alone.  *)
(* That closing is graceful takes a second invariant on top of it, FInv:   *)
(*   Due             what is due was sent and left the services            *)
(*   Asked           commands to close stay behind what is due             *)
(*   Gentle          no message that is due is lost on a good connection   *)
(*   Gone            a good connection ended with all that was due sent    *)
(***************************************************************************)
EXTENDS SocketServer, SequenceTheorems, FiniteSetTheorems, TLAPS

Types == {"invalid", "reserve", "connecting", "connected", "halfread", "halfwrite"}

(* A part of a message: the message and the place in it.                   *)
Part == Nat \X (1 .. Units)
Commands == [op : {"O", "D", "P", "W", "K"}, id : Id, m : Nat]

(* Where a service is in a call.                                           *)
Places == {"idle", "try", "locked", "trigger", "count", "post", "name", "open"}

(* The fields the records have.                                            *)
Fields ==
  /\ DOMAIN slot = {"type", "id", "tcp", "closing", "reading", "writing", "high", "low", "dw", "tag", "sending"}
  /\ DOMAIN net = {"st", "err", "data", "fin"} /\ net.err \in BOOLEAN
  /\ DOMAIN event = {"read", "write", "error", "eof"}
  /\ event = [read |-> event.read, write |-> event.write, error |-> event.error, eof |-> event.eof]
  /\ event.read \in BOOLEAN /\ event.write \in BOOLEAN /\ event.error \in BOOLEAN /\ event.eof \in BOOLEAN
  /\ DOMAIN result = {"what", "next", "cmd"}
  /\ DOMAIN told = Id /\ \A c \in Id : DOMAIN told[c] = {"open", "closes", "err", "late", "died", "bare"}
  /\ DOMAIN asked = Id /\ \A c \in Id : DOMAIN asked[c] = {"close", "shut", "due"}

(* The types of what the fields and variables hold.                        *)
Values ==
  /\ slot.type \in Types /\ slot.id \in 0 .. MaxId /\ slot.tag \in 0 .. MaxId /\ slot.sending \in Int
  /\ tp \in {"event", "first", "drain", "closing"}
  /\ result.next \in {"event", "drain"}
  /\ last \in 0 .. MaxId
  /\ \A c \in Id : told[c].closes \in Nat
Queues ==
  /\ slot.high \in Seq(Part) /\ slot.low \in Seq(Part) /\ slot.dw \in Seq(Part)
  /\ wire \in [Id -> Seq(Part)]
Calls ==
  /\ pipe \in Seq(Commands)
  /\ at \in [Service -> Places] /\ job \in [Service -> Nat]
  /\ box \in Seq([by : Service, to : Id])
TypeOK == Values /\ Queues /\ Calls

(* What Tell changes of what the services were told, field by field.       *)
LEMMA Telling ==
  ASSUME Fields, NEW c, NEW what, Tell(c, what)
  PROVE  /\ DOMAIN told' = Id /\ \A d \in Id : DOMAIN told'[d] = {"open", "closes", "err", "late", "died", "bare"}
         /\ \A d \in Id : d # c => told'[d] = told[d]
         /\ \A d \in Id : told'[d].died = told[d].died /\ told'[d].bare = told[d].bare
         /\ \A d \in Id : /\ told'[d].open <=> (told[d].open \/ (d = c /\ what = "open"))
                          /\ told'[d].err <=> (told[d].err \/ (d = c /\ what = "err"))
                          /\ told'[d].late <=> (told[d].late \/ (d = c /\ what \in {"open", "data"} /\ told[d].closes > 0))
                          /\ told'[d].closes = IF d = c /\ what = "close" THEN told[d].closes + 1 ELSE told[d].closes
<1>1. /\ DOMAIN told' = Id /\ \A d \in Id : DOMAIN told'[d] = {"open", "closes", "err", "late", "died", "bare"}
      /\ \A d \in Id : d # c => told'[d] = told[d]
  BY DEF Fields, Tell
<1>2. \A d \in Id : told'[d].died = told[d].died /\ told'[d].bare = told[d].bare
  BY DEF Fields, Tell
<1>3. CASE c \in Id
  <2>1. told'[c].open <=> (told[c].open \/ what = "open")
    <3>1. told'[c].open = (told[c].open \/ what = "open")
      BY <1>3 DEF Fields, Tell
    <3> QED
      BY <3>1, Zenon
  <2>2. told'[c].err <=> (told[c].err \/ what = "err")
    <3>1. told'[c].err = (told[c].err \/ what = "err")
      BY <1>3 DEF Fields, Tell
    <3> QED
      BY <3>1, Zenon
  <2>3. told'[c].late <=> (told[c].late \/ (what \in {"open", "data"} /\ told[c].closes > 0))
    <3>1. told'[c].late = (told[c].late \/ (what \in {"open", "data"} /\ told[c].closes > 0))
      BY <1>3 DEF Fields, Tell
    <3> QED
      BY <3>1, Zenon
  <2>4. told'[c].closes = IF what = "close" THEN told[c].closes + 1 ELSE told[c].closes
    BY <1>3 DEF Fields, Tell
  <2> QED
    BY <1>1, <1>2, <2>1, <2>2, <2>3, <2>4
<1>4. CASE c \notin Id
  BY <1>1, <1>2, <1>4
<1> QED
  BY <1>3, <1>4

(* The place before the first part of the message that is at j.            *)
Before(s, j) == j - s[j][2]

(* All messages of a list are complete and in one piece.                   *)
Whole(s) ==
  \A j \in 1 .. Len(s) : /\ Before(s, j) >= 0 /\ Before(s, j) + Units <= Len(s)
                         /\ \A i \in 1 .. Units : s[Before(s, j) + i] = <<s[j][1], i>>

(* The messages of a list are all begun in it.                             *)
Begun(s) ==
  \A j \in 1 .. Len(s) : /\ Before(s, j) >= 0
                         /\ \A i \in 1 .. j - Before(s, j) : s[Before(s, j) + i] = <<s[j][1], i>>

(* The messages of a list may break off only where the list ends.          *)
Unbroken(s) ==
  \A j \in 1 .. Len(s) : \A i \in 1 .. Units :
     Before(s, j) + i \in 1 .. Len(s) => s[Before(s, j) + i] = <<s[j][1], i>>

(* Message y may go behind x: WireInOrder asks it of messages of one       *)
(* service, of which one may overtake if only the other has low priority.  *)
Follows(x, y) == box[x].by = box[y].by => x <= y \/ (y \in Low /\ x \notin Low)

(* A list in which every message may go behind those before it.            *)
Ordered(s) == \A k, j \in 1 .. Len(s) : k < j => Follows(s[k][1], s[j][1])

(* The buffer of a message is its parts, from the first to the last.       *)
LEMMA PartsOf ==
  ASSUME NEW m \in Nat
  PROVE  /\ Parts(m) \in Seq(Part) /\ Len(Parts(m)) = Units
         /\ \A i \in 1 .. Units : Parts(m)[i] = <<m, i>>
         /\ Whole(Parts(m))
<1>1. Parts(m) \in Seq(Part) /\ Len(Parts(m)) = Units /\ \A i \in 1 .. Units : Parts(m)[i] = <<m, i>>
  BY Parameters DEF Parts, Part
<1>2. \A j \in 1 .. Units : Before(Parts(m), j) = 0
  BY <1>1, Parameters DEF Before
<1>3. Whole(Parts(m))
  BY <1>1, <1>2, Parameters DEF Whole
<1> QED
  BY <1>1, <1>3

(* A part of a list names its message and its place in it.                 *)
LEMMA PartAt ==
  ASSUME NEW s \in Seq(Part), NEW j \in 1 .. Len(s)
  PROVE  /\ s[j][1] \in Nat /\ s[j][2] \in 1 .. Units /\ s[j] = <<s[j][1], s[j][2]>>
         /\ Before(s, j) \in Int /\ Before(s, j) < j /\ j <= Before(s, j) + Units
<1>1. s[j] \in Nat \X (1 .. Units)
  BY DEF Part
<1>2. s[j][1] \in Nat /\ s[j][2] \in 1 .. Units /\ s[j] = <<s[j][1], s[j][2]>>
  BY <1>1
<1> DEFINE p == s[j][2]
<1>3. p \in 1 .. Units /\ Before(s, j) = j - p /\ j \in Int
  BY <1>2 DEF Before
<1> HIDE DEF p
<1> QED
  BY <1>2, <1>3, Parameters

(* What is between two places of a range is in it.                         *)
LEMMA Within ==
  ASSUME NEW b \in Int, NEW n \in Nat, b >= 0, b + Units <= n
  PROVE  \A i \in 1 .. Units : b + i \in 1 .. n
BY Parameters

(* Where the parts of two lists stand when one is put behind the other.    *)
LEMMA Joined ==
  ASSUME NEW s \in Seq(Part), NEW t \in Seq(Part)
  PROVE  /\ s \o t \in Seq(Part) /\ Len(s \o t) = Len(s) + Len(t)
         /\ \A j \in 1 .. Len(s) : (s \o t)[j] = s[j]
         /\ \A j \in 1 .. Len(t) : (s \o t)[Len(s) + j] = t[j]
         /\ \A j \in 1 .. Len(s \o t) : j > Len(s) => j - Len(s) \in 1 .. Len(t) /\ (s \o t)[j] = t[j - Len(s)]
<1>1. s \o t \in Seq(Part) /\ Len(s \o t) = Len(s) + Len(t) /\ Len(s) \in Nat /\ Len(t) \in Nat
  OBVIOUS
<1>2. \A i \in 1 .. Len(s) + Len(t) : (s \o t)[i] = IF i <= Len(s) THEN s[i] ELSE t[i - Len(s)]
  BY ConcatProperties
<1>3. PICK n, k, r : n = Len(s) /\ k = Len(t) /\ r = s \o t
  OBVIOUS
<1>4. /\ n \in Nat /\ k \in Nat /\ Len(r) = n + k
      /\ \A i \in 1 .. n + k : r[i] = IF i <= n THEN s[i] ELSE t[i - n]
  BY <1>1, <1>2, <1>3
<1>5. \A j \in 1 .. n : r[j] = s[j]
  BY ONLY <1>4
<1>6. \A j \in 1 .. k : n + j \in 1 .. n + k /\ n + j > n /\ (n + j) - n = j
  BY ONLY <1>4
<1>7. \A j \in 1 .. k : r[n + j] = t[j]
  BY ONLY <1>4, <1>6
<1>8. \A j \in 1 .. Len(r) : j > n => j - n \in 1 .. k /\ r[j] = t[j - n]
  BY ONLY <1>4
<1> QED
  BY <1>1, <1>3, <1>5, <1>7, <1>8

(* Where the parts of a list stand when it is cut in two.                  *)
LEMMA Cut ==
  ASSUME NEW s \in Seq(Part), NEW n \in 0 .. Len(s)
  PROVE  LET a == SubSeq(s, 1, n) c == SubSeq(s, n + 1, Len(s)) IN
         /\ a \in Seq(Part) /\ c \in Seq(Part) /\ Len(a) = n /\ Len(c) = Len(s) - n
         /\ \A j \in 1 .. n : a[j] = s[j]
         /\ \A j \in 1 .. Len(c) : c[j] = s[n + j]
         /\ a \o c = s
<1> DEFINE a == SubSeq(s, 1, n) c == SubSeq(s, n + 1, Len(s))
<1>1. /\ a \in Seq(Part) /\ c \in Seq(Part) /\ Len(a) = n /\ Len(c) = Len(s) - n
      /\ \A j \in 1 .. n : a[j] = s[j]
      /\ \A j \in 1 .. Len(c) : c[j] = s[n + j]
      /\ n \in Nat /\ Len(s) \in Nat /\ n <= Len(s)
  <2>1. n \in Nat /\ Len(s) \in Nat /\ n <= Len(s)
    OBVIOUS
  <2>2. a \in Seq(Part) /\ Len(a) = n /\ \A j \in 1 .. n : a[j] = s[j]
    OBVIOUS
  <2>3. c \in Seq(Part) /\ Len(c) = Len(s) - n
    OBVIOUS
  <2>4. \A j \in 1 .. Len(s) - n : c[j] = s[n + j]
    OBVIOUS
  <2> QED
    BY <2>1, <2>2, <2>3, <2>4
<1> HIDE DEF a, c
<1>2. Len(a \o c) = Len(s) /\ a \o c \in Seq(Part)
  BY <1>1
<1>3. ASSUME NEW j \in 1 .. Len(s)
      PROVE  (a \o c)[j] = s[j]
  <2>1. CASE j <= n
    BY <1>1, <2>1
  <2>2. CASE j > n
    <3>1. (a \o c)[j] = c[j - n] /\ j - n \in 1 .. Len(c)
      BY <1>1, <2>2, Joined
    <3> QED
      BY <1>1, <3>1
  <2> QED
    BY <1>1, <2>1, <2>2
<1>4. a \o c = s
  BY <1>2, <1>3, SeqEqual
<1> QED
  BY <1>1, <1>4 DEF a, c

(* Whole messages behind whole messages, and cut between two messages.     *)
LEMMA WholeJoined ==
  ASSUME NEW s \in Seq(Part), NEW t \in Seq(Part), Whole(s), Whole(t)
  PROVE  Whole(s \o t)
<1> DEFINE r == s \o t
<1>1. /\ r \in Seq(Part) /\ Len(r) = Len(s) + Len(t) /\ Len(s) \in Nat /\ Len(t) \in Nat
      /\ \A j \in 1 .. Len(s) : r[j] = s[j]
      /\ \A j \in 1 .. Len(t) : r[Len(s) + j] = t[j]
      /\ \A j \in 1 .. Len(r) : j > Len(s) => j - Len(s) \in 1 .. Len(t) /\ r[j] = t[j - Len(s)]
  BY Joined
<1> HIDE DEF r
<1>2. ASSUME NEW j \in 1 .. Len(r), j <= Len(s)
      PROVE  /\ Before(r, j) >= 0 /\ Before(r, j) + Units <= Len(r)
             /\ \A i \in 1 .. Units : r[Before(r, j) + i] = <<r[j][1], i>>
  <2>1. j \in 1 .. Len(s) /\ r[j] = s[j] /\ Before(r, j) = Before(s, j)
    BY <1>1, <1>2 DEF Before
  <2>2. /\ Before(s, j) \in Int /\ Before(s, j) >= 0 /\ Before(s, j) + Units <= Len(s)
        /\ \A i \in 1 .. Units : s[Before(s, j) + i] = <<s[j][1], i>>
    BY <2>1, PartAt DEF Whole
  <2>3. \A i \in 1 .. Units : Before(s, j) + i \in 1 .. Len(s)
    <3>1. Len(s) \in Nat
      OBVIOUS
    <3> QED
      BY <2>2, <3>1, Within, Zenon
  <2>4. Before(r, j) >= 0 /\ Before(r, j) + Units <= Len(r)
    BY <2>1, <2>2, <1>1, Parameters
  <2> QED
    BY <2>1, <2>2, <2>3, <2>4, <1>1
<1>3. ASSUME NEW j \in 1 .. Len(r), j > Len(s)
      PROVE  /\ Before(r, j) >= 0 /\ Before(r, j) + Units <= Len(r)
             /\ \A i \in 1 .. Units : r[Before(r, j) + i] = <<r[j][1], i>>
  <2> DEFINE h == j - Len(s)
  <2>1. h \in 1 .. Len(t) /\ r[j] = t[h] /\ j = Len(s) + h
    BY <1>1, <1>3
  <2> HIDE DEF h
  <2>2. /\ Before(t, h) \in Int /\ Before(t, h) >= 0 /\ Before(t, h) + Units <= Len(t)
        /\ \A i \in 1 .. Units : t[Before(t, h) + i] = <<t[h][1], i>>
    BY <2>1, PartAt DEF Whole
  <2>3. Before(r, j) = Len(s) + Before(t, h)
    <3>1. t[h][2] \in Int
      BY <2>1, PartAt, Parameters
    <3>2. Before(r, j) = j - t[h][2] /\ Before(t, h) = h - t[h][2] /\ Len(s) \in Int /\ h \in Int
      BY <2>1 DEF Before
    <3> QED
      BY ONLY <2>1, <3>1, <3>2
  <2>4. \A i \in 1 .. Units : Before(t, h) + i \in 1 .. Len(t) /\ Before(r, j) + i = Len(s) + (Before(t, h) + i)
    <3>1. Len(t) \in Nat /\ Len(s) \in Int /\ Before(t, h) \in Int
      BY <2>2
    <3>2. \A i \in 1 .. Units : Before(t, h) + i \in 1 .. Len(t)
      BY <2>2, <3>1, Within, Zenon
    <3>3. \A i \in Int : Before(r, j) + i = Len(s) + (Before(t, h) + i)
      BY ONLY <2>3, <3>1
    <3> QED
      BY ONLY <3>2, <3>3, Parameters
  <2>5. \A i \in 1 .. Units : r[Before(r, j) + i] = t[Before(t, h) + i]
    BY <2>4, <1>1
  <2>6. Before(r, j) >= 0 /\ Before(r, j) + Units <= Len(r)
    <3>1. Units \in Nat /\ Len(t) \in Nat /\ Len(s) \in Nat /\ Len(r) = Len(s) + Len(t)
      BY <1>1, Parameters
    <3>2. Before(t, h) \in Int /\ Before(t, h) >= 0 /\ Before(t, h) + Units <= Len(t)
      BY <2>2
    <3> QED
      BY ONLY <2>3, <3>1, <3>2
  <2> QED
    BY <2>1, <2>2, <2>5, <2>6
<1>4. \A j \in 1 .. Len(r) : j <= Len(s) \/ j > Len(s)
  BY <1>1
<1> QED
  BY <1>2, <1>3, <1>4 DEF Whole, r

(* A list of whole messages that is cut between two of them.               *)
LEMMA WholeCut ==
  ASSUME NEW s \in Seq(Part), Whole(s), NEW n \in 0 .. Len(s), n < Len(s) => s[n + 1][2] = 1
  PROVE  Whole(SubSeq(s, 1, n)) /\ Whole(SubSeq(s, n + 1, Len(s)))
<1> DEFINE a == SubSeq(s, 1, n) c == SubSeq(s, n + 1, Len(s))
<1>1. /\ a \in Seq(Part) /\ c \in Seq(Part)
      /\ Len(a) = n /\ Len(c) = Len(s) - n /\ Len(s) \in Nat /\ n \in Nat /\ n <= Len(s)
      /\ \A j \in 1 .. n : a[j] = s[j]
      /\ \A j \in 1 .. Len(c) : c[j] = s[n + j]
  BY Cut
<1> HIDE DEF a, c
<1>2. ASSUME NEW j \in 1 .. Len(s)
      PROVE  /\ Before(s, j) \in Int /\ Before(s, j) < j /\ j <= Before(s, j) + Units
             /\ Before(s, j) >= 0 /\ Before(s, j) + Units <= Len(s)
             /\ \A i \in 1 .. Units : s[Before(s, j) + i] = <<s[j][1], i>>
  BY <1>2, PartAt DEF Whole
<1>3. ASSUME NEW j \in 1 .. Len(s), NEW i \in 2 .. Units, Before(s, j) + i = n + 1
      PROVE  FALSE
  <2>1. i \in 1 .. Units /\ i # 1 /\ i \in Int
    BY Parameters
  <2>2. s[n + 1] = <<s[j][1], i>>
    BY <1>2, <1>3, <2>1
  <2>3. Before(s, j) \in Int /\ Before(s, j) + Units <= Len(s)
    BY <1>2
  <2>4. n + 1 <= Len(s)
    BY <2>3, <1>1, <1>3, Parameters
  <2>5. n < Len(s)
    BY <2>4, <1>1
  <2> QED
    BY <2>1, <2>2, <2>5
<1>4. ASSUME NEW j \in 1 .. Len(s)
      PROVE  (j <= n /\ Before(s, j) + Units <= n) \/ (j > n /\ Before(s, j) >= n)
  <2> DEFINE q == Before(s, j)
  <2>1. q \in Int /\ q < j /\ j <= q + Units /\ j \in Int
    BY <1>2
  <2>2. ~(q < n /\ q + Units > n)
    <3> SUFFICES ASSUME q < n, q + Units > n PROVE FALSE
      OBVIOUS
    <3> HIDE DEF q
    <3>1. (n + 1) - q \in 2 .. Units /\ q + ((n + 1) - q) = n + 1
      BY <2>1, <1>1, Parameters
    <3> QED
      BY <1>3, <3>1 DEF q
  <2> HIDE DEF q
  <2>3. Units \in Int /\ n \in Int
    BY <1>1, Parameters
  <2>4. CASE q < n
    <3>1. q + Units <= n
      BY <2>1, <2>2, <2>3, <2>4
    <3>2. j <= n
      BY <2>1, <2>3, <3>1
    <3> QED
      BY <3>1, <3>2 DEF q
  <2>5. CASE q >= n
    BY <2>1, <2>3, <2>5 DEF q
  <2> QED
    BY <2>1, <2>3, <2>4, <2>5
<1>5. Whole(a)
  <2> SUFFICES ASSUME NEW j \in 1 .. n
               PROVE  /\ Before(a, j) >= 0 /\ Before(a, j) + Units <= n
                      /\ \A i \in 1 .. Units : a[Before(a, j) + i] = <<a[j][1], i>>
    BY <1>1 DEF Whole
  <2>1. j \in 1 .. Len(s) /\ a[j] = s[j] /\ Before(a, j) = Before(s, j)
    BY <1>1 DEF Before
  <2>2. Before(s, j) \in Int /\ Before(s, j) >= 0 /\ Before(s, j) + Units <= n
    BY <2>1, <1>1, <1>2, <1>4, Parameters
  <2>3. \A i \in 1 .. Units : Before(s, j) + i \in 1 .. n
    BY <2>2, <1>1, Within, Zenon
  <2>4. \A i \in 1 .. Units : a[Before(s, j) + i] = s[Before(s, j) + i]
    BY <1>1, <2>3, Zenon
  <2>5. \A i \in 1 .. Units : s[Before(s, j) + i] = <<s[j][1], i>>
    BY <1>2, <2>1, Zenon
  <2>6. Before(a, j) >= 0 /\ Before(a, j) + Units <= n
    BY ONLY <2>1, <2>2
  <2> QED
    BY <2>1, <2>4, <2>5, <2>6, Zenon
<1>6. Whole(c)
  <2> SUFFICES ASSUME NEW h \in 1 .. Len(c)
               PROVE  /\ Before(c, h) >= 0 /\ Before(c, h) + Units <= Len(c)
                      /\ \A i \in 1 .. Units : c[Before(c, h) + i] = <<c[h][1], i>>
    BY DEF Whole
  <2> DEFINE j == n + h
  <2>1. j \in 1 .. Len(s) /\ j > n /\ c[h] = s[j] /\ j = n + h /\ h = j - n
    BY <1>1
  <2> HIDE DEF j
  <2>2. Before(s, j) = n + Before(c, h) /\ Before(c, h) \in Int
    <3>1. c[h][2] \in Int /\ s[j][2] = c[h][2]
      BY <2>1, <1>1, PartAt, Parameters
    <3> QED
      BY <2>1, <3>1, <1>1 DEF Before
  <2>3. Before(c, h) >= 0 /\ Before(c, h) + Units <= Len(c)
    <3>1. Before(s, j) >= n /\ Before(s, j) + Units <= Len(s)
      BY <2>1, <1>1, <1>2, <1>4
    <3> QED
      <4>1. Units \in Nat /\ n \in Nat /\ Len(s) \in Nat /\ Len(c) = Len(s) - n
        BY <1>1, Parameters
      <4> QED
        BY ONLY <2>2, <3>1, <4>1
  <2>4. \A i \in 1 .. Units : Before(c, h) + i \in 1 .. Len(c) /\ n + (Before(c, h) + i) = Before(s, j) + i
    <3>1. Len(c) \in Nat /\ n \in Int /\ Before(c, h) \in Int
      BY <1>1, <2>2
    <3>2. \A i \in 1 .. Units : Before(c, h) + i \in 1 .. Len(c)
      BY <2>3, <3>1, Within, Zenon
    <3>3. \A i \in Int : n + (Before(c, h) + i) = Before(s, j) + i
      BY ONLY <2>2, <3>1
    <3> QED
      BY ONLY <3>2, <3>3, Parameters
  <2>5. \A i \in 1 .. Units : c[Before(c, h) + i] = s[Before(s, j) + i]
    BY <1>1, <2>4
  <2> QED
    BY <1>2, <2>1, <2>3, <2>5
<1> QED
  BY <1>5, <1>6 DEF a, c

(* Behind the last part of a message begins another.                       *)
LEMMA NextBegins ==
  ASSUME NEW s \in Seq(Part), Whole(s), NEW j \in 1 .. Len(s), s[j][2] = Units, j < Len(s)
  PROVE  s[j + 1][2] = 1
<1>1. j + 1 \in 1 .. Len(s) /\ Len(s) \in Nat /\ j \in Int
  OBVIOUS
<1> DEFINE q == Before(s, j + 1)
<1>2. /\ q \in Int /\ q < j + 1 /\ j + 1 <= q + Units /\ q >= 0
      /\ \A i \in 1 .. Units : s[q + i] = <<s[j + 1][1], i>>
  BY <1>1, PartAt DEF Whole
<1>3. s[j + 1][2] = (j + 1) - q
  <2> DEFINE p == s[j + 1][2]
  <2>1. p \in Int /\ q = (j + 1) - p
    <3>1. p \in 1 .. Units
      BY <1>1, PartAt
    <3>2. q = (j + 1) - p
      BY DEF Before
    <3> QED
      BY ONLY <3>1, <3>2, Parameters
  <2> HIDE DEF p, q
  <2>2. p = (j + 1) - q
    BY <1>1, <2>1
  <2> QED
    BY <2>2 DEF p
<1> HIDE DEF q
<1>4. q = j
  <2> SUFFICES ASSUME q < j PROVE FALSE
    BY <1>1, <1>2
  <2>1. j - q \in 1 .. Units /\ j - q # Units /\ q + (j - q) = j
    BY <1>1, <1>2, Parameters
  <2>2. s[j] = <<s[j + 1][1], j - q>>
    BY <1>2, <2>1
  <2> QED
    BY <2>1, <2>2
<1> QED
  BY <1>1, <1>3, <1>4

(* Joining lists is associative (an instance of the library's fact).       *)
LEMMA Associative ==
  ASSUME NEW s \in Seq(Part), NEW t \in Seq(Part), NEW u \in Seq(Part)
  PROVE  (s \o t) \o u = s \o (t \o u)
  BY ConcatAssociative

(* The first k parts of two lists.                                         *)
LEMMA TakenFirst ==
  ASSUME NEW H \in Seq(Part), NEW L \in Seq(Part), NEW k \in 0 .. Len(H)
  PROVE  SubSeq(H \o L, 1, k) = SubSeq(H, 1, k)
<1>1. /\ SubSeq(H, 1, k) \in Seq(Part) /\ Len(SubSeq(H, 1, k)) = k /\ \A j \in 1 .. k : SubSeq(H, 1, k)[j] = H[j]
  BY Cut
<1>2. H \o L \in Seq(Part) /\ Len(H \o L) = Len(H) + Len(L) /\ \A j \in 1 .. Len(H) : (H \o L)[j] = H[j]
  BY Joined
<1>3. k \in 0 .. Len(H \o L)
  BY <1>2
<1>4. /\ SubSeq(H \o L, 1, k) \in Seq(Part) /\ Len(SubSeq(H \o L, 1, k)) = k
      /\ \A j \in 1 .. k : SubSeq(H \o L, 1, k)[j] = (H \o L)[j]
  BY <1>2, <1>3, Cut
<1>5. \A j \in 1 .. k : j \in 1 .. Len(H)
  OBVIOUS
<1> QED
  BY <1>1, <1>2, <1>4, <1>5, SeqEqual

(* The first parts of two lists that reach into the second.                *)
LEMMA TakenMore ==
  ASSUME NEW H \in Seq(Part), NEW L \in Seq(Part), NEW p \in 0 .. Len(L)
  PROVE  SubSeq(H \o L, 1, Len(H) + p) = H \o SubSeq(L, 1, p)
<1> DEFINE U == H \o L b == SubSeq(L, 1, p) k == Len(H) + p
<1>1. b \in Seq(Part) /\ Len(b) = p /\ \A j \in 1 .. p : b[j] = L[j]
  BY Cut
<1>2. /\ U \in Seq(Part) /\ Len(U) = Len(H) + Len(L) /\ Len(H) \in Nat /\ Len(L) \in Nat /\ p \in Nat
      /\ \A j \in 1 .. Len(H) : U[j] = H[j]
      /\ \A j \in 1 .. Len(U) : j > Len(H) => j - Len(H) \in 1 .. Len(L) /\ U[j] = L[j - Len(H)]
  BY Joined
<1>3. k \in 0 .. Len(U)
  BY <1>2
<1>4. /\ SubSeq(U, 1, k) \in Seq(Part) /\ Len(SubSeq(U, 1, k)) = k
      /\ \A j \in 1 .. k : SubSeq(U, 1, k)[j] = U[j]
  BY <1>2, <1>3, Cut
<1>5. /\ H \o b \in Seq(Part) /\ Len(H \o b) = k
      /\ \A j \in 1 .. Len(H) : (H \o b)[j] = H[j]
      /\ \A j \in 1 .. k : j > Len(H) => j - Len(H) \in 1 .. p /\ (H \o b)[j] = b[j - Len(H)]
  BY <1>1, Joined
<1> HIDE DEF U, b
<1>6. \A j \in 1 .. k : (H \o b)[j] = U[j]
  BY <1>1, <1>2, <1>5
<1>7. SubSeq(U, 1, k) = H \o b
  BY <1>4, <1>5, <1>6, SeqEqual
<1> QED
  BY <1>7 DEF U, b

(* The first p of the list L are written: what is left of the message that *)
(* was begun ends where another begins.                                    *)
LEMMA Raised ==
  ASSUME NEW L \in Seq(Part), Whole(L), NEW p \in 0 .. Len(L) - 1, NEW r \in Int,
         r = IF L[p + 1][2] > 1 THEN p + ((Units - L[p + 1][2]) + 1) ELSE p
  PROVE  r \in p .. Len(L) /\ Whole(SubSeq(L, 1, r)) /\ Whole(SubSeq(L, r + 1, Len(L)))
<1> DEFINE i == L[p + 1][2] q == Before(L, p + 1)
<1>1. p + 1 \in 1 .. Len(L) /\ Len(L) \in Nat /\ p \in Nat /\ Units \in Nat /\ Units > 0
  BY Parameters
<1>2. i \in 1 .. Units /\ q \in Int /\ q = (p + 1) - i
  BY <1>1, PartAt DEF Before
<1>3. q >= 0 /\ q + Units <= Len(L) /\ \A h \in 1 .. Units : L[q + h] = <<L[p + 1][1], h>>
  BY <1>1 DEF Whole
<1>4. L[q + Units][2] = Units
  <2>1. Units \in 1 .. Units
    BY <1>1
  <2> QED
    BY <1>3, <2>1
<1>5. r = IF i > 1 THEN p + ((Units - i) + 1) ELSE p
  OBVIOUS
<1> HIDE DEF i, q
<1>6. r \in p .. Len(L) /\ (r < Len(L) => L[r + 1][2] = 1)
  <2>1. CASE i = 1
    <3>1. r = p
      BY <1>5, <2>1
    <3> QED
      BY <1>1, <2>1, <3>1 DEF i
  <2>2. CASE i > 1
    <3>1. r = q + Units
      BY <1>1, <1>2, <1>5, <2>2
    <3>2. r \in p .. Len(L) /\ r \in 1 .. Len(L)
      <4>1. Units \in Nat \ {0} /\ Len(L) \in Nat
        BY Parameters
      <4> QED
        BY ONLY <1>1, <1>2, <1>3, <3>1, <4>1
    <3> QED
      BY <1>1, <1>4, <3>1, <3>2, NextBegins
  <2> QED
    BY <1>2, <2>1, <2>2
<1>7. r \in 0 .. Len(L)
  <2>1. r \in p .. Len(L)
    BY <1>6
  <2> QED
    BY ONLY <1>1, <2>1
<1> QED
  BY <1>6, <1>7, WholeCut

(* What is left of a list can be cut again.                                *)
LEMMA CutTwice ==
  ASSUME NEW L \in Seq(Part), NEW p \in 0 .. Len(L), NEW n \in 0 .. Len(L) - p
  PROVE  LET c == SubSeq(L, p + 1, Len(L)) IN
         /\ c \in Seq(Part) /\ Len(c) = Len(L) - p
         /\ SubSeq(L, 1, p) \o SubSeq(c, 1, n) = SubSeq(L, 1, p + n)
         /\ SubSeq(c, n + 1, Len(c)) = SubSeq(L, (p + n) + 1, Len(L))
<1> DEFINE c == SubSeq(L, p + 1, Len(L)) b == SubSeq(L, 1, p) c1 == SubSeq(c, 1, n) c2 == SubSeq(c, n + 1, Len(c))
           d1 == SubSeq(L, 1, p + n) d2 == SubSeq(L, (p + n) + 1, Len(L))
<1>1. /\ b \in Seq(Part) /\ c \in Seq(Part) /\ Len(b) = p /\ Len(c) = Len(L) - p
      /\ \A j \in 1 .. p : b[j] = L[j]
      /\ \A j \in 1 .. Len(c) : c[j] = L[p + j]
      /\ p \in Nat /\ n \in Nat /\ Len(L) \in Nat /\ p + n <= Len(L)
  BY Cut
<1>2. p + n \in 0 .. Len(L) /\ n \in 0 .. Len(c)
  BY <1>1
<1>3. /\ d1 \in Seq(Part) /\ d2 \in Seq(Part) /\ Len(d1) = p + n /\ Len(d2) = Len(L) - (p + n)
      /\ \A j \in 1 .. p + n : d1[j] = L[j]
      /\ \A j \in 1 .. Len(d2) : d2[j] = L[(p + n) + j]
  BY <1>2, Cut
<1> HIDE DEF b, c, d1, d2
<1>4. /\ c1 \in Seq(Part) /\ c2 \in Seq(Part) /\ Len(c1) = n /\ Len(c2) = Len(c) - n
      /\ \A j \in 1 .. n : c1[j] = c[j]
      /\ \A j \in 1 .. Len(c2) : c2[j] = c[n + j]
  BY <1>1, <1>2, Cut
<1> HIDE DEF c1, c2
<1>5. /\ b \o c1 \in Seq(Part) /\ Len(b \o c1) = p + n
      /\ \A j \in 1 .. p : (b \o c1)[j] = b[j]
      /\ \A j \in 1 .. n : (b \o c1)[p + j] = c1[j]
  <2>1. /\ b \o c1 \in Seq(Part) /\ Len(b \o c1) = Len(b) + Len(c1)
        /\ \A j \in 1 .. Len(b) : (b \o c1)[j] = b[j]
        /\ \A j \in 1 .. Len(c1) : (b \o c1)[Len(b) + j] = c1[j]
    BY <1>1, <1>4, Joined
  <2> QED
    BY <1>1, <1>4, <2>1
<1>6. b \o c1 = d1
  <2>1. ASSUME NEW j \in 1 .. p + n
        PROVE  (b \o c1)[j] = d1[j]
    <3>1. CASE j \in 1 .. p
      BY <1>1, <1>3, <1>5, <3>1
    <3>2. CASE j - p \in 1 .. n
      <4>1. p + (j - p) = j /\ j - p \in 1 .. Len(c)
        BY <1>1, <1>2, <3>2
      <4>2. (b \o c1)[p + (j - p)] = c[j - p] /\ c[j - p] = L[p + (j - p)]
        BY <1>1, <1>4, <1>5, <3>2, <4>1
      <4> QED
        BY <1>3, <4>1, <4>2
    <3>3. j \in 1 .. p \/ j - p \in 1 .. n
      BY <1>1
    <3> QED
      BY <3>1, <3>2, <3>3
  <2> QED
    BY <1>3, <1>5, <2>1, SeqEqual
<1>7. c2 = d2
  <2>1. ASSUME NEW j \in 1 .. Len(d2)
        PROVE  c2[j] = d2[j]
    <3>1. j \in 1 .. Len(c2) /\ n + j \in 1 .. Len(c) /\ p + (n + j) = (p + n) + j
      <4>1. /\ Len(d2) = Len(L) - (p + n) /\ Len(c) = Len(L) - p /\ Len(c2) = Len(c) - n
            /\ p \in Nat /\ n \in Nat /\ Len(L) \in Nat
        BY <1>1, <1>3, <1>4
      <4> QED
        BY ONLY <4>1, j \in 1 .. Len(d2)
    <3>2. c2[j] = c[n + j]
      BY <1>4, <3>1
    <3>3. c[n + j] = L[p + (n + j)]
      BY <1>1, <3>1
    <3>4. d2[j] = L[(p + n) + j]
      BY <1>3
    <3> QED
      BY <3>1, <3>2, <3>3, <3>4
  <2>2. Len(c2) = Len(d2)
    BY <1>1, <1>3, <1>4
  <2> QED
    BY <1>3, <1>4, <2>1, <2>2, SeqEqual
<1> QED
  BY <1>1, <1>6, <1>7 DEF b, c, c1, c2, d1, d2

(* What send_list_tcp leaves of the lists is what was not written; both    *)
(* lists begin with a whole message again, when the rest of a message of   *)
(* the low list was raised.                                                *)
LEMMA WrittenKeeps ==
  ASSUME Fields, slot.dw \in Seq(Part), slot.high \in Seq(Part), slot.low \in Seq(Part),
         NEW w \in Seq(Part), Whole(w \o High), Whole(slot.low),
         NEW k \in 1 .. Len(Unsent) - 1
  PROVE  LET s == Written(k) v == w \o SubSeq(Unsent, 1, k) IN
         /\ v \in Seq(Part) /\ s.dw = <<>> /\ s.high \in Seq(Part) /\ s.low \in Seq(Part)
         /\ (v \o s.high) \o s.low = (w \o High) \o slot.low
         /\ Whole(v \o s.high) /\ Whole(s.low)
         /\ \A j \in 1 .. Len(s.low) : \E i \in 1 .. Len(slot.low) : s.low[j] = slot.low[i]
<1> DEFINE H == High L == slot.low n == Len(H)
<1>1. H \in Seq(Part) /\ L \in Seq(Part) /\ Unsent = H \o L
  BY DEF High, Unsent
<1>2. Whole(w \o H) /\ Whole(L)
  OBVIOUS
<1> HIDE DEF H, L
<1>3. n \in Nat /\ Len(L) \in Nat /\ k \in 1 .. (n + Len(L)) - 1
  <2>1. Len(Unsent) = n + Len(L)
    BY <1>1, Joined
  <2> QED
    BY <1>1, <2>1
<1>4. CASE k < n
  <2> DEFINE a == SubSeq(H, 1, k) c == SubSeq(H, k + 1, n)
  <2>1. k \in 0 .. Len(H)
    BY <1>3, <1>4
  <2>2. a \in Seq(Part) /\ c \in Seq(Part) /\ a \o c = H
    BY <1>1, <2>1, Cut
  <2>3. SubSeq(Unsent, 1, k) = a
    BY <1>1, <2>1, TakenFirst
  <2>4. Written(k).dw = <<>> /\ Written(k).high = c /\ Written(k).low = L
    BY <1>4 DEF Written, Fields, H, L
  <2> HIDE DEF a, c
  <2>5. w \o a \in Seq(Part) /\ (w \o a) \o c = w \o H
    <3>1. (w \o a) \o c = w \o (a \o c)
      BY <2>2, Associative, Zenon
    <3> QED
      BY <2>2, <3>1
  <2>6. \A j \in 1 .. Len(L) : \E i \in 1 .. Len(L) : L[j] = L[i]
    OBVIOUS
  <2> QED
    BY <1>1, <1>2, <2>2, <2>3, <2>4, <2>5, <2>6 DEF H, L
<1>5. CASE k >= n
  <2> DEFINE p == k - n
             low == SubSeq(L, p + 1, Len(L))
             started == IF low # <<>> /\ Head(low)[2] > 1 THEN (Units - Head(low)[2]) + 1 ELSE 0
             r == p + started
             a == SubSeq(L, 1, p) c1 == SubSeq(low, 1, started) c2 == SubSeq(low, started + 1, Len(low))
             d1 == SubSeq(L, 1, r) d2 == SubSeq(L, r + 1, Len(L))
  <2>1. p \in 0 .. Len(L) /\ p \in 0 .. Len(L) - 1 /\ p \in Nat /\ p + 1 \in 1 .. Len(L) /\ k = n + p
    BY <1>3, <1>5
  <2>2. Written(k).dw = <<>> /\ Written(k).high = c1 /\ Written(k).low = c2
    <3>1. SubSeq(slot.low, (k - Len(High)) + 1, Len(slot.low)) = low
      BY DEF H, L
    <3>2. ~(k < Len(High))
      BY <1>3, <1>5 DEF H
    <3> HIDE DEF low
    <3> QED
      BY <3>1, <3>2 DEF Written, Fields
  <2> HIDE DEF p
  <2>3. /\ a \in Seq(Part) /\ low \in Seq(Part) /\ Len(low) = Len(L) - p /\ Len(a) = p
        /\ \A j \in 1 .. Len(low) : low[j] = L[p + j]
        /\ a \o low = L
    BY <1>1, <2>1, Cut
  <2> HIDE DEF low, a
  <2>4. low # <<>> /\ Head(low) = L[p + 1] /\ L[p + 1][2] \in 1 .. Units
    <3>1. Len(low) > 0 /\ 1 \in 1 .. Len(low)
      BY <1>3, <2>1, <2>3
    <3>2. low # <<>> /\ Head(low) = low[1]
      BY <2>3, <3>1
    <3>3. low[1] = L[p + 1]
      BY <2>3, <3>1
    <3> QED
      BY <1>1, <2>1, <3>2, <3>3, PartAt
  <2>5. started \in Nat /\ r = IF L[p + 1][2] > 1 THEN p + ((Units - L[p + 1][2]) + 1) ELSE p
    <3> DEFINE i == L[p + 1][2]
    <3>1. i \in 1 .. Units /\ started = IF i > 1 THEN (Units - i) + 1 ELSE 0
      BY <2>4
    <3> HIDE DEF i, started
    <3>2. started \in Nat /\ r = IF i > 1 THEN p + ((Units - i) + 1) ELSE p
      BY <2>1, <3>1, Parameters
    <3> QED
      BY <3>2 DEF i
  <2> HIDE DEF started
  <2>6. r \in p .. Len(L) /\ Whole(d1) /\ Whole(d2)
    <3>1. r \in Int
      BY <2>1, <2>5
    <3> QED
      BY <1>1, <1>2, <2>1, <2>5, <3>1, Raised
  <2>7. started \in 0 .. Len(L) - p /\ r \in 0 .. Len(L)
    BY <1>3, <2>1, <2>5, <2>6
  <2>8. a \o c1 = d1 /\ c2 = d2
    BY <1>1, <2>1, <2>7, CutTwice DEF a, low
  <2>9. c1 \in Seq(Part) /\ d1 \in Seq(Part) /\ d2 \in Seq(Part) /\ d1 \o d2 = L
        /\ Len(d2) = Len(L) - r /\ \A j \in 1 .. Len(d2) : d2[j] = L[r + j]
    <3>1. started \in 0 .. Len(low)
      BY <2>3, <2>7
    <3>2. c1 \in Seq(Part)
      BY <2>3, <3>1, Cut
    <3> QED
      BY <1>1, <2>7, <3>2, Cut
  <2>10. SubSeq(Unsent, 1, k) = H \o a
    BY <1>1, <2>1, TakenMore DEF a
  <2> HIDE DEF c1, c2, d1, d2, r
  <2>11. /\ w \o (H \o a) \in Seq(Part)
         /\ (w \o (H \o a)) \o c1 = (w \o H) \o d1
         /\ ((w \o H) \o d1) \o d2 = (w \o H) \o L
    <3>1. w \o H \in Seq(Part) /\ H \o a \in Seq(Part)
      BY <1>1, <2>3
    <3>0. w \in Seq(Part) /\ H \in Seq(Part) /\ a \in Seq(Part) /\ c1 \in Seq(Part) /\ d1 \in Seq(Part) /\ d2 \in Seq(Part)
      BY <1>1, <2>3, <2>9
    <3>2. w \o (H \o a) = (w \o H) \o a
      BY ONLY <3>0, Associative, Zenon
    <3> DEFINE x == w \o H
    <3>3. x \in Seq(Part)
      BY <3>1
    <3> HIDE DEF x
    <3>4. (x \o a) \o c1 = x \o (a \o c1)
      BY ONLY <3>0, <3>3, Associative, Zenon
    <3>7. d1 \in Seq(Part) /\ d2 \in Seq(Part)
      BY <2>9
    <3>6. (x \o d1) \o d2 = x \o (d1 \o d2)
      BY ONLY <3>7, <3>3, Associative, Zenon
    <3>5. w \o (H \o a) \in Seq(Part)
      BY <3>1
    <3> QED
      BY <2>8, <2>9, <3>2, <3>4, <3>5, <3>6 DEF x
  <2>12. Whole((w \o H) \o d1)
    <3>1. w \o H \in Seq(Part)
      BY <1>1
    <3> QED
      BY <1>2, <2>6, <2>9, <3>1, WholeJoined
  <2>13. \A j \in 1 .. Len(c2) : \E i \in 1 .. Len(L) : c2[j] = L[i]
    <3>1. ASSUME NEW j \in 1 .. Len(d2) PROVE r + j \in 1 .. Len(L)
      <4>1. Len(L) \in Nat /\ r \in 0 .. Len(L) /\ Len(d2) = Len(L) - r
        BY <1>1, <2>7, <2>9
      <4> QED
        BY ONLY <4>1, j \in 1 .. Len(d2)
    <3> QED
      BY <2>8, <2>9, <3>1
  <2> QED
    BY <2>2, <2>6, <2>8, <2>9, <2>10, <2>11, <2>12, <2>13 DEF H, L
<1>6. k < n \/ k >= n
  BY <1>3
<1> QED
  BY <1>4, <1>5, <1>6

(* A list of whole messages has none that lacks its beginning or breaks    *)
(* off for another.                                                        *)
LEMMA WholeBegun ==
  ASSUME NEW s \in Seq(Part), Whole(s)
  PROVE  Begun(s) /\ Unbroken(s)
<1>1. ASSUME NEW j \in 1 .. Len(s)
      PROVE  /\ Before(s, j) >= 0 /\ Before(s, j) \in Int /\ Before(s, j) + Units <= Len(s) /\ j <= Before(s, j) + Units
             /\ \A i \in 1 .. Units : s[Before(s, j) + i] = <<s[j][1], i>>
  BY <1>1, PartAt DEF Whole
<1>2. ASSUME NEW j \in 1 .. Len(s), NEW i \in 1 .. j - Before(s, j) PROVE i \in 1 .. Units
  BY <1>1, Parameters
<1>3. Begun(s)
  BY <1>1, <1>2 DEF Begun
<1>4. Unbroken(s)
  BY <1>1 DEF Unbroken
<1> QED
  BY <1>3, <1>4

(* The beginning of a list of messages that are begun and unbroken.        *)
LEMMA BegunFirst ==
  ASSUME NEW a \in Seq(Part), NEW b \in Seq(Part)
  PROVE  /\ Begun(a \o b) => Begun(a)
         /\ Unbroken(a \o b) => Unbroken(a)
<1> DEFINE r == a \o b
<1>1. /\ r \in Seq(Part) /\ Len(r) = Len(a) + Len(b) /\ Len(a) \in Nat /\ Len(b) \in Nat
      /\ \A j \in 1 .. Len(a) : r[j] = a[j]
  BY Joined
<1> HIDE DEF r
<1>2. ASSUME NEW j \in 1 .. Len(a)
      PROVE  j \in 1 .. Len(r) /\ r[j] = a[j] /\ Before(r, j) = Before(a, j) /\ Before(a, j) \in Int
  BY <1>1, PartAt DEF Before
<1>3. ASSUME Begun(r) PROVE Begun(a)
  <2> SUFFICES ASSUME NEW j \in 1 .. Len(a)
               PROVE  /\ Before(a, j) >= 0
                      /\ \A i \in 1 .. j - Before(a, j) : a[Before(a, j) + i] = <<a[j][1], i>>
    BY DEF Begun
  <2>1. /\ Before(a, j) >= 0
        /\ \A i \in 1 .. j - Before(a, j) : r[Before(a, j) + i] = <<a[j][1], i>>
    BY <1>2, <1>3 DEF Begun
  <2> DEFINE q == Before(a, j)
  <2>3. q \in Int /\ q >= 0 /\ j \in Int /\ j <= Len(a)
    BY <1>1, <1>2, <2>1
  <2> HIDE DEF q
  <2>4. \A i \in 1 .. j - q : q + i \in 1 .. Len(a)
    BY <1>1, <2>3
  <2>2. \A i \in 1 .. j - Before(a, j) : Before(a, j) + i \in 1 .. Len(a)
    BY <2>4 DEF q
  <2> QED
    BY <1>1, <2>1, <2>2
<1>4. ASSUME Unbroken(r) PROVE Unbroken(a)
  <2> SUFFICES ASSUME NEW j \in 1 .. Len(a), NEW i \in 1 .. Units, Before(a, j) + i \in 1 .. Len(a)
               PROVE  a[Before(a, j) + i] = <<a[j][1], i>>
    BY DEF Unbroken
  <2>1. Before(a, j) + i \in 1 .. Len(r)
    BY <1>1
  <2>2. r[Before(a, j) + i] = <<a[j][1], i>>
    BY <1>2, <1>4, <2>1 DEF Unbroken
  <2> QED
    BY <1>1, <2>2
<1> QED
  BY <1>3, <1>4 DEF r

(* Messages that are begun behind others that are begun.                   *)
LEMMA BegunJoined ==
  ASSUME NEW a \in Seq(Part), NEW b \in Seq(Part), Begun(a), Begun(b)
  PROVE  Begun(a \o b)
<1> DEFINE r == a \o b
<1>1. /\ r \in Seq(Part) /\ Len(r) = Len(a) + Len(b) /\ Len(a) \in Nat /\ Len(b) \in Nat
      /\ \A j \in 1 .. Len(a) : r[j] = a[j]
      /\ \A j \in 1 .. Len(b) : r[Len(a) + j] = b[j]
      /\ \A j \in 1 .. Len(r) : j > Len(a) => j - Len(a) \in 1 .. Len(b) /\ r[j] = b[j - Len(a)]
  BY Joined
<1> HIDE DEF r
<1> SUFFICES ASSUME NEW j \in 1 .. Len(r)
             PROVE  /\ Before(r, j) >= 0
                    /\ \A i \in 1 .. j - Before(r, j) : r[Before(r, j) + i] = <<r[j][1], i>>
  BY DEF Begun, r
<1>2. CASE j <= Len(a)
  <2>1. j \in 1 .. Len(a) /\ r[j] = a[j] /\ Before(r, j) = Before(a, j) /\ Before(a, j) \in Int
    <3>1. j \in 1 .. Len(a)
      BY <1>1, <1>2
    <3> QED
      BY <1>1, <3>1, PartAt DEF Before
  <2>2. /\ Before(a, j) >= 0
        /\ \A i \in 1 .. j - Before(a, j) : a[Before(a, j) + i] = <<a[j][1], i>>
    BY <2>1 DEF Begun
  <2> DEFINE q == Before(a, j)
  <2>4. q \in Int /\ q >= 0 /\ j \in Int /\ j <= Len(a)
    BY <1>1, <2>1, <2>2
  <2> HIDE DEF q
  <2>5. \A i \in 1 .. j - q : q + i \in 1 .. Len(a)
    <3>1. Len(a) \in Nat
      OBVIOUS
    <3> QED
      BY ONLY <2>4, <3>1
  <2>3. \A i \in 1 .. j - Before(a, j) : Before(a, j) + i \in 1 .. Len(a)
    BY <2>5 DEF q
  <2> QED
    BY <1>1, <2>1, <2>2, <2>3
<1>3. CASE j > Len(a)
  <2> DEFINE h == j - Len(a)
  <2>1. h \in 1 .. Len(b) /\ r[j] = b[h] /\ j = Len(a) + h
    BY <1>1, <1>3
  <2> HIDE DEF h
  <2>2. Before(b, h) \in Int /\ Before(r, j) = Len(a) + Before(b, h)
    <3> DEFINE p == b[h][2]
    <3>1. p \in Int /\ Before(b, h) = h - p /\ Before(r, j) = j - p /\ h \in Int
      BY <2>1, PartAt, Parameters DEF Before
    <3> HIDE DEF p
    <3> QED
      BY <2>1, <3>1, <1>1
  <2>3. /\ Before(b, h) >= 0
        /\ \A i \in 1 .. h - Before(b, h) : b[Before(b, h) + i] = <<b[h][1], i>>
    BY <2>1 DEF Begun
  <2> DEFINE q == Before(b, h) o == Before(r, j)
  <2>6. q \in Int /\ q >= 0 /\ o = Len(a) + q /\ h \in Int /\ h <= Len(b) /\ j = Len(a) + h
    BY <1>1, <2>1, <2>2, <2>3
  <2>7. \A i \in 1 .. h - q : b[q + i] = <<b[h][1], i>>
    BY <2>3
  <2> HIDE DEF q, o
  <2>4. \A i \in 1 .. j - o : i \in 1 .. h - q /\ q + i \in 1 .. Len(b) /\ o + i = Len(a) + (q + i)
    BY <1>1, <2>6
  <2>5. \A i \in 1 .. j - o : r[o + i] = b[q + i]
    BY <1>1, <2>4
  <2>8. o >= 0
    BY <1>1, <2>6
  <2>9. \A i \in 1 .. j - o : r[o + i] = <<b[h][1], i>>
    BY <2>4, <2>5, <2>7
  <2> QED
    BY <2>1, <2>8, <2>9 DEF o
<1> QED
  BY <1>1, <1>2, <1>3

(* What the order says of a list says it of its beginning, and of a list   *)
(* with something put behind.                                              *)
LEMMA OrderedFirst ==
  ASSUME NEW a \in Seq(Part), NEW b \in Seq(Part), Ordered(a \o b)
  PROVE  Ordered(a)
<1>1. /\ Len(a \o b) = Len(a) + Len(b) /\ Len(a) \in Nat /\ Len(b) \in Nat
      /\ \A j \in 1 .. Len(a) : (a \o b)[j] = a[j]
  BY Joined
<1>2. 1 .. Len(a) \subseteq 1 .. Len(a \o b)
  BY <1>1
<1> QED
  BY <1>1, <1>2 DEF Ordered

(* Two ordered lists are ordered together if the second may follow the     *)
(* first.                                                                  *)
LEMMA OrderedJoined ==
  ASSUME NEW a \in Seq(Part), NEW b \in Seq(Part), Ordered(a), Ordered(b),
         \A j \in 1 .. Len(a) : \A k \in 1 .. Len(b) : Follows(a[j][1], b[k][1])
  PROVE  Ordered(a \o b)
<1> DEFINE r == a \o b
<1>1. /\ Len(r) = Len(a) + Len(b) /\ Len(a) \in Nat /\ Len(b) \in Nat
      /\ \A j \in 1 .. Len(a) : r[j] = a[j]
      /\ \A j \in 1 .. Len(r) : j > Len(a) => j - Len(a) \in 1 .. Len(b) /\ r[j] = b[j - Len(a)]
  BY Joined
<1> HIDE DEF r
<1>2. ASSUME NEW k \in 1 .. Len(r), NEW j \in 1 .. Len(r), k < j PROVE Follows(r[k][1], r[j][1])
  <2>1. CASE j <= Len(a)
    <3>1. j \in 1 .. Len(a) /\ k \in 1 .. Len(a)
      BY <1>1, <1>2, <2>1
    <3> QED
      BY <1>1, <1>2, <3>1 DEF Ordered
  <2>2. CASE k > Len(a)
    <3>1. j > Len(a) /\ k - Len(a) < j - Len(a)
      BY <1>1, <1>2, <2>2
    <3> QED
      BY <1>1, <2>2, <3>1 DEF Ordered
  <2>3. CASE k <= Len(a) /\ j > Len(a)
    <3>1. k \in 1 .. Len(a)
      BY <1>1, <2>3
    <3> QED
      BY <1>1, <2>3, <3>1
  <2> QED
    BY <1>1, <2>1, <2>2, <2>3
<1> QED
  BY <1>2 DEF Ordered, r

(* The parts of one message.                                               *)
LEMMA OneMessage ==
  ASSUME NEW m \in Nat
  PROVE  Ordered(Parts(m)) /\ \A j \in 1 .. Len(Parts(m)) : Parts(m)[j][1] = m
<1>1. Len(Parts(m)) = Units /\ \A i \in 1 .. Units : Parts(m)[i] = <<m, i>>
  BY PartsOf
<1>2. \A j \in 1 .. Len(Parts(m)) : Parts(m)[j][1] = m
  BY <1>1
<1> QED
  BY <1>2 DEF Ordered, Follows

-----------------------------------------------------------------------------
-----------------------------------------------------------------------------
(* An id that was not given out, or not yet connected; a service in the    *)
(* middle of a send; the commands that bring messages.                     *)
Fresh(c) == c > last \/ (c = last /\ slot.type = "reserve")
Unopened(c) == Fresh(c) \/ (c = last /\ slot.type = "connecting")
Busy == {"try", "locked", "count", "post"}
Sends == {"D", "P"}

(* The slot has the last id but while reserve_id writes it; a slot that is *)
(* reserved has no event, and force_close runs on a slot in use.           *)
Slots ==
  /\ slot.id = IF at[Owner] = "name" THEN last - 1 ELSE last
  /\ slot.type # "invalid" => last > 0
  /\ \A v \in Service : at[v] \in {"name", "open"} => v = Owner /\ slot.type = "reserve"
  /\ slot.type = "reserve" => event = NoEvent /\ tp # "first"
  /\ tp = "closing" => slot.type \in {"connecting"} \cup Established
  /\ tp = "first" => event # NoEvent

(* One command to open at most, for the slot that is reserved.             *)
Opens ==
  /\ \A i \in 1 .. Len(pipe) : pipe[i].op = "O" =>
       slot.type = "reserve" /\ pipe[i].id = last /\ at[Owner] \notin {"name", "open"}
  /\ \A i, j \in 1 .. Len(pipe) : pipe[i].op = "O" /\ pipe[j].op = "O" => i = j

(* Lists are empty where nothing is connected, and after force_close freed *)
(* them.                                                                   *)
Empty ==
  /\ slot.type \notin Established => slot.high = <<>> /\ slot.low = <<>> /\ slot.dw = <<>>
  /\ tp = "closing" => slot.high = <<>> /\ slot.low = <<>>

(* Nothing is told of a connection before it is made.                      *)
Untold == \A c \in Id : Unopened(c) => ~told[c].open /\ told[c].closes = 0 /\ ~told[c].err /\ wire[c] = <<>>

(* Messages and other commands go to connections that were made.           *)
Aimed ==
  /\ \A i \in 1 .. Len(pipe) : pipe[i].op # "O" => ~Unopened(pipe[i].id)
  /\ \A m \in 1 .. Len(box) : ~Unopened(box[m].to) /\ told[box[m].to].open

(* The slot counts messages for its own connection.                        *)
Linked ==
  /\ slot.type \in {"connecting"} \cup Established => slot.tcp
  /\ \A c \in Id : told[c].open /\ c = slot.id => slot.tcp
  /\ slot.tcp => slot.tag = slot.id
Quiet == Untold /\ Aimed /\ Linked

(* SOCKET_CLOSE was raised once at most, and not yet where it still can    *)
(* be.                                                                     *)
Closings ==
  /\ slot.closing /\ slot.type \notin {"invalid", "reserve"} => slot.type = "halfread"
  /\ \A c \in Id : told[c].closes <= 1 /\ ~told[c].late
  /\ slot.type \in {"connecting", "connected", "halfwrite"} => told[slot.id].closes = 0
  /\ tp = "closing" => result.what \in {"none", "err"} \/ (result.what = "close" /\ told[slot.id].closes = 0)

(* The connection is dead where the server has seen it broken.             *)
Dead ==
  /\ slot.type \in {"invalid", "reserve"} => net.st = "none"
  /\ net.err => net.st = "dead"
  /\ slot.type = "halfwrite" => net.st = "dead"
  /\ slot.type \in Established \cup {"connecting"} /\ (event.eof \/ event.error) => net.st = "dead"
  /\ net.st = "dead" => told[slot.id].died

(* Services shut a connection down when asked, or because it is dead.      *)
Feared ==
  /\ \A c \in Id : told[c].err /\ Alive(c) => net.st = "dead"
  /\ \A i \in 1 .. Len(pipe) : pipe[i].op = "K" /\ pipe[i].m = 1 /\ Alive(pipe[i].id) =>
       net.st = "dead" \/ asked[pipe[i].id].shut
Deaths == Dead /\ Feared

(* The message of a service that is sending is its last; the pipe has the  *)
(* messages of each service in order, and none that a service works on.    *)
Jobs ==
  /\ \A v \in Service : at[v] \in Busy \cup {"trigger"} =>
       /\ job[v] \in 1 .. Len(box) /\ box[job[v]].by = v
       /\ \A n \in 1 .. Len(box) : box[n].by = v => n <= job[v]
  /\ \A i \in 1 .. Len(pipe) : pipe[i].op \in Sends => pipe[i].m \in 1 .. Len(box) /\ pipe[i].id = box[pipe[i].m].to
  /\ \A i, k \in 1 .. Len(pipe) : i < k /\ pipe[i].op \in Sends /\ pipe[k].op \in Sends =>
       pipe[i].m # pipe[k].m /\ (box[pipe[i].m].by = box[pipe[k].m].by => pipe[i].m < pipe[k].m)
  /\ \A v \in Service : \A i \in 1 .. Len(pipe) : at[v] \in Busy /\ pipe[i].op \in Sends => pipe[i].m # job[v]

(* The pipe without its head.                                              *)
LEMMA Obeyed ==
  ASSUME TypeOK, pipe # <<>>, pipe' = Tail(pipe)
  PROVE  /\ 1 \in 1 .. Len(pipe) /\ Head(pipe) = pipe[1] /\ pipe[1] \in Commands /\ Len(pipe) \in Nat
         /\ Len(pipe') = Len(pipe) - 1
         /\ \A i \in 1 .. Len(pipe') : i + 1 \in 1 .. Len(pipe) /\ i + 1 # 1 /\ pipe'[i] = pipe[i + 1]
<1>1. pipe \in Seq(Commands)
  BY DEF TypeOK, Calls
<1>2. PICK p, q : p = pipe /\ q = pipe'
  OBVIOUS
<1>3. p \in Seq(Commands) /\ p # <<>> /\ q = Tail(p)
  BY <1>1, <1>2
<1>4. 1 \in 1 .. Len(p) /\ Head(p) = p[1] /\ p[1] \in Commands /\ Len(p) \in Nat
  BY ONLY <1>3
<1>5. Len(q) = Len(p) - 1
  BY ONLY <1>3
<1>6. \A i \in 1 .. Len(q) : i + 1 \in 1 .. Len(p) /\ i + 1 # 1
  BY ONLY <1>4, <1>5
<1>7. \A i \in 1 .. Len(q) : q[i] = p[i + 1]
  BY ONLY <1>3, <1>4
<1> QED
  BY <1>2, <1>4, <1>5, <1>6, <1>7

(* The pipe with one more command.                                         *)
LEMMA Requested ==
  ASSUME TypeOK, NEW c, pipe' = Append(pipe, c)
  PROVE  /\ Len(pipe') = Len(pipe) + 1 /\ Len(pipe) \in Nat
         /\ \A i \in 1 .. Len(pipe) : pipe'[i] = pipe[i]
         /\ pipe'[Len(pipe) + 1] = c
         /\ \A i \in 1 .. Len(pipe') : i \in 1 .. Len(pipe) \/ i = Len(pipe) + 1
<1>1. pipe \in Seq(Commands) /\ Len(pipe) \in Nat
  BY DEF TypeOK, Values, Queues, Calls
<1>2. Len(pipe') = Len(pipe) + 1
  BY <1>1
<1> QED
  BY <1>1, <1>2

(* What force_close leaves of the slot.                                    *)
LEMMA Lost ==
  ASSUME Fields
  PROVE  /\ Freed(slot).high = <<>> /\ Freed(slot).low = <<>> /\ DOMAIN Freed(slot) = DOMAIN slot
         /\ \A f \in DOMAIN slot : f \notin {"high", "low"} => Freed(slot)[f] = slot[f]
         /\ Closed(slot).high = <<>> /\ Closed(slot).low = <<>> /\ Closed(slot).dw = <<>>
         /\ Closed(slot).type = "invalid" /\ DOMAIN Closed(slot) = DOMAIN slot
         /\ \A f \in DOMAIN slot : f \notin {"high", "low", "dw", "type"} => Closed(slot)[f] = slot[f]
  BY DEF Fields, Freed, Closed

(* A message posted or about to be; the count of those to the connection.  *)
Held(m) ==
  \/ \E i \in 1 .. Len(pipe) : pipe[i].op \in Sends /\ pipe[i].m = m
  \/ \E v \in Service : at[v] = "post" /\ job[v] = m
Counted == {m \in 1 .. Len(box) : box[m].to = slot.id /\ Held(m)}
Sending == slot.tcp => slot.sending = Cardinality(Counted)

(* A command to a socket that is not gone finds it connected.              *)
LEMMA Opened ==
  ASSUME TypeOK, Slots, Quiet, pipe # <<>>, Head(pipe).op # "O", ~Invalid(Head(pipe).id), at[Owner] # "name"
  PROVE  slot.type \in Established /\ slot.id = last
<1>1. ~Unopened(Head(pipe).id)
  BY Obeyed DEF Quiet, Aimed
<1>2. slot.id = last /\ slot.id = Head(pipe).id /\ slot.type # "invalid"
  BY DEF Invalid, Slots
<1>3. slot.type \in Types
  BY DEF TypeOK, Values, Queues, Calls
<1> QED
  BY <1>1, <1>2, <1>3, Zenon DEF Unopened, Fresh, Types, Established

(* No opening comes into the pipe.                                         *)
LEMMA OpensStay ==
  ASSUME TypeOK, Opens, NEW c,
         pipe' = pipe \/ (pipe' = Append(pipe, c) /\ c.op # "O") \/ (pipe # <<>> /\ pipe' = Tail(pipe)),
         slot'.type = slot.type \/ slot.type # "reserve", last' = last,
         at'[Owner] = at[Owner] \/ at'[Owner] \notin {"name", "open"}
  PROVE  Opens'
<1>1. CASE pipe' = pipe
  BY <1>1 DEF Opens
<1>2. CASE pipe' = Append(pipe, c) /\ c.op # "O"
  <2>1. /\ \A i \in 1 .. Len(pipe) : pipe'[i] = pipe[i]
        /\ \A i \in 1 .. Len(pipe') : pipe'[i].op = "O" => i \in 1 .. Len(pipe)
    BY <1>2, Requested
  <2> QED
    BY <2>1 DEF Opens
<1>3. CASE pipe # <<>> /\ pipe' = Tail(pipe)
  <2>1. /\ \A i \in 1 .. Len(pipe') : i \in Int
        /\ \A i \in 1 .. Len(pipe') : i + 1 \in 1 .. Len(pipe) /\ pipe'[i] = pipe[i + 1]
    <3>1. \A i \in 1 .. Len(pipe') : i \in Int
      OBVIOUS
    <3>2. \A i \in 1 .. Len(pipe') : i + 1 \in 1 .. Len(pipe) /\ pipe'[i] = pipe[i + 1]
      BY <1>3, Obeyed, Zenon
    <3> QED
      BY <3>1, <3>2, Zenon
  <2>2. \A i \in 1 .. Len(pipe') : pipe'[i].op = "O" =>
           slot'.type = "reserve" /\ pipe'[i].id = last' /\ at'[Owner] \notin {"name", "open"}
    BY <2>1 DEF Opens
  <2>3. ASSUME NEW i \in 1 .. Len(pipe'), NEW j \in 1 .. Len(pipe'), pipe'[i].op = "O", pipe'[j].op = "O"
        PROVE  i = j
    <3>1. i + 1 = j + 1
      BY <2>1, <2>3 DEF Opens
    <3> QED
      BY <2>1, <3>1
  <2> QED
    BY <2>2, <2>3 DEF Opens
<1> QED
  BY <1>1, <1>2, <1>3

-----------------------------------------------------------------------------
(* What the steps of the socket thread come to.                            *)
Lists(h, l, d) == slot'.high = h /\ slot'.low = l /\ slot'.dw = d
Named == slot'.id = slot.id /\ slot'.tcp = slot.tcp /\ slot'.tag = slot.tag
Kept == Named /\ slot'.closing = slot.closing /\ slot'.sending = slot.sending
SameLists == Lists(slot.high, slot.low, slot.dw)

(* The event is handled: what is left of it, and where the thread goes on. *)
EventDone ==
  /\ Handling /\ tp # "closing"
  /\ event' = NoEvent \/ (event' # NoEvent /\ event'.eof = event.eof /\ event'.error = event.error /\ event.write /\ event'.read = FALSE)
  /\ UNCHANGED <<pipe, at, job, last, box, asked>>
  /\ Kept

(* Nothing happens to the slot.                                            *)
Still(what) ==
  /\ slot'.type = slot.type /\ SameLists
  /\ net'.st = net.st /\ (net'.err => net.err) /\ wire' = wire
  /\ what \in {"none", "data", "err"} /\ Tell(slot.id, what)
  /\ what = "data" => slot.type \in {"connected", "halfwrite"}
  /\ what = "err" => (net.err \/ event.error) /\ slot.type \in Established
  /\ tp' = NextOf(tp)

(* The connection is made.                                                 *)
Opening ==
  /\ slot.type = "connecting" /\ slot'.type = "connected" /\ SameLists
  /\ UNCHANGED <<net, wire>>
  /\ Tell(slot.id, "open")
  /\ tp' = NextOf(tp)

(* force_close begins.                                                     *)
Dropping ==
  /\ slot'.type = slot.type /\ Lists(<<>>, <<>>, slot.dw)
  /\ \/ slot.type = "connecting" /\ net.st = "dead" /\ result'.what = "err"
     \/ slot.type \in Established /\ slot.closing /\ NoMoreSending /\ result'.what = "none"
     \/ slot.type = "halfwrite" /\ result'.what = "close"
     \/ slot.type \in Established /\ event.eof /\ result'.what = IF slot.type = "halfread" THEN "none" ELSE "close"
  /\ UNCHANGED <<net, wire, told>>
  /\ tp' = "closing"

(* The peer closed its side.                                               *)
Halved ==
  /\ slot.type = "connected" /\ slot'.type = "halfread" /\ SameLists
  /\ UNCHANGED <<net, wire>>
  /\ Tell(slot.id, "close")
  /\ tp' = NextOf(tp)

(* Something is written.                                                   *)
WroteAll ==
  /\ slot.type \in Established /\ LockFree
  /\ Unsent = <<>> \/ net.st = "up"
  /\ wire' = [wire EXCEPT ![slot.id] = @ \o Unsent]
  /\ Lists(<<>>, <<>>, <<>>)
  /\ \/ slot.closing /\ slot'.type = "invalid" /\ net' = NoNet
     \/ ~slot.closing /\ slot'.type = slot.type /\ net' = net
  /\ Tell(slot.id, "none")
  /\ tp' = NextOf(tp)
WroteSome(k) ==
  /\ slot.type \in Established /\ LockFree /\ net.st = "up"
  /\ wire' = [wire EXCEPT ![slot.id] = @ \o SubSeq(Unsent, 1, k)]
  /\ slot' = Written(k) /\ slot'.type = slot.type
  /\ net' = net
  /\ Tell(slot.id, "none")
  /\ tp' = NextOf(tp)

(* A write fails.                                                          *)
Broken ==
  /\ slot.type \in Established /\ LockFree /\ net.st = "dead"
  /\ \/ /\ slot'.type = "invalid" /\ Lists(<<>>, <<>>, <<>>) /\ net' = NoNet
        /\ Tell(slot.id, "none")
     \/ /\ slot.type \in {"connected", "halfwrite"} /\ slot'.type = "halfwrite" /\ Lists(High, slot.low, <<>>)
        /\ ~slot.closing
        /\ net'.st = "dead"
        /\ Tell(slot.id, "err") \/ Tell(slot.id, "none")
  /\ wire' = wire
  /\ tp' = NextOf(tp)

Outcome ==
  \/ Opening \/ Dropping \/ Halved \/ WroteAll \/ Broken
  \/ \E what \in {"none", "data", "err"} : Still(what)
  \/ \E k \in 1 .. Len(Unsent) - 1 : WroteSome(k)

(* The actions that handle an event.                                       *)
SocketEvent ==
  \/ ReportConnect \/ InvalidSocket \/ ReadMore \/ ReadEnd
  \/ SendBlocked \/ SendAll \/ SendSome \/ CloseWrite \/ EventError \/ EventEof

(* A write changes only the lists.                                         *)
LEMMA WrittenSlot ==
  ASSUME Fields, NEW k
  PROVE  DOMAIN Written(k) = DOMAIN slot
         /\ \A f \in DOMAIN slot : f \notin {"high", "low", "dw"} => Written(k)[f] = slot[f]
  BY DEF Fields, Written

(* Every event of the socket has one of these outcomes.                    *)
LEMMA Outcomes ==
  ASSUME Fields, SocketEvent
  PROVE  EventDone /\ Outcome
<1> USE DEF EventDone, Outcome, callers, kernel
<1>1. CASE ReportConnect
  <2>1. CASE net.st = "dead"
    <3>1. Dropping
      BY <1>1, <2>1, Lost DEF ReportConnect, ForceClose, Dropping, Lists, Fields
    <3> QED
      BY <1>1, <2>1, <3>1, Lost DEF ReportConnect, ForceClose, Handling, Kept, Named, Fields
  <2>2. CASE net.st # "dead"
    <3>1. Opening
      BY <1>1, <2>2 DEF ReportConnect, Report, Opening, Lists, SameLists, Fields
    <3>2. Kept
      <4>1. PICK w : slot' = [slot EXCEPT !.type = "connected", !.writing = w]
        BY <1>1, <2>2, Zenon DEF ReportConnect
      <4> QED
        BY <4>1 DEF Kept, Named, Fields
    <3> QED
      BY <1>1, <2>2, <3>1, <3>2 DEF ReportConnect, Report, Handling
  <2> QED
    BY <2>1, <2>2
<1>2. CASE InvalidSocket
  <2>1. Still("none")
    BY <1>2 DEF InvalidSocket, Report, Still, Lists, SameLists
  <2> QED
    BY <1>2, <2>1 DEF InvalidSocket, Report, Handling, Kept, Named
<1>3. CASE ReadMore
  <2>1. \E what \in {"none", "data", "err"} : Still(what)
    <3>1. CASE net.err
      <4>1. Still("err")
        BY <1>3, <3>1 DEF ReadMore, Reading, Report, Still, Lists, SameLists, Fields
      <4> QED
        BY <4>1
    <3>2. CASE ~net.err /\ slot.type = "halfread"
      <4>1. Still("none")
        BY <1>3, <3>2 DEF ReadMore, Reading, ReportRead, Still, Lists, SameLists, Fields
      <4> QED
        BY <4>1
    <3>3. CASE ~net.err /\ slot.type # "halfread"
      <4>1. Still("data")
        BY <1>3, <3>3 DEF ReadMore, Reading, ReportRead, Still, Lists, SameLists, Fields, Established
      <4> QED
        BY <4>1
    <3> QED
      BY <3>1, <3>2, <3>3
  <2>2. EventDone
    BY <1>3 DEF ReadMore, Reading, Report, ReportRead, Retry, Handling, Kept, Named, Fields, NoEvent
  <2> QED
    BY <2>1, <2>2
<1>4. CASE ReadEnd
  <2>1. EventDone
    <3>1. event' = NoEvent \/ (event' # NoEvent /\ event'.eof = event.eof /\ event'.error = event.error /\ event.write /\ event'.read = FALSE)
      BY <1>4 DEF ReadEnd, Retry, Report, ReportRead, Fields, NoEvent
    <3>2. Kept
      <4>1. \/ slot' = Freed(slot) \/ slot' = slot \/ slot' = [slot EXCEPT !.type = "halfread", !.reading = FALSE]
        BY <1>4 DEF ReadEnd, ForceClose
      <4>2. CASE slot' = Freed(slot)
        BY <4>2, Lost DEF Fields, Kept, Named
      <4>3. CASE slot' = slot \/ slot' = [slot EXCEPT !.type = "halfread", !.reading = FALSE]
        BY <4>3 DEF Fields, Kept, Named
      <4> QED
        BY <4>1, <4>2, <4>3
    <3> QED
      BY <1>4, <3>1, <3>2 DEF ReadEnd, Reading, Handling
  <2>2. CASE slot.closing /\ NoMoreSending
    <3>1. ReadEnd => ForceClose("none", FALSE)
      BY <2>2 DEF ReadEnd
    <3>2. Dropping
      BY <1>4, <2>2, <3>1, Lost DEF ReadEnd, Reading, ForceClose, Dropping, Lists, Fields
    <3> QED
      BY <2>1, <3>2
  <2>3. CASE slot.type = "halfread" /\ ~(slot.closing /\ NoMoreSending)
    <3>1. Still("none")
      BY <1>4, <2>3 DEF ReadEnd, ReportRead, Still, Lists, SameLists
    <3> QED
      BY <2>1, <3>1
  <2>4. CASE slot.type = "halfwrite" /\ ~slot.closing
    <3>1. Dropping
      BY <1>4, <2>4, Lost DEF ReadEnd, Reading, ForceClose, Dropping, Lists, Fields
    <3> QED
      BY <2>1, <3>1
  <2>5. CASE slot.type = "connected" /\ ~slot.closing
    <3>1. Halved
      BY <1>4, <2>5 DEF ReadEnd, Report, Halved, Lists, SameLists, Fields
    <3> QED
      BY <2>1, <3>1
  <2> QED
    BY <1>4, <2>2, <2>3, <2>4, <2>5 DEF ReadEnd
<1>5. CASE SendBlocked
  <2>1. Still("none")
    BY <1>5 DEF SendBlocked, Report, Still, Lists, SameLists
  <2> QED
    BY <1>5, <2>1 DEF SendBlocked, Writing, Report, Handling, Kept, Named
<1>6. CASE SendAll
  <2>1. Kept /\ Lists(<<>>, <<>>, <<>>) /\ slot'.type = IF slot.closing THEN "invalid" ELSE slot.type
    <3>1. CASE slot.closing
      <4>1. slot' = Closed(slot)
        BY <1>6, <3>1 DEF SendAll
      <4> QED
        BY <3>1, <4>1, Lost DEF Kept, Named, Lists, Fields
    <3>2. CASE ~slot.closing
      <4>1. slot' = [Closed(slot) EXCEPT !.type = slot.type, !.writing = FALSE]
        BY <1>6, <3>2 DEF SendAll
      <4> QED
        BY <3>2, <4>1, Lost DEF Kept, Named, Lists, Fields
    <3> QED
      BY <3>1, <3>2
  <2>2. WroteAll
    BY <1>6, <2>1 DEF SendAll, Writing, Report, WroteAll
  <2> QED
    BY <1>6, <2>1, <2>2 DEF SendAll, Writing, Handling, Report
<1>7. CASE SendSome
  <2>1. PICK k \in 1 .. Len(Unsent) - 1 : wire' = [wire EXCEPT ![slot.id] = @ \o SubSeq(Unsent, 1, k)] /\ slot' = Written(k)
    BY <1>7 DEF SendSome
  <2>2. Kept /\ slot'.type = slot.type
    BY <2>1, WrittenSlot DEF Kept, Named, Fields
  <2>3. WroteSome(k)
    BY <1>7, <2>1, <2>2 DEF SendSome, Writing, Report, WroteSome
  <2> QED
    BY <1>7, <2>2, <2>3 DEF SendSome, Writing, Handling, Report
<1>8. CASE CloseWrite
  <2>1. CASE slot.closing \/ slot.type = "halfread"
    <3>1. Kept /\ Lists(<<>>, <<>>, <<>>) /\ slot'.type = "invalid"
      BY <1>8, <2>1, Lost DEF CloseWrite, Kept, Named, Lists, Fields
    <3>2. Broken
      BY <1>8, <2>1, <3>1 DEF CloseWrite, Writing, Report, Broken
    <3> QED
      BY <1>8, <3>1, <3>2 DEF CloseWrite, Writing, Handling, Report
  <2>2. CASE ~slot.closing /\ slot.type = "connected"
    <3>1. Kept /\ Lists(High, slot.low, <<>>) /\ slot'.type = "halfwrite" /\ net'.st = net.st
      <4>1. /\ slot' = [[slot EXCEPT !.dw = <<>>, !.high = High] EXCEPT !.type = "halfwrite", !.writing = FALSE]
            /\ net' = [net EXCEPT !.err = FALSE]
        BY <1>8, <2>2 DEF CloseWrite
      <4> QED
        BY <2>2, <4>1 DEF Kept, Named, Lists, Fields
    <3>2. Broken
      BY <1>8, <2>2, <3>1 DEF CloseWrite, Writing, Report, Broken
    <3> QED
      BY <1>8, <3>1, <3>2 DEF CloseWrite, Writing, Handling, Report
  <2>3. CASE ~slot.closing /\ slot.type = "halfwrite"
    <3>1. Kept /\ Lists(High, slot.low, <<>>) /\ slot'.type = "halfwrite" /\ net'.st = net.st
      <4>1. /\ slot' = [slot EXCEPT !.dw = <<>>, !.high = High]
            /\ net' = [net EXCEPT !.err = FALSE]
        BY <1>8, <2>3 DEF CloseWrite
      <4> QED
        BY <2>3, <4>1 DEF Kept, Named, Lists, Fields
    <3>2. Broken
      BY <1>8, <2>3, <3>1 DEF CloseWrite, Writing, Report, Broken
    <3> QED
      BY <1>8, <3>1, <3>2 DEF CloseWrite, Writing, Handling, Report
  <2> QED
    BY <1>8, <2>1, <2>2, <2>3 DEF CloseWrite
<1>9. CASE EventError
  <2>1. Still("err")
    BY <1>9 DEF EventError, Ending, Report, Still, Lists, SameLists, Fields
  <2> QED
    BY <1>9, <2>1 DEF EventError, Ending, Report, Handling, Kept, Named
<1>10. CASE EventEof
  <2>1. event.eof
    BY <1>10 DEF EventEof, Ending, Handling, Fields, NoEvent
  <2>2. Dropping
    BY <1>10, <2>1, Lost DEF EventEof, Ending, ForceClose, Dropping, Lists, Fields
  <2> QED
    BY <1>10, <2>2, Lost DEF EventEof, Ending, Handling, ForceClose, Kept, Named, Fields
<1> QED
  BY <1>1, <1>2, <1>3, <1>4, <1>5, <1>6, <1>7, <1>8, <1>9, <1>10 DEF SocketEvent

(* force_close ends.                                                       *)
CloseSlotDone ==
  /\ tp = "closing" /\ LockFree
  /\ Kept /\ slot'.type = "invalid" /\ Lists(<<>>, <<>>, <<>>)
  /\ net' = NoNet /\ Tell(slot.id, result.what)
  /\ event' \in {NoEvent, event} /\ tp' = result.next
  /\ UNCHANGED <<pipe, wire, result, at, job, last, box, asked>>

(* The commands.                                                           *)
CommandDone(ops) ==
  /\ tp = "drain" /\ pipe # <<>> /\ Head(pipe).op \in ops /\ at[Owner] # "name"
  /\ pipe' = Tail(pipe)
  /\ UNCHANGED <<wire, event, at, job, last, box, asked>>
OpenDone ==
  LET c == Head(pipe).id IN
  /\ CommandDone({"O"}) /\ tp' = tp
  /\ slot'.id = slot.id
  /\ SameLists \/ Lists(slot.high, slot.low, <<>>)
  /\ \/ /\ slot'.type = "invalid" /\ slot'.tcp = slot.tcp /\ slot'.tag = slot.tag /\ slot'.sending = slot.sending
        /\ Tell(c, "err") /\ net' = net
     \/ /\ slot.type = "reserve" /\ slot'.type \in {"connecting", "connected"}
        /\ slot'.tcp = TRUE /\ slot'.closing = FALSE /\ slot'.tag = c /\ slot'.sending = 0
        /\ net'.st \in {"connecting", "up"} /\ net'.err = FALSE
        /\ IF slot'.type = "connected" THEN Tell(c, "open") ELSE told' = told
SendDone ==
  LET c == Head(pipe).id m == Head(pipe).m IN
  /\ CommandDone({"D", "P"}) /\ UNCHANGED <<net, tp, told>>
  /\ Named /\ slot'.type = slot.type /\ slot'.closing = slot.closing
  /\ slot'.sending = IF slot.id = c /\ slot.tcp THEN slot.sending - 1 ELSE slot.sending
  /\ \/ Dropped(c) /\ SameLists
     \/ ~Dropped(c) /\ ListsEmpty /\ Lists(Parts(m), slot.low, slot.dw)
     \/ ~Dropped(c) /\ m \in Low /\ Lists(slot.high, slot.low \o Parts(m), slot.dw)
     \/ ~Dropped(c) /\ ~ListsEmpty /\ m \notin Low /\ Lists(slot.high \o Parts(m), slot.low, slot.dw)
CloseDone ==
  LET c == Head(pipe).id
      now == Head(pipe).m = 1 \/ NoMoreSending
      what == IF slot.type = "halfread" THEN "none" ELSE "close"
  IN
  /\ CommandDone({"K"}) /\ net' = net /\ Named /\ slot'.sending = slot.sending
  /\ \/ Invalid(c) /\ UNCHANGED <<slot, tp, told>>
     \/ /\ ~Invalid(c) /\ now
        /\ slot'.type = slot.type /\ slot'.closing = slot.closing /\ Lists(<<>>, <<>>, slot.dw)
        /\ tp' = "closing" /\ result'.what = what /\ told' = told
     \/ /\ ~Invalid(c) /\ ~now
        /\ slot'.type = "halfread" /\ slot'.closing = TRUE /\ SameLists /\ tp' = tp
        /\ \A d \in Id : /\ told'[d].open = told[d].open /\ told'[d].err = told[d].err
                         /\ told'[d].late = told[d].late /\ told'[d].died = told[d].died
                         /\ told'[d].closes = IF d = c /\ what = "close" THEN told[d].closes + 1 ELSE told[d].closes

(* The second half of force_close, as described above.                     *)
LEMMA CloseSlotDoes ==
  ASSUME Fields, CloseSlot
  PROVE  CloseSlotDone
<1>1. slot' = Closed(slot)
  BY DEF CloseSlot
<1>2. Kept /\ slot'.type = "invalid" /\ Lists(<<>>, <<>>, <<>>)
  BY <1>1, Lost DEF Kept, Named, Lists, Fields
<1> QED
  BY <1>2 DEF CloseSlot, CloseSlotDone, callers

(* open_socket, as described above.                                        *)
LEMMA OpenSocketDoes ==
  ASSUME Fields, OpenSocket
  PROVE  OpenDone
<1>1. CommandDone({"O"}) /\ tp' = tp
  BY DEF OpenSocket, Cmd, CommandDone, callers, thread
<1>2. CASE slot' = [slot EXCEPT !.type = "invalid"] /\ Tell(Head(pipe).id, "err") /\ net' = net
  BY <1>1, <1>2 DEF OpenDone, SameLists, Lists, Fields
<1>3. CASE slot' = [[slot EXCEPT !.tcp = TRUE, !.reading = TRUE, !.writing = FALSE, !.closing = FALSE,
                       !.tag = Head(pipe).id, !.sending = 0, !.dw = <<>>] EXCEPT !.type = "connecting", !.writing = TRUE]
           /\ net' = [NoNet EXCEPT !.st = "connecting"] /\ told' = told /\ slot.type = "reserve"
  <2>1. /\ slot'.type = "connecting" /\ slot'.tcp = TRUE /\ slot'.closing = FALSE /\ slot'.tag = Head(pipe).id
        /\ slot'.sending = 0 /\ slot'.id = slot.id /\ Lists(slot.high, slot.low, <<>>)
    BY <1>3 DEF Fields, Lists
  <2>2. net'.st = "connecting" /\ net'.err = FALSE
    BY <1>3 DEF NoNet
  <2> QED
    BY <1>1, <1>3, <2>1, <2>2 DEF OpenDone
<1>4. CASE slot' = [[slot EXCEPT !.tcp = TRUE, !.reading = TRUE, !.writing = FALSE, !.closing = FALSE,
                       !.tag = Head(pipe).id, !.sending = 0, !.dw = <<>>] EXCEPT !.type = "connected"]
           /\ net' = [NoNet EXCEPT !.st = "up"] /\ Tell(Head(pipe).id, "open") /\ slot.type = "reserve"
  <2>1. /\ slot'.type = "connected" /\ slot'.tcp = TRUE /\ slot'.closing = FALSE /\ slot'.tag = Head(pipe).id
        /\ slot'.sending = 0 /\ slot'.id = slot.id /\ Lists(slot.high, slot.low, <<>>)
    BY <1>4 DEF Fields, Lists
  <2>2. net'.st = "up" /\ net'.err = FALSE
    BY <1>4 DEF NoNet
  <2> QED
    BY <1>1, <1>4, <2>1, <2>2 DEF OpenDone
<1> QED
  BY <1>2, <1>3, <1>4 DEF OpenSocket

(* send_socket, as described above.                                        *)
LEMMA SendSocketDoes ==
  ASSUME Fields, SendSocket
  PROVE  SendDone
<1> DEFINE c == Head(pipe).id m == Head(pipe).m s == IF Dropped(c) THEN slot ELSE Appended(m)
<1>1. CommandDone({"D", "P"}) /\ UNCHANGED <<net, tp, told>>
  BY DEF SendSocket, Cmd, CommandDone, callers, kernel, thread
<1>2. slot' = IF slot.id = c /\ slot.tcp THEN [s EXCEPT !.sending = @ - 1] ELSE s
  BY DEF SendSocket
<1>3. /\ DOMAIN s = DOMAIN slot
      /\ \A f \in DOMAIN slot : f \notin {"high", "low", "writing"} => s[f] = slot[f]
      /\ \/ Dropped(c) /\ s.high = slot.high /\ s.low = slot.low
         \/ ~Dropped(c) /\ ListsEmpty /\ s.high = Parts(m) /\ s.low = slot.low
         \/ ~Dropped(c) /\ m \in Low /\ s.high = slot.high /\ s.low = slot.low \o Parts(m)
         \/ ~Dropped(c) /\ ~ListsEmpty /\ m \notin Low /\ s.high = slot.high \o Parts(m) /\ s.low = slot.low
  BY DEF Fields, Appended
<1> HIDE DEF s
<1>4. /\ DOMAIN slot' = DOMAIN slot
      /\ \A f \in DOMAIN slot : f # "sending" => slot'[f] = s[f]
      /\ slot'.sending = IF slot.id = c /\ slot.tcp THEN s.sending - 1 ELSE s.sending
  BY <1>2, <1>3 DEF Fields
<1> QED
  BY <1>1, <1>3, <1>4 DEF SendDone, Named, SameLists, Lists, Fields

(* close_socket, as described above.                                       *)
LEMMA CloseSocketDoes ==
  ASSUME Fields, CloseSocket
  PROVE  CloseDone
<1>1. CommandDone({"K"}) /\ net' = net
  BY DEF CloseSocket, Cmd, CommandDone, callers, kernel
<1> DEFINE c == Head(pipe).id
           now == Head(pipe).m = 1 \/ NoMoreSending
           what == IF slot.type = "halfread" THEN "none" ELSE "close"
<1>2. CASE Invalid(c)
  <2>1. UNCHANGED <<slot, tp, told>>
    BY <1>2 DEF CloseSocket
  <2>2. Named /\ slot'.sending = slot.sending
    BY <2>1 DEF Named
  <2> QED
    BY <1>1, <1>2, <2>1, <2>2, Zenon DEF CloseDone
<1>3. CASE ~Invalid(c) /\ now
  <2>1. ForceClose(what, TRUE)
    BY <1>3 DEF CloseSocket
  <2>2. Named /\ slot'.sending = slot.sending /\ slot'.type = slot.type /\ slot'.closing = slot.closing /\ Lists(<<>>, <<>>, slot.dw)
    BY <2>1, Lost DEF ForceClose, Named, Lists, Fields
  <2> QED
    BY <1>1, <1>3, <2>1, <2>2 DEF ForceClose, CloseDone
<1>4. CASE ~Invalid(c) /\ ~now
  <2>1. /\ slot' = [slot EXCEPT !.closing = TRUE, !.type = "halfread", !.reading = IF what = "close" THEN FALSE ELSE @]
        /\ told' = [told EXCEPT ![c].closes = IF what = "close" THEN @ + 1 ELSE @, ![c].bare = Unsent = <<>>]
        /\ tp' = tp
    BY <1>4, Zenon DEF CloseSocket
  <2>2. Named /\ slot'.sending = slot.sending /\ slot'.type = "halfread" /\ slot'.closing = TRUE /\ SameLists
    BY <2>1 DEF Named, SameLists, Lists, Fields
  <2>3. \A d \in Id : /\ told'[d].open = told[d].open /\ told'[d].err = told[d].err
                      /\ told'[d].late = told[d].late /\ told'[d].died = told[d].died
                      /\ told'[d].closes = IF d = c /\ what = "close" THEN told[d].closes + 1 ELSE told[d].closes
    <3> SUFFICES ASSUME NEW d \in Id
                 PROVE  /\ told'[d].open = told[d].open /\ told'[d].err = told[d].err
                        /\ told'[d].late = told[d].late /\ told'[d].died = told[d].died
                        /\ told'[d].closes = IF d = c /\ what = "close" THEN told[d].closes + 1 ELSE told[d].closes
      OBVIOUS
    <3>1. DOMAIN told = Id /\ DOMAIN told[d] = {"open", "closes", "err", "late", "died", "bare"}
      BY DEF Fields
    <3> HIDE DEF what, c
    <3>2. CASE d # c
      BY <2>1, <3>1, <3>2
    <3>3. CASE d = c
      BY <2>1, <3>1, <3>3
    <3> QED
      BY <3>2, <3>3
  <2> QED
    BY <1>1, <1>4, <2>1, <2>2, <2>3, Zenon DEF CloseDone
<1> QED
  BY <1>2, <1>3, <1>4

(* A direct write.                                                         *)
DirectDone(v) ==
  LET m == job[v] c == box[m].to IN
  /\ at[v] = "locked"
  /\ UNCHANGED <<pipe, tp, event, result, job, last, box, told, asked>>
  /\ Kept /\ slot'.type = slot.type /\ slot'.high = slot.high /\ slot'.low = slot.low
  /\ net'.st = net.st /\ (net'.err => net.err)
  /\ \E l \in {"count", "idle", "trigger"} : at' = [at EXCEPT ![v] = l]
  /\ \/ ~CanDirectWrite(c) /\ at' = [at EXCEPT ![v] = "count"] /\ slot'.dw = slot.dw /\ wire' = wire
     \/ /\ CanDirectWrite(c) /\ net.st = "up" /\ at' = [at EXCEPT ![v] = "idle"] /\ slot'.dw = slot.dw
        /\ wire' = [wire EXCEPT ![c] = @ \o SubSeq(Parts(m), 1, Units)]
     \/ /\ CanDirectWrite(c) /\ at' = [at EXCEPT ![v] = "trigger"]
        /\ \E k \in 0 .. Units - 1 :
             /\ k # 0 => net.st = "up"
             /\ slot'.dw = SubSeq(Parts(m), k + 1, Units)
             /\ wire' = [wire EXCEPT ![c] = @ \o SubSeq(Parts(m), 1, k)]

(* A direct write, as described above.                                     *)
LEMMA DirectWriteDoes ==
  ASSUME Fields, NEW v \in Service, DirectWrite(v)
  PROVE  DirectDone(v)
<1> DEFINE m == job[v] c == box[m].to
<1>1. at[v] = "locked" /\ UNCHANGED <<pipe, tp, event, result, job, last, box, told, asked>>
  BY Zenon DEF DirectWrite, thread
<1>2. CASE ~CanDirectWrite(c)
  <2>1. UNCHANGED <<slot, kernel>> /\ Goto(v, "count")
    BY <1>2, Zenon DEF DirectWrite
  <2>2. UNCHANGED <<slot, net, wire>> /\ at' = [at EXCEPT ![v] = "count"]
    BY <2>1 DEF Goto, kernel
  <2>3. Kept /\ slot'.type = slot.type /\ slot'.high = slot.high /\ slot'.low = slot.low /\ slot'.dw = slot.dw
    BY <2>2 DEF Kept, Named
  <2>4. \E l \in {"count", "idle", "trigger"} : at' = [at EXCEPT ![v] = l]
    BY <2>2
  <2>5. net'.st = net.st /\ (net'.err => net.err) /\ wire' = wire
    BY <2>2
  <2> QED
    BY <1>1, <1>2, <2>2, <2>3, <2>4, <2>5, Zenon DEF DirectDone
<1>3. CASE CanDirectWrite(c)
  <2>1. PICK k \in IF net.st = "up" THEN 0 .. Units ELSE {0} :
             /\ wire' = [wire EXCEPT ![c] = @ \o SubSeq(Parts(m), 1, k)]
             /\ net' = [net EXCEPT !.err = FALSE]
             /\ IF k = Units
                THEN UNCHANGED slot /\ Goto(v, "idle")
                ELSE /\ slot' = [slot EXCEPT !.dw = SubSeq(Parts(m), k + 1, Units)]
                     /\ Goto(v, "trigger")
    BY <1>3, Zenon DEF DirectWrite
  <2>2. k \in 0 .. Units /\ (k # 0 => net.st = "up") /\ Units # 0
    BY <2>1, Parameters
  <2>3. net'.st = net.st /\ net'.err = FALSE
    BY <2>1 DEF Fields
  <2>4. CASE k = Units
    <3>1. slot' = slot /\ at' = [at EXCEPT ![v] = "idle"] /\ net.st = "up"
          /\ wire' = [wire EXCEPT ![c] = @ \o SubSeq(Parts(m), 1, Units)]
      BY <2>1, <2>2, <2>4 DEF Goto
    <3> QED
      BY <1>1, <1>3, <2>3, <3>1 DEF DirectDone, Kept, Named
  <2>5. CASE k # Units
    <3>1. k \in 0 .. Units - 1
      BY <2>2, <2>5, Parameters
    <3>2. slot' = [slot EXCEPT !.dw = SubSeq(Parts(m), k + 1, Units)] /\ at' = [at EXCEPT ![v] = "trigger"]
      BY <2>1, <2>5 DEF Goto
    <3>3. Kept /\ slot'.type = slot.type /\ slot'.high = slot.high /\ slot'.low = slot.low
          /\ slot'.dw = SubSeq(Parts(m), k + 1, Units)
      BY <3>2 DEF Fields, Kept, Named
    <3>4. \E h \in 0 .. Units - 1 :
             /\ h # 0 => net.st = "up"
             /\ slot'.dw = SubSeq(Parts(m), h + 1, Units)
             /\ wire' = [wire EXCEPT ![c] = @ \o SubSeq(Parts(m), 1, h)]
      BY <2>1, <2>2, <3>1, <3>3, Zenon
    <3> QED
      BY <1>1, <1>3, <2>3, <3>2, <3>3, <3>4, Zenon DEF DirectDone
  <2> QED
    BY <2>4, <2>5
<1> QED
  BY <1>2, <1>3

-----------------------------------------------------------------------------
(* What is on the wire and what is to follow it.                           *)
Wire == IF slot.id \in Id THEN wire[slot.id] ELSE <<>>
Front == Wire \o High
Stream == Front \o slot.low
InBox(s, c) == \A j \in 1 .. Len(s) : s[j][1] \in 1 .. Len(box) /\ box[s[j][1]].to = c

(* A message that is neither in a list nor gone, which all later messages  *)
(* of its service wait behind.                                             *)
Waiting(m) ==
  \/ \E i \in 1 .. Len(pipe) : pipe[i].op \in Sends /\ pipe[i].m = m
  \/ \E v \in Service : at[v] \in Busy /\ job[v] = m
Behind(n) == \A m \in 1 .. Len(box) : box[m].to = slot.id /\ Waiting(m) /\ box[m].by = box[n].by => n < m
Later == \A j \in 1 .. Len(Stream) : Behind(Stream[j][1])

(* On the wires messages are begun and in order; only a connection that    *)
(* was shut down has one that broke off.                                   *)
Wires ==
  \A c \in Id : /\ Begun(wire[c]) /\ Ordered(wire[c]) /\ InBox(wire[c], c)
                /\ asked[c].shut \/ Unbroken(wire[c])

(* The lists begin with whole messages, together with what is on the wire: *)
(* what is there of a message was not cut off.                             *)
Shape ==
  /\ slot.type \in Established /\ tp # "closing" => Whole(Front) /\ Whole(slot.low)
  /\ slot.type = "connected" /\ tp = "closing" /\ net.st # "dead" => asked[slot.id].shut \/ Whole(Front)

(* Wire and lists together are in order, before all messages that wait.    *)
Streams ==
  /\ Wires /\ Shape
  /\ Ordered(Stream) /\ InBox(Stream, slot.id) /\ Later
  /\ \A j \in 1 .. Len(slot.low) : slot.low[j][1] \in Low

(* The steps, one by one.                                                  *)
StepOf ==
  \/ \E v \in Service : \/ TryLock(v) \/ DirectDone(v) \/ Trigger(v) \/ IncSending(v) \/ Post(v)
                       \/ \E c \in Id : Send(v, c)
  \/ Reserve \/ SetId \/ OpenRequest
  \/ \E c \in Id : Close(c) \/ Shutdown(c) \/ OnError(c)
  \/ OpenDone \/ SendDone \/ TriggerWrite \/ CloseDone \/ Drained \/ CloseSlotDone \/ Poll
  \/ EventDone /\ \/ Opening \/ Dropping \/ Halved \/ WroteAll \/ Broken
                   \/ \E what \in {"none", "data", "err"} : Still(what)
                   \/ \E k \in 1 .. Len(Unsent) - 1 : WroteSome(k)
  \/ Connected \/ PeerData \/ PeerFin \/ Reset
  \/ UNCHANGED vars

(* Every step of the system is one of these.                               *)
LEMMA Steps ==
  ASSUME Fields, [Next]_vars
  PROVE  StepOf
<1>1. CASE SocketEvent
  BY <1>1, Outcomes DEF StepOf, Outcome
<1>2. CASE OpenSocket \/ SendSocket \/ CloseSocket \/ CloseSlot
  BY <1>2, OpenSocketDoes, SendSocketDoes, CloseSocketDoes, CloseSlotDoes DEF StepOf
<1>3. CASE TriggerWrite \/ Drained \/ Poll \/ Environment \/ Reserve \/ UNCHANGED vars
  BY <1>3 DEF StepOf, Environment
<1>4. CASE (\E v \in Service : Caller(v) \/ (\E c \in Id : Send(v, c))) \/ (\E c \in Id : Close(c) \/ Shutdown(c))
  BY <1>4, DirectWriteDoes DEF StepOf, Caller
<1> QED
  BY <1>1, <1>2, <1>3, <1>4 DEF Next, SocketThread, SocketEvent

(* The command to open is for the last id, which is reserved.              *)
LEMMA OpensLast ==
  ASSUME TypeOK, Opens, OpenDone
  PROVE  /\ slot.type = "reserve" /\ Head(pipe).id = last /\ at[Owner] \notin {"name", "open"}
         /\ slot'.id = slot.id
<1>1. pipe # <<>> /\ Head(pipe).op = "O" /\ pipe' = Tail(pipe) /\ slot'.id = slot.id
  BY DEF OpenDone, CommandDone
<1>2. 1 \in 1 .. Len(pipe) /\ Head(pipe) = pipe[1]
  BY <1>1, Obeyed
<1> QED
  BY <1>1, <1>2 DEF Opens

(* The kernel and the peer leave the services and the thread alone.        *)
LEMMA Peering ==
  ASSUME Fields, Connected \/ PeerData \/ PeerFin
  PROVE  /\ UNCHANGED <<slot, wire, pipe, tp, event, result, at, job, last, box, asked, told>>
         /\ net'.err = net.err /\ (net.st # "dead" => net'.st # "dead") /\ (net.st = "dead" => net'.st = "dead")
         /\ net.st # "none"
<1>1. CASE Connected
  BY <1>1 DEF Connected, Peer, thread, callers, Fields
<1>2. CASE PeerData
  BY <1>2 DEF PeerData, Peer, thread, callers, Fields
<1>3. CASE PeerFin
  BY <1>3 DEF PeerFin, Peer, thread, callers, Fields
<1> QED
  BY <1>1, <1>2, <1>3

(* Every step keeps what holds of the slot and its id.                     *)
LEMMA NextSlots ==
  ASSUME Fields, TypeOK, Slots, Opens, Quiet, [Next]_vars
  PROVE  Slots'
<1> USE Parameters DEF Slots, Fields, TypeOK, Values, Queues, Calls, Established, NoEvent
<1>1. ASSUME NEW v \in Service, NEW c \in Id, Send(v, c) PROVE Slots'
  <2>1. /\ at[v] = "idle" /\ UNCHANGED <<slot, last, event, tp>> /\ at \in [Service -> Places]
        /\ at' = [at EXCEPT ![v] = "try"] \/ at' = [at EXCEPT ![v] = "count"]
    BY <1>1 DEF Send, Goto, thread
  <2> HIDE DEF Fields, TypeOK, Values, Queues, Calls
  <2> QED
    BY <2>1
<1>2. ASSUME NEW v \in Service, TryLock(v) PROVE Slots'
  BY <1>2 DEF TryLock, Goto, kernel, thread, callers
<1>3. ASSUME NEW v \in Service, DirectDone(v) PROVE Slots'
  <2>1. PICK l \in {"count", "idle", "trigger"} : at' = [at EXCEPT ![v] = l]
    BY <1>3, Zenon DEF DirectDone
  <2>2. UNCHANGED <<tp, event, last>> /\ slot'.type = slot.type /\ slot'.id = slot.id /\ at[v] = "locked"
    BY <1>3, Zenon DEF DirectDone, Kept, Named
  <2> QED
    BY <2>1, <2>2
<1>4. ASSUME NEW v \in Service, Trigger(v) PROVE Slots'
  BY <1>4, Requested DEF Trigger, Goto, Request, Command, kernel, thread, callers
<1>5. ASSUME NEW v \in Service, IncSending(v) PROVE Slots'
  BY <1>5 DEF IncSending, Goto, kernel, thread, callers
<1>6. ASSUME NEW v \in Service, Post(v) PROVE Slots'
  <2>1. /\ at[v] = "post" /\ UNCHANGED <<slot, last, event, tp>> /\ at \in [Service -> Places]
        /\ at' = [at EXCEPT ![v] = "idle"]
    BY <1>6 DEF Post, Goto, thread
  <2> HIDE DEF Fields, TypeOK, Values, Queues, Calls
  <2> QED
    BY <2>1
<1>7. CASE Reserve
  BY <1>7 DEF Reserve, Goto, kernel, thread, callers
<1>8. CASE SetId
  BY <1>8 DEF SetId, Goto, kernel, thread, callers
<1>9. CASE OpenRequest
  BY <1>9, Requested DEF OpenRequest, Goto, Request, Command, kernel, thread, callers
<1>10. ASSUME NEW c \in Id, Close(c) PROVE Slots'
  BY <1>10, Requested DEF Close, Request, Command, kernel, thread, callers
<1>11. ASSUME NEW c \in Id, Shutdown(c) PROVE Slots'
  BY <1>11, Requested DEF Shutdown, Request, Command, kernel, thread, callers
<1>12. ASSUME NEW c \in Id, OnError(c) PROVE Slots'
  BY <1>12, Requested DEF OnError, Request, Command, kernel, thread, callers
<1>13. CASE OpenDone
  <2>1. at[Owner] \notin {"name", "open"} /\ slot.type = "reserve"
    BY ONLY <1>13, TypeOK, Opens, OpensLast
  <2>2. UNCHANGED <<tp, event, last, at>> /\ slot'.id = slot.id /\ tp = "drain"
    BY <1>13 DEF OpenDone, CommandDone
  <2> QED
    BY <2>1, <2>2
<1>14. CASE SendDone
  BY <1>14, Obeyed DEF SendDone, CommandDone, Named, SameLists, Lists, kernel, thread, callers
<1>15. CASE TriggerWrite
  BY <1>15, Obeyed DEF TriggerWrite, Cmd, kernel, thread, callers
<1>16. CASE CloseDone
  <2>1. UNCHANGED <<event, last, at>> /\ slot'.id = slot.id /\ tp = "drain" /\ at[Owner] # "name"
    BY <1>16 DEF CloseDone, CommandDone, Named
  <2>2. ~Unopened(Head(pipe).id)
    BY <1>16, Obeyed DEF CloseDone, CommandDone, Quiet, Aimed
  <2>3. CASE Invalid(Head(pipe).id)
    BY <1>16, <2>1, <2>3 DEF CloseDone
  <2>4. CASE ~Invalid(Head(pipe).id)
    <3>1. slot.type \in Established
      <4>1. slot.id = last /\ slot.id = Head(pipe).id /\ slot.type # "invalid"
        BY <2>1, <2>4 DEF Invalid
      <4> QED
        BY <2>2, <4>1, Zenon DEF Unopened, Fresh, Types
    <3>2. slot'.type \in Established /\ tp' \in {"closing", "drain"}
      BY <1>16, <2>1, <2>4, <3>1 DEF CloseDone
    <3> QED
      BY <2>1, <3>1, <3>2
  <2> QED
    BY <2>3, <2>4
<1>17. CASE Drained
  BY <1>17 DEF Drained, kernel, thread, callers
<1>18. CASE CloseSlotDone
  BY <1>18, Telling DEF CloseSlotDone, Kept, Named, Lists, kernel, thread, callers
<1>19. CASE Poll
  BY <1>19 DEF Poll, Ready, kernel, thread, callers
<1>20. ASSUME EventDone, NEW what \in {"none", "data", "err"}, Still(what) PROVE Slots'
  BY <1>20, Telling DEF EventDone, Handling, Kept, Named, Still, SameLists, Lists, NextOf, kernel, thread,
     callers
<1>21. ASSUME EventDone, Opening PROVE Slots'
  BY <1>21, Telling DEF EventDone, Handling, Kept, Named, Opening, SameLists, Lists, NextOf, kernel, thread,
     callers
<1>22. ASSUME EventDone, Dropping PROVE Slots'
  BY <1>22 DEF EventDone, Handling, Kept, Named, Dropping, Lists, kernel, thread, callers
<1>23. ASSUME EventDone, Halved PROVE Slots'
  BY <1>23, Telling DEF EventDone, Handling, Kept, Named, Halved, SameLists, Lists, NextOf, kernel, thread,
     callers
<1>24. ASSUME EventDone, WroteAll PROVE Slots'
  BY <1>24, Telling DEF EventDone, Handling, Kept, Named, WroteAll, Lists, NextOf, kernel, thread, callers
<1>25. ASSUME EventDone, NEW k \in 1 .. Len(Unsent) - 1, WroteSome(k) PROVE Slots'
  BY <1>25, Telling DEF EventDone, Handling, Kept, Named, WroteSome, NextOf, kernel, thread, callers
<1>26. ASSUME EventDone, Broken PROVE Slots'
  BY <1>26, Telling DEF EventDone, Handling, Kept, Named, Broken, Lists, NextOf, kernel, thread, callers
<1>27. CASE Connected \/ PeerData \/ PeerFin
  <2> HIDE DEF Fields, TypeOK, Values, Queues, Calls
  <2>1. UNCHANGED <<slot, wire, pipe, tp, event, result, at, job, last, box, asked, told>>
    BY <1>27, Peering
  <2> QED
    BY <2>1
<1>28. CASE Reset
  BY <1>28 DEF Reset, kernel, thread, callers
<1>29. CASE UNCHANGED vars
  BY <1>29 DEF vars, kernel, thread, callers
<1> QED
  BY <1>1, <1>2, <1>3, <1>4, <1>5, <1>6, <1>7, <1>8, <1>9, <1>10, <1>11, <1>12, <1>13, <1>14, <1>15, <1>16,
     <1>17, <1>18, <1>19, <1>20, <1>21, <1>22, <1>23, <1>24, <1>25, <1>26, <1>27, <1>28, <1>29, Steps
     DEF StepOf

(* Every step keeps what holds of the command to open.                     *)
LEMMA NextOpens ==
  ASSUME Fields, TypeOK, Slots, Opens, Quiet, [Next]_vars
  PROVE  Opens'
<1> USE Parameters DEF Opens, Slots, TypeOK, Values, Queues, Calls, Established
<1>1. ASSUME NEW v \in Service, NEW c \in Id, Send(v, c) PROVE Opens'
  BY <1>1 DEF Send, Goto, kernel, thread, callers
<1>2. ASSUME NEW v \in Service, TryLock(v) PROVE Opens'
  BY <1>2 DEF TryLock, Goto, kernel, thread, callers
<1>3. ASSUME NEW v \in Service, DirectDone(v) PROVE Opens'
  <2>1. PICK l \in {"count", "idle", "trigger"} : at' = [at EXCEPT ![v] = l]
    BY <1>3, Zenon DEF DirectDone
  <2>2. pipe' = pipe /\ last' = last /\ slot'.type = slot.type
    BY <1>3, Zenon DEF DirectDone
  <2>3. at'[Owner] = at[Owner] \/ at'[Owner] \notin {"name", "open"}
    BY <2>1
  <2> QED
    BY <2>2, <2>3, OpensStay
<1>4. ASSUME NEW v \in Service, Trigger(v) PROVE Opens'
  <2>1. PICK k : pipe' = Append(pipe, k) /\ k.op # "O"
    <3>1. pipe' = Append(pipe, Command("W", box[job[v]].to, 0)) /\ Command("W", box[job[v]].to, 0).op # "O"
      BY <1>4 DEF Trigger, Request, Command
    <3> QED
      BY <3>1, Zenon
  <2>2. at'[Owner] = at[Owner] \/ at'[Owner] \notin {"name", "open"}
    BY <1>4 DEF Trigger, Goto, callers
  <2>3. slot' = slot /\ last' = last
    BY <1>4 DEF Trigger, callers
  <2> QED
    BY <2>1, <2>2, <2>3, OpensStay, Zenon
<1>5. ASSUME NEW v \in Service, IncSending(v) PROVE Opens'
  <2>1. slot'.type = slot.type /\ last' = last /\ pipe' = pipe
    BY <1>5 DEF IncSending, Fields
  <2>2. at'[Owner] = at[Owner] \/ at'[Owner] \notin {"name", "open"}
    BY <1>5 DEF IncSending, Goto
  <2> QED
    BY <2>1, <2>2
<1>6. ASSUME NEW v \in Service, Post(v) PROVE Opens'
  <2>1. PICK k : pipe' = Append(pipe, k) /\ k.op # "O"
    <3>1. pipe' = Append(pipe, Command(IF job[v] \in Low THEN "P" ELSE "D", box[job[v]].to, job[v])) /\ Command(IF job[v] \in Low THEN "P" ELSE "D", box[job[v]].to, job[v]).op # "O"
      BY <1>6 DEF Post, Request, Command
    <3> QED
      BY <3>1, Zenon
  <2>2. at'[Owner] = at[Owner] \/ at'[Owner] \notin {"name", "open"}
    BY <1>6 DEF Post, Goto, callers
  <2>3. slot' = slot /\ last' = last
    BY <1>6 DEF Post, callers
  <2> QED
    BY <2>1, <2>2, <2>3, OpensStay, Zenon
<1>7. CASE Reserve
  BY <1>7 DEF Reserve, Goto, kernel, thread, callers
<1>8. CASE SetId
  BY <1>8 DEF SetId, Goto, kernel, thread, callers
<1>9. CASE OpenRequest
  <2>1. at[Owner] = "open" /\ slot' = slot /\ last' = last /\ at'[Owner] \notin {"name", "open"}
    BY <1>9 DEF OpenRequest, Goto
  <2>2. pipe' = Append(pipe, Command("O", last, 0))
    BY <1>9 DEF OpenRequest, Request
  <2>3. slot.type = "reserve" /\ \A i \in 1 .. Len(pipe) : pipe[i].op # "O"
    BY <2>1
  <2>4. \A i \in 1 .. Len(pipe') : pipe'[i].op = "O" => i = Len(pipe) + 1 /\ pipe'[i] = Command("O", last, 0)
    BY <2>2, <2>3, Requested
  <2>5. Command("O", last, 0).id = last /\ last' = last /\ Len(pipe) \in Nat
    BY <2>1 DEF Command
  <2> HIDE DEF Slots, TypeOK, Values, Queues, Calls
  <2> QED
    BY <2>1, <2>3, <2>4, <2>5
<1>10. ASSUME NEW c \in Id, Close(c) PROVE Opens'
  <2>1. PICK k : pipe' = Append(pipe, k) /\ k.op # "O"
    <3>1. pipe' = Append(pipe, Command("K", c, 0)) /\ Command("K", c, 0).op # "O"
      BY <1>10 DEF Close, Request, Command
    <3> QED
      BY <3>1, Zenon
  <2>2. at'[Owner] = at[Owner] \/ at'[Owner] \notin {"name", "open"}
    BY <1>10 DEF Close, Goto, callers
  <2>3. slot' = slot /\ last' = last
    BY <1>10 DEF Close, callers
  <2> QED
    BY <2>1, <2>2, <2>3, OpensStay, Zenon
<1>11. ASSUME NEW c \in Id, Shutdown(c) PROVE Opens'
  <2>1. PICK k : pipe' = Append(pipe, k) /\ k.op # "O"
    <3>1. pipe' = Append(pipe, Command("K", c, 1)) /\ Command("K", c, 1).op # "O"
      BY <1>11 DEF Shutdown, Request, Command
    <3> QED
      BY <3>1, Zenon
  <2>2. at'[Owner] = at[Owner] \/ at'[Owner] \notin {"name", "open"}
    BY <1>11 DEF Shutdown, Goto, callers
  <2>3. slot' = slot /\ last' = last
    BY <1>11 DEF Shutdown, callers
  <2> QED
    BY <2>1, <2>2, <2>3, OpensStay, Zenon
<1>12. ASSUME NEW c \in Id, OnError(c) PROVE Opens'
  <2>1. PICK k : pipe' = Append(pipe, k) /\ k.op # "O"
    <3>1. pipe' = Append(pipe, Command("K", c, 1)) /\ Command("K", c, 1).op # "O"
      BY <1>12 DEF OnError, Request, Command
    <3> QED
      BY <3>1, Zenon
  <2>2. at'[Owner] = at[Owner] \/ at'[Owner] \notin {"name", "open"}
    BY <1>12 DEF OnError, Goto, callers
  <2>3. slot' = slot /\ last' = last
    BY <1>12 DEF OnError, callers
  <2> QED
    BY <2>1, <2>2, <2>3, OpensStay, Zenon
<1>13. CASE OpenDone
  BY <1>13, Obeyed, Telling DEF OpenDone, CommandDone, SameLists, Lists, kernel, thread, callers
<1>14. CASE SendDone
  BY <1>14, Obeyed DEF SendDone, CommandDone, Named, SameLists, Lists, kernel, thread, callers
<1>15. CASE TriggerWrite
  BY <1>15, OpensStay DEF TriggerWrite, Cmd, Fields, kernel, thread, callers
<1>16. CASE CloseDone
  <2>1. pipe # <<>> /\ pipe' = Tail(pipe) /\ last' = last /\ at' = at
    BY <1>16 DEF CloseDone, CommandDone
  <2>2. slot'.type = slot.type \/ slot.type # "reserve"
    <3>1. CASE Invalid(Head(pipe).id)
      BY <1>16, <3>1 DEF CloseDone
    <3>2. CASE ~Invalid(Head(pipe).id)
      <4>1. slot.type \in Established
        BY <1>16, <3>2, Opened DEF CloseDone, CommandDone
      <4> QED
        BY <4>1 DEF Established
    <3> QED
      BY <3>1, <3>2
  <2> QED
    BY <2>1, <2>2, OpensStay
<1>17. CASE Drained
  BY <1>17 DEF Drained, kernel, thread, callers
<1>18. CASE CloseSlotDone
  BY <1>18, Telling DEF CloseSlotDone, Kept, Named, Lists, kernel, thread, callers
<1>19. CASE Poll
  BY <1>19 DEF Poll, Ready, kernel, thread, callers
<1>20. ASSUME EventDone, NEW what \in {"none", "data", "err"}, Still(what) PROVE Opens'
  BY <1>20, Telling DEF EventDone, Handling, Kept, Named, Still, SameLists, Lists, NextOf, kernel, thread,
     callers
<1>21. ASSUME EventDone, Opening PROVE Opens'
  BY <1>21, Telling DEF EventDone, Handling, Kept, Named, Opening, SameLists, Lists, NextOf, kernel, thread,
     callers
<1>22. ASSUME EventDone, Dropping PROVE Opens'
  BY <1>22 DEF EventDone, Handling, Kept, Named, Dropping, Lists, kernel, thread, callers
<1>23. ASSUME EventDone, Halved PROVE Opens'
  BY <1>23, Telling DEF EventDone, Handling, Kept, Named, Halved, SameLists, Lists, NextOf, kernel, thread,
     callers
<1>24. ASSUME EventDone, WroteAll PROVE Opens'
  BY <1>24, Telling DEF EventDone, Handling, Kept, Named, WroteAll, Lists, NextOf, kernel, thread, callers
<1>25. ASSUME EventDone, NEW k \in 1 .. Len(Unsent) - 1, WroteSome(k) PROVE Opens'
  BY <1>25, Telling DEF EventDone, Handling, Kept, Named, WroteSome, NextOf, kernel, thread, callers
<1>26. ASSUME EventDone, Broken PROVE Opens'
  BY <1>26, Telling DEF EventDone, Handling, Kept, Named, Broken, Lists, NextOf, kernel, thread, callers
<1>27. CASE Connected \/ PeerData \/ PeerFin
  BY <1>27 DEF Connected, PeerData, PeerFin, Peer, kernel, thread, callers
<1>28. CASE Reset
  BY <1>28 DEF Reset, kernel, thread, callers
<1>29. CASE UNCHANGED vars
  BY <1>29 DEF vars, kernel, thread, callers
<1> QED
  BY <1>1, <1>2, <1>3, <1>4, <1>5, <1>6, <1>7, <1>8, <1>9, <1>10, <1>11, <1>12, <1>13, <1>14, <1>15, <1>16,
     <1>17, <1>18, <1>19, <1>20, <1>21, <1>22, <1>23, <1>24, <1>25, <1>26, <1>27, <1>28, <1>29, Steps
     DEF StepOf

(* Every step keeps the lists of a slot not in use empty.                  *)
LEMMA NextEmpty ==
  ASSUME Fields, TypeOK, Slots, Opens, Quiet, Empty, [Next]_vars
  PROVE  Empty'
<1> USE Parameters DEF Empty, Fields, TypeOK, Values, Queues, Calls, Established
<1>1. ASSUME NEW v \in Service, NEW c \in Id, Send(v, c) PROVE Empty'
  BY <1>1 DEF Send, Goto, kernel, thread, callers
<1>2. ASSUME NEW v \in Service, TryLock(v) PROVE Empty'
  BY <1>2 DEF TryLock, Goto, kernel, thread, callers
<1>3. ASSUME NEW v \in Service, DirectDone(v) PROVE Empty'
  <2>1. slot'.type = slot.type /\ slot'.high = slot.high /\ slot'.low = slot.low /\ tp' = tp
    BY <1>3, Zenon DEF DirectDone
  <2>2. slot'.dw = slot.dw \/ CanDirectWrite(box[job[v]].to)
    BY <1>3, Zenon DEF DirectDone
  <2> QED
    BY <2>1, <2>2 DEF CanDirectWrite
<1>4. ASSUME NEW v \in Service, Trigger(v) PROVE Empty'
  BY <1>4, Requested DEF Trigger, Goto, Request, Command, kernel, thread, callers
<1>5. ASSUME NEW v \in Service, IncSending(v) PROVE Empty'
  BY <1>5 DEF IncSending, Goto, kernel, thread, callers
<1>6. ASSUME NEW v \in Service, Post(v) PROVE Empty'
  BY <1>6, Requested DEF Post, Goto, Request, Command, kernel, thread, callers
<1>7. CASE Reserve
  BY <1>7 DEF Reserve, Goto, kernel, thread, callers
<1>8. CASE SetId
  BY <1>8 DEF SetId, Goto, kernel, thread, callers
<1>9. CASE OpenRequest
  BY <1>9, Requested DEF OpenRequest, Goto, Request, Command, kernel, thread, callers
<1>10. ASSUME NEW c \in Id, Close(c) PROVE Empty'
  BY <1>10, Requested DEF Close, Request, Command, kernel, thread, callers
<1>11. ASSUME NEW c \in Id, Shutdown(c) PROVE Empty'
  BY <1>11, Requested DEF Shutdown, Request, Command, kernel, thread, callers
<1>12. ASSUME NEW c \in Id, OnError(c) PROVE Empty'
  BY <1>12, Requested DEF OnError, Request, Command, kernel, thread, callers
<1>13. CASE OpenDone
  <2>1. slot.type = "reserve" /\ slot'.high = slot.high /\ slot'.low = slot.low /\ slot'.dw \in {slot.dw, <<>>}
    BY <1>13, Obeyed DEF OpenDone, CommandDone, SameLists, Lists, Opens
  <2>2. tp' = tp /\ tp = "drain"
    BY <1>13 DEF OpenDone, CommandDone
  <2> QED
    BY <2>1, <2>2
<1>14. CASE SendDone
  <2>1. tp = "drain" /\ tp' = tp /\ slot'.type = slot.type
    BY <1>14, Zenon DEF SendDone, CommandDone
  <2>2. CASE Invalid(Head(pipe).id)
    <3>1. SameLists
      BY <1>14, <2>2 DEF SendDone, Dropped
    <3> QED
      BY <2>1, <3>1 DEF SameLists, Lists
  <2>3. CASE ~Invalid(Head(pipe).id)
    <3>1. slot.type \in Established
      BY <1>14, <2>3, Opened DEF SendDone, CommandDone
    <3> QED
      BY <2>1, <3>1
  <2> QED
    BY <2>2, <2>3
<1>15. CASE TriggerWrite
  BY <1>15, Obeyed DEF TriggerWrite, Cmd, kernel, thread, callers
<1>16. CASE CloseDone
  BY <1>16, Obeyed DEF CloseDone, CommandDone, Named, SameLists, Lists, kernel, thread, callers
<1>17. CASE Drained
  BY <1>17 DEF Drained, kernel, thread, callers
<1>18. CASE CloseSlotDone
  BY <1>18, Telling DEF CloseSlotDone, Kept, Named, Lists, kernel, thread, callers
<1>19. CASE Poll
  BY <1>19 DEF Poll, Ready, kernel, thread, callers
<1>20. ASSUME EventDone, NEW what \in {"none", "data", "err"}, Still(what) PROVE Empty'
  BY <1>20, Telling DEF EventDone, Handling, Kept, Named, Still, SameLists, Lists, NextOf, kernel, thread,
     callers
<1>21. ASSUME EventDone, Opening PROVE Empty'
  BY <1>21, Telling DEF EventDone, Handling, Kept, Named, Opening, SameLists, Lists, NextOf, kernel, thread,
     callers
<1>22. ASSUME EventDone, Dropping PROVE Empty'
  BY <1>22 DEF EventDone, Handling, Kept, Named, Dropping, Lists, kernel, thread, callers
<1>23. ASSUME EventDone, Halved PROVE Empty'
  BY <1>23, Telling DEF EventDone, Handling, Kept, Named, Halved, SameLists, Lists, NextOf, kernel, thread,
     callers
<1>24. ASSUME EventDone, WroteAll PROVE Empty'
  BY <1>24, Telling DEF EventDone, Handling, Kept, Named, WroteAll, Lists, NextOf, kernel, thread, callers
<1>25. ASSUME EventDone, NEW k \in 1 .. Len(Unsent) - 1, WroteSome(k) PROVE Empty'
  BY <1>25, Telling DEF EventDone, Handling, Kept, Named, WroteSome, NextOf, kernel, thread, callers
<1>26. ASSUME EventDone, Broken PROVE Empty'
  BY <1>26, Telling DEF EventDone, Handling, Kept, Named, Broken, Lists, NextOf, kernel, thread, callers
<1>27. CASE Connected \/ PeerData \/ PeerFin
  BY <1>27 DEF Connected, PeerData, PeerFin, Peer, kernel, thread, callers
<1>28. CASE Reset
  BY <1>28 DEF Reset, kernel, thread, callers
<1>29. CASE UNCHANGED vars
  BY <1>29 DEF vars, kernel, thread, callers
<1> QED
  BY <1>1, <1>2, <1>3, <1>4, <1>5, <1>6, <1>7, <1>8, <1>9, <1>10, <1>11, <1>12, <1>13, <1>14, <1>15, <1>16,
     <1>17, <1>18, <1>19, <1>20, <1>21, <1>22, <1>23, <1>24, <1>25, <1>26, <1>27, <1>28, <1>29, Steps
     DEF StepOf

(* No service begins to send or posts its message.                         *)
Comes(ops) ==
  \/ pipe' = pipe
  \/ pipe # <<>> /\ pipe' = Tail(pipe)
  \/ \E k : pipe' = Append(pipe, k) /\ k.op \in ops
Calm ==
  /\ box' = box /\ job' = job
  /\ \A v \in Service : at'[v] \in Busy => at[v] \in Busy
  /\ \A v \in Service : at'[v] \in Busy \cup {"trigger"} => at[v] \in Busy \cup {"trigger"}
  /\ Comes({"O", "W", "K"})

(* The steps, as far as messages under way are concerned.                  *)
CalmStep ==
  \/ \E v \in Service : Post(v) \/ \E c \in Id : Send(v, c)
  \/ Calm

(* Only Send and Post put a message into the hands of a service or into    *)
(* the pipe.                                                               *)
LEMMA Calms ==
  ASSUME Fields, TypeOK, [Next]_vars
  PROVE  CalmStep
<1> USE Parameters DEF CalmStep, Calm, Busy, TypeOK, Values, Queues, Calls
<1>1. ASSUME NEW v \in Service, NEW c \in Id, Send(v, c) PROVE CalmStep
  BY <1>1 DEF Comes, CalmStep
<1>2. ASSUME NEW v \in Service, TryLock(v) PROVE CalmStep
  BY <1>2 DEF Comes, TryLock, Goto, kernel, thread, callers
<1>3. ASSUME NEW v \in Service, DirectDone(v) PROVE CalmStep
  <2>1. PICK l \in {"count", "idle", "trigger"} : at' = [at EXCEPT ![v] = l]
    BY <1>3, Zenon DEF DirectDone
  <2>2. at[v] = "locked" /\ pipe' = pipe /\ box' = box /\ job' = job
    BY <1>3, Zenon DEF DirectDone
  <2> QED
    BY <2>1, <2>2 DEF Comes
<1>4. ASSUME NEW v \in Service, Trigger(v) PROVE CalmStep
  <2>1. pipe' = Append(pipe, Command("W", box[job[v]].to, 0)) /\ Command("W", box[job[v]].to, 0).op \in {"O", "W", "K"}
    BY <1>4 DEF Trigger, Request, Command
  <2>2. Comes({"O", "W", "K"})
    BY <2>1, Zenon DEF Comes
  <2> QED
    BY <1>4, <2>2 DEF Trigger, Goto, callers
<1>5. ASSUME NEW v \in Service, IncSending(v) PROVE CalmStep
  BY <1>5 DEF Comes, IncSending, Goto, kernel, thread, callers
<1>6. ASSUME NEW v \in Service, Post(v) PROVE CalmStep
  BY <1>6 DEF Comes, CalmStep
<1>7. CASE Reserve
  BY <1>7 DEF Comes, Reserve, Goto, kernel, thread, callers
<1>8. CASE SetId
  BY <1>8 DEF Comes, SetId, Goto, kernel, thread, callers
<1>9. CASE OpenRequest
  <2>1. pipe' = Append(pipe, Command("O", last, 0)) /\ Command("O", last, 0).op \in {"O", "W", "K"}
    BY <1>9 DEF OpenRequest, Request, Command
  <2>2. Comes({"O", "W", "K"})
    BY <2>1, Zenon DEF Comes
  <2> QED
    BY <1>9, <2>2 DEF OpenRequest, Goto, callers
<1>10. ASSUME NEW c \in Id, Close(c) PROVE CalmStep
  <2>1. pipe' = Append(pipe, Command("K", c, 0)) /\ Command("K", c, 0).op \in {"O", "W", "K"}
    BY <1>10 DEF Close, Request, Command
  <2>2. Comes({"O", "W", "K"})
    BY <2>1, Zenon DEF Comes
  <2> QED
    BY <1>10, <2>2 DEF Close, Goto, callers
<1>11. ASSUME NEW c \in Id, Shutdown(c) PROVE CalmStep
  <2>1. pipe' = Append(pipe, Command("K", c, 1)) /\ Command("K", c, 1).op \in {"O", "W", "K"}
    BY <1>11 DEF Shutdown, Request, Command
  <2>2. Comes({"O", "W", "K"})
    BY <2>1, Zenon DEF Comes
  <2> QED
    BY <1>11, <2>2 DEF Shutdown, Goto, callers
<1>12. ASSUME NEW c \in Id, OnError(c) PROVE CalmStep
  <2>1. pipe' = Append(pipe, Command("K", c, 1)) /\ Command("K", c, 1).op \in {"O", "W", "K"}
    BY <1>12 DEF OnError, Request, Command
  <2>2. Comes({"O", "W", "K"})
    BY <2>1, Zenon DEF Comes
  <2> QED
    BY <1>12, <2>2 DEF OnError, Goto, callers
<1>13. CASE OpenDone
  BY <1>13, Obeyed, Telling DEF Comes, OpenDone, CommandDone, SameLists, Lists, kernel, thread, callers
<1>14. CASE SendDone
  BY <1>14, Obeyed DEF Comes, SendDone, CommandDone, Named, SameLists, Lists, kernel, thread, callers
<1>15. CASE TriggerWrite
  BY <1>15, Obeyed DEF Comes, TriggerWrite, Cmd, kernel, thread, callers
<1>16. CASE CloseDone
  BY <1>16, Obeyed DEF Comes, CloseDone, CommandDone, Named, SameLists, Lists, kernel, thread, callers
<1>17. CASE Drained
  BY <1>17 DEF Comes, Drained, kernel, thread, callers
<1>18. CASE CloseSlotDone
  BY <1>18, Telling DEF Comes, CloseSlotDone, Kept, Named, Lists, kernel, thread, callers
<1>19. CASE Poll
  BY <1>19 DEF Comes, Poll, Ready, kernel, thread, callers
<1>20. ASSUME EventDone, NEW what \in {"none", "data", "err"}, Still(what) PROVE CalmStep
  BY <1>20, Telling DEF Comes, EventDone, Handling, Kept, Named, Still, SameLists, Lists, NextOf, kernel,
     thread, callers
<1>21. ASSUME EventDone, Opening PROVE CalmStep
  BY <1>21, Telling DEF Comes, EventDone, Handling, Kept, Named, Opening, SameLists, Lists, NextOf, kernel,
     thread, callers
<1>22. ASSUME EventDone, Dropping PROVE CalmStep
  BY <1>22 DEF Comes, EventDone, Handling, Kept, Named, Dropping, Lists, kernel, thread, callers
<1>23. ASSUME EventDone, Halved PROVE CalmStep
  BY <1>23, Telling DEF Comes, EventDone, Handling, Kept, Named, Halved, SameLists, Lists, NextOf, kernel,
     thread, callers
<1>24. ASSUME EventDone, WroteAll PROVE CalmStep
  BY <1>24, Telling DEF Comes, EventDone, Handling, Kept, Named, WroteAll, Lists, NextOf, kernel, thread,
     callers
<1>25. ASSUME EventDone, NEW k \in 1 .. Len(Unsent) - 1, WroteSome(k) PROVE CalmStep
  BY <1>25, Telling DEF Comes, EventDone, Handling, Kept, Named, WroteSome, NextOf, kernel, thread, callers
<1>26. ASSUME EventDone, Broken PROVE CalmStep
  BY <1>26, Telling DEF Comes, EventDone, Handling, Kept, Named, Broken, Lists, NextOf, kernel, thread,
     callers
<1>27. CASE Connected \/ PeerData \/ PeerFin
  BY <1>27 DEF Comes, Connected, PeerData, PeerFin, Peer, kernel, thread, callers
<1>28. CASE Reset
  BY <1>28 DEF Comes, Reset, kernel, thread, callers
<1>29. CASE UNCHANGED vars
  BY <1>29 DEF Comes, vars, kernel, thread, callers
<1> QED
  BY <1>1, <1>2, <1>3, <1>4, <1>5, <1>6, <1>7, <1>8, <1>9, <1>10, <1>11, <1>12, <1>13, <1>14, <1>15, <1>16,
     <1>17, <1>18, <1>19, <1>20, <1>21, <1>22, <1>23, <1>24, <1>25, <1>26, <1>27, <1>28, <1>29, Steps
     DEF Comes, StepOf

(* Any other step keeps what holds of the messages under way.              *)
LEMMA JobsStay ==
  ASSUME TypeOK, Jobs, Calm
  PROVE  Jobs'
<1>1. /\ box' = box /\ job' = job
      /\ \A v \in Service : at'[v] \in Busy => at[v] \in Busy
      /\ \A v \in Service : at'[v] \in Busy \cup {"trigger"} => at[v] \in Busy \cup {"trigger"}
  BY DEF Calm
<1>2. \A v \in Service : at'[v] \in Busy \cup {"trigger"} =>
       /\ job'[v] \in 1 .. Len(box') /\ box'[job'[v]].by = v
       /\ \A n \in 1 .. Len(box') : box'[n].by = v => n <= job'[v]
  BY <1>1 DEF Jobs
<1>3. CASE pipe' = pipe
  BY <1>1, <1>2, <1>3 DEF Jobs
<1>4. CASE pipe # <<>> /\ pipe' = Tail(pipe)
  <2>1. \A i \in 1 .. Len(pipe') : i + 1 \in 1 .. Len(pipe) /\ pipe'[i] = pipe[i + 1]
    BY <1>4, Obeyed, Zenon
  <2>2. \A i \in 1 .. Len(pipe') : pipe'[i].op \in Sends =>
          /\ pipe'[i].m \in 1 .. Len(box) /\ pipe'[i].id = box[pipe'[i].m].to
          /\ \A v \in Service : at[v] \in Busy => pipe'[i].m # job[v]
    BY <2>1 DEF Jobs
  <2>3. ASSUME NEW i \in 1 .. Len(pipe'), NEW k \in 1 .. Len(pipe'), i < k, pipe'[i].op \in Sends, pipe'[k].op \in Sends
        PROVE  pipe'[i].m # pipe'[k].m /\ (box[pipe'[i].m].by = box[pipe'[k].m].by => pipe'[i].m < pipe'[k].m)
    <3>1. i + 1 < k + 1
      BY <2>3
    <3>2. i + 1 \in 1 .. Len(pipe) /\ k + 1 \in 1 .. Len(pipe) /\ pipe'[i] = pipe[i + 1] /\ pipe'[k] = pipe[k + 1]
      BY <2>1
    <3>3. \A g, h \in 1 .. Len(pipe) : g < h /\ pipe[g].op \in Sends /\ pipe[h].op \in Sends =>
            pipe[g].m # pipe[h].m /\ (box[pipe[g].m].by = box[pipe[h].m].by => pipe[g].m < pipe[h].m)
      BY DEF Jobs
    <3>4. pipe[i + 1].op \in Sends /\ pipe[k + 1].op \in Sends
      BY <2>3, <3>2
    <3> QED
      BY <3>1, <3>2, <3>3, <3>4
  <2> QED
    BY <1>1, <1>2, <2>2, <2>3 DEF Jobs
<1>5. ASSUME NEW c, pipe' = Append(pipe, c), c.op \in {"O", "W", "K"} PROVE Jobs'
  <2>1. \A i \in 1 .. Len(pipe') : pipe'[i].op \in Sends => i \in 1 .. Len(pipe) /\ pipe'[i] = pipe[i]
    BY <1>5, Requested DEF Sends
  <2>2. \A i \in 1 .. Len(pipe') : pipe'[i].op \in Sends =>
          /\ pipe'[i].m \in 1 .. Len(box) /\ pipe'[i].id = box[pipe'[i].m].to
          /\ \A v \in Service : at[v] \in Busy => pipe'[i].m # job[v]
    BY <2>1 DEF Jobs
  <2>3. \A i, k \in 1 .. Len(pipe') : i < k /\ pipe'[i].op \in Sends /\ pipe'[k].op \in Sends =>
          pipe'[i].m # pipe'[k].m /\ (box[pipe'[i].m].by = box[pipe'[k].m].by => pipe'[i].m < pipe'[k].m)
    BY <2>1 DEF Jobs
  <2> QED
    BY <1>1, <1>2, <2>2, <2>3 DEF Jobs
<1> QED
  BY <1>3, <1>4, <1>5 DEF Calm, Comes

(* Every step keeps what holds of the messages under way.                  *)
LEMMA NextJobs ==
  ASSUME Fields, TypeOK, Jobs, [Next]_vars
  PROVE  Jobs'
<1>1. ASSUME NEW v \in Service, NEW c \in Id, Send(v, c) PROVE Jobs'
  <2> DEFINE m == Len(box) + 1
  <2>1. /\ at[v] = "idle" /\ box' = Append(box, [by |-> v, to |-> c]) /\ job' = [job EXCEPT ![v] = m] /\ pipe' = pipe
        /\ \A w \in Service : w # v => at'[w] = at[w]
        /\ at'[v] \in {"try", "count"}
    BY <1>1 DEF Send, Goto, TypeOK, Values, Queues, Calls
  <2>2. /\ box \in Seq([by : Service, to : Id]) /\ Len(box) \in Nat /\ Len(box') = m
        /\ \A n \in 1 .. Len(box) : box'[n] = box[n]
        /\ box'[m].by = v
        /\ \A n \in 1 .. Len(box') : n \in 1 .. Len(box) \/ n = m
        /\ 1 .. Len(box) \subseteq 1 .. Len(box')
    <3>1. box \in Seq([by : Service, to : Id])
      BY DEF TypeOK, Calls
    <3>2. PICK b, d, x : b = box /\ d = box' /\ x = [by |-> v, to |-> c]
      OBVIOUS
    <3>3. b \in Seq([by : Service, to : Id]) /\ d = Append(b, x) /\ x.by = v
      BY <2>1, <3>1, <3>2
    <3>4. Len(b) \in Nat /\ Len(d) = Len(b) + 1 /\ (\A n \in 1 .. Len(b) : d[n] = b[n]) /\ d[Len(b) + 1] = x
      BY ONLY <3>3
    <3>5. /\ \A n \in 1 .. Len(d) : n \in 1 .. Len(b) \/ n = Len(b) + 1
          /\ 1 .. Len(b) \subseteq 1 .. Len(d)
      BY ONLY <3>4
    <3> QED
      BY <3>1, <3>2, <3>3, <3>4, <3>5
  <2>3. \A w \in Service : at'[w] \in Busy \cup {"trigger"} =>
       /\ job'[w] \in 1 .. Len(box') /\ box'[job'[w]].by = w
       /\ \A n \in 1 .. Len(box') : box'[n].by = w => n <= job'[w]
    <3> SUFFICES ASSUME NEW w \in Service, at'[w] \in Busy \cup {"trigger"}
                 PROVE  /\ job'[w] \in 1 .. Len(box') /\ box'[job'[w]].by = w
                        /\ \A n \in 1 .. Len(box') : box'[n].by = w => n <= job'[w]
      OBVIOUS
    <3>1. CASE w = v
      BY <2>1, <2>2, <3>1 DEF TypeOK, Values, Queues, Calls
    <3>2. CASE w # v
      <4>1. at[w] \in Busy \cup {"trigger"} /\ job'[w] = job[w]
        BY <2>1, <3>2 DEF TypeOK, Values, Queues, Calls
      <4>2. job[w] \in 1 .. Len(box) /\ box[job[w]].by = w /\ \A n \in 1 .. Len(box) : box[n].by = w => n <= job[w]
        BY <4>1 DEF Jobs
      <4> QED
        BY <2>2, <3>2, <4>1, <4>2
    <3> QED
      BY <3>1, <3>2
  <2>4. \A i \in 1 .. Len(pipe') : pipe'[i].op \in Sends => pipe'[i].m \in 1 .. Len(box') /\ pipe'[i].id = box'[pipe'[i].m].to
    BY <2>1, <2>2 DEF Jobs
  <2>5. \A i, k \in 1 .. Len(pipe') : i < k /\ pipe'[i].op \in Sends /\ pipe'[k].op \in Sends =>
          pipe'[i].m # pipe'[k].m /\ (box'[pipe'[i].m].by = box'[pipe'[k].m].by => pipe'[i].m < pipe'[k].m)
    <3>1. \A i \in 1 .. Len(pipe) : pipe[i].op \in Sends => pipe[i].m \in 1 .. Len(box)
      BY DEF Jobs
    <3>2. \A i \in 1 .. Len(pipe) : pipe[i].op \in Sends => box'[pipe[i].m] = box[pipe[i].m]
      BY <2>2, <3>1, Zenon
    <3> QED
      BY <2>1, <3>2 DEF Jobs
  <2>6. ASSUME NEW w \in Service, NEW i \in 1 .. Len(pipe'), at'[w] \in Busy, pipe'[i].op \in Sends
        PROVE  pipe'[i].m # job'[w]
    <3>1. CASE w = v
      <4>1. job'[w] = m /\ pipe'[i].m \in 1 .. Len(box)
        BY <2>1, <2>6, <3>1 DEF Jobs, TypeOK, Values, Queues, Calls
      <4> QED
        BY <2>2, <4>1
    <3>2. CASE w # v
      BY <2>1, <2>6, <3>2 DEF Jobs, TypeOK, Values, Queues, Calls
    <3> QED
      BY <3>1, <3>2
  <2> QED
    BY <2>3, <2>4, <2>5, <2>6 DEF Jobs
<1>2. ASSUME NEW v \in Service, Post(v) PROVE Jobs'
  <2> DEFINE m == job[v] k == Command(IF m \in Low THEN "P" ELSE "D", box[m].to, m)
  <2>1. /\ at[v] = "post" /\ pipe' = Append(pipe, k) /\ box' = box /\ job' = job
        /\ \A w \in Service : w # v => at'[w] = at[w]
        /\ at'[v] = "idle"
    BY <1>2 DEF Post, Request, Goto, TypeOK, Values, Queues, Calls
  <2>2. k.op \in Sends /\ k.m = m /\ k.id = box[m].to
    BY DEF Command, Sends
  <2>3. /\ m \in 1 .. Len(box) /\ box[m].by = v
        /\ \A n \in 1 .. Len(box) : box[n].by = v => n <= m
        /\ \A i \in 1 .. Len(pipe) : pipe[i].op \in Sends => pipe[i].m # m
    BY <2>1 DEF Jobs, Busy
  <2>4. \A w \in Service : at'[w] \in Busy \cup {"trigger"} => at[w] \in Busy \cup {"trigger"} /\ w # v
    BY <2>1 DEF Busy
  <2> HIDE DEF k, m
  <2>5. /\ Len(pipe') = Len(pipe) + 1 /\ Len(pipe) \in Nat
        /\ \A i \in 1 .. Len(pipe) : pipe'[i] = pipe[i]
        /\ pipe'[Len(pipe) + 1] = k
        /\ \A i \in 1 .. Len(pipe') : i \in 1 .. Len(pipe) \/ i = Len(pipe) + 1
    BY <2>1, Requested
  <2>6. \A w \in Service : at'[w] \in Busy \cup {"trigger"} =>
       /\ job'[w] \in 1 .. Len(box') /\ box'[job'[w]].by = w
       /\ \A n \in 1 .. Len(box') : box'[n].by = w => n <= job'[w]
    BY <2>1, <2>4 DEF Jobs
  <2>7. \A i \in 1 .. Len(pipe') : pipe'[i].op \in Sends => pipe'[i].m \in 1 .. Len(box') /\ pipe'[i].id = box'[pipe'[i].m].to
    BY <2>1, <2>2, <2>3, <2>5 DEF Jobs
  <2>8. ASSUME NEW i \in 1 .. Len(pipe'), NEW j \in 1 .. Len(pipe'), i < j, pipe'[i].op \in Sends, pipe'[j].op \in Sends
        PROVE  pipe'[i].m # pipe'[j].m /\ (box'[pipe'[i].m].by = box'[pipe'[j].m].by => pipe'[i].m < pipe'[j].m)
    <3>1. i \in 1 .. Len(pipe)
      BY <2>5, <2>8
    <3>2. CASE j \in 1 .. Len(pipe)
      BY <2>1, <2>5, <2>8, <3>1, <3>2 DEF Jobs
    <3>3. CASE j = Len(pipe) + 1
      <4>1. pipe'[i] = pipe[i] /\ pipe'[j] = k /\ pipe[i].m \in 1 .. Len(box) /\ pipe[i].m # m
        BY <2>3, <2>5, <2>8, <3>1, <3>3 DEF Jobs
      <4>2. m \in Nat /\ pipe[i].m \in Nat
        BY <2>3, <4>1
      <4>3. ASSUME box[pipe[i].m].by = box[m].by PROVE pipe[i].m < m
        <5>1. pipe[i].m <= m
          BY <2>3, <4>1, <4>3, Zenon
        <5> QED
          BY <4>1, <4>2, <5>1
      <4> QED
        BY <2>1, <2>2, <4>1, <4>3
    <3> QED
      BY <2>5, <3>2, <3>3
  <2>9. ASSUME NEW w \in Service, NEW i \in 1 .. Len(pipe'), at'[w] \in Busy, pipe'[i].op \in Sends
        PROVE  pipe'[i].m # job'[w]
    <3>1. at[w] \in Busy /\ w # v
      BY <2>1, <2>9 DEF Busy
    <3>2. CASE i \in 1 .. Len(pipe)
      BY <2>1, <2>5, <2>9, <3>1, <3>2 DEF Jobs
    <3>3. CASE i = Len(pipe) + 1
      <4>1. box[job[w]].by = w
        BY <3>1 DEF Jobs
      <4> QED
        BY <2>1, <2>2, <2>3, <2>5, <3>1, <3>3, <4>1
    <3> QED
      BY <2>5, <3>2, <3>3
  <2> QED
    BY <2>6, <2>7, <2>8, <2>9 DEF Jobs
<1> QED
  BY <1>1, <1>2, Calms, JobsStay DEF CalmStep

(* A connection that was once made or given up is never new again.         *)
LEMMA Unopens ==
  ASSUME Fields, TypeOK, Slots, Opens, [Next]_vars
  PROVE  \A n \in Id : Unopened(n)' => Unopened(n)
<1> USE Parameters DEF Unopened, Fresh, Slots, TypeOK, Values, Queues, Calls, Fields, Established
<1>1. ASSUME NEW v \in Service, NEW c \in Id, Send(v, c) PROVE \A n \in Id : Unopened(n)' => Unopened(n)
  BY <1>1 DEF Send, Goto, kernel, thread, callers
<1>2. ASSUME NEW v \in Service, TryLock(v) PROVE \A n \in Id : Unopened(n)' => Unopened(n)
  BY <1>2 DEF TryLock, Goto, kernel, thread, callers
<1>3. ASSUME NEW v \in Service, DirectDone(v) PROVE \A n \in Id : Unopened(n)' => Unopened(n)
  <2>1. last' = last /\ slot'.type = slot.type
    BY <1>3, Zenon DEF DirectDone
  <2> QED
    BY <2>1
<1>4. ASSUME NEW v \in Service, Trigger(v) PROVE \A n \in Id : Unopened(n)' => Unopened(n)
  BY <1>4, Requested DEF Trigger, Goto, Request, Command, kernel, thread, callers
<1>5. ASSUME NEW v \in Service, IncSending(v) PROVE \A n \in Id : Unopened(n)' => Unopened(n)
  BY <1>5 DEF IncSending, Goto, kernel, thread, callers
<1>6. ASSUME NEW v \in Service, Post(v) PROVE \A n \in Id : Unopened(n)' => Unopened(n)
  BY <1>6, Requested DEF Post, Goto, Request, Command, kernel, thread, callers
<1>7. CASE Reserve
  <2>1. last' = last + 1 /\ last \in Int /\ slot'.type = "reserve"
    BY <1>7 DEF Reserve
  <2>2. ASSUME NEW n \in Id, Unopened(n)' PROVE n > last
    <3>1. n > last + 1 \/ n = last + 1
      BY <2>1, <2>2
    <3> QED
      BY ONLY <2>1, <3>1, n \in Id, Parameters DEF Id
  <2> QED
    BY <2>2
<1>8. CASE SetId
  BY <1>8 DEF SetId, Goto, kernel, thread, callers
<1>9. CASE OpenRequest
  BY <1>9, Requested DEF OpenRequest, Goto, Request, Command, kernel, thread, callers
<1>10. ASSUME NEW c \in Id, Close(c) PROVE \A n \in Id : Unopened(n)' => Unopened(n)
  BY <1>10, Requested DEF Close, Request, Command, kernel, thread, callers
<1>11. ASSUME NEW c \in Id, Shutdown(c) PROVE \A n \in Id : Unopened(n)' => Unopened(n)
  BY <1>11, Requested DEF Shutdown, Request, Command, kernel, thread, callers
<1>12. ASSUME NEW c \in Id, OnError(c) PROVE \A n \in Id : Unopened(n)' => Unopened(n)
  BY <1>12, Requested DEF OnError, Request, Command, kernel, thread, callers
<1>13. CASE OpenDone
  BY <1>13, Obeyed, Telling DEF OpenDone, CommandDone, SameLists, Lists, kernel, thread, callers
<1>14. CASE SendDone
  BY <1>14, Obeyed DEF SendDone, CommandDone, Named, SameLists, Lists, kernel, thread, callers
<1>15. CASE TriggerWrite
  BY <1>15, Obeyed DEF TriggerWrite, Cmd, kernel, thread, callers
<1>16. CASE CloseDone
  BY <1>16, Obeyed DEF CloseDone, CommandDone, Named, SameLists, Lists, kernel, thread, callers
<1>17. CASE Drained
  BY <1>17 DEF Drained, kernel, thread, callers
<1>18. CASE CloseSlotDone
  BY <1>18, Telling DEF CloseSlotDone, Kept, Named, Lists, kernel, thread, callers
<1>19. CASE Poll
  BY <1>19 DEF Poll, Ready, kernel, thread, callers
<1>20. ASSUME EventDone, NEW what \in {"none", "data", "err"}, Still(what)
       PROVE  \A n \in Id : Unopened(n)' => Unopened(n)
  BY <1>20, Telling DEF EventDone, Handling, Kept, Named, Still, SameLists, Lists, NextOf, kernel, thread,
     callers
<1>21. ASSUME EventDone, Opening PROVE \A n \in Id : Unopened(n)' => Unopened(n)
  BY <1>21, Telling DEF EventDone, Handling, Kept, Named, Opening, SameLists, Lists, NextOf, kernel, thread,
     callers
<1>22. ASSUME EventDone, Dropping PROVE \A n \in Id : Unopened(n)' => Unopened(n)
  BY <1>22 DEF EventDone, Handling, Kept, Named, Dropping, Lists, kernel, thread, callers
<1>23. ASSUME EventDone, Halved PROVE \A n \in Id : Unopened(n)' => Unopened(n)
  BY <1>23, Telling DEF EventDone, Handling, Kept, Named, Halved, SameLists, Lists, NextOf, kernel, thread,
     callers
<1>24. ASSUME EventDone, WroteAll PROVE \A n \in Id : Unopened(n)' => Unopened(n)
  BY <1>24, Telling DEF EventDone, Handling, Kept, Named, WroteAll, Lists, NextOf, kernel, thread, callers
<1>25. ASSUME EventDone, NEW k \in 1 .. Len(Unsent) - 1, WroteSome(k)
       PROVE  \A n \in Id : Unopened(n)' => Unopened(n)
  BY <1>25, Telling DEF EventDone, Handling, Kept, Named, WroteSome, NextOf, kernel, thread, callers
<1>26. ASSUME EventDone, Broken PROVE \A n \in Id : Unopened(n)' => Unopened(n)
  BY <1>26, Telling DEF EventDone, Handling, Kept, Named, Broken, Lists, NextOf, kernel, thread, callers
<1>27. CASE Connected \/ PeerData \/ PeerFin
  BY <1>27 DEF Connected, PeerData, PeerFin, Peer, kernel, thread, callers
<1>28. CASE Reset
  BY <1>28 DEF Reset, kernel, thread, callers
<1>29. CASE UNCHANGED vars
  BY <1>29 DEF vars, kernel, thread, callers
<1> QED
  BY <1>1, <1>2, <1>3, <1>4, <1>5, <1>6, <1>7, <1>8, <1>9, <1>10, <1>11, <1>12, <1>13, <1>14, <1>15, <1>16,
     <1>17, <1>18, <1>19, <1>20, <1>21, <1>22, <1>23, <1>24, <1>25, <1>26, <1>27, <1>28, <1>29, Steps
     DEF StepOf

(* Every step keeps the slot counting for its own connection.              *)
LEMMA NextLinked ==
  ASSUME Fields, TypeOK, Slots, Opens, Jobs, Quiet, [Next]_vars
  PROVE  Linked'
<1> USE Parameters DEF Linked, Quiet, Fields, TypeOK, Values, Queues, Calls, Slots, Established
<1>1. ASSUME NEW v \in Service, NEW c \in Id, Send(v, c) PROVE Linked'
  BY <1>1 DEF Send, Goto, kernel, thread, callers
<1>2. ASSUME NEW v \in Service, TryLock(v) PROVE Linked'
  <2>1. slot' = slot /\ told' = told
    BY <1>2 DEF TryLock
  <2> QED
    BY <2>1
<1>3. ASSUME NEW v \in Service, DirectDone(v) PROVE Linked'
  <2>1. slot'.type = slot.type /\ told' = told /\ slot'.id = slot.id /\ slot'.tcp = slot.tcp /\ slot'.tag = slot.tag
    BY <1>3, Zenon DEF DirectDone, Kept, Named
  <2> QED
    BY <2>1
<1>4. ASSUME NEW v \in Service, Trigger(v) PROVE Linked'
  BY <1>4, Requested DEF Trigger, Goto, Request, Command, kernel, thread, callers
<1>5. ASSUME NEW v \in Service, IncSending(v) PROVE Linked'
  BY <1>5 DEF IncSending, Goto, kernel, thread, callers
<1>6. ASSUME NEW v \in Service, Post(v) PROVE Linked'
  BY <1>6, Requested DEF Post, Goto, Request, Command, kernel, thread, callers
<1>7. CASE Reserve
  BY <1>7 DEF Reserve, Goto, kernel, thread, callers
<1>8. CASE SetId
  <2>1. slot'.id = last /\ slot'.tcp = FALSE /\ slot'.type = "reserve" /\ told' = told
    BY <1>8 DEF SetId
  <2>2. Unopened(last) /\ last > 0
    BY <1>8 DEF SetId, Unopened, Fresh
  <2>3. ~told[last].open
    BY <2>2 DEF Untold, Id
  <2> QED
    BY <2>1, <2>3
<1>9. CASE OpenRequest
  BY <1>9, Requested DEF OpenRequest, Goto, Request, Command, kernel, thread, callers
<1>10. ASSUME NEW c \in Id, Close(c) PROVE Linked'
  BY <1>10, Requested DEF Close, Request, Command, kernel, thread, callers
<1>11. ASSUME NEW c \in Id, Shutdown(c) PROVE Linked'
  BY <1>11, Requested DEF Shutdown, Request, Command, kernel, thread, callers
<1>12. ASSUME NEW c \in Id, OnError(c) PROVE Linked'
  <2>1. slot' = slot /\ told' = [told EXCEPT ![c].err = FALSE]
    BY <1>12 DEF OnError
  <2>2. \A d \in Id : told'[d].open = told[d].open
    BY <2>1
  <2> QED
    BY <2>1, <2>2
<1>13. CASE OpenDone
  <2>1. slot.type = "reserve" /\ slot.id = last /\ Head(pipe).id = last
    <3>1. slot.type = "reserve" /\ Head(pipe).id = last /\ at[Owner] \notin {"name", "open"}
      BY ONLY <1>13, TypeOK, Opens, OpensLast
    <3> QED
      BY ONLY <3>1, Slots DEF Slots
  <2>2. slot'.id = slot.id
    BY <1>13 DEF OpenDone
  <2>3. CASE slot'.type = "invalid" /\ slot'.tcp = slot.tcp /\ slot'.tag = slot.tag /\ Tell(Head(pipe).id, "err")
    <3>1. \A d \in Id : told'[d].open <=> told[d].open
      BY <2>3, Telling
    <3> QED
      BY <2>2, <2>3, <3>1
  <2>4. CASE slot'.tcp = TRUE /\ slot'.tag = Head(pipe).id
    BY <2>1, <2>2, <2>4
  <2> QED
    BY <1>13, <2>3, <2>4 DEF OpenDone
<1>14. CASE SendDone
  BY <1>14, Obeyed DEF SendDone, CommandDone, Named, SameLists, Lists, kernel, thread, callers
<1>15. CASE TriggerWrite
  BY <1>15, Obeyed DEF TriggerWrite, Cmd, kernel, thread, callers
<1>16. CASE CloseDone
  <2>1. slot'.id = slot.id /\ slot'.tcp = slot.tcp /\ slot'.tag = slot.tag
    BY <1>16, Zenon DEF CloseDone, Named
  <2>2. \A d \in Id : told'[d].open <=> told[d].open
    BY <1>16 DEF CloseDone
  <2>3. slot'.type \in {"connecting"} \cup Established => slot.type \in {"connecting"} \cup Established
    <3>1. CASE Invalid(Head(pipe).id)
      BY <1>16, <3>1 DEF CloseDone
    <3>2. CASE ~Invalid(Head(pipe).id)
      BY <1>16, <3>2, Opened DEF CloseDone, CommandDone
    <3> QED
      BY <3>1, <3>2
  <2> QED
    BY <2>1, <2>2, <2>3
<1>17. CASE Drained
  BY <1>17 DEF Drained, kernel, thread, callers
<1>18. CASE CloseSlotDone
  BY <1>18, Telling DEF CloseSlotDone, Kept, Named, Lists, kernel, thread, callers
<1>19. CASE Poll
  BY <1>19 DEF Poll, Ready, kernel, thread, callers
<1>20. ASSUME EventDone, NEW what \in {"none", "data", "err"}, Still(what) PROVE Linked'
  BY <1>20, Telling DEF EventDone, Handling, Kept, Named, Still, SameLists, Lists, NextOf, kernel, thread,
     callers
<1>21. ASSUME EventDone, Opening PROVE Linked'
  BY <1>21, Telling DEF EventDone, Handling, Kept, Named, Opening, SameLists, Lists, NextOf, kernel, thread,
     callers
<1>22. ASSUME EventDone, Dropping PROVE Linked'
  BY <1>22 DEF EventDone, Handling, Kept, Named, Dropping, Lists, kernel, thread, callers
<1>23. ASSUME EventDone, Halved PROVE Linked'
  BY <1>23, Telling DEF EventDone, Handling, Kept, Named, Halved, SameLists, Lists, NextOf, kernel, thread,
     callers
<1>24. ASSUME EventDone, WroteAll PROVE Linked'
  BY <1>24, Telling DEF EventDone, Handling, Kept, Named, WroteAll, Lists, NextOf, kernel, thread, callers
<1>25. ASSUME EventDone, NEW k \in 1 .. Len(Unsent) - 1, WroteSome(k) PROVE Linked'
  BY <1>25, Telling DEF EventDone, Handling, Kept, Named, WroteSome, NextOf, kernel, thread, callers
<1>26. ASSUME EventDone, Broken PROVE Linked'
  BY <1>26, Telling DEF EventDone, Handling, Kept, Named, Broken, Lists, NextOf, kernel, thread, callers
<1>27. CASE Connected \/ PeerData \/ PeerFin
  <2> HIDE DEF Fields, TypeOK, Values, Queues, Calls
  <2>1. UNCHANGED <<slot, wire, pipe, tp, event, result, at, job, last, box, asked, told>>
    BY <1>27, Peering
  <2> QED
    BY <2>1
<1>28. CASE Reset
  <2>1. slot' = slot /\ told' = [told EXCEPT ![slot.id].died = TRUE]
    BY <1>28 DEF Reset
  <2>2. \A d \in Id : told'[d].open = told[d].open
    BY <2>1
  <2> QED
    BY <2>1, <2>2
<1>29. CASE UNCHANGED vars
  BY <1>29 DEF vars, kernel, thread, callers
<1> QED
  BY <1>1, <1>2, <1>3, <1>4, <1>5, <1>6, <1>7, <1>8, <1>9, <1>10, <1>11, <1>12, <1>13, <1>14, <1>15, <1>16,
     <1>17, <1>18, <1>19, <1>20, <1>21, <1>22, <1>23, <1>24, <1>25, <1>26, <1>27, <1>28, <1>29, Steps
     DEF StepOf

(* The slot never has an id that was not given out.                        *)
LEMMA IdLow ==
  ASSUME TypeOK, Slots
  PROVE  ~(slot.id > last)
BY Parameters DEF TypeOK, Values, Queues, Calls, Slots, Id

(* Nothing is told of a connection that is not made as long as a step      *)
(* tells nothing of one that stays so.                                     *)
LEMMA UntoldStay ==
  ASSUME Fields, TypeOK, Slots, Opens, Untold, [Next]_vars,
         \A d \in Id : ~Unopened(d)' \/ (told'[d] = told[d] /\ wire'[d] = wire[d])
  PROVE  Untold'
<1>1. ASSUME NEW d \in Id, Unopened(d)' PROVE told'[d] = told[d] /\ wire'[d] = wire[d] /\ Unopened(d)
  BY <1>1, Unopens
<1> QED
  BY <1>1, Zenon DEF Untold

(* Every step tells nothing of a connection that is not made.              *)
LEMMA NextUntold ==
  ASSUME Fields, TypeOK, Slots, Opens, Jobs, Quiet, [Next]_vars
  PROVE  Untold'
<1> USE Parameters
<1>1. ASSUME NEW v \in Service, NEW c \in Id, Send(v, c) PROVE Untold'
  BY <1>1, Unopens DEF Untold, Quiet, Fields, Send, Goto, kernel, thread, callers
<1>2. ASSUME NEW v \in Service, TryLock(v) PROVE Untold'
  BY <1>2, Unopens DEF Untold, Quiet, Fields, TryLock, Goto, kernel, thread, callers
<1>3. ASSUME NEW v \in Service, DirectDone(v) PROVE Untold'
  <2>1. last' = last /\ slot'.type = slot.type /\ told' = told
    BY <1>3, Zenon DEF DirectDone
  <2>2. CASE wire' = wire
    BY <2>1, <2>2, Unopens DEF Untold, Quiet
  <2>3. CASE wire' # wire
    <3>1. CanDirectWrite(box[job[v]].to)
      BY <1>3, <2>3, Zenon DEF DirectDone
    <3>2. \A d \in Id : d # slot.id => wire'[d] = wire[d]
      <4>1. \/ wire' = [wire EXCEPT ![slot.id] = @ \o SubSeq(Parts(job[v]), 1, Units)]
            \/ \E k \in 0 .. Units - 1 : wire' = [wire EXCEPT ![slot.id] = @ \o SubSeq(Parts(job[v]), 1, k)]
        <5>1. slot.id = box[job[v]].to
          BY <3>1 DEF CanDirectWrite
        <5> QED
          BY <1>3, <3>1, <5>1, Zenon DEF DirectDone
      <4> QED
        BY <4>1 DEF TypeOK, Values, Queues, Calls
    <3>3. \A d \in Id : d = slot.id => ~Unopened(d)'
      BY <2>1, <3>1, IdLow DEF Unopened, Fresh, CanDirectWrite
    <3> QED
      BY <2>1, <3>2, <3>3, UntoldStay DEF Quiet
  <2> QED
    BY <2>2, <2>3
<1>4. ASSUME NEW v \in Service, Trigger(v) PROVE Untold'
  BY <1>4, Unopens, Requested DEF Untold, Quiet, Fields, Trigger, Goto, Request, Command, kernel, thread,
     callers
<1>5. ASSUME NEW v \in Service, IncSending(v) PROVE Untold'
  BY <1>5, Unopens DEF Untold, Quiet, Fields, IncSending, Goto, kernel, thread, callers
<1>6. ASSUME NEW v \in Service, Post(v) PROVE Untold'
  BY <1>6, Unopens, Requested DEF Untold, Quiet, Fields, Post, Goto, Request, Command, kernel, thread, callers
<1>7. CASE Reserve
  BY <1>7, Unopens DEF Untold, Quiet, Fields, Reserve, Goto, kernel, thread, callers
<1>8. CASE SetId
  BY <1>8, Unopens DEF Untold, Quiet, Fields, SetId, Goto, kernel, thread, callers
<1>9. CASE OpenRequest
  BY <1>9, Unopens, Requested DEF Untold, Quiet, Fields, OpenRequest, Goto, Request, Command, kernel, thread,
     callers
<1>10. ASSUME NEW c \in Id, Close(c) PROVE Untold'
  BY <1>10, Unopens, Requested DEF Untold, Quiet, Fields, Close, Request, Command, kernel, thread, callers
<1>11. ASSUME NEW c \in Id, Shutdown(c) PROVE Untold'
  BY <1>11, Unopens, Requested DEF Untold, Quiet, Fields, Shutdown, Request, Command, kernel, thread, callers
<1>12. ASSUME NEW c \in Id, OnError(c) PROVE Untold'
  BY <1>12, Unopens, Requested DEF Untold, Quiet, Fields, OnError, Request, Command, kernel, thread, callers
<1>13. CASE OpenDone
  <2>1. Head(pipe).op = "O" /\ wire' = wire /\ last' = last /\ pipe # <<>> /\ pipe' = Tail(pipe)
    BY <1>13 DEF OpenDone, CommandDone
  <2>2. slot.type = "reserve" /\ Head(pipe).id = last
    BY <2>1, Obeyed DEF Opens
  <2>3. CASE slot'.type = "connecting" /\ told' = told
    BY <2>1, <2>3, Unopens DEF Untold, Quiet
  <2>4. CASE slot'.type \in {"invalid", "connected"} /\ \A d \in Id : d # last => told'[d] = told[d]
    <3>1. \A d \in Id : d = last => ~Unopened(d)'
      BY <2>1, <2>4 DEF Unopened, Fresh, Id
    <3> QED
      BY <2>1, <2>4, <3>1, UntoldStay DEF Quiet
  <2>5. slot'.type \in {"invalid", "connected"} => \A d \in Id : d # last => told'[d] = told[d]
    BY <1>13, <2>2, Telling DEF OpenDone
  <2>6. slot'.type \in {"invalid", "connected", "connecting"} /\ (slot'.type = "connecting" => told' = told)
    BY <1>13 DEF OpenDone
  <2> QED
    BY <2>3, <2>4, <2>5, <2>6
<1>14. CASE SendDone
  BY <1>14, Unopens, Obeyed DEF Untold, Quiet, Fields, SendDone, CommandDone, Named, SameLists, Lists,
     kernel, thread, callers
<1>15. CASE TriggerWrite
  BY <1>15, Unopens, Obeyed DEF Untold, Quiet, Fields, TriggerWrite, Cmd, kernel, thread, callers
<1>16. CASE CloseDone
  <2>1. wire' = wire
    BY <1>16 DEF CloseDone, CommandDone
  <2>2. CASE told' = told
    BY <2>1, <2>2, Unopens DEF Untold, Quiet
  <2>3. CASE ~Invalid(Head(pipe).id) /\ told' # told
    <3>1. slot.type \in Established /\ slot.id = last /\ Head(pipe).id = last
      BY <1>16, <2>3, Opened DEF CloseDone, CommandDone, Invalid
    <3>2. \A d \in Id : d = last => ~Unopened(d)
      BY <3>1, IdLow DEF Unopened, Fresh, Established
    <3>3. \A d \in Id : d # last => told'[d].open = told[d].open /\ told'[d].err = told[d].err /\ told'[d].closes = told[d].closes
      BY <1>16, <2>3, <3>1 DEF CloseDone
    <3>4. ASSUME NEW d \in Id, Unopened(d)'
          PROVE  ~told'[d].open /\ told'[d].closes = 0 /\ ~told'[d].err /\ wire'[d] = <<>>
      <4>1. Unopened(d) /\ d # last
        BY <3>2, <3>4, Unopens
      <4> QED
        BY <2>1, <3>3, <4>1 DEF Untold, Quiet
    <3> QED
      BY <3>4, Zenon DEF Untold
  <2> QED
    BY <1>16, <2>2, <2>3 DEF CloseDone
<1>17. CASE Drained
  BY <1>17, Unopens DEF Untold, Quiet, Fields, Drained, kernel, thread, callers
<1>18. CASE CloseSlotDone
  <2>1. \A d \in Id : d # slot.id => told'[d] = told[d] /\ wire'[d] = wire[d]
    BY <1>18, Telling DEF CloseSlotDone, TypeOK, Values, Queues, Calls, EventDone
  <2>2. \A d \in Id : d = slot.id => ~Unopened(d)'
    <3>1. slot'.type \notin {"reserve", "connecting"} /\ last' = last
      BY <1>18 DEF CloseSlotDone, EventDone, Established
    <3> QED
      BY <3>1, IdLow DEF Unopened, Fresh
  <2> QED
    BY <2>1, <2>2, UntoldStay DEF Quiet
<1>19. CASE Poll
  BY <1>19, Unopens DEF Untold, Quiet, Fields, Poll, Ready, kernel, thread, callers
<1>20. ASSUME EventDone, NEW what \in {"none", "data", "err"}, Still(what) PROVE Untold'
  <2>1. wire' = wire /\ last' = last /\ slot'.type = slot.type
    BY <1>20 DEF EventDone, Still
  <2>2. CASE slot.type \in Established
    <3>1. \A d \in Id : d # slot.id => told'[d] = told[d]
      BY <1>20, Telling DEF Still
    <3>2. \A d \in Id : d = slot.id => ~Unopened(d)'
      BY <2>1, <2>2, IdLow DEF Unopened, Fresh, Established
    <3> QED
      BY <2>1, <3>1, <3>2, UntoldStay DEF Quiet
  <2>3. CASE slot.type \notin Established
    <3>1. \A d \in Id : (told'[d].open <=> told[d].open) /\ (told'[d].err <=> told[d].err) /\ told'[d].closes = told[d].closes
      BY <1>20, <2>3, Telling DEF Still
    <3> QED
      BY <2>1, <3>1, Unopens DEF Untold, Quiet
  <2> QED
    BY <2>2, <2>3
<1>21. ASSUME EventDone, Opening PROVE Untold'
  <2>1. \A d \in Id : d # slot.id => told'[d] = told[d] /\ wire'[d] = wire[d]
    BY <1>21, Telling DEF Opening, TypeOK, Values, Queues, Calls, EventDone
  <2>2. \A d \in Id : d = slot.id => ~Unopened(d)'
    <3>1. slot'.type \notin {"reserve", "connecting"} /\ last' = last
      BY <1>21 DEF Opening, EventDone, Established
    <3> QED
      BY <3>1, IdLow DEF Unopened, Fresh
  <2> QED
    BY <2>1, <2>2, UntoldStay DEF Quiet
<1>22. ASSUME EventDone, Dropping PROVE Untold'
  BY <1>22, Unopens DEF Untold, Quiet, Fields, EventDone, Handling, Kept, Named, Dropping, Lists, kernel,
     thread, callers
<1>23. ASSUME EventDone, Halved PROVE Untold'
  <2>1. \A d \in Id : d # slot.id => told'[d] = told[d] /\ wire'[d] = wire[d]
    BY <1>23, Telling DEF Halved, TypeOK, Values, Queues, Calls, EventDone
  <2>2. \A d \in Id : d = slot.id => ~Unopened(d)'
    <3>1. slot'.type \notin {"reserve", "connecting"} /\ last' = last
      BY <1>23 DEF Halved, EventDone, Established
    <3> QED
      BY <3>1, IdLow DEF Unopened, Fresh
  <2> QED
    BY <2>1, <2>2, UntoldStay DEF Quiet
<1>24. ASSUME EventDone, WroteAll PROVE Untold'
  <2>1. \A d \in Id : d # slot.id => told'[d] = told[d] /\ wire'[d] = wire[d]
    BY <1>24, Telling DEF WroteAll, TypeOK, Values, Queues, Calls, EventDone
  <2>2. \A d \in Id : d = slot.id => ~Unopened(d)'
    <3>1. slot'.type \notin {"reserve", "connecting"} /\ last' = last
      BY <1>24 DEF WroteAll, EventDone, Established
    <3> QED
      BY <3>1, IdLow DEF Unopened, Fresh
  <2> QED
    BY <2>1, <2>2, UntoldStay DEF Quiet
<1>25. ASSUME EventDone, NEW k \in 1 .. Len(Unsent) - 1, WroteSome(k) PROVE Untold'
  <2>1. \A d \in Id : d # slot.id => told'[d] = told[d] /\ wire'[d] = wire[d]
    BY <1>25, Telling DEF WroteSome, TypeOK, Values, Queues, Calls, EventDone
  <2>2. \A d \in Id : d = slot.id => ~Unopened(d)'
    <3>1. slot'.type \notin {"reserve", "connecting"} /\ last' = last
      BY <1>25 DEF WroteSome, EventDone, Established
    <3> QED
      BY <3>1, IdLow DEF Unopened, Fresh
  <2> QED
    BY <2>1, <2>2, UntoldStay DEF Quiet
<1>26. ASSUME EventDone, Broken PROVE Untold'
  <2>1. \A d \in Id : d # slot.id => told'[d] = told[d] /\ wire'[d] = wire[d]
    BY <1>26, Telling DEF Broken, TypeOK, Values, Queues, Calls, EventDone
  <2>2. \A d \in Id : d = slot.id => ~Unopened(d)'
    <3>1. slot'.type \notin {"reserve", "connecting"} /\ last' = last
      BY <1>26 DEF Broken, EventDone, Established
    <3> QED
      BY <3>1, IdLow DEF Unopened, Fresh
  <2> QED
    BY <2>1, <2>2, UntoldStay DEF Quiet
<1>27. CASE Connected \/ PeerData \/ PeerFin
  BY <1>27, Unopens DEF Untold, Quiet, Fields, Connected, PeerData, PeerFin, Peer, kernel, thread, callers
<1>28. CASE Reset
  BY <1>28, Unopens DEF Untold, Quiet, Fields, Reset, kernel, thread, callers
<1>29. CASE UNCHANGED vars
  BY <1>29, Unopens DEF Untold, Quiet, Fields, vars, kernel, thread, callers
<1> QED
  BY <1>1, <1>2, <1>3, <1>4, <1>5, <1>6, <1>7, <1>8, <1>9, <1>10, <1>11, <1>12, <1>13, <1>14, <1>15, <1>16,
     <1>17, <1>18, <1>19, <1>20, <1>21, <1>22, <1>23, <1>24, <1>25, <1>26, <1>27, <1>28, <1>29, Steps
     DEF StepOf

(* What was reported open stays reported.                                  *)
LEMMA OpenStays ==
  ASSUME Fields, [Next]_vars
  PROVE  \A n \in Id : told[n].open => told'[n].open
<1> USE Parameters
<1>1. ASSUME NEW v \in Service, NEW c \in Id, Send(v, c)
      PROVE  \A n \in Id : told[n].open => told'[n].open
  BY <1>1 DEF Fields, Send, Goto, kernel, thread, callers
<1>2. ASSUME NEW v \in Service, TryLock(v) PROVE \A n \in Id : told[n].open => told'[n].open
  BY <1>2 DEF Fields, TryLock, Goto, kernel, thread, callers
<1>3. ASSUME NEW v \in Service, DirectDone(v) PROVE \A n \in Id : told[n].open => told'[n].open
  <2>1. told' = told
    BY <1>3, Zenon DEF DirectDone
  <2> QED
    BY <2>1
<1>4. ASSUME NEW v \in Service, Trigger(v) PROVE \A n \in Id : told[n].open => told'[n].open
  BY <1>4, Requested DEF Fields, Trigger, Goto, Request, Command, kernel, thread, callers
<1>5. ASSUME NEW v \in Service, IncSending(v) PROVE \A n \in Id : told[n].open => told'[n].open
  BY <1>5 DEF Fields, IncSending, Goto, kernel, thread, callers
<1>6. ASSUME NEW v \in Service, Post(v) PROVE \A n \in Id : told[n].open => told'[n].open
  BY <1>6, Requested DEF Fields, Post, Goto, Request, Command, kernel, thread, callers
<1>7. CASE Reserve
  BY <1>7 DEF Fields, Reserve, Goto, kernel, thread, callers
<1>8. CASE SetId
  BY <1>8 DEF Fields, SetId, Goto, kernel, thread, callers
<1>9. CASE OpenRequest
  BY <1>9, Requested DEF Fields, OpenRequest, Goto, Request, Command, kernel, thread, callers
<1>10. ASSUME NEW c \in Id, Close(c) PROVE \A n \in Id : told[n].open => told'[n].open
  BY <1>10, Requested DEF Fields, Close, Request, Command, kernel, thread, callers
<1>11. ASSUME NEW c \in Id, Shutdown(c) PROVE \A n \in Id : told[n].open => told'[n].open
  BY <1>11, Requested DEF Fields, Shutdown, Request, Command, kernel, thread, callers
<1>12. ASSUME NEW c \in Id, OnError(c) PROVE \A n \in Id : told[n].open => told'[n].open
  BY <1>12, Requested DEF Fields, OnError, Request, Command, kernel, thread, callers
<1>13. CASE OpenDone
  BY <1>13, Obeyed, Telling DEF Fields, OpenDone, CommandDone, SameLists, Lists, kernel, thread, callers
<1>14. CASE SendDone
  BY <1>14, Obeyed DEF Fields, SendDone, CommandDone, Named, SameLists, Lists, kernel, thread, callers
<1>15. CASE TriggerWrite
  BY <1>15, Obeyed DEF Fields, TriggerWrite, Cmd, kernel, thread, callers
<1>16. CASE CloseDone
  <2>1. told' = told \/ \A d \in Id : told'[d].open = told[d].open
    BY <1>16, Zenon DEF CloseDone
  <2> QED
    BY <2>1
<1>17. CASE Drained
  BY <1>17 DEF Fields, Drained, kernel, thread, callers
<1>18. CASE CloseSlotDone
  BY <1>18, Telling DEF Fields, CloseSlotDone, Kept, Named, Lists, kernel, thread, callers
<1>19. CASE Poll
  BY <1>19 DEF Fields, Poll, Ready, kernel, thread, callers
<1>20. ASSUME EventDone, NEW what \in {"none", "data", "err"}, Still(what)
       PROVE  \A n \in Id : told[n].open => told'[n].open
  BY <1>20, Telling DEF Fields, EventDone, Handling, Kept, Named, Still, SameLists, Lists, NextOf, kernel,
     thread, callers
<1>21. ASSUME EventDone, Opening PROVE \A n \in Id : told[n].open => told'[n].open
  BY <1>21, Telling DEF Fields, EventDone, Handling, Kept, Named, Opening, SameLists, Lists, NextOf, kernel,
     thread, callers
<1>22. ASSUME EventDone, Dropping PROVE \A n \in Id : told[n].open => told'[n].open
  BY <1>22 DEF Fields, EventDone, Handling, Kept, Named, Dropping, Lists, kernel, thread, callers
<1>23. ASSUME EventDone, Halved PROVE \A n \in Id : told[n].open => told'[n].open
  BY <1>23, Telling DEF Fields, EventDone, Handling, Kept, Named, Halved, SameLists, Lists, NextOf, kernel,
     thread, callers
<1>24. ASSUME EventDone, WroteAll PROVE \A n \in Id : told[n].open => told'[n].open
  BY <1>24, Telling DEF Fields, EventDone, Handling, Kept, Named, WroteAll, Lists, NextOf, kernel, thread,
     callers
<1>25. ASSUME EventDone, NEW k \in 1 .. Len(Unsent) - 1, WroteSome(k)
       PROVE  \A n \in Id : told[n].open => told'[n].open
  BY <1>25, Telling DEF Fields, EventDone, Handling, Kept, Named, WroteSome, NextOf, kernel, thread, callers
<1>26. ASSUME EventDone, Broken PROVE \A n \in Id : told[n].open => told'[n].open
  BY <1>26, Telling DEF Fields, EventDone, Handling, Kept, Named, Broken, Lists, NextOf, kernel, thread,
     callers
<1>27. CASE Connected \/ PeerData \/ PeerFin
  BY <1>27 DEF Fields, Connected, PeerData, PeerFin, Peer, kernel, thread, callers
<1>28. CASE Reset
  BY <1>28 DEF Fields, Reset, kernel, thread, callers
<1>29. CASE UNCHANGED vars
  BY <1>29 DEF Fields, vars, kernel, thread, callers
<1> QED
  BY <1>1, <1>2, <1>3, <1>4, <1>5, <1>6, <1>7, <1>8, <1>9, <1>10, <1>11, <1>12, <1>13, <1>14, <1>15, <1>16,
     <1>17, <1>18, <1>19, <1>20, <1>21, <1>22, <1>23, <1>24, <1>25, <1>26, <1>27, <1>28, <1>29, Steps
     DEF StepOf

(* The fields of messages and commands.                                    *)
LEMMA Contents ==
  ASSUME TypeOK
  PROVE  /\ \A m \in 1 .. Len(box) : box[m].to \in Id /\ box[m].by \in Service
         /\ \A i \in 1 .. Len(pipe) : pipe[i].op \in {"O", "D", "P", "W", "K"} /\ pipe[i].id \in Id /\ pipe[i].m \in Nat
<1>1. box \in Seq([by : Service, to : Id]) /\ pipe \in Seq(Commands)
  BY DEF TypeOK, Values, Queues, Calls
<1>2. \A m \in 1 .. Len(box) : box[m] \in [by : Service, to : Id]
  BY <1>1, ElementOfSeq
<1>3. \A i \in 1 .. Len(pipe) : pipe[i] \in Commands
  BY <1>1
<1> QED
  BY <1>2, <1>3 DEF Commands

(* What comes into the pipe.                                               *)
Asks ==
  \/ pipe' = pipe
  \/ pipe # <<>> /\ pipe' = Tail(pipe)
  \/ \E k \in Commands : pipe' = Append(pipe, k) /\ (k.op = "O" \/ ~Unopened(k.id))

(* Every step obeys a command, asks for one that is due, or leaves the     *)
(* pipe.                                                                   *)
LEMMA Requests ==
  ASSUME Fields, TypeOK, Slots, Opens, Jobs, Quiet, [Next]_vars
  PROVE  Asks
<1> USE Parameters
<1>1. ASSUME NEW v \in Service, NEW c \in Id, Send(v, c) PROVE Asks
  BY <1>1 DEF Asks, Send, Goto, kernel, thread, callers
<1>2. ASSUME NEW v \in Service, TryLock(v) PROVE Asks
  BY <1>2 DEF Asks, TryLock, Goto, kernel, thread, callers
<1>3. ASSUME NEW v \in Service, DirectDone(v) PROVE Asks
  <2>1. pipe' = pipe
    BY <1>3, Zenon DEF DirectDone
  <2> QED
    BY <2>1 DEF Asks
<1>4. ASSUME NEW v \in Service, Trigger(v) PROVE Asks
  <2>1. pipe' = Append(pipe, Command("W", box[job[v]].to, 0))
    BY <1>4 DEF Trigger, Request
  <2>2. Command("W", box[job[v]].to, 0) \in Commands /\ (Command("W", box[job[v]].to, 0).op = "O" \/ ~Unopened(Command("W", box[job[v]].to, 0).id))
    <3>1. job[v] \in 1 .. Len(box) /\ box[job[v]].to \in Id
      BY <1>4, Contents DEF Trigger, Jobs, Busy
    <3>2. ~Unopened(box[job[v]].to)
      BY <3>1 DEF Quiet, Aimed
    <3>3. job[v] \in Nat
      BY <1>4 DEF TypeOK, Values, Queues, Calls
    <3> QED
      BY <3>1, <3>2, <3>3 DEF Command, Commands
  <2> QED
    BY <2>1, <2>2, Zenon DEF Asks
<1>5. ASSUME NEW v \in Service, IncSending(v) PROVE Asks
  BY <1>5 DEF Asks, IncSending, Goto, kernel, thread, callers
<1>6. ASSUME NEW v \in Service, Post(v) PROVE Asks
  <2>1. pipe' = Append(pipe, Command(IF job[v] \in Low THEN "P" ELSE "D", box[job[v]].to, job[v]))
    BY <1>6 DEF Post, Request
  <2>2. Command(IF job[v] \in Low THEN "P" ELSE "D", box[job[v]].to, job[v]) \in Commands /\ (Command(IF job[v] \in Low THEN "P" ELSE "D", box[job[v]].to, job[v]).op = "O" \/ ~Unopened(Command(IF job[v] \in Low THEN "P" ELSE "D", box[job[v]].to, job[v]).id))
    <3>1. job[v] \in 1 .. Len(box) /\ box[job[v]].to \in Id
      BY <1>6, Contents DEF Post, Jobs, Busy
    <3>2. ~Unopened(box[job[v]].to)
      BY <3>1 DEF Quiet, Aimed
    <3>3. job[v] \in Nat
      BY <1>6 DEF TypeOK, Values, Queues, Calls
    <3> QED
      BY <3>1, <3>2, <3>3 DEF Command, Commands
  <2> QED
    BY <2>1, <2>2, Zenon DEF Asks
<1>7. CASE Reserve
  BY <1>7 DEF Asks, Reserve, Goto, kernel, thread, callers
<1>8. CASE SetId
  BY <1>8 DEF Asks, SetId, Goto, kernel, thread, callers
<1>9. CASE OpenRequest
  <2>1. pipe' = Append(pipe, Command("O", last, 0))
    BY <1>9 DEF OpenRequest, Request
  <2>2. Command("O", last, 0) \in Commands /\ (Command("O", last, 0).op = "O" \/ ~Unopened(Command("O", last, 0).id))
    <3>1. last \in Id
      BY <1>9 DEF OpenRequest, Slots, TypeOK, Values, Queues, Calls, Id
    <3> QED
      BY <3>1 DEF Command, Commands
  <2> QED
    BY <2>1, <2>2, Zenon DEF Asks
<1>10. ASSUME NEW c \in Id, Close(c) PROVE Asks
  <2>1. pipe' = Append(pipe, Command("K", c, 0))
    BY <1>10 DEF Close, Request
  <2>2. Command("K", c, 0) \in Commands /\ (Command("K", c, 0).op = "O" \/ ~Unopened(Command("K", c, 0).id))
    BY <1>10 DEF Close, Quiet, Untold, Command, Commands
  <2> QED
    BY <2>1, <2>2, Zenon DEF Asks
<1>11. ASSUME NEW c \in Id, Shutdown(c) PROVE Asks
  <2>1. pipe' = Append(pipe, Command("K", c, 1))
    BY <1>11 DEF Shutdown, Request
  <2>2. Command("K", c, 1) \in Commands /\ (Command("K", c, 1).op = "O" \/ ~Unopened(Command("K", c, 1).id))
    BY <1>11 DEF Shutdown, Quiet, Untold, Command, Commands
  <2> QED
    BY <2>1, <2>2, Zenon DEF Asks
<1>12. ASSUME NEW c \in Id, OnError(c) PROVE Asks
  <2>1. pipe' = Append(pipe, Command("K", c, 1))
    BY <1>12 DEF OnError, Request
  <2>2. Command("K", c, 1) \in Commands /\ (Command("K", c, 1).op = "O" \/ ~Unopened(Command("K", c, 1).id))
    BY <1>12 DEF OnError, Quiet, Untold, Command, Commands
  <2> QED
    BY <2>1, <2>2, Zenon DEF Asks
<1>13. CASE OpenDone
  <2>1. pipe # <<>> /\ pipe' = Tail(pipe)
    BY <1>13 DEF OpenDone, CommandDone
  <2> QED
    BY <2>1, Zenon DEF Asks
<1>14. CASE SendDone
  <2>1. pipe # <<>> /\ pipe' = Tail(pipe)
    BY <1>14 DEF SendDone, CommandDone
  <2> QED
    BY <2>1, Zenon DEF Asks
<1>15. CASE TriggerWrite
  <2>1. pipe # <<>> /\ pipe' = Tail(pipe)
    BY <1>15 DEF TriggerWrite, Cmd
  <2> QED
    BY <2>1, Zenon DEF Asks
<1>16. CASE CloseDone
  <2>1. pipe # <<>> /\ pipe' = Tail(pipe)
    BY <1>16 DEF CloseDone, CommandDone
  <2> QED
    BY <2>1, Zenon DEF Asks
<1>17. CASE Drained
  BY <1>17 DEF Asks, Drained, kernel, thread, callers
<1>18. CASE CloseSlotDone
  BY <1>18, Telling DEF Asks, CloseSlotDone, Kept, Named, Lists, kernel, thread, callers
<1>19. CASE Poll
  BY <1>19 DEF Asks, Poll, Ready, kernel, thread, callers
<1>20. ASSUME EventDone, NEW what \in {"none", "data", "err"}, Still(what) PROVE Asks
  BY <1>20, Telling DEF Asks, EventDone, Handling, Kept, Named, Still, SameLists, Lists, NextOf, kernel,
     thread, callers
<1>21. ASSUME EventDone, Opening PROVE Asks
  BY <1>21, Telling DEF Asks, EventDone, Handling, Kept, Named, Opening, SameLists, Lists, NextOf, kernel,
     thread, callers
<1>22. ASSUME EventDone, Dropping PROVE Asks
  BY <1>22 DEF Asks, EventDone, Handling, Kept, Named, Dropping, Lists, kernel, thread, callers
<1>23. ASSUME EventDone, Halved PROVE Asks
  BY <1>23, Telling DEF Asks, EventDone, Handling, Kept, Named, Halved, SameLists, Lists, NextOf, kernel,
     thread, callers
<1>24. ASSUME EventDone, WroteAll PROVE Asks
  BY <1>24, Telling DEF Asks, EventDone, Handling, Kept, Named, WroteAll, Lists, NextOf, kernel, thread,
     callers
<1>25. ASSUME EventDone, NEW k \in 1 .. Len(Unsent) - 1, WroteSome(k) PROVE Asks
  BY <1>25, Telling DEF Asks, EventDone, Handling, Kept, Named, WroteSome, NextOf, kernel, thread, callers
<1>26. ASSUME EventDone, Broken PROVE Asks
  BY <1>26, Telling DEF Asks, EventDone, Handling, Kept, Named, Broken, Lists, NextOf, kernel, thread, callers
<1>27. CASE Connected \/ PeerData \/ PeerFin
  BY <1>27 DEF Asks, Connected, PeerData, PeerFin, Peer, kernel, thread, callers
<1>28. CASE Reset
  BY <1>28 DEF Asks, Reset, kernel, thread, callers
<1>29. CASE UNCHANGED vars
  BY <1>29 DEF Asks, vars, kernel, thread, callers
<1> QED
  BY <1>1, <1>2, <1>3, <1>4, <1>5, <1>6, <1>7, <1>8, <1>9, <1>10, <1>11, <1>12, <1>13, <1>14, <1>15, <1>16,
     <1>17, <1>18, <1>19, <1>20, <1>21, <1>22, <1>23, <1>24, <1>25, <1>26, <1>27, <1>28, <1>29, Steps
     DEF StepOf

(* Every step keeps messages and commands aimed at connections that were   *)
(* made.                                                                   *)
LEMMA NextAimed ==
  ASSUME Fields, TypeOK, Slots, Opens, Jobs, Quiet, [Next]_vars
  PROVE  Aimed'
<1>1. \A m \in 1 .. Len(box') : box'[m].to \in Id /\ ~Unopened(box'[m].to) /\ told'[box'[m].to].open
  <2>1. ASSUME NEW v \in Service, NEW c \in Id, Send(v, c)
        PROVE  \A m \in 1 .. Len(box') : box'[m].to \in Id /\ ~Unopened(box'[m].to) /\ told'[box'[m].to].open
    <3>1. box' = Append(box, [by |-> v, to |-> c]) /\ told[c].open
      BY <2>1 DEF Send
    <3>2. ~Unopened(c)
      BY <3>1 DEF Quiet, Untold
    <3>3. \A m \in 1 .. Len(box') : box'[m].to = c \/ (m \in 1 .. Len(box) /\ box'[m] = box[m])
      <4>1. box \in Seq([by : Service, to : Id])
        BY DEF TypeOK, Values, Queues, Calls
      <4> QED
        BY <3>1, <4>1
    <3> QED
      BY <3>1, <3>2, <3>3, Contents, OpenStays DEF Quiet, Aimed
  <2>2. CASE box' = box
    BY <2>2, Contents, OpenStays DEF Quiet, Aimed
  <2> QED
    BY <2>1, <2>2, Calms DEF CalmStep, Calm, Post
<1>2. \A i \in 1 .. Len(pipe) : pipe[i].id \in Id /\ (pipe[i].op = "O" \/ ~Unopened(pipe[i].id))
  BY Contents DEF Quiet, Aimed
<1>3. \A i \in 1 .. Len(pipe') : pipe'[i].id \in Id /\ (pipe'[i].op = "O" \/ ~Unopened(pipe'[i].id))
  <2>1. CASE pipe' = pipe
    BY <1>2, <2>1
  <2>2. CASE pipe # <<>> /\ pipe' = Tail(pipe)
    <3>1. \A i \in 1 .. Len(pipe') : i + 1 \in 1 .. Len(pipe) /\ pipe'[i] = pipe[i + 1]
      BY <2>2, Obeyed, Zenon
    <3> QED
      BY <1>2, <3>1
  <2>3. ASSUME NEW k \in Commands, pipe' = Append(pipe, k), k.op = "O" \/ ~Unopened(k.id)
        PROVE  \A i \in 1 .. Len(pipe') : pipe'[i].id \in Id /\ (pipe'[i].op = "O" \/ ~Unopened(pipe'[i].id))
    BY <1>2, <2>3, Requested DEF Commands
  <2> QED
    BY <2>1, <2>2, <2>3, Requests DEF Asks
<1> QED
  BY <1>1, <1>3, Unopens DEF Aimed, Unopened, Fresh

(* The three together.                                                     *)
LEMMA NextQuiet ==
  ASSUME Fields, TypeOK, Slots, Opens, Jobs, Quiet, [Next]_vars
  PROVE  Quiet'
BY NextUntold, NextAimed, NextLinked DEF Quiet

(* A slot in use has the last id.                                          *)
LEMMA IdUsed ==
  ASSUME TypeOK, Slots, slot.type \notin {"invalid", "reserve"}
  PROVE  slot.id \in Id /\ slot.id = last
<1>1. at[Owner] # "name"
  BY Parameters DEF Slots
<1>2. slot.id = last /\ last > 0 /\ last \in 0 .. MaxId
  BY <1>1 DEF Slots, TypeOK, Values, Queues, Calls
<1> QED
  BY <1>2 DEF Id

(* What is told when nothing is opened or closed.                          *)
LEMMA ToldLittle ==
  ASSUME Fields, NEW c, NEW what \in {"none", "err"}, Tell(c, what)
  PROVE  \A d \in Id : told'[d].closes = told[d].closes /\ (told'[d].late <=> told[d].late)
BY Telling

(* Every step keeps what was told of closing.                              *)
LEMMA NextClosings ==
  ASSUME Fields, TypeOK, Slots, Opens, Quiet, Closings, [Next]_vars
  PROVE  Closings'
<1> USE Parameters
<1>1. ASSUME NEW v \in Service, NEW c \in Id, Send(v, c) PROVE Closings'
  BY <1>1 DEF Closings, Slots, TypeOK, Values, Queues, Calls, Established, Fields, Send, Goto, kernel,
     thread, callers
<1>2. ASSUME NEW v \in Service, TryLock(v) PROVE Closings'
  BY <1>2 DEF Closings, Slots, TypeOK, Values, Queues, Calls, Established, Fields, TryLock, Goto, kernel,
     thread, callers
<1>3. ASSUME NEW v \in Service, DirectDone(v) PROVE Closings'
  <2>1. told' = told /\ tp' = tp /\ result' = result /\ slot'.type = slot.type /\ slot'.id = slot.id /\ slot'.closing = slot.closing
    BY <1>3, Zenon DEF DirectDone, Kept, Named
  <2> QED
    BY <2>1 DEF Closings
<1>4. ASSUME NEW v \in Service, Trigger(v) PROVE Closings'
  BY <1>4, Requested DEF Closings, Slots, TypeOK, Values, Queues, Calls, Established, Fields, Trigger, Goto,
     Request, Command, kernel, thread, callers
<1>5. ASSUME NEW v \in Service, IncSending(v) PROVE Closings'
  BY <1>5 DEF Closings, Slots, TypeOK, Values, Queues, Calls, Established, Fields, IncSending, Goto, kernel,
     thread, callers
<1>6. ASSUME NEW v \in Service, Post(v) PROVE Closings'
  BY <1>6, Requested DEF Closings, Slots, TypeOK, Values, Queues, Calls, Established, Fields, Post, Goto,
     Request, Command, kernel, thread, callers
<1>7. CASE Reserve
  BY <1>7 DEF Closings, Slots, TypeOK, Values, Queues, Calls, Established, Fields, Reserve, Goto, kernel,
     thread, callers
<1>8. CASE SetId
  BY <1>8 DEF Closings, Slots, TypeOK, Values, Queues, Calls, Established, Fields, SetId, Goto, kernel,
     thread, callers
<1>9. CASE OpenRequest
  BY <1>9, Requested DEF Closings, Slots, TypeOK, Values, Queues, Calls, Established, Fields, OpenRequest,
     Goto, Request, Command, kernel, thread, callers
<1>10. ASSUME NEW c \in Id, Close(c) PROVE Closings'
  BY <1>10, Requested DEF Closings, Slots, TypeOK, Values, Queues, Calls, Established, Fields, Close,
     Request, Command, kernel, thread, callers
<1>11. ASSUME NEW c \in Id, Shutdown(c) PROVE Closings'
  BY <1>11, Requested DEF Closings, Slots, TypeOK, Values, Queues, Calls, Established, Fields, Shutdown,
     Request, Command, kernel, thread, callers
<1>12. ASSUME NEW c \in Id, OnError(c) PROVE Closings'
  <2>1. UNCHANGED <<slot, tp, result>> /\ told' = [told EXCEPT ![c].err = FALSE]
    BY <1>12 DEF OnError, thread
  <2>2. \A d \in Id : told'[d].closes = told[d].closes /\ told'[d].late = told[d].late
    BY <2>1 DEF Fields
  <2>3. slot.type \in {"connecting", "connected", "halfwrite"} \/ tp = "closing" => slot.id \in Id
    BY DEF Slots, TypeOK, Values, Established, Id
  <2> QED
    BY <2>1, <2>2, <2>3 DEF Closings
<1>13. CASE OpenDone
  <2>1. Head(pipe).op = "O" /\ last' = last /\ pipe # <<>> /\ pipe' = Tail(pipe) /\ tp' = "drain" /\ slot'.id = slot.id
    BY <1>13 DEF OpenDone, CommandDone
  <2>2. slot.type = "reserve" /\ Head(pipe).id = last /\ slot.id = last
    BY <1>13, <2>1, Obeyed DEF Opens, Slots, OpenDone, CommandDone
  <2>3. \A d \in Id : d = last => told[d].closes = 0
    BY <2>2 DEF Quiet, Untold, Unopened, Fresh
  <2>4. last \in Id
    BY <2>2 DEF Slots, TypeOK, Values, Queues, Calls, Id
  <2>5. CASE slot'.type = "invalid" /\ Tell(last, "err")
    BY <2>1, <2>5, ToldLittle DEF Closings
  <2>6. CASE slot'.type = "connecting" /\ told' = told /\ slot'.closing = FALSE
    BY <2>1, <2>2, <2>3, <2>4, <2>6 DEF Closings
  <2>7. CASE slot'.type = "connected" /\ Tell(last, "open") /\ slot'.closing = FALSE
    <3>1. \A d \in Id : told'[d].closes = told[d].closes /\ (told'[d].late <=> told[d].late \/ (d = last /\ told[d].closes > 0))
      BY <2>7, Telling
    <3>2. \A d \in Id : told'[d].closes <= 1 /\ ~told'[d].late
      BY <3>1, <2>3 DEF Closings
    <3> QED
      BY <2>1, <2>2, <2>3, <2>4, <2>7, <3>1, <3>2 DEF Closings
  <2> QED
    BY <1>13, <2>2, <2>5, <2>6, <2>7 DEF OpenDone
<1>14. CASE SendDone
  BY <1>14, Obeyed DEF Closings, Slots, TypeOK, Values, Queues, Calls, Established, Fields, SendDone,
     CommandDone, Named, SameLists, Lists, kernel, thread, callers
<1>15. CASE TriggerWrite
  BY <1>15, Obeyed DEF Closings, Slots, TypeOK, Values, Queues, Calls, Established, Fields, TriggerWrite,
     Cmd, kernel, thread, callers
<1>16. CASE CloseDone
  <2> DEFINE c == Head(pipe).id what == IF slot.type = "halfread" THEN "none" ELSE "close"
  <2>1. slot'.id = slot.id /\ tp = "drain"
    BY <1>16 DEF CloseDone, CommandDone, Named
  <2>2. CASE Invalid(c)
    BY <1>16, <2>1, <2>2 DEF CloseDone, Closings
  <2>3. CASE ~Invalid(c)
    <3>1. slot.type \in Established /\ c = slot.id
      BY <1>16, <2>3, Opened DEF CloseDone, CommandDone, Invalid
    <3>2. what = "close" => told[slot.id].closes = 0
      BY <3>1 DEF Closings, Established
    <3>3. slot.id \in Id
      BY <3>1, IdUsed DEF Established
    <3>4. CASE slot'.type = slot.type /\ slot'.closing = slot.closing /\ result'.what = what /\ told' = told
      BY <2>1, <3>1, <3>2, <3>4 DEF Closings, Established
    <3>5. CASE /\ slot'.type = "halfread"
               /\ \A d \in Id : /\ told'[d].late = told[d].late
                                /\ told'[d].closes = IF d = c /\ what = "close" THEN told[d].closes + 1 ELSE told[d].closes
               /\ tp' = tp
      <4>1. \A d \in Id : told'[d].closes <= 1 /\ ~told'[d].late
        BY <3>1, <3>2, <3>5 DEF Closings
      <4> QED
        BY <2>1, <3>5, <4>1 DEF Closings
    <3> QED
      BY <1>16, <2>3, <3>4, <3>5 DEF CloseDone
  <2> QED
    BY <2>2, <2>3
<1>17. CASE Drained
  BY <1>17 DEF Closings, Slots, TypeOK, Values, Queues, Calls, Established, Fields, Drained, kernel, thread,
     callers
<1>18. CASE CloseSlotDone
  <2>1. slot'.type = "invalid" /\ Tell(slot.id, result.what) /\ tp = "closing" /\ tp' # "closing"
    BY <1>18 DEF CloseSlotDone, TypeOK, Values, Queues, Calls
  <2>2. result.what = "close" => told[slot.id].closes = 0
    BY <2>1 DEF Closings
  <2>3. result.what \in {"none", "close", "err"}
    BY <2>1 DEF Closings
  <2>4. \A d \in Id : /\ told'[d].closes = IF d = slot.id /\ result.what = "close" THEN told[d].closes + 1 ELSE told[d].closes
                      /\ (told'[d].late <=> told[d].late)
    BY <2>1, <2>3, Telling
  <2>5. \A d \in Id : told'[d].closes <= 1 /\ ~told'[d].late
    BY <2>2, <2>4 DEF Closings
  <2> QED
    BY <2>1, <2>5 DEF Closings
<1>19. CASE Poll
  BY <1>19 DEF Closings, Slots, TypeOK, Values, Queues, Calls, Established, Fields, Poll, Ready, kernel,
     thread, callers
<1>20. ASSUME EventDone, NEW what \in {"none", "data", "err"}, Still(what) PROVE Closings'
  <2>1. Tell(slot.id, what) /\ slot'.id = slot.id /\ slot'.closing = slot.closing /\ slot'.type = slot.type /\ tp' # "closing"
    BY <1>20 DEF EventDone, Kept, Named, Still, NextOf
  <2>2. what = "data" => told[slot.id].closes = 0
    BY <1>20 DEF Still, Closings
  <2>3. \A d \in Id : told'[d].closes = told[d].closes /\ (told'[d].late <=> told[d].late)
    BY <2>1, <2>2, Telling DEF Closings
  <2> QED
    BY <2>1, <2>3, IdUsed DEF Closings
<1>21. ASSUME EventDone, Opening PROVE Closings'
  <2>1. /\ Tell(slot.id, "open") /\ slot'.id = slot.id /\ slot'.closing = slot.closing /\ tp' # "closing"
        /\ slot.type = "connecting" /\ slot'.type = "connected"
    BY <1>21 DEF EventDone, Kept, Named, Opening, NextOf
  <2>2. told[slot.id].closes = 0 /\ slot.id \in Id /\ ~slot.closing
    BY <2>1, IdUsed DEF Closings
  <2>3. \A d \in Id : told'[d].closes = told[d].closes /\ (told'[d].late <=> told[d].late)
    BY <2>1, <2>2, Telling DEF Closings
  <2> QED
    BY <2>1, <2>2, <2>3 DEF Closings
<1>22. ASSUME EventDone, Dropping PROVE Closings'
  BY <1>22 DEF Closings, Slots, TypeOK, Values, Queues, Calls, Established, Fields, EventDone, Handling,
     Kept, Named, Dropping, Lists, kernel, thread, callers
<1>23. ASSUME EventDone, Halved PROVE Closings'
  <2>1. /\ Tell(slot.id, "close") /\ slot'.id = slot.id /\ tp' # "closing"
        /\ slot.type = "connected" /\ slot'.type = "halfread"
    BY <1>23 DEF EventDone, Kept, Named, Halved, NextOf
  <2>2. told[slot.id].closes = 0
    BY <2>1 DEF Closings
  <2>3. \A d \in Id : /\ told'[d].closes = IF d = slot.id THEN told[d].closes + 1 ELSE told[d].closes
                      /\ (told'[d].late <=> told[d].late)
    BY <2>1, Telling
  <2>4. \A d \in Id : told'[d].closes <= 1 /\ ~told'[d].late
    BY <2>2, <2>3 DEF Closings
  <2> QED
    BY <2>1, <2>4 DEF Closings
<1>24. ASSUME EventDone, WroteAll PROVE Closings'
  <2>1. Tell(slot.id, "none")
    BY <1>24 DEF WroteAll
  <2>2. \A d \in Id : told'[d].closes = told[d].closes /\ (told'[d].late <=> told[d].late)
    BY <2>1, ToldLittle
  <2>3. /\ slot'.id = slot.id /\ slot'.closing = slot.closing /\ tp' # "closing"
        /\ slot'.type = "invalid" \/ slot'.type = slot.type
    BY <1>24 DEF EventDone, Kept, Named, WroteAll, NextOf
  <2> QED
    BY <2>2, <2>3, IdUsed DEF Closings, Established
<1>25. ASSUME EventDone, NEW k \in 1 .. Len(Unsent) - 1, WroteSome(k) PROVE Closings'
  <2>1. Tell(slot.id, "none")
    BY <1>25 DEF WroteSome
  <2>2. \A d \in Id : told'[d].closes = told[d].closes /\ (told'[d].late <=> told[d].late)
    BY <2>1, ToldLittle
  <2>3. /\ slot'.id = slot.id /\ slot'.closing = slot.closing /\ tp' # "closing"
        /\ slot'.type = "invalid" \/ slot'.type = slot.type
    BY <1>25 DEF EventDone, Kept, Named, WroteSome, NextOf
  <2> QED
    BY <2>2, <2>3, IdUsed DEF Closings, Established
<1>26. ASSUME EventDone, Broken PROVE Closings'
  <2>1. PICK what \in {"none", "err"} : Tell(slot.id, what)
    BY <1>26 DEF Broken
  <2>2. \A d \in Id : told'[d].closes = told[d].closes /\ (told'[d].late <=> told[d].late)
    BY <2>1, ToldLittle
  <2>3. /\ slot'.id = slot.id /\ slot'.closing = slot.closing /\ tp' # "closing"
        /\ \/ slot'.type = "invalid"
           \/ slot'.type = "halfwrite" /\ slot.type \in {"connected", "halfwrite"} /\ ~slot.closing
    BY <1>26 DEF EventDone, Kept, Named, Broken, NextOf
  <2> QED
    BY <2>2, <2>3, IdUsed DEF Closings
<1>27. CASE Connected \/ PeerData \/ PeerFin
  <2>1. UNCHANGED <<slot, tp, result, told>>
    BY <1>27, Peering
  <2> QED
    BY <2>1 DEF Closings
<1>28. CASE Reset
  <2>1. UNCHANGED <<slot, tp, result>>
    BY <1>28 DEF Reset, thread
  <2>2. \A d \in Id : told'[d].closes = told[d].closes /\ (told'[d].late <=> told[d].late)
    BY <1>28 DEF Reset, Fields
  <2> QED
    BY <2>1, <2>2, IdUsed DEF Closings, Slots, Established
<1>29. CASE UNCHANGED vars
  BY <1>29 DEF Closings, Slots, TypeOK, Values, Queues, Calls, Established, Fields, vars, kernel, thread,
     callers
<1> QED
  BY <1>1, <1>2, <1>3, <1>4, <1>5, <1>6, <1>7, <1>8, <1>9, <1>10, <1>11, <1>12, <1>13, <1>14, <1>15, <1>16,
     <1>17, <1>18, <1>19, <1>20, <1>21, <1>22, <1>23, <1>24, <1>25, <1>26, <1>27, <1>28, <1>29, Steps
     DEF Closings, Slots, TypeOK, Values, Queues, Calls, Established, Fields, StepOf

(* Where the socket thread goes on after force_close.                      *)
LEMMA Resumes ==
  ASSUME TypeOK, [Next]_vars
  PROVE  result' = result \/ result'.next \in {"event", "drain"}
<1>1. ASSUME NEW what, NEW cmd, ForceClose(what, cmd), tp # "closing"
      PROVE  result'.next \in {"event", "drain"}
  BY <1>1 DEF ForceClose, NextOf, TypeOK, Values
<1>2. CASE ReportConnect \/ ReadEnd \/ EventEof
  BY <1>1, <1>2 DEF ReportConnect, ReadEnd, EventEof, Reading, Ending, Handling, Report, ReportRead
<1>3. CASE CloseSocket
  BY <1>1, <1>3 DEF CloseSocket, Cmd
<1>4. CASE InvalidSocket \/ ReadMore \/ SendBlocked \/ SendAll \/ SendSome \/ CloseWrite \/ EventError
  BY <1>4 DEF InvalidSocket, ReadMore, SendBlocked, SendAll, SendSome, CloseWrite, EventError, Report,
     ReportRead
<1>5. CASE OpenSocket \/ SendSocket \/ TriggerWrite \/ Drained \/ CloseSlot \/ Poll
  BY <1>5 DEF OpenSocket, SendSocket, TriggerWrite, Drained, CloseSlot, Poll, thread
<1>6. CASE Environment \/ Reserve \/ UNCHANGED vars
  BY <1>6 DEF Environment, Connected, PeerData, PeerFin, Reset, Peer, Reserve, vars, thread
<1>7. ASSUME NEW v \in Service, Caller(v) PROVE result' = result
  <2>1. CASE DirectWrite(v)
    BY <2>1, Zenon DEF DirectWrite, thread
  <2> QED
    BY <1>7, <2>1 DEF Caller, TryLock, Trigger, IncSending, Post, SetId, OpenRequest, OnError, thread
<1>8. CASE (\E v \in Service : \E c \in Id : Send(v, c)) \/ (\E c \in Id : Close(c) \/ Shutdown(c))
  BY <1>8 DEF Send, Close, Shutdown, thread
<1> QED
  BY <1>2, <1>3, <1>4, <1>5, <1>6, <1>7, <1>8 DEF Next, SocketThread

(* The fields of the command at the head.                                  *)
LEMMA HeadTyped ==
  ASSUME TypeOK, pipe # <<>>
  PROVE  Head(pipe).id \in Id /\ Head(pipe).m \in Nat
<1>1. pipe \in Seq(Commands)
  BY DEF TypeOK, Calls
<1>2. Head(pipe) \in Commands
  BY <1>1
<1> QED
  BY <1>2 DEF Commands

(* A wire with more written to it.                                         *)
LEMMA Extended ==
  ASSUME TypeOK, NEW c, NEW s \in Seq(Part), wire' = [wire EXCEPT ![c] = @ \o s]
  PROVE  wire' \in [Id -> Seq(Part)] /\ \A d \in Id : wire'[d] = IF d = c THEN wire[d] \o s ELSE wire[d]
<1>1. wire \in [Id -> Seq(Part)]
  BY DEF TypeOK, Queues
<1>2. \A d \in Id : wire'[d] = IF d = c THEN wire[d] \o s ELSE wire[d]
  BY <1>1
<1>3. \A d \in Id : wire[d] \o s \in Seq(Part)
  BY <1>1
<1> QED
  BY <1>1, <1>2, <1>3

(* The lists of the slot are lists of parts.                               *)
LEMMA QueueTypes ==
  ASSUME TypeOK
  PROVE  /\ <<>> \in Seq(Part) /\ slot.high \in Seq(Part) /\ slot.low \in Seq(Part) /\ slot.dw \in Seq(Part)
         /\ slot.dw \o slot.high \in Seq(Part) /\ High \in Seq(Part) /\ Unsent \in Seq(Part)
         /\ \A s \in Seq(Part) : slot.high \o s \in Seq(Part) /\ slot.low \o s \in Seq(Part)
<1>1. slot.high \in Seq(Part) /\ slot.low \in Seq(Part) /\ slot.dw \in Seq(Part)
  BY DEF TypeOK, Queues
<1> QED
  BY <1>1 DEF High, Unsent

(* What a direct write writes and leaves is the message.                   *)
LEMMA Slices ==
  ASSUME NEW m \in Nat, NEW k \in 0 .. Units
  PROVE  LET a == SubSeq(Parts(m), 1, k) b == SubSeq(Parts(m), k + 1, Units) IN
         /\ a \in Seq(Part) /\ b \in Seq(Part) /\ a \o b = Parts(m) /\ SubSeq(Parts(m), 1, Units) = Parts(m)
<1>1. Parts(m) \in Seq(Part) /\ Len(Parts(m)) = Units
  BY PartsOf
<1>2. SubSeq(Parts(m), 1, Units) \o SubSeq(Parts(m), Units + 1, Units) = Parts(m)
  BY <1>1, Cut, Parameters
<1>3. SubSeq(Parts(m), Units + 1, Units) = <<>>
  BY <1>1, Parameters
<1>4. SubSeq(Parts(m), 1, Units) \in Seq(Part)
  BY <1>1, Cut, Parameters
<1>5. SubSeq(Parts(m), 1, Units) = Parts(m)
  BY <1>2, <1>3, <1>4
<1> QED
  BY <1>1, <1>5, Cut

(* Every step keeps the types of the slot, the thread and the ids.         *)
LEMMA NextValues ==
  ASSUME Fields, TypeOK, Slots, Opens, Jobs, Quiet, [Next]_vars
  PROVE  Values'
<1> USE Parameters DEF TypeOK
<1>1. ASSUME NEW v \in Service, NEW c \in Id, Send(v, c) PROVE Values'
  BY <1>1, Resumes DEF Values, Types, Established, Send, Goto, kernel, thread, callers
<1>2. ASSUME NEW v \in Service, TryLock(v) PROVE Values'
  BY <1>2, Resumes DEF Values, Types, Established, TryLock, Goto, kernel, thread, callers
<1>3. ASSUME NEW v \in Service, DirectDone(v) PROVE Values'
  <2>1. UNCHANGED <<tp, result, last, told>> /\ slot'.type = slot.type /\ slot'.id = slot.id /\ slot'.tag = slot.tag /\ slot'.sending = slot.sending
    BY <1>3, Zenon DEF DirectDone, Kept, Named
  <2> QED
    BY <2>1 DEF Values
<1>4. ASSUME NEW v \in Service, Trigger(v) PROVE Values'
  BY <1>4, Resumes, Requested DEF Values, Types, Established, Trigger, Goto, Request, Command, kernel,
     thread, callers
<1>5. ASSUME NEW v \in Service, IncSending(v) PROVE Values'
  BY <1>5, Resumes DEF Values, Types, Established, IncSending, Goto, kernel, thread, callers
<1>6. ASSUME NEW v \in Service, Post(v) PROVE Values'
  BY <1>6, Resumes, Requested DEF Values, Types, Established, Post, Goto, Request, Command, kernel, thread,
     callers
<1>7. CASE Reserve
  BY <1>7, Resumes DEF Values, Types, Established, Reserve, Goto, kernel, thread, callers
<1>8. CASE SetId
  BY <1>8, Resumes DEF Values, Types, Established, SetId, Goto, kernel, thread, callers
<1>9. CASE OpenRequest
  BY <1>9, Resumes, Requested DEF Values, Types, Established, OpenRequest, Goto, Request, Command, kernel,
     thread, callers
<1>10. ASSUME NEW c \in Id, Close(c) PROVE Values'
  BY <1>10, Resumes, Requested DEF Values, Types, Established, Close, Request, Command, kernel, thread,
     callers
<1>11. ASSUME NEW c \in Id, Shutdown(c) PROVE Values'
  BY <1>11, Resumes, Requested DEF Values, Types, Established, Shutdown, Request, Command, kernel, thread,
     callers
<1>12. ASSUME NEW c \in Id, OnError(c) PROVE Values'
  BY <1>12, Resumes, Requested DEF Values, Types, Established, OnError, Request, Command, kernel, thread,
     callers
<1>13. CASE OpenDone
  <2>1. pipe # <<>> /\ UNCHANGED <<tp, last>> /\ slot'.id = slot.id
    BY <1>13 DEF OpenDone, CommandDone
  <2>2. Head(pipe).id \in 0 .. MaxId
    BY <2>1, HeadTyped DEF Id
  <2>3. slot'.type \in Types /\ slot'.tag \in 0 .. MaxId /\ slot'.sending \in Int
    BY <1>13, <2>2 DEF OpenDone, Values, Types
  <2>4. \A d \in Id : told'[d].closes = told[d].closes
    BY <1>13, Telling DEF OpenDone
  <2> QED
    BY <2>1, <2>3, <2>4, Resumes DEF Values
<1>14. CASE SendDone
  BY <1>14, Resumes, Obeyed DEF Values, Types, Established, SendDone, CommandDone, Named, SameLists, Lists,
     kernel, thread, callers
<1>15. CASE TriggerWrite
  BY <1>15, Resumes, Obeyed DEF Values, Types, Established, TriggerWrite, Cmd, kernel, thread, callers
<1>16. CASE CloseDone
  BY <1>16, Resumes, Obeyed DEF Values, Types, Established, CloseDone, CommandDone, Named, SameLists, Lists,
     kernel, thread, callers
<1>17. CASE Drained
  BY <1>17, Resumes DEF Values, Types, Established, Drained, kernel, thread, callers
<1>18. CASE CloseSlotDone
  BY <1>18, Resumes, Telling DEF Values, Types, Established, CloseSlotDone, Kept, Named, Lists, kernel,
     thread, callers
<1>19. CASE Poll
  BY <1>19, Resumes DEF Values, Types, Established, Poll, Ready, kernel, thread, callers
<1>20. ASSUME EventDone, NEW what \in {"none", "data", "err"}, Still(what) PROVE Values'
  BY <1>20, Resumes, Telling DEF Values, Types, Established, EventDone, Handling, Kept, Named, Still,
     SameLists, Lists, NextOf, kernel, thread, callers
<1>21. ASSUME EventDone, Opening PROVE Values'
  BY <1>21, Resumes, Telling DEF Values, Types, Established, EventDone, Handling, Kept, Named, Opening,
     SameLists, Lists, NextOf, kernel, thread, callers
<1>22. ASSUME EventDone, Dropping PROVE Values'
  BY <1>22, Resumes DEF Values, Types, Established, EventDone, Handling, Kept, Named, Dropping, Lists,
     kernel, thread, callers
<1>23. ASSUME EventDone, Halved PROVE Values'
  BY <1>23, Resumes, Telling DEF Values, Types, Established, EventDone, Handling, Kept, Named, Halved,
     SameLists, Lists, NextOf, kernel, thread, callers
<1>24. ASSUME EventDone, WroteAll PROVE Values'
  BY <1>24, Resumes, Telling DEF Values, Types, Established, EventDone, Handling, Kept, Named, WroteAll,
     Lists, NextOf, kernel, thread, callers
<1>25. ASSUME EventDone, NEW k \in 1 .. Len(Unsent) - 1, WroteSome(k) PROVE Values'
  BY <1>25, Resumes, Telling DEF Values, Types, Established, EventDone, Handling, Kept, Named, WroteSome,
     NextOf, kernel, thread, callers
<1>26. ASSUME EventDone, Broken PROVE Values'
  BY <1>26, Resumes, Telling DEF Values, Types, Established, EventDone, Handling, Kept, Named, Broken, Lists,
     NextOf, kernel, thread, callers
<1>27. CASE Connected \/ PeerData \/ PeerFin
  BY <1>27, Resumes DEF Values, Types, Established, Connected, PeerData, PeerFin, Peer, kernel, thread,
     callers
<1>28. CASE Reset
  BY <1>28, Resumes DEF Values, Types, Established, Reset, kernel, thread, callers
<1>29. CASE UNCHANGED vars
  BY <1>29, Resumes DEF Values, Types, Established, vars, kernel, thread, callers
<1> QED
  BY <1>1, <1>2, <1>3, <1>4, <1>5, <1>6, <1>7, <1>8, <1>9, <1>10, <1>11, <1>12, <1>13, <1>14, <1>15, <1>16,
     <1>17, <1>18, <1>19, <1>20, <1>21, <1>22, <1>23, <1>24, <1>25, <1>26, <1>27, <1>28, <1>29, Steps
     DEF StepOf

(* Every step keeps the types of calls and messages.                       *)
LEMMA NextCalling ==
  ASSUME Fields, TypeOK, [Next]_vars
  PROVE  at' \in [Service -> Places] /\ job' \in [Service -> Nat] /\ box' \in Seq([by : Service, to : Id])
<1> USE Parameters
<1>1. ASSUME NEW v \in Service, NEW c \in Id, Send(v, c)
      PROVE  at' \in [Service -> Places] /\ job' \in [Service -> Nat] /\ box' \in Seq([by : Service, to : Id])
  BY <1>1 DEF TypeOK, Calls, Places, Send, Goto, kernel, thread, callers
<1>2. ASSUME NEW v \in Service, TryLock(v)
      PROVE  at' \in [Service -> Places] /\ job' \in [Service -> Nat] /\ box' \in Seq([by : Service, to : Id])
  BY <1>2 DEF TypeOK, Calls, Places, TryLock, Goto, kernel, thread, callers
<1>3. ASSUME NEW v \in Service, DirectDone(v)
      PROVE  at' \in [Service -> Places] /\ job' \in [Service -> Nat] /\ box' \in Seq([by : Service, to : Id])
  <2>1. PICK l \in {"count", "idle", "trigger"} : at' = [at EXCEPT ![v] = l]
    BY <1>3, Zenon DEF DirectDone
  <2>2. job' = job /\ box' = box
    BY <1>3, Zenon DEF DirectDone
  <2> QED
    BY <2>1, <2>2 DEF TypeOK, Calls, Places
<1>4. ASSUME NEW v \in Service, Trigger(v)
      PROVE  at' \in [Service -> Places] /\ job' \in [Service -> Nat] /\ box' \in Seq([by : Service, to : Id])
  BY <1>4, Requested DEF TypeOK, Calls, Places, Trigger, Goto, Request, Command, kernel, thread, callers
<1>5. ASSUME NEW v \in Service, IncSending(v)
      PROVE  at' \in [Service -> Places] /\ job' \in [Service -> Nat] /\ box' \in Seq([by : Service, to : Id])
  BY <1>5 DEF TypeOK, Calls, Places, IncSending, Goto, kernel, thread, callers
<1>6. ASSUME NEW v \in Service, Post(v)
      PROVE  at' \in [Service -> Places] /\ job' \in [Service -> Nat] /\ box' \in Seq([by : Service, to : Id])
  BY <1>6, Requested DEF TypeOK, Calls, Places, Post, Goto, Request, Command, kernel, thread, callers
<1>7. CASE Reserve
  BY <1>7 DEF TypeOK, Calls, Places, Reserve, Goto, kernel, thread, callers
<1>8. CASE SetId
  BY <1>8 DEF TypeOK, Calls, Places, SetId, Goto, kernel, thread, callers
<1>9. CASE OpenRequest
  BY <1>9, Requested DEF TypeOK, Calls, Places, OpenRequest, Goto, Request, Command, kernel, thread, callers
<1>10. ASSUME NEW c \in Id, Close(c)
       PROVE  at' \in [Service -> Places] /\ job' \in [Service -> Nat] /\ box' \in Seq([by : Service, to : Id])
  BY <1>10, Requested DEF TypeOK, Calls, Places, Close, Request, Command, kernel, thread, callers
<1>11. ASSUME NEW c \in Id, Shutdown(c)
       PROVE  at' \in [Service -> Places] /\ job' \in [Service -> Nat] /\ box' \in Seq([by : Service, to : Id])
  BY <1>11, Requested DEF TypeOK, Calls, Places, Shutdown, Request, Command, kernel, thread, callers
<1>12. ASSUME NEW c \in Id, OnError(c)
       PROVE  at' \in [Service -> Places] /\ job' \in [Service -> Nat] /\ box' \in Seq([by : Service, to : Id])
  BY <1>12, Requested DEF TypeOK, Calls, Places, OnError, Request, Command, kernel, thread, callers
<1>13. CASE OpenDone
  BY <1>13, Obeyed, Telling DEF TypeOK, Calls, Places, OpenDone, CommandDone, SameLists, Lists, kernel,
     thread, callers
<1>14. CASE SendDone
  BY <1>14, Obeyed DEF TypeOK, Calls, Places, SendDone, CommandDone, Named, SameLists, Lists, kernel, thread,
     callers
<1>15. CASE TriggerWrite
  BY <1>15, Obeyed DEF TypeOK, Calls, Places, TriggerWrite, Cmd, kernel, thread, callers
<1>16. CASE CloseDone
  BY <1>16, Obeyed DEF TypeOK, Calls, Places, CloseDone, CommandDone, Named, SameLists, Lists, kernel,
     thread, callers
<1>17. CASE Drained
  BY <1>17 DEF TypeOK, Calls, Places, Drained, kernel, thread, callers
<1>18. CASE CloseSlotDone
  BY <1>18, Telling DEF TypeOK, Calls, Places, CloseSlotDone, Kept, Named, Lists, kernel, thread, callers
<1>19. CASE Poll
  BY <1>19 DEF TypeOK, Calls, Places, Poll, Ready, kernel, thread, callers
<1>20. ASSUME EventDone, NEW what \in {"none", "data", "err"}, Still(what)
       PROVE  at' \in [Service -> Places] /\ job' \in [Service -> Nat] /\ box' \in Seq([by : Service, to : Id])
  BY <1>20, Telling DEF TypeOK, Calls, Places, EventDone, Handling, Kept, Named, Still, SameLists, Lists,
     NextOf, kernel, thread, callers
<1>21. ASSUME EventDone, Opening
       PROVE  at' \in [Service -> Places] /\ job' \in [Service -> Nat] /\ box' \in Seq([by : Service, to : Id])
  BY <1>21, Telling DEF TypeOK, Calls, Places, EventDone, Handling, Kept, Named, Opening, SameLists, Lists,
     NextOf, kernel, thread, callers
<1>22. ASSUME EventDone, Dropping
       PROVE  at' \in [Service -> Places] /\ job' \in [Service -> Nat] /\ box' \in Seq([by : Service, to : Id])
  BY <1>22 DEF TypeOK, Calls, Places, EventDone, Handling, Kept, Named, Dropping, Lists, kernel, thread,
     callers
<1>23. ASSUME EventDone, Halved
       PROVE  at' \in [Service -> Places] /\ job' \in [Service -> Nat] /\ box' \in Seq([by : Service, to : Id])
  BY <1>23, Telling DEF TypeOK, Calls, Places, EventDone, Handling, Kept, Named, Halved, SameLists, Lists,
     NextOf, kernel, thread, callers
<1>24. ASSUME EventDone, WroteAll
       PROVE  at' \in [Service -> Places] /\ job' \in [Service -> Nat] /\ box' \in Seq([by : Service, to : Id])
  BY <1>24, Telling DEF TypeOK, Calls, Places, EventDone, Handling, Kept, Named, WroteAll, Lists, NextOf,
     kernel, thread, callers
<1>25. ASSUME EventDone, NEW k \in 1 .. Len(Unsent) - 1, WroteSome(k)
       PROVE  at' \in [Service -> Places] /\ job' \in [Service -> Nat] /\ box' \in Seq([by : Service, to : Id])
  BY <1>25, Telling DEF TypeOK, Calls, Places, EventDone, Handling, Kept, Named, WroteSome, NextOf, kernel,
     thread, callers
<1>26. ASSUME EventDone, Broken
       PROVE  at' \in [Service -> Places] /\ job' \in [Service -> Nat] /\ box' \in Seq([by : Service, to : Id])
  BY <1>26, Telling DEF TypeOK, Calls, Places, EventDone, Handling, Kept, Named, Broken, Lists, NextOf,
     kernel, thread, callers
<1>27. CASE Connected \/ PeerData \/ PeerFin
  BY <1>27 DEF TypeOK, Calls, Places, Connected, PeerData, PeerFin, Peer, kernel, thread, callers
<1>28. CASE Reset
  BY <1>28 DEF TypeOK, Calls, Places, Reset, kernel, thread, callers
<1>29. CASE UNCHANGED vars
  BY <1>29 DEF TypeOK, Calls, Places, vars, kernel, thread, callers
<1> QED
  BY <1>1, <1>2, <1>3, <1>4, <1>5, <1>6, <1>7, <1>8, <1>9, <1>10, <1>11, <1>12, <1>13, <1>14, <1>15, <1>16,
     <1>17, <1>18, <1>19, <1>20, <1>21, <1>22, <1>23, <1>24, <1>25, <1>26, <1>27, <1>28, <1>29, Steps
     DEF StepOf

(* Every step keeps the lists and wires lists of parts.                    *)
LEMMA NextQueues ==
  ASSUME Fields, TypeOK, Slots, Opens, Jobs, Quiet, Streams, [Next]_vars
  PROVE  Queues'
<1> USE Parameters
<1>1. ASSUME NEW v \in Service, NEW c \in Id, Send(v, c) PROVE Queues'
  BY <1>1 DEF TypeOK, Queues, Calls, Send, Goto, kernel, thread, callers
<1>2. ASSUME NEW v \in Service, TryLock(v) PROVE Queues'
  BY <1>2 DEF TypeOK, Queues, Calls, TryLock, Goto, kernel, thread, callers
<1>3. ASSUME NEW v \in Service, DirectDone(v) PROVE Queues'
  <2>1. slot'.high = slot.high /\ slot'.low = slot.low
    BY <1>3, Zenon DEF DirectDone
  <2>2. job[v] \in Nat
    BY DEF TypeOK, Calls
  <2> DEFINE m == job[v] c == box[m].to
  <2>3. CASE slot'.dw = slot.dw /\ wire' = wire
    BY <2>1, <2>3 DEF TypeOK, Queues
  <2>4. CASE slot'.dw = slot.dw /\ wire' = [wire EXCEPT ![c] = @ \o SubSeq(Parts(m), 1, Units)]
    <3>1. SubSeq(Parts(m), 1, Units) \in Seq(Part)
      BY <2>2, Slices
    <3>2. PICK x : x = SubSeq(Parts(m), 1, Units)
      OBVIOUS
    <3>4. x \in Seq(Part) /\ wire' = [wire EXCEPT ![c] = @ \o x]
      BY <2>4, <3>1, <3>2
    <3>3. wire' \in [Id -> Seq(Part)]
      BY ONLY TypeOK, <3>4, Extended
    <3> QED
      BY <2>1, <2>4, <3>3 DEF TypeOK, Queues
  <2>5. ASSUME NEW k \in 0 .. Units - 1, slot'.dw = SubSeq(Parts(m), k + 1, Units), wire' = [wire EXCEPT ![c] = @ \o SubSeq(Parts(m), 1, k)]
        PROVE  Queues'
    <3>1. SubSeq(Parts(m), 1, k) \in Seq(Part) /\ SubSeq(Parts(m), k + 1, Units) \in Seq(Part)
      BY <2>2, Slices
    <3>2. PICK x : x = SubSeq(Parts(m), 1, k)
      OBVIOUS
    <3>4. x \in Seq(Part) /\ wire' = [wire EXCEPT ![c] = @ \o x]
      BY <2>5, <3>1, <3>2
    <3>3. wire' \in [Id -> Seq(Part)]
      BY ONLY TypeOK, <3>4, Extended
    <3> QED
      BY <2>1, <2>5, <3>1, <3>3 DEF TypeOK, Queues
  <2> QED
    BY <1>3, <2>3, <2>4, <2>5, Zenon DEF DirectDone
<1>4. ASSUME NEW v \in Service, Trigger(v) PROVE Queues'
  BY <1>4, Requested DEF TypeOK, Queues, Calls, Trigger, Goto, Request, Command, kernel, thread, callers
<1>5. ASSUME NEW v \in Service, IncSending(v) PROVE Queues'
  BY <1>5 DEF TypeOK, Queues, Calls, IncSending, Goto, kernel, thread, callers
<1>6. ASSUME NEW v \in Service, Post(v) PROVE Queues'
  BY <1>6, Requested DEF TypeOK, Queues, Calls, Post, Goto, Request, Command, kernel, thread, callers
<1>7. CASE Reserve
  BY <1>7 DEF TypeOK, Queues, Calls, Reserve, Goto, kernel, thread, callers
<1>8. CASE SetId
  BY <1>8 DEF TypeOK, Queues, Calls, SetId, Goto, kernel, thread, callers
<1>9. CASE OpenRequest
  BY <1>9, Requested DEF TypeOK, Queues, Calls, OpenRequest, Goto, Request, Command, kernel, thread, callers
<1>10. ASSUME NEW c \in Id, Close(c) PROVE Queues'
  BY <1>10, Requested DEF TypeOK, Queues, Calls, Close, Request, Command, kernel, thread, callers
<1>11. ASSUME NEW c \in Id, Shutdown(c) PROVE Queues'
  BY <1>11, Requested DEF TypeOK, Queues, Calls, Shutdown, Request, Command, kernel, thread, callers
<1>12. ASSUME NEW c \in Id, OnError(c) PROVE Queues'
  BY <1>12, Requested DEF TypeOK, Queues, Calls, OnError, Request, Command, kernel, thread, callers
<1>13. CASE OpenDone
  <2>1. slot'.high \in Seq(Part) /\ slot'.low \in Seq(Part) /\ slot'.dw \in Seq(Part)
    <3>1. slot'.high = slot.high /\ slot'.low = slot.low /\ slot'.dw \in {slot.dw, <<>>}
      BY <1>13, Zenon DEF OpenDone, SameLists, Lists
    <3> QED
      BY <3>1, QueueTypes, Zenon
  <2>2. wire' = wire
    BY <1>13 DEF OpenDone, CommandDone
  <2> QED
    BY <2>1, <2>2 DEF TypeOK, Queues
<1>14. CASE SendDone
  <2>1. slot'.high \in Seq(Part) /\ slot'.low \in Seq(Part) /\ slot'.dw \in Seq(Part)
    <3>1. pipe # <<>>
      BY <1>14 DEF SendDone, CommandDone
    <3>2. Parts(Head(pipe).m) \in Seq(Part)
      BY <3>1, HeadTyped, PartsOf
    <3>3. /\ slot'.dw = slot.dw
          /\ slot'.high \in {slot.high, slot.high \o Parts(Head(pipe).m), Parts(Head(pipe).m)}
          /\ slot'.low \in {slot.low, slot.low \o Parts(Head(pipe).m)}
      BY <1>14 DEF SendDone, SameLists, Lists
    <3> QED
      BY <3>2, <3>3, QueueTypes, Zenon
  <2>2. wire' = wire
    BY <1>14 DEF SendDone, CommandDone
  <2> QED
    BY <2>1, <2>2 DEF TypeOK, Queues
<1>15. CASE TriggerWrite
  BY <1>15, Obeyed DEF TypeOK, Queues, Calls, TriggerWrite, Cmd, kernel, thread, callers
<1>16. CASE CloseDone
  <2>1. slot'.high \in Seq(Part) /\ slot'.low \in Seq(Part) /\ slot'.dw \in Seq(Part)
    <3>1. slot'.high \in {slot.high, <<>>} /\ slot'.low \in {slot.low, <<>>} /\ slot'.dw = slot.dw
      BY <1>16 DEF CloseDone, SameLists, Lists
    <3> QED
      BY <3>1, QueueTypes, Zenon
  <2>2. wire' = wire
    BY <1>16 DEF CloseDone, CommandDone
  <2> QED
    BY <2>1, <2>2 DEF TypeOK, Queues
<1>17. CASE Drained
  BY <1>17 DEF TypeOK, Queues, Calls, Drained, kernel, thread, callers
<1>18. CASE CloseSlotDone
  BY <1>18, Telling DEF TypeOK, Queues, Calls, CloseSlotDone, Kept, Named, Lists, kernel, thread, callers
<1>19. CASE Poll
  BY <1>19 DEF TypeOK, Queues, Calls, Poll, Ready, kernel, thread, callers
<1>20. ASSUME EventDone, NEW what \in {"none", "data", "err"}, Still(what) PROVE Queues'
  BY <1>20, Telling DEF TypeOK, Queues, Calls, EventDone, Handling, Kept, Named, Still, SameLists, Lists,
     NextOf, kernel, thread, callers
<1>21. ASSUME EventDone, Opening PROVE Queues'
  BY <1>21, Telling DEF TypeOK, Queues, Calls, EventDone, Handling, Kept, Named, Opening, SameLists, Lists,
     NextOf, kernel, thread, callers
<1>22. ASSUME EventDone, Dropping PROVE Queues'
  BY <1>22 DEF TypeOK, Queues, Calls, EventDone, Handling, Kept, Named, Dropping, Lists, kernel, thread,
     callers
<1>23. ASSUME EventDone, Halved PROVE Queues'
  BY <1>23, Telling DEF TypeOK, Queues, Calls, EventDone, Handling, Kept, Named, Halved, SameLists, Lists,
     NextOf, kernel, thread, callers
<1>24. ASSUME EventDone, WroteAll PROVE Queues'
  <2>1. slot'.high = <<>> /\ slot'.low = <<>> /\ slot'.dw = <<>>
    BY <1>24 DEF WroteAll, Lists
  <2>2. wire' = [wire EXCEPT ![slot.id] = @ \o Unsent]
    BY <1>24 DEF WroteAll
  <2>3. Unsent \in Seq(Part)
    BY QueueTypes
  <2>4. wire' \in [Id -> Seq(Part)]
    BY <2>2, <2>3, Extended
  <2> QED
    BY <2>1, <2>4, QueueTypes DEF Queues
<1>25. ASSUME EventDone, NEW k \in 1 .. Len(Unsent) - 1, WroteSome(k) PROVE Queues'
  <2>1. Whole(Front) /\ Whole(slot.low) /\ Wire = wire[slot.id]
    BY <1>25, IdUsed DEF EventDone, Streams, Shape, WroteSome, Established, Wire
  <2>2. Wire \in Seq(Part) /\ slot.high \in Seq(Part) /\ slot.low \in Seq(Part) /\ slot.dw \in Seq(Part)
    BY <2>1, <1>25, IdUsed DEF WroteSome, TypeOK, Queues, Established
  <2>3. /\ Unsent \in Seq(Part)
        /\ Written(k).dw = <<>> /\ Written(k).high \in Seq(Part) /\ Written(k).low \in Seq(Part)
    BY <2>1, <2>2, WrittenKeeps, QueueTypes DEF Front
  <2>4. slot' = Written(k) /\ wire' = [wire EXCEPT ![slot.id] = @ \o SubSeq(Unsent, 1, k)]
    BY <1>25 DEF WroteSome
  <2>5. SubSeq(Unsent, 1, k) \in Seq(Part)
    <3>1. k \in 0 .. Len(Unsent)
      BY <2>3
    <3> QED
      BY <2>3, <3>1, Cut
  <2>6. wire' \in [Id -> Seq(Part)]
    BY <2>4, <2>5, Extended
  <2> QED
    BY <2>3, <2>4, <2>6, QueueTypes DEF Queues
<1>26. ASSUME EventDone, Broken PROVE Queues'
  <2>1. slot'.high \in Seq(Part) /\ slot'.low \in Seq(Part) /\ slot'.dw \in Seq(Part)
    <3>1. slot'.high \in {slot.dw \o slot.high, <<>>} /\ slot'.low \in {slot.low, <<>>} /\ slot'.dw = <<>>
      BY <1>26 DEF Broken, Lists, High
    <3> QED
      BY <3>1, QueueTypes, Zenon
  <2>2. wire' = wire
    BY <1>26 DEF Broken
  <2> QED
    BY <2>1, <2>2 DEF TypeOK, Queues
<1>27. CASE Connected \/ PeerData \/ PeerFin
  BY <1>27 DEF TypeOK, Queues, Calls, Connected, PeerData, PeerFin, Peer, kernel, thread, callers
<1>28. CASE Reset
  BY <1>28 DEF TypeOK, Queues, Calls, Reset, kernel, thread, callers
<1>29. CASE UNCHANGED vars
  BY <1>29 DEF TypeOK, Queues, Calls, vars, kernel, thread, callers
<1> QED
  BY <1>1, <1>2, <1>3, <1>4, <1>5, <1>6, <1>7, <1>8, <1>9, <1>10, <1>11, <1>12, <1>13, <1>14, <1>15, <1>16,
     <1>17, <1>18, <1>19, <1>20, <1>21, <1>22, <1>23, <1>24, <1>25, <1>26, <1>27, <1>28, <1>29, Steps
     DEF StepOf

(* Every step keeps the types.                                             *)
LEMMA NextTypeOK ==
  ASSUME Fields, TypeOK, Slots, Opens, Jobs, Quiet, Streams, [Next]_vars
  PROVE  TypeOK'
<1>1. pipe' \in Seq(Commands)
  <2>1. pipe \in Seq(Commands)
    BY DEF TypeOK, Calls
  <2>2. CASE pipe' = pipe
    BY <2>1, <2>2
  <2>3. CASE pipe # <<>> /\ pipe' = Tail(pipe)
    BY <2>1, <2>3
  <2>4. ASSUME NEW k \in Commands, pipe' = Append(pipe, k) PROVE pipe' \in Seq(Commands)
    BY <2>1, <2>4
  <2> QED
    BY <2>2, <2>3, <2>4, Requests DEF Asks
<1> QED
  BY <1>1, NextValues, NextCalling, NextQueues DEF TypeOK, Calls

(* Every step keeps the marks of a dead connection truthful.               *)
LEMMA NextDead ==
  ASSUME Fields, TypeOK, Slots, Opens, Quiet, Deaths, [Next]_vars
  PROVE  Dead'
<1> USE Parameters
<1>1. ASSUME NEW v \in Service, NEW c \in Id, Send(v, c) PROVE Dead'
  BY <1>1, IdUsed DEF Dead, Deaths, Fields, NoNet, Established, Send, Goto, kernel, thread, callers
<1>2. ASSUME NEW v \in Service, TryLock(v) PROVE Dead'
  BY <1>2, IdUsed DEF Dead, Deaths, Fields, NoNet, Established, TryLock, Goto, kernel, thread, callers
<1>3. ASSUME NEW v \in Service, DirectDone(v) PROVE Dead'
  <2>1. UNCHANGED <<event, told>> /\ slot'.id = slot.id /\ slot'.type = slot.type /\ net'.st = net.st /\ (net'.err => net.err)
    BY <1>3, Zenon DEF DirectDone, Kept, Named
  <2> QED
    BY <2>1 DEF Deaths, Dead
<1>4. ASSUME NEW v \in Service, Trigger(v) PROVE Dead'
  BY <1>4, IdUsed, Requested DEF Dead, Deaths, Fields, NoNet, Established, Trigger, Goto, Request, Command,
     kernel, thread, callers
<1>5. ASSUME NEW v \in Service, IncSending(v) PROVE Dead'
  BY <1>5, IdUsed DEF Dead, Deaths, Fields, NoNet, Established, IncSending, Goto, kernel, thread, callers
<1>6. ASSUME NEW v \in Service, Post(v) PROVE Dead'
  BY <1>6, IdUsed, Requested DEF Dead, Deaths, Fields, NoNet, Established, Post, Goto, Request, Command,
     kernel, thread, callers
<1>7. CASE Reserve
  BY <1>7, IdUsed DEF Dead, Deaths, Fields, NoNet, Established, Reserve, Goto, kernel, thread, callers
<1>8. CASE SetId
  BY <1>8, IdUsed DEF Dead, Deaths, Fields, NoNet, Established, SetId, Goto, kernel, thread, callers
<1>9. CASE OpenRequest
  BY <1>9, IdUsed, Requested DEF Dead, Deaths, Fields, NoNet, Established, OpenRequest, Goto, Request,
     Command, kernel, thread, callers
<1>10. ASSUME NEW c \in Id, Close(c) PROVE Dead'
  BY <1>10, IdUsed, Requested DEF Dead, Deaths, Fields, NoNet, Established, Close, Request, Command, kernel,
     thread, callers
<1>11. ASSUME NEW c \in Id, Shutdown(c) PROVE Dead'
  BY <1>11, IdUsed, Requested DEF Dead, Deaths, Fields, NoNet, Established, Shutdown, Request, Command,
     kernel, thread, callers
<1>12. ASSUME NEW c \in Id, OnError(c) PROVE Dead'
  BY <1>12, IdUsed, Requested DEF Dead, Deaths, Fields, NoNet, Established, OnError, Request, Command,
     kernel, thread, callers
<1>13. CASE OpenDone
  <2>1. pipe # <<>> /\ pipe' = Tail(pipe) /\ Head(pipe).op = "O" /\ event' = event /\ slot'.id = slot.id
    BY <1>13 DEF OpenDone, CommandDone
  <2>2. slot.type = "reserve"
    BY <2>1, Obeyed DEF Opens
  <2>3. event = NoEvent /\ net.st = "none"
    BY <2>2 DEF Slots, Deaths, Dead
  <2>4. \/ slot'.type = "invalid" /\ net' = net
        \/ slot'.type \in {"connecting", "connected"} /\ net'.st \in {"connecting", "up"} /\ net'.err = FALSE
    BY <1>13 DEF OpenDone
  <2> QED
    BY <2>1, <2>3, <2>4 DEF Deaths, Dead, NoEvent
<1>14. CASE SendDone
  BY <1>14, IdUsed, Obeyed DEF Dead, Deaths, Fields, NoNet, Established, SendDone, CommandDone, Named,
     SameLists, Lists, kernel, thread, callers
<1>15. CASE TriggerWrite
  BY <1>15, IdUsed, Obeyed DEF Dead, Deaths, Fields, NoNet, Established, TriggerWrite, Cmd, kernel, thread,
     callers
<1>16. CASE CloseDone
  <2>1. event' = event /\ net' = net /\ slot'.id = slot.id
    BY <1>16 DEF CloseDone, CommandDone, Named
  <2>2. CASE Invalid(Head(pipe).id)
    BY <1>16, <2>1, <2>2 DEF CloseDone, Deaths, Dead
  <2>3. CASE ~Invalid(Head(pipe).id)
    <3>1. slot.type \in Established
      BY <1>16, <2>3, Opened DEF CloseDone, CommandDone
    <3>2. slot'.type \in {slot.type, "halfread"}
      BY <1>16 DEF CloseDone
    <3>3. told' = told \/ \A n \in Id : told'[n].died = told[n].died
      BY <1>16, Zenon DEF CloseDone
    <3> QED
      BY <2>1, <3>1, <3>2, <3>3, IdUsed DEF Deaths, Dead, Established
  <2> QED
    BY <2>2, <2>3
<1>17. CASE Drained
  BY <1>17, IdUsed DEF Dead, Deaths, Fields, NoNet, Established, Drained, kernel, thread, callers
<1>18. CASE CloseSlotDone
  BY <1>18, IdUsed, Telling DEF Dead, Deaths, Fields, NoNet, Established, CloseSlotDone, Kept, Named, Lists,
     kernel, thread, callers
<1>19. CASE Poll
  BY <1>19, IdUsed DEF Dead, Deaths, Fields, NoNet, Established, Poll, Ready, kernel, thread, callers
<1>20. ASSUME EventDone, NEW what \in {"none", "data", "err"}, Still(what) PROVE Dead'
  <2>1. (event'.eof \/ event'.error) => (event.eof \/ event.error)
    BY <1>20 DEF EventDone, NoEvent
  <2>2. slot'.id = slot.id /\ \A n \in Id : told'[n].died = told[n].died
    BY <1>20, Telling DEF Still, EventDone, Kept, Named
  <2>3. /\ (slot'.type = "invalid" /\ net' = NoNet) \/ (net'.st = net.st /\ (net'.err => net.err))
        /\ (slot'.type = "invalid" /\ net' = NoNet) \/ slot'.type = slot.type \/ (slot.type \in {"connecting", "connected"} /\ slot'.type \in {"connected", "halfread"})
    BY <1>20 DEF Still
  <2> QED
    BY <2>1, <2>2, <2>3, IdUsed DEF Deaths, Dead, NoNet, Established
<1>21. ASSUME EventDone, Opening PROVE Dead'
  <2>1. (event'.eof \/ event'.error) => (event.eof \/ event.error)
    BY <1>21 DEF EventDone, NoEvent
  <2>2. slot'.id = slot.id /\ \A n \in Id : told'[n].died = told[n].died
    BY <1>21, Telling DEF Opening, EventDone, Kept, Named
  <2>3. /\ (slot'.type = "invalid" /\ net' = NoNet) \/ (net'.st = net.st /\ (net'.err => net.err))
        /\ (slot'.type = "invalid" /\ net' = NoNet) \/ slot'.type = slot.type \/ (slot.type \in {"connecting", "connected"} /\ slot'.type \in {"connected", "halfread"})
    BY <1>21 DEF Opening
  <2> QED
    BY <2>1, <2>2, <2>3, IdUsed DEF Deaths, Dead, NoNet, Established
<1>22. ASSUME EventDone, Dropping PROVE Dead'
  <2>1. (event'.eof \/ event'.error) => (event.eof \/ event.error)
    BY <1>22 DEF EventDone, NoEvent
  <2>2. slot'.id = slot.id /\ \A n \in Id : told'[n].died = told[n].died
    BY <1>22, Telling DEF Dropping, EventDone, Kept, Named
  <2>3. /\ (slot'.type = "invalid" /\ net' = NoNet) \/ (net'.st = net.st /\ (net'.err => net.err))
        /\ (slot'.type = "invalid" /\ net' = NoNet) \/ slot'.type = slot.type \/ (slot.type \in {"connecting", "connected"} /\ slot'.type \in {"connected", "halfread"})
    BY <1>22 DEF Dropping
  <2> QED
    BY <2>1, <2>2, <2>3, IdUsed DEF Deaths, Dead, NoNet, Established
<1>23. ASSUME EventDone, Halved PROVE Dead'
  <2>1. (event'.eof \/ event'.error) => (event.eof \/ event.error)
    BY <1>23 DEF EventDone, NoEvent
  <2>2. slot'.id = slot.id /\ \A n \in Id : told'[n].died = told[n].died
    BY <1>23, Telling DEF Halved, EventDone, Kept, Named
  <2>3. /\ (slot'.type = "invalid" /\ net' = NoNet) \/ (net'.st = net.st /\ (net'.err => net.err))
        /\ (slot'.type = "invalid" /\ net' = NoNet) \/ slot'.type = slot.type \/ (slot.type \in {"connecting", "connected"} /\ slot'.type \in {"connected", "halfread"})
    BY <1>23 DEF Halved
  <2> QED
    BY <2>1, <2>2, <2>3, IdUsed DEF Deaths, Dead, NoNet, Established
<1>24. ASSUME EventDone, WroteAll PROVE Dead'
  <2>1. (event'.eof \/ event'.error) => (event.eof \/ event.error)
    BY <1>24 DEF EventDone, NoEvent
  <2>2. slot'.id = slot.id /\ \A n \in Id : told'[n].died = told[n].died
    BY <1>24, Telling DEF WroteAll, EventDone, Kept, Named
  <2>3. /\ (slot'.type = "invalid" /\ net' = NoNet) \/ (net'.st = net.st /\ (net'.err => net.err))
        /\ (slot'.type = "invalid" /\ net' = NoNet) \/ slot'.type = slot.type \/ (slot.type \in {"connecting", "connected"} /\ slot'.type \in {"connected", "halfread"})
    BY <1>24 DEF WroteAll
  <2> QED
    BY <2>1, <2>2, <2>3, IdUsed DEF Deaths, Dead, NoNet, Established
<1>25. ASSUME EventDone, NEW k \in 1 .. Len(Unsent) - 1, WroteSome(k) PROVE Dead'
  <2>1. (event'.eof \/ event'.error) => (event.eof \/ event.error)
    BY <1>25 DEF EventDone, NoEvent
  <2>2. slot'.id = slot.id /\ \A n \in Id : told'[n].died = told[n].died
    BY <1>25, Telling DEF WroteSome, EventDone, Kept, Named
  <2>3. /\ (slot'.type = "invalid" /\ net' = NoNet) \/ (net'.st = net.st /\ (net'.err => net.err))
        /\ (slot'.type = "invalid" /\ net' = NoNet) \/ slot'.type = slot.type \/ (slot.type \in {"connecting", "connected"} /\ slot'.type \in {"connected", "halfread"})
    BY <1>25 DEF WroteSome
  <2> QED
    BY <2>1, <2>2, <2>3, IdUsed DEF Deaths, Dead, NoNet, Established
<1>26. ASSUME EventDone, Broken PROVE Dead'
  BY <1>26, IdUsed, Telling DEF Dead, Deaths, Fields, NoNet, Established, EventDone, Handling, Kept, Named,
     Broken, Lists, NextOf, kernel, thread, callers
<1>27. CASE Connected \/ PeerData \/ PeerFin
  BY <1>27, IdUsed DEF Dead, Deaths, Fields, NoNet, Established, Connected, PeerData, PeerFin, Peer, kernel,
     thread, callers
<1>28. CASE Reset
  BY <1>28, IdUsed DEF Dead, Deaths, Fields, NoNet, Established, Reset, kernel, thread, callers
<1>29. CASE UNCHANGED vars
  BY <1>29, IdUsed DEF Dead, Deaths, Fields, NoNet, Established, vars, kernel, thread, callers
<1> QED
  BY <1>1, <1>2, <1>3, <1>4, <1>5, <1>6, <1>7, <1>8, <1>9, <1>10, <1>11, <1>12, <1>13, <1>14, <1>15, <1>16,
     <1>17, <1>18, <1>19, <1>20, <1>21, <1>22, <1>23, <1>24, <1>25, <1>26, <1>27, <1>28, <1>29, Steps
     DEF StepOf

(* Errors stay told of dead connections as long as a step tells of no      *)
(* other and revives none.                                                 *)
LEMMA FearedStay ==
  ASSUME TypeOK, Feared, NEW k,
         \/ slot'.type \in {"invalid", "reserve"}
         \/ /\ slot'.id = slot.id /\ slot.type \in {"connecting"} \cup Established
            /\ net.st = "dead" => net'.st = "dead",
         \A c \in Id : told'[c].err => told[c].err \/ net'.st = "dead",
         \A c \in Id : asked[c].shut => asked'[c].shut,
         \/ pipe' = pipe
         \/ pipe # <<>> /\ pipe' = Tail(pipe)
         \/ pipe' = Append(pipe, k) /\ (k.op = "K" /\ k.m = 1 => net'.st = "dead" \/ asked'[k.id].shut \/ ~Alive(k.id))
  PROVE  Feared'
<1>1. CASE slot'.type \in {"invalid", "reserve"}
  BY <1>1 DEF Feared, Alive, Established
<1>2. CASE /\ slot'.id = slot.id /\ slot.type \in {"connecting"} \cup Established
           /\ net.st = "dead" => net'.st = "dead"
  <2>1. \A c \in Id : told'[c].err /\ slot.id = c => net'.st = "dead"
    BY <1>2 DEF Feared, Alive
  <2>2. \A i \in 1 .. Len(pipe) : pipe[i].op = "K" /\ pipe[i].m = 1 /\ slot.id = pipe[i].id => net'.st = "dead" \/ asked'[pipe[i].id].shut
    BY <1>2, Contents DEF Feared, Alive
  <2>3. \A i \in 1 .. Len(pipe') : pipe'[i].op = "K" /\ pipe'[i].m = 1 /\ slot.id = pipe'[i].id => net'.st = "dead" \/ asked'[pipe'[i].id].shut
    <3>1. CASE pipe' = pipe
      BY <2>2, <3>1
    <3>2. CASE pipe # <<>> /\ pipe' = Tail(pipe)
      <4>1. \A i \in 1 .. Len(pipe') : i + 1 \in 1 .. Len(pipe) /\ pipe'[i] = pipe[i + 1]
        BY <3>2, Obeyed, Zenon
      <4> QED
        BY <2>2, <4>1, Zenon
    <3>3. CASE pipe' = Append(pipe, k) /\ (k.op = "K" /\ k.m = 1 => net'.st = "dead" \/ asked'[k.id].shut \/ ~Alive(k.id))
      <4>1. k.op = "K" /\ k.m = 1 /\ slot.id = k.id => net'.st = "dead" \/ asked'[k.id].shut
        BY <1>2, <3>3 DEF Alive
      <4>2. \A i \in 1 .. Len(pipe') : (i \in 1 .. Len(pipe) /\ pipe'[i] = pipe[i]) \/ pipe'[i] = k
        BY <3>3, Requested
      <4> QED
        BY <2>2, <4>1, <4>2
    <3> QED
      BY <3>1, <3>2, <3>3
  <2> QED
    BY <1>2, <2>1, <2>3 DEF Feared, Alive
<1> QED
  BY <1>1, <1>2

(* Every step tells of an error only if the connection is dead, and shuts  *)
(* down only then or when asked.                                           *)
LEMMA NextFeared ==
  ASSUME Fields, TypeOK, Slots, Opens, Quiet, Deaths, [Next]_vars
  PROVE  Feared'
<1> USE Parameters
<1>1. ASSUME NEW v \in Service, NEW c \in Id, Send(v, c) PROVE Feared'
  <2>1. UNCHANGED <<slot, net, asked, told, pipe>>
    BY <1>1 DEF Send, kernel, thread, callers
  <2> QED
    BY <2>1 DEF Deaths, Feared, Alive
<1>2. ASSUME NEW v \in Service, TryLock(v) PROVE Feared'
  <2>1. UNCHANGED <<slot, net, asked, told, pipe>>
    BY <1>2 DEF TryLock, kernel, thread, callers
  <2> QED
    BY <2>1 DEF Deaths, Feared, Alive
<1>3. ASSUME NEW v \in Service, DirectDone(v) PROVE Feared'
  <2>1. UNCHANGED <<asked, told, pipe>> /\ slot'.id = slot.id /\ slot'.type = slot.type /\ net'.st = net.st
    BY <1>3, Zenon DEF DirectDone, Kept, Named
  <2> QED
    BY <2>1 DEF Deaths, Feared, Alive
<1>4. ASSUME NEW v \in Service, Trigger(v) PROVE Feared'
  <2>1. slot' = slot /\ net' = net /\ pipe' = Append(pipe, Command("W", box[job[v]].to, 0))
    BY <1>4 DEF Trigger, Request, kernel, thread, callers
  <2>2. \A n \in Id : (told'[n].err => told[n].err) /\ (asked[n].shut => asked'[n].shut)
    BY <1>4 DEF Trigger, thread, callers, Fields
  <2>3. LET k == Command("W", box[job[v]].to, 0) IN k.op = "K" /\ k.m = 1 => net'.st = "dead" \/ asked'[k.id].shut \/ ~Alive(k.id)
    BY DEF Command
  <2>4. CASE slot.type \notin {"connecting"} \cup Established
    BY <2>1, <2>4 DEF Feared, Alive
  <2>5. CASE slot.type \in {"connecting"} \cup Established
    BY <2>1, <2>2, <2>3, <2>5, FearedStay DEF Deaths
  <2> QED
    BY <2>4, <2>5
<1>5. ASSUME NEW v \in Service, IncSending(v) PROVE Feared'
  <2>1. UNCHANGED <<net, asked, told, pipe>> /\ slot'.id = slot.id /\ slot'.type = slot.type
    BY <1>5 DEF IncSending, kernel, thread, callers, Fields
  <2> QED
    BY <2>1 DEF Deaths, Feared, Alive
<1>6. ASSUME NEW v \in Service, Post(v) PROVE Feared'
  <2>1. slot' = slot /\ net' = net /\ pipe' = Append(pipe, Command(IF job[v] \in Low THEN "P" ELSE "D", box[job[v]].to, job[v]))
    BY <1>6 DEF Post, Request, kernel, thread, callers
  <2>2. \A n \in Id : (told'[n].err => told[n].err) /\ (asked[n].shut => asked'[n].shut)
    BY <1>6 DEF Post, thread, callers, Fields
  <2>3. LET k == Command(IF job[v] \in Low THEN "P" ELSE "D", box[job[v]].to, job[v]) IN k.op = "K" /\ k.m = 1 => net'.st = "dead" \/ asked'[k.id].shut \/ ~Alive(k.id)
    BY DEF Command
  <2>4. CASE slot.type \notin {"connecting"} \cup Established
    BY <2>1, <2>4 DEF Feared, Alive
  <2>5. CASE slot.type \in {"connecting"} \cup Established
    BY <2>1, <2>2, <2>3, <2>5, FearedStay DEF Deaths
  <2> QED
    BY <2>4, <2>5
<1>7. CASE Reserve
  <2>1. slot'.type = "reserve"
    BY <1>7 DEF Reserve, Fields
  <2> QED
    BY <2>1 DEF Feared, Alive, Established
<1>8. CASE SetId
  <2>1. slot'.type = "reserve"
    BY <1>8, Parameters DEF SetId, Fields, Slots
  <2> QED
    BY <2>1 DEF Feared, Alive, Established
<1>9. CASE OpenRequest
  <2>1. slot' = slot /\ net' = net /\ pipe' = Append(pipe, Command("O", last, 0))
    BY <1>9 DEF OpenRequest, Request, kernel, thread, callers
  <2>2. \A n \in Id : (told'[n].err => told[n].err) /\ (asked[n].shut => asked'[n].shut)
    BY <1>9 DEF OpenRequest, thread, callers, Fields
  <2>3. LET k == Command("O", last, 0) IN k.op = "K" /\ k.m = 1 => net'.st = "dead" \/ asked'[k.id].shut \/ ~Alive(k.id)
    BY DEF Command
  <2>4. CASE slot.type \notin {"connecting"} \cup Established
    BY <2>1, <2>4 DEF Feared, Alive
  <2>5. CASE slot.type \in {"connecting"} \cup Established
    BY <2>1, <2>2, <2>3, <2>5, FearedStay DEF Deaths
  <2> QED
    BY <2>4, <2>5
<1>10. ASSUME NEW c \in Id, Close(c) PROVE Feared'
  <2>1. slot' = slot /\ net' = net /\ pipe' = Append(pipe, Command("K", c, 0))
    BY <1>10 DEF Close, Request, kernel, thread, callers
  <2>2. \A n \in Id : (told'[n].err => told[n].err) /\ (asked[n].shut => asked'[n].shut)
    BY <1>10 DEF Close, thread, callers, Fields
  <2>3. LET k == Command("K", c, 0) IN k.op = "K" /\ k.m = 1 => net'.st = "dead" \/ asked'[k.id].shut \/ ~Alive(k.id)
    BY DEF Command
  <2>4. CASE slot.type \notin {"connecting"} \cup Established
    BY <2>1, <2>4 DEF Feared, Alive
  <2>5. CASE slot.type \in {"connecting"} \cup Established
    BY <2>1, <2>2, <2>3, <2>5, FearedStay DEF Deaths
  <2> QED
    BY <2>4, <2>5
<1>11. ASSUME NEW c \in Id, Shutdown(c) PROVE Feared'
  <2>1. slot' = slot /\ net' = net /\ pipe' = Append(pipe, Command("K", c, 1))
    BY <1>11 DEF Shutdown, Request, kernel, thread, callers
  <2>2. \A n \in Id : (told'[n].err => told[n].err) /\ (asked[n].shut => asked'[n].shut)
    BY <1>11 DEF Shutdown, thread, callers, Fields
  <2>3. LET k == Command("K", c, 1) IN k.op = "K" /\ k.m = 1 => net'.st = "dead" \/ asked'[k.id].shut \/ ~Alive(k.id)
    BY <1>11 DEF Shutdown, Command, Fields
  <2>4. CASE slot.type \notin {"connecting"} \cup Established
    BY <2>1, <2>4 DEF Feared, Alive
  <2>5. CASE slot.type \in {"connecting"} \cup Established
    BY <2>1, <2>2, <2>3, <2>5, FearedStay DEF Deaths
  <2> QED
    BY <2>4, <2>5
<1>12. ASSUME NEW c \in Id, OnError(c) PROVE Feared'
  <2>1. slot' = slot /\ net' = net /\ pipe' = Append(pipe, Command("K", c, 1))
    BY <1>12 DEF OnError, Request, kernel, thread, callers
  <2>2. \A n \in Id : (told'[n].err => told[n].err) /\ (asked[n].shut => asked'[n].shut)
    BY <1>12 DEF OnError, thread, callers, Fields
  <2>3. LET k == Command("K", c, 1) IN k.op = "K" /\ k.m = 1 => net'.st = "dead" \/ asked'[k.id].shut \/ ~Alive(k.id)
    BY <1>12, <2>1 DEF OnError, Command, Deaths, Feared
  <2>4. CASE slot.type \notin {"connecting"} \cup Established
    BY <2>1, <2>4 DEF Feared, Alive
  <2>5. CASE slot.type \in {"connecting"} \cup Established
    BY <2>1, <2>2, <2>3, <2>5, FearedStay DEF Deaths
  <2> QED
    BY <2>4, <2>5
<1>13. CASE OpenDone
  <2>1. pipe # <<>> /\ pipe' = Tail(pipe) /\ Head(pipe).op = "O" /\ slot'.id = slot.id /\ asked' = asked
    BY <1>13 DEF OpenDone, CommandDone
  <2>2. slot.type = "reserve" /\ Head(pipe).id = last /\ slot.id = last
    BY <1>13, <2>1, Obeyed DEF Opens, Slots, OpenDone, CommandDone
  <2>3. CASE slot'.type = "invalid"
    BY <2>3 DEF Feared, Alive, Established
  <2>4. CASE slot'.type \in {"connecting", "connected"}
    <3>1. \A n \in Id : n = last => Unopened(n)
      BY <2>2 DEF Unopened, Fresh
    <3>2. \A n \in Id : n = last => ~told[n].err
      BY <3>1 DEF Quiet, Untold
    <3>3. \A n \in Id : told'[n].err <=> told[n].err
      <4>1. told' = told \/ Tell(Head(pipe).id, "open")
        BY <1>13, <2>4 DEF OpenDone
      <4> QED
        BY <4>1, Telling
    <3>4. \A i \in 1 .. Len(pipe') : i + 1 \in 1 .. Len(pipe) /\ pipe'[i] = pipe[i + 1]
      BY <2>1, Obeyed, Zenon
    <3>5. \A i \in 1 .. Len(pipe') : pipe'[i].op = "K" => pipe'[i].id # last
      BY <3>1, <3>4, Contents DEF Quiet, Aimed
    <3> QED
      BY <2>1, <2>2, <3>2, <3>3, <3>5 DEF Feared, Alive
  <2> QED
    BY <1>13, <2>3, <2>4 DEF OpenDone
<1>14. CASE SendDone
  <2>1. /\ slot'.type = slot.type /\ slot'.id = slot.id /\ UNCHANGED <<net, told, asked>>
        /\ pipe # <<>> /\ pipe' = Tail(pipe)
    BY <1>14 DEF SendDone, CommandDone, Fields, Named, kernel, thread, callers
  <2>2. CASE slot.type \notin {"connecting"} \cup Established
    BY <2>1, <2>2 DEF Feared, Alive
  <2>3. CASE slot.type \in {"connecting"} \cup Established
    BY <2>1, <2>3, FearedStay DEF Deaths
  <2> QED
    BY <2>2, <2>3
<1>15. CASE TriggerWrite
  <2>1. /\ slot'.type = slot.type /\ slot'.id = slot.id /\ UNCHANGED <<net, told, asked>>
        /\ pipe # <<>> /\ pipe' = Tail(pipe)
    BY <1>15 DEF TriggerWrite, Cmd, Fields, Named, kernel, thread, callers
  <2>2. CASE slot.type \notin {"connecting"} \cup Established
    BY <2>1, <2>2 DEF Feared, Alive
  <2>3. CASE slot.type \in {"connecting"} \cup Established
    BY <2>1, <2>3, FearedStay DEF Deaths
  <2> QED
    BY <2>2, <2>3
<1>16. CASE CloseDone
  <2>1. slot'.id = slot.id /\ net' = net /\ asked' = asked /\ pipe # <<>> /\ pipe' = Tail(pipe)
    BY <1>16 DEF CloseDone, CommandDone, Named
  <2>2. told' = told \/ \A n \in Id : told'[n].err = told[n].err
    BY <1>16, Zenon DEF CloseDone
  <2>3. slot'.type = slot.type \/ slot.type \in Established
    <3>1. CASE Invalid(Head(pipe).id)
      BY <1>16, <3>1 DEF CloseDone
    <3>2. CASE ~Invalid(Head(pipe).id)
      BY <1>16, <3>2, Opened DEF CloseDone, CommandDone
    <3> QED
      BY <3>1, <3>2
  <2>4. CASE slot.type \notin {"connecting"} \cup Established
    BY <2>1, <2>3, <2>4 DEF Feared, Alive
  <2>5. CASE slot.type \in {"connecting"} \cup Established
    BY <2>1, <2>2, <2>5, FearedStay DEF Deaths
  <2> QED
    BY <2>4, <2>5
<1>17. CASE Drained
  <2>1. UNCHANGED <<slot, net, asked, told, pipe>>
    BY <1>17 DEF Drained, kernel, thread, callers
  <2> QED
    BY <2>1 DEF Deaths, Feared, Alive
<1>18. CASE CloseSlotDone
  <2>1. slot'.type = "invalid"
    BY <1>18 DEF CloseSlotDone
  <2> QED
    BY <2>1 DEF Feared, Alive, Established
<1>19. CASE Poll
  <2>1. UNCHANGED <<slot, net, asked, told, pipe>>
    BY <1>19 DEF Poll, kernel, thread, callers
  <2> QED
    BY <2>1 DEF Deaths, Feared, Alive
<1>20. ASSUME EventDone, NEW what \in {"none", "data", "err"}, Still(what) PROVE Feared'
  <2>1. slot'.id = slot.id /\ asked' = asked /\ pipe' = pipe /\ slot'.type = slot.type /\ net'.st = net.st
    BY <1>20 DEF EventDone, Kept, Named, Still
  <2>2. \A n \in Id : told'[n].err => told[n].err \/ net'.st = "dead"
    BY <1>20, Telling DEF Still, Deaths, Dead
  <2>3. CASE slot.type \notin {"connecting"} \cup Established
    BY <2>1, <2>3 DEF Feared, Alive
  <2>4. CASE slot.type \in {"connecting"} \cup Established
    BY <2>1, <2>2, <2>4, FearedStay DEF Deaths
  <2> QED
    BY <2>3, <2>4
<1>21. ASSUME EventDone, Opening PROVE Feared'
  <2>1. slot'.id = slot.id /\ asked' = asked /\ pipe' = pipe
    BY <1>21 DEF EventDone, Kept, Named
  <2>2. /\ slot'.type = "invalid" \/ (slot.type \in {"connecting"} \cup Established /\ net'.st = net.st)
        /\ \A n \in Id : told'[n].err => told[n].err \/ net'.st = "dead"
    BY <1>21, Telling DEF Opening, Deaths, Dead, Established
  <2> QED
    BY <2>1, <2>2, FearedStay DEF Deaths
<1>22. ASSUME EventDone, Dropping PROVE Feared'
  <2>1. slot'.id = slot.id /\ asked' = asked /\ pipe' = pipe
    BY <1>22 DEF EventDone, Kept, Named
  <2>2. /\ slot'.type = "invalid" \/ (slot.type \in {"connecting"} \cup Established /\ net'.st = net.st)
        /\ \A n \in Id : told'[n].err => told[n].err \/ net'.st = "dead"
    BY <1>22, Telling DEF Dropping, Deaths, Dead, Established
  <2> QED
    BY <2>1, <2>2, FearedStay DEF Deaths
<1>23. ASSUME EventDone, Halved PROVE Feared'
  <2>1. slot'.id = slot.id /\ asked' = asked /\ pipe' = pipe
    BY <1>23 DEF EventDone, Kept, Named
  <2>2. /\ slot'.type = "invalid" \/ (slot.type \in {"connecting"} \cup Established /\ net'.st = net.st)
        /\ \A n \in Id : told'[n].err => told[n].err \/ net'.st = "dead"
    BY <1>23, Telling DEF Halved, Deaths, Dead, Established
  <2> QED
    BY <2>1, <2>2, FearedStay DEF Deaths
<1>24. ASSUME EventDone, WroteAll PROVE Feared'
  <2>1. slot'.id = slot.id /\ asked' = asked /\ pipe' = pipe
    BY <1>24 DEF EventDone, Kept, Named
  <2>2. /\ slot'.type = "invalid" \/ (slot.type \in {"connecting"} \cup Established /\ net'.st = net.st)
        /\ \A n \in Id : told'[n].err => told[n].err \/ net'.st = "dead"
    BY <1>24, Telling DEF WroteAll, Deaths, Dead, Established
  <2> QED
    BY <2>1, <2>2, FearedStay DEF Deaths
<1>25. ASSUME EventDone, NEW k \in 1 .. Len(Unsent) - 1, WroteSome(k) PROVE Feared'
  <2>1. slot'.id = slot.id /\ asked' = asked /\ pipe' = pipe
    BY <1>25 DEF EventDone, Kept, Named
  <2>2. /\ slot'.type = "invalid" \/ (slot.type \in {"connecting"} \cup Established /\ net'.st = net.st)
        /\ \A n \in Id : told'[n].err => told[n].err \/ net'.st = "dead"
    BY <1>25, Telling DEF WroteSome, Deaths, Dead, Established
  <2> QED
    BY <2>1, <2>2, FearedStay DEF Deaths
<1>26. ASSUME EventDone, Broken PROVE Feared'
  <2>1. slot'.id = slot.id /\ asked' = asked /\ pipe' = pipe
    BY <1>26 DEF EventDone, Kept, Named
  <2>2. /\ slot'.type = "invalid" \/ (slot.type \in {"connecting"} \cup Established /\ net'.st = net.st)
        /\ \A n \in Id : told'[n].err => told[n].err \/ net'.st = "dead"
    BY <1>26, Telling DEF Broken, Deaths, Dead, Established
  <2> QED
    BY <2>1, <2>2, FearedStay DEF Deaths
<1>27. CASE Connected \/ PeerData \/ PeerFin
  <2>1. UNCHANGED <<slot, asked, told, pipe>> /\ (net.st = "dead" => net'.st = "dead")
    BY <1>27 DEF Connected, PeerData, PeerFin, Peer, kernel, thread, callers
  <2> QED
    BY <2>1 DEF Deaths, Feared, Alive
<1>28. CASE Reset
  <2>1. slot' = slot /\ net'.st = "dead"
    BY <1>28 DEF Reset, Fields
  <2> QED
    BY <2>1 DEF Feared
<1>29. CASE UNCHANGED vars
  BY <1>29, IdUsed DEF Feared, Dead, Deaths, Alive, vars, kernel, thread, callers
<1> QED
  BY <1>1, <1>2, <1>3, <1>4, <1>5, <1>6, <1>7, <1>8, <1>9, <1>10, <1>11, <1>12, <1>13, <1>14, <1>15, <1>16,
     <1>17, <1>18, <1>19, <1>20, <1>21, <1>22, <1>23, <1>24, <1>25, <1>26, <1>27, <1>28, <1>29, Steps
     DEF StepOf

(* The two together.                                                       *)
LEMMA NextDeaths ==
  ASSUME Fields, TypeOK, Slots, Opens, Quiet, Deaths, [Next]_vars
  PROVE  Deaths'
BY NextDead, NextFeared DEF Deaths

(* Nothing is counted or uncounted.                                        *)
Uncounted ==
  /\ box' = box /\ job' = job
  /\ \A v \in Service : at'[v] = "post" <=> at[v] = "post"
  /\ \/ pipe' = pipe
     \/ pipe # <<>> /\ Head(pipe).op \notin Sends /\ pipe' = Tail(pipe)
     \/ \E k : pipe' = Append(pipe, k) /\ k.op \notin Sends
  /\ Named /\ slot'.sending = slot.sending

(* The steps, as far as the count is concerned.                            *)
CountStep ==
  \/ \E v \in Service : Post(v) \/ IncSending(v) \/ \E c \in Id : Send(v, c)
  \/ SetId \/ OpenDone \/ SendDone
  \/ Uncounted

(* Only Post, IncSending, Send, SetId, open_socket and send_socket change  *)
(* the count or what it counts.                                            *)
LEMMA Counts ==
  ASSUME Fields, TypeOK, [Next]_vars
  PROVE  CountStep
<1> USE Parameters
<1>1. ASSUME NEW v \in Service, NEW c \in Id, Send(v, c) PROVE CountStep
  BY <1>1 DEF CountStep
<1>2. ASSUME NEW v \in Service, TryLock(v) PROVE CountStep
  BY <1>2 DEF CountStep, Uncounted, Named, TypeOK, Calls, Fields, TryLock, Goto, kernel, thread, callers
<1>3. ASSUME NEW v \in Service, DirectDone(v) PROVE CountStep
  <2>1. PICK l \in {"count", "idle", "trigger"} : at' = [at EXCEPT ![v] = l]
    BY <1>3, Zenon DEF DirectDone
  <2>2. /\ at[v] = "locked" /\ pipe' = pipe /\ box' = box /\ job' = job
        /\ slot'.id = slot.id /\ slot'.tcp = slot.tcp /\ slot'.tag = slot.tag /\ slot'.sending = slot.sending
    BY <1>3, Zenon DEF DirectDone, Kept, Named
  <2> QED
    BY <2>1, <2>2 DEF CountStep, Uncounted, Named, TypeOK, Calls
<1>4. ASSUME NEW v \in Service, Trigger(v) PROVE CountStep
  <2>1. pipe' = Append(pipe, Command("W", box[job[v]].to, 0)) /\ Command("W", box[job[v]].to, 0).op \notin Sends
    BY <1>4 DEF Trigger, Request, Command, Sends
  <2>2. \E k : pipe' = Append(pipe, k) /\ k.op \notin Sends
    BY <2>1, Zenon
  <2>3. /\ slot' = slot /\ box' = box /\ job' = job
        /\ \A n \in Service : at'[n] = "post" <=> at[n] = "post"
    BY <1>4 DEF Trigger, Goto, callers, TypeOK, Calls
  <2> QED
    BY <2>2, <2>3, Zenon DEF CountStep, Uncounted, Named
<1>5. ASSUME NEW v \in Service, IncSending(v) PROVE CountStep
  BY <1>5 DEF CountStep
<1>6. ASSUME NEW v \in Service, Post(v) PROVE CountStep
  BY <1>6 DEF CountStep
<1>7. CASE Reserve
  BY <1>7 DEF CountStep, Uncounted, Named, TypeOK, Calls, Fields, Reserve, Goto, kernel, thread, callers
<1>8. CASE SetId
  BY <1>8 DEF CountStep
<1>9. CASE OpenRequest
  <2>1. pipe' = Append(pipe, Command("O", last, 0)) /\ Command("O", last, 0).op \notin Sends
    BY <1>9 DEF OpenRequest, Request, Command, Sends
  <2>2. \E k : pipe' = Append(pipe, k) /\ k.op \notin Sends
    BY <2>1, Zenon
  <2>3. /\ slot' = slot /\ box' = box /\ job' = job
        /\ \A n \in Service : at'[n] = "post" <=> at[n] = "post"
    BY <1>9 DEF OpenRequest, Goto, callers, TypeOK, Calls
  <2> QED
    BY <2>2, <2>3, Zenon DEF CountStep, Uncounted, Named
<1>10. ASSUME NEW c \in Id, Close(c) PROVE CountStep
  <2>1. pipe' = Append(pipe, Command("K", c, 0)) /\ Command("K", c, 0).op \notin Sends
    BY <1>10 DEF Close, Request, Command, Sends
  <2>2. \E k : pipe' = Append(pipe, k) /\ k.op \notin Sends
    BY <2>1, Zenon
  <2>3. /\ slot' = slot /\ box' = box /\ job' = job
        /\ \A n \in Service : at'[n] = "post" <=> at[n] = "post"
    BY <1>10 DEF Close, Goto, callers, TypeOK, Calls
  <2> QED
    BY <2>2, <2>3, Zenon DEF CountStep, Uncounted, Named
<1>11. ASSUME NEW c \in Id, Shutdown(c) PROVE CountStep
  <2>1. pipe' = Append(pipe, Command("K", c, 1)) /\ Command("K", c, 1).op \notin Sends
    BY <1>11 DEF Shutdown, Request, Command, Sends
  <2>2. \E k : pipe' = Append(pipe, k) /\ k.op \notin Sends
    BY <2>1, Zenon
  <2>3. /\ slot' = slot /\ box' = box /\ job' = job
        /\ \A n \in Service : at'[n] = "post" <=> at[n] = "post"
    BY <1>11 DEF Shutdown, Goto, callers, TypeOK, Calls
  <2> QED
    BY <2>2, <2>3, Zenon DEF CountStep, Uncounted, Named
<1>12. ASSUME NEW c \in Id, OnError(c) PROVE CountStep
  <2>1. pipe' = Append(pipe, Command("K", c, 1)) /\ Command("K", c, 1).op \notin Sends
    BY <1>12 DEF OnError, Request, Command, Sends
  <2>2. \E k : pipe' = Append(pipe, k) /\ k.op \notin Sends
    BY <2>1, Zenon
  <2>3. /\ slot' = slot /\ box' = box /\ job' = job
        /\ \A n \in Service : at'[n] = "post" <=> at[n] = "post"
    BY <1>12 DEF OnError, Goto, callers, TypeOK, Calls
  <2> QED
    BY <2>2, <2>3, Zenon DEF CountStep, Uncounted, Named
<1>13. CASE OpenDone
  BY <1>13 DEF CountStep
<1>14. CASE SendDone
  BY <1>14 DEF CountStep
<1>15. CASE TriggerWrite
  <2>1. pipe # <<>> /\ Head(pipe).op \notin Sends /\ pipe' = Tail(pipe) /\ UNCHANGED callers
    BY <1>15 DEF TriggerWrite, Cmd, Sends
  <2>2. Named /\ slot'.sending = slot.sending
    BY <1>15 DEF TriggerWrite, Named, Fields
  <2> QED
    BY <2>1, <2>2 DEF CountStep, Uncounted, callers
<1>16. CASE CloseDone
  <2>1. pipe # <<>> /\ Head(pipe).op \notin Sends /\ pipe' = Tail(pipe) /\ box' = box /\ job' = job /\ at' = at
    BY <1>16 DEF CloseDone, CommandDone, Sends
  <2>2. Named /\ slot'.sending = slot.sending
    BY <1>16 DEF CloseDone
  <2> QED
    BY <2>1, <2>2, Zenon DEF CountStep, Uncounted
<1>17. CASE Drained
  BY <1>17 DEF CountStep, Uncounted, Named, TypeOK, Calls, Fields, Drained, kernel, thread, callers
<1>18. CASE CloseSlotDone
  BY <1>18, Telling DEF CountStep, Uncounted, Named, TypeOK, Calls, Fields, CloseSlotDone, Kept, Named,
     Lists, kernel, thread, callers
<1>19. CASE Poll
  BY <1>19 DEF CountStep, Uncounted, Named, TypeOK, Calls, Fields, Poll, Ready, kernel, thread, callers
<1>20. ASSUME EventDone, NEW what \in {"none", "data", "err"}, Still(what) PROVE CountStep
  BY <1>20, Telling DEF CountStep, Uncounted, Named, TypeOK, Calls, Fields, EventDone, Handling, Kept, Named,
     Still, SameLists, Lists, NextOf, kernel, thread, callers
<1>21. ASSUME EventDone, Opening PROVE CountStep
  BY <1>21, Telling DEF CountStep, Uncounted, Named, TypeOK, Calls, Fields, EventDone, Handling, Kept, Named,
     Opening, SameLists, Lists, NextOf, kernel, thread, callers
<1>22. ASSUME EventDone, Dropping PROVE CountStep
  BY <1>22 DEF CountStep, Uncounted, Named, TypeOK, Calls, Fields, EventDone, Handling, Kept, Named,
     Dropping, Lists, kernel, thread, callers
<1>23. ASSUME EventDone, Halved PROVE CountStep
  BY <1>23, Telling DEF CountStep, Uncounted, Named, TypeOK, Calls, Fields, EventDone, Handling, Kept, Named,
     Halved, SameLists, Lists, NextOf, kernel, thread, callers
<1>24. ASSUME EventDone, WroteAll PROVE CountStep
  BY <1>24, Telling DEF CountStep, Uncounted, Named, TypeOK, Calls, Fields, EventDone, Handling, Kept, Named,
     WroteAll, Lists, NextOf, kernel, thread, callers
<1>25. ASSUME EventDone, NEW k \in 1 .. Len(Unsent) - 1, WroteSome(k) PROVE CountStep
  BY <1>25, Telling DEF CountStep, Uncounted, Named, TypeOK, Calls, Fields, EventDone, Handling, Kept, Named,
     WroteSome, NextOf, kernel, thread, callers
<1>26. ASSUME EventDone, Broken PROVE CountStep
  BY <1>26, Telling DEF CountStep, Uncounted, Named, TypeOK, Calls, Fields, EventDone, Handling, Kept, Named,
     Broken, Lists, NextOf, kernel, thread, callers
<1>27. CASE Connected \/ PeerData \/ PeerFin
  BY <1>27 DEF CountStep, Uncounted, Named, TypeOK, Calls, Fields, Connected, PeerData, PeerFin, Peer,
     kernel, thread, callers
<1>28. CASE Reset
  BY <1>28 DEF CountStep, Uncounted, Named, TypeOK, Calls, Fields, Reset, kernel, thread, callers
<1>29. CASE UNCHANGED vars
  BY <1>29 DEF CountStep, Uncounted, Named, TypeOK, Calls, Fields, vars, kernel, thread, callers
<1> QED
  BY <1>1, <1>2, <1>3, <1>4, <1>5, <1>6, <1>7, <1>8, <1>9, <1>10, <1>11, <1>12, <1>13, <1>14, <1>15, <1>16,
     <1>17, <1>18, <1>19, <1>20, <1>21, <1>22, <1>23, <1>24, <1>25, <1>26, <1>27, <1>28, <1>29, Steps
     DEF StepOf

(* There are finitely many messages to count.                              *)
LEMMA CountedFinite ==
  ASSUME TypeOK
  PROVE  IsFiniteSet(Counted)
<1>1. box \in Seq([by : Service, to : Id])
  BY DEF TypeOK, Calls
<1>2. IsFiniteSet(1 .. Len(box))
  BY <1>1, FS_Interval
<1> QED
  BY <1>2, FS_Subset DEF Counted

(* Every step keeps the count exact.                                       *)
LEMMA NextSending ==
  ASSUME Fields, TypeOK, Slots, Opens, Jobs, Quiet, Sending, [Next]_vars
  PROVE  Sending'
<1>1. CASE Uncounted
  <2>1. \A m \in 1 .. Len(box) : Held(m)' => Held(m)
    <3>1. \A i \in 1 .. Len(pipe') : pipe'[i].op \in Sends => \E j \in 1 .. Len(pipe) : pipe[j] = pipe'[i]
      <4>1. CASE pipe' = pipe
        BY <4>1
      <4>2. CASE pipe # <<>> /\ pipe' = Tail(pipe)
        BY <4>2, Obeyed, Zenon
      <4>3. ASSUME NEW k, pipe' = Append(pipe, k), k.op \notin Sends
            PROVE \A i \in 1 .. Len(pipe') : pipe'[i].op \in Sends => \E j \in 1 .. Len(pipe) : pipe[j] = pipe'[i]
        BY <4>3, Requested
      <4> QED
        BY <1>1, <4>1, <4>2, <4>3 DEF Uncounted
    <3> QED
      BY <1>1, <3>1 DEF Uncounted, Held
  <2>2. \A m \in 1 .. Len(box) : Held(m) => Held(m)'
    <3>1. \A i \in 1 .. Len(pipe) : pipe[i].op \in Sends => \E j \in 1 .. Len(pipe') : pipe'[j] = pipe[i]
      <4>1. CASE pipe' = pipe
        BY <4>1
      <4>2. CASE pipe # <<>> /\ pipe' = Tail(pipe) /\ Head(pipe).op \notin Sends
        <5>1. ASSUME NEW i \in 1 .. Len(pipe), pipe[i].op \in Sends
              PROVE  \E j \in 1 .. Len(pipe') : pipe'[j] = pipe[i]
          <6>1. i # 1
            BY <4>2, <5>1, Obeyed
          <6>2. i - 1 \in 1 .. Len(pipe') /\ (i - 1) + 1 = i
            BY <4>2, <6>1, Obeyed
          <6>3. pipe'[i - 1] = pipe[(i - 1) + 1]
            BY <4>2, <6>2, Obeyed
          <6> QED
            BY <6>2, <6>3
        <5> QED
          BY <5>1
      <4>3. ASSUME NEW k, pipe' = Append(pipe, k)
            PROVE \A i \in 1 .. Len(pipe) : pipe[i].op \in Sends => \E j \in 1 .. Len(pipe') : pipe'[j] = pipe[i]
        BY <4>3, Requested
      <4> QED
        BY <1>1, <4>1, <4>2, <4>3 DEF Uncounted
    <3> QED
      BY <1>1, <3>1 DEF Uncounted, Held
  <2>3. Counted' = Counted
    BY <1>1, <2>1, <2>2 DEF Counted, Uncounted, Named
  <2> QED
    BY <1>1, <2>3 DEF Sending, Uncounted, Named
<1>2. ASSUME NEW v \in Service, NEW c \in Id, Send(v, c) PROVE Sending'
  <2>1. /\ at[v] = "idle" /\ box' = Append(box, [by |-> v, to |-> c]) /\ job' = [job EXCEPT ![v] = Len(box) + 1]
        /\ pipe' = pipe /\ slot' = slot
        /\ at'[v] # "post" /\ \A w \in Service : w # v => at'[w] = at[w]
    BY <1>2 DEF Send, Goto, TypeOK, Calls
  <2>2. /\ Len(box) \in Nat /\ Len(box') = Len(box) + 1
        /\ \A n \in 1 .. Len(box) : box'[n] = box[n]
        /\ \A n \in 1 .. Len(box') : n \in 1 .. Len(box) \/ n = Len(box) + 1
        /\ 1 .. Len(box) \subseteq 1 .. Len(box')
    <3>1. box \in Seq([by : Service, to : Id])
      BY DEF TypeOK, Calls
    <3> QED
      BY <2>1, <3>1
  <2>3. \A m : Held(m)' <=> Held(m)
    BY <2>1 DEF Held, TypeOK, Calls
  <2>4. ~Held(Len(box) + 1)
    BY <2>2 DEF Held, Jobs, Busy
  <2>5. Counted' = Counted
    <3>1. \A n \in 1 .. Len(box') : box'[n].to = slot'.id /\ Held(n)' <=> n \in 1 .. Len(box) /\ box[n].to = slot.id /\ Held(n)
      BY <2>1, <2>2, <2>3, <2>4
    <3> QED
      BY <2>2, <3>1 DEF Counted
  <2> QED
    BY <2>1, <2>5 DEF Sending
<1>3. ASSUME NEW v \in Service, IncSending(v) PROVE Sending'
  <2> DEFINE m == job[v] c == box[m].to
  <2>1. /\ at[v] = "count" /\ pipe' = pipe /\ box' = box /\ job' = job
        /\ at'[v] = "post" /\ \A w \in Service : w # v => at'[w] = at[w]
        /\ slot'.sending = IF slot.tcp /\ slot.tag = c THEN slot.sending + 1 ELSE slot.sending
        /\ slot'.id = slot.id /\ slot'.tcp = slot.tcp
    BY <1>3 DEF IncSending, Goto, callers, TypeOK, Calls, Fields
  <2>2. m \in 1 .. Len(box) /\ box[m].by = v
    BY <2>1 DEF Jobs, Busy
  <2>3. ~Held(m)
    <3>1. \A w \in Service : at[w] = "post" => box[job[w]].by = w
      BY DEF Jobs, Busy
    <3> QED
      BY <2>1, <2>2, <3>1 DEF Held, Jobs, Busy
  <2>4. \A n : Held(n)' <=> Held(n) \/ n = m
    BY <2>1 DEF Held
  <2>5. CASE ~slot.tcp
    BY <2>1, <2>5 DEF Sending
  <2>6. CASE slot.tcp /\ slot.id = c
    <3>1. Counted' = Counted \cup {m} /\ m \notin Counted
      BY <2>1, <2>2, <2>3, <2>4, <2>6 DEF Counted
    <3>2. slot'.sending = slot.sending + 1
      BY <2>1, <2>6 DEF Quiet, Linked
    <3> HIDE DEF m
    <3>3. Cardinality(Counted \cup {m}) = Cardinality(Counted) + 1
      BY <3>1, CountedFinite, FS_AddElement
    <3>4. Cardinality(Counted') = Cardinality(Counted) + 1
      BY <3>1, <3>3, Zenon
    <3> QED
      BY <2>1, <2>6, <3>2, <3>4 DEF Sending
  <2>7. CASE slot.tcp /\ slot.id # c
    <3>1. Counted' = Counted
      BY <2>1, <2>2, <2>4, <2>7 DEF Counted
    <3>2. slot'.sending = slot.sending
      BY <2>1, <2>7 DEF Quiet, Linked
    <3> QED
      BY <2>1, <3>1, <3>2 DEF Sending
  <2> QED
    BY <2>5, <2>6, <2>7
<1>4. ASSUME NEW v \in Service, Post(v) PROVE Sending'
  <2> DEFINE m == job[v] k == Command(IF m \in Low THEN "P" ELSE "D", box[m].to, m)
  <2>1. /\ at[v] = "post" /\ pipe' = Append(pipe, k) /\ box' = box /\ job' = job /\ slot' = slot
        /\ at'[v] = "idle" /\ \A w \in Service : w # v => at'[w] = at[w]
    BY <1>4 DEF Post, Request, Goto, TypeOK, Calls
  <2>2. k.op \in Sends /\ k.m = m
    BY DEF Command, Sends
  <2> HIDE DEF k
  <2>3. /\ \A i \in 1 .. Len(pipe) : i \in 1 .. Len(pipe') /\ pipe'[i] = pipe[i]
        /\ \A i \in 1 .. Len(pipe') : (i \in 1 .. Len(pipe) /\ pipe'[i] = pipe[i]) \/ pipe'[i] = k
        /\ \E i \in 1 .. Len(pipe') : pipe'[i] = k
    <3>1. /\ Len(pipe') = Len(pipe) + 1 /\ Len(pipe) \in Nat
          /\ \A i \in 1 .. Len(pipe) : pipe'[i] = pipe[i]
          /\ pipe'[Len(pipe) + 1] = k
      BY <2>1, Requested
    <3> QED
      BY <3>1
  <2>4. \A n : Held(n)' <=> Held(n)
    <3>1. ASSUME NEW n, Held(n)' PROVE Held(n)
      BY <2>1, <2>2, <2>3, <3>1 DEF Held
    <3>2. ASSUME NEW n, Held(n) PROVE Held(n)'
      <4>1. CASE \E i \in 1 .. Len(pipe) : pipe[i].op \in Sends /\ pipe[i].m = n
        BY <2>3, <4>1 DEF Held
      <4>2. ASSUME NEW w \in Service, at[w] = "post", job[w] = n PROVE Held(n)'
        <5>1. CASE w = v
          BY <2>2, <2>3, <4>2, <5>1 DEF Held
        <5>2. CASE w # v
          BY <2>1, <4>2, <5>2 DEF Held
        <5> QED
          BY <5>1, <5>2
      <4> QED
        BY <3>2, <4>1, <4>2 DEF Held
    <3> QED
      BY <3>1, <3>2
  <2>5. Counted' = Counted
    BY <2>1, <2>4 DEF Counted
  <2> QED
    BY <2>1, <2>5 DEF Sending
<1>5. CASE SetId
  BY <1>5 DEF SetId, Sending, Fields
<1>6. CASE OpenDone
  <2>1. /\ pipe # <<>> /\ pipe' = Tail(pipe) /\ Head(pipe).op = "O" /\ slot'.id = slot.id
        /\ box' = box /\ job' = job /\ at' = at /\ at[Owner] # "name"
    BY <1>6 DEF OpenDone, CommandDone
  <2>2. slot.type = "reserve" /\ slot.id = last
    BY <2>1, Obeyed DEF Opens, Slots
  <2>3. \A m \in 1 .. Len(box) : box[m].to # last
    BY <2>2 DEF Quiet, Aimed, Unopened, Fresh
  <2>4. Counted = {} /\ Counted' = {}
    BY <2>1, <2>2, <2>3 DEF Counted
  <2>5. slot'.tcp => slot'.sending = 0
    BY <1>6, <2>4, FS_EmptySet DEF OpenDone, Sending
  <2> QED
    BY <2>4, <2>5, FS_EmptySet DEF Sending
<1>7. CASE SendDone
  <2>0. PICK c, m : c = Head(pipe).id /\ m = Head(pipe).m
    OBVIOUS
  <2>1. /\ pipe # <<>> /\ pipe' = Tail(pipe) /\ Head(pipe).op \in Sends
        /\ box' = box /\ job' = job /\ at' = at
        /\ slot'.id = slot.id /\ slot'.tcp = slot.tcp
        /\ slot'.sending = IF slot.id = c /\ slot.tcp THEN slot.sending - 1 ELSE slot.sending
    BY <1>7, <2>0 DEF SendDone, CommandDone, Sends, Named
  <2>2. 1 \in 1 .. Len(pipe) /\ pipe[1] = Head(pipe)
    BY <2>1, Obeyed
  <2>3. m \in 1 .. Len(box) /\ c = box[m].to /\ Held(m)
    BY <2>0, <2>1, <2>2 DEF Jobs, Held
  <2>4. \A i \in 1 .. Len(pipe') : i + 1 \in 1 .. Len(pipe) /\ pipe'[i] = pipe[i + 1] /\ 1 < i + 1
    <3>1. \A i \in 1 .. Len(pipe') : i + 1 \in 1 .. Len(pipe) /\ pipe'[i] = pipe[i + 1]
      BY <2>1, Obeyed, Zenon
    <3>2. \A i \in 1 .. Len(pipe') : 1 < i + 1
      OBVIOUS
    <3> QED
      BY <3>1, <3>2
  <2>5. ~Held(m)'
    <3>1. \A i \in 1 .. Len(pipe') : pipe'[i].op \in Sends => pipe'[i].m # m
      BY <2>0, <2>1, <2>2, <2>4 DEF Jobs
    <3>2. \A v \in Service : at[v] = "post" => job[v] # m
      BY <2>0, <2>1, <2>2 DEF Jobs, Busy
    <3> QED
      BY <2>1, <3>1, <3>2 DEF Held
  <2>6. \A n : n # m => (Held(n)' <=> Held(n))
    <3>1. ASSUME NEW n, Held(n)' PROVE Held(n)
      BY <2>1, <2>4, <3>1 DEF Held
    <3>2. ASSUME NEW n, n # m, Held(n) PROVE Held(n)'
      <4>1. ASSUME NEW i \in 1 .. Len(pipe), pipe[i].op \in Sends, pipe[i].m = n PROVE Held(n)'
        <5>1. i # 1
          BY <2>0, <2>2, <3>2, <4>1
        <5>2. i - 1 \in 1 .. Len(pipe') /\ (i - 1) + 1 = i
          BY <2>1, <5>1, Obeyed
        <5>3. pipe'[i - 1] = pipe[i]
          BY <2>4, <5>2
        <5> QED
          BY <4>1, <5>2, <5>3 DEF Held
      <4> QED
        BY <2>1, <3>2, <4>1 DEF Held
    <3> QED
      BY <3>1, <3>2
  <2>7. CASE ~slot.tcp
    BY <2>1, <2>7 DEF Sending
  <2>8. CASE slot.tcp /\ slot.id = c
    <3>1. Counted' = Counted \ {m} /\ m \in Counted
      BY <2>1, <2>3, <2>5, <2>6, <2>8 DEF Counted
    <3>2. slot'.sending = slot.sending - 1
      BY <2>1, <2>8
    <3> QED
      <4>1. Cardinality(Counted \ {m}) = Cardinality(Counted) - 1
        BY <3>1, CountedFinite, FS_RemoveElement
      <4>2. Cardinality(Counted') = Cardinality(Counted) - 1
        BY <3>1, <4>1, Zenon
      <4> QED
        BY <2>1, <2>8, <3>2, <4>2 DEF Sending
  <2>9. CASE slot.tcp /\ slot.id # c
    <3>1. Counted' = Counted
      BY <2>1, <2>3, <2>6, <2>9 DEF Counted
    <3> QED
      BY <2>1, <2>9, <3>1 DEF Sending
  <2> QED
    BY <2>7, <2>8, <2>9
<1> QED
  BY <1>1, <1>2, <1>3, <1>4, <1>5, <1>6, <1>7, Counts DEF CountStep

-----------------------------------------------------------------------------
(* What a step does to what is on its way.                                 *)
Same == slot'.id = slot.id /\ wire' = wire /\ High' = High /\ slot'.low = slot.low
Cuts ==
  /\ slot'.id = slot.id /\ wire' = wire /\ High' \in {slot.dw, <<>>} /\ slot'.low = <<>>
  /\ tp' = "closing" \/ slot'.type = "invalid"

(* The steps, as far as wire and lists are concerned.                      *)
FlowStep ==
  \/ Same \/ Cuts \/ SetId \/ OpenDone \/ SendDone
  \/ \E v \in Service : DirectDone(v)
  \/ EventDone /\ (WroteAll \/ \E k \in 1 .. Len(Unsent) - 1 : WroteSome(k))

(* Lists that stay.                                                        *)
LEMMA SameHigh ==
  ASSUME SameLists
  PROVE  High' = High /\ slot'.low = slot.low
  BY DEF SameLists, Lists, High

(* Lists that are freed.                                                   *)
LEMMA CutHigh ==
  ASSUME TypeOK, Lists(<<>>, <<>>, slot.dw) \/ Lists(<<>>, <<>>, <<>>)
  PROVE  High' \in {slot.dw, <<>>} /\ slot'.low = <<>>
<1>1. slot.dw \in Seq(Part) /\ slot'.high = <<>> /\ slot'.low = <<>> /\ (slot'.dw = slot.dw \/ slot'.dw = <<>>)
  BY DEF TypeOK, Queues, Lists
<1>2. slot.dw \o <<>> = slot.dw
  BY <1>1
<1>3. <<>> \o <<>> = <<>>
  OBVIOUS
<1> QED
  BY <1>1, <1>2, <1>3, Zenon DEF High

(* Every step is one of these.                                             *)
LEMMA Flows ==
  ASSUME Fields, TypeOK, [Next]_vars
  PROVE  FlowStep
<1> USE Parameters
<1>1. ASSUME NEW v \in Service, NEW c \in Id, Send(v, c) PROVE FlowStep
  BY <1>1 DEF FlowStep, Same, Fields, High, Send, Goto, kernel, thread, callers
<1>2. ASSUME NEW v \in Service, TryLock(v) PROVE FlowStep
  BY <1>2 DEF FlowStep, Same, Fields, High, TryLock, Goto, kernel, thread, callers
<1>3. ASSUME NEW v \in Service, DirectDone(v) PROVE FlowStep
  BY <1>3 DEF FlowStep
<1>4. ASSUME NEW v \in Service, Trigger(v) PROVE FlowStep
  BY <1>4, Requested DEF FlowStep, Same, Fields, High, Trigger, Goto, Request, Command, kernel, thread,
     callers
<1>5. ASSUME NEW v \in Service, IncSending(v) PROVE FlowStep
  BY <1>5 DEF FlowStep, Same, Fields, High, IncSending, Goto, kernel, thread, callers
<1>6. ASSUME NEW v \in Service, Post(v) PROVE FlowStep
  BY <1>6, Requested DEF FlowStep, Same, Fields, High, Post, Goto, Request, Command, kernel, thread, callers
<1>7. CASE Reserve
  BY <1>7 DEF FlowStep, Same, Fields, High, Reserve, Goto, kernel, thread, callers
<1>8. CASE SetId
  BY <1>8 DEF FlowStep
<1>9. CASE OpenRequest
  BY <1>9, Requested DEF FlowStep, Same, Fields, High, OpenRequest, Goto, Request, Command, kernel, thread,
     callers
<1>10. ASSUME NEW c \in Id, Close(c) PROVE FlowStep
  BY <1>10, Requested DEF FlowStep, Same, Fields, High, Close, Request, Command, kernel, thread, callers
<1>11. ASSUME NEW c \in Id, Shutdown(c) PROVE FlowStep
  BY <1>11, Requested DEF FlowStep, Same, Fields, High, Shutdown, Request, Command, kernel, thread, callers
<1>12. ASSUME NEW c \in Id, OnError(c) PROVE FlowStep
  BY <1>12, Requested DEF FlowStep, Same, Fields, High, OnError, Request, Command, kernel, thread, callers
<1>13. CASE OpenDone
  BY <1>13 DEF FlowStep
<1>14. CASE SendDone
  BY <1>14 DEF FlowStep
<1>15. CASE TriggerWrite
  BY <1>15, Obeyed DEF FlowStep, Same, Fields, High, TriggerWrite, Cmd, kernel, thread, callers
<1>16. CASE CloseDone
  <2>1. SameLists \/ (Lists(<<>>, <<>>, slot.dw) /\ tp' = "closing")
    BY <1>16 DEF CloseDone, SameLists, Lists
  <2>2. slot'.id = slot.id /\ wire' = wire
    BY <1>16 DEF CloseDone, CommandDone, Named
  <2> QED
    BY <2>1, <2>2, SameHigh, CutHigh, Zenon DEF FlowStep, Same, Cuts
<1>17. CASE Drained
  BY <1>17 DEF FlowStep, Same, Fields, High, Drained, kernel, thread, callers
<1>18. CASE CloseSlotDone
  BY <1>18, CutHigh, Zenon DEF FlowStep, Cuts, CloseSlotDone, Kept, Named
<1>19. CASE Poll
  BY <1>19 DEF FlowStep, Same, Fields, High, Poll, Ready, kernel, thread, callers
<1>20. ASSUME EventDone, NEW what \in {"none", "data", "err"}, Still(what) PROVE FlowStep
  BY <1>20, SameHigh, Zenon DEF FlowStep, Same, EventDone, Kept, Named, Still
<1>21. ASSUME EventDone, Opening PROVE FlowStep
  BY <1>21, SameHigh, Zenon DEF FlowStep, Same, EventDone, Kept, Named, Opening
<1>22. ASSUME EventDone, Dropping PROVE FlowStep
  BY <1>22, CutHigh, Zenon DEF FlowStep, Cuts, EventDone, Kept, Named, Dropping
<1>23. ASSUME EventDone, Halved PROVE FlowStep
  BY <1>23, SameHigh, Zenon DEF FlowStep, Same, EventDone, Kept, Named, Halved
<1>24. ASSUME EventDone, WroteAll PROVE FlowStep
  BY <1>24, Zenon DEF FlowStep
<1>25. ASSUME EventDone, NEW k \in 1 .. Len(Unsent) - 1, WroteSome(k) PROVE FlowStep
  BY <1>25, Zenon DEF FlowStep
<1>26. ASSUME EventDone, Broken PROVE FlowStep
  <2>1. slot'.id = slot.id /\ wire' = wire
    BY <1>26 DEF EventDone, Kept, Named, Broken
  <2>2. CASE Lists(<<>>, <<>>, <<>>) /\ slot'.type = "invalid"
    BY <2>1, <2>2, CutHigh, Zenon DEF FlowStep, Cuts
  <2>3. CASE Lists(High, slot.low, <<>>)
    <3>1. <<>> \o High = High
      BY DEF TypeOK, Queues, High
    <3>2. High' = High /\ slot'.low = slot.low
      BY <2>3, <3>1 DEF Lists, High
    <3> QED
      BY <2>1, <3>2, Zenon DEF FlowStep, Same
  <2> QED
    BY <1>26, <2>2, <2>3, Zenon DEF Broken
<1>27. CASE Connected \/ PeerData \/ PeerFin
  BY <1>27 DEF FlowStep, Same, Fields, High, Connected, PeerData, PeerFin, Peer, kernel, thread, callers
<1>28. CASE Reset
  BY <1>28 DEF FlowStep, Same, Fields, High, Reset, kernel, thread, callers
<1>29. CASE UNCHANGED vars
  BY <1>29 DEF FlowStep, Same, Fields, High, vars, kernel, thread, callers
<1> QED
  BY <1>1, <1>2, <1>3, <1>4, <1>5, <1>6, <1>7, <1>8, <1>9, <1>10, <1>11, <1>12, <1>13, <1>14, <1>15, <1>16,
     <1>17, <1>18, <1>19, <1>20, <1>21, <1>22, <1>23, <1>24, <1>25, <1>26, <1>27, <1>28, <1>29, Steps
     DEF StepOf

(* What was asked stays asked.                                             *)
LEMMA Shuts ==
  ASSUME Fields, [Next]_vars
  PROVE  (\A d \in Id : asked[d].shut => asked'[d].shut)
<1> USE Parameters
<1>1. ASSUME NEW v \in Service, NEW c \in Id, Send(v, c)
      PROVE  (\A d \in Id : asked[d].shut => asked'[d].shut)
  BY <1>1 DEF Send, Goto, kernel, thread, callers
<1>2. ASSUME NEW v \in Service, TryLock(v) PROVE (\A d \in Id : asked[d].shut => asked'[d].shut)
  BY <1>2 DEF TryLock, Goto, kernel, thread, callers
<1>3. ASSUME NEW v \in Service, DirectDone(v) PROVE (\A d \in Id : asked[d].shut => asked'[d].shut)
  <2>1. asked' = asked
    BY <1>3, Zenon DEF DirectDone
  <2> QED
    BY <2>1
<1>4. ASSUME NEW v \in Service, Trigger(v) PROVE (\A d \in Id : asked[d].shut => asked'[d].shut)
  BY <1>4, Requested DEF Trigger, Goto, Request, Command, kernel, thread, callers
<1>5. ASSUME NEW v \in Service, IncSending(v) PROVE (\A d \in Id : asked[d].shut => asked'[d].shut)
  BY <1>5 DEF IncSending, Goto, kernel, thread, callers
<1>6. ASSUME NEW v \in Service, Post(v) PROVE (\A d \in Id : asked[d].shut => asked'[d].shut)
  BY <1>6, Requested DEF Post, Goto, Request, Command, kernel, thread, callers
<1>7. CASE Reserve
  BY <1>7 DEF Reserve, Goto, kernel, thread, callers
<1>8. CASE SetId
  BY <1>8 DEF SetId, Goto, kernel, thread, callers
<1>9. CASE OpenRequest
  BY <1>9, Requested DEF OpenRequest, Goto, Request, Command, kernel, thread, callers
<1>10. ASSUME NEW c \in Id, Close(c) PROVE (\A d \in Id : asked[d].shut => asked'[d].shut)
  BY <1>10 DEF Close, Fields
<1>11. ASSUME NEW c \in Id, Shutdown(c) PROVE (\A d \in Id : asked[d].shut => asked'[d].shut)
  BY <1>11 DEF Shutdown, Fields
<1>12. ASSUME NEW c \in Id, OnError(c) PROVE (\A d \in Id : asked[d].shut => asked'[d].shut)
  BY <1>12, Requested DEF OnError, Request, Command, kernel, thread, callers
<1>13. CASE OpenDone
  BY <1>13, Obeyed, Telling DEF OpenDone, CommandDone, SameLists, Lists, kernel, thread, callers
<1>14. CASE SendDone
  BY <1>14, Obeyed DEF SendDone, CommandDone, Named, SameLists, Lists, kernel, thread, callers
<1>15. CASE TriggerWrite
  BY <1>15, Obeyed DEF TriggerWrite, Cmd, kernel, thread, callers
<1>16. CASE CloseDone
  BY <1>16, Obeyed DEF CloseDone, CommandDone, Named, SameLists, Lists, kernel, thread, callers
<1>17. CASE Drained
  BY <1>17 DEF Drained, kernel, thread, callers
<1>18. CASE CloseSlotDone
  BY <1>18, Telling DEF CloseSlotDone, Kept, Named, Lists, kernel, thread, callers
<1>19. CASE Poll
  BY <1>19 DEF Poll, Ready, kernel, thread, callers
<1>20. ASSUME EventDone, NEW what \in {"none", "data", "err"}, Still(what)
       PROVE  (\A d \in Id : asked[d].shut => asked'[d].shut)
  BY <1>20, Telling DEF EventDone, Handling, Kept, Named, Still, SameLists, Lists, NextOf, kernel, thread,
     callers
<1>21. ASSUME EventDone, Opening PROVE (\A d \in Id : asked[d].shut => asked'[d].shut)
  BY <1>21, Telling DEF EventDone, Handling, Kept, Named, Opening, SameLists, Lists, NextOf, kernel, thread,
     callers
<1>22. ASSUME EventDone, Dropping PROVE (\A d \in Id : asked[d].shut => asked'[d].shut)
  BY <1>22 DEF EventDone, Handling, Kept, Named, Dropping, Lists, kernel, thread, callers
<1>23. ASSUME EventDone, Halved PROVE (\A d \in Id : asked[d].shut => asked'[d].shut)
  BY <1>23, Telling DEF EventDone, Handling, Kept, Named, Halved, SameLists, Lists, NextOf, kernel, thread,
     callers
<1>24. ASSUME EventDone, WroteAll PROVE (\A d \in Id : asked[d].shut => asked'[d].shut)
  BY <1>24, Telling DEF EventDone, Handling, Kept, Named, WroteAll, Lists, NextOf, kernel, thread, callers
<1>25. ASSUME EventDone, NEW k \in 1 .. Len(Unsent) - 1, WroteSome(k)
       PROVE  (\A d \in Id : asked[d].shut => asked'[d].shut)
  BY <1>25, Telling DEF EventDone, Handling, Kept, Named, WroteSome, NextOf, kernel, thread, callers
<1>26. ASSUME EventDone, Broken PROVE (\A d \in Id : asked[d].shut => asked'[d].shut)
  BY <1>26, Telling DEF EventDone, Handling, Kept, Named, Broken, Lists, NextOf, kernel, thread, callers
<1>27. CASE Connected \/ PeerData \/ PeerFin
  BY <1>27 DEF Connected, PeerData, PeerFin, Peer, kernel, thread, callers
<1>28. CASE Reset
  BY <1>28 DEF Reset, kernel, thread, callers
<1>29. CASE UNCHANGED vars
  BY <1>29 DEF vars, kernel, thread, callers
<1> QED
  BY <1>1, <1>2, <1>3, <1>4, <1>5, <1>6, <1>7, <1>8, <1>9, <1>10, <1>11, <1>12, <1>13, <1>14, <1>15, <1>16,
     <1>17, <1>18, <1>19, <1>20, <1>21, <1>22, <1>23, <1>24, <1>25, <1>26, <1>27, <1>28, <1>29, Steps
     DEF StepOf

(* No message that has gone comes to wait again.                           *)
LEMMA Waits ==
  ASSUME Fields, TypeOK, [Next]_vars
  PROVE  /\ Len(box) \in Nat /\ Len(box') \in Nat
         /\ \A n \in 1 .. Len(box) : n \in 1 .. Len(box') /\ box'[n] = box[n]
         /\ \A n \in 1 .. Len(box') : n \in 1 .. Len(box) \/ n = Len(box) + 1
         /\ \A m \in 1 .. Len(box) : Waiting(m)' => Waiting(m)
<1>0. box \in Seq([by : Service, to : Id]) /\ Len(box) \in Nat
  BY DEF TypeOK, Calls
<1>1. ASSUME NEW v \in Service, NEW c \in Id, Send(v, c)
      PROVE  /\ Len(box') = Len(box) + 1 /\ \A n \in 1 .. Len(box) : box'[n] = box[n]
             /\ \A m \in 1 .. Len(box) : Waiting(m)' => Waiting(m)
  <2>1. /\ at[v] = "idle" /\ box' = Append(box, [by |-> v, to |-> c]) /\ job' = [job EXCEPT ![v] = Len(box) + 1]
        /\ pipe' = pipe
        /\ \A w \in Service : w # v => at'[w] = at[w]
    BY <1>1 DEF Send, Goto, TypeOK, Calls
  <2>2. Len(box') = Len(box) + 1 /\ \A n \in 1 .. Len(box) : box'[n] = box[n]
    BY <1>0, <2>1
  <2>3. \A m \in 1 .. Len(box) : \A w \in Service : at'[w] \in Busy /\ job'[w] = m => at[w] \in Busy /\ job[w] = m
    BY <1>0, <2>1 DEF TypeOK, Calls
  <2>4. \A m \in 1 .. Len(box) : Waiting(m)' => Waiting(m)
    BY <2>1, <2>3 DEF Waiting
  <2> QED
    BY <2>2, <2>4
<1>2. ASSUME NEW v \in Service, Post(v)
      PROVE  box' = box /\ \A m : Waiting(m)' => Waiting(m)
  <2>1. PICK k : /\ at[v] = "post" /\ pipe' = Append(pipe, k) /\ k.m = job[v] /\ box' = box /\ job' = job
                 /\ \A w \in Service : w # v => at'[w] = at[w]
                 /\ at'[v] = "idle"
    <3>1. \A o, c, m : Command(o, c, m).m = m
      BY DEF Command
    <3> QED
      BY <1>2, <3>1 DEF Post, Request, Goto, TypeOK, Calls
  <2>2. \A i \in 1 .. Len(pipe') : (i \in 1 .. Len(pipe) /\ pipe'[i] = pipe[i]) \/ pipe'[i] = k
    BY <2>1, Requested
  <2>3. ASSUME NEW m, NEW i \in 1 .. Len(pipe'), pipe'[i].op \in Sends, pipe'[i].m = m
        PROVE Waiting(m)
    <3>1. CASE i \in 1 .. Len(pipe) /\ pipe'[i] = pipe[i]
      BY <2>3, <3>1 DEF Waiting
    <3>2. CASE pipe'[i] = k
      BY <2>1, <2>3, <3>2 DEF Waiting, Busy
    <3> QED
      BY <2>2, <3>1, <3>2
  <2>4. ASSUME NEW m, NEW w \in Service, at'[w] \in Busy, job'[w] = m PROVE Waiting(m)
    BY <2>1, <2>4 DEF Waiting, Busy
  <2> QED
    BY <2>1, <2>3, <2>4 DEF Waiting
<1>3. CASE Calm
  <2>1. box' = box /\ job' = job /\ \A v \in Service : at'[v] \in Busy => at[v] \in Busy
    BY <1>3 DEF Calm
  <2>2. ASSUME NEW i \in 1 .. Len(pipe'), pipe'[i].op \in Sends
        PROVE  \E h \in 1 .. Len(pipe) : pipe[h] = pipe'[i]
    <3>1. CASE pipe' = pipe
      BY <3>1
    <3>2. CASE pipe # <<>> /\ pipe' = Tail(pipe)
      BY <3>2, Obeyed, Zenon
    <3>3. ASSUME NEW k, pipe' = Append(pipe, k), k.op \in {"O", "W", "K"}
          PROVE  \E h \in 1 .. Len(pipe) : pipe[h] = pipe'[i]
      BY <2>2, <3>3, Requested DEF Sends
    <3> QED
      BY <1>3, <3>1, <3>2, <3>3 DEF Calm, Comes
  <2>3. \A m : Waiting(m)' => Waiting(m)
    BY <2>1, <2>2 DEF Waiting
  <2> QED
    BY <2>1, <2>3
<1>4. CASE box' = box /\ \A m : Waiting(m)' => Waiting(m)
  BY <1>0, <1>4
<1>5. CASE /\ Len(box') = Len(box) + 1 /\ \A n \in 1 .. Len(box) : box'[n] = box[n]
           /\ \A m \in 1 .. Len(box) : Waiting(m)' => Waiting(m)
  BY <1>0, <1>5
<1>6. CASE Calm
  BY <1>3, <1>4, <1>6
<1> QED
  BY <1>1, <1>2, <1>4, <1>5, <1>6, Calms DEF CalmStep

(* What a list may hold of messages to the slot: in order, and nothing     *)
(* that still waits goes before it.                                        *)
Holds(s) == Ordered(s) /\ InBox(s, slot.id) /\ \A j \in 1 .. Len(s) : Behind(s[j][1])

(* A list that is in order stays so: messages do not change.               *)
LEMMA KeepsOrder ==
  ASSUME Fields, TypeOK, [Next]_vars, NEW s, NEW c, Ordered(s), InBox(s, c)
  PROVE  Ordered(s)' /\ InBox(s, c)'
<1>1. \A j \in 1 .. Len(s) : s[j][1] \in 1 .. Len(box') /\ box'[s[j][1]] = box[s[j][1]] /\ box[s[j][1]].to = c
  BY Waits DEF InBox
<1>2. InBox(s, c)'
  BY <1>1 DEF InBox
<1>3. Ordered(s)'
  BY <1>1 DEF Ordered, Follows
<1> QED
  BY <1>2, <1>3

(* A list that holds what it may stays so while the slot keeps its id.     *)
LEMMA Keeps ==
  ASSUME Fields, TypeOK, [Next]_vars, NEW s, Holds(s), slot'.id = slot.id
  PROVE  Holds(s)'
<1>1. \A d : d = slot.id => Ordered(s)' /\ InBox(s, d)'
  BY KeepsOrder DEF Holds
<1>2. InBox(s, slot.id)' /\ Ordered(s)'
  BY <1>1 DEF InBox
<1>3. ASSUME NEW j \in 1 .. Len(s) PROVE Behind(s[j][1])'
  <2> DEFINE n == s[j][1]
  <2>1. n \in 1 .. Len(box) /\ Behind(n) /\ box'[n] = box[n]
    BY Waits DEF Holds, InBox
  <2> HIDE DEF n
  <2>2. ASSUME NEW m \in 1 .. Len(box'), box'[m].to = slot'.id, Waiting(m)', box'[m].by = box'[n].by
        PROVE  n < m
    <3>1. CASE m \in 1 .. Len(box)
      <4>1. box'[m] = box[m] /\ Waiting(m)
        BY <2>2, <3>1, Waits
      <4> QED
        BY <2>1, <2>2, <3>1, <4>1 DEF Behind
    <3>2. CASE m = Len(box) + 1
      BY <2>1, <3>2, Waits
    <3> QED
      BY <3>1, <3>2, Waits
  <2> QED
    BY <2>2 DEF Behind, n
<1> QED
  BY <1>2, <1>3 DEF Holds

(* The beginning of a list that holds what it may.                         *)
LEMMA HoldsFirst ==
  ASSUME NEW a \in Seq(Part), NEW b \in Seq(Part), Holds(a \o b)
  PROVE  Holds(a)
<1>1. Ordered(a)
  BY OrderedFirst DEF Holds
<1>2. \A j \in 1 .. Len(a) : j \in 1 .. Len(a \o b) /\ (a \o b)[j] = a[j]
  BY Joined
<1> QED
  BY <1>1, <1>2 DEF Holds, InBox

(* The wire and the lists of the slot, together.                           *)
LEMMA Lasts ==
  ASSUME TypeOK, Streams
  PROVE  /\ Wire \in Seq(Part) /\ High \in Seq(Part) /\ slot.dw \in Seq(Part) /\ slot.high \in Seq(Part) /\ slot.low \in Seq(Part)
         /\ Front \in Seq(Part) /\ Stream \in Seq(Part) /\ Unsent \in Seq(Part)
         /\ Holds(Stream)
         /\ Stream = Wire \o Unsent
<1>1. /\ Wire \in Seq(Part) /\ High \in Seq(Part) /\ slot.dw \in Seq(Part) /\ slot.high \in Seq(Part) /\ slot.low \in Seq(Part)
      /\ Unsent \in Seq(Part)
  <2>1. Wire \in Seq(Part)
    BY QueueTypes DEF Wire, TypeOK, Queues
  <2> QED
    BY <2>1, QueueTypes
<1>2. Front \in Seq(Part) /\ Stream \in Seq(Part)
  BY <1>1, Joined DEF Front, Stream
<1>3. Holds(Stream)
  BY Zenon DEF Holds, Streams, Later
<1>4. Stream = Wire \o Unsent
  <2>1. (Wire \o High) \o slot.low = Wire \o (High \o slot.low)
    <3>1. PICK a, b, c : a = Wire /\ b = High /\ c = slot.low
      OBVIOUS
    <3>2. a \in Seq(Part) /\ b \in Seq(Part) /\ c \in Seq(Part)
      BY <1>1, <3>1
    <3>3. (a \o b) \o c = a \o (b \o c)
      BY ONLY <3>2, Associative
    <3> QED
      BY <3>1, <3>3, Zenon
  <2> QED
    BY <2>1, Zenon DEF Stream, Front, Unsent
<1> QED
  BY <1>1, <1>2, <1>3, <1>4

(* The same of the lists after a step.                                     *)
LEMMA Renamed ==
  ASSUME NEW s, Stream' = s, Holds(s)'
  PROVE  Ordered(Stream)' /\ InBox(Stream, slot.id)' /\ Later'
<1>1. Ordered(Stream)' /\ InBox(Stream, slot.id)'
  BY DEF Holds, Ordered, Follows, InBox
<1>2. Later'
  BY DEF Holds, Later, Behind
<1> QED
  BY <1>1, <1>2

(* No list at all.                                                         *)
LEMMA HoldsNothing ==
  Holds(<<>>)'
BY DEF Holds, Ordered, InBox

(* A message that waited enters.                                           *)
LEMMA ComesLast ==
  ASSUME NEW s, Holds(s), NEW m \in 1 .. Len(box), Waiting(m), box[m].to = slot.id
  PROVE  \A j \in 1 .. Len(s) : Follows(s[j][1], m)
<1>1. ASSUME NEW j \in 1 .. Len(s), box[s[j][1]].by = box[m].by PROVE s[j][1] <= m
  <2> DEFINE n == s[j][1]
  <2>1. Behind(n) /\ n \in 1 .. Len(box)
    BY DEF Holds, InBox
  <2> HIDE DEF n
  <2>2. box[n].by = box[m].by
    BY <1>1 DEF n
  <2>3. n < m
    BY <2>1, <2>2 DEF Behind
  <2> QED
    BY <2>1, <2>3 DEF n
<1> QED
  BY <1>1 DEF Follows

(* A list that one message entered, before all that still wait of its      *)
(* service.                                                                *)
LEMMA Enters ==
  ASSUME Fields, TypeOK, [Next]_vars, NEW s, Holds(s), slot'.id = slot.id, box' = box,
         NEW m \in 1 .. Len(box), box[m].to = slot.id,
         \A d \in 1 .. Len(box) : Waiting(d)' /\ box[d].to = slot.id /\ box[d].by = box[m].by => m < d,
         NEW r, Ordered(r), \A j \in 1 .. Len(r) : r[j][1] = m \/ \E i \in 1 .. Len(s) : r[j] = s[i]
  PROVE  Holds(r)'
<1>1. Holds(s)'
  BY Keeps
<1>2. Ordered(r)'
  BY DEF Ordered, Follows
<1>3. Behind(m)'
  BY DEF Behind
<1>4. ASSUME NEW j \in 1 .. Len(r)
      PROVE  Behind(r[j][1])' /\ r[j][1] \in 1 .. Len(box') /\ box'[r[j][1]].to = slot'.id
  <2>1. CASE r[j][1] = m
    BY <1>3, <2>1
  <2>2. ASSUME NEW i \in 1 .. Len(s), r[j] = s[i]
        PROVE  Behind(r[j][1])' /\ r[j][1] \in 1 .. Len(box') /\ box'[r[j][1]].to = slot'.id
    BY <1>1, <2>2 DEF Holds, InBox
  <2> QED
    BY <2>1, <2>2
<1> QED
  BY <1>2, <1>4 DEF Holds, InBox

(* What a direct write comes to, when it is made.                          *)
Direct(v, k) ==
  LET m == job[v] IN
  /\ at[v] = "locked" /\ m \in 1 .. Len(box) /\ box[m].by = v /\ box[m].to = slot.id /\ slot.id \in Id
  /\ slot.type = "connected" /\ slot'.type = slot.type /\ slot'.id = slot.id /\ slot.sending = 0 /\ slot.tcp
  /\ Unsent = <<>> /\ High = <<>> /\ slot.low = <<>> /\ slot'.low = <<>>
  /\ wire' = [wire EXCEPT ![slot.id] = @ \o SubSeq(Parts(m), 1, k)]
  /\ High' = SubSeq(Parts(m), k + 1, Units)
  /\ k # 0 => net.st = "up"
  /\ tp' = tp /\ net'.st = net.st /\ asked' = asked /\ box' = box /\ pipe' = pipe /\ job' = job
  /\ at'[v] \notin Busy /\ \A w \in Service : w # v => at'[w] = at[w]

(* A direct write that is made finds no message before its own: nothing is *)
(* in the lists and nothing is counted.                                    *)
LEMMA DirectIs ==
  ASSUME Fields, TypeOK, Slots, Jobs, Quiet, NEW v \in Service, DirectDone(v)
  PROVE  \/ Same /\ slot'.type = slot.type /\ tp' = tp /\ net'.st = net.st /\ at'[v] \in Busy
         \/ \E k \in 0 .. Units : Direct(v, k)
<1> DEFINE m == job[v] c == box[m].to
<1>1. /\ at[v] = "locked" /\ UNCHANGED <<pipe, tp, job, box, asked>>
      /\ slot'.id = slot.id /\ slot'.type = slot.type /\ slot'.high = slot.high /\ slot'.low = slot.low
      /\ net'.st = net.st
  BY Zenon DEF DirectDone, Kept, Named
<1>2. m \in 1 .. Len(box) /\ box[m].by = v /\ c \in Id /\ m \in Nat
  BY <1>1, Contents DEF Jobs, Busy
<1>3. CASE ~CanDirectWrite(c)
  <2>1. slot'.dw = slot.dw /\ wire' = wire /\ at' = [at EXCEPT ![v] = "count"]
    BY <1>3, Zenon DEF DirectDone
  <2>2. at'[v] \in Busy
    BY <2>1 DEF TypeOK, Calls, Busy
  <2> QED
    BY <1>1, <2>1, <2>2 DEF Same, High
<1>4. CASE CanDirectWrite(c)
  <2>1. /\ slot.id = c /\ slot.type = "connected" /\ slot.high = <<>> /\ slot.low = <<>> /\ slot.dw = <<>> /\ slot.sending = 0
        /\ slot.tcp
    BY <1>4 DEF CanDirectWrite, NoMoreSending, ListsEmpty, Quiet, Linked, Established
  <2>2. High = <<>> /\ Unsent = <<>>
    BY <2>1 DEF High, Unsent
  <2>3. PICK k \in 0 .. Units : /\ k # 0 => net.st = "up"
                                /\ slot'.dw = SubSeq(Parts(m), k + 1, Units)
                                /\ wire' = [wire EXCEPT ![c] = @ \o SubSeq(Parts(m), 1, k)]
                                /\ \E l \in {"idle", "trigger"} : at' = [at EXCEPT ![v] = l]
    <3>1. Units \in 0 .. Units /\ SubSeq(Parts(m), Units + 1, Units) = <<>> /\ 0 .. Units - 1 \subseteq 0 .. Units
      BY <1>2, PartsOf, Parameters
    <3>2. CASE /\ net.st = "up" /\ at' = [at EXCEPT ![v] = "idle"] /\ slot'.dw = slot.dw
               /\ wire' = [wire EXCEPT ![c] = @ \o SubSeq(Parts(m), 1, Units)]
      BY <2>1, <3>1, <3>2, Zenon
    <3>3. CASE /\ at' = [at EXCEPT ![v] = "trigger"]
               /\ \E k \in 0 .. Units - 1 :
                    /\ k # 0 => net.st = "up"
                    /\ slot'.dw = SubSeq(Parts(m), k + 1, Units)
                    /\ wire' = [wire EXCEPT ![c] = @ \o SubSeq(Parts(m), 1, k)]
      BY <3>1, <3>3, Zenon
    <3> QED
      BY <1>4, <3>2, <3>3, Zenon DEF DirectDone
  <2>4. at'[v] \notin Busy /\ \A w \in Service : w # v => at'[w] = at[w]
    BY <2>3 DEF TypeOK, Calls, Busy
  <2>5. High' = SubSeq(Parts(m), k + 1, Units)
    <3>1. SubSeq(Parts(m), k + 1, Units) \in Seq(Part)
      BY <1>2, Slices
    <3> QED
      BY <1>1, <2>1, <2>3, <3>1 DEF High
  <2>6. Direct(v, k)
    BY <1>1, <1>2, <2>1, <2>2, <2>3, <2>4, <2>5, Zenon DEF Direct
  <2> QED
    BY <2>6, Zenon
<1> QED
  BY <1>3, <1>4

(* send_socket puts its message, which waited, into a list or drops it.    *)
LEMMA SendDoneIs ==
  ASSUME Fields, TypeOK, Jobs, SendDone
  PROVE  \/ Same /\ Dropped(Head(pipe).id)
         \/ \E m \in 1 .. Len(box) :
              /\ m = Head(pipe).m /\ box[m].to = slot.id /\ Waiting(m) /\ m \in Nat /\ box' = box /\ slot'.id = slot.id /\ wire' = wire
              /\ \A d \in 1 .. Len(box) : Waiting(d)' /\ box[d].by = box[m].by => m < d
              /\ \/ /\ m \notin Low \/ slot.low = <<>>
                    /\ High' = High \o Parts(m) /\ slot'.low = slot.low
                 \/ m \in Low /\ High' = High /\ slot'.low = slot.low \o Parts(m)
<1>0. PICK c, m : c = Head(pipe).id /\ m = Head(pipe).m
  OBVIOUS
<1>1. /\ pipe # <<>> /\ pipe' = Tail(pipe) /\ Head(pipe).op \in Sends
      /\ slot'.id = slot.id /\ box' = box /\ wire' = wire /\ at' = at /\ job' = job
  BY DEF SendDone, CommandDone, Named, Sends
<1>2. CASE Dropped(c)
  <2>1. SameLists
    BY <1>0, <1>2, Zenon DEF SendDone
  <2> QED
    BY <1>0, <1>1, <1>2, <2>1, SameHigh DEF Same
<1>3. CASE ~Dropped(c)
  <2>1. /\ ~Dropped(c)
        /\ \/ ListsEmpty /\ Lists(Parts(m), slot.low, slot.dw)
           \/ m \in Low /\ Lists(slot.high, slot.low \o Parts(m), slot.dw)
           \/ m \notin Low /\ Lists(slot.high \o Parts(m), slot.low, slot.dw)
    BY <1>0, <1>3, Zenon DEF SendDone
  <2>2. 1 \in 1 .. Len(pipe) /\ pipe[1] = Head(pipe) /\ \A i \in 1 .. Len(pipe') : i + 1 \in 1 .. Len(pipe) /\ pipe'[i] = pipe[i + 1]
    BY <1>1, Obeyed
  <2>3. m \in 1 .. Len(box) /\ c = box[m].to /\ Waiting(m) /\ m \in Nat
    BY <1>0, <1>1, <2>2 DEF Jobs, Waiting
  <2>4. slot.id = c
    BY <2>1 DEF Dropped, Invalid
  <2>5. ASSUME NEW d \in 1 .. Len(box), Waiting(d)', box[d].by = box[m].by PROVE m < d
    <3>1. ASSUME NEW i \in 1 .. Len(pipe'), pipe'[i].op \in Sends, pipe'[i].m = d PROVE m < d
      <4>1. i + 1 \in 1 .. Len(pipe) /\ 1 < i + 1
        BY <2>2
      <4>2. pipe[i + 1].op \in Sends /\ pipe[i + 1].m = d
        BY <2>2, <3>1
      <4>3. \A h \in 1 .. Len(pipe) : 1 < h /\ pipe[h].op \in Sends =>
              (box[m].by = box[pipe[h].m].by => m < pipe[h].m)
        BY <1>0, <1>1, <2>2 DEF Jobs
      <4> QED
        BY <2>5, <4>1, <4>2, <4>3
    <3>2. ASSUME NEW w \in Service, at[w] \in Busy, job[w] = d PROVE m < d
      <4>1. box[d].by = w /\ m <= d
        BY <2>3, <2>5, <3>2 DEF Jobs
      <4>2. m # d
        BY <1>0, <1>1, <2>2, <3>2 DEF Jobs
      <4> QED
        BY <2>3, <4>1, <4>2
    <3> QED
      BY <1>1, <2>5, <3>1, <3>2 DEF Waiting
  <2>6. /\ slot.dw \in Seq(Part) /\ slot.high \in Seq(Part) /\ slot.low \in Seq(Part) /\ Parts(m) \in Seq(Part)
    BY <2>3, QueueTypes, PartsOf
  <2>7. \/ /\ m \notin Low \/ slot.low = <<>>
           /\ High' = High \o Parts(m) /\ slot'.low = slot.low
        \/ m \in Low /\ High' = High /\ slot'.low = slot.low \o Parts(m)
    <3>1. CASE ListsEmpty /\ Lists(Parts(m), slot.low, slot.dw)
      <4>1. slot.low = <<>> /\ slot.high = <<>> /\ slot'.low = slot.low
        BY <3>1 DEF ListsEmpty, Lists
      <4>2. slot.dw \o <<>> = slot.dw
        BY <2>6
      <4>3. High' = High \o Parts(m)
        BY <3>1, <4>1, <4>2, Zenon DEF Lists, High
      <4> QED
        BY <4>1, <4>3
    <3>2. CASE m \in Low /\ Lists(slot.high, slot.low \o Parts(m), slot.dw)
      BY <3>2, Zenon DEF Lists, High
    <3>3. CASE m \notin Low /\ Lists(slot.high \o Parts(m), slot.low, slot.dw)
      <4>1. PICK x, y, z : x = slot.dw /\ y = slot.high /\ z = Parts(m)
        OBVIOUS
      <4>2. x \in Seq(Part) /\ y \in Seq(Part) /\ z \in Seq(Part)
        BY <2>6, <4>1
      <4>3. (x \o y) \o z = x \o (y \o z)
        BY ONLY <4>2, Associative
      <4>4. High' = High \o Parts(m)
        BY <3>3, <4>1, <4>3, Zenon DEF Lists, High
      <4> QED
        BY <3>3, <4>4, Zenon DEF Lists
    <3> QED
      BY <2>1, <3>1, <3>2, <3>3
  <2> QED
    BY <1>0, <1>1, <2>3, <2>4, <2>5, <2>7, Zenon
<1> QED
  BY <1>2, <1>3

(* Put last, or before the messages of low priority.                       *)
LEMMA PutLast ==
  ASSUME NEW s \in Seq(Part), NEW m \in Nat, Ordered(s), \A j \in 1 .. Len(s) : Follows(s[j][1], m)
  PROVE  /\ s \o Parts(m) \in Seq(Part) /\ Ordered(s \o Parts(m))
         /\ \A j \in 1 .. Len(s \o Parts(m)) : (s \o Parts(m))[j][1] = m \/ \E i \in 1 .. Len(s) : (s \o Parts(m))[j] = s[i]
<1>1. Parts(m) \in Seq(Part) /\ Ordered(Parts(m)) /\ \A j \in 1 .. Len(Parts(m)) : Parts(m)[j][1] = m
  BY PartsOf, OneMessage
<1> DEFINE p == Parts(m)
<1> HIDE DEF p
<1>2. Ordered(s \o p)
  BY <1>1, OrderedJoined DEF p
<1> DEFINE r == s \o p
<1>3. /\ r \in Seq(Part) /\ Len(s) \in Nat /\ Len(r) \in Nat
      /\ \A j \in 1 .. Len(s) : r[j] = s[j]
      /\ \A j \in 1 .. Len(r) : j > Len(s) => j - Len(s) \in 1 .. Len(p) /\ r[j] = p[j - Len(s)]
  BY <1>1, Joined DEF p
<1> HIDE DEF r
<1>4. ASSUME NEW j \in 1 .. Len(r) PROVE r[j][1] = m \/ \E i \in 1 .. Len(s) : r[j] = s[i]
  <2>1. CASE j <= Len(s)
    <3>1. j \in 1 .. Len(s)
      BY <1>3, <2>1
    <3> QED
      BY <1>3, <3>1
  <2>2. CASE j > Len(s)
    BY <1>1, <1>3, <2>2 DEF p
  <2> QED
    BY <1>3, <2>1, <2>2
<1> QED
  BY <1>2, <1>3, <1>4 DEF p, r

(* A message put between two lists.                                        *)
LEMMA PutBefore ==
  ASSUME NEW f \in Seq(Part), NEW l \in Seq(Part), NEW m \in Nat, Ordered(f \o l),
         \A j \in 1 .. Len(f \o l) : Follows((f \o l)[j][1], m),
         \A j \in 1 .. Len(l) : Follows(m, l[j][1])
  PROVE  LET r == (f \o Parts(m)) \o l IN
         /\ r \in Seq(Part) /\ Ordered(r)
         /\ \A j \in 1 .. Len(r) : r[j][1] = m \/ \E i \in 1 .. Len(f \o l) : r[j] = (f \o l)[i]
<1> DEFINE s == f \o l g == f \o Parts(m) r == g \o l
<1>1. /\ s \in Seq(Part) /\ Len(s) = Len(f) + Len(l) /\ Len(f) \in Nat /\ Len(l) \in Nat
      /\ \A j \in 1 .. Len(f) : s[j] = f[j]
      /\ \A j \in 1 .. Len(l) : s[Len(f) + j] = l[j]
  BY Joined
<1>2. Ordered(s) /\ \A j \in 1 .. Len(s) : Follows(s[j][1], m)
  OBVIOUS
<1>3. Ordered(f)
  BY OrderedFirst
<1> HIDE DEF s
<1>4. \A j \in 1 .. Len(f) : j \in 1 .. Len(s) /\ Follows(f[j][1], m)
  BY <1>1, <1>2
<1>5. \A k \in 1 .. Len(l) : Len(f) + k \in 1 .. Len(s) /\ s[Len(f) + k] = l[k]
  BY <1>1
<1>6. /\ g \in Seq(Part) /\ Ordered(g)
      /\ \A j \in 1 .. Len(g) : g[j][1] = m \/ \E i \in 1 .. Len(f) : g[j] = f[i]
  BY <1>3, <1>4, PutLast
<1> HIDE DEF g
<1>7. Ordered(l)
  <2>1. ASSUME NEW k \in 1 .. Len(l), NEW j \in 1 .. Len(l), k < j PROVE Follows(l[k][1], l[j][1])
    <3>1. Len(f) + k < Len(f) + j
      BY <1>1, <2>1
    <3> QED
      BY <1>2, <1>5, <3>1 DEF Ordered
  <2> QED
    BY <2>1 DEF Ordered
<1>8. ASSUME NEW i \in 1 .. Len(f), NEW k \in 1 .. Len(l) PROVE Follows(f[i][1], l[k][1])
  <2>1. i \in 1 .. Len(s) /\ s[i] = f[i] /\ i < Len(f) + k
    BY <1>1, <1>4
  <2> QED
    BY <1>2, <1>5, <2>1 DEF Ordered
<1>9. \A j \in 1 .. Len(g) : \A k \in 1 .. Len(l) : Follows(g[j][1], l[k][1])
  BY <1>6, <1>8
<1>10. Ordered(r)
  BY <1>6, <1>7, <1>9, OrderedJoined
<1>11. /\ r \in Seq(Part) /\ Len(g) \in Nat /\ Len(r) \in Nat
       /\ \A j \in 1 .. Len(g) : r[j] = g[j]
       /\ \A j \in 1 .. Len(r) : j > Len(g) => j - Len(g) \in 1 .. Len(l) /\ r[j] = l[j - Len(g)]
  BY <1>6, Joined
<1> HIDE DEF r
<1>12. ASSUME NEW j \in 1 .. Len(r) PROVE r[j][1] = m \/ \E i \in 1 .. Len(s) : r[j] = s[i]
  <2>1. CASE j <= Len(g)
    <3>1. j \in 1 .. Len(g) /\ r[j] = g[j]
      BY <1>11, <2>1
    <3> QED
      BY <1>1, <1>4, <1>6, <3>1
  <2>2. CASE j > Len(g)
    <3>1. PICK k \in 1 .. Len(l) : r[j] = l[k]
      BY <1>11, <2>2
    <3>2. PICK i \in 1 .. Len(s) : s[i] = l[k]
      BY <1>5
    <3> QED
      BY <3>1, <3>2
  <2> QED
    BY <1>11, <2>1, <2>2
<1> QED
  BY <1>10, <1>11, <1>12 DEF r, g, s

(* The low list has messages of low priority only.                         *)
Lowly == \A j \in 1 .. Len(slot.low) : slot.low[j][1] \in Low

(* What NextFlowing shows of the state after a step.                       *)
Flowing == /\ Ordered(Stream)' /\ InBox(Stream, slot.id)' /\ Later'
           /\ Lowly'

(* What is on its way stays when the socket thread writes.                 *)
LEMMA WroteStream ==
  ASSUME Fields, TypeOK, Slots, Streams, EventDone,
         WroteAll \/ \E k \in 1 .. Len(Unsent) - 1 : WroteSome(k)
  PROVE  slot'.id = slot.id /\ Stream' = Stream /\ Lowly'
<1>1. PICK s, w, h, l : s = Stream /\ w = Wire /\ h = High /\ l = slot.low
  OBVIOUS
<1>2. /\ s \in Seq(Part) /\ w \in Seq(Part) /\ h \in Seq(Part) /\ l \in Seq(Part) /\ w \o h \in Seq(Part)
      /\ s = (w \o h) \o l
  BY <1>1, Lasts DEF Stream, Front
<1>3. Lowly
  BY DEF Streams, Lowly
<1>4. CASE WroteAll
  <2>1. /\ slot.type \in Established /\ wire' = [wire EXCEPT ![slot.id] = @ \o Unsent]
        /\ slot'.high = <<>> /\ slot'.low = <<>> /\ slot'.dw = <<>> /\ slot'.id = slot.id
    BY <1>4 DEF EventDone, Kept, Named, WroteAll, Lists
  <2>2. slot.id \in Id
    BY <2>1, IdUsed DEF Established
  <2>3. Wire' = w \o Unsent
    BY <1>1, <2>1, <2>2, Lasts, Extended DEF Wire
  <2>4. w \o Unsent = s
    BY <1>1, Lasts, Zenon
  <2>5. s \o <<>> = s /\ <<>> \o <<>> = <<>>
    BY <1>2
  <2>6. Stream' = s
    BY <2>1, <2>3, <2>4, <2>5, Zenon DEF Stream, Front, High
  <2>7. Len(slot'.low) = 0
    BY <2>1
  <2> QED
    BY <1>1, <2>1, <2>6, <2>7 DEF Lowly
<1>5. ASSUME NEW k \in 1 .. Len(Unsent) - 1, WroteSome(k)
      PROVE  slot'.id = slot.id /\ Stream' = Stream /\ Lowly'
  <2>1. /\ slot.type \in Established /\ wire' = [wire EXCEPT ![slot.id] = @ \o SubSeq(Unsent, 1, k)]
        /\ slot' = Written(k) /\ slot'.id = slot.id /\ tp # "closing"
    BY <1>5 DEF EventDone, Kept, Named, WroteSome
  <2>2. slot.id \in Id
    BY <2>1, IdUsed DEF Established
  <2>3. Whole(w \o High) /\ Whole(slot.low)
    BY <1>1, <2>1 DEF Streams, Shape, Front
  <2>4. PICK v : v = w \o SubSeq(Unsent, 1, k)
    OBVIOUS
  <2>5. /\ v \in Seq(Part) /\ slot'.dw = <<>> /\ slot'.high \in Seq(Part) /\ slot'.low \in Seq(Part)
        /\ (v \o slot'.high) \o slot'.low = s
        /\ \A j \in 1 .. Len(slot'.low) : \E i \in 1 .. Len(slot.low) : slot'.low[j] = slot.low[i]
    <3>1. slot.dw \in Seq(Part) /\ slot.high \in Seq(Part) /\ slot.low \in Seq(Part)
      BY QueueTypes
    <3> QED
      BY <1>1, <1>2, <2>1, <2>3, <2>4, <3>1, WrittenKeeps, Zenon
  <2>6. Wire' = v
    <3>1. SubSeq(Unsent, 1, k) \in Seq(Part)
      <4>1. Unsent \in Seq(Part)
        BY Lasts
      <4>2. k \in 0 .. Len(Unsent)
        OBVIOUS
      <4> QED
        BY <4>1, <4>2, Cut
    <3> QED
      BY <1>1, <2>1, <2>2, <2>4, <3>1, Extended DEF Wire
  <2>7. Stream' = s
    <3>1. <<>> \o slot'.high = slot'.high
      BY <2>5
    <3> QED
      BY <2>5, <2>6, <3>1, Zenon DEF Stream, Front, High
  <2>8. Lowly'
    BY <1>3, <2>5 DEF Lowly
  <2> QED
    BY <1>1, <2>1, <2>7, <2>8
<1> QED
  BY <1>4, <1>5

(* The message that send_socket takes is put behind the others of its      *)
(* list.                                                                   *)
LEMMA SentStream ==
  ASSUME Fields, TypeOK, Streams, slot'.id = slot.id, wire' = wire, NEW m \in Nat
  PROVE  /\ High' = High \o Parts(m) /\ slot'.low = slot.low => Stream' = (Front \o Parts(m)) \o slot.low
         /\ High' = High /\ slot'.low = slot.low \o Parts(m) => Stream' = Stream \o Parts(m)
<1>1. PICK w, h, l, p : w = Wire /\ h = High /\ l = slot.low /\ p = Parts(m)
  OBVIOUS
<1>2. w \in Seq(Part) /\ h \in Seq(Part) /\ l \in Seq(Part) /\ p \in Seq(Part) /\ w \o h \in Seq(Part)
  BY <1>1, Lasts, PartsOf DEF Front
<1>3. Wire' = w
  BY <1>1 DEF Wire
<1>4. w \o (h \o p) = (w \o h) \o p
  <2>1. w \in Seq(Part) /\ h \in Seq(Part) /\ p \in Seq(Part)
    BY <1>2
  <2>2. (w \o h) \o p = w \o (h \o p)
    BY ONLY <2>1, Associative
  <2> QED
    BY <2>2
<1>5. (w \o h) \o (l \o p) = ((w \o h) \o l) \o p
  BY ONLY <1>2, Associative, Zenon
<1> QED
  BY <1>1, <1>3, <1>4, <1>5, Zenon DEF Stream, Front

(* A message that is written directly stands behind all others, the rest   *)
(* of it in dw_buffer.                                                     *)
LEMMA DirectStream ==
  ASSUME Fields, TypeOK, Streams, NEW v \in Service, NEW k \in 0 .. Units, Direct(v, k)
  PROVE  job[v] \in Nat /\ Stream = Wire /\ Stream' = Wire \o Parts(job[v])
<1>0. PICK w, m, a, b : w = Wire /\ m = job[v] /\ a = SubSeq(Parts(m), 1, k) /\ b = SubSeq(Parts(m), k + 1, Units)
  OBVIOUS
<1>1. /\ m \in 1 .. Len(box) /\ slot.id \in Id /\ slot'.id = slot.id
      /\ High = <<>> /\ slot.low = <<>> /\ slot'.low = <<>>
      /\ wire' = [wire EXCEPT ![slot.id] = @ \o a]
      /\ High' = b
  BY <1>0, Zenon DEF Direct
<1>2. m \in Nat /\ a \in Seq(Part) /\ b \in Seq(Part) /\ a \o b = Parts(m) /\ Parts(m) \in Seq(Part)
  <2>1. m \in Nat
    BY <1>1
  <2> QED
    BY <1>0, <2>1, Slices, PartsOf, Zenon
<1>3. w \in Seq(Part)
  BY <1>0, Lasts
<1>4. Wire' = w \o a
  <2>1. wire'[slot.id] = wire[slot.id] \o a
    BY <1>1, <1>2, Extended
  <2> QED
    BY <1>0, <1>1, <2>1 DEF Wire
<1>5. Stream = w
  <2>1. w \o <<>> = w
    BY <1>3
  <2> QED
    BY <1>0, <1>1, <2>1, Zenon DEF Stream, Front
<1>6. Stream' = w \o Parts(m)
  <2>0. w \in Seq(Part) /\ a \in Seq(Part) /\ b \in Seq(Part)
    BY <1>2, <1>3
  <2>1. (w \o a) \o b = w \o (a \o b)
    BY ONLY <2>0, Associative
  <2>2. PICK r : r = w \o Parts(m)
    OBVIOUS
  <2>3. r \in Seq(Part)
    BY <1>2, <1>3, <2>2
  <2>4. r \o <<>> = r
    BY <2>3
  <2> QED
    BY <1>1, <1>2, <1>4, <2>1, <2>2, <2>4, Zenon DEF Stream, Front
<1> QED
  BY <1>0, <1>2, <1>5, <1>6

(* Every step keeps wire and lists together in order.                      *)
LEMMA NextFlowing ==
  ASSUME Fields, TypeOK, Slots, Opens, Empty, Jobs, Quiet, Sending, Streams, [Next]_vars
  PROVE  Flowing
<1>1. PICK s, w, h, l : s = Stream /\ w = Wire /\ h = High /\ l = slot.low
  OBVIOUS
<1>2. /\ s \in Seq(Part) /\ w \in Seq(Part) /\ h \in Seq(Part) /\ l \in Seq(Part) /\ w \o h \in Seq(Part)
      /\ Holds(s) /\ s = (w \o h) \o l
  <2>1. Holds(s)
    BY <1>1, Lasts, Zenon DEF Holds, Ordered, Follows, InBox, Behind
  <2> QED
    BY <1>1, <2>1, Lasts DEF Stream, Front
<1>3. Lowly /\ \A j \in 1 .. Len(l) : l[j][1] \in Low
  BY <1>1 DEF Streams, Lowly
<1>4. CASE Same
  <2>1. Stream' = s /\ slot'.id = slot.id /\ slot'.low = slot.low
    BY <1>1, <1>4 DEF Same, Stream, Front, Wire
  <2>2. Holds(s)'
    BY <1>2, <2>1, Keeps
  <2> QED
    BY <1>3, <2>1, <2>2, Renamed DEF Flowing, Lowly
<1>5. CASE Cuts
  <2>0. Wire' = w /\ slot'.low = <<>> /\ slot'.id = slot.id
    BY <1>1, <1>5 DEF Cuts, Wire
  <2>1. PICK a : a = High' /\ (a = slot.dw \/ a = <<>>)
    BY <1>5 DEF Cuts
  <2>2. a \in Seq(Part) /\ w \o a \in Seq(Part) /\ Stream' = w \o a
    <3>0. a \in Seq(Part)
      BY <2>1, QueueTypes, Zenon
    <3>1. a \in Seq(Part) /\ w \o a \in Seq(Part)
      BY <1>2, <3>0, Joined
    <3>2. (w \o a) \o <<>> = w \o a
      BY <3>1
    <3> QED
      BY <2>0, <2>1, <3>1, <3>2, Zenon DEF Stream, Front
  <2>3. \E b \in Seq(Part) : (w \o a) \o b = s
    <3>1. CASE a = slot.dw
      <4>1. PICK b : b = slot.high
        OBVIOUS
      <4>2. b \in Seq(Part) /\ h = a \o b
        BY <1>1, <3>1, <4>1, QueueTypes DEF High
      <4>3. (w \o (a \o b)) \o l = (w \o a) \o (b \o l) /\ b \o l \in Seq(Part)
        <5>0. w \in Seq(Part) /\ a \in Seq(Part) /\ b \in Seq(Part) /\ l \in Seq(Part) /\ w \o a \in Seq(Part)
          BY <1>2, <2>2, <4>2
        <5>a. w \in Seq(Part) /\ a \in Seq(Part) /\ b \in Seq(Part)
          BY <5>0
        <5>1. w \o (a \o b) = (w \o a) \o b
          BY ONLY <5>a, Associative
        <5>2. ((w \o a) \o b) \o l = (w \o a) \o (b \o l)
          BY ONLY <5>0, Associative, Zenon
        <5> QED
          BY <1>2, <4>2, <5>1, <5>2
      <4> QED
        BY <1>2, <4>2, <4>3, Zenon
    <3>2. CASE a = <<>>
      <4>1. w \o a = w
        BY <1>2, <3>2
      <4>2. (w \o h) \o l = w \o (h \o l) /\ h \o l \in Seq(Part)
        <5>a. w \in Seq(Part) /\ h \in Seq(Part) /\ l \in Seq(Part)
          BY <1>2
        <5>1. (w \o h) \o l = w \o (h \o l)
          BY ONLY <5>a, Associative
        <5> QED
          BY <1>2, <5>1
      <4> QED
        BY <1>2, <4>1, <4>2, Zenon
    <3> QED
      BY <2>1, <3>1, <3>2
  <2>4. Holds(w \o a)
    BY <1>2, <2>2, <2>3, HoldsFirst
  <2>5. PICK r : r = w \o a
    OBVIOUS
  <2>6. Holds(r)
    BY <2>4, <2>5 DEF Holds, Ordered, Follows, InBox, Behind
  <2>7. Holds(r)' /\ Stream' = r
    BY <2>0, <2>2, <2>5, <2>6, Keeps
  <2>8. Len(slot'.low) = 0
    BY <2>0
  <2> QED
    BY <2>7, <2>8, Renamed DEF Flowing, Lowly
<1>6. CASE Stream' = <<>> /\ slot'.low = <<>>
  BY <1>6, HoldsNothing, Renamed DEF Flowing, Lowly
<1>7. CASE SetId
  <2>1. slot'.id = last /\ slot'.high = slot.high /\ slot'.low = slot.low /\ slot'.dw = slot.dw /\ wire' = wire
    BY <1>7 DEF SetId, Fields, kernel
  <2>2. slot.type = "reserve" /\ slot.id = last - 1
    BY <1>7, Parameters DEF SetId, Slots
  <2>3. slot.high = <<>> /\ slot.low = <<>> /\ slot.dw = <<>>
    BY <2>2 DEF Empty, Established
  <2>4. last \in Id => wire[last] = <<>>
    BY <2>2 DEF Quiet, Untold, Unopened, Fresh
  <2>5. Stream' = <<>>
    BY <2>1, <2>3, <2>4 DEF Stream, Front, Wire, High
  <2> QED
    BY <1>6, <2>1, <2>3, <2>5
<1>8. CASE OpenDone
  <2>1. /\ pipe # <<>> /\ Head(pipe).op = "O" /\ slot'.id = slot.id /\ wire' = wire /\ at[Owner] # "name"
        /\ slot'.high = slot.high /\ slot'.low = slot.low /\ (slot'.dw = slot.dw \/ slot'.dw = <<>>)
    BY <1>8 DEF OpenDone, CommandDone, SameLists, Lists
  <2>2. slot.type = "reserve" /\ slot.id = last
    BY <2>1, Obeyed DEF Opens, Slots
  <2>3. slot.high = <<>> /\ slot.low = <<>> /\ slot.dw = <<>>
    BY <2>2 DEF Empty, Established
  <2>4. last \in Id => wire[last] = <<>>
    BY <2>2 DEF Quiet, Untold, Unopened, Fresh
  <2>5. Stream' = <<>>
    BY <2>1, <2>2, <2>3, <2>4 DEF Stream, Front, Wire, High
  <2> QED
    BY <1>6, <2>1, <2>3, <2>5
<1>9. CASE SendDone
  <2>1. CASE ~Same
    <3>1. PICK m \in 1 .. Len(box) :
              /\ box[m].to = slot.id /\ Waiting(m) /\ m \in Nat /\ box' = box /\ slot'.id = slot.id /\ wire' = wire
              /\ \A d \in 1 .. Len(box) : Waiting(d)' /\ box[d].by = box[m].by => m < d
              /\ \/ /\ m \notin Low \/ slot.low = <<>>
                    /\ High' = High \o Parts(m) /\ slot'.low = slot.low
                 \/ m \in Low /\ High' = High /\ slot'.low = slot.low \o Parts(m)
      BY <1>9, <2>1, SendDoneIs, Zenon
    <3>2. Wire' = w /\ Parts(m) \in Seq(Part)
      BY <1>1, <3>1, PartsOf DEF Wire
    <3>3. \A j \in 1 .. Len(s) : Follows(s[j][1], m)
      BY <1>2, <3>1, ComesLast
    <3>4. Ordered(s)
      BY <1>2 DEF Holds
    <3>5. CASE (m \notin Low \/ slot.low = <<>>) /\ High' = High \o Parts(m) /\ slot'.low = slot.low
      <4>2. PICK r : r = ((w \o h) \o Parts(m)) \o l
        OBVIOUS
      <4>3. Stream' = r
        BY <1>1, <3>1, <3>5, <4>2, SentStream DEF Front
      <4>4. \A j \in 1 .. Len(l) : Follows(m, l[j][1])
        BY <1>1, <1>3, <3>5 DEF Follows
      <4>5. Ordered(r) /\ \A j \in 1 .. Len(r) : r[j][1] = m \/ \E i \in 1 .. Len(s) : r[j] = s[i]
        <5> DEFINE f == w \o h
        <5>1. f \in Seq(Part) /\ s = f \o l /\ r = (f \o Parts(m)) \o l
          BY <1>2, <4>2
        <5> HIDE DEF f
        <5>2. Ordered(f \o l) /\ \A j \in 1 .. Len(f \o l) : Follows((f \o l)[j][1], m)
          BY <3>3, <3>4, <5>1
        <5>3. /\ Ordered((f \o Parts(m)) \o l)
              /\ \A j \in 1 .. Len((f \o Parts(m)) \o l) : ((f \o Parts(m)) \o l)[j][1] = m \/ \E i \in 1 .. Len(f \o l) : ((f \o Parts(m)) \o l)[j] = (f \o l)[i]
          BY <1>2, <3>1, <4>4, <5>1, <5>2, PutBefore
        <5> QED
          BY <5>1, <5>3, Zenon
      <4>6. Holds(r)'
        <5>1. \A d \in 1 .. Len(box) : Waiting(d)' /\ box[d].to = slot.id /\ box[d].by = box[m].by => m < d
          BY <3>1, Zenon
        <5>2. Holds(s) /\ slot'.id = slot.id /\ box' = box /\ box[m].to = slot.id
          BY <1>2, <3>1
        <5>3. Ordered(r) /\ \A j \in 1 .. Len(r) : r[j][1] = m \/ \E i \in 1 .. Len(s) : r[j] = s[i]
          BY <4>5, Zenon
        <5> QED
          BY ONLY Fields, TypeOK, [Next]_vars, <5>1, <5>2, <5>3, m \in 1 .. Len(box), Enters
      <4> QED
        BY <1>3, <3>5, <4>3, <4>6, Renamed DEF Flowing, Lowly
    <3>6. CASE m \in Low /\ High' = High /\ slot'.low = slot.low \o Parts(m)
      <4>2. PICK r : r = s \o Parts(m)
        OBVIOUS
      <4>3. Stream' = r
        BY <1>1, <3>1, <3>6, <4>2, SentStream
      <4>4. Ordered(r) /\ \A j \in 1 .. Len(r) : r[j][1] = m \/ \E i \in 1 .. Len(s) : r[j] = s[i]
        BY <1>2, <3>1, <3>3, <3>4, <4>2, PutLast
      <4>5. Holds(r)'
        <5>1. \A d \in 1 .. Len(box) : Waiting(d)' /\ box[d].to = slot.id /\ box[d].by = box[m].by => m < d
          BY <3>1, Zenon
        <5>2. Holds(s) /\ slot'.id = slot.id /\ box' = box /\ box[m].to = slot.id
          BY <1>2, <3>1
        <5>3. Ordered(r) /\ \A j \in 1 .. Len(r) : r[j][1] = m \/ \E i \in 1 .. Len(s) : r[j] = s[i]
          BY <4>4, Zenon
        <5> QED
          BY ONLY Fields, TypeOK, [Next]_vars, <5>1, <5>2, <5>3, m \in 1 .. Len(box), Enters
      <4>6. \A j \in 1 .. Len(l \o Parts(m)) : (l \o Parts(m))[j][1] \in Low
        <5>1. \A j \in 1 .. Len(Parts(m)) : Parts(m)[j][1] = m
          BY <3>1, OneMessage
        <5>2. \A j \in 1 .. Len(l \o Parts(m)) : \/ j \in 1 .. Len(l) /\ (l \o Parts(m))[j] = l[j]
                                               \/ \E i \in 1 .. Len(Parts(m)) : (l \o Parts(m))[j] = Parts(m)[i]
          <6> DEFINE q == Parts(m)
          <6>1. q \in Seq(Part)
            BY <3>2
          <6> HIDE DEF q
          <6>2. \A j \in 1 .. Len(l \o q) : \/ j \in 1 .. Len(l) /\ (l \o q)[j] = l[j]
                                            \/ \E i \in 1 .. Len(q) : (l \o q)[j] = q[i]
            <7>1. /\ Len(l) \in Nat
                  /\ \A j \in 1 .. Len(l) : (l \o q)[j] = l[j]
                  /\ \A j \in 1 .. Len(l \o q) : j > Len(l) => j - Len(l) \in 1 .. Len(q) /\ (l \o q)[j] = q[j - Len(l)]
              BY <1>2, <6>1, Joined
            <7>2. \A j \in 1 .. Len(l \o q) : j \in 1 .. Len(l) \/ j > Len(l)
              BY <7>1
            <7> QED
              BY <7>1, <7>2
          <6> QED
            BY <6>2 DEF q
        <5> QED
          BY <1>3, <3>6, <5>1, <5>2
      <4>7. Lowly'
        BY <1>1, <3>6, <4>6 DEF Lowly
      <4> QED
        BY <4>3, <4>5, <4>7, Renamed DEF Flowing
    <3> QED
      BY <3>1, <3>5, <3>6
  <2> QED
    BY <1>4, <2>1
<1>10. ASSUME NEW v \in Service, DirectDone(v) PROVE Flowing
  <2>1. ASSUME NEW k \in 0 .. Units, Direct(v, k) PROVE Flowing
    <3>0. PICK m, r : m = job[v] /\ r = w \o Parts(m)
      OBVIOUS
    <3>1. /\ at[v] = "locked" /\ m \in 1 .. Len(box) /\ box[m].by = v /\ box[m].to = slot.id /\ slot.id \in Id
          /\ slot'.id = slot.id /\ slot.sending = 0 /\ slot.tcp /\ slot'.low = <<>>
          /\ box' = box /\ pipe' = pipe /\ job' = job
          /\ at'[v] \notin Busy /\ \A x \in Service : x # v => at'[x] = at[x]
      BY <2>1, <3>0, Zenon DEF Direct
    <3>2. m \in Nat /\ s = w /\ Stream' = r
      BY <1>1, <2>1, <3>0, DirectStream
    <3>6. Waiting(m)
      BY <3>0, <3>1 DEF Waiting, Busy
    <3>7. Counted = {}
      <4>1. Cardinality(Counted) = 0
        BY <3>1 DEF Sending
      <4> QED
        BY <4>1, CountedFinite, FS_EmptySet
    <3>8. ASSUME NEW d \in 1 .. Len(box), Waiting(d)', box[d].to = slot.id, box[d].by = box[m].by
          PROVE  m < d
      <4>1. ASSUME NEW i \in 1 .. Len(pipe), pipe[i].op \in Sends, pipe[i].m = d PROVE FALSE
        BY <3>7, <3>8, <4>1 DEF Counted, Held
      <4>2. ASSUME NEW x \in Service, at'[x] \in Busy, job[x] = d PROVE FALSE
        <5>1. x # v /\ at[x] \in Busy
          BY <3>1, <4>2
        <5>2. box[d].by = x
          BY <4>2, <5>1 DEF Jobs
        <5> QED
          BY <3>1, <3>8, <5>1, <5>2
      <4> QED
        BY <3>1, <3>8, <4>1, <4>2 DEF Waiting
    <3>9. \A j \in 1 .. Len(s) : Follows(s[j][1], m)
      BY <1>2, <3>1, <3>6, ComesLast
    <3>10. Ordered(s)
      BY <1>2 DEF Holds
    <3>11. Ordered(r) /\ \A j \in 1 .. Len(r) : r[j][1] = m \/ \E i \in 1 .. Len(s) : r[j] = s[i]
      <4>1. r = s \o Parts(m) /\ s \in Seq(Part) /\ m \in Nat
        BY <1>2, <3>0, <3>2
      <4> QED
        BY <3>9, <3>10, <4>1, PutLast
    <3>12. Holds(r)'
      <4>1. \A d \in 1 .. Len(box) : Waiting(d)' /\ box[d].to = slot.id /\ box[d].by = box[m].by => m < d
        BY <3>8
      <4>2. Holds(s) /\ slot'.id = slot.id /\ box' = box /\ m \in 1 .. Len(box) /\ box[m].to = slot.id
        BY <1>2, <3>1
      <4> QED
        BY <3>11, <4>1, <4>2, Enters
    <3>13. Len(slot'.low) = 0
      BY <3>1
    <3> QED
      BY <3>2, <3>12, <3>13, Renamed DEF Flowing, Lowly
  <2> QED
    BY <1>4, <1>10, <2>1, DirectIs
<1>11. CASE EventDone /\ (WroteAll \/ \E k \in 1 .. Len(Unsent) - 1 : WroteSome(k))
  <2>1. slot'.id = slot.id /\ Stream' = s /\ Lowly'
    BY <1>1, <1>11, WroteStream
  <2>2. Holds(s)'
    BY <1>2, <2>1, Keeps
  <2> QED
    BY <2>1, <2>2, Renamed DEF Flowing
<1> QED
  BY <1>4, <1>5, <1>7, <1>8, <1>9, <1>10, <1>11, Flows DEF FlowStep

(* The empty list.                                                         *)
LEMMA Nothing ==
  /\ <<>> \in Seq(Part) /\ Len(<<>>) = 0 /\ <<>> \o <<>> = <<>>
  /\ Whole(<<>>) /\ \A s \in Seq(Part) : s \o <<>> = s /\ <<>> \o s = s
<1>1. <<>> \in Seq(Part) /\ Len(<<>>) = 0 /\ <<>> \o <<>> = <<>> /\ \A s \in Seq(Part) : s \o <<>> = s /\ <<>> \o s = s
  OBVIOUS
<1> QED
  BY <1>1 DEF Whole

(* There is nothing to show of a slot that is not connected.               *)
LEMMA ShapeIdle ==
  ASSUME slot'.type \notin Established
  PROVE  Shape'
BY DEF Shape, Established

(* Steps that move no parts and connect nothing.                           *)
LEMMA ShapeStays ==
  ASSUME Fields, TypeOK, Slots, Shape, [Next]_vars, Same,
         slot'.type \in Established /\ tp' # "closing" => slot.type \in Established /\ tp # "closing",
         slot'.type = "connected" /\ tp' = "closing" /\ net'.st # "dead" =>
           slot.type = "connected" /\ tp = "closing" /\ net.st # "dead"
  PROVE  Shape'
<1>1. Front' = Front /\ slot'.low = slot.low /\ slot'.id = slot.id
  BY DEF Same, Front, Wire
<1>2. slot.type = "connected" => slot.id \in Id
  BY IdUsed
<1>3. \A c \in Id : asked[c].shut => asked'[c].shut
  BY Shuts
<1>4. Established' = Established
  BY DEF Established
<1> QED
  BY <1>1, <1>2, <1>3, <1>4 DEF Shape

(* Every step keeps the lists made of whole messages, the first of which   *)
(* may have been begun.                                                    *)
LEMMA NextShape ==
  ASSUME Fields, TypeOK, Slots, Opens, Empty, Jobs, Quiet, Closings, Deaths, Streams, Shape, [Next]_vars
  PROVE  Shape'
<1> USE Parameters
<1>1. ASSUME NEW v \in Service, NEW c \in Id, Send(v, c) PROVE Shape'
  BY <1>1, ShapeStays DEF Same, Fields, High, Send, Goto, kernel, thread, callers
<1>2. ASSUME NEW v \in Service, TryLock(v) PROVE Shape'
  BY <1>2, ShapeStays DEF Same, Fields, High, TryLock, Goto, kernel, thread, callers
<1>3. ASSUME NEW v \in Service, DirectDone(v) PROVE Shape'
  <2>1. CASE Same /\ slot'.type = slot.type /\ tp' = tp /\ net'.st = net.st
    BY <2>1, ShapeStays
  <2>2. ASSUME NEW k \in 0 .. Units, Direct(v, k) PROVE Shape'
    <3>0. PICK m, a, b, w : m = job[v] /\ a = SubSeq(Parts(m), 1, k) /\ b = SubSeq(Parts(m), k + 1, Units) /\ w = Wire
      OBVIOUS
    <3>1. /\ m \in 1 .. Len(box) /\ slot.id \in Id /\ slot'.id = slot.id /\ slot'.low = <<>>
          /\ slot.type = "connected" /\ High = <<>> /\ slot'.type = slot.type /\ tp' = tp /\ net'.st = net.st /\ asked' = asked
          /\ wire' = [wire EXCEPT ![slot.id] = @ \o a] /\ High' = b
      BY <2>2, <3>0, Zenon DEF Direct
    <3>2. m \in Nat
      BY <3>1
    <3>3. a \in Seq(Part) /\ b \in Seq(Part) /\ a \o b = Parts(m) /\ Parts(m) \in Seq(Part) /\ Whole(Parts(m)) /\ w \in Seq(Part)
      BY <3>0, <3>2, Slices, PartsOf, Lasts, Zenon
    <3>4. wire'[slot.id] = wire[slot.id] \o a
      BY <3>1, <3>3, Extended
    <3>5. Wire' = w \o a
      BY <3>0, <3>1, <3>4 DEF Wire
    <3>6. (w \o a) \o b = w \o (a \o b)
      <4>1. w \in Seq(Part) /\ a \in Seq(Part) /\ b \in Seq(Part)
        BY <3>3
      <4> QED
        BY ONLY <4>1, Associative
    <3>7. Front' = w \o Parts(m)
      BY <3>1, <3>3, <3>5, <3>6, Zenon DEF Front
    <3>8. Front = w
      BY <3>0, <3>1, <3>3, Nothing, Zenon DEF Front
    <3>9. Whole(Front) => Whole(Front')
      BY <3>3, <3>7, <3>8, WholeJoined
    <3>10. Whole(slot'.low)
      BY <3>1, Nothing
    <3> QED
      BY <3>1, <3>9, <3>10 DEF Shape, Established
  <2> QED
    BY <1>3, <2>1, <2>2, DirectIs
<1>4. ASSUME NEW v \in Service, Trigger(v) PROVE Shape'
  BY <1>4, ShapeStays, Requested DEF Same, Fields, High, Trigger, Goto, Request, Command, kernel, thread,
     callers
<1>5. ASSUME NEW v \in Service, IncSending(v) PROVE Shape'
  BY <1>5, ShapeStays DEF Same, Fields, High, IncSending, Goto, kernel, thread, callers
<1>6. ASSUME NEW v \in Service, Post(v) PROVE Shape'
  BY <1>6, ShapeStays, Requested DEF Same, Fields, High, Post, Goto, Request, Command, kernel, thread, callers
<1>7. CASE Reserve
  BY <1>7, ShapeIdle DEF Fields, Established, Reserve
<1>8. CASE SetId
  BY <1>8, ShapeIdle DEF Fields, Established, SetId, Slots
<1>9. CASE OpenRequest
  BY <1>9, ShapeStays, Requested DEF Same, Fields, High, OpenRequest, Goto, Request, Command, kernel, thread,
     callers
<1>10. ASSUME NEW c \in Id, Close(c) PROVE Shape'
  BY <1>10, ShapeStays, Requested DEF Same, Fields, High, Close, Request, Command, kernel, thread, callers
<1>11. ASSUME NEW c \in Id, Shutdown(c) PROVE Shape'
  BY <1>11, ShapeStays, Requested DEF Same, Fields, High, Shutdown, Request, Command, kernel, thread, callers
<1>12. ASSUME NEW c \in Id, OnError(c) PROVE Shape'
  BY <1>12, ShapeStays, Requested DEF Same, Fields, High, OnError, Request, Command, kernel, thread, callers
<1>13. CASE OpenDone
  <2>1. /\ pipe # <<>> /\ Head(pipe).op = "O" /\ slot'.id = slot.id /\ wire' = wire /\ at[Owner] # "name"
        /\ tp = "drain" /\ tp' = tp
        /\ slot'.high = slot.high /\ slot'.low = slot.low /\ (slot'.dw = slot.dw \/ slot'.dw = <<>>)
    BY <1>13 DEF OpenDone, CommandDone, SameLists, Lists
  <2>2. slot.type = "reserve" /\ slot.id = last
    BY <2>1, Obeyed DEF Opens, Slots
  <2>3. slot.high = <<>> /\ slot.low = <<>> /\ slot.dw = <<>>
    BY <2>2 DEF Empty, Established
  <2>4. last \in Id => wire[last] = <<>>
    BY <2>2 DEF Quiet, Untold, Unopened, Fresh
  <2>5. Front' = <<>> /\ slot'.low = <<>>
    BY <2>1, <2>2, <2>3, <2>4 DEF Front, Wire, High
  <2> QED
    BY <2>1, <2>5, Nothing DEF Shape
<1>14. CASE SendDone
  <2>1. slot'.type = slot.type /\ tp = "drain" /\ tp' = tp
    BY <1>14 DEF SendDone, CommandDone
  <2>2. CASE Same
    BY <2>1, <2>2, ShapeStays
  <2>3. CASE ~Same
    <3>1. PICK m \in 1 .. Len(box) :
              /\ m \in Nat /\ slot'.id = slot.id /\ wire' = wire
              /\ \/ High' = High \o Parts(m) /\ slot'.low = slot.low
                 \/ High' = High /\ slot'.low = slot.low \o Parts(m)
      BY <1>14, <2>3, SendDoneIs, Zenon
    <3>2. PICK w, h, l, p : w = Wire /\ h = High /\ l = slot.low /\ p = Parts(m)
      OBVIOUS
    <3>3. w \in Seq(Part) /\ h \in Seq(Part) /\ l \in Seq(Part) /\ p \in Seq(Part) /\ w \o h \in Seq(Part) /\ Whole(p)
      BY <3>1, <3>2, PartsOf, Lasts DEF Front
    <3>4. Wire' = w
      BY <3>1, <3>2 DEF Wire
    <3>5. CASE slot.type \in Established
      <4>1. Whole(w \o h) /\ Whole(l)
        BY <2>1, <3>2, <3>5 DEF Shape, Front
      <4>2. (w \o h) \o p = w \o (h \o p)
        <5>1. w \in Seq(Part) /\ h \in Seq(Part) /\ p \in Seq(Part)
          BY <3>3
        <5> QED
          BY ONLY <5>1, Associative
      <4>3. Whole((w \o h) \o p) /\ Whole(l \o p)
        BY <3>3, <4>1, WholeJoined
      <4>4. CASE High' = High \o Parts(m) /\ slot'.low = slot.low
        <5>1. Front' = (w \o h) \o p
          BY <3>2, <3>4, <4>2, <4>4, Zenon DEF Front
        <5> QED
          BY <2>1, <3>2, <4>1, <4>3, <4>4, <5>1 DEF Shape
      <4>5. CASE High' = High /\ slot'.low = slot.low \o Parts(m)
        <5>1. Front' = w \o h
          BY <3>2, <3>4, <4>5, Zenon DEF Front
        <5> QED
          BY <2>1, <3>2, <4>1, <4>3, <4>5, <5>1 DEF Shape
      <4> QED
        BY <3>1, <4>4, <4>5
    <3>6. CASE slot.type \notin Established
      BY <2>1, <3>6, ShapeIdle
    <3> QED
      BY <3>5, <3>6
  <2> QED
    BY <2>2, <2>3
<1>15. CASE TriggerWrite
  BY <1>15, ShapeStays, Obeyed DEF Same, Fields, High, TriggerWrite, Cmd, kernel, thread, callers
<1>16. CASE CloseDone
  <2>0. PICK c : c = Head(pipe).id
    OBVIOUS
  <2>1. /\ tp = "drain" /\ pipe # <<>> /\ Head(pipe).op = "K" /\ at[Owner] # "name" /\ wire' = wire /\ net' = net
        /\ slot'.id = slot.id /\ asked' = asked
    BY <1>16 DEF CloseDone, CommandDone, Named
  <2>2. CASE Invalid(c) /\ UNCHANGED <<slot, tp, told>>
    BY <2>1, <2>2, ShapeStays DEF Same, High
  <2>3. CASE /\ ~Invalid(c) /\ (Head(pipe).m = 1 \/ NoMoreSending)
             /\ slot'.type = slot.type /\ Lists(<<>>, <<>>, slot.dw) /\ tp' = "closing"
    <3>1. ASSUME slot'.type = "connected", net'.st # "dead" PROVE asked'[slot'.id].shut \/ Whole(Front')
      <4>1. slot.id = c /\ slot.type = "connected"
        BY <2>3, <3>1 DEF Invalid
      <4>2. CASE Head(pipe).m = 1
        BY <2>0, <2>1, <3>1, <4>1, <4>2, Obeyed DEF Deaths, Feared, Alive, Established
      <4>3. CASE NoMoreSending
        <5>1. slot.high = <<>> /\ slot.dw = <<>> /\ slot'.high = <<>> /\ slot'.dw = <<>>
          BY <2>3, <4>1, <4>3 DEF NoMoreSending, ListsEmpty, Lists
        <5>2. Front' = Front
          BY <2>1, <5>1 DEF Front, Wire, High
        <5> QED
          BY <2>1, <4>1, <5>2 DEF Shape, Established
      <4> QED
        BY <2>3, <4>2, <4>3
    <3> QED
      BY <2>3, <3>1 DEF Shape
  <2>4. CASE ~Invalid(c) /\ slot'.type = "halfread" /\ SameLists /\ tp' = tp
    <3>1. slot.type \in Established
      BY <2>0, <2>1, <2>4, Opened
    <3> QED
      BY <2>1, <2>4, <3>1, SameHigh, ShapeStays DEF Same
  <2> QED
    BY <1>16, <2>0, <2>2, <2>3, <2>4, Zenon DEF CloseDone
<1>17. CASE Drained
  BY <1>17, ShapeStays DEF Same, Fields, High, Drained, kernel, thread, callers
<1>18. CASE CloseSlotDone
  BY <1>18, ShapeIdle DEF Fields, Established, CloseSlotDone
<1>19. CASE Poll
  BY <1>19, ShapeStays DEF Same, Fields, High, Poll, Ready, kernel, thread, callers
<1>20. ASSUME EventDone, NEW what \in {"none", "data", "err"}, Still(what) PROVE Shape'
  <2>1. Same /\ slot'.type = slot.type /\ tp # "closing" /\ tp' # "closing"
    BY <1>20, SameHigh DEF EventDone, Kept, Named, Still, NextOf, Handling, Same
  <2> QED
    BY <2>1, ShapeStays
<1>21. ASSUME EventDone, Opening PROVE Shape'
  <2>1. /\ slot.type = "connecting" /\ slot'.id = slot.id /\ wire' = wire /\ High' = High /\ slot'.low = slot.low
        /\ tp' # "closing"
    BY <1>21, SameHigh DEF EventDone, Kept, Named, Opening, NextOf, Handling
  <2>2. slot.id \in Id /\ slot.id = last
    BY <2>1, IdUsed
  <2>3. wire[slot.id] = <<>> /\ High = <<>> /\ slot.low = <<>>
    BY <2>1, <2>2 DEF Quiet, Untold, Unopened, Empty, Established, High
  <2>4. Front' = <<>>
    BY <2>1, <2>3 DEF Front, Wire
  <2> QED
    BY <2>1, <2>3, <2>4, Nothing DEF Shape
<1>22. ASSUME EventDone, Dropping PROVE Shape'
  <2>1. tp' = "closing" /\ slot'.type = slot.type /\ net' = net
    BY <1>22 DEF Dropping
  <2>2. slot.type = "connected" => net.st = "dead"
    BY <1>22 DEF Dropping, Closings, Deaths, Dead, Established
  <2> QED
    BY <2>1, <2>2 DEF Shape
<1>23. ASSUME EventDone, Halved PROVE Shape'
  <2>1. Same /\ slot.type \in Established /\ tp # "closing" /\ tp' # "closing"
    BY <1>23, SameHigh DEF EventDone, Kept, Named, Halved, NextOf, Handling, Same, Established
  <2> QED
    BY <2>1, ShapeStays
<1>24. ASSUME EventDone, WroteAll PROVE Shape'
  <2>0. PICK s : s = Stream
    OBVIOUS
  <2>1. /\ slot.type \in Established /\ wire' = [wire EXCEPT ![slot.id] = @ \o Unsent]
        /\ slot'.high = <<>> /\ slot'.low = <<>> /\ slot'.dw = <<>> /\ slot'.id = slot.id
        /\ tp # "closing" /\ tp' # "closing"
    BY <1>24 DEF EventDone, Kept, Named, WroteAll, Lists, NextOf, Handling
  <2>2. slot.id \in Id
    BY <2>1, IdUsed DEF Established
  <2>3. Wire' = Wire \o Unsent
    BY <2>1, <2>2, Lasts, Extended DEF Wire
  <2>4. Front' = s /\ s \in Seq(Part)
    BY <2>0, <2>1, <2>3, Lasts, Nothing, Zenon DEF Front, High
  <2>5. Whole(s)
    <3>1. Whole(Front) /\ Whole(slot.low)
      BY <2>1 DEF Shape
    <3> QED
      BY <2>0, <3>1, Lasts, WholeJoined DEF Stream
  <2> QED
    BY <2>1, <2>4, <2>5, Nothing DEF Shape
<1>25. ASSUME EventDone, NEW k \in 1 .. Len(Unsent) - 1, WroteSome(k) PROVE Shape'
  <2>0. PICK w, s : w = Wire /\ s = Stream
    OBVIOUS
  <2>1. /\ slot.type \in Established /\ wire' = [wire EXCEPT ![slot.id] = @ \o SubSeq(Unsent, 1, k)]
        /\ slot' = Written(k) /\ slot'.id = slot.id /\ tp # "closing" /\ tp' # "closing"
    BY <1>25 DEF EventDone, Kept, Named, WroteSome, NextOf, Handling
  <2>2. slot.id \in Id /\ w \in Seq(Part)
    BY <2>0, <2>1, IdUsed, Lasts DEF Established
  <2>3. Whole(w \o High) /\ Whole(slot.low)
    BY <2>0, <2>1 DEF Shape, Front
  <2>4. PICK v : v = w \o SubSeq(Unsent, 1, k)
    OBVIOUS
  <2>5. slot'.dw = <<>> /\ slot'.high \in Seq(Part) /\ Whole(v \o slot'.high) /\ Whole(slot'.low)
    <3>1. slot.dw \in Seq(Part) /\ slot.high \in Seq(Part) /\ slot.low \in Seq(Part)
      BY QueueTypes
    <3> QED
      BY <2>1, <2>2, <2>3, <2>4, <3>1, WrittenKeeps, Zenon
  <2>6. Wire' = v
    <3>1. SubSeq(Unsent, 1, k) \in Seq(Part)
      <4>1. Unsent \in Seq(Part)
        BY Lasts
      <4>2. k \in 0 .. Len(Unsent)
        OBVIOUS
      <4> QED
        BY <4>1, <4>2, Cut
    <3> QED
      BY <2>0, <2>1, <2>2, <2>4, <3>1, Extended DEF Wire
  <2>7. Front' = v \o slot'.high
    BY <2>5, <2>6, Nothing, Zenon DEF Front, High
  <2> QED
    BY <2>1, <2>5, <2>7 DEF Shape
<1>26. ASSUME EventDone, Broken PROVE Shape'
  <2>1. slot'.id = slot.id /\ wire' = wire /\ slot.type \in Established /\ tp # "closing" /\ tp' # "closing"
    BY <1>26 DEF EventDone, Kept, Named, Broken, NextOf, Handling
  <2>2. CASE slot'.type = "invalid"
    BY <2>2, ShapeIdle DEF Established
  <2>3. CASE Lists(High, slot.low, <<>>)
    <3>1. High' = High /\ slot'.low = slot.low
      BY <2>3, QueueTypes, Nothing, Zenon DEF Lists, High
    <3> QED
      BY <2>1, <3>1, ShapeStays DEF Same
  <2> QED
    BY <1>26, <2>2, <2>3, Zenon DEF Broken
<1>27. CASE Connected \/ PeerData \/ PeerFin
  BY <1>27, ShapeStays DEF Same, Fields, High, Connected, PeerData, PeerFin, Peer, kernel, thread, callers
<1>28. CASE Reset
  BY <1>28, ShapeStays DEF Same, Fields, High, Reset, kernel, thread, callers
<1>29. CASE UNCHANGED vars
  BY <1>29, ShapeStays DEF Same, Fields, High, vars, kernel, thread, callers
<1> QED
  BY <1>1, <1>2, <1>3, <1>4, <1>5, <1>6, <1>7, <1>8, <1>9, <1>10, <1>11, <1>12, <1>13, <1>14, <1>15, <1>16,
     <1>17, <1>18, <1>19, <1>20, <1>21, <1>22, <1>23, <1>24, <1>25, <1>26, <1>27, <1>28, <1>29, Steps
     DEF StepOf

(* The wire of the slot is the beginning of what flows.                    *)
LEMMA WireKept ==
  ASSUME Queues', slot'.id \in Id, Flowing
  PROVE  \A w, c : w = wire'[slot'.id] /\ c = slot'.id => Ordered(w)' /\ InBox(w, c)'
<1> SUFFICES ASSUME NEW w, NEW c, w = wire'[slot'.id], c = slot'.id PROVE Ordered(w)' /\ InBox(w, c)'
  OBVIOUS
<1>1. PICK h, l, s : h = High' /\ l = slot'.low /\ s = Stream'
  OBVIOUS
<1>2. w \in Seq(Part) /\ h \in Seq(Part) /\ l \in Seq(Part)
  BY <1>1 DEF Queues, High
<1>3. s = (w \o h) \o l
  BY <1>1, Zenon DEF Stream, Front, Wire
<1>4. \A j \in 1 .. Len(w) : j \in 1 .. Len(s) /\ s[j] = w[j]
  <2>1. PICK f : f = w \o h
    OBVIOUS
  <2>2. f \in Seq(Part) /\ Len(f) = Len(w) + Len(h) /\ Len(w) \in Nat /\ Len(h) \in Nat /\ \A j \in 1 .. Len(w) : f[j] = w[j]
    BY <1>2, <2>1, Joined
  <2>3. f \in Seq(Part) /\ l \in Seq(Part) /\ s = f \o l
    BY <1>2, <1>3, <2>1, <2>2
  <2>4. Len(s) = Len(f) + Len(l) /\ \A j \in 1 .. Len(f) : s[j] = f[j]
    BY ONLY <2>3, Joined
  <2>5. Len(l) \in Nat
    BY <1>2
  <2> QED
    BY <2>2, <2>4, <2>5
<1>5. Ordered(s)' /\ InBox(s, c)'
  <2>1. Ordered(s)'
    BY <1>1 DEF Flowing, Ordered, Follows
  <2>2. InBox(s, c)'
    BY <1>1 DEF Flowing, InBox
  <2> QED
    BY <2>1, <2>2
<1>6. Ordered(w)'
  BY <1>4, <1>5 DEF Ordered, Follows
<1>7. InBox(w, c)'
  BY <1>4, <1>5 DEF InBox
<1> QED
  BY <1>6, <1>7

(* Every step keeps what is on the wires.                                  *)
LEMMA NextWires ==
  ASSUME Fields, TypeOK, Slots, Opens, Empty, Jobs, Quiet, Sending, Streams, [Next]_vars
  PROVE  Wires'
<1>1. ASSUME NEW c \in Id, wire'[c] = wire[c]
      PROVE /\ Begun(wire'[c]) /\ (asked'[c].shut \/ Unbroken(wire'[c]))
            /\ \A w : w = wire'[c] => Ordered(w)' /\ InBox(w, c)'
  <2>1. Begun(wire[c]) /\ Ordered(wire[c]) /\ InBox(wire[c], c) /\ (asked[c].shut \/ Unbroken(wire[c]))
    BY DEF Streams, Wires
  <2>2. asked[c].shut => asked'[c].shut
    BY Shuts
  <2>3. ASSUME NEW w, w = wire'[c] PROVE Ordered(w)' /\ InBox(w, c)'
    <3>1. Ordered(w) /\ InBox(w, c)
      BY <1>1, <2>1, <2>3
    <3> QED
      BY <3>1, KeepsOrder
  <2> QED
    BY <1>1, <2>1, <2>2, <2>3
<1>2. ASSUME \A c \in Id : /\ Begun(wire'[c]) /\ (asked'[c].shut \/ Unbroken(wire'[c]))
                           /\ \A w : w = wire'[c] => Ordered(w)' /\ InBox(w, c)'
      PROVE  Wires'
  <2> SUFFICES ASSUME NEW c \in Id
               PROVE  (/\ Begun(wire[c]) /\ Ordered(wire[c]) /\ InBox(wire[c], c)
                       /\ asked[c].shut \/ Unbroken(wire[c]))'
    BY DEF Wires
  <2>1. PICK w : w = wire'[c]
    OBVIOUS
  <2>2. Begun(w) /\ (asked'[c].shut \/ Unbroken(w)) /\ Ordered(w)' /\ InBox(w, c)'
    BY <1>2, <2>1
  <2>3. Begun(wire[c])'
    BY ONLY <2>1, <2>2 DEF Begun, Before
  <2>5. Unbroken(w) => Unbroken(wire[c])'
    BY ONLY <2>1 DEF Unbroken, Before
  <2>4. Ordered(wire[c])' /\ InBox(wire[c], c)'
    BY <2>1, <2>2 DEF Ordered, Follows, InBox
  <2> QED
    BY <2>2, <2>3, <2>4, <2>5
<1>3. CASE wire' = wire
  BY <1>1, <1>2, <1>3
<1>4. ASSUME slot.id \in Id, slot'.id = slot.id, NEW a \in Seq(Part), wire' = [wire EXCEPT ![slot.id] = @ \o a],
             Begun(Wire \o a), asked[slot.id].shut \/ Unbroken(Wire \o a)
      PROVE  Wires'
  <2>1. \A d \in Id : wire'[d] = IF d = slot.id THEN wire[d] \o a ELSE wire[d]
    BY <1>4, Extended
  <2>2. ASSUME NEW c \in Id
        PROVE  /\ Begun(wire'[c]) /\ (asked'[c].shut \/ Unbroken(wire'[c]))
               /\ \A w : w = wire'[c] => Ordered(w)' /\ InBox(w, c)'
    <3>1. CASE c # slot.id
      BY <1>1, <2>1, <3>1
    <3>2. CASE c = slot.id
      <4>1. wire'[c] = Wire \o a
        BY <1>4, <2>1, <3>2 DEF Wire
      <4>2. asked[c].shut => asked'[c].shut
        BY Shuts
      <4>3. \A w : w = wire'[c] => Ordered(w)' /\ InBox(w, c)'
        BY <1>4, <3>2, WireKept, NextQueues, NextFlowing
      <4> QED
        BY <1>4, <3>2, <4>1, <4>2, <4>3
    <3> QED
      BY <3>1, <3>2
  <2> QED
    BY <1>2, <2>2
<1>5. ASSUME NEW v \in Service, DirectDone(v) PROVE Wires'
  <2>1. ASSUME NEW k \in 0 .. Units, Direct(v, k) PROVE Wires'
    <3>0. PICK m, a, b, w : m = job[v] /\ a = SubSeq(Parts(m), 1, k) /\ b = SubSeq(Parts(m), k + 1, Units) /\ w = Wire
      OBVIOUS
    <3>1. /\ m \in 1 .. Len(box) /\ slot.id \in Id /\ slot'.id = slot.id
          /\ slot.type = "connected" /\ High = <<>> /\ (k # 0 => net.st = "up")
          /\ wire' = [wire EXCEPT ![slot.id] = @ \o a]
      BY <2>1, <3>0, Zenon DEF Direct
    <3>2. m \in Nat
      BY <3>1
    <3>3. a \in Seq(Part) /\ b \in Seq(Part) /\ a \o b = Parts(m) /\ Parts(m) \in Seq(Part) /\ Whole(Parts(m)) /\ w \in Seq(Part)
      BY <3>0, <3>2, Slices, PartsOf, Lasts, Zenon
    <3>4. Begun(w) /\ (asked[slot.id].shut \/ Unbroken(w))
      BY <3>0, <3>1 DEF Streams, Wires, Wire
    <3>5. Begun(w \o a)
      <4>1. Begun(a \o b)
        BY <3>3, WholeBegun
      <4>2. Begun(a)
        BY <3>3, <4>1, BegunFirst
      <4> QED
        BY <3>3, <3>4, <4>2, BegunJoined
    <3>6. asked[slot.id].shut \/ Unbroken(w \o a)
      <4>1. CASE k = 0
        <5>1. Len(a) = 0
          BY <3>0, <4>1, PartsOf, <3>2
        <5>2. w \o a = w
          BY <3>3, <5>1
        <5> QED
          BY <3>4, <5>2
      <4>2. CASE Whole(w)
        <5>1. (w \o a) \o b = w \o (a \o b)
          <6>1. w \in Seq(Part) /\ a \in Seq(Part) /\ b \in Seq(Part)
            BY <3>3
          <6> QED
            BY ONLY <6>1, Associative
        <5>2. w \o a \in Seq(Part) /\ w \o Parts(m) \in Seq(Part)
          BY <3>3
        <5>3. Whole(w \o Parts(m))
          BY <3>3, <4>2, WholeJoined
        <5>4. Unbroken(w \o Parts(m))
          BY <5>2, <5>3, WholeBegun
        <5>5. Unbroken((w \o a) \o b)
          BY <3>3, <5>1, <5>4
        <5> QED
          BY <3>3, <5>2, <5>5, BegunFirst
      <4>3. CASE k # 0
        <5>1. Front = w
          BY <3>0, <3>1, <3>3, Nothing, Zenon DEF Front
        <5>2. asked[slot.id].shut \/ Whole(Front)
          BY <3>1, <4>3 DEF Streams, Shape, Established
        <5> QED
          BY <4>2, <5>1, <5>2
      <4> QED
        BY <4>1, <4>3
    <3> QED
      BY <1>4, <3>0, <3>1, <3>3, <3>5, <3>6
  <2>2. CASE Same
    BY <1>3, <2>2 DEF Same
  <2> QED
    BY <1>5, <2>1, <2>2, DirectIs
<1>6. CASE EventDone /\ WroteAll
  <2>1. /\ slot.type \in Established /\ wire' = [wire EXCEPT ![slot.id] = @ \o Unsent] /\ slot'.id = slot.id /\ tp # "closing"
    BY <1>6 DEF EventDone, Kept, Named, WroteAll
  <2>2. slot.id \in Id
    BY <2>1, IdUsed DEF Established
  <2>3. Whole(Stream)
    <3>1. Whole(Front) /\ Whole(slot.low)
      BY <2>1 DEF Streams, Shape
    <3> QED
      BY <3>1, Lasts, WholeJoined DEF Stream
  <2>4. Begun(Wire \o Unsent) /\ Unbroken(Wire \o Unsent) /\ Unsent \in Seq(Part)
    BY <2>3, Lasts, WholeBegun, Zenon
  <2> QED
    BY <1>4, <2>1, <2>2, <2>4
<1>7. ASSUME NEW k \in 1 .. Len(Unsent) - 1, EventDone, WroteSome(k) PROVE Wires'
  <2>0. PICK w, a, v : w = Wire /\ a = SubSeq(Unsent, 1, k) /\ v = w \o a
    OBVIOUS
  <2>1. /\ slot.type \in Established /\ wire' = [wire EXCEPT ![slot.id] = @ \o a]
        /\ slot' = Written(k) /\ slot'.id = slot.id /\ tp # "closing"
    BY <1>7, <2>0 DEF EventDone, Kept, Named, WroteSome
  <2>2. slot.id \in Id /\ w \in Seq(Part)
    BY <2>0, <2>1, IdUsed, Lasts DEF Established
  <2>3. Whole(w \o High) /\ Whole(slot.low)
    BY <2>0, <2>1 DEF Streams, Shape, Front
  <2>4. v \in Seq(Part) /\ slot'.high \in Seq(Part) /\ Whole(v \o slot'.high)
    <3>1. slot.dw \in Seq(Part) /\ slot.high \in Seq(Part) /\ slot.low \in Seq(Part)
      BY QueueTypes
    <3> QED
      BY <2>0, <2>1, <2>2, <2>3, <3>1, WrittenKeeps, Zenon
  <2>5. a \in Seq(Part)
    <3>1. Unsent \in Seq(Part)
      BY Lasts
    <3>2. k \in 0 .. Len(Unsent)
      OBVIOUS
    <3> QED
      BY <2>0, <3>1, <3>2, Cut
  <2>6. Begun(v) /\ Unbroken(v)
    <3> DEFINE x == slot'.high
    <3>1. x \in Seq(Part) /\ v \o x \in Seq(Part) /\ Whole(v \o x)
      BY <2>4
    <3> HIDE DEF x
    <3>2. Begun(v \o x) /\ Unbroken(v \o x)
      BY <3>1, WholeBegun
    <3> QED
      BY <2>4, <3>1, <3>2, BegunFirst
  <2> QED
    BY <1>4, <2>0, <2>1, <2>2, <2>5, <2>6
<1>8. CASE Same \/ Cuts \/ SetId \/ OpenDone \/ SendDone
  BY <1>3, <1>8 DEF Same, Cuts, SetId, OpenDone, SendDone, CommandDone, kernel
<1> QED
  BY <1>5, <1>6, <1>7, <1>8, Flows DEF FlowStep

(* All of this together.                                                   *)
LEMMA NextStreams ==
  ASSUME Fields, TypeOK, Slots, Opens, Empty, Jobs, Quiet, Closings, Deaths, Sending, Streams, [Next]_vars
  PROVE  Streams'
<1>1. Shape'
  BY NextShape DEF Streams
<1> QED
  BY <1>1, NextWires, NextFlowing DEF Streams, Flowing, Lowly

(* The fields of the records but the event.                                *)
Domains ==
  /\ DOMAIN slot = {"type", "id", "tcp", "closing", "reading", "writing", "high", "low", "dw", "tag", "sending"}
  /\ DOMAIN net = {"st", "err", "data", "fin"} /\ net.err \in BOOLEAN
  /\ DOMAIN result = {"what", "next", "cmd"}
  /\ DOMAIN told = Id /\ \A c \in Id : DOMAIN told[c] = {"open", "closes", "err", "late", "died", "bare"}
  /\ DOMAIN asked = Id /\ \A c \in Id : DOMAIN asked[c] = {"close", "shut", "due"}

(* The fields of the event.                                                *)
Flags ==
  /\ DOMAIN event = {"read", "write", "error", "eof"}
  /\ event = [read |-> event.read, write |-> event.write, error |-> event.error, eof |-> event.eof]
  /\ event.read \in BOOLEAN /\ event.write \in BOOLEAN /\ event.error \in BOOLEAN /\ event.eof \in BOOLEAN

(* Every step keeps the fields of the event.                               *)
LEMMA NextFlags ==
  ASSUME Flags, net.err \in BOOLEAN, [Next]_vars
  PROVE  Flags'
<1>1. event' = event \/ event' = NoEvent \/ event' \in Ready \/ event' = [event EXCEPT !.read = FALSE]
  <2>1. CASE SocketThread
    <3>1. CASE OpenSocket \/ SendSocket \/ TriggerWrite \/ CloseSocket \/ Drained \/ CloseSlot \/ Poll
      BY <3>1 DEF OpenSocket, SendSocket, TriggerWrite, CloseSocket, Drained, CloseSlot, Poll, thread
    <3>2. CASE ReportConnect \/ InvalidSocket \/ ReadMore \/ ReadEnd
      BY <3>2 DEF ReportConnect, InvalidSocket, ReadMore, ReadEnd, Report, ReportRead, Retry
    <3>3. CASE SendBlocked \/ SendAll \/ SendSome \/ CloseWrite \/ EventError \/ EventEof
      BY <3>3 DEF SendBlocked, SendAll, SendSome, CloseWrite, EventError, EventEof, Report
    <3> QED
      BY <2>1, <3>1, <3>2, <3>3 DEF SocketThread
  <2>2. CASE Environment
    BY <2>2 DEF Environment, Connected, PeerData, PeerFin, Reset, Peer, thread
  <2>3. CASE Reserve \/ (\E c \in Id : Close(c) \/ Shutdown(c))
    <3>1. CASE Reserve
      BY <3>1 DEF Reserve, thread
    <3>2. CASE \E c \in Id : Close(c) \/ Shutdown(c)
      BY <3>2 DEF Close, Shutdown, thread
    <3> QED
      BY <2>3, <3>1, <3>2
  <2>4. ASSUME NEW v \in Service, Caller(v) \/ (\E c \in Id : Send(v, c)) PROVE event' = event
    <3>1. CASE TryLock(v) \/ DirectWrite(v)
      BY <3>1, Zenon DEF TryLock, DirectWrite, thread
    <3>2. CASE Trigger(v) \/ IncSending(v) \/ Post(v)
      BY <3>2 DEF Trigger, IncSending, Post, thread
    <3>3. CASE SetId \/ OpenRequest
      BY <3>3 DEF SetId, OpenRequest, thread
    <3>4. CASE \E c \in Id : OnError(c)
      BY <3>4 DEF OnError, thread
    <3>5. CASE \E c \in Id : Send(v, c)
      BY <3>5 DEF Send, thread
    <3> QED
      BY <2>4, <3>1, <3>2, <3>3, <3>4, <3>5 DEF Caller
  <2>5. CASE UNCHANGED vars
    BY <2>5 DEF vars, thread
  <2> QED
    BY <2>1, <2>2, <2>3, <2>4, <2>5 DEF Next
<1>2. ASSUME event' \in Ready PROVE Flags'
  <2>0. \A X, Y, Z, W : X \subseteq BOOLEAN /\ Y \subseteq BOOLEAN /\ Z \subseteq BOOLEAN /\ W \subseteq BOOLEAN =>
          \A d \in [read : X, write : Y, error : Z, eof : W] :
            \E r, w, e, x \in BOOLEAN : d = [read |-> r, write |-> w, error |-> e, eof |-> x]
    OBVIOUS
  <2>a. {slot.reading /\ (net.data = "unread" \/ net.fin \/ net.st = "dead")} \subseteq BOOLEAN
    BY Zenon
  <2>b. (IF slot.writing /\ net.st = "dead" THEN {TRUE} ELSE {FALSE, slot.writing /\ net.st = "up"}) \subseteq BOOLEAN
    BY Zenon
  <2>c. {net.err} \subseteq BOOLEAN
    OBVIOUS
  <2>d. {net.st = "dead" \/ (net.fin /\ slot.type = "halfwrite")} \subseteq BOOLEAN
    BY Zenon
  <2>1. PICK r \in BOOLEAN, w \in BOOLEAN, e \in BOOLEAN, x \in BOOLEAN : event' = [read |-> r, write |-> w, error |-> e, eof |-> x]
    BY <1>2, <2>0, <2>a, <2>b, <2>c, <2>d, Zenon DEF Ready
  <2> QED
    BY <2>1 DEF Flags
<1>3. ASSUME event' = [event EXCEPT !.read = FALSE] PROVE Flags'
  BY <1>3 DEF Flags
<1> QED
  <2>1. CASE event' = NoEvent
    BY <2>1 DEF Flags, NoEvent
  <2>2. CASE event' = event
    BY <2>2 DEF Flags
  <2> QED
    BY <1>1, <1>2, <1>3, <2>1, <2>2

(* Every step keeps the fields of the other records.                       *)
LEMMA NextDomains ==
  ASSUME Domains, [Next]_vars
  PROVE  Domains'
<1> USE Parameters DEF Domains, NoNet
<1>0. \A c, what : Tell(c, what) => /\ DOMAIN told' = Id
                                     /\ \A d \in Id : DOMAIN told'[d] = {"open", "closes", "err", "late", "died", "bare"}
  BY DEF Domains, Tell
<1>1. ASSUME NEW v \in Service, NEW c \in Id, Send(v, c) PROVE Domains'
  BY <1>1 DEF Send, Goto, kernel, thread, callers
<1>2. ASSUME NEW v \in Service, TryLock(v) PROVE Domains'
  BY <1>2 DEF TryLock, Goto, kernel, thread, callers
<1>3. ASSUME NEW v \in Service, DirectWrite(v) PROVE Domains'
  <2>1. /\ slot' = slot \/ \E d : slot' = [slot EXCEPT !.dw = d]
        /\ net' = net \/ net' = [net EXCEPT !.err = FALSE]
        /\ UNCHANGED <<result, told, asked>>
    <3>0. UNCHANGED <<thread, told, asked>>
      BY <1>3, Zenon DEF DirectWrite
    <3>1. CASE UNCHANGED <<slot, kernel>>
      BY <3>0, <3>1 DEF kernel, thread
    <3>2. CASE ~UNCHANGED <<slot, kernel>>
      BY <1>3, <3>2, Zenon DEF DirectWrite, thread
    <3> QED
      BY <3>1, <3>2
  <2>2. DOMAIN slot' = DOMAIN slot
    BY <2>1
  <2>3. DOMAIN net' = DOMAIN net /\ net'.err \in BOOLEAN
    BY <2>1
  <2> QED
    BY <2>1, <2>2, <2>3
<1>4. ASSUME NEW v \in Service, Trigger(v) PROVE Domains'
  BY <1>4 DEF Trigger, Goto, Request, Command, kernel, thread, callers
<1>5. ASSUME NEW v \in Service, IncSending(v) PROVE Domains'
  BY <1>5 DEF IncSending, Goto, kernel, thread, callers
<1>6. ASSUME NEW v \in Service, Post(v) PROVE Domains'
  BY <1>6 DEF Post, Goto, Request, Command, kernel, thread, callers
<1>7. CASE Reserve
  BY <1>7 DEF Reserve, Goto, kernel, thread, callers
<1>8. CASE SetId
  BY <1>8 DEF SetId, Goto, kernel, thread, callers
<1>9. CASE OpenRequest
  BY <1>9 DEF OpenRequest, Goto, Request, Command, kernel, thread, callers
<1>10. ASSUME NEW c \in Id, Close(c) PROVE Domains'
  BY <1>10 DEF Close, Request, Command, kernel, thread, callers
<1>11. ASSUME NEW c \in Id, Shutdown(c) PROVE Domains'
  BY <1>11 DEF Shutdown, Request, Command, kernel, thread, callers
<1>12. ASSUME NEW c \in Id, OnError(c) PROVE Domains'
  BY <1>12 DEF OnError, Request, Command, kernel, thread, callers
<1>13. CASE OpenSocket
  BY <1>13, <1>0 DEF OpenSocket, Cmd, kernel, thread, callers
<1>14. CASE SendSocket
  <2>1. \A m : DOMAIN Appended(m) = DOMAIN slot
    BY DEF Appended
  <2>2. UNCHANGED <<net, result, told, asked>>
    BY <1>14 DEF SendSocket, kernel, thread, callers
  <2>3. DOMAIN slot' = DOMAIN slot
    BY <1>14, <2>1 DEF SendSocket
  <2> QED
    BY <2>2, <2>3
<1>15. CASE TriggerWrite
  BY <1>15 DEF TriggerWrite, Cmd, kernel, thread, callers
<1>16. CASE CloseSocket
  <2>1. UNCHANGED <<net, asked>>
    BY <1>16 DEF CloseSocket, kernel, callers
  <2>2. CASE UNCHANGED <<slot, tp, result, told>>
    BY <2>1, <2>2
  <2>3. CASE \E what, cmd : ForceClose(what, cmd)
    BY <2>1, <2>3 DEF ForceClose, Freed
  <2>4. CASE ~UNCHANGED <<slot, tp, result, told>> /\ ~\E what, cmd : ForceClose(what, cmd)
    <3>0. PICK what : what = IF slot.type = "halfread" THEN "none" ELSE "close"
      OBVIOUS
    <3>1. /\ slot' = [slot EXCEPT !.closing = TRUE, !.type = "halfread", !.reading = IF what = "close" THEN FALSE ELSE @]
          /\ told' = [told EXCEPT ![Head(pipe).id].closes = IF what = "close" THEN @ + 1 ELSE @, ![Head(pipe).id].bare = Unsent = <<>>]
          /\ result' = result
      BY <1>16, <2>4, <3>0, Zenon DEF CloseSocket
    <3>2. DOMAIN slot' = DOMAIN slot
      BY <3>1
    <3>3. DOMAIN told' = Id /\ \A c \in Id : DOMAIN told'[c] = DOMAIN told[c]
      BY <3>1
    <3> QED
      BY <2>1, <3>1, <3>2, <3>3
  <2> QED
    BY <2>2, <2>3, <2>4
<1>17. CASE Drained
  BY <1>17 DEF Drained, kernel, thread, callers
<1>18. CASE CloseSlot
  BY <1>18, <1>0 DEF CloseSlot, Closed, Freed, kernel, thread, callers
<1>19. CASE Poll
  BY <1>19 DEF Poll, Ready, kernel, thread, callers
<1>20. CASE ReportConnect
  BY <1>20, <1>0 DEF ReportConnect, Handling, ForceClose, Freed, Report, NextOf, kernel, thread, callers
<1>21. CASE InvalidSocket
  BY <1>21, <1>0 DEF InvalidSocket, Handling, Report, NextOf, kernel, thread, callers
<1>22. CASE ReadMore
  BY <1>22, <1>0 DEF ReadMore, Reading, Handling, Report, ReportRead, Retry, NextOf, kernel, thread, callers
<1>23. CASE ReadEnd
  BY <1>23, <1>0 DEF ReadEnd, Reading, Handling, ForceClose, Freed, Report, ReportRead, Retry, NextOf,
     kernel, thread, callers
<1>24. CASE SendBlocked
  BY <1>24, <1>0 DEF SendBlocked, Writing, Handling, Report, NextOf, kernel, thread, callers
<1>25. CASE SendAll
  <2>1. Tell(slot.id, "none") /\ UNCHANGED <<result, asked>>
    BY <1>25 DEF SendAll, Report, callers
  <2>2. DOMAIN Closed(slot) = DOMAIN slot
    BY DEF Closed, Freed
  <2>3. DOMAIN slot' = DOMAIN slot
    BY <1>25, <2>2 DEF SendAll
  <2>4. net' = net \/ net' = NoNet
    BY <1>25 DEF SendAll
  <2>5. DOMAIN net' = {"st", "err", "data", "fin"} /\ net'.err \in BOOLEAN
    <3>1. CASE net' = NoNet
      BY <3>1
    <3>2. CASE net' = net
      BY <3>2
    <3>3. CASE net' = [net EXCEPT !.err = FALSE]
      BY <3>3
    <3> QED
      BY <2>4, <3>1, <3>2, <3>3
  <2>6. DOMAIN told' = Id /\ \A d \in Id : DOMAIN told'[d] = {"open", "closes", "err", "late", "died", "bare"}
    BY <1>0, <2>1
  <2> QED
    BY <2>1, <2>3, <2>5, <2>6
<1>26. CASE SendSome
  BY <1>26, <1>0 DEF SendSome, Writing, Handling, Written, Unsent, High, Report, NextOf, kernel, thread,
     callers
<1>27. CASE CloseWrite
  <2>1. (\E what : Tell(slot.id, what)) /\ UNCHANGED <<result, asked>>
    BY <1>27 DEF CloseWrite, Report, callers
  <2>2. DOMAIN Closed(slot) = DOMAIN slot
    BY DEF Closed, Freed
  <2>3. DOMAIN slot' = DOMAIN slot
    BY <1>27, <2>2 DEF CloseWrite
  <2>4. net' = net \/ net' = NoNet \/ net' = [net EXCEPT !.err = FALSE]
    BY <1>27 DEF CloseWrite
  <2>5. DOMAIN net' = {"st", "err", "data", "fin"} /\ net'.err \in BOOLEAN
    <3>1. CASE net' = NoNet
      BY <3>1
    <3>2. CASE net' = net
      BY <3>2
    <3>3. CASE net' = [net EXCEPT !.err = FALSE]
      BY <3>3
    <3> QED
      BY <2>4, <3>1, <3>2, <3>3
  <2>6. DOMAIN told' = Id /\ \A d \in Id : DOMAIN told'[d] = {"open", "closes", "err", "late", "died", "bare"}
    BY <1>0, <2>1
  <2> QED
    BY <2>1, <2>3, <2>5, <2>6
<1>28. CASE EventError
  BY <1>28, <1>0 DEF EventError, Ending, Handling, Report, NextOf, kernel, thread, callers
<1>29. CASE EventEof
  BY <1>29 DEF EventEof, Ending, Handling, ForceClose, Freed, NextOf, kernel, thread, callers
<1>30. CASE Environment
  <2>1. CASE Connected
    BY <2>1 DEF Connected, Peer, thread, callers
  <2>2. CASE PeerData
    BY <2>2 DEF PeerData, Peer, thread, callers
  <2>3. CASE PeerFin
    BY <2>3 DEF PeerFin, Peer, thread, callers
  <2>4. CASE Reset
    BY <2>4 DEF Reset, thread, callers
  <2> QED
    BY <1>30, <2>1, <2>2, <2>3, <2>4 DEF Environment
<1>31. CASE UNCHANGED vars
  BY <1>31 DEF vars, kernel, thread, callers
<1> QED
  BY <1>1, <1>2, <1>3, <1>4, <1>5, <1>6, <1>7, <1>8, <1>9, <1>10, <1>11, <1>12, <1>13, <1>14, <1>15, <1>16,
     <1>17, <1>18, <1>19, <1>20, <1>21, <1>22, <1>23, <1>24, <1>25, <1>26, <1>27, <1>28, <1>29, <1>30,
     <1>31 DEF Next, SocketThread, Caller

(* Every step keeps the fields.                                            *)
LEMMA NextFields ==
  ASSUME Fields, [Next]_vars
  PROVE  Fields'
<1>1. Domains /\ Flags
  BY DEF Fields, Domains, Flags
<1>2. Domains' /\ Flags'
  BY <1>1, NextDomains, NextFlags DEF Domains
<1> QED
  BY <1>2 DEF Fields, Domains, Flags

-----------------------------------------------------------------------------
(* The inductive invariant.                                                *)
IInv ==
  /\ Fields /\ TypeOK /\ Slots /\ Opens /\ Empty /\ Jobs /\ Quiet
  /\ Closings /\ Deaths /\ Sending /\ Streams

(* The invariant holds at the beginning.                                   *)
LEMMA InitIInv ==
  ASSUME Init
  PROVE  IInv
<1> USE Parameters
<1>1. /\ slot.type = "invalid" /\ slot.id = 0 /\ slot.tcp = FALSE /\ slot.closing = FALSE
      /\ slot.high = <<>> /\ slot.low = <<>> /\ slot.dw = <<>> /\ slot.tag = 0 /\ slot.sending = 0
  BY DEF Init
<1>2. /\ net.st = "none" /\ net.err = FALSE /\ pipe = <<>> /\ tp = "event" /\ event = NoEvent
      /\ last = 0 /\ box = <<>> /\ result.next = "event" /\ at[Owner] = "idle"
      /\ \A v \in Service : at[v] = "idle" /\ job[v] = 0
  BY DEF Init, NoNet
<1>3. \A c \in Id : /\ wire[c] = <<>> /\ told[c].open = FALSE /\ told[c].closes = 0 /\ told[c].err = FALSE
                    /\ told[c].late = FALSE
  BY DEF Init
<1>4. Len(pipe) = 0 /\ Len(box) = 0
  BY <1>2
<1>5. slot.id \notin Id
  BY <1>1 DEF Id
<1>6. Fields
  <2>1. DOMAIN slot = {"type", "id", "tcp", "closing", "reading", "writing", "high", "low", "dw", "tag", "sending"}
    BY DEF Init
  <2>2. DOMAIN net = {"st", "err", "data", "fin"} /\ net.err \in BOOLEAN
    BY DEF Init, NoNet
  <2>3. /\ DOMAIN event = {"read", "write", "error", "eof"}
        /\ event = [read |-> event.read, write |-> event.write, error |-> event.error, eof |-> event.eof]
        /\ event.read \in BOOLEAN /\ event.write \in BOOLEAN /\ event.error \in BOOLEAN /\ event.eof \in BOOLEAN
    BY DEF Init, NoEvent
  <2>4. DOMAIN result = {"what", "next", "cmd"}
    BY DEF Init
  <2>5. DOMAIN told = Id /\ \A c \in Id : DOMAIN told[c] = {"open", "closes", "err", "late", "died", "bare"}
    BY DEF Init
  <2>6. DOMAIN asked = Id /\ \A c \in Id : DOMAIN asked[c] = {"close", "shut", "due"}
    BY DEF Init
  <2> QED
    BY <2>1, <2>2, <2>3, <2>4, <2>5, <2>6 DEF Fields
<1>7. TypeOK
  <2>1. Values
    BY <1>1, <1>2, <1>3 DEF Values, Types
  <2>2. Queues
    <3>1. wire \in [Id -> Seq(Part)]
      BY DEF Init
    <3> QED
      BY <1>1, <3>1 DEF Queues
  <2>3. Calls
    <3>1. at \in [Service -> Places] /\ job \in [Service -> Nat]
      BY DEF Init, Places
    <3> QED
      BY <1>2, <3>1 DEF Calls
  <2> QED
    BY <2>1, <2>2, <2>3 DEF TypeOK
<1>8. Slots
  BY <1>1, <1>2 DEF Slots, Established
<1>9. Opens /\ Empty /\ Jobs
  BY <1>1, <1>2, <1>4 DEF Opens, Empty, Jobs, Busy
<1>10. Quiet
  BY <1>1, <1>2, <1>3, <1>4, <1>5 DEF Quiet, Untold, Aimed, Linked, Established
<1>11. Closings
  BY <1>1, <1>2, <1>3 DEF Closings
<1>12. Deaths
  BY <1>1, <1>2, <1>3, <1>4, <1>5 DEF Deaths, Dead, Feared, Alive, Established
<1>13. Sending
  BY <1>1 DEF Sending
<1>14. Streams
  <2>1. Stream = <<>> /\ Len(Stream) = 0
    BY <1>1, <1>5 DEF Stream, Front, Wire, High
  <2>2. \A c \in Id : Len(wire[c]) = 0
    BY <1>3
  <2>3. Wires
    BY <2>2 DEF Wires, Begun, Ordered, InBox, Unbroken
  <2>4. Shape
    BY <1>1 DEF Shape, Established
  <2>5. Ordered(Stream) /\ InBox(Stream, slot.id) /\ Later
    BY <2>1 DEF Ordered, InBox, Later
  <2> QED
    BY <1>1, <2>3, <2>4, <2>5 DEF Streams
<1> QED
  BY <1>6, <1>7, <1>8, <1>9, <1>10, <1>11, <1>12, <1>13, <1>14 DEF IInv

(* Every step keeps the invariant.                                         *)
LEMMA NextIInv ==
  ASSUME IInv, [Next]_vars
  PROVE  IInv'
BY NextFields, NextTypeOK, NextSlots, NextOpens, NextEmpty, NextJobs, NextQuiet, NextClosings,
   NextDeaths, NextSending, NextStreams DEF IInv

(* The invariant always holds.                                             *)
LEMMA Invariance == Spec => []IInv
<1>1. Init => IInv
  BY InitIInv
<1>2. IInv /\ [Next]_vars => IInv'
  BY NextIInv
<1> QED
  BY <1>1, <1>2, PTL DEF Spec

(* Every variable keeps its type.                                          *)
THEOREM TypeCorrect == Spec => []TypeOK
<1>1. IInv => TypeOK
  BY DEF IInv
<1> QED
  BY <1>1, Invariance, PTL

(* A peer gets what was sent to it, in order.                              *)
LEMMA IInvWire ==
  ASSUME IInv
  PROVE  WireInOrder
<1> SUFFICES ASSUME NEW c \in Id, NEW j \in DOMAIN wire[c],
                    NEW m, NEW i, m = wire[c][j][1], i = wire[c][j][2]
             PROVE  /\ box[m].to = c
                    /\ i > 1 => j > 1 /\ wire[c][j - 1] = <<m, i - 1>>
                    /\ i < Units /\ j < Len(wire[c]) /\ ~asked[c].shut => wire[c][j + 1] = <<m, i + 1>>
                    /\ \A k \in 1 .. j - 1 :
                         LET n == wire[c][k][1] IN
                         box[n].by = box[m].by => n <= m \/ (m \in Low /\ n \notin Low) \/ asked[c].shut
  BY DEF WireInOrder
<1> USE Parameters
<1>1. PICK s : s = wire[c]
  OBVIOUS
<1>2. s \in Seq(Part)
  BY <1>1 DEF IInv, TypeOK, Queues
<1>3. j \in 1 .. Len(s) /\ Len(s) \in Nat
  BY <1>1, <1>2
<1>4. m \in Nat /\ i \in 1 .. Units /\ Before(s, j) = j - i
  BY <1>1, <1>2, <1>3, PartAt DEF Before
<1>a. i \in Nat /\ i >= 1 /\ i <= Units /\ Units \in Nat /\ j \in Nat /\ j >= 1 /\ j <= Len(s)
  BY ONLY <1>3, <1>4, Parameters
<1>5. Begun(s) /\ Ordered(s) /\ InBox(s, c) /\ (asked[c].shut \/ Unbroken(s))
  BY <1>1 DEF IInv, Streams, Wires
<1>6. box[m].to = c
  BY <1>1, <1>3, <1>5 DEF InBox
<1>7. ASSUME i > 1 PROVE j > 1 /\ s[j - 1] = <<m, i - 1>>
  <2>1. j - i >= 0 /\ \A h \in 1 .. j - (j - i) : s[j - i + h] = <<m, h>>
    BY <1>1, <1>3, <1>4, <1>5, Zenon DEF Begun
  <2>a. j - i >= 0
    BY <2>1
  <2>2. i - 1 \in 1 .. j - (j - i) /\ j - i + (i - 1) = j - 1 /\ j > 1
    BY ONLY <1>a, <2>a, i > 1
  <2> QED
    BY <2>1, <2>2
<1>8. ASSUME i < Units, j < Len(s), ~asked[c].shut PROVE s[j + 1] = <<m, i + 1>>
  <2>1. \A h \in 1 .. Units : j - i + h \in 1 .. Len(s) => s[j - i + h] = <<m, h>>
    BY <1>1, <1>3, <1>4, <1>5, <1>8, Zenon DEF Unbroken
  <2>2. i + 1 \in 1 .. Units /\ j - i + (i + 1) = j + 1 /\ j + 1 \in 1 .. Len(s)
    BY ONLY <1>3, <1>a, i < Units, j < Len(s)
  <2> QED
    BY <2>1, <2>2
<1>9. ASSUME NEW k \in 1 .. j - 1, NEW n, n = s[k][1], box[n].by = box[m].by
      PROVE  n <= m \/ (m \in Low /\ n \notin Low)
  <2>1. k \in 1 .. Len(s) /\ k < j
    BY <1>3
  <2> QED
    BY <1>1, <1>3, <1>5, <1>9, <2>1 DEF Ordered, Follows
<1> QED
  BY <1>1, <1>6, <1>7, <1>8, <1>9

(* A peer gets only what was sent to it, each part once and in order, and  *)
(* the messages of a service in its order, although they were written by   *)
(* the service or by the socket thread, from dw_buffer or from either list.*)
THEOREM PeersGetTheirOrder == Spec => []WireInOrder
<1>1. IInv => WireInOrder
  BY IInvWire
<1> QED
  BY <1>1, Invariance, PTL

(* The invariant implies the assertions.                                   *)
LEMMA IInvAsserts ==
  ASSUME IInv
  PROVE  Asserts
<1> USE Parameters
<1>0. /\ Fields /\ TypeOK /\ Slots /\ Opens /\ Empty /\ Jobs /\ Quiet
      /\ Closings /\ Deaths /\ Sending /\ Streams
  BY DEF IInv
<1>1. ASSUME Cmd({"O"}) PROVE slot.type = "reserve" /\ ListsEmpty
  <2>1. pipe # <<>> /\ Head(pipe).op = "O"
    BY <1>1 DEF Cmd
  <2>2. 1 \in 1 .. Len(pipe) /\ Head(pipe) = pipe[1]
    BY <1>0, <2>1 DEF TypeOK, Calls
  <2>3. slot.type = "reserve"
    BY <1>0, <2>1, <2>2 DEF Opens
  <2> QED
    BY <1>0, <2>3 DEF Empty, Established, ListsEmpty
<1>2. ASSUME Cmd({"D", "P"}), slot.id = Head(pipe).id, slot.tcp PROVE slot.sending > 0
  <2>1. pipe # <<>> /\ Head(pipe).op \in Sends
    BY <1>2 DEF Cmd, Sends
  <2>2. 1 \in 1 .. Len(pipe) /\ Head(pipe) = pipe[1]
    BY <1>0, <2>1 DEF TypeOK, Calls
  <2>3. Head(pipe).m \in Counted
    BY <1>0, <1>2, <2>1, <2>2 DEF Jobs, Counted, Held
  <2>4. IsFiniteSet(Counted) /\ Cardinality(Counted) \in Nat
    BY <1>0, CountedFinite, FS_CardinalityType
  <2>5. Cardinality(Counted) # 0
    BY <2>3, <2>4, FS_EmptySet
  <2> QED
    BY <1>0, <1>2, <2>4, <2>5 DEF Sending
<1>3. ASSUME slot.low # <<>> PROVE Head(slot.low)[2] = 1
  <2>1. PICK l : l = slot.low
    OBVIOUS
  <2>2. slot.type \in Established /\ tp # "closing"
    BY <1>0, <1>3 DEF Empty
  <2>3. l \in Seq(Part) /\ Whole(l)
    BY <1>0, <2>1, <2>2 DEF TypeOK, Queues, Streams, Shape
  <2>4. 1 \in 1 .. Len(l) /\ Head(l) = l[1]
    BY <1>3, <2>1, <2>3
  <2>5. l[1][2] \in 1 .. Units /\ 1 - l[1][2] >= 0
    BY <2>3, <2>4, PartAt DEF Whole, Before
  <2> QED
    BY <2>1, <2>4, <2>5
<1>4. ASSUME Handling, slot.type = "reserve" PROVE FALSE
  BY <1>0, <1>4 DEF Handling, Slots
<1> QED
  BY <1>1, <1>2, <1>3, <1>4 DEF Asserts

(* No assertion of socket_server.c about the slot fails.                   *)
THEOREM NoAssertFails == Spec => []Asserts
<1>1. IInv => Asserts
  BY IInvAsserts
<1> QED
  BY <1>1, Invariance, PTL

(* SOCKET_CLOSE is raised only once, whoever closes first, and nothing is  *)
(* read or opened afterwards.                                              *)
THEOREM ClosesOnlyOnce == Spec => []ClosedOnce
<1>1. IInv => ClosedOnce
  BY DEF IInv, Closings, ClosedOnce
<1> QED
  BY <1>1, Invariance, PTL

-----------------------------------------------------------------------------
(* Closing is graceful.  A list has all parts of a message; a connection   *)
(* that neither died nor was shut down.                                    *)
Through(s, m) == \A i \in 1 .. Units : \E j \in 1 .. Len(s) : s[j] = <<m, i>>
Good(c) == ~asked[c].shut /\ ~told[c].died

(* The messages due when a connection is to be closed are no longer in the *)
(* hands of the services, and before the command to close in the pipe.     *)
Due ==
  \A c \in Id : /\ \A m \in asked[c].due : m \in 1 .. Len(box) /\ box[m].to = c
                /\ \A v \in Service : at[v] \in Busy \cup {"trigger"} => job[v] \notin asked[c].due
Asked ==
  \A k \in 1 .. Len(pipe) : pipe[k].op = "K" /\ pipe[k].m # 1 =>
    /\ asked[pipe[k].id].close
    /\ \A i \in 1 .. Len(pipe) : pipe[i].op \in Sends /\ pipe[i].m \in asked[pipe[k].id].due => i < k

(* No message to a good connection is lost while nobody asked to close it, *)
(* and none that is due afterwards; closing begins when no due message     *)
(* waits, and lists are freed when all of them are on the wire.            *)
Settled(c) == \A m \in asked[c].due : ~Waiting(m)
Safe(c) == \A m \in 1 .. Len(box) : box[m].to = c /\ (asked[c].close => m \in asked[c].due) => Waiting(m) \/ Through(Stream, m)
Closes(c) ==
  /\ slot.closing \/ tp = "closing" => asked[c].close /\ Settled(c)
  /\ tp = "closing" => \A m \in asked[c].due : Through(wire[c], m)
  /\ tp # "closing" => Safe(c)
Gentle == \A c \in Id : Alive(c) /\ Good(c) => Closes(c)

(* A good connection ends only when the owner asked for it, and then all   *)
(* that is due is on the wire.                                             *)
Gone ==
  \A c \in Id : ~Alive(c) /\ Good(c) =>
    /\ told[c].open => asked[c].close
    /\ \A m \in asked[c].due : Through(wire[c], m)

(* What the owner asked: it is remembered, and only Close adds to it.      *)
Remembers ==
  /\ \A c \in Id : told[c].died => told'[c].died
  /\ \A c \in Id : Close(c) \/ (asked'[c].close = asked[c].close /\ asked'[c].due = asked[c].due)

(* Every step remembers.                                                   *)
LEMMA Memory ==
  ASSUME Fields, [Next]_vars
  PROVE  Remembers
<1> USE Parameters
<1>1. ASSUME NEW v \in Service, NEW c \in Id, Send(v, c) PROVE Remembers
  BY <1>1 DEF Remembers, Fields, Send, Goto, kernel, thread, callers
<1>2. ASSUME NEW v \in Service, TryLock(v) PROVE Remembers
  BY <1>2 DEF Remembers, Fields, TryLock, Goto, kernel, thread, callers
<1>3. ASSUME NEW v \in Service, DirectDone(v) PROVE Remembers
  <2>1. asked' = asked /\ told' = told
    BY <1>3, Zenon DEF DirectDone
  <2> QED
    BY <2>1 DEF Remembers
<1>4. ASSUME NEW v \in Service, Trigger(v) PROVE Remembers
  BY <1>4, Requested DEF Remembers, Fields, Trigger, Goto, Request, Command, kernel, thread, callers
<1>5. ASSUME NEW v \in Service, IncSending(v) PROVE Remembers
  BY <1>5 DEF Remembers, Fields, IncSending, Goto, kernel, thread, callers
<1>6. ASSUME NEW v \in Service, Post(v) PROVE Remembers
  BY <1>6, Requested DEF Remembers, Fields, Post, Goto, Request, Command, kernel, thread, callers
<1>7. CASE Reserve
  BY <1>7 DEF Remembers, Fields, Reserve, Goto, kernel, thread, callers
<1>8. CASE SetId
  BY <1>8 DEF Remembers, Fields, SetId, Goto, kernel, thread, callers
<1>9. CASE OpenRequest
  BY <1>9, Requested DEF Remembers, Fields, OpenRequest, Goto, Request, Command, kernel, thread, callers
<1>10. ASSUME NEW c \in Id, Close(c) PROVE Remembers
  <2>1. told' = told /\ \A d \in Id : d # c => asked'[d] = asked[d]
    BY <1>10 DEF Fields, Close
  <2>2. \A d \in Id : d # c => asked'[d].close = asked[d].close /\ asked'[d].due = asked[d].due
    BY <2>1
  <2> QED
    BY <1>10, <2>1, <2>2, Zenon DEF Remembers
<1>11. ASSUME NEW c \in Id, Shutdown(c) PROVE Remembers
  BY <1>11, Requested DEF Remembers, Fields, Shutdown, Request, Command, kernel, thread, callers
<1>12. ASSUME NEW c \in Id, OnError(c) PROVE Remembers
  BY <1>12, Requested DEF Remembers, Fields, OnError, Request, Command, kernel, thread, callers
<1>13. CASE OpenDone
  BY <1>13, Obeyed, Telling DEF Remembers, Fields, OpenDone, CommandDone, SameLists, Lists, kernel, thread,
     callers
<1>14. CASE SendDone
  BY <1>14, Obeyed DEF Remembers, Fields, SendDone, CommandDone, Named, SameLists, Lists, kernel, thread,
     callers
<1>15. CASE TriggerWrite
  BY <1>15, Obeyed DEF Remembers, Fields, TriggerWrite, Cmd, kernel, thread, callers
<1>16. CASE CloseDone
  <2>1. asked' = asked
    BY <1>16 DEF CloseDone, CommandDone
  <2>2. told' = told \/ \A d \in Id : told'[d].died = told[d].died
    BY <1>16, Zenon DEF CloseDone
  <2> QED
    BY <2>1, <2>2 DEF Remembers
<1>17. CASE Drained
  BY <1>17 DEF Remembers, Fields, Drained, kernel, thread, callers
<1>18. CASE CloseSlotDone
  BY <1>18, Telling DEF Remembers, Fields, CloseSlotDone, Kept, Named, Lists, kernel, thread, callers
<1>19. CASE Poll
  BY <1>19 DEF Remembers, Fields, Poll, Ready, kernel, thread, callers
<1>20. ASSUME EventDone, NEW what \in {"none", "data", "err"}, Still(what) PROVE Remembers
  BY <1>20, Telling DEF Remembers, Fields, EventDone, Handling, Kept, Named, Still, SameLists, Lists, NextOf,
     kernel, thread, callers
<1>21. ASSUME EventDone, Opening PROVE Remembers
  BY <1>21, Telling DEF Remembers, Fields, EventDone, Handling, Kept, Named, Opening, SameLists, Lists,
     NextOf, kernel, thread, callers
<1>22. ASSUME EventDone, Dropping PROVE Remembers
  BY <1>22 DEF Remembers, Fields, EventDone, Handling, Kept, Named, Dropping, Lists, kernel, thread, callers
<1>23. ASSUME EventDone, Halved PROVE Remembers
  BY <1>23, Telling DEF Remembers, Fields, EventDone, Handling, Kept, Named, Halved, SameLists, Lists,
     NextOf, kernel, thread, callers
<1>24. ASSUME EventDone, WroteAll PROVE Remembers
  BY <1>24, Telling DEF Remembers, Fields, EventDone, Handling, Kept, Named, WroteAll, Lists, NextOf, kernel,
     thread, callers
<1>25. ASSUME EventDone, NEW k \in 1 .. Len(Unsent) - 1, WroteSome(k) PROVE Remembers
  BY <1>25, Telling DEF Remembers, Fields, EventDone, Handling, Kept, Named, WroteSome, NextOf, kernel,
     thread, callers
<1>26. ASSUME EventDone, Broken PROVE Remembers
  BY <1>26, Telling DEF Remembers, Fields, EventDone, Handling, Kept, Named, Broken, Lists, NextOf, kernel,
     thread, callers
<1>27. CASE Connected \/ PeerData \/ PeerFin
  BY <1>27 DEF Remembers, Fields, Connected, PeerData, PeerFin, Peer, kernel, thread, callers
<1>28. CASE Reset
  BY <1>28 DEF Remembers, Fields, Reset, kernel, thread, callers
<1>29. CASE UNCHANGED vars
  BY <1>29 DEF Remembers, Fields, vars, kernel, thread, callers
<1> QED
  BY <1>1, <1>2, <1>3, <1>4, <1>5, <1>6, <1>7, <1>8, <1>9, <1>10, <1>11, <1>12, <1>13, <1>14, <1>15, <1>16,
     <1>17, <1>18, <1>19, <1>20, <1>21, <1>22, <1>23, <1>24, <1>25, <1>26, <1>27, <1>28, <1>29, Steps
     DEF StepOf

(* A connection lives on: what it depends on stays.                        *)
Living ==
  /\ \A c \in Id : (Alive(c) => Alive(c)') /\ (Alive(c)' => Alive(c))
  /\ \A c \in Id : told'[c].open /\ ~Alive(c)' => told[c].open
  /\ slot'.closing = slot.closing
  /\ (tp' = "closing" => tp = "closing") /\ (tp = "closing" => tp' = "closing")

(* The steps, as far as the life of connections is concerned.              *)
LifeStep ==
  \/ Living \/ OpenDone \/ (CloseDone /\ ~Invalid(Head(pipe).id)) \/ CloseSlotDone
  \/ EventDone /\ (Dropping \/ WroteAll \/ Broken)

(* Only these steps begin or end a connection, or its closing.             *)
LEMMA Lives ==
  ASSUME Fields, TypeOK, Slots, [Next]_vars
  PROVE  LifeStep
<1> USE Parameters
<1>1. ASSUME NEW v \in Service, NEW c \in Id, Send(v, c) PROVE LifeStep
  BY <1>1 DEF LifeStep, Living, Alive, Established, Fields, TypeOK, Values, Slots, Send, Goto, kernel,
     thread, callers
<1>2. ASSUME NEW v \in Service, TryLock(v) PROVE LifeStep
  BY <1>2 DEF LifeStep, Living, Alive, Established, Fields, TypeOK, Values, Slots, TryLock, Goto, kernel,
     thread, callers
<1>3. ASSUME NEW v \in Service, DirectDone(v) PROVE LifeStep
  <2>1. slot'.id = slot.id /\ slot'.type = slot.type /\ slot'.closing = slot.closing /\ told' = told /\ tp' = tp
    BY <1>3, Zenon DEF DirectDone, Kept, Named
  <2> QED
    BY <2>1 DEF LifeStep, Living, Alive
<1>4. ASSUME NEW v \in Service, Trigger(v) PROVE LifeStep
  BY <1>4, Requested DEF LifeStep, Living, Alive, Established, Fields, TypeOK, Values, Slots, Trigger, Goto,
     Request, Command, kernel, thread, callers
<1>5. ASSUME NEW v \in Service, IncSending(v) PROVE LifeStep
  BY <1>5 DEF LifeStep, Living, Alive, Established, Fields, TypeOK, Values, Slots, IncSending, Goto, kernel,
     thread, callers
<1>6. ASSUME NEW v \in Service, Post(v) PROVE LifeStep
  BY <1>6, Requested DEF LifeStep, Living, Alive, Established, Fields, TypeOK, Values, Slots, Post, Goto,
     Request, Command, kernel, thread, callers
<1>7. CASE Reserve
  BY <1>7 DEF LifeStep, Living, Alive, Established, Fields, TypeOK, Values, Slots, Reserve, Goto, kernel,
     thread, callers
<1>8. CASE SetId
  BY <1>8 DEF LifeStep, Living, Alive, Established, Fields, TypeOK, Values, Slots, SetId, Goto, kernel,
     thread, callers
<1>9. CASE OpenRequest
  BY <1>9, Requested DEF LifeStep, Living, Alive, Established, Fields, TypeOK, Values, Slots, OpenRequest,
     Goto, Request, Command, kernel, thread, callers
<1>10. ASSUME NEW c \in Id, Close(c) PROVE LifeStep
  BY <1>10, Requested DEF LifeStep, Living, Alive, Established, Fields, TypeOK, Values, Slots, Close,
     Request, Command, kernel, thread, callers
<1>11. ASSUME NEW c \in Id, Shutdown(c) PROVE LifeStep
  BY <1>11, Requested DEF LifeStep, Living, Alive, Established, Fields, TypeOK, Values, Slots, Shutdown,
     Request, Command, kernel, thread, callers
<1>12. ASSUME NEW c \in Id, OnError(c) PROVE LifeStep
  BY <1>12, Requested DEF LifeStep, Living, Alive, Established, Fields, TypeOK, Values, Slots, OnError,
     Request, Command, kernel, thread, callers
<1>13. CASE OpenDone
  BY <1>13 DEF LifeStep
<1>14. CASE SendDone
  BY <1>14, Obeyed DEF LifeStep, Living, Alive, Established, Fields, TypeOK, Values, Slots, SendDone,
     CommandDone, Named, SameLists, Lists, kernel, thread, callers
<1>15. CASE TriggerWrite
  BY <1>15, Obeyed DEF LifeStep, Living, Alive, Established, Fields, TypeOK, Values, Slots, TriggerWrite,
     Cmd, kernel, thread, callers
<1>16. CASE CloseDone
  <2>1. CASE Invalid(Head(pipe).id)
    <3>1. slot' = slot /\ tp' = tp /\ told' = told
      BY <1>16, <2>1, Zenon DEF CloseDone
    <3> QED
      BY <3>1 DEF LifeStep, Living, Alive
  <2> QED
    BY <1>16, <2>1 DEF LifeStep
<1>17. CASE Drained
  BY <1>17 DEF LifeStep, Living, Alive, Established, Fields, TypeOK, Values, Slots, Drained, kernel, thread,
     callers
<1>18. CASE CloseSlotDone
  BY <1>18 DEF LifeStep
<1>19. CASE Poll
  BY <1>19 DEF LifeStep, Living, Alive, Established, Fields, TypeOK, Values, Slots, Poll, Ready, kernel,
     thread, callers
<1>20. ASSUME EventDone, NEW what \in {"none", "data", "err"}, Still(what) PROVE LifeStep
  BY <1>20, Telling DEF LifeStep, Living, Alive, Established, Fields, TypeOK, Values, Slots, EventDone,
     Handling, Kept, Named, Still, SameLists, Lists, NextOf, kernel, thread, callers
<1>21. ASSUME EventDone, Opening PROVE LifeStep
  BY <1>21, Telling DEF LifeStep, Living, Alive, Established, Fields, TypeOK, Values, Slots, EventDone,
     Handling, Kept, Named, Opening, SameLists, Lists, NextOf, kernel, thread, callers
<1>22. ASSUME EventDone, Dropping PROVE LifeStep
  BY <1>22 DEF LifeStep
<1>23. ASSUME EventDone, Halved PROVE LifeStep
  BY <1>23, Telling DEF LifeStep, Living, Alive, Established, Fields, TypeOK, Values, Slots, EventDone,
     Handling, Kept, Named, Halved, SameLists, Lists, NextOf, kernel, thread, callers
<1>24. ASSUME EventDone, WroteAll PROVE LifeStep
  BY <1>24 DEF LifeStep
<1>25. ASSUME EventDone, NEW k \in 1 .. Len(Unsent) - 1, WroteSome(k) PROVE LifeStep
  BY <1>25, Telling DEF LifeStep, Living, Alive, Established, Fields, TypeOK, Values, Slots, EventDone,
     Handling, Kept, Named, WroteSome, NextOf, kernel, thread, callers
<1>26. ASSUME EventDone, Broken PROVE LifeStep
  BY <1>26 DEF LifeStep
<1>27. CASE Connected \/ PeerData \/ PeerFin
  BY <1>27 DEF LifeStep, Living, Alive, Established, Fields, TypeOK, Values, Slots, Connected, PeerData,
     PeerFin, Peer, kernel, thread, callers
<1>28. CASE Reset
  BY <1>28 DEF LifeStep, Living, Alive, Established, Fields, TypeOK, Values, Slots, Reset, kernel, thread,
     callers
<1>29. CASE UNCHANGED vars
  BY <1>29 DEF LifeStep, Living, Alive, Established, Fields, TypeOK, Values, Slots, vars, kernel, thread,
     callers
<1> QED
  BY <1>1, <1>2, <1>3, <1>4, <1>5, <1>6, <1>7, <1>8, <1>9, <1>10, <1>11, <1>12, <1>13, <1>14, <1>15, <1>16,
     <1>17, <1>18, <1>19, <1>20, <1>21, <1>22, <1>23, <1>24, <1>25, <1>26, <1>27, <1>28, <1>29, Steps
     DEF StepOf

(* A service that is sending goes on, writes directly or posts.            *)
Sender(v) == job'[v] = job[v] /\ (at'[v] \in Busy \/ DirectDone(v) \/ Post(v))
Senders == \A v \in Service : at[v] \in Busy => Sender(v)

(* A service leaves a send by writing or by posting.                       *)
LEMMA Sendings ==
  ASSUME Fields, TypeOK, Slots, [Next]_vars
  PROVE  Senders
<1> USE Parameters
<1>1. ASSUME NEW v \in Service, NEW c \in Id, Send(v, c) PROVE Senders
  BY <1>1 DEF Senders, Sender, Busy, TypeOK, Calls, Send, Goto, kernel, thread, callers
<1>2. ASSUME NEW v \in Service, TryLock(v) PROVE Senders
  BY <1>2 DEF Senders, Sender, Busy, TypeOK, Calls, TryLock, Goto, kernel, thread, callers
<1>3. ASSUME NEW v \in Service, DirectDone(v) PROVE Senders
  <2>1. PICK l \in {"count", "idle", "trigger"} : at' = [at EXCEPT ![v] = l]
    BY <1>3, Zenon DEF DirectDone
  <2>2. job' = job
    BY <1>3, Zenon DEF DirectDone
  <2> QED
    BY <1>3, <2>1, <2>2 DEF Senders, Sender, TypeOK, Calls
<1>4. ASSUME NEW v \in Service, Trigger(v) PROVE Senders
  BY <1>4, Requested DEF Senders, Sender, Busy, TypeOK, Calls, Trigger, Goto, Request, Command, kernel,
     thread, callers
<1>5. ASSUME NEW v \in Service, IncSending(v) PROVE Senders
  BY <1>5 DEF Senders, Sender, Busy, TypeOK, Calls, IncSending, Goto, kernel, thread, callers
<1>6. ASSUME NEW v \in Service, Post(v) PROVE Senders
  BY <1>6 DEF Senders, Sender, Post, Goto, TypeOK, Calls, callers
<1>7. CASE Reserve
  BY <1>7 DEF Senders, Sender, Busy, TypeOK, Calls, Reserve, Goto, kernel, thread, callers
<1>8. CASE SetId
  BY <1>8 DEF Senders, Sender, Busy, TypeOK, Calls, SetId, Goto, kernel, thread, callers
<1>9. CASE OpenRequest
  BY <1>9, Requested DEF Senders, Sender, Busy, TypeOK, Calls, OpenRequest, Goto, Request, Command, kernel,
     thread, callers
<1>10. ASSUME NEW c \in Id, Close(c) PROVE Senders
  BY <1>10, Requested DEF Senders, Sender, Busy, TypeOK, Calls, Close, Request, Command, kernel, thread,
     callers
<1>11. ASSUME NEW c \in Id, Shutdown(c) PROVE Senders
  BY <1>11, Requested DEF Senders, Sender, Busy, TypeOK, Calls, Shutdown, Request, Command, kernel, thread,
     callers
<1>12. ASSUME NEW c \in Id, OnError(c) PROVE Senders
  BY <1>12, Requested DEF Senders, Sender, Busy, TypeOK, Calls, OnError, Request, Command, kernel, thread,
     callers
<1>13. CASE OpenDone
  BY <1>13, Obeyed, Telling DEF Senders, Sender, Busy, TypeOK, Calls, OpenDone, CommandDone, SameLists,
     Lists, kernel, thread, callers
<1>14. CASE SendDone
  BY <1>14, Obeyed DEF Senders, Sender, Busy, TypeOK, Calls, SendDone, CommandDone, Named, SameLists, Lists,
     kernel, thread, callers
<1>15. CASE TriggerWrite
  BY <1>15, Obeyed DEF Senders, Sender, Busy, TypeOK, Calls, TriggerWrite, Cmd, kernel, thread, callers
<1>16. CASE CloseDone
  BY <1>16, Obeyed DEF Senders, Sender, Busy, TypeOK, Calls, CloseDone, CommandDone, Named, SameLists, Lists,
     kernel, thread, callers
<1>17. CASE Drained
  BY <1>17 DEF Senders, Sender, Busy, TypeOK, Calls, Drained, kernel, thread, callers
<1>18. CASE CloseSlotDone
  BY <1>18, Telling DEF Senders, Sender, Busy, TypeOK, Calls, CloseSlotDone, Kept, Named, Lists, kernel,
     thread, callers
<1>19. CASE Poll
  BY <1>19 DEF Senders, Sender, Busy, TypeOK, Calls, Poll, Ready, kernel, thread, callers
<1>20. ASSUME EventDone, NEW what \in {"none", "data", "err"}, Still(what) PROVE Senders
  BY <1>20, Telling DEF Senders, Sender, Busy, TypeOK, Calls, EventDone, Handling, Kept, Named, Still,
     SameLists, Lists, NextOf, kernel, thread, callers
<1>21. ASSUME EventDone, Opening PROVE Senders
  BY <1>21, Telling DEF Senders, Sender, Busy, TypeOK, Calls, EventDone, Handling, Kept, Named, Opening,
     SameLists, Lists, NextOf, kernel, thread, callers
<1>22. ASSUME EventDone, Dropping PROVE Senders
  BY <1>22 DEF Senders, Sender, Busy, TypeOK, Calls, EventDone, Handling, Kept, Named, Dropping, Lists,
     kernel, thread, callers
<1>23. ASSUME EventDone, Halved PROVE Senders
  BY <1>23, Telling DEF Senders, Sender, Busy, TypeOK, Calls, EventDone, Handling, Kept, Named, Halved,
     SameLists, Lists, NextOf, kernel, thread, callers
<1>24. ASSUME EventDone, WroteAll PROVE Senders
  BY <1>24, Telling DEF Senders, Sender, Busy, TypeOK, Calls, EventDone, Handling, Kept, Named, WroteAll,
     Lists, NextOf, kernel, thread, callers
<1>25. ASSUME EventDone, NEW k \in 1 .. Len(Unsent) - 1, WroteSome(k) PROVE Senders
  BY <1>25, Telling DEF Senders, Sender, Busy, TypeOK, Calls, EventDone, Handling, Kept, Named, WroteSome,
     NextOf, kernel, thread, callers
<1>26. ASSUME EventDone, Broken PROVE Senders
  BY <1>26, Telling DEF Senders, Sender, Busy, TypeOK, Calls, EventDone, Handling, Kept, Named, Broken,
     Lists, NextOf, kernel, thread, callers
<1>27. CASE Connected \/ PeerData \/ PeerFin
  BY <1>27 DEF Senders, Sender, Busy, TypeOK, Calls, Connected, PeerData, PeerFin, Peer, kernel, thread,
     callers
<1>28. CASE Reset
  BY <1>28 DEF Senders, Sender, Busy, TypeOK, Calls, Reset, kernel, thread, callers
<1>29. CASE UNCHANGED vars
  BY <1>29 DEF Senders, Sender, Busy, TypeOK, Calls, vars, kernel, thread, callers
<1> QED
  BY <1>1, <1>2, <1>3, <1>4, <1>5, <1>6, <1>7, <1>8, <1>9, <1>10, <1>11, <1>12, <1>13, <1>14, <1>15, <1>16,
     <1>17, <1>18, <1>19, <1>20, <1>21, <1>22, <1>23, <1>24, <1>25, <1>26, <1>27, <1>28, <1>29, Steps
     DEF StepOf

-----------------------------------------------------------------------------
(* What is in one of two lists is in the two put together.                 *)
Among(x, s) == \E j \in 1 .. Len(s) : s[j] = x

(* So it is for two lists of parts.                                        *)
LEMMA AmongJoined ==
  ASSUME NEW s \in Seq(Part), NEW t \in Seq(Part), NEW x
  PROVE  Among(x, s \o t) <=> Among(x, s) \/ Among(x, t)
<1>1. /\ Len(s \o t) = Len(s) + Len(t) /\ Len(s) \in Nat /\ Len(t) \in Nat
      /\ \A j \in 1 .. Len(s) : (s \o t)[j] = s[j]
      /\ \A j \in 1 .. Len(t) : (s \o t)[Len(s) + j] = t[j]
      /\ \A j \in 1 .. Len(s \o t) : j > Len(s) => j - Len(s) \in 1 .. Len(t) /\ (s \o t)[j] = t[j - Len(s)]
  BY Joined
<1>2. PICK n, k, r : n = Len(s) /\ k = Len(t) /\ r = s \o t
  OBVIOUS
<1>3. /\ n \in Nat /\ k \in Nat /\ Len(r) = n + k
      /\ \A j \in 1 .. n : r[j] = s[j]
      /\ \A j \in 1 .. k : r[n + j] = t[j]
      /\ \A j \in 1 .. n + k : j > n => j - n \in 1 .. k /\ r[j] = t[j - n]
  BY <1>1, <1>2
<1>4. ASSUME NEW j \in 1 .. n + k, r[j] = x
      PROVE  (\E i \in 1 .. n : s[i] = x) \/ (\E i \in 1 .. k : t[i] = x)
  <2>1. CASE j <= n
    <3>1. j \in 1 .. n
      BY <1>3, <2>1
    <3> QED
      BY <1>3, <1>4, <3>1
  <2>2. CASE j > n
    <3>1. j - n \in 1 .. k /\ t[j - n] = x
      BY <1>3, <1>4, <2>2
    <3> QED
      BY <3>1
  <2> QED
    BY <1>3, <2>1, <2>2
<1>5. ASSUME NEW j \in 1 .. n, s[j] = x PROVE \E i \in 1 .. n + k : r[i] = x
  BY ONLY <1>3, <1>5
<1>6. ASSUME NEW j \in 1 .. k, t[j] = x PROVE \E i \in 1 .. n + k : r[i] = x
  <2>1. n + j \in 1 .. n + k
    BY ONLY <1>3
  <2> QED
    BY <1>3, <1>6, <2>1
<1> QED
  BY <1>2, <1>3, <1>4, <1>5, <1>6 DEF Among

(* A message that is through a list is through a longer one, and its       *)
(* buffer brings it through.                                               *)
LEMMA ThroughJoined ==
  ASSUME NEW s \in Seq(Part), NEW t \in Seq(Part), NEW m
  PROVE  (Through(s, m) \/ Through(t, m)) => Through(s \o t, m)
<1>1. \A x : Among(x, s) \/ Among(x, t) => Among(x, s \o t)
  BY AmongJoined
<1> QED
  BY <1>1, Zenon DEF Through, Among

(* The same for a list that is put between two others.                     *)
LEMMA ThroughInserted ==
  ASSUME NEW s \in Seq(Part), NEW p \in Seq(Part), NEW t \in Seq(Part), NEW m
  PROVE  (Through(s \o t, m) \/ Through(p, m)) => Through((s \o p) \o t, m)
<1>1. s \o p \in Seq(Part)
  BY Joined
<1>2. \A x : Among(x, s \o t) \/ Among(x, p) => Among(x, (s \o p) \o t)
  BY <1>1, AmongJoined
<1> QED
  BY <1>2, Zenon DEF Through, Among

(* The buffer of a message is all of it.                                   *)
LEMMA ThroughParts ==
  ASSUME NEW m \in Nat
  PROVE  Through(Parts(m), m)
BY PartsOf DEF Through

(* What a peer was sent stays sent.                                        *)
Grown == \A c \in Id : \E t \in Seq(Part) : wire'[c] = wire[c] \o t

(* Every step only adds to a wire.                                         *)
LEMMA Grows ==
  ASSUME Fields, TypeOK, Slots, Jobs, Quiet, Streams, [Next]_vars
  PROVE  Grown
<1>1. CASE wire' = wire
  <2>1. <<>> \in Seq(Part) /\ \A c \in Id : wire[c] \o <<>> = wire[c]
    BY DEF TypeOK, Queues
  <2> QED
    BY <1>1, <2>1 DEF Grown
<1>2. ASSUME NEW c, NEW s \in Seq(Part), wire' = [wire EXCEPT ![c] = @ \o s]
      PROVE  Grown
  <2>1. \A d \in Id : wire'[d] = IF d = c THEN wire[d] \o s ELSE wire[d]
    BY <1>2, Extended
  <2>2. <<>> \in Seq(Part) /\ \A d \in Id : wire[d] \o <<>> = wire[d]
    BY DEF TypeOK, Queues
  <2> QED
    BY <2>1, <2>2 DEF Grown
<1>3. ASSUME NEW v \in Service, NEW k \in 0 .. Units, Direct(v, k) PROVE Grown
  <2>1. job[v] \in Nat
    BY <1>3, DirectStream
  <2>2. SubSeq(Parts(job[v]), 1, k) \in Seq(Part)
    BY <2>1, Slices
  <2> QED
    BY <1>2, <1>3, <2>2, Zenon DEF Direct
<1>4. Unsent \in Seq(Part) /\ \A k \in 1 .. Len(Unsent) - 1 : SubSeq(Unsent, 1, k) \in Seq(Part)
  <2>1. Unsent \in Seq(Part)
    BY Lasts
  <2>2. \A k \in 1 .. Len(Unsent) - 1 : k \in 0 .. Len(Unsent)
    BY <2>1
  <2> QED
    BY <2>1, <2>2, Cut
<1>5. CASE WroteAll \/ \E k \in 1 .. Len(Unsent) - 1 : WroteSome(k)
  BY <1>2, <1>4, <1>5 DEF WroteAll, WroteSome
<1>6. CASE SetId \/ OpenDone \/ SendDone \/ Same \/ Cuts
  BY <1>1, <1>6 DEF SetId, kernel, OpenDone, SendDone, CommandDone, Same, Cuts
<1> QED
  BY <1>1, <1>3, <1>5, <1>6, Flows, DirectIs DEF FlowStep, Same

(* What is on its way stays there, but when the lists are cut off or       *)
(* another connection begins.                                              *)
Flowed == slot'.id = slot.id /\ \A m : Through(Stream, m) => Through(Stream', m)

(* So do all other steps; a direct write and send_socket bring a message   *)
(* on its way.                                                             *)
LEMMA Goes ==
  ASSUME Fields, TypeOK, Slots, Jobs, Quiet, Streams, [Next]_vars
  PROVE  /\ Cuts \/ SetId \/ OpenDone \/ Flowed
         /\ \A v \in Service : DirectDone(v) /\ at'[v] \notin Busy => Through(Stream', job[v])
         /\ SendDone /\ ~Dropped(Head(pipe).id) => Through(Stream', Head(pipe).m)
<1>0. ASSUME slot'.id = slot.id, Stream' = Stream PROVE Flowed
  <2>1. \A m : Through(Stream, m) => Through(Stream', m)
    BY <1>0, Zenon
  <2> QED
    BY <1>0, <2>1 DEF Flowed
<1>1. ASSUME Same PROVE Flowed
  BY <1>0, <1>1 DEF Same, Stream, Front, Wire
<1>2. ASSUME NEW v \in Service, NEW k \in 0 .. Units, Direct(v, k)
      PROVE  Flowed /\ Through(Stream', job[v])
  <2>1. job[v] \in Nat /\ Stream = Wire /\ Stream' = Wire \o Parts(job[v]) /\ slot'.id = slot.id
    BY <1>2, DirectStream DEF Direct
  <2>2. Wire \in Seq(Part) /\ Parts(job[v]) \in Seq(Part) /\ Through(Parts(job[v]), job[v])
    BY <2>1, Lasts, PartsOf, ThroughParts
  <2>3. \A m : Through(Wire, m) \/ Through(Parts(job[v]), m) => Through(Wire \o Parts(job[v]), m)
    BY <2>2, ThroughJoined
  <2> QED
    BY <2>1, <2>2, <2>3, Zenon DEF Flowed
<1>3. ASSUME NEW v \in Service, DirectDone(v)
      PROVE  Flowed /\ (at'[v] \notin Busy => Through(Stream', job[v]))
  <2>1. CASE Same /\ at'[v] \in Busy
    BY <1>1, <2>1
  <2>2. CASE \E k \in 0 .. Units : Direct(v, k)
    BY <1>2, <2>2, Zenon
  <2> QED
    BY <1>3, <2>1, <2>2, DirectIs
<1>4. ASSUME SendDone PROVE Flowed /\ (~Dropped(Head(pipe).id) => Through(Stream', Head(pipe).m))
  <2>1. CASE Same /\ Dropped(Head(pipe).id)
    BY <1>1, <2>1
  <2>2. ASSUME NEW m \in 1 .. Len(box),
               /\ m = Head(pipe).m /\ m \in Nat /\ slot'.id = slot.id /\ wire' = wire
               /\ \/ High' = High \o Parts(m) /\ slot'.low = slot.low
                  \/ High' = High /\ slot'.low = slot.low \o Parts(m)
        PROVE  Flowed /\ Through(Stream', m)
    <3>1. /\ Front \in Seq(Part) /\ slot.low \in Seq(Part) /\ Stream \in Seq(Part) /\ Stream = Front \o slot.low
          /\ Parts(m) \in Seq(Part) /\ Through(Parts(m), m)
      BY <2>2, Lasts, PartsOf, ThroughParts DEF Stream
    <3>2. Stream' = (Front \o Parts(m)) \o slot.low \/ Stream' = Stream \o Parts(m)
      BY <2>2, SentStream
    <3>3. \A n : Through(Stream, n) \/ Through(Parts(m), n) => Through((Front \o Parts(m)) \o slot.low, n)
      BY <3>1, ThroughInserted
    <3>4. \A n : Through(Stream, n) \/ Through(Parts(m), n) => Through(Stream \o Parts(m), n)
      BY <3>1, ThroughJoined
    <3> QED
      BY <2>2, <3>1, <3>2, <3>3, <3>4, Zenon DEF Flowed
  <2>3. CASE \E m \in 1 .. Len(box) :
              /\ m = Head(pipe).m /\ m \in Nat /\ slot'.id = slot.id /\ wire' = wire
              /\ \/ High' = High \o Parts(m) /\ slot'.low = slot.low
                 \/ High' = High /\ slot'.low = slot.low \o Parts(m)
    <3>1. PICK m \in 1 .. Len(box) : m = Head(pipe).m /\ Flowed /\ Through(Stream', m)
      BY <2>2, <2>3, Zenon
    <3> QED
      BY <3>1, Zenon
  <2> QED
    BY <1>4, <2>1, <2>3, SendDoneIs
<1>5. ASSUME EventDone, WroteAll \/ \E k \in 1 .. Len(Unsent) - 1 : WroteSome(k) PROVE Flowed
  BY <1>0, <1>5, WroteStream
<1>6. \/ Cuts \/ SetId \/ OpenDone \/ Flowed
  BY <1>1, <1>3, <1>4, <1>5, Flows DEF FlowStep
<1> QED
  BY <1>3, <1>4, <1>6

(* A message that waits goes on waiting or comes through, unless           *)
(* send_socket drops it.                                                   *)
LEMMA Stays ==
  ASSUME IInv, [Next]_vars, NEW m \in 1 .. Len(box), Waiting(m)
  PROVE  Waiting(m)' \/ Through(Stream', m) \/ (SendDone /\ m = Head(pipe).m /\ Dropped(Head(pipe).id))
<1>0. /\ Fields /\ TypeOK /\ Slots /\ Jobs /\ Quiet /\ Streams
  BY DEF IInv
<1>1. ASSUME NEW i \in 1 .. Len(pipe), pipe[i].op \in Sends, pipe[i].m = m, pipe # <<>>, pipe' = Tail(pipe), i # 1
      PROVE  Waiting(m)'
  <2>1. /\ Len(pipe) \in Nat /\ Len(pipe') = Len(pipe) - 1
        /\ \A h \in 1 .. Len(pipe') : pipe'[h] = pipe[h + 1]
    BY <1>0, <1>1, Obeyed
  <2>2. i - 1 \in 1 .. Len(pipe') /\ (i - 1) + 1 = i
    BY <1>1, <2>1
  <2>3. pipe'[i - 1] = pipe[i]
    BY <2>1, <2>2
  <2> QED
    BY <1>1, <2>2, <2>3 DEF Waiting
<1>2. ASSUME NEW i \in 1 .. Len(pipe), pipe[i].op \in Sends, pipe[i].m = m
      PROVE  Waiting(m)' \/ Through(Stream', m) \/ (SendDone /\ m = Head(pipe).m /\ Dropped(Head(pipe).id))
  <2>1. CASE pipe' = pipe
    BY <1>2, <2>1 DEF Waiting
  <2>2. ASSUME NEW k, pipe' = Append(pipe, k) PROVE Waiting(m)'
    <3>1. pipe'[i] = pipe[i] /\ i \in 1 .. Len(pipe')
      BY <1>0, <1>2, <2>2, Requested
    <3> QED
      BY <1>2, <3>1 DEF Waiting
  <2>3. CASE pipe # <<>> /\ pipe' = Tail(pipe) /\ Head(pipe).op \notin Sends
    <3>1. Head(pipe) = pipe[1]
      BY <1>0, <2>3, Obeyed
    <3> QED
      BY <1>1, <1>2, <2>3, <3>1
  <2>4. CASE SendDone
    <3>1. pipe # <<>> /\ pipe' = Tail(pipe)
      BY <2>4 DEF SendDone, CommandDone
    <3>2. Head(pipe) = pipe[1]
      BY <1>0, <3>1, Obeyed
    <3>3. CASE i = 1
      BY <1>0, <1>2, <2>4, <3>2, <3>3, Goes
    <3> QED
      BY <1>1, <1>2, <3>1, <3>3
  <2>5. CASE \E v \in Service : Post(v) \/ IncSending(v) \/ \E c \in Id : Send(v, c)
    <3>1. pipe' = pipe \/ \E k : pipe' = Append(pipe, k)
      BY <2>5 DEF Post, Request, IncSending, Send
    <3> QED
      BY <2>1, <2>2, <3>1
  <2>6. CASE SetId
    BY <2>1, <2>6 DEF SetId
  <2>7. CASE OpenDone
    BY <2>3, <2>7 DEF OpenDone, CommandDone, Sends
  <2>8. CASE Uncounted
    BY <2>1, <2>2, <2>3, <2>8 DEF Uncounted
  <2> QED
    BY <1>0, <2>4, <2>5, <2>6, <2>7, <2>8, Counts DEF CountStep
<1>3. ASSUME NEW v \in Service, at[v] \in Busy, job[v] = m
      PROVE  Waiting(m)' \/ Through(Stream', m)
  <2>1. job'[v] = m /\ (at'[v] \in Busy \/ DirectDone(v) \/ Post(v))
    BY <1>0, <1>3, Sendings DEF Senders, Sender
  <2>2. CASE at'[v] \in Busy
    BY <2>1, <2>2 DEF Waiting
  <2>3. CASE DirectDone(v)
    BY <1>0, <1>3, <2>2, <2>3, Goes
  <2>4. CASE Post(v)
    <3>1. PICK k : pipe' = Append(pipe, k) /\ k.op \in Sends /\ k.m = m
      BY <1>3, <2>4 DEF Post, Request, Command, Sends
    <3>2. Len(pipe') = Len(pipe) + 1 /\ Len(pipe) \in Nat /\ pipe'[Len(pipe) + 1] = k
      BY <1>0, <3>1, Requested
    <3>3. Len(pipe) + 1 \in 1 .. Len(pipe')
      BY <3>2
    <3> QED
      BY <3>1, <3>2, <3>3 DEF Waiting
  <2> QED
    BY <2>1, <2>2, <2>3, <2>4
<1> QED
  BY <1>2, <1>3 DEF Waiting

(* The invariant of this part.                                             *)
FInv == Due /\ Asked /\ Gentle /\ Gone

(* What is due is what was sent, and no service works on it.               *)
LEMMA NextDue ==
  ASSUME IInv, Due, [Next]_vars
  PROVE  Due'
<1>0. /\ Fields /\ TypeOK /\ Jobs
  BY DEF IInv
<1>1. /\ Len(box) \in Nat /\ \A n \in 1 .. Len(box) : n \in 1 .. Len(box') /\ box'[n] = box[n]
  BY <1>0, Waits
<1>2. ASSUME NEW c \in Id, asked'[c].due = asked[c].due
      PROVE  /\ \A m \in asked'[c].due : m \in 1 .. Len(box') /\ box'[m].to = c
             /\ \A v \in Service : at'[v] \in Busy \cup {"trigger"} => job'[v] \notin asked'[c].due
  <2>1. \A m \in asked'[c].due : m \in 1 .. Len(box') /\ box'[m].to = c
    BY <1>1, <1>2 DEF Due
  <2>2. ASSUME NEW v \in Service, NEW d \in Id, Send(v, d)
        PROVE  \A w \in Service : at'[w] \in Busy \cup {"trigger"} => job'[w] \notin asked'[c].due
    <3>1. /\ job' = [job EXCEPT ![v] = Len(box) + 1] /\ \A w \in Service : w # v => at'[w] = at[w]
      BY <1>0, <2>2 DEF Send, Goto, TypeOK, Calls
    <3>2. Len(box) + 1 \notin asked'[c].due
      BY <1>1, <1>2 DEF Due
    <3>3. \A w \in Service : job'[w] = IF w = v THEN Len(box) + 1 ELSE job[w]
      BY <1>0, <3>1 DEF TypeOK, Calls
    <3> QED
      BY <1>2, <3>1, <3>2, <3>3 DEF Due
  <2>3. ASSUME NEW v \in Service, Post(v)
        PROVE  \A w \in Service : at'[w] \in Busy \cup {"trigger"} => job'[w] \notin asked'[c].due
    <3>1. job' = job /\ (\A w \in Service : w # v => at'[w] = at[w]) /\ at'[v] = "idle"
      BY <1>0, <2>3 DEF Post, Goto, TypeOK, Calls, callers
    <3> QED
      BY <1>2, <3>1 DEF Due, Busy
  <2>4. CASE Calm
    BY <1>2, <2>4 DEF Due, Calm
  <2> QED
    BY <1>0, <2>1, <2>2, <2>3, <2>4, Calms DEF CalmStep
<1>3. ASSUME NEW c \in Id, Close(c)
      PROVE  /\ \A m \in asked'[c].due : m \in 1 .. Len(box') /\ box'[m].to = c
             /\ \A v \in Service : at'[v] \in Busy \cup {"trigger"} => job'[v] \notin asked'[c].due
  <2>1. /\ asked'[c].due = {m \in 1 .. Len(box) : box[m].to = c /\ \A v \in Service : at[v] # "idle" => job[v] # m}
        /\ box' = box /\ at' = at /\ job' = job
    BY <1>0, <1>3 DEF Close, Fields
  <2>2. "idle" \notin Busy \cup {"trigger"}
    BY DEF Busy
  <2> QED
    BY <2>1, <2>2
<1> QED
  BY <1>0, <1>2, <1>3, Memory DEF Due, Remembers

(* Where messages and commands to close come from.                         *)
Posed(k) ==
  /\ pipe' = Append(pipe, k)
  /\ k.op \in Sends => \E v \in Service : Post(v) /\ k.m = job[v]
  /\ k.op = "K" /\ k.m # 1 => k.id \in Id /\ Close(k.id)
Poses ==
  \/ pipe' = pipe
  \/ pipe # <<>> /\ pipe' = Tail(pipe)
  \/ \E k : Posed(k)

(* Every step obeys a command, poses one as above, or leaves the pipe.     *)
LEMMA Posing ==
  ASSUME Fields, [Next]_vars
  PROVE  Poses
<1> USE Parameters
<1>1. ASSUME NEW v \in Service, NEW c \in Id, Send(v, c) PROVE Poses
  BY <1>1 DEF Poses, Send, Goto, kernel, thread, callers
<1>2. ASSUME NEW v \in Service, TryLock(v) PROVE Poses
  BY <1>2 DEF Poses, TryLock, Goto, kernel, thread, callers
<1>3. ASSUME NEW v \in Service, DirectDone(v) PROVE Poses
  <2>1. pipe' = pipe
    BY <1>3, Zenon DEF DirectDone
  <2> QED
    BY <2>1 DEF Poses
<1>4. ASSUME NEW v \in Service, Trigger(v) PROVE Poses
  <2>1. pipe' = Append(pipe, Command("W", box[job[v]].to, 0))
    BY <1>4 DEF Trigger, Request
  <2>2. Posed(Command("W", box[job[v]].to, 0))
    BY <1>4, <2>1 DEF Posed, Command, Sends
  <2> QED
    BY <2>2, Zenon DEF Poses
<1>5. ASSUME NEW v \in Service, IncSending(v) PROVE Poses
  BY <1>5 DEF Poses, IncSending, Goto, kernel, thread, callers
<1>6. ASSUME NEW v \in Service, Post(v) PROVE Poses
  <2>1. pipe' = Append(pipe, Command(IF job[v] \in Low THEN "P" ELSE "D", box[job[v]].to, job[v]))
    BY <1>6 DEF Post, Request
  <2>2. Posed(Command(IF job[v] \in Low THEN "P" ELSE "D", box[job[v]].to, job[v]))
    BY <1>6, <2>1 DEF Posed, Command, Sends
  <2> QED
    BY <2>2, Zenon DEF Poses
<1>7. CASE Reserve
  BY <1>7 DEF Poses, Reserve, Goto, kernel, thread, callers
<1>8. CASE SetId
  BY <1>8 DEF Poses, SetId, Goto, kernel, thread, callers
<1>9. CASE OpenRequest
  <2>1. pipe' = Append(pipe, Command("O", last, 0))
    BY <1>9 DEF OpenRequest, Request
  <2>2. Posed(Command("O", last, 0))
    BY <1>9, <2>1 DEF Posed, Command, Sends
  <2> QED
    BY <2>2, Zenon DEF Poses
<1>10. ASSUME NEW c \in Id, Close(c) PROVE Poses
  <2>1. pipe' = Append(pipe, Command("K", c, 0))
    BY <1>10 DEF Close, Request
  <2>2. Posed(Command("K", c, 0))
    BY <1>10, <2>1 DEF Posed, Command, Sends
  <2> QED
    BY <2>2, Zenon DEF Poses
<1>11. ASSUME NEW c \in Id, Shutdown(c) PROVE Poses
  <2>1. pipe' = Append(pipe, Command("K", c, 1))
    BY <1>11 DEF Shutdown, Request
  <2>2. Posed(Command("K", c, 1))
    BY <1>11, <2>1 DEF Posed, Command, Sends
  <2> QED
    BY <2>2, Zenon DEF Poses
<1>12. ASSUME NEW c \in Id, OnError(c) PROVE Poses
  <2>1. pipe' = Append(pipe, Command("K", c, 1))
    BY <1>12 DEF OnError, Request
  <2>2. Posed(Command("K", c, 1))
    BY <1>12, <2>1 DEF Posed, Command, Sends
  <2> QED
    BY <2>2, Zenon DEF Poses
<1>13. CASE OpenDone
  BY <1>13, Obeyed, Telling DEF Poses, OpenDone, CommandDone, SameLists, Lists, kernel, thread, callers
<1>14. CASE SendDone
  BY <1>14, Obeyed DEF Poses, SendDone, CommandDone, Named, SameLists, Lists, kernel, thread, callers
<1>15. CASE TriggerWrite
  BY <1>15, Obeyed DEF Poses, TriggerWrite, Cmd, kernel, thread, callers
<1>16. CASE CloseDone
  BY <1>16, Obeyed DEF Poses, CloseDone, CommandDone, Named, SameLists, Lists, kernel, thread, callers
<1>17. CASE Drained
  BY <1>17 DEF Poses, Drained, kernel, thread, callers
<1>18. CASE CloseSlotDone
  BY <1>18, Telling DEF Poses, CloseSlotDone, Kept, Named, Lists, kernel, thread, callers
<1>19. CASE Poll
  BY <1>19 DEF Poses, Poll, Ready, kernel, thread, callers
<1>20. ASSUME EventDone, NEW what \in {"none", "data", "err"}, Still(what) PROVE Poses
  BY <1>20, Telling DEF Poses, EventDone, Handling, Kept, Named, Still, SameLists, Lists, NextOf, kernel,
     thread, callers
<1>21. ASSUME EventDone, Opening PROVE Poses
  BY <1>21, Telling DEF Poses, EventDone, Handling, Kept, Named, Opening, SameLists, Lists, NextOf, kernel,
     thread, callers
<1>22. ASSUME EventDone, Dropping PROVE Poses
  BY <1>22 DEF Poses, EventDone, Handling, Kept, Named, Dropping, Lists, kernel, thread, callers
<1>23. ASSUME EventDone, Halved PROVE Poses
  BY <1>23, Telling DEF Poses, EventDone, Handling, Kept, Named, Halved, SameLists, Lists, NextOf, kernel,
     thread, callers
<1>24. ASSUME EventDone, WroteAll PROVE Poses
  BY <1>24, Telling DEF Poses, EventDone, Handling, Kept, Named, WroteAll, Lists, NextOf, kernel, thread,
     callers
<1>25. ASSUME EventDone, NEW k \in 1 .. Len(Unsent) - 1, WroteSome(k) PROVE Poses
  BY <1>25, Telling DEF Poses, EventDone, Handling, Kept, Named, WroteSome, NextOf, kernel, thread, callers
<1>26. ASSUME EventDone, Broken PROVE Poses
  BY <1>26, Telling DEF Poses, EventDone, Handling, Kept, Named, Broken, Lists, NextOf, kernel, thread,
     callers
<1>27. CASE Connected \/ PeerData \/ PeerFin
  BY <1>27 DEF Poses, Connected, PeerData, PeerFin, Peer, kernel, thread, callers
<1>28. CASE Reset
  BY <1>28 DEF Poses, Reset, kernel, thread, callers
<1>29. CASE UNCHANGED vars
  BY <1>29 DEF Poses, vars, kernel, thread, callers
<1> QED
  BY <1>1, <1>2, <1>3, <1>4, <1>5, <1>6, <1>7, <1>8, <1>9, <1>10, <1>11, <1>12, <1>13, <1>14, <1>15, <1>16,
     <1>17, <1>18, <1>19, <1>20, <1>21, <1>22, <1>23, <1>24, <1>25, <1>26, <1>27, <1>28, <1>29, Steps
     DEF StepOf

(* Commands to close stay behind what is due.                              *)
LEMMA NextAsked ==
  ASSUME IInv, Due, Asked, [Next]_vars
  PROVE  Asked'
<1>0. /\ Fields /\ TypeOK
  BY DEF IInv
<1>1. ASSUME NEW k \in 1 .. Len(pipe), pipe[k].op = "K", pipe[k].m # 1
      PROVE  asked'[pipe[k].id].close /\ asked'[pipe[k].id].due = asked[pipe[k].id].due
  <2>1. asked[pipe[k].id].close /\ pipe[k].id \in Id
    BY <1>0, <1>1, Contents DEF Asked
  <2>2. ~Close(pipe[k].id)
    BY <2>1 DEF Close
  <2> QED
    BY <1>0, <2>1, <2>2, Memory DEF Remembers
<1>2. CASE pipe' = pipe
  BY <1>1, <1>2 DEF Asked
<1>3. CASE pipe # <<>> /\ pipe' = Tail(pipe)
  <2>1. /\ Len(pipe) \in Nat /\ Len(pipe') = Len(pipe) - 1
        /\ \A i \in 1 .. Len(pipe') : i + 1 \in 1 .. Len(pipe) /\ pipe'[i] = pipe[i + 1]
    BY <1>0, <1>3, Obeyed
  <2>2. ASSUME NEW k \in 1 .. Len(pipe'), pipe'[k].op = "K", pipe'[k].m # 1
        PROVE  /\ asked'[pipe'[k].id].close
               /\ \A i \in 1 .. Len(pipe') : pipe'[i].op \in Sends /\ pipe'[i].m \in asked'[pipe'[k].id].due => i < k
    <3>1. k + 1 \in 1 .. Len(pipe) /\ pipe'[k] = pipe[k + 1]
      BY <2>1
    <3>2. asked'[pipe[k + 1].id].close /\ asked'[pipe[k + 1].id].due = asked[pipe[k + 1].id].due
      BY <1>1, <2>2, <3>1
    <3>3. \A i \in 1 .. Len(pipe) : pipe[i].op \in Sends /\ pipe[i].m \in asked[pipe[k + 1].id].due => i < k + 1
      BY <2>2, <3>1 DEF Asked
    <3>4. ASSUME NEW i \in 1 .. Len(pipe'), pipe'[i].op \in Sends, pipe'[i].m \in asked'[pipe'[k].id].due
          PROVE  i < k
      <4>1. i + 1 \in 1 .. Len(pipe) /\ pipe'[i] = pipe[i + 1]
        BY <2>1
      <4>2. i + 1 < k + 1
        BY <3>1, <3>2, <3>3, <3>4, <4>1
      <4> QED
        BY <2>1, <4>2
    <3> QED
      BY <3>1, <3>2, <3>4
  <2> QED
    BY <2>2 DEF Asked
<1>4. ASSUME NEW x, Posed(x) PROVE Asked'
  <2>1. /\ Len(pipe') = Len(pipe) + 1 /\ Len(pipe) \in Nat
        /\ \A i \in 1 .. Len(pipe) : pipe'[i] = pipe[i]
        /\ pipe'[Len(pipe) + 1] = x
        /\ \A i \in 1 .. Len(pipe') : i \in 1 .. Len(pipe) \/ i = Len(pipe) + 1
    BY <1>0, <1>4, Requested DEF Posed
  <2>2. ASSUME NEW k \in 1 .. Len(pipe), pipe[k].op = "K", pipe[k].m # 1, NEW i \in 1 .. Len(pipe'),
               pipe'[i].op \in Sends, pipe'[i].m \in asked'[pipe[k].id].due
        PROVE  i < k
    <3>1. pipe[k].id \in Id /\ pipe'[i].m \in asked[pipe[k].id].due
      BY <1>0, <1>1, <2>2, Contents
    <3>2. CASE i \in 1 .. Len(pipe)
      BY <2>1, <2>2, <3>1, <3>2 DEF Asked
    <3>3. CASE i = Len(pipe) + 1
      <4>1. PICK v \in Service : Post(v) /\ x.m = job[v]
        BY <1>4, <2>1, <2>2, <3>3 DEF Posed
      <4>2. at[v] \in Busy
        BY <4>1 DEF Post, Busy
      <4> QED
        BY <2>1, <3>1, <3>3, <4>1, <4>2 DEF Due
    <3> QED
      BY <2>1, <3>2, <3>3
  <2>3. ASSUME x.op = "K", x.m # 1
        PROVE  /\ asked'[x.id].close
               /\ \A i \in 1 .. Len(pipe') : pipe'[i].op \in Sends /\ pipe'[i].m \in asked'[x.id].due => i < Len(pipe) + 1
    <3>1. asked'[x.id].close
      BY <1>0, <1>4, <2>3 DEF Posed, Close, Fields
    <3>2. "K" \notin Sends
      BY DEF Sends
    <3> QED
      BY <2>1, <2>3, <3>1, <3>2
  <2>4. ASSUME NEW k \in 1 .. Len(pipe'), pipe'[k].op = "K", pipe'[k].m # 1
        PROVE  /\ asked'[pipe'[k].id].close
               /\ \A i \in 1 .. Len(pipe') : pipe'[i].op \in Sends /\ pipe'[i].m \in asked'[pipe'[k].id].due => i < k
    <3>1. CASE k \in 1 .. Len(pipe)
      BY <1>1, <2>1, <2>2, <2>4, <3>1
    <3>2. CASE k = Len(pipe) + 1
      BY <2>1, <2>3, <2>4, <3>2
    <3> QED
      BY <2>1, <3>1, <3>2
  <2> QED
    BY <2>4 DEF Asked
<1> QED
  BY <1>0, <1>2, <1>3, <1>4, Posing DEF Poses

(* A list that is empty lets the wire be all that is on its way.           *)
LEMMA OnTheWire ==
  ASSUME IInv, Alive(slot.id), Unsent = <<>>
  PROVE  Stream = wire[slot.id]
<1>1. Stream = Wire \o Unsent /\ Wire \in Seq(Part)
  BY Lasts DEF IInv
<1>2. slot.id \in Id
  BY IdUsed DEF IInv, Alive, Established
<1>3. Wire \o <<>> = Wire
  BY <1>1
<1> QED
  BY <1>1, <1>2, <1>3 DEF Wire

(* A connection in use that is good is not dead.                           *)
LEMMA GoodLives ==
  ASSUME IInv, NEW c \in Id, Alive(c), Good(c)
  PROVE  /\ net.st # "dead" /\ slot.type # "halfwrite" /\ ~event.eof
         /\ \A i \in 1 .. Len(pipe) : pipe[i].op = "K" /\ pipe[i].id = c => pipe[i].m # 1
<1>1. slot.id = c /\ slot.type \in Established \cup {"connecting"} /\ net.st # "dead"
  BY DEF IInv, Deaths, Dead, Alive, Good
<1> QED
  BY <1>1 DEF IInv, Deaths, Dead, Feared, Good

(* A connection that is good was good.                                     *)
LEMMA GoodBefore ==
  ASSUME IInv, [Next]_vars, NEW c \in Id, Good(c)'
  PROVE  Good(c)
BY Shuts, Memory DEF IInv, Good, Remembers

(* Who asked to close goes on asking, for the same.                        *)
LEMMA CloseStays ==
  ASSUME IInv, [Next]_vars, NEW c \in Id, asked[c].close
  PROVE  asked'[c].close /\ asked'[c].due = asked[c].due
BY Memory DEF IInv, Remembers, Close

(* What is new waits.                                                      *)
LEMMA NewWaits ==
  ASSUME IInv, [Next]_vars, NEW m \in 1 .. Len(box'), m \notin 1 .. Len(box)
  PROVE  Waiting(m)'
<1>0. Fields /\ TypeOK
  BY DEF IInv
<1>1. m = Len(box) + 1 /\ box' # box
  BY <1>0, Waits
<1>2. PICK v \in Service, c \in Id : Send(v, c)
  BY <1>0, <1>1, Calms DEF CalmStep, Calm, Post, callers
<1>3. at'[v] \in Busy /\ job'[v] = m
  BY <1>0, <1>1, <1>2 DEF Send, Goto, TypeOK, Calls, Busy
<1> QED
  BY <1>3 DEF Waiting

(* No message is lost while a connection lives on.                         *)
LEMMA StaysSafe ==
  ASSUME IInv, Due, Gentle, [Next]_vars, NEW c \in Id, Alive(c), Alive(c)', Good(c),
         tp # "closing", tp' # "closing"
  PROVE  Safe(c)'
<1>0. /\ Fields /\ TypeOK /\ Slots /\ Opens /\ Jobs /\ Quiet /\ Streams
  BY DEF IInv
<1>1. Closes(c) /\ Safe(c) /\ slot.id = c /\ slot.type \in {"connecting"} \cup Established
  BY DEF Gentle, Closes, Alive
<1>2. Flowed
  <2>1. ~Cuts
    BY DEF Cuts, Alive, Established
  <2>2. ~SetId
    BY <1>0, <1>1, Parameters DEF SetId, Slots, Established
  <2>3. ~OpenDone
    BY <1>0, <1>1, OpensLast DEF Established
  <2> QED
    BY <1>0, <2>1, <2>2, <2>3, Goes
<1>3. ASSUME NEW m \in 1 .. Len(box), box[m].to = c, asked'[c].close => m \in asked'[c].due
      PROVE  Waiting(m)' \/ Through(Stream', m)
  <2>1. asked[c].close => m \in asked[c].due
    BY <1>3, CloseStays
  <2>2. Waiting(m) \/ Through(Stream, m)
    BY <1>1, <1>3, <2>1 DEF Safe
  <2>3. CASE Through(Stream, m)
    BY <1>2, <2>3, Zenon DEF Flowed
  <2>4. CASE Waiting(m)
    <3>1. ASSUME SendDone, m = Head(pipe).m, Dropped(Head(pipe).id) PROVE FALSE
      <4>1. pipe # <<>> /\ pipe' = Tail(pipe) /\ Head(pipe).op \in Sends
        BY <3>1 DEF SendDone, CommandDone, Sends
      <4>2. Head(pipe).id = c
        BY <1>0, <1>3, <3>1, <4>1, Obeyed DEF Jobs
      <4>3. slot.closing
        BY <1>1, <3>1, <4>2, GoodLives DEF Dropped, Invalid, Established
      <4> QED
        BY <1>1, <2>1, <2>4, <4>3 DEF Closes, Settled
    <3> QED
      BY <2>4, <3>1, Stays
  <2> QED
    BY <2>2, <2>3, <2>4
<1>4. ASSUME NEW m \in 1 .. Len(box'), box'[m].to = c, asked'[c].close => m \in asked'[c].due
      PROVE  Waiting(m)' \/ Through(Stream', m)
  <2>1. CASE m \in 1 .. Len(box)
    <3>1. box'[m] = box[m]
      BY <1>0, <2>1, Waits
    <3> QED
      BY <1>3, <1>4, <2>1, <3>1
  <2>2. CASE m \notin 1 .. Len(box)
    BY <2>2, NewWaits
  <2> QED
    BY <2>1, <2>2
<1> QED
  BY <1>4 DEF Safe

(* What is due and through is on the wire goes on to be.                   *)
LEMMA StaysThrough ==
  ASSUME IInv, [Next]_vars, NEW c \in Id, NEW m, Through(wire[c], m)
  PROVE  Through(wire'[c], m)
<1>1. PICK t \in Seq(Part) : wire'[c] = wire[c] \o t
  BY Grows DEF IInv, Grown
<1>2. wire[c] \in Seq(Part)
  BY DEF IInv, TypeOK, Queues
<1> QED
  BY <1>1, <1>2, ThroughJoined

(* All that is due is through when none of it waits and the lists are      *)
(* empty.                                                                  *)
LEMMA AllThrough ==
  ASSUME IInv, Due, Gentle, NEW c \in Id, Alive(c), Good(c), tp # "closing", Settled(c)
  PROVE  \A m \in asked[c].due : Through(Stream, m)
BY DEF Due, Gentle, Closes, Settled, Safe

(* The command to close finds nothing due that waits.                      *)
LEMMA CloseSettles ==
  ASSUME IInv, Due, Asked, NEW c \in Id, Alive(c), Good(c), CloseDone, Head(pipe).id = c
  PROVE  Head(pipe).m # 1 => asked[c].close /\ Settled(c)
<1>0. TypeOK
  BY DEF IInv
<1>1. pipe # <<>> /\ pipe' = Tail(pipe) /\ Head(pipe).op = "K"
  BY DEF CloseDone, CommandDone
<1>2. 1 \in 1 .. Len(pipe) /\ Head(pipe) = pipe[1]
  BY <1>0, <1>1, Obeyed
<1>3. ASSUME Head(pipe).m # 1, NEW m \in asked[c].due, Waiting(m) PROVE FALSE
  <2>1. \A i \in 1 .. Len(pipe) : pipe[i].op \in Sends => pipe[i].m # m
    BY <1>1, <1>2, <1>3 DEF Asked
  <2>2. \A v \in Service : at[v] \in Busy => job[v] # m
    BY <1>3 DEF Due
  <2> QED
    BY <1>3, <2>1, <2>2 DEF Waiting
<1>4. Head(pipe).m # 1 => asked[c].close
  BY <1>1, <1>2 DEF Asked
<1> QED
  BY <1>3, <1>4 DEF Settled

(* Once none that is due waits, none waits again.                          *)
LEMMA SettledStays ==
  ASSUME IInv, Due, [Next]_vars, NEW c \in Id, asked[c].close, Settled(c)
  PROVE  asked'[c].close /\ Settled(c)'
<1>1. asked'[c].close /\ asked'[c].due = asked[c].due
  BY CloseStays
<1>2. \A m \in asked[c].due : Waiting(m)' => Waiting(m)
  BY Waits DEF IInv, Due
<1> QED
  BY <1>1, <1>2 DEF Settled

(* What is due and on the wire is there for good.                          *)
LEMMA DueStays ==
  ASSUME IInv, [Next]_vars, NEW c \in Id, asked[c].close, \A m \in asked[c].due : Through(wire[c], m)
  PROVE  \A m \in asked'[c].due : Through(wire'[c], m)
<1>1. asked'[c].due = asked[c].due
  BY CloseStays
<1>2. \A m \in asked[c].due : Through(wire'[c], m)
  BY StaysThrough
<1> QED
  BY <1>1, <1>2

(* The command to close finds the connection made.                         *)
LEMMA ClosesMade ==
  ASSUME IInv, CloseDone, ~Invalid(Head(pipe).id)
  PROVE  Alive(slot.id) /\ slot.id = Head(pipe).id /\ slot.id \in Id
<1>0. TypeOK
  BY DEF IInv
<1>1. pipe # <<>> /\ pipe' = Tail(pipe) /\ Head(pipe).op = "K" /\ at[Owner] # "name"
  BY DEF CloseDone, CommandDone
<1>2. 1 \in 1 .. Len(pipe) /\ Head(pipe) = pipe[1]
  BY <1>0, <1>1, Obeyed
<1>3. slot.id = Head(pipe).id /\ slot.type # "invalid"
  BY DEF Invalid
<1>4. slot.type # "reserve"
  BY <1>1, <1>2, <1>3 DEF IInv, Quiet, Aimed, Unopened, Fresh, Slots
<1>5. slot.type \in {"connecting"} \cup Established
  BY <1>0, <1>3, <1>4 DEF TypeOK, Values, Types, Established
<1> QED
  BY <1>0, <1>3, <1>4, <1>5, IdUsed DEF IInv, Alive

(* When nothing is left to send, all that is due is on the wire.           *)
LEMMA NothingLeft ==
  ASSUME IInv, Due, Gentle, NEW c \in Id, Alive(c), Good(c), tp # "closing", Settled(c), NoMoreSending
  PROVE  \A m \in asked[c].due : Through(wire[c], m)
<1>1. slot.type # "halfwrite" /\ slot.id = c
  BY GoodLives DEF Alive
<1>2. slot.high = <<>> /\ slot.low = <<>> /\ slot.dw = <<>>
  BY <1>1 DEF NoMoreSending, ListsEmpty
<1>3. Unsent = <<>>
  BY <1>2 DEF Unsent, High
<1>4. Stream = wire[c]
  BY <1>1, <1>3, OnTheWire
<1> QED
  BY <1>4, AllThrough

(* Closing is asked for, and begins when nothing that is due is left.      *)
LEMMA NextGentle ==
  ASSUME IInv, Due, Asked, Gentle, [Next]_vars
  PROVE  Gentle'
<1> SUFFICES ASSUME NEW c \in Id, Alive(c)', Good(c)'
             PROVE  Closes(c)'
  BY DEF Gentle
<1>0. /\ Fields /\ TypeOK /\ Slots /\ Opens /\ Quiet
  BY DEF IInv
<1>1. Good(c)
  BY GoodBefore
<1>2. Alive(c) => Closes(c)
  BY <1>1 DEF Gentle
<1>3. CASE Living
  <2>1. Alive(c) /\ slot'.closing = slot.closing /\ (tp' = "closing" <=> tp = "closing")
    BY <1>3 DEF Living
  <2>2. slot'.closing \/ tp' = "closing" => asked'[c].close /\ Settled(c)'
    BY <1>2, <2>1, SettledStays DEF Closes
  <2>3. tp' = "closing" => \A m \in asked'[c].due : Through(wire'[c], m)
    BY <1>2, <2>1, DueStays DEF Closes
  <2>4. tp' # "closing" => Safe(c)'
    BY <1>1, <2>1, StaysSafe
  <2> QED
    BY <2>2, <2>3, <2>4 DEF Closes
<1>4. CASE OpenDone
  <2>1. slot.type = "reserve" /\ slot'.id = slot.id /\ slot.id = last
    BY <1>0, <1>4, OpensLast DEF Slots
  <2>2. tp' = "drain" /\ box' = box /\ slot'.closing = FALSE /\ c = last
    BY <1>4, <2>1 DEF OpenDone, CommandDone, Alive, Established
  <2>3. \A m \in 1 .. Len(box) : box[m].to # c
    BY <1>0, <2>1, <2>2 DEF Quiet, Aimed, Unopened, Fresh
  <2> QED
    BY <2>2, <2>3 DEF Closes, Safe
<1>5. CASE CloseDone /\ ~Invalid(Head(pipe).id)
  <2>1. slot'.id = slot.id /\ tp = "drain"
    BY <1>5 DEF CloseDone, Named, CommandDone
  <2>2. Alive(c) /\ Head(pipe).id = c
    BY <1>5, <2>1, ClosesMade DEF Alive
  <2>3. Head(pipe).m # 1
    <3>1. pipe # <<>> /\ pipe' = Tail(pipe) /\ Head(pipe).op = "K"
      BY <1>5 DEF CloseDone, CommandDone
    <3>2. 1 \in 1 .. Len(pipe) /\ Head(pipe) = pipe[1]
      BY <1>0, <3>1, Obeyed
    <3> QED
      BY <1>1, <2>2, <3>1, <3>2, GoodLives
  <2>4. asked[c].close /\ Settled(c)
    BY <1>1, <1>5, <2>2, <2>3, CloseSettles
  <2>5. asked'[c].close /\ Settled(c)'
    BY <2>4, SettledStays
  <2>6. CASE NoMoreSending
    <3>1. tp' = "closing"
      BY <1>5, <2>3, <2>6 DEF CloseDone
    <3>2. \A m \in asked[c].due : Through(wire[c], m)
      BY <1>1, <2>1, <2>2, <2>4, <2>6, NothingLeft
    <3>3. \A m \in asked'[c].due : Through(wire'[c], m)
      BY <2>4, <3>2, DueStays
    <3> QED
      BY <2>5, <3>1, <3>3 DEF Closes
  <2>7. CASE ~NoMoreSending
    <3>1. tp' = tp
      BY <1>5, <2>3, <2>7 DEF CloseDone
    <3>2. Safe(c)'
      BY <1>1, <2>1, <2>2, <3>1, StaysSafe
    <3> QED
      BY <2>1, <2>5, <3>1, <3>2 DEF Closes
  <2> QED
    BY <2>6, <2>7
<1>6. CASE CloseSlotDone
  BY <1>6 DEF CloseSlotDone, Alive, Established
<1>7. CASE EventDone /\ Dropping
  <2>1. Alive(c) /\ slot'.closing = slot.closing /\ tp # "closing" /\ tp' = "closing" /\ slot.id = c
    BY <1>7 DEF EventDone, Kept, Named, Dropping, Alive
  <2>2. slot.closing /\ NoMoreSending
    BY <1>1, <1>7, <2>1, GoodLives DEF Dropping
  <2>3. asked[c].close /\ Settled(c)
    BY <1>2, <2>1, <2>2 DEF Closes
  <2>4. asked'[c].close /\ Settled(c)'
    BY <2>3, SettledStays
  <2>5. \A m \in asked[c].due : Through(wire[c], m)
    BY <1>1, <2>1, <2>2, <2>3, NothingLeft
  <2>6. \A m \in asked'[c].due : Through(wire'[c], m)
    BY <2>3, <2>5, DueStays
  <2> QED
    BY <2>1, <2>4, <2>6 DEF Closes
<1>8. CASE EventDone /\ WroteAll
  <2>1. slot'.id = slot.id /\ slot'.closing = slot.closing /\ tp \in {"first", "event"} /\ tp' = NextOf(tp)
    BY <1>8 DEF EventDone, Kept, Named, Handling, WroteAll
  <2>2. Alive(c) /\ ~slot.closing
    BY <1>8, <2>1 DEF WroteAll, Alive, Established
  <2>3. tp # "closing" /\ tp' # "closing"
    BY <2>1 DEF NextOf
  <2>4. Safe(c)'
    BY <1>1, <2>2, <2>3, StaysSafe
  <2> QED
    BY <2>1, <2>2, <2>3, <2>4 DEF Closes
<1>9. CASE EventDone /\ Broken
  <2>1. slot'.id = slot.id /\ slot.type \in Established /\ net.st = "dead"
    BY <1>9 DEF EventDone, Kept, Named, Broken
  <2>2. Alive(c)
    BY <2>1 DEF Alive
  <2> QED
    BY <1>1, <2>1, <2>2, GoodLives
<1> QED
  BY <1>0, <1>3, <1>4, <1>5, <1>6, <1>7, <1>8, <1>9, Lives DEF LifeStep

(* A good connection ends with all that is due on the wire.                *)
LEMMA NextGone ==
  ASSUME IInv, Due, Gentle, Gone, [Next]_vars
  PROVE  Gone'
<1> SUFFICES ASSUME NEW c \in Id, ~Alive(c)', Good(c)'
             PROVE  /\ told'[c].open => asked'[c].close
                    /\ \A m \in asked'[c].due : Through(wire'[c], m)
  BY DEF Gone
<1>0. /\ Fields /\ TypeOK /\ Slots /\ Opens /\ Quiet /\ Closings
  BY DEF IInv
<1>1. Good(c)
  BY GoodBefore
<1>2. ASSUME asked[c].close, \A m \in asked[c].due : Through(wire[c], m)
      PROVE  /\ told'[c].open => asked'[c].close
             /\ \A m \in asked'[c].due : Through(wire'[c], m)
  BY <1>2, CloseStays, DueStays
<1>3. ASSUME ~Alive(c), told'[c].open => told[c].open
      PROVE  /\ told'[c].open => asked'[c].close
             /\ \A m \in asked'[c].due : Through(wire'[c], m)
  <2>1. (told[c].open => asked[c].close) /\ \A m \in asked[c].due : Through(wire[c], m)
    BY <1>1, <1>3 DEF Gone
  <2>2. CASE asked[c].close
    BY <1>2, <2>1, <2>2
  <2>3. CASE ~asked[c].close
    <3>1. ~Close(c)
      BY <2>1, <2>3 DEF Close
    <3>2. asked'[c].due = asked[c].due
      BY <1>0, <3>1, Memory DEF Remembers
    <3>3. \A m \in asked'[c].due : Through(wire'[c], m)
      BY <2>1, <3>2, StaysThrough
    <3> QED
      BY <1>3, <2>1, <2>3, <3>3
  <2> QED
    BY <2>2, <2>3
<1>4. CASE Living
  BY <1>3, <1>4 DEF Living
<1>5. CASE OpenDone
  <2>1. slot.type = "reserve" /\ Head(pipe).id = slot.id /\ slot'.id = slot.id /\ slot.id = last
    BY <1>0, <1>5, OpensLast DEF Slots
  <2>2. ~Alive(c)
    BY <2>1 DEF Alive, Established
  <2>3. told'[c].open => told[c].open
    <3>1. CASE slot'.type = "connected"
      <4>1. c # slot.id
        BY <2>1, <3>1 DEF Alive, Established
      <4>2. told' = told \/ Tell(Head(pipe).id, "open") \/ Tell(Head(pipe).id, "err")
        BY <1>5 DEF OpenDone
      <4> QED
        BY <1>0, <2>1, <4>1, <4>2, Telling
    <3>2. CASE slot'.type # "connected"
      <4>1. told' = told \/ Tell(Head(pipe).id, "err")
        BY <1>5, <3>2 DEF OpenDone
      <4> QED
        BY <1>0, <4>1, Telling
    <3> QED
      BY <3>1, <3>2
  <2> QED
    BY <1>3, <2>2, <2>3
<1>6. CASE CloseDone /\ ~Invalid(Head(pipe).id)
  <2>1. slot'.id = slot.id /\ slot'.type \in {slot.type, "halfread"} /\ told'[c].open = told[c].open
    BY <1>6 DEF CloseDone, Named
  <2>2. ~Alive(c)
    BY <2>1 DEF Alive, Established
  <2> QED
    BY <1>3, <2>1, <2>2
<1>7. CASE CloseSlotDone
  <2>1. tp = "closing" /\ Tell(slot.id, result.what) /\ result.what \in {"none", "err", "close"}
    BY <1>0, <1>7 DEF CloseSlotDone, Closings
  <2>2. told'[c].open => told[c].open
    BY <1>0, <2>1, Telling
  <2>3. CASE Alive(c)
    <3>1. asked[c].close /\ \A m \in asked[c].due : Through(wire[c], m)
      BY <1>1, <2>1, <2>3 DEF Gentle, Closes
    <3> QED
      BY <1>2, <3>1
  <2> QED
    BY <1>3, <2>2, <2>3
<1>8. CASE EventDone /\ Dropping
  <2>1. slot'.id = slot.id /\ slot'.type = slot.type /\ told' = told
    BY <1>8 DEF EventDone, Kept, Named, Dropping
  <2>2. ~Alive(c)
    BY <2>1 DEF Alive
  <2> QED
    BY <1>3, <2>1, <2>2
<1>9. CASE EventDone /\ WroteAll
  <2>1. slot'.id = slot.id /\ tp \in {"first", "event"} /\ Tell(slot.id, "none")
    BY <1>9 DEF EventDone, Kept, Named, Handling, WroteAll
  <2>2. told'[c].open => told[c].open
    BY <1>0, <2>1, Telling
  <2>3. CASE Alive(c)
    <3>1. slot.id = c /\ slot.closing
      BY <1>9, <2>1, <2>3 DEF WroteAll, Alive
    <3>2. asked[c].close /\ Settled(c)
      BY <1>1, <2>3, <3>1 DEF Gentle, Closes
    <3>3. \A m \in asked[c].due : Through(Stream, m)
      BY <1>1, <2>1, <2>3, <3>2, AllThrough
    <3>4. wire'[c] = Stream
      <4>1. wire' = [wire EXCEPT ![c] = @ \o Unsent]
        BY <1>9, <3>1 DEF WroteAll
      <4>2. Unsent \in Seq(Part) /\ Stream = wire[c] \o Unsent
        BY <3>1, Lasts DEF IInv, Wire
      <4> QED
        BY <1>0, <4>1, <4>2, Extended
    <3>5. asked'[c].close /\ asked'[c].due = asked[c].due
      BY <3>2, CloseStays
    <3> QED
      BY <3>3, <3>4, <3>5
  <2> QED
    BY <1>3, <2>2, <2>3
<1>10. CASE EventDone /\ Broken
  <2>1. slot'.id = slot.id /\ slot.type \in Established /\ net.st = "dead"
    BY <1>10 DEF EventDone, Kept, Named, Broken
  <2>2. ~Alive(c)
    BY <1>1, <2>1, GoodLives
  <2>3. Tell(slot.id, "err") \/ Tell(slot.id, "none")
    BY <1>10 DEF Broken
  <2>4. told'[c].open => told[c].open
    BY <1>0, <2>3, Telling
  <2> QED
    BY <1>3, <2>2, <2>4
<1> QED
  BY <1>0, <1>4, <1>5, <1>6, <1>7, <1>8, <1>9, <1>10, Lives DEF LifeStep

(* Both invariants hold always.                                            *)
LEMMA InitFInv ==
  ASSUME Init
  PROVE  FInv
<1>1. /\ pipe = <<>> /\ box = <<>> /\ slot.type = "invalid"
      /\ \A v \in Service : at[v] = "idle"
      /\ \A c \in Id : told[c].open = FALSE /\ asked[c].due = {}
  BY DEF Init
<1>2. \A c \in Id : ~Alive(c)
  BY <1>1 DEF Alive, Established
<1> QED
  BY <1>1, <1>2 DEF FInv, Due, Asked, Gentle, Gone

(* The invariants hold together, always.                                   *)
LEMMA Graceful == Spec => [](IInv /\ FInv)
<1>1. Init => IInv /\ FInv
  BY InitIInv, InitFInv
<1>2. IInv /\ FInv /\ [Next]_vars => (IInv /\ FInv)'
  <2> SUFFICES ASSUME IInv, FInv, [Next]_vars PROVE IInv' /\ FInv'
    OBVIOUS
  <2> QED
    BY NextIInv, NextDue, NextAsked, NextGentle, NextGone DEF FInv
<1> QED
  BY <1>1, <1>2, PTL DEF Spec

(* A connection that ended has sent what was due.                          *)
LEMMA FInvFlushed ==
  ASSUME IInv, FInv
  PROVE  Flushed
<1> SUFFICES ASSUME NEW c \in Id, ~Alive(c), Good(c), NEW m \in asked[c].due
             PROVE  Sent(m)
  BY DEF Flushed, Good
<1>1. box[m].to = c /\ Through(wire[c], m)
  BY DEF FInv, Due, Gone
<1>2. wire[c] \in Seq(Part)
  BY DEF IInv, TypeOK, Queues
<1>3. \A i \in 1 .. Units : \E j \in DOMAIN wire[c] : wire[c][j] = <<m, i>>
  <2>1. DOMAIN wire[c] = 1 .. Len(wire[c])
    BY <1>2
  <2> QED
    BY <1>1, <2>1, Zenon DEF Through
<1> QED
  BY <1>1, <1>3 DEF Sent, Place

(* Closing is graceful: unless the connection died or was shut down, what  *)
(* was sent before the close is on the wire when the socket is closed, in  *)
(* whichever list it waited and wherever the close overtook the writes.    *)
THEOREM ClosingFlushes == Spec => []Flushed
<1>1. IInv /\ FInv => Flushed
  BY FInvFlushed
<1> QED
  BY <1>1, Graceful, PTL
====
