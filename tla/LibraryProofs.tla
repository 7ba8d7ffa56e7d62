--------------------------- MODULE LibraryProofs ---------------------------
(***************************************************************************)
(* Theorems about two library classes, every user of which is modelled,    *)
(* about the table of services and about the timers.                       *)
(*                                                                         *)
(* QosStack, for any messages, pauses and connections: an unconfirmed      *)
(* message is kept exactly once, and a resend loses only what it had not   *)
(* sent.                                                                   *)
(*                                                                         *)
(* CritSec: the critical sections of skynet/queue.lua and                  *)
(* lockable_queue.lua exclude, hand over in the order of arrival and       *)
(* unlock as they should, for any set of coroutines, any nesting and any   *)
(* use of the lock.                                                        *)
(*                                                                         *)
(* Handles: services are found by handle and by name, and ABORT retires    *)
(* all of them, for any number of contexts, handles and names.             *)
(*                                                                         *)
(* Timer: the wheel is a queue of timers, for any number of lists, levels  *)
(* and timers (WheelIsQueue).                                              *)
(***************************************************************************)
EXTENDS QosStack, CritSec, Handles, Timer, WellFoundedInduction, SequenceTheorems, TLAPS

(* What a sequence of entries holds, and its messages; no message twice;   *)
(* no key above m, and none twice but the one that nothing matches.        *)
Entries(s) == {s[i] : i \in 1 .. Len(s)}
Held(s) == {s[i].msg : i \in 1 .. Len(s)}
Once(s) == \A i, j \in 1 .. Len(s) : s[i].msg = s[j].msg => i = j
Keyed(s, m) ==
  /\ \A i \in 1 .. Len(s) : s[i].key <= m
  /\ \A i, j \in 1 .. Len(s) : s[i].key = s[j].key /\ s[i].key # ResetKey => i = j

-----------------------------------------------------------------------------
(* Cutting and joining.                                                    *)
LEMMA Cut ==
  ASSUME NEW s \in Seq(Entry), NEW n \in 0 .. Len(s)
  PROVE  LET a == SubSeq(s, 1, n) c == SubSeq(s, n + 1, Len(s)) IN
         /\ a \in Seq(Entry) /\ c \in Seq(Entry)
         /\ Len(a) = n /\ Len(c) = Len(s) - n
         /\ \A i \in 1 .. n : a[i] = s[i]
         /\ \A i \in 1 .. Len(c) : c[i] = s[n + i]
  OBVIOUS

LEMMA CutOnce ==
  ASSUME NEW s \in Seq(Entry), NEW n \in 0 .. Len(s), Once(s)
  PROVE  LET a == SubSeq(s, 1, n) c == SubSeq(s, n + 1, Len(s)) IN
         /\ Once(a) /\ Once(c) /\ Held(a) \cap Held(c) = {}
         /\ Held(a) \cup Held(c) = Held(s)
<1> DEFINE a == SubSeq(s, 1, n) c == SubSeq(s, n + 1, Len(s))
<1>1. /\ Len(a) = n /\ Len(c) = Len(s) - n
      /\ \A i \in 1 .. n : a[i] = s[i]
      /\ \A i \in 1 .. Len(c) : c[i] = s[n + i]
      /\ n \in Nat /\ Len(s) \in Nat /\ n <= Len(s)
  BY Cut
<1> HIDE DEF a, c
<1>2. Once(a)
  BY <1>1 DEF Once
<1>3. Once(c)
  BY <1>1, SMTT(30) DEF Once
<1>4. \A i \in 1 .. n, j \in 1 .. Len(c) : a[i].msg # c[j].msg
  BY <1>1, SMTT(30) DEF Once
<1>5. Held(a) \cap Held(c) = {}
  BY <1>1, <1>4 DEF Held
<1>6. Held(a) \subseteq Held(s) /\ Held(c) \subseteq Held(s)
  BY <1>1, SMTT(30) DEF Held
<1>7. ASSUME NEW i \in 1 .. Len(s) PROVE s[i].msg \in Held(a) \cup Held(c)
  <2>1. CASE i <= n
    BY <1>1, <2>1 DEF Held
  <2>2. CASE i > n
    <3>1. i - n \in 1 .. Len(c) /\ n + (i - n) = i
      BY <1>1, <2>2
    <3> QED BY <1>1, <3>1 DEF Held
  <2> QED BY <1>1, <2>1, <2>2
<1>8. Held(s) \subseteq Held(a) \cup Held(c)
  BY <1>7 DEF Held
<1> QED
  BY <1>2, <1>3, <1>5, <1>6, <1>8 DEF a, c

LEMMA Join ==
  ASSUME NEW a \in Seq(Entry), NEW c \in Seq(Entry)
  PROVE  LET s == a \o c IN
         /\ s \in Seq(Entry) /\ Len(s) = Len(a) + Len(c)
         /\ \A i \in 1 .. Len(a) : s[i] = a[i]
         /\ \A i \in 1 .. Len(c) : s[Len(a) + i] = c[i]
         /\ \A i \in 1 .. Len(s) : i > Len(a) => i - Len(a) \in 1 .. Len(c) /\ s[i] = c[i - Len(a)]
  OBVIOUS

LEMMA JoinHeld ==
  ASSUME NEW a \in Seq(Entry), NEW c \in Seq(Entry)
  PROVE  LET s == a \o c IN
         /\ s \in Seq(Entry)
         /\ Entries(s) = Entries(a) \cup Entries(c)
         /\ Held(s) = Held(a) \cup Held(c)
         /\ Once(a) /\ Once(c) /\ Held(a) \cap Held(c) = {} => Once(s)
         /\ Once(s) => Once(a) /\ Once(c) /\ Held(a) \cap Held(c) = {}
<1> DEFINE s == a \o c
<1>1. /\ s \in Seq(Entry) /\ Len(s) = Len(a) + Len(c) /\ Len(a) \in Nat /\ Len(c) \in Nat
      /\ \A i \in 1 .. Len(a) : s[i] = a[i]
      /\ \A i \in 1 .. Len(c) : s[Len(a) + i] = c[i]
      /\ \A i \in 1 .. Len(s) : i > Len(a) => i - Len(a) \in 1 .. Len(c) /\ s[i] = c[i - Len(a)]
  BY Join
<1> HIDE DEF s
<1>2. /\ \A i \in 1 .. Len(a) : i \in 1 .. Len(s)
      /\ \A i \in 1 .. Len(c) : Len(a) + i \in 1 .. Len(s)
      /\ \A i \in 1 .. Len(s) : i \in 1 .. Len(a) \/ i > Len(a)
  BY <1>1
<1>a. \A i \in 1 .. Len(s) : s[i] \in Entries(a) \cup Entries(c)
  BY <1>1, <1>2 DEF Entries
<1>b. /\ \A i \in 1 .. Len(a) : a[i] \in Entries(s)
      /\ \A i \in 1 .. Len(c) : c[i] \in Entries(s)
  <2>1. ASSUME NEW i \in 1 .. Len(a) PROVE a[i] \in Entries(s)
    BY <1>1, <1>2 DEF Entries
  <2>2. ASSUME NEW i \in 1 .. Len(c) PROVE c[i] \in Entries(s)
    BY <1>1, <1>2 DEF Entries
  <2> QED BY <2>1, <2>2
<1>3. Entries(s) = Entries(a) \cup Entries(c)
  <2>1. Entries(s) \subseteq Entries(a) \cup Entries(c)
    BY <1>a DEF Entries
  <2>2. Entries(a) \subseteq Entries(s)
    BY <1>b DEF Entries
  <2>3. Entries(c) \subseteq Entries(s)
    BY <1>b DEF Entries
  <2> QED BY <2>1, <2>2, <2>3
<1>4. Held(s) = Held(a) \cup Held(c)
  <2>1. \A x \in Seq(Entry) : Held(x) = {e.msg : e \in Entries(x)}
    BY DEF Held, Entries
  <2> QED BY <1>1, <1>3, <2>1
<1>5. ASSUME Once(a), Once(c), Held(a) \cap Held(c) = {} PROVE Once(s)
  <2>1. \A i \in 1 .. Len(a), j \in 1 .. Len(c) : a[i].msg # c[j].msg
    BY <1>5 DEF Held
  <2>2. ASSUME NEW i \in 1 .. Len(s), NEW j \in 1 .. Len(s), s[i].msg = s[j].msg PROVE i = j
    <3>1. CASE i \in 1 .. Len(a) /\ j \in 1 .. Len(a)
      BY <1>1, <1>5, <2>2, <3>1 DEF Once
    <3>2. CASE i > Len(a) /\ j > Len(a)
      <4>1. i - Len(a) = j - Len(a)
        BY <1>1, <1>5, <2>2, <3>2, SMTT(30) DEF Once
      <4> QED BY <1>1, <4>1
    <3>3. CASE i \in 1 .. Len(a) /\ j > Len(a)
      BY <1>1, <2>1, <2>2, <3>3, SMTT(30)
    <3>4. CASE i > Len(a) /\ j \in 1 .. Len(a)
      BY <1>1, <2>1, <2>2, <3>4, SMTT(30)
    <3> QED BY <1>2, <3>1, <3>2, <3>3, <3>4
  <2> QED BY <2>2 DEF Once
<1>6. ASSUME Once(s) PROVE Once(a) /\ Once(c) /\ Held(a) \cap Held(c) = {}
  <2>1. Once(a)
    BY <1>1, <1>2, <1>6 DEF Once
  <2>2. Once(c)
    BY <1>1, <1>2, <1>6, SMTT(30) DEF Once
  <2>3. \A i \in 1 .. Len(a), j \in 1 .. Len(c) : a[i].msg # c[j].msg
    BY <1>1, <1>2, <1>6 DEF Once
  <2> QED BY <2>1, <2>2, <2>3 DEF Held
<1> QED
  BY <1>1, <1>3, <1>4, <1>5, <1>6 DEF s

LEMMA JoinKeyed ==
  ASSUME NEW a \in Seq(Entry), NEW c \in Seq(Entry), NEW m \in Int, Keyed(a, m), Keyed(c, m),
         \A i \in 1 .. Len(a), j \in 1 .. Len(c) : a[i].key = c[j].key => a[i].key = ResetKey
  PROVE  Keyed(a \o c, m)
<1> DEFINE s == a \o c
<1>1. /\ s \in Seq(Entry) /\ Len(s) = Len(a) + Len(c) /\ Len(a) \in Nat /\ Len(c) \in Nat
      /\ \A i \in 1 .. Len(a) : s[i] = a[i]
      /\ \A i \in 1 .. Len(s) : i > Len(a) => i - Len(a) \in 1 .. Len(c) /\ s[i] = c[i - Len(a)]
  BY Join
<1> HIDE DEF s
<1>2. \A i \in 1 .. Len(s) : i \in 1 .. Len(a) \/ i > Len(a)
  BY <1>1
<1>3. \A i \in 1 .. Len(s) : s[i].key <= m
  BY <1>1, <1>2 DEF Keyed
<1>4. ASSUME NEW i \in 1 .. Len(s), NEW j \in 1 .. Len(s), s[i].key = s[j].key, s[i].key # ResetKey
      PROVE  i = j
  <2>1. CASE i \in 1 .. Len(a) /\ j \in 1 .. Len(a)
    BY <1>1, <1>4, <2>1 DEF Keyed
  <2>2. CASE i > Len(a) /\ j > Len(a)
    <3> DEFINE p == i - Len(a) q == j - Len(a)
    <3>1. /\ p \in 1 .. Len(c) /\ q \in 1 .. Len(c)
          /\ c[p].key = c[q].key /\ c[p].key # ResetKey
      BY <1>1, <1>4, <2>2
    <3>2. p = q => i = j
      BY <1>1
    <3> HIDE DEF p, q
    <3> QED BY <3>1, <3>2 DEF Keyed
  <2>3. CASE i \in 1 .. Len(a) /\ j > Len(a)
    BY <1>1, <1>4, <2>3
  <2>4. CASE i > Len(a) /\ j \in 1 .. Len(a)
    BY <1>1, <1>4, <2>4
  <2> QED BY <1>2, <2>1, <2>2, <2>3, <2>4
<1> QED
  BY <1>3, <1>4 DEF Keyed, s

-----------------------------------------------------------------------------
(* The operators on the stack.                                             *)
LEMMA RemovedSound ==
  ASSUME NEW b \in Seq(Entry), NEW m \in Int, Keyed(b, m), Once(b),
         NEW w \in Entries(b), w.key # ResetKey
  PROVE  LET r == Removed(b, w.key) IN
         /\ r \in Seq(Entry) /\ Once(r) /\ Keyed(r, m)
         /\ Held(r) = Held(b) \ {w.msg}
         /\ Entries(b) \ {w} \subseteq Entries(r)
<1> DEFINE at == {i \in 1 .. Len(b) : b[i].key = w.key}
           r == Removed(b, w.key)
<1>1. PICK k \in 1 .. Len(b) : b[k] = w
  BY DEF Entries
<1>2. at = {k}
  BY <1>1 DEF Keyed
<1>3. (CHOOSE i \in at : \A j \in at : i <= j) = k
  BY <1>2
<1>4. r = SubSeq(b, 1, k - 1) \o SubSeq(b, k + 1, Len(b))
  BY <1>2, <1>3 DEF Removed, RemoveAt
<1>5. /\ r \in Seq(Entry) /\ Len(r) = Len(b) - 1 /\ Len(b) \in Nat /\ k \in Nat
      /\ \A i \in 1 .. Len(r) : r[i] = IF i < k THEN b[i] ELSE b[i + 1]
  <2>1. /\ SubSeq(b, 1, k - 1) \in Seq(Entry) /\ Len(SubSeq(b, 1, k - 1)) = k - 1
        /\ SubSeq(b, k + 1, Len(b)) \in Seq(Entry) /\ Len(SubSeq(b, k + 1, Len(b))) = Len(b) - k
        /\ \A i \in 1 .. k - 1 : SubSeq(b, 1, k - 1)[i] = b[i]
        /\ \A i \in 1 .. Len(b) - k : SubSeq(b, k + 1, Len(b))[i] = b[k + i]
    OBVIOUS
  <2> DEFINE a == SubSeq(b, 1, k - 1) c == SubSeq(b, k + 1, Len(b))
  <2> HIDE DEF a, c, r, at
  <2>2. r = a \o c
    BY <1>4 DEF a, c
  <2>3. /\ a \in Seq(Entry) /\ Len(a) = k - 1 /\ c \in Seq(Entry) /\ Len(c) = Len(b) - k
        /\ \A i \in 1 .. k - 1 : a[i] = b[i]
        /\ \A i \in 1 .. Len(b) - k : c[i] = b[k + i]
    BY <2>1 DEF a, c
  <2>4. /\ r \in Seq(Entry) /\ Len(r) = Len(a) + Len(c) /\ Len(b) \in Nat /\ k \in Nat
        /\ \A i \in 1 .. Len(a) : r[i] = a[i]
        /\ \A i \in 1 .. Len(r) : i > Len(a) => i - Len(a) \in 1 .. Len(c) /\ r[i] = c[i - Len(a)]
    <3> DEFINE ac == a \o c
    <3>1. /\ ac \in Seq(Entry) /\ Len(ac) = Len(a) + Len(c)
          /\ \A i \in 1 .. Len(a) : ac[i] = a[i]
          /\ \A i \in 1 .. Len(ac) : i > Len(a) => i - Len(a) \in 1 .. Len(c) /\ ac[i] = c[i - Len(a)]
      BY <2>3, Join
    <3>2. r = ac
      BY <2>2
    <3> HIDE DEF ac
    <3> QED BY <3>1, <3>2
  <2>5. ASSUME NEW i \in 1 .. Len(r) PROVE r[i] = IF i < k THEN b[i] ELSE b[i + 1]
    <3>1. CASE i < k
      BY <2>3, <2>4, <3>1
    <3>2. CASE i >= k
      <4>1. i > Len(a) /\ i - Len(a) \in 1 .. Len(b) - k /\ k + (i - Len(a)) = i + 1
        BY <2>3, <2>4, <3>2
      <4> QED BY <2>3, <2>4, <3>2, <4>1
    <3> QED BY <2>4, <3>1, <3>2
  <2> QED BY <2>3, <2>4, <2>5
<1> DEFINE f(i) == IF i < k THEN i ELSE i + 1
<1> HIDE DEF r, at
<1>6. /\ \A i \in 1 .. Len(r) : f(i) \in 1 .. Len(b) /\ f(i) # k /\ r[i] = b[f(i)]
      /\ \A i, j \in 1 .. Len(r) : f(i) = f(j) => i = j
  BY <1>5
<1>7. \A j \in 1 .. Len(b) : j # k => \E i \in 1 .. Len(r) : f(i) = j
  <2>1. ASSUME NEW j \in 1 .. Len(b), j # k PROVE \E i \in 1 .. Len(r) : f(i) = j
    <3>1. CASE j < k
      BY <1>5, <3>1
    <3>2. CASE j > k
      <4>1. j - 1 \in 1 .. Len(r) /\ f(j - 1) = j
        BY <1>5, <3>2
      <4> QED BY <4>1
    <3> QED BY <1>5, <2>1, <3>1, <3>2
  <2> QED BY <2>1
<1> HIDE DEF f
<1>8. Once(r)
  BY <1>6 DEF Once
<1>9. Keyed(r, m)
  <2>1. \A i \in 1 .. Len(r) : r[i].key <= m
    BY <1>6 DEF Keyed
  <2>2. ASSUME NEW i \in 1 .. Len(r), NEW j \in 1 .. Len(r), r[i].key = r[j].key, r[i].key # ResetKey
        PROVE  i = j
    <3>1. f(i) \in 1 .. Len(b) /\ f(j) \in 1 .. Len(b) /\ r[i] = b[f(i)] /\ r[j] = b[f(j)]
      BY <1>6
    <3>2. f(i) = f(j)
      BY <2>2, <3>1 DEF Keyed
    <3> QED BY <1>6, <3>2
  <2> QED BY <2>1, <2>2 DEF Keyed
<1>a. ASSUME NEW j \in 1 .. Len(b), j # k PROVE b[j] \in Entries(r) /\ b[j].msg \in Held(r)
  <2>1. PICK i \in 1 .. Len(r) : f(i) = j
    BY <1>7, <1>a
  <2>2. r[i] = b[j]
    BY <1>6, <2>1
  <2> QED BY <2>2 DEF Entries, Held
<1>10. Entries(b) \ {w} \subseteq Entries(r)
  BY <1>1, <1>a DEF Entries
<1>11. Held(b) \ {w.msg} \subseteq Held(r)
  BY <1>1, <1>a DEF Held
<1>12. Held(r) \subseteq Held(b) \ {w.msg}
  BY <1>1, <1>6 DEF Held, Once
<1> QED
  BY <1>5, <1>8, <1>9, <1>10, <1>11, <1>12 DEF r

LEMMA ResentSound ==
  ASSUME NEW s \in Seq(Entry), NEW first \in Nat \ {0}, Once(s)
  PROVE  LET r == Resent(first, s) IN
         /\ r \in Seq(Entry) /\ Len(r) = Len(s) /\ Once(r) /\ Held(r) = Held(s)
         /\ Keyed(r, first + Len(s) - 1)
         /\ \A i \in 1 .. Len(r) : r[i].key >= first
         /\ Range(r) = Entries(r) /\ Range(r) \subseteq [key : Nat \ {ResetKey}, msg : Msgs]
<1> DEFINE r == Resent(first, s)
<1>1. /\ r = [i \in 1 .. Len(s) |-> [key |-> first + i - 1, msg |-> s[i].msg]]
      /\ Len(s) \in Nat /\ \A i \in 1 .. Len(s) : s[i] \in Entry
  BY DEF Resent
<1> HIDE DEF r
<1>2. \A i \in 1 .. Len(s) : /\ r[i].key = first + i - 1 /\ r[i].msg = s[i].msg
                             /\ r[i] \in [key : Nat \ {ResetKey}, msg : Msgs]
                             /\ r[i] \in Entry
  BY <1>1 DEF Entry, ResetKey
<1>3. r \in Seq(Entry) /\ Len(r) = Len(s) /\ DOMAIN r = 1 .. Len(s)
  BY <1>1, <1>2
<1>4. Once(r) /\ Held(r) = Held(s)
  BY <1>2, <1>3 DEF Once, Held
<1>5. Keyed(r, first + Len(s) - 1) /\ \A i \in 1 .. Len(r) : r[i].key >= first
  BY <1>1, <1>2, <1>3 DEF Keyed
<1>6. Range(r) = Entries(r)
  BY <1>3 DEF Range, Entries
<1>7. Entries(r) \subseteq [key : Nat \ {ResetKey}, msg : Msgs]
  BY <1>2, <1>3 DEF Entries
<1> QED
  BY <1>3, <1>4, <1>5, <1>6, <1>7 DEF r

LEMMA PutBackSound ==
  ASSUME NEW s \in Seq(Entry), Once(s)
  PROVE  LET r == PutBack(s) IN
         /\ r \in Seq(Entry) /\ Len(r) = Len(s) /\ Once(r) /\ Held(r) = Held(s)
         /\ \A i \in 1 .. Len(r) : r[i].key = ResetKey
<1> DEFINE x == [i \in 1 .. Len(s) |-> [s[i] EXCEPT !.key = ResetKey]] r == PutBack(s)
<1>1. Len(s) \in Nat /\ \A i \in 1 .. Len(s) : s[i] \in Entry
  OBVIOUS
<1>2. \A i \in 1 .. Len(s) : x[i] \in Entry /\ x[i].key = ResetKey /\ x[i].msg = s[i].msg
  BY <1>1 DEF Entry, ResetKey
<1>3. x \in Seq(Entry) /\ Len(x) = Len(s)
  BY <1>1, <1>2
<1>4. r = [i \in 1 .. Len(x) |-> x[(Len(x) - i) + 1]]
  BY DEF PutBack, Reverse
<1> HIDE DEF x, r
<1> DEFINE g(i) == (Len(x) - i) + 1
<1>5. /\ \A i \in 1 .. Len(s) : g(i) \in 1 .. Len(s) /\ g(g(i)) = i
      /\ \A i, j \in 1 .. Len(s) : g(i) = g(j) => i = j
  BY <1>1, <1>3
<1>6. /\ r \in Seq(Entry) /\ Len(r) = Len(s)
      /\ \A i \in 1 .. Len(s) : r[i] = x[g(i)]
  BY <1>1, <1>2, <1>3, <1>4, <1>5
<1> HIDE DEF g
<1>7. \A i \in 1 .. Len(s) : r[i].key = ResetKey /\ r[i].msg = s[g(i)].msg
  BY <1>2, <1>5, <1>6
<1>8. Once(r)
  BY <1>5, <1>6, <1>7 DEF Once
<1>9. Held(r) = Held(s)
  <2>1. ASSUME NEW i \in 1 .. Len(s) PROVE r[i].msg \in Held(s) /\ s[i].msg \in Held(r)
    <3>1. r[i].msg = s[g(i)].msg /\ r[g(i)].msg = s[i].msg /\ g(i) \in 1 .. Len(s)
      BY <1>5, <1>7
    <3> QED BY <1>6, <3>1 DEF Held
  <2> QED BY <1>6, <2>1 DEF Held
<1> QED
  BY <1>6, <1>7, <1>8, <1>9 DEF r

LEMMA StretchBounds ==
  ASSUME NEW b \in Seq(Entry), NEW done \in Nat
  PROVE  /\ ToPause(done) \in 1 .. SleepCount /\ (done = 0 => ToPause(done) = SleepCount)
         /\ Stretch(b, done) \in {Len(b), ToPause(done)}
         /\ Stretch(b, done) <= Len(b) /\ Stretch(b, done) <= ToPause(done)
<1>1. ToPause(done) \in 1 .. SleepCount /\ (done = 0 => ToPause(done) = SleepCount)
  BY QosAssumption DEF ToPause
<1>2. Len(b) \in Nat /\ ToPause(done) \in Nat
  BY <1>1
<1>3. \A x, y \in Nat : /\ Min({x, y}) \in {x, y} /\ Min({x, y}) <= x /\ Min({x, y}) <= y
  <2>1. ASSUME NEW x \in Nat, NEW y \in Nat PROVE \E z \in {x, y} : \A u \in {x, y} : z <= u
    <3>1. CASE x <= y
      BY <3>1
    <3>2. CASE y <= x
      BY <3>2
    <3> QED BY <3>1, <3>2
  <2>2. ASSUME NEW x \in Nat, NEW y \in Nat PROVE Min({x, y}) \in {x, y} /\ \A u \in {x, y} : Min({x, y}) <= u
    BY <2>1 DEF Min
  <2> QED BY <2>2
<1> QED
  BY <1>1, <1>2, <1>3 DEF Stretch

LEMMA EntryKeys ==
  ASSUME NEW s \in Seq(Entry), NEW i \in 1 .. Len(s)
  PROVE  s[i] \in Entry /\ s[i].key \in Int /\ s[i].msg \in Msgs
<1>1. s[i] \in Entry
  OBVIOUS
<1> QED BY <1>1 DEF Entry

(* Nothing: the empty stack.                                               *)
LEMMA NothingSound ==
  /\ <<>> \in Seq(Entry) /\ Once(<<>>) /\ Held(<<>>) = {} /\ Entries(<<>>) = {}
  /\ \A m \in Int : Keyed(<<>>, m)
  BY DEF Once, Held, Entries, Keyed

(* fire_all: what it takes is sent, put back or left for after the pause.  *)
LEMMA ResendSound ==
  ASSUME NEW b \in Seq(Entry), NEW onto \in Seq(Entry), NEW done \in Nat, NEW first \in Nat \ {0},
         NEW n, Resend(b, onto, done, first, n), done = 0 \/ done >= SleepCount,
         Once(b), Once(onto), Held(b) \cap Held(onto) = {}, Keyed(onto, first - 1)
  PROVE  LET new == Resent(first, SubSeq(b, 1, n)) IN
         /\ mid' \in Nat /\ sent' \in Nat /\ firing' \in BOOLEAN
         /\ buf' \in Seq(Entry) /\ batch' \in Seq(Entry)
         /\ Once(buf') /\ Once(batch') /\ Held(buf') \cap Held(batch') = {}
         /\ Held(buf') \cup Held(batch') = Held(b) \cup Held(onto)
         /\ Keyed(buf', mid')
         /\ Entries(onto) \cup Range(new) \subseteq Entries(buf')
         /\ Range(new) \subseteq [key : Nat \ {ResetKey}, msg : Msgs]
         /\ ~firing' => batch' = <<>>
         /\ firing' => sent' >= SleepCount
         /\ b = <<>> => Range(new) = {}
<1> DEFINE a == SubSeq(b, 1, n)
           rest == SubSeq(b, n + 1, Len(b))
           new == Resent(first, a)
           failed == n < Stretch(b, done)
           pause == n = ToPause(done)
           front == IF failed THEN PutBack(rest) ELSE <<>>
<1>1. /\ n \in 0 .. Len(b) /\ n \in Nat
      /\ ToPause(done) \in 1 .. SleepCount /\ (done = 0 => ToPause(done) = SleepCount)
      /\ pause => ~failed
      /\ ~pause /\ ~failed => n = Len(b)
  <2> DEFINE l == Len(b) q == ToPause(done) u == Stretch(b, done)
  <2>1. n \in 0 .. u /\ l \in Nat
    BY DEF Resend
  <2>2. /\ q \in 1 .. SleepCount /\ (done = 0 => q = SleepCount)
        /\ u \in {l, q} /\ u <= l /\ u <= q
    BY StretchBounds
  <2> HIDE DEF l, q, u
  <2>3. q \in Int /\ u \in Int /\ l \in Int
    BY <2>1, <2>2, QosAssumption
  <2>4. n \in 0 .. l /\ n \in Nat
    BY <2>1, <2>2, <2>3
  <2>5. n = q => ~(n < u)
    BY <2>1, <2>2, <2>3
  <2>6. n # q /\ ~(n < u) => n = l
    BY <2>1, <2>2, <2>3
  <2> QED BY <2>2, <2>4, <2>5, <2>6 DEF l, q, u
<1>2. /\ mid' = first + n - 1
      /\ buf' = (front \o onto) \o new
      /\ batch' = IF pause THEN rest ELSE <<>>
      /\ sent' = IF pause THEN done + n ELSE 0
      /\ firing' = pause
  BY DEF Resend
<1>3. /\ a \in Seq(Entry) /\ rest \in Seq(Entry) /\ Len(a) = n /\ Len(rest) = Len(b) - n
      /\ Once(a) /\ Once(rest) /\ Held(a) \cap Held(rest) = {} /\ Held(a) \cup Held(rest) = Held(b)
  BY <1>1, Cut, CutOnce
<1> HIDE DEF a, rest
<1>4. /\ new \in Seq(Entry) /\ Len(new) = n /\ Once(new) /\ Held(new) = Held(a)
      /\ Keyed(new, first + n - 1)
      /\ \A i \in 1 .. Len(new) : new[i].key >= first
      /\ Range(new) = Entries(new) /\ Range(new) \subseteq [key : Nat \ {ResetKey}, msg : Msgs]
  BY <1>3, ResentSound
<1>5. /\ front \in Seq(Entry) /\ Once(front)
      /\ Held(front) = IF failed THEN Held(rest) ELSE {}
      /\ \A i \in 1 .. Len(front) : front[i].key = ResetKey
  <2>1. CASE failed
    BY <1>3, <2>1, PutBackSound
  <2>2. CASE ~failed
    <3>1. front = <<>> /\ \A i \in 1 .. Len(<<>>) : FALSE
      BY <2>2
    <3> QED BY <2>2, <3>1, NothingSound
  <2> QED BY <2>1, <2>2
<1>6. Held(batch') = (IF pause THEN Held(rest) ELSE {}) /\ batch' \in Seq(Entry) /\ Once(batch')
  BY <1>2, <1>3, NothingSound
<1>7. ~pause /\ ~failed => Held(rest) = {}
  <2>1. Len(rest) = 0 => Held(rest) = {}
    BY DEF Held
  <2> QED BY <1>1, <1>3, <2>1
<1>8. /\ Held(front) \cap Held(onto) = {} /\ (Held(front) \cup Held(onto)) \cap Held(new) = {}
      /\ (Held(front) \cup Held(onto) \cup Held(new)) \cap Held(batch') = {}
      /\ Held(front) \cup Held(onto) \cup Held(new) \cup Held(batch') = Held(b) \cup Held(onto)
  BY <1>1, <1>3, <1>4, <1>5, <1>6, <1>7
<1> DEFINE x == front \o onto
<1> HIDE DEF front, new, pause, failed
<1>9. /\ x \in Seq(Entry) /\ Once(x)
      /\ Held(x) = Held(front) \cup Held(onto) /\ Entries(x) = Entries(front) \cup Entries(onto)
  BY <1>5, <1>8, JoinHeld
<1>10. Keyed(x, first - 1)
  <2>1. Keyed(front, first - 1)
    BY <1>5 DEF Keyed, ResetKey
  <2> QED BY <1>5, <2>1, JoinKeyed
<1> HIDE DEF x
<1>11. /\ buf' = x \o new
       /\ buf' \in Seq(Entry) /\ Once(buf')
       /\ Held(buf') = Held(x) \cup Held(new) /\ Entries(buf') = Entries(x) \cup Entries(new)
  <2>1. buf' = x \o new
    BY <1>2 DEF x
  <2>2. /\ x \o new \in Seq(Entry) /\ Once(x \o new)
        /\ Held(x \o new) = Held(x) \cup Held(new) /\ Entries(x \o new) = Entries(x) \cup Entries(new)
    BY <1>4, <1>8, <1>9, JoinHeld
  <2> QED BY <2>1, <2>2
<1>12. Keyed(buf', mid')
  <2>1. mid' \in Int /\ mid' >= first - 1 /\ mid' = first + n - 1
    BY <1>1, <1>2
  <2>2. Keyed(x, mid')
    <3>1. \A i \in 1 .. Len(x) : x[i].key \in Int /\ x[i].key <= first - 1
      BY <1>9, <1>10, EntryKeys DEF Keyed
    <3>2. \A i \in 1 .. Len(x) : x[i].key <= mid'
      BY <2>1, <3>1
    <3> QED BY <1>10, <3>2 DEF Keyed
  <2>3. Keyed(new, mid')
    BY <1>4, <2>1
  <2>4. \A i \in 1 .. Len(x), j \in 1 .. Len(new) : x[i].key # new[j].key
    <3>1. \A i \in 1 .. Len(x) : x[i].key \in Int /\ x[i].key <= first - 1
      BY <1>9, <1>10, EntryKeys DEF Keyed
    <3>2. \A j \in 1 .. Len(new) : new[j].key \in Int /\ new[j].key >= first
      BY <1>4, EntryKeys
    <3> QED BY <3>1, <3>2
  <2>5. Keyed(x \o new, mid')
    BY <1>4, <1>9, <2>1, <2>2, <2>3, <2>4, JoinKeyed
  <2> QED BY <1>11, <2>5
<1>13. mid' \in Nat /\ sent' \in Nat /\ (firing' => sent' >= SleepCount)
  <2> DEFINE q == ToPause(done)
  <2>1. /\ n \in Nat /\ q \in 1 .. SleepCount /\ (done = 0 => q = SleepCount) /\ mid' = first + n - 1
        /\ sent' = (IF pause THEN done + n ELSE 0) /\ SleepCount \in Nat
    BY <1>1, <1>2, QosAssumption
  <2>2. pause => n = q
    BY DEF pause
  <2>3. firing' => pause
    BY <1>2, Zenon
  <2> HIDE DEF q
  <2>4. mid' \in Nat
    BY <2>1
  <2>5. sent' \in Nat
    BY <2>1
  <2>6. pause => sent' >= SleepCount
    BY <2>1, <2>2
  <2> QED BY <2>3, <2>4, <2>5, <2>6, Zenon
<1>14. firing' \in BOOLEAN /\ (~firing' => batch' = <<>>)
  BY <1>2, Zenon DEF pause
<1>15. Entries(onto) \cup Range(new) \subseteq Entries(buf')
  BY <1>4, <1>9, <1>11
<1>16. Held(buf') \cap Held(batch') = {} /\ Held(buf') \cup Held(batch') = Held(b) \cup Held(onto)
  BY <1>8, <1>9, <1>11
<1>17. b = <<>> => Range(new) = {}
  <2>1. b = <<>> => Len(new) = 0
    BY <1>1, <1>4
  <2>2. Len(new) = 0 => Entries(new) = {}
    BY DEF Entries
  <2> QED BY <1>4, <2>1, <2>2
<1> QED
  BY <1>4, <1>6, <1>11, <1>12, <1>13, <1>14, <1>15, <1>16, <1>17 DEF new, a
-----------------------------------------------------------------------------
(* The inductive invariant.  A message waits at one place, and what may    *)
(* still be confirmed is in the stack under a key of its own: this is why  *)
(* a confirmation takes the message it is for.                             *)
WaitsOnce ==
  /\ Once(buf) /\ Once(batch) /\ Held(buf) \cap Held(batch) = {}
  /\ Held(buf) \cup Held(batch) \subseteq published
  /\ acked \cap (Held(buf) \cup Held(batch)) = {}
  /\ published \ (acked \cup lost) \subseteq Held(buf) \cup Held(batch)

ConfirmsItsOwn ==
  /\ Keyed(buf, mid)
  /\ wire \subseteq Entries(buf)
  /\ ~client => wire = {}

PausesAfterSleepCount ==
  /\ ~firing => batch = <<>>
  /\ firing => sent >= SleepCount

QInv == TypeOK /\ WaitsOnce /\ ConfirmsItsOwn /\ PausesAfterSleepCount

LEMMA HeldIs ==
  \A s \in Seq(Entry) : {s[i].msg : i \in DOMAIN s} = Held(s)
  BY DEF Held

LEMMA InvInit == Init => QInv
<1> SUFFICES ASSUME Init PROVE QInv
  OBVIOUS
<1>1. TypeOK
  <2>1. connects \in 0 .. MaxConnects /\ mid \in Nat /\ sent \in Nat
    BY QosAssumption DEF Init
  <2>2. buf \in Seq(Entry) /\ batch \in Seq(Entry)
    BY NothingSound DEF Init
  <2> QED BY <2>1, <2>2 DEF Init, TypeOK
<1>2. WaitsOnce
  BY NothingSound DEF Init, WaitsOnce
<1>3. ConfirmsItsOwn
  BY NothingSound DEF Init, ConfirmsItsOwn
<1>4. PausesAfterSleepCount
  BY DEF Init, PausesAfterSleepCount
<1> QED
  BY <1>1, <1>2, <1>3, <1>4 DEF QInv

(* A new message gets an id above all others.                              *)
LEMMA PublishKeeps ==
  ASSUME QInv, NEW m \in Msgs, Publish(m)
  PROVE  QInv'
<1> DEFINE e == [key |-> mid', msg |-> m]
<1>1. /\ client /\ m \notin published /\ mid' = mid + 1 /\ mid \in Nat
      /\ buf \in Seq(Entry) /\ e \in Entry /\ e.key = mid + 1 /\ e.msg = m
      /\ e \in [key : Nat \ {ResetKey}, msg : Msgs]
  BY DEF QInv, TypeOK, Publish, Entry, ResetKey
<1>2. /\ wire' = wire \cup {e} /\ published' = published \cup {m}
      /\ client' = client /\ connects' = connects /\ batch' = batch /\ sent' = sent
      /\ firing' = firing /\ acked' = acked /\ lost' = lost
  BY DEF Publish
<1>3. buf' = buf \o <<e>>
  BY <1>1 DEF Publish, Pushed
<1> DEFINE one == <<e>>
<1>4. /\ one \in Seq(Entry) /\ Len(one) = 1 /\ one[1] = e
      /\ \A i \in 1 .. Len(one) : i = 1 /\ one[i] = e
      /\ buf' = buf \o one
  BY <1>1, <1>3
<1> HIDE DEF e, one
<1>5. Once(one) /\ Held(one) = {m} /\ Entries(one) = {e} /\ Keyed(one, mid')
  <2>1. one[1] = e /\ 1 \in 1 .. Len(one)
    BY <1>4
  <2>2. Once(one)
    BY <1>4 DEF Once
  <2>3. Held(one) = {m}
    BY <1>1, <1>4, <2>1 DEF Held
  <2>4. Entries(one) = {e}
    BY <1>4, <2>1 DEF Entries
  <2>5. Keyed(one, mid')
    BY <1>1, <1>4 DEF Keyed
  <2> QED BY <2>2, <2>3, <2>4, <2>5
<1>6. m \notin Held(buf) /\ Once(buf)
  BY <1>1 DEF QInv, WaitsOnce
<1>7. /\ buf' \in Seq(Entry) /\ Once(buf')
      /\ Held(buf') = Held(buf) \cup {m} /\ Entries(buf') = Entries(buf) \cup {e}
  <2> DEFINE s == buf \o one
  <2>1. /\ s \in Seq(Entry) /\ Once(s)
        /\ Held(s) = Held(buf) \cup {m} /\ Entries(s) = Entries(buf) \cup {e}
    BY <1>1, <1>4, <1>5, <1>6, JoinHeld
  <2> HIDE DEF s
  <2> QED BY <1>4, <2>1 DEF s
<1>8. Keyed(buf', mid')
  <2>1. \A i \in 1 .. Len(buf) : buf[i].key \in Int /\ buf[i].key <= mid
    BY <1>1, EntryKeys DEF QInv, ConfirmsItsOwn, Keyed
  <2>2. Keyed(buf, mid')
    <3>1. \A i \in 1 .. Len(buf) : buf[i].key <= mid'
      BY <1>1, <2>1
    <3> QED BY <3>1 DEF QInv, ConfirmsItsOwn, Keyed
  <2>3. \A i \in 1 .. Len(buf), j \in 1 .. Len(one) : buf[i].key # one[j].key
    BY <1>1, <1>4, <2>1
  <2>4. Keyed(buf \o one, mid')
    <3>1. mid' \in Int
      BY <1>1
    <3>2. \A i \in 1 .. Len(buf), j \in 1 .. Len(one) : buf[i].key = one[j].key => buf[i].key = ResetKey
      BY <2>3
    <3>3. buf \in Seq(Entry) /\ one \in Seq(Entry) /\ Keyed(one, mid')
      BY <1>1, <1>4, <1>5
    <3> QED BY <2>2, <3>1, <3>2, <3>3, JoinKeyed
  <2> QED BY <1>4, <2>4
<1>9. TypeOK'
  BY <1>1, <1>2, <1>7 DEF QInv, TypeOK
<1>10. WaitsOnce'
  BY <1>1, <1>2, <1>7 DEF QInv, WaitsOnce, TypeOK
<1>11. ConfirmsItsOwn'
  BY <1>1, <1>2, <1>7, <1>8 DEF QInv, ConfirmsItsOwn
<1>12. PausesAfterSleepCount'
  BY <1>2 DEF QInv, PausesAfterSleepCount
<1> QED
  BY <1>9, <1>10, <1>11, <1>12 DEF QInv

(* A confirmation takes its message, and no other.                         *)
LEMMA OnPublishKeeps ==
  ASSUME QInv, NEW w \in wire, OnPublish(w)
  PROVE  QInv'
<1>1. /\ client' = client /\ connects' = connects /\ mid' = mid /\ batch' = batch /\ sent' = sent
      /\ firing' = firing /\ published' = published /\ lost' = lost
      /\ wire' = wire \ {w} /\ acked' = acked \cup {w.msg} /\ buf' = Removed(buf, w.key)
  BY DEF OnPublish
<1>2. /\ w \in Entries(buf) /\ w.key # ResetKey /\ w \in [key : Nat \ {ResetKey}, msg : Msgs]
      /\ buf \in Seq(Entry) /\ Once(buf) /\ Keyed(buf, mid) /\ mid \in Int
  BY DEF QInv, TypeOK, WaitsOnce, ConfirmsItsOwn
<1>3. /\ buf' \in Seq(Entry) /\ Once(buf') /\ Keyed(buf', mid)
      /\ Held(buf') = Held(buf) \ {w.msg} /\ Entries(buf) \ {w} \subseteq Entries(buf')
  BY <1>1, <1>2, RemovedSound
<1>4. w.msg \in Held(buf)
  BY <1>2 DEF Entries, Held
<1>5. TypeOK'
  BY <1>1, <1>2, <1>3, <1>4 DEF QInv, TypeOK, WaitsOnce
<1>6. WaitsOnce'
  BY <1>1, <1>3, <1>4 DEF QInv, WaitsOnce
<1>7. ConfirmsItsOwn'
  BY <1>1, <1>3 DEF QInv, ConfirmsItsOwn
<1>8. PausesAfterSleepCount'
  BY <1>1 DEF QInv, PausesAfterSleepCount
<1> QED
  BY <1>5, <1>6, <1>7, <1>8 DEF QInv

LEMMA OnDisconnectKeeps ==
  ASSUME QInv, OnDisconnect
  PROVE  QInv'
<1>1. /\ client' = FALSE /\ connects' = connects /\ mid' = mid /\ buf' = buf /\ batch' = batch
      /\ sent' = sent /\ firing' = firing /\ published' = published /\ lost' = lost
      /\ wire' = {} /\ acked' = acked
  BY DEF OnDisconnect
<1> QED
  BY <1>1 DEF QInv, TypeOK, WaitsOnce, ConfirmsItsOwn, PausesAfterSleepCount

(* What a resend takes it sends again, puts back or leaves for after its   *)
(* pause.                                                                  *)
LEMMA OnConnectKeeps ==
  ASSUME QInv, NEW n, OnConnect(n)
  PROVE  QInv'
<1> DEFINE new == Resent(1, SubSeq(buf, 1, n))
<1>1. /\ ~firing /\ client' = TRUE /\ connects' = connects + 1 /\ connects < MaxConnects
      /\ Resend(buf, <<>>, 0, 1, n) /\ wire' = Range(new)
      /\ published' = published /\ acked' = acked /\ lost' = lost
  BY DEF OnConnect
<1>2. /\ buf \in Seq(Entry) /\ Once(buf) /\ batch = <<>>
  BY <1>1 DEF QInv, TypeOK, WaitsOnce, PausesAfterSleepCount
<1>3. /\ <<>> \in Seq(Entry) /\ Once(<<>>) /\ Held(<<>>) = {} /\ Keyed(<<>>, 1 - 1)
  BY NothingSound
<1>4. /\ mid' \in Nat /\ sent' \in Nat /\ firing' \in BOOLEAN
      /\ buf' \in Seq(Entry) /\ batch' \in Seq(Entry)
      /\ Once(buf') /\ Once(batch') /\ Held(buf') \cap Held(batch') = {}
      /\ Held(buf') \cup Held(batch') = Held(buf) \cup Held(<<>>)
      /\ Keyed(buf', mid')
      /\ Range(new) \subseteq Entries(buf')
      /\ Range(new) \subseteq [key : Nat \ {ResetKey}, msg : Msgs]
      /\ ~firing' => batch' = <<>>
      /\ firing' => sent' >= SleepCount
  <2>1. Held(buf) \cap Held(<<>>) = {} /\ 0 \in Nat /\ 1 \in Nat \ {0}
    BY <1>3
  <2> HIDE DEF new
  <2> QED BY <1>1, <1>2, <1>3, <2>1, ResendSound DEF new
<1> HIDE DEF new
<1>5. Held(buf') \cup Held(batch') = Held(buf) \cup Held(batch)
  BY <1>2, <1>4
<1>6. TypeOK'
  BY <1>1, <1>4, QosAssumption DEF QInv, TypeOK
<1>7. WaitsOnce'
  BY <1>1, <1>4, <1>5 DEF QInv, WaitsOnce
<1>8. ConfirmsItsOwn'
  BY <1>1, <1>4 DEF ConfirmsItsOwn
<1>9. PausesAfterSleepCount'
  BY <1>4 DEF PausesAfterSleepCount
<1> QED
  BY <1>6, <1>7, <1>8, <1>9 DEF QInv

LEMMA ResumeKeeps ==
  ASSUME QInv, NEW n, Resume(n)
  PROVE  QInv'
<1> DEFINE new == Resent(mid + 1, SubSeq(batch, 1, n))
<1>1. /\ firing /\ client' = client /\ connects' = connects /\ (client \/ batch = <<>>)
      /\ Resend(batch, buf, sent, mid + 1, n) /\ wire' = wire \cup Range(new)
      /\ published' = published /\ acked' = acked /\ lost' = lost
  BY DEF Resume
<1>2. /\ buf \in Seq(Entry) /\ Once(buf) /\ batch \in Seq(Entry) /\ Once(batch)
      /\ Held(batch) \cap Held(buf) = {} /\ sent \in Nat /\ sent >= SleepCount
      /\ mid \in Nat /\ Keyed(buf, mid)
  BY <1>1 DEF QInv, TypeOK, WaitsOnce, ConfirmsItsOwn, PausesAfterSleepCount
<1>3. mid + 1 \in Nat \ {0} /\ (mid + 1) - 1 = mid
  BY <1>2
<1>4. /\ mid' \in Nat /\ sent' \in Nat /\ firing' \in BOOLEAN
      /\ buf' \in Seq(Entry) /\ batch' \in Seq(Entry)
      /\ Once(buf') /\ Once(batch') /\ Held(buf') \cap Held(batch') = {}
      /\ Held(buf') \cup Held(batch') = Held(batch) \cup Held(buf)
      /\ Keyed(buf', mid')
      /\ Entries(buf) \cup Range(new) \subseteq Entries(buf')
      /\ Range(new) \subseteq [key : Nat \ {ResetKey}, msg : Msgs]
      /\ ~firing' => batch' = <<>>
      /\ firing' => sent' >= SleepCount
      /\ batch = <<>> => Range(new) = {}
  <2>1. Keyed(buf, (mid + 1) - 1)
    BY <1>2, <1>3
  <2> HIDE DEF new
  <2> QED BY <1>1, <1>2, <1>3, <2>1, ResendSound DEF new
<1> HIDE DEF new
<1>5. TypeOK'
  BY <1>1, <1>4 DEF QInv, TypeOK
<1>6. WaitsOnce'
  BY <1>1, <1>4 DEF QInv, WaitsOnce
<1>7. ConfirmsItsOwn'
  BY <1>1, <1>4 DEF QInv, ConfirmsItsOwn
<1>8. PausesAfterSleepCount'
  BY <1>4 DEF PausesAfterSleepCount
<1> QED
  BY <1>5, <1>6, <1>7, <1>8 DEF QInv

(* What a failed resend had not sent is lost.                              *)
LEMMA ResumeErrorKeeps ==
  ASSUME QInv, ResumeError
  PROVE  QInv'
<1>1. /\ client' = client /\ connects' = connects /\ mid' = mid /\ buf' = buf /\ wire' = wire
      /\ published' = published /\ acked' = acked /\ sent' = 0 /\ firing' = FALSE /\ batch' = <<>>
  BY DEF ResumeError
<1>2. lost' = lost \cup Held(batch)
  BY HeldIs DEF ResumeError, QInv, TypeOK
<1>3. TypeOK'
  BY <1>1, <1>2, NothingSound DEF QInv, TypeOK, WaitsOnce
<1>4. WaitsOnce'
  BY <1>1, <1>2, NothingSound DEF QInv, WaitsOnce
<1>5. ConfirmsItsOwn'
  BY <1>1 DEF QInv, ConfirmsItsOwn
<1>6. PausesAfterSleepCount'
  BY <1>1 DEF PausesAfterSleepCount
<1> QED
  BY <1>3, <1>4, <1>5, <1>6 DEF QInv

LEMMA InvStep == QInv /\ [Next]_vars => QInv'
<1> SUFFICES ASSUME QInv, [Next]_vars PROVE QInv'
  OBVIOUS
<1>1. CASE \E m \in Msgs : Publish(m)
  BY <1>1, PublishKeeps
<1>2. CASE \E w \in wire : OnPublish(w)
  BY <1>2, OnPublishKeeps
<1>3. CASE \E n \in 0 .. Cardinality(Msgs) : OnConnect(n) \/ Resume(n)
  BY <1>3, OnConnectKeeps, ResumeKeeps
<1>4. CASE OnDisconnect
  BY <1>4, OnDisconnectKeeps
<1>5. CASE ResumeError
  BY <1>5, ResumeErrorKeeps
<1>6. CASE UNCHANGED vars
  BY <1>6 DEF vars, QInv, TypeOK, WaitsOnce, ConfirmsItsOwn, PausesAfterSleepCount
<1> QED
  BY <1>1, <1>2, <1>3, <1>4, <1>5, <1>6 DEF Next

THEOREM Invariant == Spec => []QInv
  BY InvInit, InvStep, PTL DEF Spec

-----------------------------------------------------------------------------
(* An unconfirmed message is in the stack, or under way in a resend,       *)
(* exactly once, unless a resend that raised an error lost it, and a       *)
(* confirmed one no longer (index_stack.lua, cloud.lua).                   *)
THEOREM KeptExactlyOnce == Spec => []ExactlyOnce
<1>1. QInv => ExactlyOnce
  <2> SUFFICES ASSUME QInv PROVE ExactlyOnce
    OBVIOUS
  <2>1. /\ buf \in Seq(Entry) /\ batch \in Seq(Entry)
        /\ Once(buf) /\ Once(batch) /\ Held(buf) \cap Held(batch) = {}
    BY DEF QInv, TypeOK, WaitsOnce
  <2>2. Waiting = Held(buf) \cup Held(batch)
    BY <2>1, HeldIs DEF Waiting
  <2>3. KeptUntilConfirmed
    BY <2>2 DEF QInv, WaitsOnce, KeptUntilConfirmed
  <2> DEFINE s == buf \o batch f == [i \in DOMAIN s |-> s[i].msg]
  <2>4. s \in Seq(Entry) /\ Once(s)
    BY <2>1, JoinHeld
  <2> HIDE DEF s
  <2>5. IsInjective(f)
    BY <2>4 DEF IsInjective, Once
  <2>6. acked \cap Waiting = {}
    BY <2>2 DEF QInv, WaitsOnce
  <2>7. KeptOnce
    BY <2>5, <2>6 DEF KeptOnce, s
  <2> QED BY <2>3, <2>7 DEF ExactlyOnce, QInv
<1> QED BY <1>1, Invariant, PTL

(* Only a resend that had sent SleepCount messages loses any, and only     *)
(* those it still held: it is ResumeError, the callback of fire_all that   *)
(* finds no client after its pause (cloud.lua).                            *)
THEOREM OnlyBacklogLost == Spec => LosesOnlyBacklog
<1> DEFINE A == lost' # lost => sent >= SleepCount /\ lost' \ lost \subseteq Waiting \ Waiting'
<1>1. QInv /\ [Next]_vars => [A]_vars
  <2> SUFFICES ASSUME QInv, Next, lost' # lost
               PROVE  sent >= SleepCount /\ lost' \ lost \subseteq Waiting \ Waiting'
    OBVIOUS
  <2>1. ResumeError
    BY DEF Next, Publish, OnPublish, OnConnect, OnDisconnect, Resume
  <2>2. /\ buf' = buf /\ batch' = <<>> /\ firing
        /\ buf \in Seq(Entry) /\ batch \in Seq(Entry) /\ <<>> \in Seq(Entry)
        /\ Held(buf) \cap Held(batch) = {} /\ Held(<<>>) = {}
    BY <2>1, NothingSound DEF ResumeError, QInv, TypeOK, WaitsOnce
  <2>3. lost' \ lost \subseteq Held(batch)
    BY <2>1, <2>2, HeldIs DEF ResumeError
  <2>4. Waiting = Held(buf) \cup Held(batch) /\ Waiting' = Held(buf)
    <3>1. Waiting' = {buf'[i].msg : i \in DOMAIN buf'} \cup {batch'[i].msg : i \in DOMAIN batch'}
      BY DEF Waiting
    <3>2. Waiting' = Held(buf') \cup Held(batch')
      BY <2>2, <3>1, HeldIs
    <3> QED BY <2>2, <3>2, HeldIs DEF Waiting
  <2>5. sent >= SleepCount
    BY <2>2 DEF QInv, PausesAfterSleepCount
  <2> QED BY <2>2, <2>3, <2>4, <2>5
<1> HIDE DEF A
<1>2. [][A]_vars => LosesOnlyBacklog
  BY DEF LosesOnlyBacklog, A
<1> QED BY <1>1, <1>2, Invariant, PTL DEF Spec

-----------------------------------------------------------------------------
(* The critical sections.                                                  *)

(* Who owns the section and who stands in line.                            *)
Owner ==
  /\ \A t \in Threads : pc[t] \in {"in", "woken"} <=> current = t
  /\ \A t \in Threads : depth[t] > 0 <=> pc[t] = "in"
  /\ ref = IF current = None THEN 0 ELSE depth[current]

Line ==
  /\ \A i \in 1 .. Len(queue) : pc[queue[i]] = "waiting"
  /\ \A i, j \in 1 .. Len(queue) : queue[i] = queue[j] => i = j

Asking == \A t \in Threads : pc[t] = "out" => ~asked[t]

SectionInv == CSTypeOK /\ Owner /\ Line /\ Asking /\ NeverStuck

(* What the other invariants say follows from who owns the section.        *)
LEMMA SectionInvImplies ==
  ASSUME SectionInv
  PROVE  MutualExclusion
  BY DEF SectionInv, CSTypeOK, Owner, MutualExclusion

(* Nobody is there at the start.                                           *)
LEMMA SectionInitInv ==
  ASSUME CSInit
  PROVE  SectionInv
<1> USE CritSecAssumption
<1>1. CSTypeOK
  <2>1. ref \in 0 .. MaxDepth /\ 0 \in 0 .. MaxDepth /\ queue \in Seq(Threads)
    BY DEF CSInit
  <2> QED
    BY <2>1 DEF CSInit, CSTypeOK
<1>2. Owner
  BY DEF CSInit, Owner
<1>3. Line /\ Asking /\ NeverStuck
  BY DEF CSInit, Line, Asking, NeverStuck
<1> QED
  BY <1>1, <1>2, <1>3 DEF SectionInv

(* The line after a coroutine joined it, and after the first left.         *)
LEMMA HeirLeaves ==
  ASSUME CSTypeOK, Line, queue # <<>>
  PROVE  /\ Heir \in Threads /\ pc[Heir] = "waiting"
         /\ Behind \in Seq(Threads) /\ Len(Behind) = Len(queue) - 1
         /\ \A i \in 1 .. Len(Behind) : Behind[i] = queue[i + 1] /\ Behind[i] # Heir
<1>1. queue \in Seq(Threads) /\ Len(queue) \in Nat /\ Len(queue) > 0
  BY DEF CSTypeOK
<1>2. Heir = queue[1] /\ Behind = Tail(queue)
  BY DEF Heir, Behind
<1>3. Behind \in Seq(Threads) /\ Len(Behind) = Len(queue) - 1
  BY <1>1, <1>2
<1>4. \A i \in 1 .. Len(Behind) : Behind[i] = queue[i + 1]
  BY <1>1, <1>2, <1>3
<1>5. \A i \in 1 .. Len(Behind) : queue[i + 1] # queue[1]
  BY <1>1, <1>3 DEF Line
<1> QED
  BY <1>1, <1>2, <1>3, <1>4, <1>5 DEF Line

(* SectionInv survives every step.                                               *)
LEMMA SectionNextInv ==
  ASSUME SectionInv, [CSNext]_csvars
  PROVE  SectionInv'
<1> USE CritSecAssumption DEF SectionInv
<1>1. ASSUME NEW t \in Threads, NEW lock \in BOOLEAN, Enter(t, lock)
      PROVE  SectionInv'
  <2>1. pc[t] = "in" => depth[t] = ref /\ current = t
    BY DEF Owner
  <2>2. pc[t] = "out" => current = None /\ ref = 0 /\ depth[t] = 0
    BY <1>1 DEF Enter, Owner, CSTypeOK
  <2>3. CSTypeOK'
    <3>1. depth[t] < MaxDepth /\ depth[t] = ref
      BY <1>1, <2>1, <2>2 DEF Enter
    <3>2. ref' \in 0 .. MaxDepth /\ depth[t] + 1 \in 0 .. MaxDepth
      BY <1>1, <3>1 DEF Enter, Run, CSTypeOK
    <3>3. lock \in BOOLEAN /\ locked' \in BOOLEAN /\ (asked[t] \/ lock) \in BOOLEAN
      BY <1>1 DEF Enter, CSTypeOK
    <3> QED
      BY <1>1, <3>2, <3>3 DEF Enter, Run, CSTypeOK
  <2>4. Owner'
    BY <1>1, <2>1, <2>2 DEF Enter, Run, CSTypeOK, Owner
  <2>5. Line'
    BY <1>1 DEF Enter, Run, CSTypeOK, Line
  <2>6. Asking'
    BY <1>1 DEF Enter, Run, CSTypeOK, Asking
  <2>7. NeverStuck'
    BY <1>1 DEF Enter, Run, CSTypeOK, NeverStuck
  <2> QED
    BY <2>3, <2>4, <2>5, <2>6, <2>7
<1>2. ASSUME NEW t \in Threads, NEW lock \in BOOLEAN, Wait(t, lock)
      PROVE  SectionInv'
  <2>1. CSTypeOK'
    <3>1. Append(queue, t) \in Seq(Threads)
      BY DEF CSTypeOK
    <3>2. lock \in BOOLEAN
      OBVIOUS
    <3>3. locked' \in BOOLEAN
      BY <1>2 DEF Wait
    <3> QED
      BY <1>2, <3>1, <3>2, <3>3 DEF Wait, InLine, CSTypeOK
  <2>2. Owner'
    BY <1>2 DEF Wait, CSTypeOK, Owner
  <2>3. Line'
    BY <1>2 DEF Wait, InLine, CSTypeOK, Line
  <2>4. Asking'
    BY <1>2 DEF Wait, CSTypeOK, Asking
  <2>5. NeverStuck'
    BY <1>2 DEF Wait, Refused, CSTypeOK, NeverStuck
  <2> QED
    BY <2>1, <2>2, <2>3, <2>4, <2>5
<1>3. ASSUME NEW t \in Threads, Proceed(t)
      PROVE  SectionInv'
  <2>1. current = t /\ ref = 0 /\ depth[t] = 0
    BY <1>3 DEF Proceed, Owner, CSTypeOK
  <2>2. CSTypeOK'
    BY <1>3, <2>1 DEF Proceed, Run, CSTypeOK
  <2>3. Owner'
    BY <1>3, <2>1 DEF Proceed, Run, CSTypeOK, Owner
  <2>4. Line'
    BY <1>3 DEF Proceed, Run, CSTypeOK, Line
  <2>5. Asking' /\ NeverStuck'
    BY <1>3 DEF Proceed, Run, CSTypeOK, Asking, NeverStuck
  <2> QED
    BY <2>2, <2>3, <2>4, <2>5
<1>4. ASSUME NEW t \in Threads, Return(t)
      PROVE  SectionInv'
  <2>1. current = t /\ ref = depth[t] /\ depth[t] \in 1 .. MaxDepth
    BY <1>4 DEF Return, Owner, CSTypeOK
  <2>2. CASE ref # 1
    <3>1. /\ UNCHANGED <<current, queue, locked>> /\ ref' = ref - 1
          /\ depth' = [depth EXCEPT ![t] = @ - 1]
          /\ \A u \in Threads : pc'[u] = pc[u]
          /\ asked' = asked
          /\ pc' \in [Threads -> {"out", "waiting", "woken", "in"}]
      BY <1>4, <2>1, <2>2 DEF Return, CSTypeOK
    <3>2. CSTypeOK'
      BY <2>1, <2>2, <3>1 DEF CSTypeOK
    <3>3. Owner'
      BY <2>1, <2>2, <3>1 DEF CSTypeOK, Owner
    <3>4. Line' /\ Asking' /\ NeverStuck'
      BY <3>1 DEF Line, Asking, NeverStuck, CSTypeOK
    <3> QED
      BY <3>2, <3>3, <3>4
  <2>3. CASE ref = 1 /\ queue = <<>>
    <3>1. /\ current' = None /\ queue' = <<>> /\ locked' = FALSE /\ ref' = 0
          /\ depth' = [depth EXCEPT ![t] = 0]
          /\ pc' = [pc EXCEPT ![t] = "out"]
          /\ asked' = [asked EXCEPT ![t] = FALSE]
      <4>1. Heir = None /\ Behind = <<>>
        BY <2>3 DEF Heir, Behind
      <4>2. depth[t] = 1
        BY <2>1, <2>3
      <4>3. \A u \in Threads : u # None
        OBVIOUS
      <4>4. pc' = [pc EXCEPT ![t] = "out"]
        BY <1>4, <2>3, <4>1, <4>2, <4>3 DEF Return, CSTypeOK
      <4>5. asked' = [asked EXCEPT ![t] = FALSE]
        BY <1>4, <4>2 DEF Return, CSTypeOK
      <4> QED
        <5>1. ref' = 0 /\ depth' = [depth EXCEPT ![t] = 0]
          BY <1>4, <2>1, <2>3, <4>2 DEF Return, CSTypeOK
        <5> QED
          BY <1>4, <2>3, <4>1, <4>4, <4>5, <5>1 DEF Return, HandOver
    <3>2. CSTypeOK'
      <4>1. 0 \in 0 .. MaxDepth /\ <<>> \in Seq(Threads)
        OBVIOUS
      <4> QED
        BY <3>1, <4>1 DEF CSTypeOK
    <3>3. Owner'
      BY <2>1, <3>1 DEF CSTypeOK, Owner
    <3>4. Line' /\ Asking' /\ NeverStuck'
      BY <3>1 DEF Line, Asking, NeverStuck, CSTypeOK
    <3> QED
      BY <3>2, <3>3, <3>4
  <2>4. CASE ref = 1 /\ queue # <<>>
    <3>1. /\ Heir \in Threads /\ pc[Heir] = "waiting"
          /\ Behind \in Seq(Threads) /\ Len(Behind) = Len(queue) - 1
          /\ \A i \in 1 .. Len(Behind) : Behind[i] = queue[i + 1] /\ Behind[i] # Heir
      BY <2>4, HeirLeaves
    <3>2. Heir # t
      BY <1>4, <3>1 DEF Return
    <3>3. /\ current' = Heir /\ queue' = Behind /\ locked' = FALSE /\ ref' = 0
          /\ depth' = [depth EXCEPT ![t] = 0]
          /\ pc' = [[pc EXCEPT ![t] = "out"] EXCEPT ![Heir] = "woken"]
          /\ asked' = [asked EXCEPT ![t] = FALSE]
      <4>1. depth[t] = 1
        BY <2>1, <2>4
      <4>2. pc' = [[pc EXCEPT ![t] = "out"] EXCEPT ![Heir] = "woken"]
        BY <1>4, <2>4, <3>1, <3>2, <4>1 DEF Return, CSTypeOK
      <4>3. asked' = [asked EXCEPT ![t] = FALSE]
        BY <1>4, <4>1 DEF Return, CSTypeOK
      <4> QED
        <5>1. ref' = 0 /\ depth' = [depth EXCEPT ![t] = 0]
          BY <1>4, <2>1, <2>4, <4>1 DEF Return, CSTypeOK
        <5> QED
          BY <1>4, <2>4, <4>2, <4>3, <5>1 DEF Return, HandOver
    <3>4. CSTypeOK'
      <4>1. 0 \in 0 .. MaxDepth
        OBVIOUS
      <4> QED
        BY <3>1, <3>3, <4>1 DEF CSTypeOK
    <3>5. Owner'
      <4>1. \A u \in Threads : pc'[u] \in {"in", "woken"} <=> current' = u
        BY <2>1, <3>1, <3>2, <3>3 DEF CSTypeOK, Owner
      <4>2. \A u \in Threads : depth'[u] > 0 <=> pc'[u] = "in"
        BY <2>1, <3>1, <3>2, <3>3 DEF CSTypeOK, Owner
      <4>3. depth'[Heir] = 0
        BY <3>1, <3>2, <3>3 DEF CSTypeOK, Owner
      <4> QED
        BY <3>1, <3>3, <4>1, <4>2, <4>3 DEF Owner
    <3>6. Line'
      <4>1. Len(queue) \in Nat
        BY DEF CSTypeOK
      <4>2. \A i \in 1 .. Len(Behind) : i + 1 \in 1 .. Len(queue)
        BY <3>1, <4>1
      <4>3. \A i \in 1 .. Len(Behind) : pc[Behind[i]] = "waiting" /\ Behind[i] \in Threads
        <5>1. \A i \in 1 .. Len(Behind) : Behind[i] \in Threads
          BY <3>1
        <5> QED
          BY <3>1, <4>2, <5>1 DEF Line
      <4>4. \A i \in 1 .. Len(Behind) : pc'[Behind[i]] = "waiting"
        BY <1>4, <3>1, <3>3, <4>3 DEF CSTypeOK, Return
      <4>5. \A i, j \in 1 .. Len(Behind) : Behind[i] = Behind[j] => i = j
        BY <3>1, <4>1, <4>2 DEF Line
      <4> QED
        BY <3>3, <4>4, <4>5 DEF Line
    <3>7. Asking' /\ NeverStuck'
      BY <3>1, <3>3 DEF Asking, NeverStuck, CSTypeOK
    <3> QED
      BY <3>4, <3>5, <3>6, <3>7
  <2> QED
    BY <2>2, <2>3, <2>4
<1>5. ASSUME UNCHANGED csvars
      PROVE  SectionInv'
  BY <1>5 DEF csvars, CSTypeOK, Owner, Line, Asking, NeverStuck
<1> QED
  BY <1>1, <1>2, <1>3, <1>4, <1>5 DEF CSNext, Call

(* Two coroutines never run their functions in the section together, and a *)
(* woken one always finds it empty, as queue.lua:29 asserts.               *)
THEOREM Exclusive == CSSpec => []MutualExclusion
<1>1. SectionInv /\ [CSNext]_csvars => SectionInv'
  BY SectionNextInv
<1>2. SectionInv => MutualExclusion
  BY SectionInvImplies
<1>0. CSInit => SectionInv
  BY SectionInitInv
<1> QED
  BY <1>0, <1>1, <1>2, PTL DEF CSSpec

(* A critical section is orderly for any number of coroutines, any depth   *)
(* of calls, and with the lock or without it.                              *)
THEOREM SectionOrderly == CSSpec => []Orderly
<1>1. SectionInv /\ [CSNext]_csvars => SectionInv'
  BY SectionNextInv
<1>2. SectionInv => Orderly
  BY SectionInvImplies DEF SectionInv, Orderly
<1>0. CSInit => SectionInv
  BY SectionInitInv
<1> QED
  BY <1>0, <1>1, <1>2, PTL DEF CSSpec

(* The lock is never left behind: a section stays locked only while a      *)
(* coroutine that asked for the lock is inside or in line.                 *)
THEOREM NeverStuckForever == CSSpec => []NeverStuck
<1>1. SectionInv /\ [CSNext]_csvars => SectionInv'
  BY SectionNextInv
<1>2. SectionInv => NeverStuck
  BY DEF SectionInv
<1>0. CSInit => SectionInv
  BY SectionInitInv
<1> QED
  BY <1>0, <1>1, <1>2, PTL DEF CSSpec

(* Those who wait stand in line, and as long as there is a line somebody   *)
(* owns the section: it is never free while a coroutine waits for it.      *)
Queued ==
  /\ \A t \in Threads : pc[t] = "waiting" => \E i \in 1 .. Len(queue) : queue[i] = t
  /\ current = None => queue = <<>>

LEMMA NextQueued ==
  ASSUME SectionInv, Queued, [CSNext]_csvars
  PROVE  Queued'
<1> USE CritSecAssumption
<1>1. ASSUME NEW t \in Threads, NEW lock \in BOOLEAN, Enter(t, lock)
      PROVE  Queued'
  BY <1>1 DEF Enter, Run, SectionInv, CSTypeOK, Queued
<1>2. ASSUME NEW t \in Threads, NEW lock \in BOOLEAN, Wait(t, lock)
      PROVE  Queued'
  <2>1. /\ Len(queue') = Len(queue) + 1 /\ queue'[Len(queue) + 1] = t
        /\ \A i \in 1 .. Len(queue) : queue'[i] = queue[i]
        /\ Len(queue) \in Nat
    BY <1>2 DEF Wait, InLine, SectionInv, CSTypeOK
  <2>2. current' # None
    BY <1>2 DEF Wait
  <2>3. \A u \in Threads : pc'[u] = "waiting" => u = t \/ pc[u] = "waiting"
    BY <1>2 DEF Wait, SectionInv, CSTypeOK
  <2> QED
    BY <2>1, <2>2, <2>3 DEF Queued
<1>3. ASSUME NEW t \in Threads, Proceed(t)
      PROVE  Queued'
  BY <1>3 DEF Proceed, Run, SectionInv, CSTypeOK, Queued
<1>4. ASSUME NEW t \in Threads, Return(t)
      PROVE  Queued'
  <2>1. CASE ref # 1 \/ queue = <<>>
    <3>1. queue' = queue
      BY <1>4, <2>1 DEF Return, HandOver, Behind
    <3>2. \A u \in Threads : pc'[u] = "waiting" => pc[u] = "waiting"
      BY <1>4 DEF Return
    <3>3. current' = None => queue' = <<>>
      BY <1>4, <2>1, <3>1 DEF Return, Queued
    <3> QED
      BY <3>1, <3>2, <3>3 DEF Queued
  <2>2. CASE ref = 1 /\ queue # <<>>
    <3>1. /\ Heir \in Threads /\ Behind \in Seq(Threads) /\ Len(Behind) = Len(queue) - 1
          /\ \A i \in 1 .. Len(Behind) : Behind[i] = queue[i + 1]
      BY <2>2, HeirLeaves DEF SectionInv
    <3>2. current' = Heir /\ queue' = Behind
      BY <1>4, <2>2 DEF Return, HandOver
    <3>3. Heir = queue[1] /\ Len(queue) \in Nat
      BY <2>2 DEF Heir, SectionInv, CSTypeOK
    <3>4. ASSUME NEW u \in Threads, pc'[u] = "waiting"
          PROVE  \E i \in 1 .. Len(queue') : queue'[i] = u
      <4>1. pc[u] = "waiting" /\ u # Heir
        BY <1>4, <2>2, <3>4 DEF Return
      <4>2. PICK i \in 1 .. Len(queue) : queue[i] = u
        BY <4>1 DEF Queued
      <4>3. i - 1 \in 1 .. Len(Behind) /\ Behind[i - 1] = u
        BY <3>1, <3>3, <4>1, <4>2
      <4> QED
        BY <3>2, <4>3
    <3> QED
      BY <3>1, <3>2, <3>4 DEF Queued
  <2> QED
    BY <2>1, <2>2
<1>5. ASSUME UNCHANGED csvars
      PROVE  Queued'
  BY <1>5 DEF csvars, Queued
<1> QED
  BY <1>1, <1>2, <1>3, <1>4, <1>5 DEF CSNext, Call

(* A call goes straight into the section only when nobody waits for it:    *)
(* whoever waits, and whoever was woken and has yet to run (queue.lua:17), *)
(* is served before (lockable_queue.lua:39).                               *)
THEOREM NobodyOvertakes == CSSpec => NoBarging
<1> DEFINE Inv == SectionInv /\ Queued
<1>1. CSInit => Inv
  BY SectionInitInv DEF CSInit, Queued
<1>2. Inv /\ [CSNext]_csvars => Inv'
  BY SectionNextInv, NextQueued
<1>3. Inv /\ [CSNext]_csvars =>
        [\A t, u \in Threads : pc[t] = "out" /\ pc'[t] = "in" => pc[u] \notin {"waiting", "woken"}]_csvars
  <2> SUFFICES ASSUME Inv, CSNext, NEW t \in Threads, NEW u \in Threads, pc[t] = "out", pc'[t] = "in"
               PROVE  pc[u] \notin {"waiting", "woken"}
    OBVIOUS
  <2>1. \E lock \in BOOLEAN : Enter(t, lock)
    <3>1. ASSUME NEW v \in Threads, NEW lock \in BOOLEAN, Enter(v, lock)
          PROVE  v = t
      BY <3>1 DEF Enter, Run, SectionInv, CSTypeOK
    <3>2. ASSUME NEW v \in Threads, NEW lock \in BOOLEAN
          PROVE  ~Wait(v, lock)
      BY DEF Wait, SectionInv, CSTypeOK
    <3>3. ASSUME NEW v \in Threads
          PROVE  ~Proceed(v)
      BY DEF Proceed, Run, SectionInv, CSTypeOK
    <3>4. ASSUME NEW v \in Threads
          PROVE  ~Return(v)
      BY DEF Return
    <3> QED
      BY <3>1, <3>2, <3>3, <3>4 DEF CSNext, Call
  <2>2. current = None
    BY <2>1 DEF Enter, SectionInv, Owner
  <2>3. pc[u] # "woken"
    BY <2>2, CritSecAssumption DEF SectionInv, Owner
  <2>4. pc[u] # "waiting"
    BY <2>2 DEF Queued
  <2> QED
    BY <2>3, <2>4
<1> HIDE DEF Inv
<1> QED
  BY <1>1, <1>2, <1>3, PTL DEF CSSpec, NoBarging

-----------------------------------------------------------------------------
(* Numbers, for the table of handles and the list of names.                *)
(* A set of natural numbers that is not empty has a least element: Min of  *)
(* FiniteSetsExt is one of its elements, and what fails for some number    *)
(* fails for a least one, the form that induction takes here.              *)
LEMMA SetMin ==
  ASSUME NEW S \in SUBSET Nat, S # {}
  PROVE  \E x \in S : \A y \in S : x <= y
<1> DEFINE R == {ss \in Nat \X Nat : ss[1] < ss[2]}
<1>1. IsWellFoundedOn(R, Nat)
  BY NatLessThanWellFounded DEF OpToRel
<1>2. PICK x \in S : \A y \in S : ~(<<y, x>> \in R)
  BY <1>1, WFMin, Zenon
<1>3. ASSUME NEW y \in S PROVE x <= y
  <2>1. <<y, x>> \in Nat \X Nat /\ <<y, x>>[1] = y /\ <<y, x>>[2] = x
    OBVIOUS
  <2>2. y < x => <<y, x>> \in R
    BY <2>1
  <2> QED
    BY <2>2, <1>2
<1> QED
  BY <1>3
(* Division with remainder.                                                *)
LEMMA ModIs ==
  ASSUME NEW S \in Nat \ {0}, NEW h \in Nat
  PROVE  h % S \in 0 .. S - 1 /\ h = S * (h \div S) + (h % S) /\ h \div S \in Nat
  OBVIOUS
(* Quotient and remainder are unique.                                      *)
LEMMA ModUnique ==
  ASSUME NEW S \in Nat \ {0}, NEW p \in Nat, NEW q \in Nat, NEW r \in 0 .. S - 1, NEW u \in 0 .. S - 1,
         S * q + r = S * p + u
  PROVE  r = u
<1>1. CASE q = p
  BY <1>1
<1>2. CASE q >= p + 1
  <2>1. S * q >= S * (p + 1)
    BY <1>2
  <2>2. S * (p + 1) = S * p + S
    OBVIOUS
  <2> QED
    BY <2>1, <2>2
<1>3. CASE p >= q + 1
  <2>1. S * p >= S * (q + 1)
    BY <1>3
  <2>2. S * (q + 1) = S * q + S
    OBVIOUS
  <2> QED
    BY <2>1, <2>2
<1> QED
  BY <1>1, <1>2, <1>3

-----------------------------------------------------------------------------
(* The table of handles (skynet_handle.c:34-133).                          *)
(* The launcher service launches all others (service/launcher.lua).        *)
OneLauncher == \A t, u \in Thread : t = u
(* What skynet_handle_retireall knows of its pass.                         *)
Passes == [at : {"out", "look", "retire", "done"}, i : Nat, handle : 0 .. MaxHandle, n : {0, 1}]

(* Types, without the names.                                               *)
Shapes ==
  /\ slot \in Seq(Context \cup {Null}) /\ Len(slot) # 0
  /\ index \in Nat \ {0}
  /\ handle \in [Context -> 0 .. MaxHandle]
  /\ got \in [Thread -> [ctx : Context \cup {Null}, handle : 0 .. MaxHandle]]
  /\ all \in Passes
  /\ must \subseteq Context

(* Every context in the table is at the place of its handle, or of the     *)
(* handle its thread is about to give it, and the other way round.         *)
Placed ==
  /\ \A i \in 1 .. Len(slot) : slot[i] # Null =>
       \/ handle[slot[i]] # 0 /\ i = (handle[slot[i]] % Len(slot)) + 1
       \/ handle[slot[i]] = 0 /\ \E t \in Thread : got[t].ctx = slot[i] /\ i = (got[t].handle % Len(slot)) + 1
  /\ \A c \in Context : handle[c] # 0 => slot[(handle[c] % Len(slot)) + 1] = c
  /\ \A t \in Thread : got[t] # NoCall =>
       /\ got[t].ctx \in Context /\ got[t].handle # 0
       /\ slot[(got[t].handle % Len(slot)) + 1] = got[t].ctx /\ handle[got[t].ctx] = 0

(* While skynet_handle_retireall has retired none in this pass, each       *)
(* context that it has to retire is ahead of it, in its hand or gone.      *)
Ahead ==
  /\ \A t \in Thread : got[t].ctx \notin must
  /\ all.at = "retire" => all.handle # 0
  /\ all.at \in {"look", "retire"} /\ all.n = 0 =>
       \A c \in must : handle[c] # 0 =>
         (handle[c] % Len(slot) >= all.i) \/ (all.at = "retire" /\ handle[c] = all.handle)
  /\ all.at = "done" => \A c \in must : handle[c] = 0

(* The inductive invariant of the table.                                   *)
HIndInv == Shapes /\ Placed /\ Ahead
(* In a table of twice the size a handle stays at its place or goes up by  *)
(* the old size.                                                           *)
LEMMA Doubled ==
  ASSUME NEW S \in Nat \ {0}, NEW h \in Nat
  PROVE  /\ h % (2 * S) \in 0 .. 2 * S - 1
         /\ h % (2 * S) = h % S \/ h % (2 * S) = (h % S) + S
<1> DEFINE p == h \div S q == h \div (2 * S) r == h % S u == h % (2 * S)
<1>1. r \in 0 .. S - 1 /\ h = S * p + r /\ p \in Nat
  BY ModIs
<1>2. 2 * S \in Nat \ {0}
  OBVIOUS
<1>3. u \in 0 .. 2 * S - 1 /\ h = (2 * S) * q + u /\ q \in Nat
  BY <1>2, ModIs
<1> HIDE DEF p, q, r, u
<1>4. (2 * S) * q = S * (2 * q)
  BY <1>3
<1>5. CASE u < S
  <2>1. u \in 0 .. S - 1 /\ 2 * q \in Nat /\ S * p + r = S * (2 * q) + u
    BY <1>1, <1>3, <1>4, <1>5
  <2>2. u = r
    BY ONLY <2>1, <1>1, <1>3, ModUnique, S \in Nat \ {0}
  <2> QED
    BY <2>2, <1>3 DEF r, u
<1>6. CASE u >= S
  <2>1. S * (2 * q + 1) = S * (2 * q) + S
    BY <1>3
  <2>2. u - S \in 0 .. S - 1 /\ 2 * q + 1 \in Nat /\ S * p + r = S * (2 * q + 1) + (u - S)
    BY <1>1, <1>3, <1>4, <1>6, <2>1
  <2>3. u - S = r
    BY ONLY <2>2, <1>1, <1>3, ModUnique, S \in Nat \ {0}
  <2> QED
    BY <2>3, <1>1, <1>3 DEF r, u
<1> QED
  BY <1>5, <1>6, <1>3, <1>1

(* No handle that is tried is 0.                                           *)
LEMMA TriedIs ==
  ASSUME HandleParameters, Shapes, NEW i \in Nat
  PROVE  Tried(i) \in 1 .. MaxHandle
<1>1. index + i - 1 \in Nat /\ MaxHandle \in Nat \ {0}
  BY DEF Shapes, HandleParameters, Passes
<1>2. (index + i - 1) % MaxHandle \in 0 .. MaxHandle - 1
  BY <1>1, ModIs
<1> QED
  BY <1>1, <1>2 DEF Tried

(* skynet_handle_register puts a context into a free slot.                 *)
LEMMA FoundIs ==
  ASSUME HandleParameters, Shapes, NEW s \in Seq(Context \cup {Null}), Len(s) # 0,
         FreeTries(s) # {}
  PROVE  /\ Found(s) \in 1 .. MaxHandle
         /\ (Found(s) % Len(s)) + 1 \in 1 .. Len(s)
         /\ s[(Found(s) % Len(s)) + 1] = Null
<1> DEFINE F == FreeTries(s)
<1>1. F \in SUBSET Nat
  BY DEF FreeTries
<1>2. \E x \in F : \A y \in F : x <= y
  BY <1>1, SetMin
<1>3. Min(F) \in F
  BY <1>2 DEF Min
<1>4. Min(F) \in Nat /\ s[(Tried(Min(F)) % Len(s)) + 1] = Null
  BY <1>1, <1>3 DEF FreeTries
<1>5. Found(s) = Tried(Min(F))
  BY DEF Found
<1>6. Found(s) \in 1 .. MaxHandle
  BY <1>4, <1>5, TriedIs
<1>7. Len(s) \in Nat \ {0} /\ MaxHandle \in Nat
  BY DEF HandleParameters
<1>9. Found(s) \in Nat
  BY <1>6, <1>7
<1>8. Found(s) % Len(s) \in 0 .. Len(s) - 1
  BY ONLY <1>9, <1>7, ModIs
<1>10. (Found(s) % Len(s)) + 1 \in 1 .. Len(s)
  BY ONLY <1>7, <1>8
<1> QED
  BY <1>4, <1>5, <1>6, <1>10

(* A table that holds every context at the place of its handle.            *)
Table(s) ==
  /\ s \in Seq(Context \cup {Null}) /\ Len(s) # 0
  /\ \A c \in Context : handle[c] # 0 => s[(handle[c] % Len(s)) + 1] = c
  /\ \A i \in 1 .. Len(s) : s[i] # Null =>
       s[i] \in Context /\ handle[s[i]] # 0 /\ i = (handle[s[i]] % Len(s)) + 1

(* While no thread is between the table and ctx->handle, the slots are     *)
(* such a table ...                                                        *)
LEMMA SlotIsTable ==
  ASSUME HandleParameters, Shapes, Placed, \A t \in Thread : got[t] = NoCall
  PROVE  Table(slot)
<1>1. \A i \in 1 .. Len(slot) : slot[i] # Null => slot[i] \in Context
  BY DEF Shapes, Passes
<1>2. \A t \in Thread : got[t].ctx = Null
  BY DEF NoCall
<1>3. \A i \in 1 .. Len(slot) : slot[i] # Null =>
        handle[slot[i]] # 0 /\ i = (handle[slot[i]] % Len(slot)) + 1
  BY <1>2 DEF Placed
<1> QED
  BY <1>1, <1>3 DEF Table, Shapes, Placed, Passes

(* ... and so is the doubled one: no two contexts fall into one slot       *)
(* (skynet_handle.c:64).                                                   *)
LEMMA ExpandedIs ==
  ASSUME HandleParameters, Shapes, Placed, \A t \in Thread : got[t] = NoCall
  PROVE  /\ Table(Expanded) /\ Len(Expanded) = 2 * Len(slot)
         /\ \A c, d \in Context : InTable(c) /\ InTable(d) /\ Hash(c) = Hash(d) => c = d
<1> DEFINE S == Len(slot)
<1>1. S \in Nat \ {0} /\ 2 * S \in Nat \ {0} /\ Null \notin Context
  BY DEF Shapes, HandleParameters, Passes
<1>2. Table(slot)
  BY SlotIsTable
<1>3. ASSUME NEW c \in Context PROVE handle[c] \in Nat
  BY DEF Shapes, HandleParameters, Passes
<1>4. ASSUME NEW c \in Context
      PROVE  /\ Hash(c) \in 0 .. 2 * S - 1
             /\ Hash(c) = handle[c] % S \/ Hash(c) = (handle[c] % S) + S
             /\ handle[c] % S \in 0 .. S - 1
  <2>1. Hash(c) = handle[c] % (2 * S)
    BY DEF Hash, Size
  <2> QED
    BY <2>1, <1>1, <1>3, Doubled, ModIs
<1>5. ASSUME NEW c \in Context PROVE InTable(c) <=> handle[c] # 0
  <2>1. InTable(c) => handle[c] # 0
    BY <1>2, <1>1 DEF InTable, Table
  <2>2. handle[c] # 0 => InTable(c)
    BY <1>2, <1>4, <1>1 DEF InTable, Table
  <2> QED
    BY <2>1, <2>2
<1>6. ASSUME NEW c \in Context, NEW d \in Context, InTable(c), InTable(d), Hash(c) = Hash(d)
      PROVE  c = d
  <2>1. handle[c] % S = handle[d] % S
    BY <1>4, <1>6, <1>1
  <2>2. handle[c] # 0 /\ handle[d] # 0
    BY <1>5, <1>6
  <2>3. slot[(handle[c] % S) + 1] = c /\ slot[(handle[d] % S) + 1] = d
    BY <1>2, <2>2 DEF Table
  <2> QED
    BY <2>1, <2>3
<1> DEFINE Here(i) == {c \in Context : InTable(c) /\ Hash(c) = i - 1}
           T == [i \in 1 .. 2 * S |-> IF Here(i) = {} THEN Null ELSE CHOOSE c \in Here(i) : TRUE]
<1>7. Expanded = T
  BY DEF Expanded, Size
<1>8. ASSUME NEW i \in 1 .. 2 * S
      PROVE  \/ T[i] = Null
             \/ T[i] \in Context /\ InTable(T[i]) /\ Hash(T[i]) = i - 1
  <2>1. CASE Here(i) = {}
    BY <2>1
  <2>2. CASE Here(i) # {}
    <3>1. T[i] = CHOOSE c \in Here(i) : TRUE
      BY <2>2
    <3>2. T[i] \in Here(i)
      BY <3>1, <2>2
    <3> QED
      BY <3>2
  <2> QED
    BY <2>1, <2>2
<1>9. ASSUME NEW c \in Context, handle[c] # 0
      PROVE  Hash(c) + 1 \in 1 .. 2 * S /\ T[Hash(c) + 1] = c
  <2> DEFINE i == Hash(c) + 1
  <2>1. i \in 1 .. 2 * S /\ Hash(c) = i - 1
    BY <1>4, <1>1
  <2>2. c \in Here(i)
    BY <2>1, <1>5, <1>9
  <2>3. T[i] = CHOOSE d \in Here(i) : TRUE
    BY <2>1, <2>2
  <2>4. T[i] \in Here(i)
    BY <2>2, <2>3
  <2>5. InTable(T[i]) /\ T[i] \in Context /\ Hash(T[i]) = Hash(c) /\ InTable(c)
    BY <2>4, <2>1, <2>2
  <2>6. T[i] = c
    BY <2>5, <1>6
  <2> QED
    BY <2>1, <2>6
<1>10. T \in Seq(Context \cup {Null}) /\ Len(T) = 2 * S
  <2>1. \A i \in 1 .. 2 * S : T[i] \in Context \cup {Null}
    BY <1>8
  <2> HIDE DEF Here
  <2>2. T \in [1 .. 2 * S -> Context \cup {Null}]
    BY <2>1
  <2> QED
    BY <2>2, <1>1
<1> HIDE DEF T
<1>11. \A c \in Context : Hash(c) = handle[c] % Len(T)
  BY <1>10 DEF Hash, Size
<1>12. ASSUME NEW i \in 1 .. Len(T), T[i] # Null
       PROVE  T[i] \in Context /\ handle[T[i]] # 0 /\ i = (handle[T[i]] % Len(T)) + 1
  <2>1. i \in 1 .. 2 * S
    BY <1>10
  <2>2. T[i] \in Context /\ InTable(T[i]) /\ Hash(T[i]) = i - 1
    BY <1>8, <2>1, <1>12
  <2>3. handle[T[i]] # 0
    BY <1>5, <2>2
  <2>4. i = Hash(T[i]) + 1
    BY <2>2, <2>1, <1>4, <1>1
  <2> QED
    BY <2>2, <2>3, <2>4, <1>11
<1>13. Table(T)
  <2>1. Len(T) # 0
    BY <1>10, <1>1
  <2>2. \A c \in Context : handle[c] # 0 => T[(handle[c] % Len(T)) + 1] = c
    BY <1>9, <1>11
  <2> QED
    BY <1>10, <1>12, <2>1, <2>2 DEF Table
<1> QED
  BY <1>6, <1>7, <1>10, <1>13

(* Where a context goes, in a table of size L and in one of 2 * L.         *)
LEMMA Places ==
  ASSUME HandleParameters, Shapes, NEW d \in Context, NEW L \in Nat \ {0}
  PROVE  /\ handle[d] % L \in Nat /\ handle[d] % L < L
         /\ (handle[d] % L) + 1 \in 1 .. L
         /\ handle[d] % (2 * L) >= handle[d] % L
<1> DEFINE g == handle[d]
<1>1. g \in Nat
  BY DEF Shapes, HandleParameters, Passes
<1> HIDE DEF g
<1>2. g % L \in 0 .. L - 1
  BY <1>1, ModIs
<1>3. g % (2 * L) = g % L \/ g % (2 * L) = (g % L) + L
  BY <1>1, Doubled
<1>4. g % L \in Nat /\ g % L < L /\ (g % L) + 1 \in 1 .. L /\ g % (2 * L) >= g % L
  BY <1>2, <1>3
<1> QED
  BY <1>4 DEF g

(* The empty table.                                                        *)
LEMMA InitInd == ASSUME HandleParameters PROVE HandleInit => HIndInv
<1> SUFFICES ASSUME HandleInit PROVE HIndInv
  OBVIOUS
<1> USE DEF HandleInit
<1>1. slot \in Seq(Context \cup {Null}) /\ Len(slot) = FirstSize /\ \A i \in 1 .. Len(slot) : slot[i] = Null
  BY DEF HandleParameters
<1>2. Shapes
  BY <1>1 DEF Shapes, HandleParameters, NoCall, Idle, Passes
<1>3. Placed
  BY <1>1 DEF Placed
<1>4. Ahead
  BY DEF Ahead, Idle
<1> QED
  BY <1>2, <1>3, <1>4 DEF HIndInv

(* A launch, with or without growth; growth moves contexts only upwards,   *)
(* so a pass of skynet_handle_retireall does not miss them.                *)
LEMMA RegisterInd ==
  ASSUME HandleParameters, OneLauncher, HIndInv, NEW t \in Thread, NEW c \in Context, Register(t, c)
  PROVE  HIndInv'
<1> DEFINE s == IF FreeTries(slot) # {} THEN slot ELSE Expanded
           h == Found(s)
<1>1. Shapes /\ Placed /\ Ahead
  BY DEF HIndInv
<1>2. /\ got[t] = NoCall /\ ~InTable(c) /\ WithinBounds
      /\ slot' = [s EXCEPT ![(h % Len(s)) + 1] = c]
      /\ index' = h + 1
      /\ got' = [got EXCEPT ![t] = [ctx |-> c, handle |-> h]]
      /\ must' = must \ {c}
      /\ UNCHANGED <<handle, all>>
  BY DEF Register, Put
<1>3. \A u \in Thread : got[u] = NoCall /\ u = t
  BY <1>2 DEF OneLauncher
<1>4. Table(slot) /\ Table(Expanded) /\ Len(Expanded) = 2 * Len(slot)
  BY <1>1, <1>3, SlotIsTable, ExpandedIs
<1>5. Table(s) /\ FreeTries(s) # {}
  BY <1>2, <1>4 DEF WithinBounds
<1>6. Len(slot) \in Nat \ {0} /\ \A d \in Context : handle[d] \in Nat
  BY <1>1 DEF Shapes, HandleParameters, Passes
<1>7. ASSUME NEW d \in Context PROVE handle[d] % Len(s) >= handle[d] % Len(slot)
  <2>1. CASE s = slot
    <3>1. handle[d] % Len(slot) \in Nat
      BY <1>1, <1>6, Places
    <3> QED
      BY <3>1, <2>1
  <2>2. CASE s = Expanded
    <3>1. handle[d] % (2 * Len(slot)) >= handle[d] % Len(slot)
      BY <1>1, <1>6, Places
    <3> QED
      BY <3>1, <2>2, <1>4
  <2> QED
    BY <2>1, <2>2
<1> HIDE DEF s
<1>8. s \in Seq(Context \cup {Null}) /\ Len(s) # 0 /\ Len(s) \in Nat \ {0}
  BY <1>5 DEF Table
<1>9. /\ h \in 1 .. MaxHandle
      /\ (h % Len(s)) + 1 \in 1 .. Len(s)
      /\ s[(h % Len(s)) + 1] = Null
  BY <1>1, <1>5, <1>8, FoundIs
<1> HIDE DEF h
<1>10. c # Null /\ handle[c] = 0
  <2>1. handle[c] # 0 => slot[(handle[c] % Len(slot)) + 1] = c
    BY <1>4 DEF Table
  <2>2. (handle[c] % Len(slot)) + 1 \in DOMAIN slot
    <3>1. (handle[c] % Len(slot)) + 1 \in 1 .. Len(slot)
      BY <1>1, <1>6, Places
    <3> QED
      BY <3>1, <1>4 DEF Table
  <2> QED
    BY <2>1, <2>2, <1>2 DEF InTable, HandleParameters
<1>11. /\ slot' \in Seq(Context \cup {Null}) /\ Len(slot') = Len(s)
       /\ slot'[(h % Len(s)) + 1] = c
       /\ \A i \in 1 .. Len(s) : i # (h % Len(s)) + 1 => slot'[i] = s[i]
  BY <1>2, <1>8, <1>9
<1>12. /\ got'[t] = [ctx |-> c, handle |-> h]
       /\ got' \in [Thread -> [ctx : Context \cup {Null}, handle : 0 .. MaxHandle]]
  BY <1>1, <1>2, <1>9 DEF Shapes, HandleParameters, Passes
<1>13. \A u \in Thread : got'[u] = [ctx |-> c, handle |-> h]
  BY <1>12, <1>3
<1>14. Shapes'
  BY <1>1, <1>2, <1>9, <1>11, <1>8, <1>12 DEF Shapes, HandleParameters, Passes
<1>15. ASSUME NEW i \in 1 .. Len(slot'), slot'[i] # Null
       PROVE  \/ handle'[slot'[i]] # 0 /\ i = (handle'[slot'[i]] % Len(slot')) + 1
              \/ /\ handle'[slot'[i]] = 0
                 /\ \E u \in Thread : got'[u].ctx = slot'[i] /\ i = (got'[u].handle % Len(slot')) + 1
  <2>1. CASE i = (h % Len(s)) + 1
    <3>1. slot'[i] = c /\ got'[t].ctx = c /\ got'[t].handle = h /\ handle'[c] = 0
      BY <2>1, <1>11, <1>12, <1>10, <1>2
    <3> QED
      BY <3>1, <2>1, <1>11
  <2>2. CASE i # (h % Len(s)) + 1
    <3>1. i \in 1 .. Len(s) /\ slot'[i] = s[i] /\ s[i] # Null
      BY <2>2, <1>11, <1>15
    <3>2. handle[s[i]] # 0 /\ i = (handle[s[i]] % Len(s)) + 1
      BY <3>1, <1>5 DEF Table
    <3> QED
      BY <3>1, <3>2, <1>2, <1>11
  <2> QED
    BY <2>1, <2>2
<1>16. ASSUME NEW d \in Context, handle'[d] # 0
       PROVE  slot'[(handle'[d] % Len(slot')) + 1] = d
  <2>1. s[(handle[d] % Len(s)) + 1] = d /\ d # Null
    BY <1>16, <1>2, <1>5 DEF Table, HandleParameters
  <2>2. (handle[d] % Len(s)) + 1 \in 1 .. Len(s)
    BY <1>1, <1>8, Places
  <2> QED
    BY <2>1, <2>2, <1>9, <1>11, <1>2
<1>17. Placed'
  BY <1>15, <1>16, <1>13, <1>11, <1>10, <1>9, <1>2 DEF Placed
<1>18. Ahead'
  <2>1. \A u \in Thread : got'[u].ctx \notin must'
    BY <1>13, <1>2
  <2>2. all'.at = "retire" => all'.handle # 0
    BY <1>1, <1>2 DEF Ahead
  <2>3. ASSUME all'.at \in {"look", "retire"}, all'.n = 0, NEW d \in must', handle'[d] # 0
        PROVE  (handle'[d] % Len(slot') >= all'.i) \/ (all'.at = "retire" /\ handle'[d] = all'.handle)
    <3>1. d \in must /\ d \in Context
      BY <2>3, <1>1, <1>2 DEF Shapes, Passes
    <3>2. (handle[d] % Len(slot) >= all.i) \/ (all.at = "retire" /\ handle[d] = all.handle)
      BY <3>1, <2>3, <1>2, <1>1 DEF Ahead
    <3>3. handle[d] % Len(s) \in Nat /\ handle[d] % Len(slot) \in Nat /\ all.i \in Nat
      <4>1. handle[d] % Len(s) \in Nat
        BY <3>1, <1>1, <1>8, Places
      <4>2. handle[d] % Len(slot) \in Nat
        BY <3>1, <1>1, <1>6, Places
      <4> QED
        BY <4>1, <4>2, <1>1 DEF Shapes, Passes
    <3> QED
      BY <3>1, <3>2, <3>3, <1>7, <1>11, <1>2
  <2>4. all'.at = "done" => \A d \in must' : handle'[d] = 0
    BY <1>1, <1>2 DEF Ahead
  <2> QED
    BY <2>1, <2>2, <2>3, <2>4 DEF Ahead
<1> QED
  BY <1>14, <1>17, <1>18 DEF HIndInv

(* ctx->handle is set.                                                     *)
LEMMA SetHandleInd ==
  ASSUME HandleParameters, OneLauncher, HIndInv, NEW t \in Thread, SetHandle(t)
  PROVE  HIndInv'
<1> DEFINE c == got[t].ctx h == got[t].handle
<1>1. Shapes /\ Placed /\ Ahead
  BY DEF HIndInv
<1>2. /\ got[t] # NoCall
      /\ handle' = [handle EXCEPT ![c] = h]
      /\ got' = [got EXCEPT ![t] = NoCall]
      /\ UNCHANGED <<slot, index, all, must>>
  BY DEF SetHandle
<1>3. \A u \in Thread : u = t
  BY DEF OneLauncher
<1>4. /\ c \in Context /\ h # 0 /\ handle[c] = 0
      /\ slot[(h % Len(slot)) + 1] = c
  BY <1>1, <1>2 DEF Placed
<1>5. h \in 0 .. MaxHandle
  BY <1>1 DEF Shapes, Passes
<1> HIDE DEF c, h
<1>6. /\ handle'[c] = h
      /\ handle' \in [Context -> 0 .. MaxHandle]
      /\ \A d \in Context : d # c => handle'[d] = handle[d]
  BY <1>1, <1>2, <1>4, <1>5 DEF Shapes, Passes
<1>7. \A u \in Thread : got'[u] = NoCall
  BY <1>1, <1>2, <1>3 DEF Shapes, Passes
<1>8. Shapes'
  <2>1. got' \in [Thread -> [ctx : Context \cup {Null}, handle : 0 .. MaxHandle]]
    BY <1>1, <1>2 DEF Shapes, NoCall, HandleParameters, Passes
  <2> QED
    BY <2>1, <1>1, <1>2, <1>6 DEF Shapes, Passes
<1>9. Placed'
  <2>1. ASSUME NEW i \in 1 .. Len(slot), slot[i] # Null
        PROVE  handle'[slot[i]] # 0 /\ i = (handle'[slot[i]] % Len(slot)) + 1
    <3>0. slot[i] \in Context
      BY <2>1, <1>1 DEF Shapes, Passes
    <3>1. CASE slot[i] = c
      <4>1. \E u \in Thread : got[u].ctx = slot[i] /\ i = (got[u].handle % Len(slot)) + 1
        BY <3>1, <1>1, <1>4, <2>1 DEF Placed
      <4> QED
        BY <4>1, <1>3, <3>1, <1>6, <1>4 DEF h
    <3>2. CASE slot[i] # c
      <4>1. ~ \E u \in Thread : got[u].ctx = slot[i]
        BY <3>2, <1>3 DEF c
      <4> QED
        BY <4>1, <1>1, <2>1, <3>0, <3>2, <1>6 DEF Placed
    <3> QED
      BY <3>1, <3>2
  <2>2. \A d \in Context : handle'[d] # 0 => slot[(handle'[d] % Len(slot)) + 1] = d
    BY <1>1, <1>4, <1>6 DEF Placed
  <2> QED
    BY <2>1, <2>2, <1>7, <1>2 DEF Placed
<1>10. Ahead'
  <2>1. c \notin must /\ must \subseteq Context
    BY <1>1 DEF Ahead, Shapes, c, Passes
  <2>2. \A d \in must : handle'[d] = handle[d]
    BY <2>1, <1>6
  <2>3. \A u \in Thread : got'[u].ctx \notin must
    BY <1>7, <2>1 DEF NoCall, HandleParameters
  <2> QED
    BY <2>2, <2>3, <1>1, <1>2 DEF Ahead
<1> QED
  BY <1>8, <1>9, <1>10 DEF HIndInv

(* A place is in the table.                                                *)
LEMMA PlaceIs ==
  ASSUME NEW L \in Nat \ {0}, NEW h \in Nat
  PROVE  (h % L) + 1 \in 1 .. L
<1>1. h % L \in 0 .. L - 1
  BY ModIs
<1> QED
  BY <1>1

(* A context leaves the table.                                             *)
LEMMA RetiringInd ==
  ASSUME HandleParameters, Shapes, Placed, NEW h \in 1 .. MaxHandle, Known(h), Retiring(h),
         UNCHANGED <<index, got, must>>, all' \in Passes
  PROVE  /\ Shapes' /\ Placed' /\ Len(slot') = Len(slot)
         /\ \A d \in Context : handle'[d] \in {handle[d], 0}
<1> DEFINE c == At(h) p == (h % Len(slot)) + 1
<1>1. Len(slot) \in Nat \ {0} /\ h \in Nat
  BY DEF Shapes, HandleParameters, Passes
<1>2. p \in 1 .. Len(slot)
  BY <1>1, PlaceIs
<1>3. /\ slot' = [slot EXCEPT ![p] = Null]
      /\ handle' = [handle EXCEPT ![c] = 0]
      /\ c = slot[p] /\ c # Null /\ handle[c] = h
  BY DEF Retiring, Known, Put, At, Size
<1> HIDE DEF c, p
<1>4. c \in Context
  BY <1>2, <1>3 DEF Shapes, Passes
<1>5. /\ handle'[c] = 0 /\ handle' \in [Context -> 0 .. MaxHandle]
      /\ \A d \in Context : d # c => handle'[d] = handle[d]
  BY <1>3, <1>4 DEF Shapes, HandleParameters, Passes
<1>6. /\ slot' \in Seq(Context \cup {Null}) /\ Len(slot') = Len(slot)
      /\ slot'[p] = Null
      /\ \A i \in 1 .. Len(slot) : i # p => slot'[i] = slot[i]
  BY <1>2, <1>3 DEF Shapes, Passes
<1>7. Shapes'
  BY <1>5, <1>6 DEF Shapes, Passes
<1>8. h # 0 /\ Null \notin Context
  BY DEF HandleParameters
<1>9. ASSUME NEW i \in 1 .. Len(slot'), slot'[i] # Null
      PROVE  \/ handle'[slot'[i]] # 0 /\ i = (handle'[slot'[i]] % Len(slot')) + 1
             \/ /\ handle'[slot'[i]] = 0
                /\ \E u \in Thread : got'[u].ctx = slot'[i] /\ i = (got'[u].handle % Len(slot')) + 1
  <2>1. i \in 1 .. Len(slot) /\ i # p /\ slot'[i] = slot[i] /\ slot[i] \in Context
    <3>1. i \in 1 .. Len(slot) /\ i # p
      BY <1>6, <1>9
    <3>2. slot'[i] = slot[i]
      BY <3>1, <1>6
    <3>3. slot[i] \in Context \cup {Null}
      BY <3>1 DEF Shapes
    <3> QED
      BY <3>1, <3>2, <3>3, <1>9
  <2>2. \/ handle[slot[i]] # 0 /\ i = (handle[slot[i]] % Len(slot)) + 1
        \/ handle[slot[i]] = 0 /\ \E t \in Thread : got[t].ctx = slot[i] /\ i = (got[t].handle % Len(slot)) + 1
    BY <2>1, <1>9 DEF Placed
  <2>3. slot[i] # c
    BY <2>1, <2>2, <1>3, <1>8 DEF p
  <2> QED
    BY <2>1, <2>2, <2>3, <1>5, <1>6
<1>10. ASSUME NEW d \in Context, handle'[d] # 0
       PROVE  slot'[(handle'[d] % Len(slot')) + 1] = d
  <2>1. d # c /\ handle'[d] = handle[d] /\ slot[(handle[d] % Len(slot)) + 1] = d
    BY <1>5, <1>10 DEF Placed
  <2>2. (handle[d] % Len(slot)) + 1 \in 1 .. Len(slot)
    BY <1>1, Places
  <2> QED
    BY <2>1, <2>2, <1>6, <1>3
<1>11. ASSUME NEW t \in Thread, got'[t] # NoCall
       PROVE  /\ got'[t].ctx \in Context /\ got'[t].handle # 0
              /\ slot'[(got'[t].handle % Len(slot')) + 1] = got'[t].ctx /\ handle'[got'[t].ctx] = 0
  <2>1. /\ got'[t] = got[t]
        /\ got[t].ctx \in Context /\ got[t].handle # 0 /\ got[t].handle \in Nat
        /\ slot[(got[t].handle % Len(slot)) + 1] = got[t].ctx /\ handle[got[t].ctx] = 0
    BY <1>11 DEF Placed, Shapes, HandleParameters, Passes
  <2>2. (got[t].handle % Len(slot)) + 1 \in 1 .. Len(slot)
    <3> DEFINE g == got[t].handle
    <3>1. g \in Nat
      BY <2>1
    <3> HIDE DEF g
    <3>2. (g % Len(slot)) + 1 \in 1 .. Len(slot)
      BY <3>1, <1>1, PlaceIs
    <3> QED
      BY <3>2 DEF g
  <2>3. got[t].ctx # c
    BY <2>1, <1>3, <1>8
  <2> QED
    BY <2>1, <2>2, <2>3, <1>3, <1>5, <1>6
<1>12. Placed'
  BY <1>9, <1>10, <1>11 DEF Placed
<1> QED
  BY <1>5, <1>6, <1>7, <1>12

(* skynet_handle_retireall: what it has passed is retired, or it was not   *)
(* there when the pass began; a pass that retires none ends it.            *)
LEMMA AllInd ==
  ASSUME HandleParameters, HIndInv, AllBegin \/ AllLook \/ AllRetire \/ AllPass
  PROVE  HIndInv'
<1> USE DEF HIndInv
<1>1. CASE AllBegin
  <2>1. /\ all' = [Idle EXCEPT !.at = "look"]
        /\ must' = {c \in Context : InTable(c) /\ handle[c] # 0}
        /\ UNCHANGED <<slot, index, handle, got>>
    BY <1>1 DEF AllBegin
  <2>2. /\ all' = [at |-> "look", i |-> 0, handle |-> 0, n |-> 0]
        /\ all'.at = "look" /\ all'.i = 0 /\ all'.n = 0
    BY <2>1 DEF Idle
  <2>3. Shapes'
    <3>1. all' \in Passes
      BY <2>2 DEF Passes, HandleParameters
    <3> QED
      BY <3>1, <2>1 DEF Shapes, Passes
  <2>4. Placed'
    BY <2>1 DEF Placed
  <2>5. \A t \in Thread : got'[t].ctx \notin must'
    BY <2>1 DEF Placed, NoCall, HandleParameters
  <2>6. \A d \in must' : handle'[d] % Len(slot') >= 0
    BY <2>1, Places DEF Shapes, Passes
  <2> QED
    BY <2>2, <2>3, <2>4, <2>5, <2>6 DEF Ahead
<1>2. CASE AllLook
  <2> DEFINE c == slot[all.i + 1] h == IF c = Null THEN 0 ELSE handle[c]
  <2>1. /\ all.at = "look" /\ all.i < Len(slot)
        /\ all' = [all EXCEPT !.handle = h, !.i = @ + 1, !.at = IF h = 0 THEN "look" ELSE "retire"]
        /\ UNCHANGED <<slot, index, handle, got, must>>
    BY <1>2 DEF AllLook, Size
  <2>2. all.i \in Nat /\ all.i + 1 \in 1 .. Len(slot)
    BY <2>1 DEF Shapes, Passes
  <2>3. c \in Context \cup {Null} /\ h \in 0 .. MaxHandle
    BY <2>2 DEF Shapes, HandleParameters, Passes
  <2> HIDE DEF h
  <2>4. /\ all'.handle = h /\ all'.i = all.i + 1 /\ all'.n = all.n
        /\ all'.at = (IF h = 0 THEN "look" ELSE "retire")
    BY <2>1 DEF Shapes, Passes
  <2>5. Shapes'
    <3>1. all' = [all EXCEPT !.handle = all'.handle, !.i = all'.i, !.at = all'.at]
      BY <2>1, <2>4 DEF Shapes, Passes
    <3>2. all'.handle \in 0 .. MaxHandle /\ all'.i \in Nat /\ all'.at \in {"look", "retire"}
      BY <2>2, <2>3, <2>4
    <3>3. all' \in Passes
      BY <3>1, <3>2 DEF Shapes, Passes
    <3> QED
      BY <3>3, <2>1 DEF Shapes, Passes
  <2>6. Placed'
    BY <2>1 DEF Placed
  <2>7. ASSUME all'.n = 0, NEW d \in must', handle'[d] # 0
        PROVE  (handle'[d] % Len(slot') >= all'.i) \/ (all'.at = "retire" /\ handle'[d] = all'.handle)
    <3>1. d \in must /\ d \in Context /\ handle[d] # 0 /\ all.n = 0 /\ d # Null
      BY <2>7, <2>1, <2>4 DEF Shapes, HandleParameters, Passes
    <3>2. handle[d] % Len(slot) >= all.i
      BY <3>1, <2>1 DEF Ahead
    <3>3. handle[d] % Len(slot) \in Nat
      BY <3>1, Places DEF Shapes, Passes
    <3>4. CASE handle[d] % Len(slot) = all.i
      <4>1. c = d /\ h = handle[d]
        BY <3>1, <3>4 DEF Placed, h
      <4> QED
        BY <4>1, <3>1, <2>1, <2>4
    <3>5. CASE handle[d] % Len(slot) > all.i
      BY <3>3, <3>5, <2>1, <2>2, <2>4
    <3> QED
      BY <3>2, <3>3, <3>4, <3>5, <2>2
  <2>8. /\ \A t \in Thread : got'[t].ctx \notin must'
        /\ all'.at = "retire" => all'.handle # 0
        /\ all'.at # "done"
    BY <2>1, <2>4 DEF Ahead
  <2> QED
    BY <2>5, <2>6, <2>7, <2>8 DEF Ahead
<1>3. CASE AllRetire
  <2>1. all.at = "retire" /\ all.handle # 0 /\ all.handle \in 1 .. MaxHandle
    BY <1>3 DEF AllRetire, Ahead, Shapes, HandleParameters, Passes
  <2>2. CASE Known(all.handle)
    <3>1. /\ Retiring(all.handle) /\ UNCHANGED <<index, got, must>>
          /\ all' = [all EXCEPT !.at = "look", !.n = 1]
      BY <1>3, <2>2 DEF AllRetire
    <3>2. /\ all' \in Passes
          /\ all'.at = "look" /\ all'.n = 1
      BY <3>1 DEF Shapes, Passes
    <3>3. Shapes' /\ Placed'
      BY <2>1, <2>2, <3>1, <3>2, RetiringInd
    <3>4. Ahead'
      BY <3>1, <3>2 DEF Ahead
    <3> QED
      BY <3>3, <3>4
  <2>3. CASE ~Known(all.handle)
    <3>1. all' = [all EXCEPT !.at = "look"] /\ UNCHANGED <<slot, index, handle, got, must>>
      BY <1>3, <2>3 DEF AllRetire
    <3>2. all'.at = "look" /\ all'.i = all.i /\ all'.n = all.n
      BY <3>1 DEF Shapes, Passes
    <3>3. Shapes'
      BY <3>1 DEF Shapes, Passes
    <3>4. Placed'
      BY <3>1 DEF Placed
    <3>5. ASSUME NEW d \in must, handle[d] # 0 PROVE handle[d] # all.handle
      <4>1. d \in Context /\ d # Null /\ slot[(handle[d] % Len(slot)) + 1] = d
        BY <3>5 DEF Shapes, Placed, HandleParameters, Passes
      <4> QED
        BY <4>1, <2>3 DEF Known, At, Size
    <3>6. Ahead'
      BY <3>1, <3>2, <3>5, <2>1 DEF Ahead
    <3> QED
      BY <3>3, <3>4, <3>6
  <2> QED
    BY <2>2, <2>3
<1>4. CASE AllPass
  <2>1. /\ all.at = "look" /\ all.i = Len(slot)
        /\ all' = [Idle EXCEPT !.at = IF all.n = 0 THEN "done" ELSE "look"]
        /\ UNCHANGED <<slot, index, handle, got, must>>
    BY <1>4 DEF AllPass, Size
  <2>2. all'.at = (IF all.n = 0 THEN "done" ELSE "look") /\ all'.i = 0 /\ all'.n = 0
    BY <2>1 DEF Idle
  <2>3. Shapes'
    <3>1. all' \in Passes
      BY <2>1 DEF Idle, Passes, HandleParameters
    <3> QED
      BY <3>1, <2>1 DEF Shapes, Passes
  <2>4. Placed'
    BY <2>1 DEF Placed
  <2>5. ASSUME all.n = 0, NEW d \in must PROVE handle[d] = 0
    <3>1. handle[d] # 0 => handle[d] % Len(slot) >= all.i
      BY <2>1, <2>5 DEF Ahead
    <3>2. handle[d] % Len(slot) \in Nat /\ handle[d] % Len(slot) < Len(slot)
      <4>1. d \in Context /\ Len(slot) \in Nat \ {0}
        BY DEF Shapes, Passes
      <4> QED
        BY <4>1, Places
    <3> QED
      BY <3>1, <3>2, <2>1
  <2>6. ASSUME NEW d \in must PROVE handle[d] % Len(slot) >= 0
    BY Places DEF Shapes, Passes
  <2>7. Ahead'
    BY <2>1, <2>2, <2>5, <2>6 DEF Ahead
  <2> QED
    BY <2>3, <2>4, <2>7
<1> QED
  BY <1>1, <1>2, <1>3, <1>4

(* Every step keeps the invariant.                                         *)
LEMMA NextInd ==
  ASSUME HandleParameters, OneLauncher, HIndInv, [HandleNext]_handlevars
  PROVE  HIndInv'
<1>1. ASSUME NEW t \in Thread, SetHandle(t) PROVE HIndInv'
  BY <1>1, SetHandleInd
<1>2. ASSUME NEW t \in Thread, NEW c \in Context, Register(t, c) PROVE HIndInv'
  BY <1>2, RegisterInd
<1>3. ASSUME NEW h \in 1 .. MaxHandle, Retire(h) PROVE HIndInv'
  <2>1. Known(h) /\ Retiring(h) /\ UNCHANGED <<index, got, all, must>>
    BY <1>3 DEF Retire
  <2>2. /\ Shapes /\ Placed /\ Ahead
        /\ all' \in Passes
    BY <2>1 DEF HIndInv, Shapes, Passes
  <2>3. /\ Shapes' /\ Placed' /\ Len(slot') = Len(slot)
        /\ \A d \in Context : handle'[d] \in {handle[d], 0}
    BY <2>1, <2>2, RetiringInd
  <2>4. \A d \in must : handle'[d] \in {handle[d], 0}
    BY <2>2, <2>3 DEF Shapes, Passes
  <2>5. Ahead'
    BY <2>1, <2>2, <2>3, <2>4 DEF Ahead
  <2> QED
    BY <2>3, <2>5 DEF HIndInv
<1>4. ASSUME NEW n \in 1 .. MaxName, NEW h \in 1 .. MaxHandle, NameHandle(n, h) PROVE HIndInv'
  BY <1>4 DEF NameHandle, HIndInv, Shapes, Placed, Ahead, Passes
<1>5. CASE UNCHANGED handlevars
  BY <1>5 DEF handlevars, HIndInv, Shapes, Placed, Ahead, Passes
<1> QED
  BY <1>1, <1>2, <1>3, <1>4, <1>5, AllInd DEF HandleNext

(* The invariant is enough.                                                *)
LEMMA IndImplies == ASSUME HandleParameters, OneLauncher, HIndInv PROVE (NamesFound => Reachable) /\ AllGone
<1>1. Shapes /\ Placed /\ Ahead
  BY DEF HIndInv
<1>2. ExpandAssert
  <2>1. ASSUME NEW t \in Thread, got[t] = NoCall PROVE \A u \in Thread : got[u] = NoCall
    BY <2>1 DEF OneLauncher
  <2>2. ASSUME \A u \in Thread : got[u] = NoCall
        PROVE  \A c, d \in Context : InTable(c) /\ InTable(d) /\ Hash(c) = Hash(d) => c = d
    BY <1>1, <2>2, ExpandedIs
  <2> QED
    BY <2>1, <2>2 DEF ExpandAssert
<1>3. \A c \in Context : handle[c] # 0 => At(handle[c]) = c
  BY <1>1 DEF Placed, At, Size
<1>4. ASSUME NEW t \in Thread, got[t] # NoCall
      PROVE  got[t].handle \in 1 .. MaxHandle /\ At(got[t].handle) = got[t].ctx
  BY <1>1, <1>4 DEF Placed, At, Size, Shapes, HandleParameters, Passes
<1>5. ASSUME all.at = "done", NEW c \in must, InTable(c) PROVE FALSE
  <2>1. c \in Context /\ c # Null /\ handle[c] = 0 /\ \A t \in Thread : got[t].ctx # c
    BY <1>1, <1>5 DEF Ahead, Shapes, HandleParameters, Passes
  <2>2. PICK i \in 1 .. Len(slot) : slot[i] = c
    BY <1>1, <1>5 DEF InTable, Shapes, Passes
  <2> QED
    BY <2>1, <2>2, <1>1 DEF Placed
<1> QED
  BY <1>2, <1>3, <1>4, <1>5 DEF Reachable, AllGone

-----------------------------------------------------------------------------
(* The list of names (skynet_handle.c:155-244).                            *)
(* An entry of the list of names, and its order by strcmp.                 *)
NameEntry == [name : 1 .. MaxName, handle : 1 .. MaxHandle]
Sorted(s) == \A i, j \in 1 .. Len(s) : i < j => s[i].name < s[j].name

(* The middle of a span is in it.                                          *)
LEMMA Middle ==
  ASSUME NEW b \in Nat, NEW e \in Nat, b <= e
  PROVE  (b + e) \div 2 \in Nat /\ b <= (b + e) \div 2 /\ (b + e) \div 2 <= e
  OBVIOUS

(* The loop of the binary search has a solution for every list of names:   *)
(* by induction on the length of the span, since each turn looks at a      *)
(* shorter one.                                                            *)
LEMMA SearchIsStep ==
  ASSUME NEW n \in 1 .. MaxName, name \in Seq(NameEntry)
  PROVE  \E f : /\ Search(n) = f[<<1, Len(name)>>]
                /\ f = [s \in Spans |-> Compare(f, n, s)]
<1> DEFINE L == Len(name)
           Upto(f, k) == /\ f = [s \in Spans |-> f[s]]
                         /\ \A s \in Spans : s[2] - s[1] + 1 <= k => f[s] = Compare(f, n, s)
           T == {k \in 0 .. L : ~ \E f : Upto(f, k)}
<1>1. L \in Nat
  OBVIOUS
<1>2. T = {}
  <2> SUFFICES ASSUME T # {} PROVE FALSE
    OBVIOUS
  <2>1. PICK x \in T : \A y \in T : x <= y
    <3>1. T \in SUBSET Nat
      BY <1>1
    <3> QED
      BY <3>1, SetMin
  <2>2. x \in 0 .. L /\ ~ \E f : Upto(f, x)
    BY <2>1
  <2>3. CASE x = 0
    <3> DEFINE g == [s \in Spans |-> [at |-> s[1], handle |-> 0]]
    <3>1. g = [s \in Spans |-> g[s]]
      OBVIOUS
    <3>2. ASSUME NEW s \in Spans, s[2] - s[1] + 1 <= 0 PROVE g[s] = Compare(g, n, s)
      <4>1. s[1] \in Nat /\ s[2] \in Nat
        BY <1>1 DEF Spans
      <4>2. s[1] > s[2]
        BY ONLY <4>1, s[2] - s[1] + 1 <= 0
      <4> QED
        BY <4>2 DEF Compare
    <3>3. Upto(g, x)
      BY <3>1, <3>2, <2>3
    <3> QED
      BY <3>3, <2>2
  <2>4. CASE x # 0
    <3>1. x - 1 \in 0 .. L /\ x - 1 \notin T
      BY <2>1, <2>2, <2>4, <1>1
    <3>2. PICK f : Upto(f, x - 1)
      BY <3>1
    <3> DEFINE g == [s \in Spans |-> IF s[2] - s[1] + 1 = x THEN Compare(f, n, s) ELSE f[s]]
    <3>3. g = [s \in Spans |-> g[s]]
      OBVIOUS
    <3>4. ASSUME NEW s \in Spans, s[2] - s[1] + 1 <= x PROVE g[s] = Compare(g, n, s)
      <4> DEFINE m == (s[1] + s[2]) \div 2
      <4>1. s[1] \in 1 .. L + 1 /\ s[2] \in 0 .. L /\ x \in Nat
        BY <2>2, <1>1 DEF Spans
      <4>2. g[s] = Compare(f, n, s)
        <5>1. CASE s[2] - s[1] + 1 = x
          BY <5>1
        <5>2. CASE s[2] - s[1] + 1 # x
          <6>1. s[2] - s[1] + 1 <= x - 1
            BY ONLY <4>1, <1>1, s[2] - s[1] + 1 <= x, <5>2
          <6> QED
            BY <6>1, <3>2, <5>2
        <5> QED
          BY <5>1, <5>2
      <4>3. CASE s[1] > s[2]
        <5> HIDE DEF g, m
        <5>1. Compare(f, n, s) = Compare(g, n, s)
          BY ONLY <4>3 DEF Compare
        <5> QED
          BY ONLY <5>1, <4>2
      <4>4. CASE s[1] <= s[2]
        <5>1. m \in Nat /\ s[1] <= m /\ m <= s[2]
          <6>1. s[1] \in Nat /\ s[2] \in Nat
            BY ONLY <4>1, <1>1
          <6> QED
            BY ONLY <6>1, <4>4, Middle
        <5> HIDE DEF m
        <5>5. /\ m + 1 \in 1 .. L + 1 /\ m - 1 \in 0 .. L
              /\ s[2] - (m + 1) + 1 # x /\ (m - 1) - s[1] + 1 # x
          <6> HIDE DEF L
          <6> QED
            BY ONLY <4>1, <5>1, <4>4, <3>4, <1>1
        <5>2. /\ <<m + 1, s[2]>> \in Spans /\ <<s[1], m - 1>> \in Spans
              /\ s[2] - (m + 1) + 1 # x /\ (m - 1) - s[1] + 1 # x
          BY ONLY <4>1, <5>5 DEF Spans
        <5>3. g[<<m + 1, s[2]>>] = f[<<m + 1, s[2]>>] /\ g[<<s[1], m - 1>>] = f[<<s[1], m - 1>>]
          BY <5>2
        <5> HIDE DEF g
        <5>4. Compare(g, n, s) = Compare(f, n, s)
          BY ONLY <5>3 DEF Compare, m
        <5> QED
          BY <5>4, <4>2
      <4> QED
        BY <4>1, <4>3, <4>4
    <3>5. Upto(g, x)
      BY <3>3, <3>4
    <3> QED
      BY <3>5, <2>2
  <2> QED
    BY <2>3, <2>4
<1>3. PICK f : Upto(f, L)
  BY <1>1, <1>2
<1>4. \A s \in Spans : s[2] - s[1] + 1 <= L
  BY <1>1 DEF Spans
<1>5. f = [s \in Spans |-> Compare(f, n, s)]
  BY <1>3, <1>4
<1> DEFINE F == CHOOSE step : step = [s \in Spans |-> Compare(step, n, s)]
<1>6. F = [s \in Spans |-> Compare(F, n, s)]
  BY <1>5
<1>7. Search(n) = F[<<1, L>>]
  BY DEF Search
<1> QED
  BY <1>6, <1>7

(* What the search has to give: the entry of n, or the place between the   *)
(* smaller and the larger names.                                           *)
Answers(r, n) ==
  \/ r.at \in 1 .. Len(name) /\ name[r.at].name = n /\ r.handle = name[r.at].handle
  \/ /\ r.at \in 1 .. Len(name) + 1 /\ r.handle = 0
     /\ \A i \in 1 .. Len(name) : (i < r.at => name[i].name < n) /\ (i >= r.at => name[i].name > n)

(* In a sorted list the search finds the name, or the place for it: by     *)
(* induction on the length of the span, outside which no entry has the     *)
(* name.                                                                   *)
LEMMA SearchIs ==
  ASSUME NEW n \in 1 .. MaxName, name \in Seq(NameEntry), Sorted(name)
  PROVE  Answers(Search(n), n)
<1>1. PICK f : Search(n) = f[<<1, Len(name)>>] /\ f = [s \in Spans |-> Compare(f, n, s)]
  BY SearchIsStep
<1> DEFINE L == Len(name)
           Inside(s) == /\ s[1] <= s[2] + 1
                        /\ \A i \in 1 .. L : (i < s[1] => name[i].name < n) /\ (i > s[2] => name[i].name > n)
           T == {k \in 0 .. L : \E s \in Spans : s[2] - s[1] + 1 = k /\ Inside(s) /\ ~Answers(f[s], n)}
<1>2. L \in Nat
  OBVIOUS
<1>9. n \in Nat /\ \A i \in 1 .. L : name[i].name \in Nat
  <2>1. \A e \in NameEntry : e.name \in Nat
    BY HandleParameters DEF NameEntry, HandleParameters
  <2> QED
    BY <2>1, HandleParameters DEF HandleParameters
<1>3. T = {}
  <2> SUFFICES ASSUME T # {} PROVE FALSE
    OBVIOUS
  <2>1. PICK x \in T : \A y \in T : x <= y
    <3>1. T \in SUBSET Nat
      BY <1>2
    <3> QED
      BY <3>1, SetMin
  <2>2. PICK s \in Spans : s[2] - s[1] + 1 = x /\ Inside(s) /\ ~Answers(f[s], n)
    BY <2>1
  <2>3. \A u \in Spans : u[2] - u[1] + 1 < x /\ u[2] - u[1] + 1 >= 0 /\ Inside(u) => Answers(f[u], n)
    <3> SUFFICES ASSUME NEW u \in Spans, u[2] - u[1] + 1 < x, u[2] - u[1] + 1 >= 0, Inside(u), ~Answers(f[u], n)
                 PROVE  FALSE
      OBVIOUS
    <3>0. u[2] - u[1] + 1 < x /\ u[2] - u[1] + 1 >= 0
      OBVIOUS
    <3>1. u[2] - u[1] + 1 \in 0 .. L
      <4>1. u[1] \in Nat /\ u[2] \in Nat /\ u[2] <= L /\ u[1] >= 1
        <5>1. u[1] \in 1 .. L + 1 /\ u[2] \in 0 .. L
          BY DEF Spans
        <5> QED
          BY ONLY <5>1, <1>2
      <4>2. x \in 0 .. L
        BY <2>1
      <4> HIDE DEF L
      <4> QED
        BY ONLY <4>1, <4>2, <3>0, <1>2
    <3>2. u[2] - u[1] + 1 \in T
      BY <3>1
    <3> QED
      BY <3>1, <3>2, <2>1, <1>2
  <2> DEFINE b == s[1] e == s[2] m == (b + e) \div 2
  <2>4. b \in 1 .. L + 1 /\ e \in 0 .. L /\ s = <<b, e>> /\ b <= e + 1
    BY <2>2 DEF Spans
  <2>5. f[s] = Compare(f, n, s)
    BY <1>1
  <2>6. CASE b > e
    <3>1. f[s] = [at |-> b, handle |-> 0]
      BY <2>5, <2>6 DEF Compare
    <3>2. b = e + 1
      BY <2>4, <2>6, <1>2
    <3>3. \A i \in 1 .. L : (i < b => name[i].name < n) /\ (i >= b => name[i].name > n)
      BY <3>2, <2>2, <2>4, <1>2
    <3>4. Answers(f[s], n)
      BY <3>1, <3>3, <2>4 DEF Answers
    <3> QED
      BY <3>4, <2>2
  <2>7. CASE b <= e
    <3>1. m \in 1 .. L /\ b <= m /\ m <= e
      <4>1. b \in Nat /\ e \in Nat /\ 1 <= b /\ e <= L
        BY ONLY <2>4, <1>2
      <4>2. m \in Nat /\ b <= m /\ m <= e
        BY ONLY <4>1, <2>7, Middle
      <4> HIDE DEF m
      <4> QED
        BY ONLY <4>1, <4>2, <1>2
    <3>2. Compare(f, n, s) = IF name[m].name = n THEN [at |-> m, handle |-> name[m].handle]
                             ELSE IF name[m].name < n THEN f[<<m + 1, e>>] ELSE f[<<b, m - 1>>]
      BY <2>4, <2>7, <1>2 DEF Compare
    <3> HIDE DEF m
    <3>3. CASE name[m].name = n
      <4>1. Answers(f[s], n)
        BY <3>1, <3>2, <3>3, <2>5 DEF Answers
      <4> QED
        BY <4>1, <2>2
    <3>4. CASE name[m].name < n
      <4> DEFINE u == <<m + 1, e>>
      <4>1. u \in Spans /\ u[1] = m + 1 /\ u[2] = e /\ f[s] = f[u]
        <5>1. m + 1 \in 1 .. L + 1 /\ name[m].name # n
          BY ONLY <3>1, <3>4, <1>2, <1>9
        <5>2. f[s] = f[u]
          BY <5>1, <3>2, <3>4, <2>5
        <5> QED
          BY <5>1, <5>2, <2>4 DEF Spans
      <4>0. e - b + 1 = x
        BY <2>2
      <4>6. m \in Nat /\ b \in Nat /\ e \in Nat /\ b <= m /\ m <= e
        BY ONLY <3>1, <2>4, <1>2
      <4> HIDE DEF b, e
      <4>2. e - (m + 1) + 1 < x /\ e - (m + 1) + 1 >= 0
        BY ONLY <4>6, <4>0
      <4> USE DEF b, e
      <4>3. \A i \in 1 .. L : i < m + 1 => name[i].name < n
        <5> SUFFICES ASSUME NEW i \in 1 .. L, i < m + 1 PROVE name[i].name < n
          OBVIOUS
        <5>1. CASE i = m
          BY <5>1, <3>4
        <5>2. CASE i < m
          <6>1. name[i].name < name[m].name
            BY <5>2, <3>1 DEF Sorted
          <6>2. n \in Nat /\ name[i].name \in Nat /\ name[m].name \in Nat
            BY ONLY <3>1, <1>9, i \in 1 .. L
          <6> QED
            BY ONLY <6>1, <6>2, <3>4
        <5> QED
          BY ONLY <5>1, <5>2, <3>1, <1>2, i \in 1 .. L, i < m + 1
      <4> HIDE DEF u
      <4>4. Inside(u)
        <5>1. \A i \in 1 .. L : (i < b => name[i].name < n) /\ (i > e => name[i].name > n)
          BY <2>2
        <5>2. u[1] <= u[2] + 1
          BY ONLY <4>1, <3>1, <2>4, <1>2
        <5> QED
          BY ONLY <5>1, <5>2, <4>1, <4>3
      <4>5. Answers(f[u], n)
        BY <4>1, <4>2, <4>4, <2>3
      <4> QED
        BY <4>1, <4>5, <2>2
    <3>5. CASE name[m].name > n
      <4> DEFINE u == <<b, m - 1>>
      <4>1. u \in Spans /\ u[1] = b /\ u[2] = m - 1 /\ f[s] = f[u]
        <5>1. m - 1 \in 0 .. L /\ name[m].name # n /\ ~(name[m].name < n)
          BY ONLY <3>1, <3>5, <1>2, <1>9
        <5>2. f[s] = f[u]
          BY <5>1, <3>2, <2>5
        <5> QED
          BY <5>1, <5>2, <2>4 DEF Spans
      <4>0. e - b + 1 = x
        BY <2>2
      <4>6. m \in Nat /\ b \in Nat /\ e \in Nat /\ b <= m /\ m <= e
        BY ONLY <3>1, <2>4, <1>2
      <4> HIDE DEF b, e
      <4>2. (m - 1) - b + 1 < x /\ (m - 1) - b + 1 >= 0
        BY ONLY <4>6, <4>0
      <4> USE DEF b, e
      <4>3. \A i \in 1 .. L : i > m - 1 => name[i].name > n
        <5> SUFFICES ASSUME NEW i \in 1 .. L, i > m - 1 PROVE name[i].name > n
          OBVIOUS
        <5>1. CASE i = m
          BY <5>1, <3>5
        <5>2. CASE i > m
          <6>1. name[m].name < name[i].name
            BY <5>2, <3>1 DEF Sorted
          <6>2. n \in Nat /\ name[i].name \in Nat /\ name[m].name \in Nat
            BY ONLY <3>1, <1>9, i \in 1 .. L
          <6> QED
            BY ONLY <6>1, <6>2, <3>5
        <5> QED
          BY ONLY <5>1, <5>2, <3>1, <1>2, i \in 1 .. L, i > m - 1
      <4> HIDE DEF u
      <4>4. Inside(u)
        <5>1. \A i \in 1 .. L : (i < b => name[i].name < n) /\ (i > e => name[i].name > n)
          BY <2>2
        <5>2. u[1] <= u[2] + 1
          BY ONLY <4>1, <3>1, <2>4, <1>2
        <5> QED
          BY ONLY <5>1, <5>2, <4>1, <4>3
      <4>5. Answers(f[u], n)
        BY <4>1, <4>2, <4>4, <2>3
      <4> QED
        BY <4>1, <4>5, <2>2
    <3>6. name[m].name \in Nat
      BY ONLY <3>1, <1>9
    <3> QED
      BY ONLY <3>6, <3>3, <3>4, <3>5, <1>9
  <2> QED
    BY <2>4, <2>6, <2>7, <1>2
<1>4. <<1, L>> \in Spans /\ <<1, L>>[1] = 1 /\ <<1, L>>[2] = L
  BY <1>2 DEF Spans
<1> DEFINE w == <<1, L>>
<1>5. w \in Spans /\ w[1] = 1 /\ w[2] = L
  BY <1>4
<1> HIDE DEF w
<1>6. Inside(w)
  BY <1>5, <1>2
<1>7. w[2] - w[1] + 1 \in 0 .. L
  BY <1>5, <1>2
<1>8. Answers(f[w], n)
  BY <1>3, <1>5, <1>6, <1>7
<1> QED
  BY <1>1, <1>8 DEF w

(* The loop that removes names has a solution ...                          *)
LEMMA KeptIsMove ==
  ASSUME NEW h, name \in Seq(NameEntry)
  PROVE  \E f : Kept(h) = f[Len(name)] /\ f = [i \in 0 .. Len(name) |-> Move(f, h, i)]
<1> DEFINE L == Len(name)
           Upto(f, k) == /\ f = [i \in 0 .. L |-> f[i]]
                         /\ \A i \in 0 .. k : f[i] = Move(f, h, i)
           T == {k \in 0 .. L : ~ \E f : Upto(f, k)}
<1>1. L \in Nat
  OBVIOUS
<1>2. T = {}
  <2> SUFFICES ASSUME T # {} PROVE FALSE
    OBVIOUS
  <2>1. PICK x \in T : \A y \in T : x <= y
    <3>1. T \in SUBSET Nat
      BY <1>1
    <3> QED
      BY <3>1, SetMin
  <2>2. x \in 0 .. L /\ ~ \E f : Upto(f, x)
    BY <2>1
  <2>3. CASE x = 0
    <3> DEFINE g == [i \in 0 .. L |-> <<>>]
    <3>1. Upto(g, x)
      BY <2>3, <1>1 DEF Move
    <3> QED
      BY <3>1, <2>2
  <2>4. CASE x # 0
    <3>1. x - 1 \in 0 .. L /\ x - 1 \notin T
      BY <2>1, <2>2, <2>4, <1>1
    <3>2. PICK f : Upto(f, x - 1)
      BY <3>1
    <3> DEFINE g == [i \in 0 .. L |-> IF i = x THEN Move(f, h, x) ELSE f[i]]
    <3>3. g = [i \in 0 .. L |-> g[i]]
      OBVIOUS
    <3>4. ASSUME NEW i \in 0 .. x PROVE g[i] = Move(g, h, i)
      <4>1. i \in 0 .. L /\ x \in Nat /\ i \in Nat /\ i <= x
        BY <2>2, <1>1
      <4>2. g[i] = Move(f, h, i)
        <5>1. CASE i = x
          BY <4>1, <5>1
        <5>2. CASE i # x
          BY <4>1, <5>2, <3>2
        <5> QED
          BY <5>1, <5>2
      <4>3. i # 0 => g[i - 1] = f[i - 1]
        BY <4>1, <1>1
      <4> HIDE DEF g
      <4> QED
        BY <4>2, <4>3 DEF Move
    <3>5. Upto(g, x)
      BY <3>3, <3>4
    <3> QED
      BY <3>5, <2>2
  <2> QED
    BY <2>3, <2>4
<1>3. PICK f : Upto(f, L)
  BY <1>1, <1>2
<1>5. f = [i \in 0 .. L |-> Move(f, h, i)]
  BY <1>3
<1> DEFINE F == CHOOSE moved : moved = [i \in 0 .. L |-> Move(moved, h, i)]
<1>6. F = [i \in 0 .. L |-> Move(F, h, i)]
  BY <1>5
<1>7. Kept(h) = F[L]
  BY DEF Kept
<1> QED
  BY <1>6, <1>7

(* What is left of the first k names.                                      *)
Rest(r, h, k) ==
  /\ r \in Seq(NameEntry) /\ Sorted(r)
  /\ \A a \in 1 .. Len(r) : \E j \in 1 .. k : r[a] = name[j] /\ name[j].handle # h
  /\ \A j \in 1 .. k : name[j].handle # h => \E a \in 1 .. Len(r) : r[a] = name[j]

(* ... that keeps the names of other handles, and their order.             *)
LEMMA KeptIs ==
  ASSUME NEW h, name \in Seq(NameEntry), Sorted(name)
  PROVE  Rest(Kept(h), h, Len(name))
<1>1. PICK f : Kept(h) = f[Len(name)] /\ f = [i \in 0 .. Len(name) |-> Move(f, h, i)]
  BY KeptIsMove
<1> DEFINE L == Len(name)
           T == {k \in 0 .. L : ~ Rest(f[k], h, k)}
<1>2. L \in Nat /\ \A i \in 1 .. L : name[i] \in NameEntry /\ name[i].name \in Nat
  <2>1. \A e \in NameEntry : e.name \in Nat
    BY HandleParameters DEF NameEntry, HandleParameters
  <2> QED
    BY <2>1
<1>3. T = {}
  <2> SUFFICES ASSUME T # {} PROVE FALSE
    OBVIOUS
  <2>1. PICK x \in T : \A y \in T : x <= y
    <3>1. T \in SUBSET Nat
      BY <1>2
    <3> QED
      BY <3>1, SetMin
  <2>2. x \in 0 .. L /\ ~ Rest(f[x], h, x) /\ f[x] = Move(f, h, x)
    BY <1>1, <2>1
  <2>3. CASE x = 0
    <3>1. f[x] = <<>>
      BY <2>2, <2>3 DEF Move
    <3>2. Rest(<<>>, h, 0)
      BY DEF Rest, Sorted
    <3> QED
      BY <3>1, <3>2, <2>2, <2>3
  <2>4. CASE x # 0
    <3> DEFINE r == f[x - 1]
    <3>1. x - 1 \in 0 .. L /\ x \in 1 .. L /\ Rest(r, h, x - 1)
      BY <2>1, <2>2, <2>4, <1>2
    <3> HIDE DEF r
    <3>2. CASE name[x].handle = h
      <4>1. f[x] = r
        BY <2>2, <2>4, <3>2 DEF Move, r
      <4>2. \A j \in 1 .. x : j \in 1 .. x - 1 \/ j = x
        BY <3>1
      <4>3. \A j \in 1 .. x - 1 : j \in 1 .. x
        BY <3>1
      <4>4. Rest(r, h, x)
        BY <3>1, <3>2, <4>2, <4>3 DEF Rest
      <4> QED
        BY <4>1, <4>4, <2>2
    <3>3. CASE name[x].handle # h
      <4> DEFINE q == Append(r, name[x])
      <4>1. f[x] = q
        BY <2>2, <2>4, <3>3 DEF Move, r
      <4>2. r \in Seq(NameEntry) /\ name[x] \in NameEntry
        BY <3>1, <1>2 DEF Rest
      <4>3. /\ q \in Seq(NameEntry) /\ Len(q) = Len(r) + 1 /\ q[Len(r) + 1] = name[x]
            /\ \A a \in 1 .. Len(r) : q[a] = r[a]
        BY <4>2
      <4> HIDE DEF q
      <4>4. Len(r) \in Nat
        BY <4>2
      <4>5. \A a \in 1 .. Len(r) : \E j \in 1 .. x - 1 : r[a] = name[j] /\ name[j].handle # h
        BY <3>1 DEF Rest
      <4>6. ASSUME NEW a \in 1 .. Len(r) PROVE r[a].name < name[x].name
        <5>1. PICK j \in 1 .. x - 1 : r[a] = name[j]
          BY <4>5
        <5>2. j \in 1 .. L /\ j < x
          BY <3>1, <1>2
        <5> QED
          BY <5>1, <5>2, <3>1 DEF Sorted
      <4>7. Sorted(q)
        <5> SUFFICES ASSUME NEW a \in 1 .. Len(q), NEW c \in 1 .. Len(q), a < c PROVE q[a].name < q[c].name
          BY DEF Sorted
        <5>1. a \in 1 .. Len(r)
          BY <4>3, <4>4
        <5>2. CASE c = Len(r) + 1
          BY <5>1, <5>2, <4>3, <4>6
        <5>3. CASE c # Len(r) + 1
          <6>1. c \in 1 .. Len(r)
            BY <5>3, <4>3, <4>4
          <6>2. r[a].name < r[c].name
            BY <6>1, <5>1, <3>1 DEF Rest, Sorted
          <6> QED
            BY <6>1, <6>2, <5>1, <4>3
        <5> QED
          BY <5>2, <5>3
      <4>8. ASSUME NEW a \in 1 .. Len(q) PROVE \E j \in 1 .. x : q[a] = name[j] /\ name[j].handle # h
        <5>1. CASE a = Len(r) + 1
          BY <5>1, <4>3, <3>3, <3>1
        <5>2. CASE a # Len(r) + 1
          <6>1. a \in 1 .. Len(r)
            BY <5>2, <4>3, <4>4
          <6>2. PICK j \in 1 .. x - 1 : r[a] = name[j] /\ name[j].handle # h
            BY <6>1, <4>5
          <6>3. j \in 1 .. x
            BY <3>1
          <6> QED
            BY <6>1, <6>2, <6>3, <4>3
        <5> QED
          BY <5>1, <5>2
      <4>9. ASSUME NEW j \in 1 .. x, name[j].handle # h PROVE \E a \in 1 .. Len(q) : q[a] = name[j]
        <5>1. CASE j = x
          <6>1. Len(r) + 1 \in 1 .. Len(q)
            BY <4>3, <4>4
          <6> QED
            BY <6>1, <5>1, <4>3
        <5>2. CASE j # x
          <6>1. j \in 1 .. x - 1
            BY <5>2, <3>1
          <6>2. PICK a \in 1 .. Len(r) : r[a] = name[j]
            BY <6>1, <4>9, <3>1 DEF Rest
          <6>3. a \in 1 .. Len(q) /\ q[a] = r[a]
            BY <4>3, <4>4
          <6> QED
            BY <6>2, <6>3
        <5> QED
          BY <5>1, <5>2
      <4>10. Rest(q, h, x)
        BY <4>3, <4>7, <4>8, <4>9 DEF Rest
      <4> QED
        BY <4>1, <4>10, <2>2
    <3> QED
      BY <3>2, <3>3
  <2> QED
    BY <2>3, <2>4
<1>4. L \in 0 .. L
  BY <1>2
<1>5. Rest(f[L], h, L)
  BY <1>3, <1>4
<1> QED
  BY <1>1, <1>5

(* The invariant of the names: the list is sorted and agrees with what was *)
(* given and not retired.                                                  *)
Names ==
  /\ name \in Seq(NameEntry) /\ Sorted(name)
  /\ given \in [1 .. MaxName -> 0 .. MaxHandle]
  /\ \A i \in 1 .. Len(name) : given[name[i].name] = name[i].handle
  /\ \A n \in 1 .. MaxName : given[n] # 0 => \E i \in 1 .. Len(name) : name[i].name = n

(* Such a list and the history agree through the search.                   *)
LEMMA NamesFoundBySearch == ASSUME Names PROVE NamesFound
<1> SUFFICES ASSUME NEW n \in 1 .. MaxName PROVE FindName(n) = given[n]
  BY DEF NamesFound
<1> DEFINE r == Search(n)
<1>1. Answers(r, n)
  BY SearchIs DEF Names
<1>2. FindName(n) = r.handle
  BY DEF FindName
<1> HIDE DEF r
<1>3. \A e \in NameEntry : e.name \in Nat
  BY HandleParameters DEF NameEntry, HandleParameters
<1>4. \A i \in 1 .. Len(name) : name[i].name \in Nat
  BY <1>3 DEF Names
<1>5. CASE r.at \in 1 .. Len(name) /\ name[r.at].name = n /\ r.handle = name[r.at].handle
  BY <1>2, <1>5 DEF Names
<1>6. CASE /\ r.at \in 1 .. Len(name) + 1 /\ r.handle = 0
           /\ \A i \in 1 .. Len(name) : (i < r.at => name[i].name < n) /\ (i >= r.at => name[i].name > n)
  <2>1. \A i \in 1 .. Len(name) : i < r.at \/ i >= r.at
    BY <1>6 DEF Names
  <2>2. \A i \in 1 .. Len(name) : name[i].name # n
    BY <2>1, <1>4, <1>6
  <2>3. given[n] = 0
    BY <2>2 DEF Names
  <2> QED
    BY <2>3, <1>2, <1>6
<1> QED
  BY <1>1, <1>5, <1>6 DEF Answers

(* What InsertAt does to a sequence.                                       *)
LEMMA Insertion ==
  ASSUME NEW s \in Seq(NameEntry), NEW k \in 1 .. Len(s) + 1, NEW e \in NameEntry
  PROVE  LET q == InsertAt(s, k, e) IN
         /\ q \in Seq(NameEntry) /\ Len(q) = Len(s) + 1 /\ q[k] = e
         /\ \A i \in 1 .. Len(s) : (i < k => q[i] = s[i]) /\ (i >= k => q[i + 1] = s[i])
<1> DEFINE a == SubSeq(s, 1, k - 1) c == SubSeq(s, k, Len(s))
<1>1. /\ a \in Seq(NameEntry) /\ Len(a) = k - 1 /\ \A i \in 1 .. k - 1 : a[i] = s[i]
  OBVIOUS
<1>2. /\ c \in Seq(NameEntry) /\ Len(c) = Len(s) - k + 1 /\ \A i \in 1 .. Len(c) : c[i] = s[k + i - 1]
  OBVIOUS
<1>3. InsertAt(s, k, e) = a \o <<e>> \o c
  BY DEF InsertAt
<1> HIDE DEF a, c
<1> DEFINE b == a \o <<e>>
<1>10. k \in Nat /\ k >= 1
  OBVIOUS
<1>4. b \in Seq(NameEntry) /\ Len(b) = k /\ b[k] = e /\ \A i \in 1 .. k - 1 : b[i] = s[i]
  <2>1. b = Append(a, e)
    BY <1>1
  <2> HIDE DEF b
  <2>2. b \in Seq(NameEntry) /\ Len(b) = Len(a) + 1 /\ b[Len(a) + 1] = e
    BY ONLY <2>1, <1>1, e \in NameEntry
  <2>3. \A i \in 1 .. Len(a) : b[i] = a[i]
    BY ONLY <2>1, <1>1, e \in NameEntry
  <2>4. Len(a) + 1 = k
    BY ONLY <1>1, <1>10
  <2> QED
    BY ONLY <2>2, <2>3, <2>4, <1>1
<1> HIDE DEF b
<1> DEFINE q == b \o c
<1>5. /\ q \in Seq(NameEntry) /\ Len(q) = Len(s) + 1
      /\ \A i \in 1 .. k : q[i] = b[i]
      /\ \A i \in 1 .. Len(c) : q[k + i] = c[i]
  <2>0. b \in Seq(NameEntry) /\ c \in Seq(NameEntry)
    BY <1>2, <1>4
  <2>1. q \in Seq(NameEntry) /\ Len(q) = Len(b) + Len(c)
    BY ONLY <2>0
  <2>2. Len(q) = Len(s) + 1
    BY ONLY <2>1, <1>2, <1>4, <1>10, s \in Seq(NameEntry)
  <2>3. \A i \in 1 .. Len(b) : q[i] = b[i]
    BY ONLY <2>0
  <2>4. \A i \in 1 .. Len(c) : q[Len(b) + i] = c[i]
    BY ONLY <2>0
  <2> QED
    BY <2>1, <2>2, <2>3, <2>4, <1>4
<1>6. InsertAt(s, k, e) = q
  BY <1>3 DEF b
<1> HIDE DEF q
<1>7. q[k] = e
  BY <1>4, <1>5
<1>8. ASSUME NEW i \in 1 .. Len(s), i < k PROVE q[i] = s[i]
  BY <1>4, <1>5, <1>8
<1>9. ASSUME NEW i \in 1 .. Len(s), i >= k PROVE q[i + 1] = s[i]
  <2>1. i - k + 1 \in 1 .. Len(c) /\ k + (i - k + 1) = i + 1 /\ k + (i - k + 1) - 1 = i
    <3>1. i \in Nat /\ i <= Len(s) /\ Len(s) \in Nat
      OBVIOUS
    <3> QED
      BY ONLY <3>1, <1>2, <1>9, <1>10
  <2>2. q[k + (i - k + 1)] = s[k + (i - k + 1) - 1]
    BY <2>1, <1>2, <1>5
  <2> QED
    BY <2>1, <2>2
<1> QED
  BY <1>5, <1>6, <1>7, <1>8, <1>9

(* A name is inserted where the search says.                               *)
LEMMA NameHandleNames ==
  ASSUME Names, NEW n \in 1 .. MaxName, NEW h \in 1 .. MaxHandle, NameHandle(n, h)
  PROVE  Names'
<1> DEFINE k == Search(n).at e == [name |-> n, handle |-> h]
<1>1. /\ FindName(n) = 0 /\ name' = InsertAt(name, k, e) /\ given' = [given EXCEPT ![n] = h]
  BY DEF NameHandle
<1>2. /\ \A d \in NameEntry : d.name \in Nat /\ d.name \in 1 .. MaxName /\ d.handle # 0
      /\ n \in Nat /\ e \in NameEntry /\ e.name = n /\ e.handle = h
  BY HandleParameters DEF NameEntry, HandleParameters
<1>3. /\ name \in Seq(NameEntry) /\ Sorted(name)
      /\ \A i \in 1 .. Len(name) : name[i] \in NameEntry
  BY DEF Names
<1>4. /\ k \in 1 .. Len(name) + 1
      /\ \A i \in 1 .. Len(name) : (i < k => name[i].name < n) /\ (i >= k => name[i].name > n)
  BY <1>1, <1>2, <1>3, SearchIs DEF Answers, FindName
<1> HIDE DEF k, e
<1>5. /\ name' \in Seq(NameEntry) /\ Len(name') = Len(name) + 1 /\ name'[k] = e
      /\ \A i \in 1 .. Len(name) : (i < k => name'[i] = name[i]) /\ (i >= k => name'[i + 1] = name[i])
  BY <1>1, <1>2, <1>3, <1>4, Insertion
<1>6. Len(name) \in Nat
  BY <1>3
<1>7. ASSUME NEW i \in 1 .. Len(name')
      PROVE  \/ i < k /\ i \in 1 .. Len(name) /\ name'[i] = name[i]
             \/ i = k
             \/ i > k /\ i - 1 \in 1 .. Len(name) /\ i - 1 >= k /\ name'[i] = name[i - 1]
  <2>1. CASE i < k
    BY <2>1, <1>4, <1>5, <1>6
  <2>2. CASE i > k
    <3>1. i - 1 \in 1 .. Len(name) /\ i - 1 >= k /\ (i - 1) + 1 = i
      BY <2>2, <1>4, <1>5, <1>6
    <3>2. name'[(i - 1) + 1] = name[i - 1]
      BY <3>1, <1>5
    <3> QED
      BY <3>1, <3>2, <2>2
  <2> QED
    BY <2>1, <2>2, <1>4, <1>5, <1>6
<1>8. Sorted(name')
  <2> SUFFICES ASSUME NEW i \in 1 .. Len(name'), NEW j \in 1 .. Len(name'), i < j
               PROVE  name'[i].name < name'[j].name
    BY DEF Sorted
  <2>1. \A x, y \in 1 .. Len(name) : x < y => name[x].name < name[y].name
    BY <1>3 DEF Sorted
  <2>2. CASE i < k
    <3>1. i \in 1 .. Len(name) /\ name'[i] = name[i] /\ name[i].name < n /\ name[i].name \in Nat
      BY <2>2, <1>7, <1>4, <1>2, <1>3, <1>6
    <3>2. CASE j < k
      <4>1. j \in 1 .. Len(name) /\ name'[j] = name[j]
        BY <3>2, <1>7, <1>4, <1>6
      <4> QED
        BY <4>1, <3>1, <2>1
    <3>3. CASE j = k
      BY <3>1, <3>3, <1>5, <1>2
    <3>4. CASE j > k
      <4>1. j - 1 \in 1 .. Len(name) /\ name'[j] = name[j - 1] /\ j - 1 >= k
        <5>1. k \in Nat /\ j \in Nat
          BY ONLY <1>4, <1>5, <1>6, j \in 1 .. Len(name')
        <5>2. ~(j < k) /\ j # k
          BY ONLY <5>1, <3>4
        <5> QED
          BY <5>2, <1>7
      <4>2. name[j - 1].name > n /\ name[j - 1].name \in Nat
        BY <4>1, <1>4, <1>2, <1>3
      <4> QED
        <5>1. name'[i].name < n /\ name'[j].name > n
          BY ONLY <4>1, <4>2, <3>1
        <5>2. name'[i].name \in Nat /\ name'[j].name \in Nat
          BY ONLY <4>1, <4>2, <3>1
        <5>3. n \in Nat
          BY <1>2
        <5> QED
          BY ONLY <5>1, <5>2, <5>3
    <3> QED
      BY <3>2, <3>3, <3>4, <1>4, <1>6
  <2>3. CASE i >= k
    <3>1. j > k
      BY <2>3, <1>4, <1>6
    <3>2. j - 1 \in 1 .. Len(name) /\ name'[j] = name[j - 1] /\ j - 1 >= k
      BY <3>1, <1>7, <1>4, <1>6
    <3>3. name[j - 1].name > n /\ name[j - 1].name \in Nat
      BY <3>2, <1>4, <1>2, <1>3
    <3>4. CASE i = k
      BY <3>4, <3>2, <3>3, <1>5, <1>2
    <3>5. CASE i > k
      <4>1. i - 1 \in 1 .. Len(name) /\ name'[i] = name[i - 1] /\ i - 1 < j - 1
        <5>1. i - 1 \in 1 .. Len(name) /\ name'[i] = name[i - 1]
          BY <3>5, <1>7, <1>4, <1>6
        <5>2. i \in Nat /\ j \in Nat
          BY ONLY <1>5, <1>6, i \in 1 .. Len(name'), j \in 1 .. Len(name')
        <5> QED
          BY ONLY <5>1, <5>2, i < j
      <4> QED
        BY <4>1, <3>2, <2>1
    <3> QED
      BY <3>4, <3>5, <2>3, <1>4, <1>6
  <2> QED
    BY <2>2, <2>3, <1>4, <1>6
<1>9. /\ given' \in [1 .. MaxName -> 0 .. MaxHandle] /\ given'[n] = h
      /\ \A x \in 1 .. MaxName : x # n => given'[x] = given[x]
  <2>1. h \in 0 .. MaxHandle
    BY HandleParameters DEF HandleParameters
  <2> QED
    BY <2>1, <1>1 DEF Names
<1>10. ASSUME NEW i \in 1 .. Len(name) PROVE name[i].name # n /\ name[i].name \in 1 .. MaxName
  <2>1. i < k \/ i >= k
    BY ONLY <1>4, <1>6, i \in 1 .. Len(name)
  <2>2. name[i].name < n \/ name[i].name > n
    BY <2>1, <1>4
  <2>3. name[i].name \in Nat /\ name[i].name \in 1 .. MaxName
    BY <1>2, <1>3
  <2> QED
    BY ONLY <2>2, <2>3, <1>2
<1>11. ASSUME NEW i \in 1 .. Len(name') PROVE given'[name'[i].name] = name'[i].handle
  <2>1. \A x \in 1 .. Len(name) : given'[name[x].name] = name[x].handle
    BY <1>9, <1>10 DEF Names
  <2>2. given'[e.name] = e.handle
    BY <1>2, <1>9
  <2> QED
    BY <2>1, <2>2, <1>5, <1>7
<1>12. ASSUME NEW x \in 1 .. MaxName, given'[x] # 0 PROVE \E i \in 1 .. Len(name') : name'[i].name = x
  <2>1. CASE x = n
    <3>1. k \in 1 .. Len(name')
      BY <1>4, <1>5, <1>6
    <3> QED
      BY <3>1, <2>1, <1>5, <1>2
  <2>2. CASE x # n
    <3>1. PICK i \in 1 .. Len(name) : name[i].name = x
      BY <2>2, <1>9, <1>12 DEF Names
    <3>2. CASE i < k
      <4>1. i \in 1 .. Len(name') /\ name'[i] = name[i]
        BY <3>2, <1>5, <1>6
      <4> QED
        BY <4>1, <3>1
    <3>3. CASE i >= k
      <4>1. i + 1 \in 1 .. Len(name') /\ name'[i + 1] = name[i]
        BY <3>3, <1>5, <1>6
      <4> QED
        BY <4>1, <3>1
    <3> QED
      BY <3>2, <3>3, <1>4, <1>6
  <2> QED
    BY <2>1, <2>2
<1> QED
  BY <1>5, <1>8, <1>9, <1>11, <1>12 DEF Names

(* The names of a retired handle go.                                       *)
LEMMA RetiringNames ==
  ASSUME Names, NEW h, Retiring(h)
  PROVE  Names'
<1> DEFINE r == Kept(h)
<1>1. name' = r /\ given' = [x \in 1 .. MaxName |-> IF given[x] = h THEN 0 ELSE given[x]]
  BY DEF Retiring, Unnamed
<1>2. Rest(r, h, Len(name))
  BY KeptIs DEF Names
<1> HIDE DEF r
<1>3. given' \in [1 .. MaxName -> 0 .. MaxHandle]
  BY <1>1, HandleParameters DEF Names, HandleParameters
<1>4. \A i \in 1 .. Len(name) : name[i].name \in 1 .. MaxName
  <2>1. \A e \in NameEntry : e.name \in 1 .. MaxName
    BY DEF NameEntry
  <2> QED
    BY <2>1 DEF Names
<1>5. ASSUME NEW a \in 1 .. Len(r) PROVE given'[r[a].name] = r[a].handle
  <2>1. PICK j \in 1 .. Len(name) : r[a] = name[j] /\ name[j].handle # h
    BY <1>2 DEF Rest
  <2> QED
    BY <2>1, <1>1, <1>4 DEF Names
<1>6. ASSUME NEW x \in 1 .. MaxName, given'[x] # 0 PROVE \E a \in 1 .. Len(r) : r[a].name = x
  <2>1. given[x] # h /\ given[x] # 0
    BY <1>1, <1>6
  <2>2. PICK j \in 1 .. Len(name) : name[j].name = x
    BY <2>1 DEF Names
  <2>3. name[j].handle # h
    BY <2>1, <2>2 DEF Names
  <2>4. PICK a \in 1 .. Len(r) : r[a] = name[j]
    BY <2>3, <1>2 DEF Rest
  <2> QED
    BY <2>2, <2>4
<1> QED
  BY <1>1, <1>2, <1>3, <1>5, <1>6 DEF Names, Rest

(* The binary search finds each name that was given, with its handle, and  *)
(* none whose service was retired since (skynet_handle.c:88, 165, 215),    *)
(* whatever threads launch, retire and name.                               *)
THEOREM EveryNameFound == HandleSpec => []NamesFound
<1>1. HandleInit => Names
  <2> SUFFICES ASSUME HandleInit PROVE Names
    OBVIOUS
  <2>1. name = <<>> /\ given = [n \in 1 .. MaxName |-> 0]
    BY DEF HandleInit
  <2>2. name \in Seq(NameEntry) /\ Len(name) = 0
    BY <2>1
  <2> QED
    BY <2>1, <2>2, HandleParameters DEF Names, Sorted, HandleParameters
<1>2. Names /\ [HandleNext]_handlevars => Names'
  <2> SUFFICES ASSUME Names, [HandleNext]_handlevars PROVE Names'
    OBVIOUS
  <2>1. CASE UNCHANGED <<name, given>>
    BY <2>1 DEF Names, Sorted
  <2>2. ASSUME NEW h \in 1 .. MaxHandle, Retire(h) PROVE Names'
    BY <2>2, RetiringNames DEF Retire
  <2>3. CASE Retiring(all.handle)
    BY <2>3, RetiringNames
  <2>4. ASSUME NEW n \in 1 .. MaxName, NEW h \in 1 .. MaxHandle, NameHandle(n, h) PROVE Names'
    BY <2>4, NameHandleNames
  <2> QED
    BY <2>1, <2>2, <2>3, <2>4
    DEF HandleNext, handlevars, SetHandle, Register, AllBegin, AllLook, AllRetire, AllPass
<1>3. Names => NamesFound
  BY NamesFoundBySearch
<1> QED
  BY <1>1, <1>2, <1>3, PTL DEF HandleSpec

(* Every service is found by its handle and by its names and by no others, *)
(* while the table grows, handles wrap around and services are retired,    *)
(* for any number of contexts, handles and names (skynet_handle.c:44, 63). *)
THEOREM ServicesReachable == ASSUME OneLauncher PROVE HandleSpec => []Reachable
<1>1. HandleInit => HIndInv
  BY HandleParameters, InitInd
<1>2. HIndInv /\ [HandleNext]_handlevars => HIndInv'
  BY HandleParameters, NextInd
<1>3. HIndInv /\ NamesFound => Reachable
  BY HandleParameters, IndImplies
<1> QED
  BY <1>1, <1>2, <1>3, EveryNameFound, PTL DEF HandleSpec

(* When skynet_handle_retireall returns, every service that was known when *)
(* it was called is retired, although it reads the slots one by one while  *)
(* others retire and launch services and double the table                  *)
(* (skynet_handle.c:118).                                                  *)
THEOREM RetireAllRetires == ASSUME OneLauncher PROVE HandleSpec => []AllGone
<1>1. HandleInit => HIndInv
  BY HandleParameters, InitInd
<1>2. HIndInv /\ [HandleNext]_handlevars => HIndInv'
  BY HandleParameters, NextInd
<1>3. HIndInv => AllGone
  BY HandleParameters, IndImplies
<1> QED
  BY <1>1, <1>2, <1>3, PTL DEF HandleSpec

-----------------------------------------------------------------------------
(* The wheel of timers (skynet_timer.c).  First arithmetic: quotients.     *)
LEMMA QuotientIs ==
  ASSUME NEW a \in Nat, NEW u \in Nat \ {0}, NEW q \in Nat, q * u <= a, a < q * u + u
  PROVE  a \div u = q
OBVIOUS

(* A larger number has at least as large a quotient.                        *)
LEMMA QuotientGrows ==
  ASSUME NEW a \in Nat, NEW b \in Nat, a <= b, NEW u \in Nat \ {0}
  PROVE  a \div u <= b \div u
OBVIOUS

(* Dividing by a product is dividing twice.                                 *)
LEMMA QuotientTwice ==
  ASSUME NEW a \in Nat, NEW u \in Nat \ {0}, NEW l \in Nat \ {0}
  PROVE  a \div (u * l) = (a \div u) \div l
OBVIOUS

(* The next number starts a new quotient, or shares the old one.            *)
LEMMA QuotientNext ==
  ASSUME NEW a \in Nat, NEW u \in Nat \ {0}
  PROVE  (a + 1) \div u = IF (a + 1) % u = 0 THEN (a \div u) + 1 ELSE a \div u
OBVIOUS

(* What a product divides: the first factor divides it, the second one the  *)
(* quotient.                                                                *)
LEMMA Divisible ==
  ASSUME NEW a \in Nat, NEW u \in Nat \ {0}, NEW l \in Nat \ {0}
  PROVE  a % (u * l) = 0 <=> a % u = 0 /\ (a \div u) % l = 0
<1>1. u * l \in Nat \ {0}
  OBVIOUS
<1>2. PICK q, r : q = a \div u /\ r = a % u
  OBVIOUS
<1>3. q \in Nat /\ r \in 0 .. u - 1 /\ a = u * q + r
  BY <1>2, ModIs
<1>4. ASSUME a % (u * l) = 0 PROVE r = 0 /\ q % l = 0
  <2>1. PICK w, p : w = u * l /\ p = a \div w
    OBVIOUS
  <2>2. w \in Nat \ {0} /\ a % w = 0 /\ p \in Nat /\ a = w * p + (a % w)
    BY <1>1, <1>4, <2>1, ModIs
  <2>3. p \in Nat /\ a = w * p
    BY ONLY <2>2
  <2>4. PICK n : n = l * p
    OBVIOUS
  <2>5. n \in Nat /\ a = u * n
    <3>1. a = (u * l) * p
      BY ONLY <2>1, <2>3
    <3> QED
      BY ONLY <2>3, <2>4, <3>1, u \in Nat \ {0}, l \in Nat \ {0}
  <2>6. q = n
    <3>1. n * u <= a /\ a < n * u + u
      BY <2>5
    <3> QED
      BY <1>2, <2>5, <3>1, QuotientIs
  <2>7. r = 0
    BY <1>3, <2>5, <2>6
  <2>8. q % l = 0
    BY ONLY <2>3, <2>4, <2>6, l \in Nat \ {0}
  <2> QED
    BY <2>7, <2>8
<1>5. ASSUME r = 0, q % l = 0 PROVE a % (u * l) = 0
  <2>1. PICK w, p : w = u * l /\ p = q \div l
    OBVIOUS
  <2>2. w \in Nat \ {0} /\ p \in Nat /\ q = l * p + (q % l)
    BY <1>1, <1>3, <2>1, ModIs
  <2>3. p \in Nat /\ q = l * p
    BY ONLY <2>2, <1>5
  <2>4. a = u * q
    BY <1>3, <1>5
  <2>5. a = w * p
    BY ONLY <2>1, <2>3, <2>4, u \in Nat \ {0}, l \in Nat \ {0}
  <2>6. p * w <= a /\ a < p * w + w
    BY ONLY <2>2, <2>5
  <2>7. a \div w = p
    BY <2>2, <2>6, QuotientIs
  <2>8. a = a + (a % w)
    <3>1. a = w * p + (a % w)
      BY <2>2, <2>7, ModIs
    <3> QED
      BY ONLY <2>5, <3>1
  <2>9. PICK x : x = a % w
    OBVIOUS
  <2>10. x \in Nat /\ a = a + x
    BY <2>2, <2>8, <2>9, ModIs
  <2>11. a % w = 0
    BY ONLY <2>9, <2>10, a \in Nat
  <2> QED
    BY <2>1, <2>11
<1> QED
  BY <1>2, <1>4, <1>5

(* The loop that widens the mask has a solution: each level stands for     *)
(* Level times the ticks of the one before.                                *)
LEMMA UnitIs ==
  /\ Unit(0) = Near
  /\ \A k \in 1 .. Levels : Unit(k) = Unit(k - 1) * Level
  /\ \A k \in 0 .. Levels : Unit(k) \in Nat \ {0}
<1> USE TimerParameters
<1> DEFINE Upto(f, k) == /\ f = [i \in 0 .. Levels |-> f[i]]
                         /\ \A i \in 0 .. k : f[i] = Wider(f, i)
           T == {k \in 0 .. Levels : ~ \E f : Upto(f, k)}
<1>2. T = {}
  <2> SUFFICES ASSUME T # {} PROVE FALSE
    OBVIOUS
  <2>1. PICK x \in T : \A y \in T : x <= y
    <3>1. T \in SUBSET Nat
      OBVIOUS
    <3> QED
      BY <3>1, SetMin
  <2>2. x \in 0 .. Levels /\ ~ \E f : Upto(f, x)
    BY <2>1
  <2>3. CASE x = 0
    <3> DEFINE g == [i \in 0 .. Levels |-> Near]
    <3>1. Upto(g, x)
      BY <2>3 DEF Wider
    <3> QED
      BY <3>1, <2>2
  <2>4. CASE x # 0
    <3>1. x - 1 \in 0 .. Levels /\ x - 1 \notin T
      <4>1. Levels \in Nat /\ x \in Nat /\ x # 0 /\ x <= Levels
        BY <2>2, <2>4
      <4>2. x - 1 \in 0 .. Levels /\ ~ (x <= x - 1)
        BY ONLY <4>1
      <4>3. x - 1 \in T => x <= x - 1
        BY <2>1
      <4> QED
        BY <4>2, <4>3
    <3>2. PICK f : Upto(f, x - 1)
      BY <3>1
    <3> DEFINE g == [i \in 0 .. Levels |-> IF i = x THEN Wider(f, x) ELSE f[i]]
    <3>3. g = [i \in 0 .. Levels |-> g[i]]
      OBVIOUS
    <3>4. ASSUME NEW i \in 0 .. x PROVE g[i] = Wider(g, i)
      <4>1. i \in 0 .. Levels /\ x \in Nat /\ i \in Nat /\ i <= x
        BY <2>2
      <4>2. g[i] = Wider(f, i)
        <5>1. CASE i = x
          BY <4>1, <5>1
        <5>2. CASE i # x
          BY <4>1, <5>2, <3>2
        <5> QED
          BY <5>1, <5>2
      <4>3. i # 0 => g[i - 1] = f[i - 1]
        <5> SUFFICES ASSUME i # 0 PROVE g[i - 1] = f[i - 1]
          OBVIOUS
        <5>0. Levels \in Nat /\ x \in 0 .. Levels
          BY <2>2
        <5>1. i - 1 \in 0 .. Levels /\ i - 1 # x
          BY ONLY <4>1, i # 0, <5>0
        <5> QED
          BY <5>1
      <4> HIDE DEF g
      <4> QED
        BY <4>2, <4>3 DEF Wider
    <3>5. Upto(g, x)
      BY <3>3, <3>4
    <3> QED
      BY <3>5, <2>2
  <2> QED
    BY <2>3, <2>4
<1>3. PICK f : Upto(f, Levels)
  BY <1>2
<1>5. f = [i \in 0 .. Levels |-> Wider(f, i)]
  BY <1>3
<1> DEFINE F == CHOOSE unit : unit = [i \in 0 .. Levels |-> Wider(unit, i)]
<1>6. F = [i \in 0 .. Levels |-> Wider(F, i)]
  BY <1>5
<1>7. \A k : Unit(k) = F[k]
  BY DEF Unit
<1> HIDE DEF F
<1>8. Unit(0) = Near /\ \A k \in 1 .. Levels : Unit(k) = Unit(k - 1) * Level
  <2>1. 0 \in 0 .. Levels /\ \A k \in 1 .. Levels : k \in 0 .. Levels /\ k # 0
    OBVIOUS
  <2>2. \A k \in 0 .. Levels : F[k] = Wider(F, k)
    BY <1>6
  <2> QED
    BY <1>7, <2>1, <2>2 DEF Wider
<1>9. \A k \in 0 .. Levels : Unit(k) \in Nat \ {0}
  <2> DEFINE S == {k \in 0 .. Levels : Unit(k) \notin Nat \ {0}}
  <2> SUFFICES ASSUME S # {} PROVE FALSE
    OBVIOUS
  <2>1. PICK x \in S : \A y \in S : x <= y
    <3>1. S \in SUBSET Nat
      OBVIOUS
    <3> QED
      BY <3>1, SetMin
  <2>2. x \in 1 .. Levels
    BY <1>8, <2>1
  <2>3. x - 1 \in 0 .. Levels /\ x - 1 \notin S
    BY <2>1, <2>2
  <2>4. Unit(x - 1) \in Nat \ {0} /\ Unit(x) = Unit(x - 1) * Level
    BY <1>8, <2>2, <2>3
  <2>5. Unit(x) \in Nat \ {0}
    BY ONLY <2>4, TimerParameters
  <2> QED
    BY <2>1, <2>5
<1> QED
  BY <1>8, <1>9

(* The times; the number of the block of Unit(k) ticks that a time is in.  *)
Times == 0 .. Range32 - 1
Block(k, a) == a \div Unit(k)

(* Blocks contain those of finer levels; a block of a level is followed by *)
(* the next after its last tick.                                           *)
LEMMA Blocks ==
  ASSUME NEW k \in 0 .. Levels, NEW a \in Nat
  PROVE  /\ Block(k, a) \in Nat
         /\ k < Levels => /\ Block(k + 1, a) = Block(k, a) \div Level
                          /\ (a % Unit(k + 1) = 0 <=> a % Unit(k) = 0 /\ Block(k, a) % Level = 0)
         /\ \A b \in Nat : a <= b => Block(k, a) <= Block(k, b)
         /\ \A b \in Nat : Block(k, a) = Block(k, b) => a - b < Unit(k) /\ b - a < Unit(k)
         /\ Block(k, a + 1) = IF (a + 1) % Unit(k) = 0 THEN Block(k, a) + 1 ELSE Block(k, a)
<1>1. Unit(k) \in Nat \ {0}
  BY UnitIs
<1>2. ASSUME k < Levels
      PROVE  /\ Block(k + 1, a) = Block(k, a) \div Level
             /\ (a % Unit(k + 1) = 0 <=> a % Unit(k) = 0 /\ Block(k, a) % Level = 0)
  <2>1. Unit(k + 1) = Unit(k) * Level
    <3>1. k + 1 \in 1 .. Levels /\ (k + 1) - 1 = k
      BY <1>2, TimerParameters
    <3> QED
      BY <3>1, UnitIs
  <2>2. Level \in Nat \ {0}
    BY TimerParameters
  <2>3. Block(k + 1, a) = Block(k, a) \div Level
    BY <1>1, <2>1, <2>2, QuotientTwice DEF Block
  <2>4. a % Unit(k + 1) = 0 <=> a % Unit(k) = 0 /\ Block(k, a) % Level = 0
    <3>1. a % (Unit(k) * Level) = 0 <=> a % Unit(k) = 0 /\ (a \div Unit(k)) % Level = 0
      BY <1>1, <2>2, Divisible
    <3> QED
      BY <2>1, <3>1, Zenon DEF Block
  <2> QED
    BY <2>3, <2>4, Zenon
<1>3. Block(k, a) \in Nat
  BY <1>1, ModIs DEF Block
<1>4. ASSUME NEW b \in Nat, a <= b PROVE Block(k, a) <= Block(k, b)
  BY <1>1, <1>4, QuotientGrows DEF Block
<1>5. ASSUME NEW b \in Nat, Block(k, a) = Block(k, b) PROVE a - b < Unit(k) /\ b - a < Unit(k)
  <2>1. PICK u, q, r, s : u = Unit(k) /\ q = Block(k, a) /\ r = a % u /\ s = b % u
    OBVIOUS
  <2>2. /\ u \in Nat \ {0} /\ q \in Nat /\ r \in 0 .. u - 1
        /\ s \in 0 .. u - 1 /\ a = u * q + r /\ b = u * q + s
    BY <1>1, <1>3, <1>5, <2>1, ModIs DEF Block
  <2>3. u * q \in Nat
    BY ONLY <2>2
  <2>4. a - b < u /\ b - a < u
    BY ONLY <2>2, <2>3
  <2> QED
    BY <2>1, <2>4
<1>6. Block(k, a + 1) = IF (a + 1) % Unit(k) = 0 THEN Block(k, a) + 1 ELSE Block(k, a)
  BY <1>1, QuotientNext DEF Block
<1> QED
  BY <1>2, <1>3, <1>4, <1>5, <1>6

(* Times in one block are in one block of every coarser level.             *)
LEMMA BlockUp ==
  ASSUME NEW k \in 0 .. Levels, NEW j \in k .. Levels, NEW a \in Nat, NEW b \in Nat,
         Block(k, a) = Block(k, b)
  PROVE  Block(j, a) = Block(j, b)
<1> USE TimerParameters
<1> DEFINE T == {i \in k .. Levels : Block(i, a) # Block(i, b)}
<1> SUFFICES ASSUME T # {} PROVE FALSE
  OBVIOUS
<1>1. PICK x \in T : \A y \in T : x <= y
  <2>1. T \in SUBSET Nat
    OBVIOUS
  <2> QED
    BY <2>1, SetMin
<1>2. x # k /\ x \in k .. Levels /\ Block(x, a) # Block(x, b)
  BY <1>1
<1>3. x - 1 \in k .. Levels /\ x - 1 \notin T /\ x - 1 \in 0 .. Levels /\ x - 1 < Levels /\ (x - 1) + 1 = x
  BY <1>1, <1>2
<1>4. Block(x - 1, a) = Block(x - 1, b)
  BY <1>3
<1>5. Block(x, a) = Block(x - 1, a) \div Level /\ Block(x, b) = Block(x - 1, b) \div Level
  BY <1>3, Blocks
<1> QED
  BY <1>2, <1>4, <1>5

(* All times are in one block of the last level.                           *)
LEMMA BlockTop ==
  /\ Range32 \in Nat \ {0} /\ Times \subseteq Nat
  /\ \A a \in Times : Block(Levels, a) = 0
  /\ Levels - 1 \in 0 .. Levels /\ 2 * Unit(Levels - 1) <= Range32
<1> USE TimerParameters
<1>1. /\ Range32 \in Nat \ {0} /\ Range32 = Unit(Levels)
      /\ Range32 = Unit(Levels - 1) * Level /\ Unit(Levels - 1) \in Nat
  BY UnitIs DEF Range32
<1>2. ASSUME NEW a \in Times PROVE Block(Levels, a) = 0
  <2>1. a \in Nat /\ 0 * Range32 <= a /\ a < 0 * Range32 + Range32
    BY <1>1 DEF Times
  <2> QED
    BY <1>1, <2>1, QuotientIs DEF Block
<1>3. 2 * Unit(Levels - 1) <= Range32
  <2>1. PICK u, r : u = Unit(Levels - 1) /\ r = Range32
    OBVIOUS
  <2>2. u \in Nat /\ r = u * Level /\ Level >= 2 /\ Level \in Nat
    BY <1>1, <2>1
  <2>3. 2 * u <= r
    BY ONLY <2>2
  <2> QED
    BY <2>1, <2>3
<1> QED
  BY <1>1, <1>2, <1>3 DEF Times
(* A time that is a multiple of a level's ticks is one of finer levels'.   *)
LEMMA FinerMultiple ==
  ASSUME NEW k \in 0 .. Levels, NEW j \in 0 .. k, NEW a \in Nat, a % Unit(k) = 0
  PROVE  a % Unit(j) = 0
<1> USE TimerParameters
<1> DEFINE T == {i \in 0 .. k : a % Unit(k - i) # 0}
<1>1. ASSUME T # {} PROVE FALSE
  <2>1. PICK x \in T : \A y \in T : x <= y
    <3>1. T \in SUBSET Nat
      OBVIOUS
    <3> QED
      BY <1>1, <3>1, SetMin
  <2>2. x # 0
    BY <2>1
  <2>3. /\ x - 1 \in 0 .. k /\ ~ (x <= x - 1) /\ k - (x - 1) = (k - x) + 1
        /\ k - x \in 0 .. Levels /\ k - x < Levels
    BY <2>1, <2>2
  <2>4. a % Unit(k - (x - 1)) = 0
    BY <2>1, <2>3
  <2>5. a % Unit((k - x) + 1) = 0
    BY ONLY <2>3, <2>4
  <2>6. a % Unit(k - x) = 0
    BY <2>3, <2>5, Blocks
  <2> QED
    BY <2>1, <2>6
<1>2. k - j \in 0 .. k /\ k - (k - j) = j
  OBVIOUS
<1> QED
  BY <1>1, <1>2

(* Level k is the first whose blocks part the two times, and the next      *)
(* level's hold both.                                                      *)
Apart(k, a, b) == Block(k, a) # Block(k, b) /\ Block(k + 1, a) = Block(k + 1, b)

(* add_node: the near list of the tick, or the list of the block at the    *)
(* level that parts the expiry from now.                                   *)
LEMMA ListIs ==
  ASSUME NEW a \in Times, NEW b \in Times
  PROVE  /\ Block(0, a) = Block(0, b) => PlaceOf(a, b) = <<-1, b % Near>>
         /\ Block(0, a) # Block(0, b) => \E k \in 0 .. Levels - 1 : Apart(k, a, b)
         /\ \A k \in 0 .. Levels - 1 : Apart(k, a, b) => PlaceOf(a, b) = <<k, Block(k, b) % Level>>
         /\ PlaceOf(a, b) \in Lists
<1> USE TimerParameters
<1> DEFINE S == {k \in 0 .. Levels - 1 : k = Levels - 1 \/ b \div Unit(k + 1) = a \div Unit(k + 1)}
           T == {k \in 0 .. Levels - 1 : Block(k + 1, a) = Block(k + 1, b)}
<1>0. a \in Nat /\ b \in Nat
  BY BlockTop
<1>1. S = T
  <2>1. ASSUME NEW k \in 0 .. Levels - 1 PROVE k \in S <=> k \in T
    <3>1. k = Levels - 1 => k + 1 = Levels
      OBVIOUS
    <3>2. k = Levels - 1 => Block(k + 1, a) = Block(k + 1, b)
      BY <3>1, BlockTop
    <3> QED
      BY <3>2 DEF Block
  <2> QED
    BY <2>1
<1>2. PICK m \in T : \A y \in T : m <= y
  <2>1. T \in SUBSET Nat
    OBVIOUS
  <2>2. Levels - 1 \in 0 .. Levels - 1 /\ (Levels - 1) + 1 = Levels
    OBVIOUS
  <2>3. Levels - 1 \in T
    BY <2>2, BlockTop
  <2> QED
    BY <2>1, <2>3, SetMin
<1>3. Block(0, a) = a \div Near /\ Block(0, b) = b \div Near
  BY UnitIs DEF Block
<1>4. Block(0, a) = Block(0, b) => PlaceOf(a, b) = <<-1, b % Near>>
  BY <1>3 DEF PlaceOf
<1>5. ASSUME Block(0, a) # Block(0, b) PROVE Apart(m, a, b)
  <2>1. CASE m = 0
    BY <1>2, <1>5, <2>1 DEF Apart
  <2>2. CASE m # 0
    <3>1. m - 1 \in 0 .. Levels - 1 /\ ~ (m <= m - 1) /\ (m - 1) + 1 = m
      BY <1>2, <2>2
    <3>2. m - 1 \notin T
      BY <1>2, <3>1
    <3>3. Block((m - 1) + 1, a) # Block((m - 1) + 1, b)
      BY <3>1, <3>2
    <3> QED
      BY ONLY <1>2, <3>1, <3>3 DEF Apart
  <2> QED
    BY <2>1, <2>2
<1>6. ASSUME NEW k \in 0 .. Levels - 1, Apart(k, a, b)
      PROVE  PlaceOf(a, b) = <<k, Block(k, b) % Level>>
  <2>1. k \in T
    BY <1>6 DEF Apart
  <2>2. ASSUME NEW j \in T, j < k PROVE FALSE
    <3>1. j + 1 \in 0 .. Levels /\ k \in (j + 1) .. Levels
      BY <2>2
    <3>2. Block(k, a) = Block(k, b)
      BY <1>0, <2>2, <3>1, BlockUp
    <3> QED
      BY <1>6, <3>2 DEF Apart
  <2>3. \A j \in T : k <= j
    BY <2>2
  <2>4. Min(S) = k
    <3> HIDE DEF S, T
    <3>1. \A x \in T : (\A y \in T : x <= y) => x = k
      <4>1. T \subseteq Nat
        BY DEF T
      <4> QED
        BY <2>1, <2>3, <4>1
    <3> QED
      BY <1>1, <2>1, <2>3, <3>1 DEF Min
  <2>5. Block(0, a) # Block(0, b)
    <3>1. 0 \in 0 .. Levels /\ k \in 0 .. Levels
      OBVIOUS
    <3> QED
      BY <1>0, <1>6, <3>1, BlockUp DEF Apart
  <2>6. b \div Near # a \div Near
    BY <1>3, <2>5
  <2>7. PlaceOf(a, b) = <<Min(S), (b \div Unit(Min(S))) % Level>>
    <3> HIDE DEF S, T
    <3>1. S = {x \in 0 .. Levels - 1 : x = Levels - 1 \/ b \div Unit(x + 1) = a \div Unit(x + 1)}
      BY DEF S
    <3> QED
      BY <2>6, <3>1, Zenon DEF PlaceOf
  <2> QED
    BY <2>4, <2>7 DEF Block
<1>7. PlaceOf(a, b) \in Lists
  <2>1. CASE Block(0, a) = Block(0, b)
    <3>1. b % Near \in 0 .. Near - 1
      BY <1>0
    <3> QED
      BY <1>4, <2>1, <3>1 DEF Lists
  <2>2. CASE Block(0, a) # Block(0, b)
    <3>1. m \in 0 .. Levels - 1 /\ m \in 0 .. Levels
      OBVIOUS
    <3>2. Block(m, b) \in Nat
      BY <1>0, <3>1, Blocks
    <3>3. Block(m, b) % Level \in 0 .. Level - 1
      BY <3>2
    <3>4. PlaceOf(a, b) = <<m, Block(m, b) % Level>>
      BY <1>5, <1>6, <2>2, <3>1
    <3> QED
      BY <3>1, <3>3, <3>4 DEF Lists
  <2> QED
    BY <2>1, <2>2
<1> QED
  BY <1>4, <1>5, <1>6, <1>7

(* The list of level k whose time has come when time is s.                 *)
Opens(k, s) == s % Unit(k) = 0 /\ Block(k, s) % Level # 0

(* timer_shift: none within a turn of the near lists; else the list of the *)
(* block that starts, at the one level that goes on without a carry.       *)
LEMMA ShiftedIs ==
  /\ Shifted(0) = {<<Levels - 1, 0>>}
  /\ \A s \in Times \ {0} : s % Near # 0 => Shifted(s) = {}
  /\ \A s \in Times \ {0} : s % Near = 0 => \E k \in 0 .. Levels - 1 : Opens(k, s)
  /\ \A s \in Times \ {0}, k \in 0 .. Levels - 1 :
       Opens(k, s) => Shifted(s) = {<<k, Block(k, s) % Level>>}
<1> USE TimerParameters
<1>1. Shifted(0) = {<<Levels - 1, 0>>}
  BY DEF Shifted
<1>2. ASSUME NEW s \in Times \ {0}, s % Near # 0 PROVE Shifted(s) = {}
  BY <1>2 DEF Shifted
<1>3. ASSUME NEW s \in Times \ {0}, s % Near = 0 PROVE \E k \in 0 .. Levels - 1 : Opens(k, s)
  <2> DEFINE T == {k \in 0 .. Levels : s % Unit(k) # 0}
  <2>0. s \in Nat /\ s # 0 /\ s < Range32 /\ Range32 \in Nat \ {0}
    BY BlockTop DEF Times
  <2>1. s % Range32 # 0
    BY ONLY <2>0
  <2>2. Levels \in T
    BY <2>1 DEF Range32
  <2>3. PICK x \in T : \A y \in T : x <= y
    <3>1. T \in SUBSET Nat
      OBVIOUS
    <3> QED
      BY <2>2, <3>1, SetMin
  <2>4. x # 0
    BY <1>3, <2>3, UnitIs
  <2>5. /\ x - 1 \in 0 .. Levels /\ ~ (x <= x - 1) /\ (x - 1) + 1 = x
        /\ x - 1 \in 0 .. Levels - 1 /\ x - 1 < Levels
    BY <2>3, <2>4
  <2>6. s % Unit(x - 1) = 0
    BY <2>3, <2>5
  <2>7. s % Unit((x - 1) + 1) # 0
    BY <2>3, <2>5
  <2>8. Block(x - 1, s) % Level # 0
    BY <2>0, <2>5, <2>6, <2>7, Blocks
  <2> QED
    BY <2>5, <2>6, <2>8 DEF Opens
<1>4. ASSUME NEW s \in Times \ {0}, NEW k \in 0 .. Levels - 1, Opens(k, s)
      PROVE  Shifted(s) = {<<k, Block(k, s) % Level>>}
  <2> DEFINE S == {j \in 0 .. Levels - 1 : (s \div Unit(j)) % Level # 0}
  <2>0. s \in Nat /\ s # 0
    BY BlockTop
  <2>1. k \in S
    BY <1>4 DEF Opens, Block
  <2>2. ASSUME NEW j \in S, j < k PROVE FALSE
    <3>1. j + 1 \in 0 .. k /\ k \in 0 .. Levels /\ j \in 0 .. Levels /\ j < Levels
      BY <2>2
    <3>2. s % Unit(j + 1) = 0
      BY <1>4, <2>0, <3>1, FinerMultiple DEF Opens
    <3>3. Block(j, s) % Level = 0
      BY <2>0, <3>1, <3>2, Blocks
    <3> QED
      BY <3>3 DEF Block
  <2>3. Min(S) = k
    <3>1. \A j \in S : k <= j
      BY <2>2
    <3>2. S \subseteq Nat
      OBVIOUS
    <3> HIDE DEF S
    <3>3. \A x \in S : (\A y \in S : x <= y) => x = k
      BY <2>1, <3>1, <3>2
    <3> QED
      BY <2>1, <3>1, <3>3 DEF Min
  <2>4. s % Near = 0
    <3>1. 0 \in 0 .. k /\ k \in 0 .. Levels
      OBVIOUS
    <3> QED
      BY <1>4, <2>0, <3>1, FinerMultiple, UnitIs DEF Opens
  <2>5. Shifted(s) = {<<Min(S), (s \div Unit(Min(S))) % Level>>}
    <3> HIDE DEF S
    <3>1. S = {j \in 0 .. Levels - 1 : (s \div Unit(j)) % Level # 0}
      BY DEF S
    <3> QED
      BY <2>0, <2>4, <3>1, Zenon DEF Shifted
  <2> QED
    BY <2>3, <2>5 DEF Block
<1> QED
  BY <1>1, <1>2, <1>3, <1>4

(* Times in one block have the same lists for what is not in it.           *)
LEMMA SameLists ==
  ASSUME NEW a \in Times, NEW c \in Times, Block(0, a) = Block(0, c), NEW b \in Times
  PROVE  PlaceOf(a, b) = PlaceOf(c, b)
<1> USE TimerParameters
<1>0. a \in Nat /\ b \in Nat /\ c \in Nat
  BY BlockTop
<1>1. ASSUME NEW k \in 0 .. Levels PROVE Block(k, a) = Block(k, c)
  <2>1. 0 \in 0 .. Levels
    OBVIOUS
  <2> QED
    BY <1>0, <2>1, BlockUp
<1>2. CASE Block(0, a) = Block(0, b)
  BY <1>2, ListIs
<1>3. CASE Block(0, a) # Block(0, b)
  <2>1. PICK k \in 0 .. Levels - 1 : Apart(k, a, b)
    BY <1>3, ListIs
  <2>2. k \in 0 .. Levels /\ k + 1 \in 0 .. Levels
    OBVIOUS
  <2>3. Apart(k, c, b)
    BY <1>1, <2>1, <2>2 DEF Apart
  <2> QED
    BY <2>1, <2>3, ListIs
<1> QED
  BY <1>2, <1>3

(* The ticks to go from a to b.                                            *)
ToGo(a, b) == (b - a) % Range32
(* The subtraction of uint32_t, by cases.                                   *)
LEMMA ToGoIs ==
  ASSUME NEW a \in Times, NEW b \in Times
  PROVE  ToGo(a, b) = IF a <= b THEN b - a ELSE (b - a) + Range32
<1>1. PICK r : r = Range32
  OBVIOUS
<1>2. r \in Nat \ {0} /\ a \in Nat /\ b \in Nat /\ a < r /\ b < r
  BY <1>1, BlockTop DEF Times
<1>3. (b - a) % r = IF a <= b THEN b - a ELSE (b - a) + r
  BY ONLY <1>2
<1> QED
  BY <1>1, <1>3 DEF ToGo

(* What a tick does to the list of a timer that is still ahead: either it  *)
(* stays the timer's list, or it is the one that is taken apart and the    *)
(* timer's next list is finer.  No timer is on a list finer than that one. *)
Turned(now, s, e) ==
  /\ PlaceOf(now, e) \notin Shifted(s) => PlaceOf(s, e) = PlaceOf(now, e)
  /\ PlaceOf(now, e) \in Shifted(s) => PlaceOf(s, e)[1] < PlaceOf(now, e)[1]
  /\ \A p \in Shifted(s) : p[1] <= PlaceOf(now, e)[1]

(* Two numbers of blocks in one block of the next level differ in place.   *)
LEMMA SameRest ==
  ASSUME NEW l \in Nat \ {0}, NEW x \in Nat, NEW y \in Nat, x \div l = y \div l, x % l = y % l
  PROVE  x = y
BY ModIs

(* A tick, for a timer whose expiry is the larger number.                   *)
LEMMA TurnedAhead ==
  ASSUME NEW now \in Times, NEW e \in Times, now < e
  PROVE  Turned(now, now + 1, e)
<1> USE TimerParameters
<1> DEFINE s == now + 1
<1>0. /\ now \in Nat /\ e \in Nat /\ s \in Nat /\ s # 0 /\ s \in Times /\ s \in Times \ {0} /\ s <= e
  <2>1. now \in Nat /\ e \in Nat /\ now < e /\ Range32 \in Nat /\ e < Range32
    BY BlockTop DEF Times
  <2> QED
    BY ONLY <2>1 DEF Times
<1>1. CASE s % Near # 0
  <2>1. Block(0, s) = Block(0, now)
    <3>1. 0 \in 0 .. Levels /\ Unit(0) = Near
      BY UnitIs
    <3> QED
      BY <1>0, <1>1, <3>1, Blocks
  <2>2. Shifted(s) = {}
    BY <1>0, <1>1, ShiftedIs
  <2>3. PlaceOf(s, e) = PlaceOf(now, e)
    BY <1>0, <2>1, SameLists
  <2> QED
    BY ONLY <2>2, <2>3 DEF Turned
<1>2. CASE s % Near = 0
  <2>1. PICK k \in 0 .. Levels - 1 : Opens(k, s)
    BY <1>0, <1>2, ShiftedIs
  <2>2. Shifted(s) = {<<k, Block(k, s) % Level>>}
    BY <1>0, <2>1, ShiftedIs
  <2> HIDE DEF s
  <2>3. k \in 0 .. Levels /\ k < Levels /\ k + 1 \in 0 .. Levels /\ k \in Nat
    OBVIOUS
  <2>4. Block(k + 1, s) = Block(k + 1, now)
    <3>1. s % Unit(k + 1) # 0
      BY <1>0, <2>1, <2>3, Blocks DEF Opens
    <3> QED
      BY <1>0, <2>3, <3>1, Blocks DEF s
  <2>5. ASSUME NEW j \in (k + 1) .. Levels PROVE Block(j, s) = Block(j, now)
    BY <1>0, <2>3, <2>4, BlockUp
  <2>6. ASSUME NEW j \in 0 .. k PROVE Block(j, now) # Block(j, e)
    <3>1. j \in 0 .. Levels
      BY <2>3
    <3>2. s % Unit(j) = 0
      BY <1>0, <2>1, <2>3, FinerMultiple DEF Opens
    <3>3. Block(j, s) = Block(j, now) + 1
      BY <1>0, <3>1, <3>2, Blocks DEF s
    <3>4. /\ Block(j, s) <= Block(j, e)
          /\ Block(j, now) \in Nat /\ Block(j, s) \in Nat /\ Block(j, e) \in Nat
      BY <1>0, <3>1, Blocks
    <3> QED
      BY ONLY <3>3, <3>4
  <2>7. PICK m \in 0 .. Levels - 1 : Apart(m, now, e)
    <3>1. 0 \in 0 .. k
      BY <2>3
    <3>2. Block(0, now) # Block(0, e)
      BY <2>6, <3>1
    <3> QED
      BY <3>2, ListIs
  <2>8. PlaceOf(now, e) = <<m, Block(m, e) % Level>>
    BY <2>7, ListIs
  <2>9. k <= m /\ m \in 0 .. Levels /\ m + 1 \in 0 .. Levels /\ m < Levels /\ m \in Nat
    <3>1. m + 1 \notin 0 .. k
      BY <2>6, <2>7 DEF Apart
    <3> QED
      BY <2>3, <3>1
  <2>10. m + 1 \in (k + 1) .. Levels
    BY <2>9, <2>3
  <2>11. CASE m # k
    <3>1. Apart(m, s, e)
      <4>1. m \in (k + 1) .. Levels
        BY <2>3, <2>9, <2>11
      <4> QED
        BY <2>5, <2>7, <2>10, <4>1 DEF Apart
    <3>2. PlaceOf(s, e) = PlaceOf(now, e)
      BY <1>0, <2>8, <3>1, ListIs
    <3> QED
      BY ONLY <2>2, <2>8, <2>9, <2>11, <3>2 DEF Turned, s
  <2>12. CASE m = k /\ Block(k, e) = Block(k, s)
    <3>1. PlaceOf(s, e)[1] < k
      <4>1. CASE Block(0, s) = Block(0, e)
        BY <1>0, <2>3, <4>1, ListIs
      <4>2. CASE Block(0, s) # Block(0, e)
        <5>1. PICK j \in 0 .. Levels - 1 : Apart(j, s, e)
          BY <1>0, <4>2, ListIs
        <5>2. PlaceOf(s, e) = <<j, Block(j, e) % Level>>
          BY <1>0, <5>1, ListIs
        <5>3. ~ (j \in k .. Levels)
          BY <1>0, <2>3, <2>12, <5>1, BlockUp DEF Apart
        <5>4. j < k
          BY <2>3, <5>3
        <5> QED
          BY <5>2, <5>4
      <4> QED
        BY <4>1, <4>2
    <3> QED
      BY ONLY <2>2, <2>3, <2>8, <2>12, <3>1 DEF Turned, s
  <2>13. CASE m = k /\ Block(k, e) # Block(k, s)
    <3>1. Block(k + 1, e) = Block(k + 1, s)
      BY <2>4, <2>7, <2>13 DEF Apart
    <3>2. PICK x, y : x = Block(k, e) /\ y = Block(k, s)
      OBVIOUS
    <3>3. x \in Nat /\ y \in Nat /\ x \div Level = y \div Level /\ x # y
      BY <1>0, <2>3, <2>13, <3>1, <3>2, Blocks
    <3>4. x % Level # y % Level
      BY <3>3, SameRest
    <3>5. Apart(k, s, e)
      BY <2>13, <3>1 DEF Apart
    <3>6. PlaceOf(s, e) = PlaceOf(now, e)
      BY <1>0, <2>8, <2>13, <3>5, ListIs
    <3>7. <<k, x % Level>> # <<k, y % Level>>
      BY <3>4
    <3> QED
      BY ONLY <2>2, <2>3, <2>8, <2>13, <3>2, <3>6, <3>7 DEF Turned, s
  <2> QED
    BY <2>11, <2>12, <2>13
<1> QED
  BY <1>1, <1>2

(* A time more than half the range behind is on the last level.            *)
LEMMA FarBehind ==
  ASSUME NEW a \in Times, NEW e \in Times, 2 * (a - e) > Range32
  PROVE  /\ Apart(Levels - 1, a, e)
         /\ PlaceOf(a, e) = <<Levels - 1, Block(Levels - 1, e) % Level>>
<1> USE TimerParameters
<1> DEFINE k == Levels - 1
<1>1. k \in 0 .. Levels - 1 /\ k \in 0 .. Levels /\ k + 1 = Levels /\ a \in Nat /\ e \in Nat
  BY BlockTop
<1>2. Unit(k) \in Nat /\ 2 * Unit(k) <= Range32 /\ Range32 \in Nat
  BY <1>1, UnitIs, BlockTop
<1>3. ~ (a - e < Unit(k))
  BY ONLY <1>1, <1>2, 2 * (a - e) > Range32
<1>4. Block(k, a) # Block(k, e)
  BY <1>1, <1>3, Blocks
<1>5. Apart(k, a, e)
  BY <1>1, <1>4, BlockTop DEF Apart
<1> QED
  BY <1>1, <1>5, ListIs

(* Numbers of blocks of the last level but one are their own places.       *)
LEMMA TopPlace ==
  ASSUME NEW a \in Times
  PROVE  /\ Block(Levels - 1, a) % Level = Block(Levels - 1, a)
         /\ Block(Levels - 1, a) \in 0 .. Level - 1
<1> USE TimerParameters
<1>1. Levels - 1 \in 0 .. Levels /\ (Levels - 1) + 1 = Levels /\ Levels - 1 < Levels /\ a \in Nat
  BY BlockTop
<1>2. PICK x : x = Block(Levels - 1, a)
  OBVIOUS
<1>3. x \in Nat /\ x \div Level = 0
  BY <1>1, <1>2, Blocks, BlockTop
<1>4. x = Level * (x \div Level) + (x % Level) /\ x % Level \in 0 .. Level - 1
  BY <1>3, ModIs
<1>5. x % Level = x
  BY ONLY <1>3, <1>4, Level \in Nat \ {0}
<1> QED
  BY <1>2, <1>4, <1>5

(* A tick, for a timer that is due after time has wrapped.                  *)
LEMMA TurnedBehind ==
  ASSUME NEW now \in Times, NEW e \in Times, 2 * (now - e) > Range32,
         NEW s \in Times, s = (IF now = Range32 - 1 THEN 0 ELSE now + 1)
  PROVE  Turned(now, s, e)
<1> USE TimerParameters
<1> DEFINE k == Levels - 1
<1>0. /\ now \in Nat /\ e \in Nat /\ s \in Nat /\ k \in 0 .. Levels - 1
      /\ k \in 0 .. Levels /\ k + 1 = Levels
      /\ Range32 \in Nat \ {0}
  BY BlockTop
<1>1. PlaceOf(now, e) = <<k, Block(k, e)>>
  BY FarBehind, TopPlace
<1>2. CASE s = 0
  <2>1. Shifted(s) = {<<k, 0>>}
    BY <1>2, ShiftedIs
  <2>2. Block(k, s) = 0
    <3>1. Unit(k) \in Nat \ {0}
      BY <1>0, UnitIs
    <3>2. 0 * Unit(k) <= 0 /\ 0 < 0 * Unit(k) + Unit(k)
      BY ONLY <3>1
    <3>3. 0 \div Unit(k) = 0
      BY <3>1, <3>2, QuotientIs
    <3> QED
      BY <1>2, <3>3 DEF Block
  <2>3. CASE Block(k, e) = 0
    <3>1. PlaceOf(s, e)[1] < k
      <4>1. CASE Block(0, s) = Block(0, e)
        BY <1>0, <4>1, ListIs
      <4>2. CASE Block(0, s) # Block(0, e)
        <5>1. PICK j \in 0 .. Levels - 1 : Apart(j, s, e)
          BY <4>2, ListIs
        <5>2. PlaceOf(s, e) = <<j, Block(j, e) % Level>>
          BY <5>1, ListIs
        <5>3. j # k
          BY <2>2, <2>3, <5>1 DEF Apart
        <5> QED
          BY <5>2, <5>3
      <4> QED
        BY <4>1, <4>2
    <3> QED
      BY ONLY <1>0, <1>1, <2>1, <2>3, <3>1 DEF Turned
  <2>4. CASE Block(k, e) # 0
    <3>1. Apart(k, s, e)
      BY <1>0, <2>2, <2>4, BlockTop DEF Apart
    <3>2. PlaceOf(s, e) = <<k, Block(k, e)>>
      BY <1>0, <3>1, ListIs, TopPlace
    <3> QED
      BY ONLY <1>0, <1>1, <2>1, <2>4, <3>2 DEF Turned
  <2> QED
    BY <2>3, <2>4
<1>3. CASE s # 0
  <2>1. s = now + 1
    BY <1>3
  <2>2. 2 * (s - e) > Range32
    BY ONLY <1>0, <2>1, 2 * (now - e) > Range32
  <2>3. PlaceOf(s, e) = <<k, Block(k, e)>> /\ Apart(k, s, e)
    BY <2>2, FarBehind, TopPlace
  <2>4. ASSUME NEW p \in Shifted(s) PROVE p[1] <= k /\ p # <<k, Block(k, e)>>
    <3>1. s % Near = 0
      BY <1>3, ShiftedIs
    <3>2. PICK j \in 0 .. Levels - 1 : Opens(j, s)
      BY <1>3, <3>1, ShiftedIs
    <3>3. p = <<j, Block(j, s) % Level>>
      BY <1>3, <3>2, ShiftedIs
    <3>4. j = k => p = <<k, Block(k, s)>>
      BY <3>3, TopPlace
    <3>5. Block(k, s) # Block(k, e)
      BY <2>3 DEF Apart
    <3>6. p[1] = j /\ j <= k
      BY <1>0, <3>3
    <3>7. j = k => p # <<k, Block(k, e)>>
      BY ONLY <3>4, <3>5
    <3> QED
      BY <3>6, <3>7
  <2>5. PlaceOf(now, e)[1] = k
    BY <1>1
  <2> HIDE DEF k
  <2> QED
    BY ONLY <1>1, <2>3, <2>4, <2>5 DEF Turned
<1> QED
  BY <1>2, <1>3

(* A tick, for a timer that is due at most MaxDelay ticks later and not    *)
(* now, when time wraps as well.                                           *)
LEMMA Turn ==
  ASSUME NEW now \in Times, NEW e \in Times, ToGo(now, e) \in 1 .. MaxDelay
  PROVE  /\ (now + 1) % Range32 \in Times
         /\ Turned(now, (now + 1) % Range32, e)
         /\ ToGo((now + 1) % Range32, e) = ToGo(now, e) - 1
<1>1. PICK r : r = Range32
  OBVIOUS
<1>2. /\ r \in Nat \ {0} /\ now \in Nat /\ e \in Nat /\ now < r /\ e < r
      /\ MaxDelay \in Nat /\ 2 * MaxDelay < r
  BY <1>1, BlockTop, TimerParameters DEF Times
<1>3. PICK s : s = (now + 1) % Range32
  OBVIOUS
<1>4. s = (IF now = r - 1 THEN 0 ELSE now + 1)
  <2>1. s = (now + 1) % r
    BY <1>1, <1>3
  <2> QED
    BY ONLY <1>2, <2>1
<1>5. s \in Times
  BY ONLY <1>1, <1>2, <1>4 DEF Times
<1>6. PICK d : d = ToGo(now, e)
  OBVIOUS
<1>7. d \in 1 .. MaxDelay /\ d = (IF now <= e THEN e - now ELSE (e - now) + r)
  BY <1>1, <1>6, ToGoIs
<1>8. ToGo(s, e) = IF s <= e THEN e - s ELSE (e - s) + r
  BY <1>1, <1>5, ToGoIs
<1>9. ToGo(s, e) = d - 1
  BY ONLY <1>2, <1>4, <1>7, <1>8
<1>10. Turned(now, s, e)
  <2>1. CASE now < e
    <3>1. s = now + 1
      BY ONLY <1>2, <1>4, <2>1
    <3> QED
      BY <2>1, <3>1, TurnedAhead
  <2>2. CASE ~ (now < e)
    <3>1. 2 * (now - e) > r
      BY ONLY <1>2, <1>7, <2>2
    <3> QED
      BY <1>1, <1>4, <1>5, <3>1, TurnedBehind
  <2> QED
    BY <2>1, <2>2
<1> QED
  BY <1>3, <1>5, <1>6, <1>9, <1>10

(* A timer is on the current near list exactly when it is due now.         *)
LEMMA DueNow ==
  ASSUME NEW now \in Times, NEW e \in Times
  PROVE  /\ (PlaceOf(now, e) = <<-1, now % Near>> <=> now = e)
         /\ (ToGo(now, e) = 0 <=> now = e)
<1> USE TimerParameters
<1>0. now \in Nat /\ e \in Nat /\ Unit(0) = Near /\ 0 \in 0 .. Levels
  BY BlockTop, UnitIs
<1>1. ToGo(now, e) = 0 <=> now = e
  <2>1. PICK r, d : r = Range32 /\ d = ToGo(now, e)
    OBVIOUS
  <2>2. r \in Nat /\ now < r /\ e < r /\ d = (IF now <= e THEN e - now ELSE (e - now) + r)
    BY <2>1, ToGoIs, BlockTop DEF Times
  <2>3. d = 0 <=> now = e
    BY ONLY <1>0, <2>2
  <2> QED
    BY <2>1, <2>3
<1>2. now = e => PlaceOf(now, e) = <<-1, now % Near>>
  BY ListIs
<1>3. ASSUME PlaceOf(now, e) = <<-1, now % Near>> PROVE now = e
  <2>1. CASE Block(0, now) = Block(0, e)
    <3>1. PlaceOf(now, e) = <<-1, e % Near>>
      BY <2>1, ListIs
    <3>2. e % Near = now % Near
      BY <1>3, <3>1
    <3>3. now \div Near = e \div Near
      BY <1>0, <2>1 DEF Block
    <3> QED
      BY <1>0, <3>2, <3>3, SameRest
  <2>2. CASE Block(0, now) # Block(0, e)
    <3>1. PICK k \in 0 .. Levels - 1 : Apart(k, now, e)
      BY <2>2, ListIs
    <3>2. PlaceOf(now, e)[1] = k /\ k # -1
      BY <3>1, ListIs
    <3> QED
      BY <1>3, <3>2
  <2> QED
    BY <2>1, <2>2
<1> QED
  BY <1>1, <1>2, <1>3

(* The expiry of a timer that is set.                                      *)
LEMMA SetFor ==
  ASSUME NEW now \in Times, NEW d \in 1 .. MaxDelay
  PROVE  (now + d) % Range32 \in Times /\ ToGo(now, (now + d) % Range32) = d
<1>1. PICK r, e : r = Range32 /\ e = (now + d) % r
  OBVIOUS
<1>2. /\ r \in Nat \ {0} /\ now \in Nat /\ now < r /\ d \in Nat /\ d < r /\ d \in 1 .. MaxDelay
  <2>1. r \in Nat \ {0} /\ now \in Nat /\ now < r
    BY <1>1, BlockTop DEF Times
  <2>2. MaxDelay \in Nat /\ 2 * MaxDelay < r
    BY <1>1, TimerParameters
  <2> QED
    BY ONLY <2>1, <2>2, d \in 1 .. MaxDelay
<1>3. e = IF now + d < r THEN now + d ELSE (now + d) - r
  BY ONLY <1>1, <1>2
<1>4. e \in Times
  <2>1. e \in 0 .. r - 1
    BY ONLY <1>2, <1>3
  <2> QED
    BY <1>1, <2>1 DEF Times
<1>5. ToGo(now, e) = IF now <= e THEN e - now ELSE (e - now) + r
  BY <1>1, <1>4, ToGoIs
<1>6. ToGo(now, e) = d
  BY ONLY <1>2, <1>3, <1>5
<1> QED
  BY <1>1, <1>4, <1>6

(* A tick takes apart at most one list.                                    *)
LEMMA ShiftedOne ==
  ASSUME NEW s \in Times, NEW p \in Shifted(s)
  PROVE  Shifted(s) = {p} /\ p \in Lists
<1> USE TimerParameters
<1>1. CASE s = 0
  <2>1. Shifted(s) = {<<Levels - 1, 0>>}
    BY <1>1, ShiftedIs
  <2>2. Levels - 1 \in 0 .. Levels - 1 /\ 0 \in 0 .. Level - 1
    OBVIOUS
  <2> QED
    BY <2>1, <2>2 DEF Lists
<1>2. CASE s # 0
  <2>1. PICK k \in 0 .. Levels - 1 : Opens(k, s)
    <3>1. s % Near = 0
      BY <1>2, ShiftedIs
    <3> QED
      BY <1>2, <3>1, ShiftedIs
  <2>2. Shifted(s) = {<<k, Block(k, s) % Level>>}
    BY <1>2, <2>1, ShiftedIs
  <2>3. Block(k, s) \in Nat
    <3>1. s \in Nat /\ k \in 0 .. Levels
      BY BlockTop
    <3> QED
      BY <3>1, Blocks
  <2>4. Block(k, s) % Level \in 0 .. Level - 1
    BY <2>3
  <2> QED
    BY <2>2, <2>4 DEF Lists
<1> QED
  BY <1>1, <1>2

-----------------------------------------------------------------------------
(* The timers of a sequence, and their order: a is before b in ord.        *)
Has(s, t) == \E j \in DOMAIN s : s[j] = t
Distinct(ord) == \A g, h \in DOMAIN ord : ord[g] = ord[h] => g = h
Before(ord, a, b) == \E g, h \in DOMAIN ord : g < h /\ ord[g] = a /\ ord[h] = b
InOrder(ord, s) == \A g, h \in DOMAIN s : g < h => Before(ord, s[g], s[h])

(* The empty sequence is the one that holds nothing.                        *)
LEMMA HasNone ==
  ASSUME NEW s \in Seq(Timer)
  PROVE  s = <<>> <=> \A u : ~ Has(s, u)
<1>1. s # <<>> => 1 \in DOMAIN s
  OBVIOUS
<1>2. s = <<>> => DOMAIN s = {}
  OBVIOUS
<1> QED
  BY <1>1, <1>2 DEF Has

(* What Append holds.                                                       *)
LEMMA HasAppend ==
  ASSUME NEW s \in Seq(Timer), NEW t \in Timer
  PROVE  /\ Append(s, t) \in Seq(Timer)
         /\ \A u : Has(Append(s, t), u) <=> Has(s, u) \/ u = t
<1>1. PICK r : r = Append(s, t)
  OBVIOUS
<1>2. /\ r \in Seq(Timer) /\ DOMAIN r = 1 .. Len(s) + 1 /\ DOMAIN s = 1 .. Len(s) /\ Len(s) \in Nat
      /\ \A i \in 1 .. Len(s) : r[i] = s[i]
      /\ r[Len(s) + 1] = t
  BY <1>1
<1>3. PICK n : n = Len(s)
  OBVIOUS
<1>4. ASSUME NEW u PROVE Has(r, u) <=> Has(s, u) \/ u = t
  <2>1. Has(s, u) => Has(r, u)
    BY ONLY <1>2 DEF Has
  <2>2. u = t => Has(r, u)
    BY ONLY <1>2 DEF Has
  <2>3. Has(r, u) => Has(s, u) \/ u = t
    <3> SUFFICES ASSUME Has(r, u), u # t PROVE Has(s, u)
      OBVIOUS
    <3>1. PICK j \in DOMAIN r : r[j] = u
      BY DEF Has
    <3>2. j \in 1 .. Len(s)
      BY <1>2, <3>1
    <3> QED
      BY <1>2, <3>1, <3>2 DEF Has
  <2> QED
    BY <2>1, <2>2, <2>3
<1> QED
  BY <1>1, <1>2, <1>4

(* What Head and Tail hold.                                                 *)
LEMMA HasTail ==
  ASSUME NEW s \in Seq(Timer), s # <<>>
  PROVE  /\ Tail(s) \in Seq(Timer) /\ Head(s) \in Timer /\ Has(s, Head(s))
         /\ \A u : Has(Tail(s), u) => Has(s, u)
         /\ \A u : Has(s, u) => u = Head(s) \/ Has(Tail(s), u)
<1>1. PICK r : r = Tail(s)
  OBVIOUS
<1>2. /\ r \in Seq(Timer) /\ DOMAIN r = 1 .. Len(s) - 1 /\ DOMAIN s = 1 .. Len(s) /\ Len(s) \in Nat \ {0}
      /\ \A i \in 1 .. Len(s) - 1 : r[i] = s[i + 1]
      /\ Head(s) = s[1] /\ s[1] \in Timer
  BY <1>1
<1>3. ASSUME NEW u, Has(r, u) PROVE Has(s, u)
  <2>1. PICK j \in DOMAIN r : r[j] = u
    BY <1>3 DEF Has
  <2>2. j + 1 \in DOMAIN s /\ s[j + 1] = u
    BY <1>2, <2>1
  <2> QED
    BY <2>2 DEF Has
<1>4. ASSUME NEW u, Has(s, u), u # Head(s) PROVE Has(r, u)
  <2>1. PICK j \in DOMAIN s : s[j] = u
    BY <1>4 DEF Has
  <2>2. j - 1 \in 1 .. Len(s) - 1 /\ (j - 1) + 1 = j
    BY <1>2, <1>4, <2>1
  <2>3. j - 1 \in DOMAIN r /\ r[j - 1] = u
    BY <1>2, <2>1, <2>2
  <2> QED
    BY <2>3 DEF Has
<1>5. Has(s, Head(s))
  <2>1. 1 \in DOMAIN s /\ s[1] = Head(s)
    BY <1>2
  <2> QED
    BY <2>1 DEF Has
<1> QED
  BY <1>1, <1>2, <1>3, <1>4, <1>5

(* What is set last comes after what waits, and changes no order.           *)
LEMMA BeforeAppend ==
  ASSUME NEW ord \in Seq(Timer), NEW t \in Timer
  PROVE  /\ \A a, b : Before(ord, a, b) => Before(Append(ord, t), a, b)
         /\ \A a : Has(ord, a) => Before(Append(ord, t), a, t)
<1>1. PICK r : r = Append(ord, t)
  OBVIOUS
<1>2. /\ DOMAIN r = 1 .. Len(ord) + 1 /\ DOMAIN ord = 1 .. Len(ord) /\ Len(ord) \in Nat
      /\ \A i \in 1 .. Len(ord) : r[i] = ord[i]
      /\ r[Len(ord) + 1] = t
  BY <1>1
<1>3. ASSUME NEW a, NEW b, Before(ord, a, b) PROVE Before(r, a, b)
  <2>1. PICK g, h \in DOMAIN ord : g < h /\ ord[g] = a /\ ord[h] = b
    BY <1>3 DEF Before
  <2>2. g \in DOMAIN r /\ h \in DOMAIN r /\ r[g] = a /\ r[h] = b
    BY <1>2, <2>1
  <2> QED
    BY <2>1, <2>2 DEF Before
<1>4. ASSUME NEW a, Has(ord, a) PROVE Before(r, a, t)
  <2>1. PICK g \in DOMAIN ord : ord[g] = a
    BY <1>4 DEF Has
  <2>2. g \in DOMAIN r /\ r[g] = a /\ Len(ord) + 1 \in DOMAIN r /\ g < Len(ord) + 1
    BY <1>2, <2>1
  <2> QED
    BY <1>2, <2>2 DEF Before
<1> QED
  BY <1>1, <1>3, <1>4

(* A list stays in order when the youngest timer is appended.               *)
LEMMA OrderAppend ==
  ASSUME NEW s \in Seq(Timer), NEW t \in Timer, NEW ord, InOrder(ord, s),
         \A u : Has(s, u) => Before(ord, u, t)
  PROVE  InOrder(ord, Append(s, t))
<1>1. PICK r : r = Append(s, t)
  OBVIOUS
<1>2. /\ DOMAIN r = 1 .. Len(s) + 1 /\ DOMAIN s = 1 .. Len(s) /\ Len(s) \in Nat
      /\ \A i \in 1 .. Len(s) : r[i] = s[i]
      /\ r[Len(s) + 1] = t
  BY <1>1
<1>3. ASSUME NEW g \in DOMAIN r, NEW h \in DOMAIN r, g < h PROVE Before(ord, r[g], r[h])
  <2>1. g \in DOMAIN s /\ r[g] = s[g]
    BY <1>2, <1>3
  <2>2. CASE h \in DOMAIN s
    <3>1. r[h] = s[h]
      BY <1>2, <2>2
    <3> QED
      BY <1>3, <2>1, <2>2, <3>1 DEF InOrder
  <2>3. CASE h \notin DOMAIN s
    <3>1. r[h] = t
      <4>1. h = Len(s) + 1
        BY <1>2, <2>3
      <4> QED
        BY <1>2, <4>1
    <3>2. Has(s, s[g])
      BY <2>1 DEF Has
    <3> QED
      BY <2>1, <3>1, <3>2
  <2> QED
    BY <2>2, <2>3
<1> QED
  BY <1>1, <1>3 DEF InOrder

(* The rest of a list is in order and after its head.                       *)
LEMMA OrderTail ==
  ASSUME NEW s \in Seq(Timer), s # <<>>, NEW ord, InOrder(ord, s)
  PROVE  /\ InOrder(ord, Tail(s))
         /\ \A u : Has(Tail(s), u) => Before(ord, Head(s), u)
<1>1. PICK r : r = Tail(s)
  OBVIOUS
<1>2. /\ DOMAIN r = 1 .. Len(s) - 1 /\ DOMAIN s = 1 .. Len(s) /\ Len(s) \in Nat \ {0}
      /\ \A i \in 1 .. Len(s) - 1 : r[i] = s[i + 1]
      /\ Head(s) = s[1]
  BY <1>1
<1>3. ASSUME NEW g \in DOMAIN r, NEW h \in DOMAIN r, g < h PROVE Before(ord, r[g], r[h])
  <2>1. /\ g + 1 \in DOMAIN s /\ h + 1 \in DOMAIN s /\ g + 1 < h + 1
        /\ r[g] = s[g + 1] /\ r[h] = s[h + 1]
    BY <1>2, <1>3
  <2> QED
    BY <2>1 DEF InOrder
<1>4. ASSUME NEW u, Has(r, u) PROVE Before(ord, Head(s), u)
  <2>1. PICK j \in DOMAIN r : r[j] = u
    BY <1>4 DEF Has
  <2>2. j + 1 \in DOMAIN s /\ 1 \in DOMAIN s /\ 1 < j + 1 /\ s[j + 1] = u
    BY <1>2, <2>1
  <2> QED
    BY <1>2, <2>2 DEF InOrder
<1> QED
  BY <1>1, <1>3, <1>4 DEF InOrder

(* RemoveAt, element by element.                                            *)
LEMMA RemoveIs ==
  ASSUME NEW S, NEW ord \in Seq(S), NEW i \in 1 .. Len(ord)
  PROVE  /\ RemoveAt(ord, i) \in Seq(S)
         /\ DOMAIN ord = 1 .. Len(ord) /\ Len(ord) \in Nat \ {0} /\ i \in 1 .. Len(ord)
         /\ DOMAIN RemoveAt(ord, i) = 1 .. Len(ord) - 1
         /\ \A j \in 1 .. Len(ord) - 1 : RemoveAt(ord, i)[j] = IF j < i THEN ord[j] ELSE ord[j + 1]
<1>1. DOMAIN ord = 1 .. Len(ord) /\ Len(ord) \in Nat \ {0} /\ i \in 1 .. Len(ord)
  OBVIOUS
<1>2. PICK a, c, n : a = SubSeq(ord, 1, i - 1) /\ c = SubSeq(ord, i + 1, Len(ord)) /\ n = Len(ord)
  OBVIOUS
<1>3. /\ n \in Nat /\ i \in Nat /\ 1 <= i /\ i <= n
      /\ i \in 1 .. n /\ i - 1 \in Int /\ i + 1 \in Int /\ n \in Int /\ 1 \in Int
  BY <1>1, <1>2
<1>4. \A j \in 1 .. n : ord[j] \in S
  BY <1>1, <1>2
<1>5. a \in Seq(S) /\ Len(a) = i - 1 /\ \A j \in 1 .. i - 1 : a[j] = ord[j]
  <2>1. \A j \in 1 .. i - 1 : ord[j] \in S
    BY <1>3, <1>4
  <2>2. /\ a \in Seq(S) /\ Len(a) = IF 1 <= i - 1 THEN (i - 1) - 1 + 1 ELSE 0
        /\ \A j \in 1 .. (i - 1) - 1 + 1 : a[j] = ord[1 + j - 1]
    BY <1>2, <1>3, <2>1, SubSeqProperties
  <2>3. \A j \in 1 .. i - 1 : j \in 1 .. (i - 1) - 1 + 1 /\ 1 + j - 1 = j
    BY <1>3
  <2>4. Len(a) = i - 1
    BY ONLY <1>3, <2>2
  <2> QED
    BY <2>2, <2>3, <2>4
<1>6. c \in Seq(S) /\ Len(c) = n - i /\ \A j \in 1 .. n - i : c[j] = ord[i + j]
  <2>1. \A j \in i + 1 .. n : ord[j] \in S
    BY <1>3, <1>4
  <2>2. /\ c \in Seq(S) /\ Len(c) = IF i + 1 <= n THEN n - (i + 1) + 1 ELSE 0
        /\ \A j \in 1 .. n - (i + 1) + 1 : c[j] = ord[(i + 1) + j - 1]
    BY <1>2, <1>3, <2>1, SubSeqProperties
  <2>3. \A j \in 1 .. n - i : j \in 1 .. n - (i + 1) + 1 /\ (i + 1) + j - 1 = i + j
    BY <1>3
  <2>4. Len(c) = n - i
    BY ONLY <1>3, <2>2
  <2> QED
    BY <2>2, <2>3, <2>4
<1>7. PICK r : r = a \o c
  OBVIOUS
<1>8. /\ r \in Seq(S) /\ Len(r) = Len(a) + Len(c)
      /\ \A j \in 1 .. Len(a) + Len(c) : r[j] = IF j <= Len(a) THEN a[j] ELSE c[j - Len(a)]
  BY <1>5, <1>6, <1>7, ConcatProperties
<1>9. Len(a) + Len(c) = n - 1
  BY ONLY <1>3, <1>5, <1>6
<1>10. ASSUME NEW j \in 1 .. n - 1 PROVE r[j] = IF j < i THEN ord[j] ELSE ord[j + 1]
  <2>1. r[j] = IF j <= i - 1 THEN a[j] ELSE c[j - (i - 1)]
    BY <1>5, <1>8, <1>9
  <2>2. CASE j < i
    <3>1. j \in 1 .. i - 1 /\ j <= i - 1
      BY <1>3, <2>2
    <3> QED
      BY <1>5, <2>1, <2>2, <3>1
  <2>3. CASE ~ (j < i)
    <3>1. j - (i - 1) \in 1 .. n - i /\ ~ (j <= i - 1) /\ i + (j - (i - 1)) = j + 1
      BY ONLY <1>3, <2>3, j \in 1 .. n - 1
    <3>2. r[j] = c[j - (i - 1)] /\ c[j - (i - 1)] = ord[i + (j - (i - 1))]
      BY <1>6, <2>1, <3>1
    <3> QED
      BY <2>3, <3>1, <3>2
  <2> QED
    BY <2>2, <2>3
<1>11. RemoveAt(ord, i) = r
  BY <1>2, <1>7 DEF RemoveAt
<1>12. DOMAIN r = 1 .. n - 1
  BY ONLY <1>8, <1>9
<1> QED
  BY <1>1, <1>2, <1>8, <1>10, <1>11, <1>12

(* What is left when one timer is taken out, and its order.                 *)
LEMMA Without ==
  ASSUME NEW ord \in Seq(Timer), NEW i \in 1 .. Len(ord), Distinct(ord)
  PROVE  /\ Distinct(RemoveAt(ord, i))
         /\ \A u : Has(RemoveAt(ord, i), u) <=> Has(ord, u) /\ u # ord[i]
         /\ \A a, b : Before(ord, a, b) /\ a # ord[i] /\ b # ord[i] => Before(RemoveAt(ord, i), a, b)
<1>1. PICK r, n : r = RemoveAt(ord, i) /\ n = Len(ord)
  OBVIOUS
<1>2. /\ DOMAIN ord = 1 .. n /\ n \in Nat \ {0} /\ i \in 1 .. n /\ DOMAIN r = 1 .. n - 1
      /\ \A j \in 1 .. n - 1 : r[j] = IF j < i THEN ord[j] ELSE ord[j + 1]
  BY <1>1, RemoveIs
<1>3. \A j \in 1 .. n - 1 : \E k \in 1 .. n : k # i /\ r[j] = ord[k] /\ k = IF j < i THEN j ELSE j + 1
  <2>1. ASSUME NEW j \in 1 .. n - 1
        PROVE  \E k \in 1 .. n : k # i /\ r[j] = ord[k] /\ k = IF j < i THEN j ELSE j + 1
    <3>1. PICK k : k = IF j < i THEN j ELSE j + 1
      OBVIOUS
    <3>2. k \in 1 .. n /\ k # i
      BY <1>2, <3>1
    <3>3. r[j] = ord[k]
      BY <1>2, <3>1
    <3> QED
      BY <3>1, <3>2, <3>3
  <2> QED
    BY <2>1
<1>4. \A k \in 1 .. n : k # i => \E j \in 1 .. n - 1 : r[j] = ord[k] /\ j = IF k < i THEN k ELSE k - 1
  <2>1. ASSUME NEW k \in 1 .. n, k # i
        PROVE  \E j \in 1 .. n - 1 : r[j] = ord[k] /\ j = IF k < i THEN k ELSE k - 1
    <3>1. PICK j : j = IF k < i THEN k ELSE k - 1
      OBVIOUS
    <3>2. j \in 1 .. n - 1 /\ (j < i <=> k < i) /\ k = IF j < i THEN j ELSE j + 1
      BY <1>2, <2>1, <3>1
    <3>3. r[j] = ord[k]
      BY <1>2, <3>2
    <3> QED
      BY <3>1, <3>2, <3>3
  <2> QED
    BY <2>1
<1>5. Distinct(r)
  <2>1. ASSUME NEW g \in DOMAIN r, NEW h \in DOMAIN r, r[g] = r[h] PROVE g = h
    <3>1. PICK k \in 1 .. n : k # i /\ r[g] = ord[k] /\ k = IF g < i THEN g ELSE g + 1
      BY <1>2, <1>3
    <3>2. PICK m \in 1 .. n : m # i /\ r[h] = ord[m] /\ m = IF h < i THEN h ELSE h + 1
      BY <1>2, <1>3
    <3>3. k = m
      BY <1>2, <2>1, <3>1, <3>2 DEF Distinct
    <3> QED
      BY <1>2, <3>1, <3>2, <3>3
  <2> QED
    BY <2>1 DEF Distinct
<1>6. ASSUME NEW u PROVE Has(r, u) <=> Has(ord, u) /\ u # ord[i]
  <2>1. ASSUME Has(r, u) PROVE Has(ord, u) /\ u # ord[i]
    <3>1. PICK j \in DOMAIN r : r[j] = u
      BY <2>1 DEF Has
    <3>2. PICK k \in 1 .. n : k # i /\ r[j] = ord[k]
      BY <1>2, <1>3
    <3> QED
      BY <1>2, <3>1, <3>2 DEF Has, Distinct
  <2>2. ASSUME Has(ord, u), u # ord[i] PROVE Has(r, u)
    <3>1. PICK k \in DOMAIN ord : ord[k] = u
      BY <2>2 DEF Has
    <3>2. PICK j \in 1 .. n - 1 : r[j] = ord[k]
      BY <1>2, <1>4, <2>2, <3>1
    <3> QED
      BY <1>2, <3>1, <3>2 DEF Has
  <2> QED
    BY <2>1, <2>2
<1>7. ASSUME NEW a, NEW b, Before(ord, a, b), a # ord[i], b # ord[i] PROVE Before(r, a, b)
  <2>1. PICK g, h \in 1 .. n : g < h /\ ord[g] = a /\ ord[h] = b
    BY <1>2, <1>7 DEF Before
  <2>2. PICK x \in 1 .. n - 1 : r[x] = ord[g] /\ x = IF g < i THEN g ELSE g - 1
    BY <1>2, <1>4, <1>7, <2>1
  <2>3. PICK y \in 1 .. n - 1 : r[y] = ord[h] /\ y = IF h < i THEN h ELSE h - 1
    BY <1>2, <1>4, <1>7, <2>1
  <2>4. g # i /\ h # i /\ g \in 1 .. n /\ h \in 1 .. n
    BY <1>2, <1>7, <2>1
  <2>5. x < y
    <3>1. /\ x = (IF g < i THEN g ELSE g - 1) /\ y = (IF h < i THEN h ELSE h - 1)
          /\ g < h /\ n \in Nat /\ i \in Nat /\ g \in Nat /\ h \in Nat
      BY <1>2, <2>1, <2>2, <2>3
    <3> QED
      BY ONLY <2>4, <3>1
  <2> QED
    BY <1>2, <2>1, <2>2, <2>3, <2>5 DEF Before
<1> QED
  BY <1>1, <1>5, <1>6, <1>7

-----------------------------------------------------------------------------
(* A turn of the loop uses only the one before.                             *)
LEMMA AddedLooksBack ==
  ASSUME NEW f, NEW g, NEW s, NEW p, NEW i, i # 0 => f[i - 1] = g[i - 1]
  PROVE  Added(f, s, p, i) = Added(g, s, p, i)
<1>1. CASE i = 0
  BY <1>1, Zenon DEF Added
<1>2. CASE i # 0
  <2>1. f[i - 1] = g[i - 1]
    BY <1>2
  <2>2. Added(f, s, p, i) =
        [f[i - 1] EXCEPT ![PlaceOf(s, expire[list[p][i]])] = Append(@, list[p][i])]
    BY <1>2, Zenon DEF Added
  <2>3. Added(g, s, p, i) =
        [g[i - 1] EXCEPT ![PlaceOf(s, expire[list[p][i]])] = Append(@, list[p][i])]
    BY <1>2, Zenon DEF Added
  <2> QED
    BY <2>1, <2>2, <2>3, Zenon
<1> QED
  BY <1>1, <1>2

(* The loop of move_list has a solution: each turn looks at the one before.*)
LEMMA MovedLoop ==
  ASSUME NEW s, NEW p \in Lists, NEW n \in Nat, n = Len(list[p])
  PROVE  \E f : f = [i \in 0 .. n |-> Added(f, s, p, i)] /\ Moved(s, p) = f[n]
<1> DEFINE Upto(f, k) == /\ f = [i \in 0 .. n |-> f[i]]
                         /\ \A i \in 0 .. k : f[i] = Added(f, s, p, i)
           T == {k \in 0 .. n : ~ \E f : Upto(f, k)}
<1>2. T = {}
  <2> SUFFICES ASSUME T # {} PROVE FALSE
    OBVIOUS
  <2>1. PICK x \in T : \A y \in T : x <= y
    <3>1. T \in SUBSET Nat
      OBVIOUS
    <3> QED
      BY <3>1, SetMin
  <2>2. x \in 0 .. n /\ ~ \E f : Upto(f, x)
    BY <2>1
  <2>3. CASE x = 0
    <3> DEFINE g == [i \in 0 .. n |-> Added(<<>>, s, p, 0)]
    <3>1. g = [i \in 0 .. n |-> g[i]]
      OBVIOUS
    <3>2. g[0] = Added(<<>>, s, p, 0)
      <4>1. 0 \in 0 .. n
        OBVIOUS
      <4> QED
        BY <4>1
    <3>3. Added(<<>>, s, p, 0) = Added(g, s, p, 0)
      BY AddedLooksBack
    <3> HIDE DEF g
    <3>4. \A i \in 0 .. 0 : g[i] = Added(g, s, p, i)
      BY <3>2, <3>3
    <3>5. Upto(g, 0)
      BY <3>1, <3>4
    <3> QED
      BY <2>2, <2>3, <3>5
  <2>4. CASE x # 0
    <3>1. x - 1 \in 0 .. n /\ x - 1 \notin T
      <4>1. x \in Nat /\ x # 0 /\ x <= n
        BY <2>2, <2>4
      <4>2. x - 1 \in 0 .. n /\ ~ (x <= x - 1)
        BY ONLY <4>1, n \in Nat
      <4>3. x - 1 \in T => x <= x - 1
        BY <2>1
      <4> QED
        BY <4>2, <4>3
    <3>2. PICK f : Upto(f, x - 1)
      BY <3>1
    <3> DEFINE g == [i \in 0 .. n |-> IF i = x THEN Added(f, s, p, x) ELSE f[i]]
    <3>3. g = [i \in 0 .. n |-> g[i]]
      OBVIOUS
    <3>4. ASSUME NEW i \in 0 .. x PROVE g[i] = Added(g, s, p, i)
      <4>1. i \in 0 .. n /\ x \in Nat /\ i \in Nat /\ i <= x
        BY <2>2
      <4>2. g[i] = Added(f, s, p, i)
        <5>1. CASE i = x
          BY <4>1, <5>1
        <5>2. CASE i # x
          <6>1. i \in 0 .. x - 1
            BY ONLY <4>1, <5>2
          <6>2. g[i] = f[i]
            BY <4>1, <5>2
          <6>3. f[i] = Added(f, s, p, i)
            BY <3>2, <6>1
          <6> QED
            BY <6>2, <6>3
        <5> QED
          BY <5>1, <5>2
      <4>3. i # 0 => g[i - 1] = f[i - 1]
        <5> SUFFICES ASSUME i # 0 PROVE g[i - 1] = f[i - 1]
          OBVIOUS
        <5>1. i - 1 \in 0 .. n /\ i - 1 # x
          BY ONLY <4>1, i # 0, n \in Nat
        <5> QED
          BY <5>1
      <4> HIDE DEF g
      <4> QED
        BY <4>2, <4>3, AddedLooksBack
    <3>5. Upto(g, x)
      BY <3>3, <3>4
    <3> QED
      BY <3>5, <2>2
  <2> QED
    BY <2>3, <2>4
<1>3. PICK f : Upto(f, n)
  <2>1. n \in 0 .. n
    OBVIOUS
  <2> QED
    BY <1>2, <2>1
<1>5. f = [i \in 0 .. n |-> Added(f, s, p, i)]
  BY <1>3
<1> DEFINE F == CHOOSE added : added = [i \in 0 .. n |-> Added(added, s, p, i)]
<1>6. F = [i \in 0 .. n |-> Added(F, s, p, i)]
  BY <1>5
<1>7. Moved(s, p) = F[n]
  BY n = Len(list[p]) DEF Moved
<1> QED
  BY <1>6, <1>7

(* After k nodes of list p, at time s: they are on the lists they belong   *)
(* on now, which hold nothing that does not belong, in the order of setting.*)
Partial(l, s, p, k) ==
  /\ l \in [Lists -> Seq(Timer)]
  /\ l[p] = <<>>
  /\ \A x \in Lists \ {p}, t \in Timer : Has(list[x], t) => Has(l[x], t)
  /\ \A h \in 1 .. k : Has(l[PlaceOf(s, expire[list[p][h]])], list[p][h])
  /\ \A x \in Lists, t \in Timer : Has(l[x], t) =>
       \/ x # p /\ Has(list[x], t)
       \/ \E h \in 1 .. k : list[p][h] = t /\ PlaceOf(s, expire[t]) = x
  /\ \A x \in Lists : InOrder(order, l[x])

(* What the nodes are added to: no list that holds a timer.                *)
ToEmpty(s, p) ==
  \A h \in 1 .. Len(list[p]) :
    LET x == PlaceOf(s, expire[list[p][h]]) IN x \in Lists \ {p} /\ list[x] = <<>>

(* One node more.                                                           *)
LEMMA PartialNext ==
  ASSUME NEW s, NEW p \in Lists, NEW k \in 1 .. Len(list[p]), NEW l, Partial(l, s, p, k - 1),
         list \in [Lists -> Seq(Timer)], ToEmpty(s, p), InOrder(order, list[p]),
         NEW t, t = list[p][k], NEW y, y = PlaceOf(s, expire[t])
  PROVE  Partial([l EXCEPT ![y] = Append(@, t)], s, p, k)
<1>1. PICK q, n : q = list[p] /\ n = Len(q)
  OBVIOUS
<1>2. /\ q \in Seq(Timer) /\ n \in Nat /\ DOMAIN q = 1 .. n /\ k \in 1 .. n /\ t = q[k] /\ t \in Timer
      /\ k - 1 \in Nat /\ \A h \in 1 .. k : h \in 1 .. n /\ (h \in 1 .. k - 1 \/ h = k)
  BY <1>1
<1>3. y \in Lists /\ y # p /\ list[y] = <<>>
  BY <1>1, <1>2 DEF ToEmpty
<1>4. PICK m : m = [l EXCEPT ![y] = Append(@, t)]
  OBVIOUS
<1>5. l \in [Lists -> Seq(Timer)]
  BY DEF Partial
<1>6. /\ m \in [Lists -> Seq(Timer)]
      /\ m[y] = Append(l[y], t) /\ \A x \in Lists : x # y => m[x] = l[x]
  <2>1. Append(l[y], t) \in Seq(Timer)
    BY <1>2, <1>3, <1>5, HasAppend
  <2> QED
    BY <1>3, <1>4, <1>5, <2>1
<1>7. ASSUME NEW x \in Lists, NEW u PROVE Has(m[x], u) <=> Has(l[x], u) \/ (x = y /\ u = t)
  <2>1. CASE x = y
    <3>1. l[y] \in Seq(Timer)
      BY <1>3, <1>5
    <3>2. Has(Append(l[y], t), u) <=> Has(l[y], u) \/ u = t
      BY <1>2, <3>1, HasAppend
    <3> QED
      BY <1>6, <2>1, <3>2, Zenon
  <2>2. CASE x # y
    BY <1>6, <2>2
  <2> QED
    BY <2>1, <2>2
<1>8. m[p] = <<>>
  BY <1>3, <1>6 DEF Partial
<1>9. \A x \in Lists \ {p}, u \in Timer : Has(list[x], u) => Has(m[x], u)
  BY <1>7 DEF Partial
<1>10. ASSUME NEW h \in 1 .. k PROVE Has(m[PlaceOf(s, expire[list[p][h]])], list[p][h])
  <2>1. PlaceOf(s, expire[list[p][h]]) \in Lists
    BY <1>1, <1>2 DEF ToEmpty
  <2>2. CASE h = k
    BY <1>1, <1>2, <1>7, <2>1, <2>2
  <2>3. CASE h # k
    <3>1. h \in 1 .. k - 1
      BY <1>2, <2>3
    <3>2. Has(l[PlaceOf(s, expire[list[p][h]])], list[p][h])
      BY <3>1 DEF Partial
    <3> QED
      BY <1>7, <2>1, <3>2
  <2> QED
    BY <2>2, <2>3
<1>11. ASSUME NEW x \in Lists, NEW u \in Timer, Has(m[x], u)
       PROVE  \/ x # p /\ Has(list[x], u)
              \/ \E h \in 1 .. k : list[p][h] = u /\ PlaceOf(s, expire[u]) = x
  <2>1. CASE x = y /\ u = t
    BY <2>1
  <2>2. CASE Has(l[x], u)
    <3>1. \A h \in 1 .. k - 1 : h \in 1 .. k
      BY <1>2
    <3> QED
      BY <2>2, <3>1 DEF Partial
  <2> QED
    BY <1>7, <1>11, <2>1, <2>2
<1>12. ASSUME NEW x \in Lists PROVE InOrder(order, m[x])
  <2>1. CASE x # y
    BY <1>6, <2>1 DEF Partial
  <2>2. CASE x = y
    <3>1. ASSUME NEW u, Has(l[y], u) PROVE Before(order, u, t)
      <4>0. u \in Timer
        BY <1>3, <1>5, <3>1 DEF Has
      <4>1. ~ Has(list[y], u)
        BY <1>3 DEF Has
      <4>2. PICK h \in 1 .. k - 1 : list[p][h] = u
        BY <1>3, <3>1, <4>0, <4>1 DEF Partial
      <4>3. h \in DOMAIN q /\ k \in DOMAIN q /\ h < k
        BY <1>2
      <4> QED
        BY <1>1, <1>2, <4>2, <4>3 DEF InOrder
    <3>2. InOrder(order, l[y])
      BY <1>3 DEF Partial
    <3>3. l[y] \in Seq(Timer)
      BY <1>3, <1>5
    <3>4. InOrder(order, Append(l[y], t))
      BY <1>2, <3>1, <3>2, <3>3, OrderAppend
    <3> QED
      BY <1>6, <2>2, <3>4
  <2> QED
    BY <2>1, <2>2
<1>13. Partial(m, s, p, k)
  BY <1>6, <1>8, <1>9, <1>10, <1>11, <1>12 DEF Partial
<1> QED
  BY <1>4, <1>13

(* move_list, when no node is added to a list that holds one.              *)
LEMMA MovedIs ==
  ASSUME NEW s, NEW p \in Lists, list \in [Lists -> Seq(Timer)], ToEmpty(s, p),
         \A x \in Lists : InOrder(order, list[x])
  PROVE  Partial(Moved(s, p), s, p, Len(list[p]))
<1>1. PICK n : n = Len(list[p])
  OBVIOUS
<1>2. n \in Nat /\ n \in 0 .. n
  BY <1>1
<1>3. PICK f : f = [i \in 0 .. n |-> Added(f, s, p, i)] /\ Moved(s, p) = f[n]
  BY <1>1, <1>2, MovedLoop
<1>4. \A i \in 0 .. n : f[i] = Added(f, s, p, i)
  BY <1>3
<1>5. Partial(f[0], s, p, 0)
  <2>1. PICK l : l = [list EXCEPT ![p] = <<>>]
    OBVIOUS
  <2>2. f[0] = l
    <3>1. 0 \in 0 .. n
      BY <1>2
    <3> QED
      BY <1>4, <2>1, <3>1 DEF Added
  <2>3. l \in [Lists -> Seq(Timer)] /\ l[p] = <<>> /\ \A x \in Lists : x # p => l[x] = list[x]
    BY <2>1
  <2>4. ASSUME NEW x \in Lists PROVE InOrder(order, l[x])
    <3>1. CASE x # p
      BY <2>3, <3>1
    <3>2. CASE x = p
      BY <2>3, <3>2 DEF InOrder
    <3> QED
      BY <3>1, <3>2
  <2>5. \A x \in Lists, t \in Timer : Has(l[x], t) => x # p /\ Has(list[x], t)
    BY <2>3 DEF Has
  <2>6. \A x \in Lists \ {p}, t \in Timer : Has(list[x], t) => Has(l[x], t)
    BY <2>3
  <2>7. 1 .. 0 = {}
    OBVIOUS
  <2>8. Partial(l, s, p, 0)
    BY <2>3, <2>4, <2>5, <2>6, <2>7 DEF Partial
  <2> QED
    BY <2>2, <2>8
<1> DEFINE T == {k \in 0 .. n : ~ Partial(f[k], s, p, k)}
<1>6. ASSUME T # {} PROVE FALSE
  <2>1. PICK k \in T : \A y \in T : k <= y
    <3>1. T \in SUBSET Nat
      OBVIOUS
    <3> QED
      BY <1>6, <3>1, SetMin
  <2>2. k \in 0 .. n /\ ~ Partial(f[k], s, p, k)
    BY <2>1
  <2>3. k # 0
    BY <1>5, <2>2
  <2>4. k - 1 \in 0 .. n /\ ~ (k <= k - 1) /\ k \in 1 .. n
    BY <1>2, <2>2, <2>3
  <2>5. Partial(f[k - 1], s, p, k - 1)
    BY <2>1, <2>4
  <2>6. PICK t, y : t = list[p][k] /\ y = PlaceOf(s, expire[t])
    OBVIOUS
  <2>7. f[k] = [f[k - 1] EXCEPT ![y] = Append(@, t)]
    BY <1>4, <2>2, <2>3, <2>6 DEF Added
  <2>8. Partial([f[k - 1] EXCEPT ![y] = Append(@, t)], s, p, k)
    BY <1>1, <2>4, <2>5, <2>6, PartialNext
  <2> QED
    BY <2>2, <2>7, <2>8
<1>7. Partial(f[n], s, p, n)
  BY <1>2, <1>6
<1> QED
  BY <1>1, <1>3, <1>7

-----------------------------------------------------------------------------
(* The inductive invariant: every timer that waits is in the hand or on    *)
(* the list of its expiry, and nothing else is; it is at most the largest  *)
(* delay ahead; the timers in the hand are due now, and the rest is not    *)
(* until they are delivered; lists hold timers in the order of setting.    *)
WheelTypes ==
  /\ time \in Times /\ expire \in [Timer -> Times]
  /\ list \in [Lists -> Seq(Timer)]
  /\ hand \in Seq(Timer) /\ order \in Seq(Timer)
Within == \A t \in Timer : Has(order, t) => ToGo(time, expire[t]) \in 0 .. MaxDelay
Listed == \A x \in Lists, t \in Timer :
            Has(list[x], t) => Has(order, t) /\ PlaceOf(time, expire[t]) = x
NoneLost == \A t \in Timer :
              Has(order, t) => Has(hand, t) \/ Has(list[PlaceOf(time, expire[t])], t)
HandDue == \A t \in Timer : Has(hand, t) => Has(order, t) /\ expire[t] = time
HandFirst == hand # <<>> => list[Current] = <<>>
Ordered == InOrder(order, hand) /\ \A x \in Lists : InOrder(order, list[x])
TInv == /\ WheelTypes /\ Distinct(order) /\ Within /\ Listed /\ NoneLost
        /\ HandDue /\ HandFirst /\ Ordered

(* The current near list is the list of what is due now.                    *)
LEMMA CurrentIs ==
  ASSUME time \in Times
  PROVE  /\ Current \in Lists
         /\ \A e \in Times : /\ (PlaceOf(time, e) = Current <=> time = e)
                             /\ (ToGo(time, e) = 0 <=> time = e)
<1>1. time \in Nat /\ Near \in Nat \ {0}
  BY BlockTop, TimerParameters
<1>2. time % Near \in 0 .. Near - 1
  BY <1>1
<1> QED
  BY <1>2, DueNow DEF Current, Lists

(* The set that the guard of Timeout reads.                                 *)
LEMMA PendingIs ==
  ASSUME order \in Seq(Timer)
  PROVE  \A t : t \in Pending <=> t \in Timer /\ Has(order, t)
BY DEF Pending, Has

(* The invariant holds at first.                                            *)
LEMMA TimerInitKeeps == TimerInit => TInv
<1> SUFFICES ASSUME TimerInit PROVE TInv
  OBVIOUS
<1>1. /\ time = 0 /\ list = [x \in Lists |-> <<>>]
      /\ expire = [t \in Timer |-> 0] /\ hand = <<>> /\ order = <<>>
  BY DEF TimerInit
<1>2. 0 \in Times
  BY BlockTop DEF Times
<1>3. <<>> \in Seq(Timer) /\ \A u : ~ Has(<<>>, u)
  BY DEF Has
<1>4. WheelTypes
  BY <1>1, <1>2, <1>3 DEF WheelTypes
<1>5. \A x \in Lists : list[x] = <<>>
  BY <1>1
<1>6. Distinct(<<>>) /\ InOrder(order, <<>>)
  BY DEF Distinct, InOrder
<1>7. Within /\ Listed /\ NoneLost /\ HandDue
  BY <1>1, <1>3, <1>5 DEF Within, Listed, NoneLost, HandDue
<1>8. HandFirst /\ Ordered
  BY <1>1, <1>5, <1>6 DEF HandFirst, Ordered
<1> QED
  BY <1>1, <1>4, <1>6, <1>7, <1>8 DEF TInv

(* A timer is set: it is the youngest one.                                  *)
LEMMA TimeoutKeeps ==
  ASSUME TInv, NEW t \in Timer, NEW d \in 1 .. MaxDelay, Timeout(t, d)
  PROVE  TInv'
<1> USE DEF TInv, WheelTypes
<1>1. PICK e, p : e = (time + d) % Range32 /\ p = PlaceOf(time, e)
  OBVIOUS
<1>2. /\ expire' = [expire EXCEPT ![t] = e]
      /\ list' = [list EXCEPT ![p] = Append(@, t)]
      /\ order' = Append(order, t)
      /\ time' = time /\ hand' = hand
      /\ t \notin Pending
  BY <1>1 DEF Timeout
<1>3. e \in Times /\ ToGo(time, e) = d /\ d # 0 /\ d \in 0 .. MaxDelay
  BY <1>1, SetFor
<1>4. p \in Lists /\ p # Current
  BY <1>1, <1>3, CurrentIs, ListIs
<1>5. ~ Has(order, t)
  BY <1>2, PendingIs
<1>6. \A u : Has(order', u) <=> Has(order, u) \/ u = t
  BY <1>2, HasAppend
<1>7. /\ expire' \in [Timer -> Times] /\ expire'[t] = e
      /\ \A u \in Timer : u # t => expire'[u] = expire[u]
  BY <1>2, <1>3
<1>8. /\ list' \in [Lists -> Seq(Timer)]
      /\ list'[p] = Append(list[p], t) /\ \A x \in Lists : x # p => list'[x] = list[x]
  <2>1. Append(list[p], t) \in Seq(Timer)
    BY <1>4, HasAppend
  <2> QED
    BY <1>2, <1>4, <2>1
<1>9. ASSUME NEW x \in Lists, NEW u PROVE Has(list'[x], u) <=> Has(list[x], u) \/ (x = p /\ u = t)
  <2>1. CASE x = p
    <3>1. list[p] \in Seq(Timer)
      BY <1>4
    <3>2. Has(Append(list[p], t), u) <=> Has(list[p], u) \/ u = t
      BY <3>1, HasAppend
    <3> QED
      BY <1>8, <2>1, <3>2, Zenon
  <2>2. CASE x # p
    BY <1>8, <2>2
  <2> QED
    BY <2>1, <2>2
<1>10. WheelTypes'
  BY <1>2, <1>7, <1>8, HasAppend
<1>11. Distinct(order')
  <2>1. PICK r, n : r = order' /\ n = Len(order)
    OBVIOUS
  <2>2. /\ DOMAIN order = 1 .. n /\ n \in Nat /\ DOMAIN r = 1 .. n + 1 /\ r[n + 1] = t
        /\ \A i \in 1 .. n : r[i] = order[i]
    BY <1>2, <2>1
  <2>3. \A i \in 1 .. n : order[i] # t
    BY <1>5, <2>2 DEF Has
  <2>4. \A i \in 1 .. n + 1 : i \in 1 .. n \/ i = n + 1
    BY <2>2
  <2>5. ASSUME NEW g \in DOMAIN r, NEW h \in DOMAIN r, r[g] = r[h] PROVE g = h
    BY <2>2, <2>3, <2>4, <2>5 DEF Distinct
  <2> QED
    BY <2>1, <2>5 DEF Distinct
<1>12. Within'
  <2>1. ASSUME NEW u \in Timer, Has(order', u) PROVE ToGo(time, expire'[u]) \in 0 .. MaxDelay
    <3>1. CASE u = t
      BY <1>3, <1>7, <3>1
    <3>2. CASE u # t
      BY <1>6, <1>7, <2>1, <3>2 DEF Within
    <3> QED
      BY <3>1, <3>2
  <2> QED
    BY <1>2, <2>1 DEF Within
<1>13. Listed'
  <2>1. ASSUME NEW x \in Lists, NEW u \in Timer, Has(list'[x], u)
        PROVE  Has(order', u) /\ PlaceOf(time, expire'[u]) = x
    <3>1. CASE Has(list[x], u)
      <4>1. Has(order, u) /\ PlaceOf(time, expire[u]) = x
        BY <3>1 DEF Listed
      <4>2. u # t
        BY <1>5, <4>1
      <4> QED
        BY <1>6, <1>7, <4>1, <4>2
    <3>2. CASE x = p /\ u = t
      BY <1>1, <1>6, <1>7, <3>2
    <3> QED
      BY <1>9, <2>1, <3>1, <3>2
  <2> QED
    BY <1>2, <2>1 DEF Listed
<1>14. NoneLost'
  <2>1. ASSUME NEW u \in Timer, Has(order', u), ~ Has(hand, u)
        PROVE  Has(list'[PlaceOf(time, expire'[u])], u)
    <3>1. CASE u = t
      BY <1>1, <1>4, <1>7, <1>9, <3>1
    <3>2. CASE u # t
      <4>1. Has(list[PlaceOf(time, expire[u])], u)
        BY <1>6, <2>1, <3>2 DEF NoneLost
      <4>2. PlaceOf(time, expire[u]) \in Lists
        BY ListIs
      <4> QED
        BY <1>7, <1>9, <3>2, <4>1, <4>2
    <3> QED
      BY <3>1, <3>2
  <2> QED
    BY <1>2, <2>1 DEF NoneLost
<1>15. HandDue'
  <2>1. ASSUME NEW u \in Timer, Has(hand, u) PROVE Has(order', u) /\ expire'[u] = time
    <3>1. Has(order, u) /\ expire[u] = time
      BY <2>1 DEF HandDue
    <3>2. u # t
      BY <1>5, <3>1
    <3> QED
      BY <1>6, <1>7, <3>1, <3>2
  <2> QED
    BY <1>2, <2>1 DEF HandDue
<1>16. HandFirst'
  <2>1. Current' = Current /\ Current \in Lists
    BY <1>2, CurrentIs DEF Current
  <2>2. list'[Current] = list[Current]
    BY <1>4, <1>8, <2>1
  <2> QED
    BY <1>2, <2>1, <2>2 DEF HandFirst
<1>17. Ordered'
  <2>1. \A a, b : Before(order, a, b) => Before(order', a, b)
    BY <1>2, BeforeAppend
  <2>2. InOrder(order', hand)
    BY <2>1 DEF Ordered, InOrder
  <2>3. ASSUME NEW x \in Lists PROVE InOrder(order', list[x])
    BY <2>1 DEF Ordered, InOrder
  <2>4. ASSUME NEW u, Has(list[p], u) PROVE Before(order', u, t)
    <3>1. u \in Timer
      BY <1>4, <2>4 DEF Has
    <3>2. Has(order, u)
      BY <1>4, <2>4, <3>1 DEF Listed
    <3> QED
      BY <1>2, <3>2, BeforeAppend
  <2>5. InOrder(order', Append(list[p], t))
    <3>1. list[p] \in Seq(Timer)
      BY <1>4
    <3>2. InOrder(order', list[p])
      BY <1>4, <2>3
    <3> QED
      BY <2>4, <3>1, <3>2, OrderAppend
  <2>6. ASSUME NEW x \in Lists PROVE InOrder(order', list'[x])
    BY <1>8, <2>3, <2>5
  <2> QED
    BY <1>2, <2>2, <2>6 DEF Ordered
<1> QED
  BY <1>10, <1>11, <1>12, <1>13, <1>14, <1>15, <1>16, <1>17

(* The current list is taken out: it holds just what is due.                *)
LEMMA ExecuteKeeps == ASSUME TInv, Execute PROVE TInv'
<1> USE DEF TInv, WheelTypes
<1>1. /\ hand = <<>> /\ hand' = list[Current] /\ list' = [list EXCEPT ![Current] = <<>>]
      /\ time' = time /\ expire' = expire /\ order' = order
  BY DEF Execute
<1>2. Current \in Lists /\ Current' = Current
  BY <1>1, CurrentIs DEF Current
<1>3. /\ list' \in [Lists -> Seq(Timer)]
      /\ list'[Current] = <<>> /\ \A x \in Lists : x # Current => list'[x] = list[x]
  BY <1>1, <1>2
<1>4. \A u : ~ Has(hand, u)
  BY <1>1 DEF Has
<1>5. \A u : ~ Has(<<>>, u)
  BY DEF Has
<1>6. WheelTypes'
  BY <1>1, <1>2, <1>3
<1>7. Distinct(order)' /\ Within'
  BY <1>1 DEF Distinct, Within
<1>8. Listed'
  <2>1. ASSUME NEW x \in Lists, NEW u, Has(list'[x], u) PROVE Has(list[x], u)
    BY <1>3, <1>5, <2>1
  <2> QED
    BY <1>1, <2>1 DEF Listed
<1>9. NoneLost'
  <2>1. ASSUME NEW u \in Timer, Has(order, u)
        PROVE  Has(hand', u) \/ Has(list'[PlaceOf(time, expire[u])], u)
    <3>1. Has(list[PlaceOf(time, expire[u])], u) /\ PlaceOf(time, expire[u]) \in Lists
      BY <1>4, <2>1, ListIs DEF NoneLost
    <3> QED
      BY <1>1, <1>3, <3>1
  <2> QED
    BY <1>1, <2>1 DEF NoneLost
<1>10. HandDue'
  <2>1. ASSUME NEW u \in Timer, Has(list[Current], u) PROVE Has(order, u) /\ expire[u] = time
    <3>1. Has(order, u) /\ PlaceOf(time, expire[u]) = Current
      BY <1>2, <2>1 DEF Listed
    <3>2. expire[u] \in Times
      OBVIOUS
    <3> QED
      BY <3>1, <3>2, CurrentIs
  <2> QED
    BY <1>1, <2>1 DEF HandDue
<1>11. HandFirst'
  BY <1>2, <1>3 DEF HandFirst
<1>12. Ordered'
  <2>1. InOrder(order, <<>>)
    BY DEF InOrder
  <2>2. \A x \in Lists : InOrder(order, list'[x])
    BY <1>3, <2>1 DEF Ordered
  <2>3. InOrder(order, list[Current])
    BY <1>2 DEF Ordered
  <2> QED
    BY <1>1, <2>2, <2>3 DEF Ordered
<1> QED
  BY <1>6, <1>7, <1>8, <1>9, <1>10, <1>11, <1>12

(* The timer delivered: it is due, and set before the others in the hand.  *)
LEMMA DispatchOne ==
  ASSUME TInv, Dispatch
  PROVE  \E i \in 1 .. Len(order) :
           /\ order[i] = Head(hand) /\ order[i] \in Timer
           /\ order' = RemoveAt(order, i) /\ order' \in Seq(Timer)
           /\ Distinct(order')
           /\ \A u : Has(order', u) <=> Has(order, u) /\ u # order[i]
           /\ \A a, b : Before(order, a, b) /\ a # order[i] /\ b # order[i] => Before(order', a, b)
<1> USE DEF TInv, WheelTypes
<1>1. PICK i \in DOMAIN order : order[i] = Head(hand) /\ order' = RemoveAt(order, i)
  BY DEF Dispatch
<1>2. i \in 1 .. Len(order) /\ order[i] \in Timer
  OBVIOUS
<1>3. order' \in Seq(Timer)
  BY <1>1, <1>2, RemoveIs
<1> QED
  BY <1>1, <1>2, <1>3, Without

(* One timer is delivered.                                                  *)
LEMMA DispatchKeeps == ASSUME TInv, Dispatch PROVE TInv'
<1>1. PICK i \in 1 .. Len(order) :
           /\ order[i] = Head(hand) /\ order[i] \in Timer
           /\ order' = RemoveAt(order, i) /\ order' \in Seq(Timer)
           /\ Distinct(order')
           /\ \A u : Has(order', u) <=> Has(order, u) /\ u # order[i]
           /\ \A a, b : Before(order, a, b) /\ a # order[i] /\ b # order[i] => Before(order', a, b)
  BY DispatchOne
<1> USE DEF TInv, WheelTypes
<1>2. PICK t : t = Head(hand)
  OBVIOUS
<1>3. /\ hand # <<>> /\ hand' = Tail(hand)
      /\ time' = time /\ expire' = expire /\ list' = list
  BY DEF Dispatch
<1>4. /\ hand' \in Seq(Timer) /\ Has(hand, t) /\ t \in Timer
      /\ \A u : Has(hand', u) => Has(hand, u)
      /\ \A u : Has(hand, u) => u = t \/ Has(hand', u)
  BY <1>2, <1>3, HasTail
<1>5. Has(order, t) /\ expire[t] = time /\ Current \in Lists /\ list[Current] = <<>>
  BY <1>3, <1>4, CurrentIs DEF HandDue, HandFirst
<1>6. ASSUME NEW u, Before(order, t, u) PROVE u # t
  BY <1>6 DEF Before, Distinct
<1>7. ASSUME NEW u, Has(hand', u) PROVE u # t
  <2>1. Before(order, t, u)
    BY <1>2, <1>3, <1>7, OrderTail DEF Ordered
  <2> QED
    BY <1>6, <2>1
<1>8. ASSUME NEW x \in Lists, NEW u, Has(list[x], u) PROVE u # t
  <2> SUFFICES ASSUME u = t PROVE FALSE
    OBVIOUS
  <2>1. PlaceOf(time, expire[t]) = x
    BY <1>4, <1>8 DEF Listed
  <2>2. x = Current
    BY <1>4, <1>5, <2>1, CurrentIs
  <2>3. Has(<<>>, t)
    BY <1>5, <1>8, <2>2
  <2> QED
    BY <2>3 DEF Has
<1>9. WheelTypes'
  BY <1>1, <1>3, <1>4
<1>10. Within'
  BY <1>1, <1>3 DEF Within
<1>11. Listed'
  <2>1. ASSUME NEW x \in Lists, NEW u \in Timer, Has(list[x], u)
        PROVE  Has(order', u) /\ PlaceOf(time, expire[u]) = x
    BY <1>1, <1>2, <1>8, <2>1 DEF Listed
  <2> QED
    BY <1>3, <2>1 DEF Listed
<1>12. NoneLost'
  <2>1. ASSUME NEW u \in Timer, Has(order', u)
        PROVE  Has(hand', u) \/ Has(list[PlaceOf(time, expire[u])], u)
    BY <1>1, <1>2, <1>4, <2>1 DEF NoneLost
  <2> QED
    BY <1>3, <2>1 DEF NoneLost
<1>13. HandDue'
  <2>1. ASSUME NEW u \in Timer, Has(hand', u) PROVE Has(order', u) /\ expire[u] = time
    BY <1>1, <1>2, <1>4, <1>7, <2>1 DEF HandDue
  <2> QED
    BY <1>3, <2>1 DEF HandDue
<1>14. HandFirst'
  <2>1. Current' = Current
    BY <1>3 DEF Current
  <2> QED
    BY <1>3, <1>5, <2>1 DEF HandFirst
<1>15. Ordered'
  <2>1. InOrder(order, hand')
    BY <1>3, OrderTail DEF Ordered
  <2>2. \A s : InOrder(order, s) /\ (\A u : Has(s, u) => u # t) => InOrder(order', s)
    BY <1>1, <1>2 DEF InOrder, Has
  <2>3. InOrder(order', hand')
    BY <1>7, <2>1, <2>2
  <2>4. \A x \in Lists : InOrder(order', list[x])
    BY <1>8, <2>2 DEF Ordered
  <2> QED
    BY <1>3, <2>3, <2>4 DEF Ordered
<1> QED
  BY <1>1, <1>9, <1>10, <1>11, <1>12, <1>13, <1>14, <1>15

(* A tick: all timers that wait are ahead.                                 *)
LEMMA AllAhead ==
  ASSUME TInv, hand = <<>>, list[Current] = <<>>, NEW t \in Timer, Has(order, t)
  PROVE  /\ ToGo(time, expire[t]) \in 1 .. MaxDelay
         /\ PlaceOf(time, expire[t]) \in Lists /\ Has(list[PlaceOf(time, expire[t])], t)
<1> USE DEF TInv, WheelTypes
<1>1. ToGo(time, expire[t]) \in 0 .. MaxDelay /\ expire[t] \in Times
  BY DEF Within
<1>2. ~ Has(<<>>, t)
  BY DEF Has
<1>3. Has(list[PlaceOf(time, expire[t])], t)
  BY <1>2 DEF NoneLost
<1>4. ToGo(time, expire[t]) # 0
  BY <1>1, <1>2, <1>3, CurrentIs
<1>5. MaxDelay \in Nat
  BY TimerParameters
<1>6. ToGo(time, expire[t]) \in 1 .. MaxDelay
  BY ONLY <1>1, <1>4, <1>5
<1> QED
  BY <1>1, <1>3, <1>6, ListIs

(* A tick: what leaves the list that is taken apart goes to empty lists.    *)
LEMMA ShiftKeeps == ASSUME TInv, Shift PROVE TInv'
<1> USE DEF TInv, WheelTypes
<1>1. PICK s : s = (time + 1) % Range32
  OBVIOUS
<1>2. /\ hand = <<>> /\ list[Current] = <<>> /\ time' = s
      /\ hand' = hand /\ expire' = expire /\ order' = order
      /\ list' = IF Shifted(s) = {} THEN list ELSE Moved(s, CHOOSE p \in Shifted(s) : TRUE)
  BY <1>1 DEF Shift
<1>3. s \in Times
  <2>1. PICK r : r = Range32
    OBVIOUS
  <2>2. r \in Nat \ {0} /\ time \in Nat
    BY <2>1, BlockTop
  <2>3. (time + 1) % r \in 0 .. r - 1
    BY ONLY <2>2
  <2> QED
    BY <1>1, <2>1, <2>3 DEF Times
<1>4. ASSUME NEW t \in Timer, Has(order, t)
      PROVE  /\ Turned(time, s, expire[t]) /\ ToGo(s, expire[t]) \in 0 .. MaxDelay
             /\ expire[t] \in Times
             /\ PlaceOf(time, expire[t]) \in Lists /\ Has(list[PlaceOf(time, expire[t])], t)
  <2>1. ToGo(time, expire[t]) \in 1 .. MaxDelay /\ expire[t] \in Times
    BY <1>2, <1>4, AllAhead
  <2>2. Turned(time, s, expire[t]) /\ ToGo(s, expire[t]) = ToGo(time, expire[t]) - 1
    BY <1>1, <2>1, Turn
  <2>3. MaxDelay \in Nat
    BY TimerParameters
  <2>4. ToGo(s, expire[t]) \in 0 .. MaxDelay
    BY ONLY <2>1, <2>2, <2>3
  <2> QED
    BY <1>2, <1>4, <2>1, <2>2, <2>4, AllAhead
<1>5. Distinct(order)' /\ Within'
  BY <1>2, <1>4 DEF Distinct, Within
<1>6. \A u : ~ Has(<<>>, u)
  BY DEF Has
<1>7. HandDue' /\ HandFirst'
  BY <1>2, <1>6 DEF HandDue, HandFirst
<1>8. CASE Shifted(s) = {}
  <2>1. list' = list
    BY <1>2, <1>8
  <2>2. \A t \in Timer : Has(order, t) => PlaceOf(s, expire[t]) = PlaceOf(time, expire[t])
    BY <1>4, <1>8 DEF Turned
  <2>3. WheelTypes' /\ Ordered'
    BY <1>2, <1>3, <2>1 DEF Ordered
  <2>4. Listed'
    BY <1>2, <2>1, <2>2 DEF Listed
  <2>5. NoneLost'
    BY <1>2, <2>1, <2>2 DEF NoneLost
  <2> QED
    BY <1>5, <1>7, <2>3, <2>4, <2>5
<1>9. CASE Shifted(s) # {}
  <2>1. PICK p \in Shifted(s) : list' = Moved(s, p)
    BY <1>2, <1>9
  <2>2. p \in Lists /\ \A x : x \in Shifted(s) <=> x = p
    BY <1>3, <2>1, ShiftedOne
  <2>3. \A h \in 1 .. Len(list[p]) : list[p][h] \in Timer /\ Has(list[p], list[p][h])
    <3>1. list[p] \in Seq(Timer)
      BY <2>2
    <3> QED
      BY <3>1 DEF Has
  <2>4. ASSUME NEW u \in Timer, Has(list[p], u)
        PROVE  /\ Has(order, u) /\ PlaceOf(s, expire[u]) \in Lists \ {p}
               /\ list[PlaceOf(s, expire[u])] = <<>>
    <3>1. Has(order, u) /\ PlaceOf(time, expire[u]) = p
      BY <2>2, <2>4 DEF Listed
    <3>2. PICK y : y = PlaceOf(s, expire[u])
      OBVIOUS
    <3>3. y \in Lists /\ y[1] < p[1]
      BY <1>3, <1>4, <2>1, <3>1, <3>2, ListIs DEF Turned
    <3>4. y[1] \in Int /\ p[1] \in Int
      BY <2>2, <3>3 DEF Lists
    <3>5. ASSUME NEW v \in Timer, Has(list[y], v) PROVE FALSE
      <4>1. Has(order, v) /\ PlaceOf(time, expire[v]) = y
        BY <3>3, <3>5 DEF Listed
      <4>2. p[1] <= y[1]
        BY <1>4, <2>1, <4>1 DEF Turned
      <4> QED
        BY ONLY <3>3, <3>4, <4>2
    <3>6. list[y] \in Seq(Timer)
      BY <3>3
    <3>7. list[y] = <<>>
      BY <3>5, <3>6, HasNone DEF Has
    <3>8. y # p
      BY ONLY <3>3, <3>4
    <3> QED
      BY <3>1, <3>2, <3>3, <3>7, <3>8
  <2>5. ToEmpty(s, p)
    BY <2>3, <2>4 DEF ToEmpty
  <2>6. Partial(list', s, p, Len(list[p]))
    BY <2>1, <2>2, <2>5, MovedIs DEF Ordered
  <2>7. WheelTypes'
    BY <1>2, <1>3, <2>6 DEF Partial
  <2>8. Ordered'
    BY <1>2, <2>6 DEF Partial, Ordered
  <2>9. Listed'
    <3>1. ASSUME NEW x \in Lists, NEW u \in Timer, Has(list'[x], u)
          PROVE  Has(order, u) /\ PlaceOf(s, expire[u]) = x
      <4>1. CASE x # p /\ Has(list[x], u)
        <5>1. Has(order, u) /\ PlaceOf(time, expire[u]) = x
          BY <4>1 DEF Listed
        <5> QED
          BY <1>4, <2>2, <4>1, <5>1 DEF Turned
      <4>2. ASSUME NEW h \in 1 .. Len(list[p]), list[p][h] = u, PlaceOf(s, expire[u]) = x
            PROVE  Has(order, u) /\ PlaceOf(s, expire[u]) = x
        BY <2>3, <2>4, <4>2
      <4> QED
        BY <2>6, <3>1, <4>1, <4>2 DEF Partial
    <3> QED
      BY <1>2, <3>1 DEF Listed
  <2>10. NoneLost'
    <3>1. ASSUME NEW u \in Timer, Has(order, u) PROVE Has(list'[PlaceOf(s, expire[u])], u)
      <4>1. PlaceOf(time, expire[u]) \in Lists /\ Has(list[PlaceOf(time, expire[u])], u)
        BY <1>4, <3>1
      <4>2. CASE PlaceOf(time, expire[u]) = p
        <5>1. PICK h \in 1 .. Len(list[p]) : list[p][h] = u
          <6>1. list[p] \in Seq(Timer)
            BY <2>2
          <6> QED
            BY <4>1, <4>2, <6>1 DEF Has
        <5> QED
          BY <2>6, <5>1 DEF Partial
      <4>3. CASE PlaceOf(time, expire[u]) # p
        <5>1. PlaceOf(s, expire[u]) = PlaceOf(time, expire[u])
          BY <1>4, <2>2, <3>1, <4>3 DEF Turned
        <5> QED
          BY <2>6, <4>1, <4>3, <5>1 DEF Partial
      <4> QED
        BY <4>2, <4>3
    <3> QED
      BY <1>2, <3>1 DEF NoneLost
  <2> QED
    BY <1>5, <1>7, <2>7, <2>8, <2>9, <2>10
<1> QED
  BY <1>8, <1>9

(* Every step keeps the invariant.                                          *)
LEMMA TimerNextKeeps == TInv /\ [TimerNext]_timervars => TInv'
<1> SUFFICES ASSUME TInv, [TimerNext]_timervars PROVE TInv'
  OBVIOUS
<1>1. ASSUME UNCHANGED <<time, list, expire, hand, order>> PROVE TInv'
  BY <1>1 DEF TInv, WheelTypes, Distinct, Within, Listed, NoneLost, HandDue,
               HandFirst, Ordered, Current
<1>2. CASE ReadClock
  BY <1>1, <1>2 DEF ReadClock
<1>3. CASE Begin
  BY <1>1, <1>3 DEF Begin
<1>4. CASE Execute
  BY <1>4, ExecuteKeeps
<1>5. CASE Dispatch
  BY <1>5, DispatchKeeps
<1>6. CASE Shift
  BY <1>6, ShiftKeeps
<1>7. CASE Finish
  BY <1>1, <1>7 DEF Finish
<1>8. CASE Clock
  BY <1>1, <1>8 DEF Clock
<1>9. ASSUME NEW t \in Timer, NEW d \in 1 .. MaxDelay, Timeout(t, d) PROVE TInv'
  BY <1>9, TimeoutKeeps
<1>10. CASE UNCHANGED timervars
  BY <1>1, <1>10 DEF timervars
<1> QED
  BY <1>2, <1>3, <1>4, <1>5, <1>6, <1>7, <1>8, <1>9, <1>10 DEF TimerNext, TimerThread

-----------------------------------------------------------------------------
(* What the wheel is as a queue.                                           *)
DueEntry == [timer : Timer, left : Int]
DueOf(ord, ex, now) ==
  [i \in DOMAIN ord |-> [timer |-> ord[i], left |-> (ex[ord[i]] - now) % Range32]]

(* The refinement mapping, as a function of three variables.                *)
LEMMA DueIs == Due = DueOf(order, expire, time)
BY DEF Due, DueOf

(* What that function returns.                                              *)
LEMMA DueOfIs ==
  ASSUME NEW ord \in Seq(Timer), NEW ex \in [Timer -> Times], NEW now \in Times
  PROVE  /\ DueOf(ord, ex, now) \in Seq(DueEntry)
         /\ Len(DueOf(ord, ex, now)) = Len(ord) /\ Len(ord) \in Nat
         /\ DOMAIN ord = 1 .. Len(ord) /\ DOMAIN DueOf(ord, ex, now) = 1 .. Len(ord)
         /\ \A i \in 1 .. Len(ord) :
              /\ ord[i] \in Timer /\ Has(ord, ord[i]) /\ ToGo(now, ex[ord[i]]) \in Int
              /\ DueOf(ord, ex, now)[i] = [timer |-> ord[i], left |-> ToGo(now, ex[ord[i]])]
<1>1. PICK n, q : n = Len(ord) /\ q = DueOf(ord, ex, now)
  OBVIOUS
<1>2. n \in Nat /\ DOMAIN ord = 1 .. n /\ \A i \in 1 .. n : ord[i] \in Timer
  BY <1>1
<1>3. ASSUME NEW a \in Times, NEW b \in Times PROVE ToGo(a, b) \in Int
  <2>1. a \in Nat /\ b \in Nat /\ Range32 \in Nat
    BY BlockTop
  <2>2. PICK d : d = ToGo(a, b)
    OBVIOUS
  <2>3. d = IF a <= b THEN b - a ELSE (b - a) + Range32
    BY <2>2, ToGoIs
  <2>4. d \in Int
    BY ONLY <2>1, <2>3
  <2> QED
    BY <2>2, <2>4
<1>4. ASSUME NEW i \in 1 .. n
      PROVE  /\ ord[i] \in Timer /\ Has(ord, ord[i]) /\ ToGo(now, ex[ord[i]]) \in Int
             /\ q[i] = [timer |-> ord[i], left |-> ToGo(now, ex[ord[i]])]
             /\ q[i] \in DueEntry
  <2>1. ord[i] \in Timer /\ Has(ord, ord[i]) /\ ToGo(now, ex[ord[i]]) \in Int
    BY <1>2, <1>3 DEF Has
  <2>2. q[i] = [timer |-> ord[i], left |-> ToGo(now, ex[ord[i]])]
    BY <1>1, <1>2 DEF DueOf, ToGo
  <2> QED
    BY <2>1, <2>2 DEF DueEntry
<1>5. DOMAIN q = 1 .. n /\ q = [i \in 1 .. n |-> q[i]]
  BY <1>1, <1>2 DEF DueOf
<1>6. q \in Seq(DueEntry) /\ Len(q) = n
  <2>1. q \in [1 .. n -> DueEntry]
    BY <1>4, <1>5
  <2> QED
    BY ONLY <1>2, <2>1
<1> QED
  BY <1>1, <1>2, <1>4, <1>5, <1>6

(* Timeout implements Set.                                                  *)
LEMMA TimeoutSets ==
  ASSUME TInv, TInv', NEW t \in Timer, NEW d \in 1 .. MaxDelay, Timeout(t, d)
  PROVE  Ideal!Set
<1> USE DEF TInv, WheelTypes
<1>1. PICK e : e = (time + d) % Range32
  OBVIOUS
<1>2. /\ expire' = [expire EXCEPT ![t] = e] /\ order' = Append(order, t) /\ time' = time
      /\ t \notin Pending
  BY <1>1 DEF Timeout
<1>3. e \in Times /\ ToGo(time, e) = d
  BY <1>1, SetFor
<1>4. ~ Has(order, t)
  BY <1>2, PendingIs
<1>5. PICK n, q, r : n = Len(order) /\ q = Due /\ r = Due'
  OBVIOUS
<1>6. /\ q \in Seq(DueEntry) /\ Len(q) = n /\ n \in Nat /\ DOMAIN q = 1 .. n
      /\ \A i \in 1 .. n : /\ order[i] \in Timer /\ Has(order, order[i])
                           /\ q[i] = [timer |-> order[i], left |-> ToGo(time, expire[order[i]])]
  BY <1>5, DueIs, DueOfIs
<1>7. r = DueOf(order', expire', time) /\ order' \in Seq(Timer) /\ expire' \in [Timer -> Times]
  BY <1>2, <1>5 DEF Due, DueOf
<1>8. /\ Len(order') = n + 1 /\ order'[n + 1] = t
      /\ \A i \in 1 .. n : order'[i] = order[i]
  BY <1>2, <1>5
<1>9. /\ r \in Seq(DueEntry) /\ Len(r) = n + 1
      /\ \A i \in 1 .. n + 1 : r[i] = [timer |-> order'[i], left |-> ToGo(time, expire'[order'[i]])]
  <2>1. PICK o, x : o = order' /\ x = expire'
    OBVIOUS
  <2>2. o \in Seq(Timer) /\ x \in [Timer -> Times] /\ Len(o) = n + 1 /\ r = DueOf(o, x, time)
    BY <1>7, <1>8, <2>1
  <2>3. /\ r \in Seq(DueEntry) /\ Len(r) = n + 1
        /\ \A i \in 1 .. n + 1 : r[i] = [timer |-> o[i], left |-> ToGo(time, x[o[i]])]
    <3>1. time \in Times
      OBVIOUS
    <3> HIDE DEF TInv, WheelTypes
    <3> QED
      BY <2>2, <3>1, DueOfIs
  <2> QED
    BY <2>1, <2>3
<1>10. PICK x : x = [timer |-> t, left |-> d]
  OBVIOUS
<1>11. x \in DueEntry
  BY <1>10 DEF DueEntry
<1>12. PICK s : s = Append(q, x)
  OBVIOUS
<1>13. s \in Seq(DueEntry) /\ Len(s) = n + 1 /\ s[n + 1] = x /\ \A i \in 1 .. n : s[i] = q[i]
  BY ONLY <1>6, <1>11, <1>12
<1>14. ASSUME NEW i \in 1 .. n + 1 PROVE r[i] = s[i]
  <2>1. CASE i = n + 1
    <3>1. order'[i] = t /\ expire'[t] = e
      BY <1>2, <1>8, <2>1
    <3> QED
      BY <1>3, <1>9, <1>10, <1>13, <2>1, <3>1
  <2>2. CASE i # n + 1
    <3>1. i \in 1 .. n
      BY ONLY <1>6, <2>2, i \in 1 .. n + 1
    <3>2. order'[i] = order[i] /\ order[i] # t /\ order[i] \in Timer
      BY <1>4, <1>6, <1>8, <3>1
    <3>3. expire'[order[i]] = expire[order[i]]
      BY <1>2, <3>2
    <3> QED
      BY <1>6, <1>9, <1>13, <3>1, <3>2, <3>3
  <2> QED
    BY <2>1, <2>2
<1>15. r = s
  BY <1>9, <1>13, <1>14, SeqEqual
<1>16. ~ Ideal!Waiting(t)
  <2>1. ASSUME NEW i \in 1 .. n, q[i].timer = t PROVE FALSE
    <3>1. q[i].timer = order[i]
      BY <1>6
    <3> QED
      BY <1>4, <1>6, <2>1, <3>1, Zenon
  <2> QED
    BY <1>5, <1>6, <2>1 DEF Ideal!Waiting
<1> QED
  BY <1>5, <1>10, <1>12, <1>15, <1>16 DEF Ideal!Set

(* Shift implements Tick: no timer is due.                                  *)
LEMMA ShiftTicks == ASSUME TInv, TInv', Shift PROVE Ideal!Tick
<1> USE DEF TInv, WheelTypes
<1>1. PICK s : s = (time + 1) % Range32
  OBVIOUS
<1>2. /\ hand = <<>> /\ list[Current] = <<>> /\ time' = s
      /\ expire' = expire /\ order' = order
  BY <1>1 DEF Shift
<1>3. PICK n, q, r : n = Len(order) /\ q = Due /\ r = Due'
  OBVIOUS
<1>4. /\ q \in Seq(DueEntry) /\ Len(q) = n /\ n \in Nat /\ DOMAIN q = 1 .. n
      /\ \A i \in 1 .. n : /\ order[i] \in Timer /\ Has(order, order[i])
                           /\ q[i] = [timer |-> order[i], left |-> ToGo(time, expire[order[i]])]
  BY <1>3, DueIs, DueOfIs
<1>5. r = DueOf(order, expire, s) /\ s \in Times
  BY <1>2, <1>3 DEF Due, DueOf
<1>6. /\ r \in Seq(DueEntry) /\ DOMAIN r = 1 .. n
      /\ \A i \in 1 .. n : r[i] = [timer |-> order[i], left |-> ToGo(s, expire[order[i]])]
  <2>1. order \in Seq(Timer) /\ expire \in [Timer -> Times] /\ Len(order) = n
    BY <1>3
  <2> HIDE DEF TInv, WheelTypes
  <2> QED
    BY <1>5, <2>1, DueOfIs
<1>7. ASSUME NEW i \in 1 .. n
      PROVE  q[i].left > 0 /\ r[i] = [q[i] EXCEPT !.left = @ - 1]
  <2>1. PICK t, a, b : t = order[i] /\ a = ToGo(time, expire[t]) /\ b = ToGo(s, expire[t])
    OBVIOUS
  <2>2. t \in Timer /\ Has(order, t) /\ expire[t] \in Times
    BY <1>4, <2>1
  <2>3. a \in 1 .. MaxDelay
    BY <1>2, <2>1, <2>2, AllAhead
  <2>4. b = a - 1
    BY <1>1, <2>1, <2>2, <2>3, Turn
  <2>5. q[i] = [timer |-> t, left |-> a] /\ r[i] = [timer |-> t, left |-> b]
    BY <1>4, <1>6, <2>1
  <2>6. a > 0
    BY <2>3
  <2> QED
    BY ONLY <2>4, <2>5, <2>6
<1>8. r = [i \in 1 .. n |-> [q[i] EXCEPT !.left = @ - 1]]
  <2>1. r = [i \in 1 .. n |-> r[i]]
    BY <1>6
  <2> QED
    BY <1>7, <2>1
<1> QED
  BY <1>3, <1>4, <1>7, <1>8 DEF Ideal!Tick

(* Dispatch implements Fire: it delivers the oldest one that is due.        *)
LEMMA DispatchFires == ASSUME TInv, TInv', Dispatch PROVE Ideal!Fire
<1>1. PICK k \in 1 .. Len(order) :
        /\ order[k] = Head(hand) /\ order[k] \in Timer
        /\ order' = RemoveAt(order, k)
  BY DispatchOne
<1> USE DEF TInv, WheelTypes
<1>2. hand # <<>> /\ time' = time /\ expire' = expire
  BY DEF Dispatch
<1>3. PICK n, q, r : n = Len(order) /\ q = Due /\ r = Due'
  OBVIOUS
<1>4. /\ q \in Seq(DueEntry) /\ Len(q) = n /\ n \in Nat /\ DOMAIN q = 1 .. n /\ DOMAIN order = 1 .. n
      /\ \A i \in 1 .. n : /\ order[i] \in Timer /\ Has(order, order[i])
                           /\ q[i] = [timer |-> order[i], left |-> ToGo(time, expire[order[i]])]
  BY <1>3, DueIs, DueOfIs
<1>5. k \in 1 .. n
  BY <1>1, <1>3
<1>6. q[k].left = 0
  <2>1. Has(hand, order[k])
    BY <1>1, <1>2, HasTail
  <2>2. expire[order[k]] = time
    BY <1>1, <2>1 DEF HandDue
  <2>3. ToGo(time, time) = 0
    BY CurrentIs
  <2> QED
    BY <1>4, <1>5, <2>2, <2>3
<1>7. ASSUME NEW j \in 1 .. k - 1 PROVE q[j].left > 0
  <2>1. j \in 1 .. n /\ j < k
    BY <1>4, <1>5
  <2>2. PICK t, a : t = order[j] /\ a = ToGo(time, expire[t])
    OBVIOUS
  <2>3. t \in Timer /\ Has(order, t) /\ q[j].left = a /\ expire[t] \in Times
    BY <1>4, <2>1, <2>2
  <2>4. a \in 0 .. MaxDelay
    BY <2>2, <2>3 DEF Within
  <2>5. ASSUME a = 0 PROVE FALSE
    <3>1. PlaceOf(time, expire[t]) = Current
      BY <2>2, <2>3, <2>5, CurrentIs
    <3>2. list[Current] = <<>>
      BY <1>2 DEF HandFirst
    <3>3. Has(hand, t)
      <4>1. ~ Has(<<>>, t)
        BY DEF Has
      <4>2. Has(hand, t) \/ Has(list[PlaceOf(time, expire[t])], t)
        BY <2>3 DEF NoneLost
      <4> QED
        BY <3>1, <3>2, <4>1, <4>2
    <3>4. t # order[k]
      <4>1. j \in DOMAIN order /\ k \in DOMAIN order /\ j # k
        BY <1>4, <1>5, <2>1
      <4>2. Distinct(order)
        OBVIOUS
      <4> QED
        BY ONLY <2>2, <4>1, <4>2 DEF Distinct
    <3>5. Before(order, order[k], t)
      BY <1>1, <1>2, <3>3, <3>4, HasTail, OrderTail DEF Ordered
    <3>6. PICK g \in DOMAIN order, h \in DOMAIN order : g < h /\ order[g] = order[k] /\ order[h] = t
      BY <3>5 DEF Before
    <3>7. g = k /\ h = j
      BY <1>4, <1>5, <2>1, <2>2, <3>6 DEF Distinct
    <3> QED
      BY <1>4, <1>5, <2>1, <3>6, <3>7
  <2>6. MaxDelay \in Nat
    BY TimerParameters
  <2>7. a > 0
    BY ONLY <2>4, <2>5, <2>6
  <2> QED
    BY <2>3, <2>7
<1>8. PICK s : s = RemoveAt(q, k)
  OBVIOUS
<1>9. /\ s \in Seq(DueEntry) /\ DOMAIN s = 1 .. n - 1
      /\ \A j \in 1 .. n - 1 : s[j] = IF j < k THEN q[j] ELSE q[j + 1]
  BY <1>4, <1>5, <1>8, RemoveIs
<1>10. /\ order' \in Seq(Timer) /\ DOMAIN order' = 1 .. n - 1
       /\ \A j \in 1 .. n - 1 : order'[j] = IF j < k THEN order[j] ELSE order[j + 1]
  BY <1>1, <1>3, RemoveIs
<1>11. r = DueOf(order', expire, time)
  BY <1>2, <1>3 DEF Due, DueOf
<1>12. /\ r \in Seq(DueEntry) /\ DOMAIN r = 1 .. n - 1
       /\ \A j \in 1 .. n - 1 : r[j] = [timer |-> order'[j], left |-> ToGo(time, expire[order'[j]])]
  <2>1. PICK o : o = order'
    OBVIOUS
  <2>2. o \in Seq(Timer) /\ r = DueOf(o, expire, time) /\ DOMAIN o = 1 .. n - 1
    BY <1>10, <1>11, <2>1
  <2>3. /\ r \in Seq(DueEntry) /\ DOMAIN r = DOMAIN o
        /\ \A i \in DOMAIN o : r[i] = [timer |-> o[i], left |-> ToGo(time, expire[o[i]])]
    <3>1. expire \in [Timer -> Times] /\ time \in Times
      OBVIOUS
    <3> HIDE DEF TInv, WheelTypes
    <3>2. DOMAIN o = 1 .. Len(o)
      BY <2>2
    <3> QED
      BY <2>2, <3>1, <3>2, DueOfIs
  <2> QED
    BY <2>1, <2>2, <2>3
<1>13. ASSUME NEW j \in 1 .. n - 1 PROVE r[j] = s[j]
  <2>1. PICK i : i = IF j < k THEN j ELSE j + 1
    OBVIOUS
  <2>2. i \in 1 .. n
    BY ONLY <1>4, <1>5, <2>1, j \in 1 .. n - 1
  <2>3. order'[j] = order[i] /\ s[j] = q[i]
    BY <1>9, <1>10, <2>1
  <2> QED
    BY <1>4, <1>12, <2>2, <2>3
<1>14. r = s
  <2>1. r = [j \in 1 .. n - 1 |-> r[j]] /\ s = [j \in 1 .. n - 1 |-> s[j]]
    BY <1>9, <1>12
  <2> QED
    BY <1>13, <2>1
<1>15. s = SubSeq(q, 1, k - 1) \o SubSeq(q, k + 1, Len(q))
  BY <1>8 DEF RemoveAt
<1> QED
  BY <1>3, <1>4, <1>5, <1>6, <1>7, <1>14, <1>15 DEF Ideal!Fire

(* The other steps of the timer thread leave the queue alone.               *)
LEMMA WheelStep == ASSUME TInv, TInv', [TimerNext]_timervars PROVE [Ideal!Next]_Due
<1>1. ASSUME UNCHANGED <<time, expire, order>> PROVE Due' = Due
  BY <1>1 DEF Due
<1>2. CASE ReadClock
  BY <1>1, <1>2 DEF ReadClock
<1>3. CASE Begin
  BY <1>1, <1>3 DEF Begin
<1>4. CASE Execute
  BY <1>1, <1>4 DEF Execute
<1>5. CASE Dispatch
  BY <1>5, DispatchFires DEF Ideal!Next
<1>6. CASE Shift
  BY <1>6, ShiftTicks DEF Ideal!Next
<1>7. CASE Finish
  BY <1>1, <1>7 DEF Finish
<1>8. CASE Clock
  BY <1>1, <1>8 DEF Clock
<1>9. ASSUME NEW t \in Timer, NEW d \in 1 .. MaxDelay, Timeout(t, d) PROVE Ideal!Next
  BY <1>9, TimeoutSets DEF Ideal!Next
<1>10. CASE UNCHANGED timervars
  BY <1>1, <1>10 DEF timervars
<1> QED
  BY <1>2, <1>3, <1>4, <1>5, <1>6, <1>7, <1>8, <1>9, <1>10 DEF TimerNext, TimerThread

(* At first no timer waits.                                                 *)
LEMMA WheelInit == TimerInit => Ideal!Init
<1> SUFFICES ASSUME TimerInit PROVE Due = <<>>
  BY DEF Ideal!Init
<1>1. order = <<>>
  BY DEF TimerInit
<1>2. DOMAIN Due = {}
  BY <1>1 DEF Due
<1> QED
  BY <1>1, <1>2 DEF Due

(* skynet_timer.c:77, 115: with any number of levels, lists and timers,    *)
(* and when time wraps, the wheel fires each timer at the tick it was set  *)
(* for and those of one tick in the order of setting; all that is needed   *)
(* is that the largest delay is less than half the range of time.          *)
THEOREM WheelIsQueue == TimerSpec => IsTimerQueue
<1>1. TimerInit => TInv /\ Ideal!Init
  BY TimerInitKeeps, WheelInit
<1>2. TInv /\ [TimerNext]_timervars => TInv'
  BY TimerNextKeeps
<1>3. TInv /\ TInv' /\ [TimerNext]_timervars => [Ideal!Next]_Due
  BY WheelStep
<1> HIDE DEF TInv
<1> QED
  BY <1>1, <1>2, <1>3, PTL DEF TimerSpec, IsTimerQueue, Ideal!Spec
=============================================================================
