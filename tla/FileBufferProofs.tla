-------------------------- MODULE FileBufferProofs --------------------------
(***************************************************************************)
(* The disk cache, for every limit, file size and batch size: whatever     *)
(* fails, its structure is kept (CacheAlwaysSound), and until a push ends  *)
(* with an error data leave in the order they came (CacheInOrder); as long *)
(* as nothing fails and the file indices do not come round it is a lossy   *)
(* queue (CacheIsLossyQueue).                                              *)
(***************************************************************************)
EXTENDS FileBuffer, FiniteSetTheorems, TLAPS

(* Each push that ended with an error left a datum more in the tail.       *)
Room(s) == PerFile + s.raised

(* A cache of at most k files, each with 1 .. Room(s) data, whose folder   *)
(* and fire buffer agree with its list of files.                           *)
Sound(s, k) ==
  /\ IsCache(s)
  /\ Len(s.files) <= k
  /\ DOMAIN s.disk = ToData(s.files)
  /\ \A i \in 1 .. Len(s.files) : s.files[i] = (s.files[1] + (i - 1)) % IndexMod
  /\ \A i \in DOMAIN s.disk : Len(s.disk[i]) \in 1 .. Room(s)
  /\ Len(s.fire_buffer) <= Room(s)
  /\ s.files = <<>> => s.fire_index = None /\ s.fire_buffer = <<>>
  /\ s.files # <<>> => /\ s.fire_index = s.files[1]
                       /\ s.stale \/ s.fire_buffer = s.disk[s.files[1]]
  /\ s.stale \/ s.raised # 0 => s.faulty

(* The offset is inside the fire buffer.                                   *)
OffsetOK(s) == s.files # <<>> => s.fire_offset <= Len(s.fire_buffer)

(* It stays so in t, and may be outside only where the load raised.        *)
KeepsOffset(s, t) == /\ OffsetOK(s) => OffsetOK(t)
                     /\ OffsetOK(s) \/ s.stale => OffsetOK(t) \/ t.stale

(* The inductive invariant.                                                *)
IInv ==
  /\ TypeOK
  /\ Sound(fb, MaxFiles)
  /\ OffsetOK(fb) \/ (fb.stale /\ pc = "done")
  /\ Len(fb.buffer) < Room(fb)
  /\ pc = "call" /\ batch # <<>> => working # None

-----------------------------------------------------------------------------
(* A sum of two numbers below N wraps at most once.                        *)
LEMMA WrapOnce ==
  ASSUME NEW N \in Nat, NEW x \in Nat, x < 2 * N, N > 0
  PROVE  x % N = IF x < N THEN x ELSE x - N
OBVIOUS

(* A suffix of a list of consecutive indices is one.                       *)
LEMMA ShiftWrap ==
  ASSUME NEW N \in Nat, N > 0, NEW f \in 0 .. N - 1,
         NEW a \in Nat, NEW b \in Nat, a + b < N
  PROVE  (f + (a + b)) % N = (((f + a) % N) + b) % N
<1>1. (f + (a + b)) % N = IF f + (a + b) < N THEN f + (a + b) ELSE f + (a + b) - N
  BY WrapOnce
<1>2. (f + a) % N = IF f + a < N THEN f + a ELSE f + a - N
  BY WrapOnce
<1>3. CASE f + a < N
  BY <1>1, <1>2, <1>3, WrapOnce
<1>4. CASE f + a >= N
  <2>1. /\ (f + a) % N = f + a - N
        /\ f + a - N + b \in Nat
        /\ f + a - N + b < N
    BY <1>2, <1>4
  <2>2. (f + a - N + b) % N = f + a - N + b
    BY <2>1, WrapOnce
  <2>3. (f + (a + b)) % N = f + (a + b) - N
    BY <1>1, <1>4
  <2> QED BY <2>1, <2>2, <2>3
<1> QED BY <1>3, <1>4

LEMMA IndexRange == IndexMod \in Nat /\ IndexMod > MaxFiles + 1 /\ MaxFiles \in Nat /\ MaxFiles >= 1
BY FileBufferAssumption

(* The indices of MaxFiles + 1 files in a row are different.               *)
LEMMA OtherIndex ==
  ASSUME NEW f \in Nat, NEW l \in 1 .. MaxFiles, f < IndexMod
  PROVE  (f + l) % IndexMod # f
<1>1. (f + l) % IndexMod = IF f + l < IndexMod THEN f + l ELSE f + l - IndexMod
  BY IndexRange, WrapOnce
<1> QED BY <1>1, IndexRange

-----------------------------------------------------------------------------
(* The files left when n of them cannot be read, and their content.        *)
Left(s, n) == SubSeq(Tail(s.files), n + 1, Len(Tail(s.files)))
Kept(s, n) == DOMAIN s.disk \ (ToData(s.files) \ ToData(Left(s, n)))

LEMMA LoadNextLeft ==
  ASSUME NEW k \in Nat, k < IndexMod, NEW s, Sound(s, k),
         NEW n \in 0 .. Len(Unfired(s)), s.files # <<>>
  PROVE  /\ Unfired(s) = Tail(s.files)
         /\ Left(s, n) \in Seq(Index)
         /\ n + 1 <= Len(s.files)
         /\ Len(Left(s, n)) = Len(s.files) - 1 - n
         /\ \A i \in 1 .. Len(Left(s, n)) : Left(s, n)[i] = s.files[n + 1 + i]
         /\ Kept(s, n) = ToData(Left(s, n)) /\ Kept(s, n) \subseteq DOMAIN s.disk
         /\ Left(s, n) # <<>> => Head(Left(s, n)) = Left(s, n)[1] /\ Left(s, n)[1] \in Kept(s, n)
<1> DEFINE rest == Tail(s.files)
           left == SubSeq(rest, n + 1, Len(rest))
           kept == DOMAIN s.disk \ (ToData(s.files) \ ToData(left))
           t    == LoadNext(s, n)
<1>1. /\ IsCache(s)
      /\ s.files \in Seq(Index)
      /\ DOMAIN s.disk \subseteq Index
      /\ s.disk \in [DOMAIN s.disk -> Seq(Data)]
  BY DEF Sound, IsCache
<1>2. Unfired(s) = rest
  <2>1. Head(s.files) = s.files[1] /\ s.files[1] \in Index
    BY <1>1
  <2>2. s.fire_index = s.files[1] /\ s.fire_index # None
    BY <2>1 DEF Sound, None, Index
  <2> QED BY <2>1, <2>2 DEF Unfired
<1>3. /\ rest \in Seq(Index)
      /\ Len(rest) = Len(s.files) - 1
      /\ \A i \in 1 .. Len(rest) : rest[i] = s.files[i + 1]
      /\ n \in 0 .. Len(rest)
  BY <1>1, <1>2
<1>4. /\ left \in Seq(Index)
      /\ Len(left) = Len(rest) - n
      /\ \A i \in 1 .. Len(left) : left[i] = s.files[n + 1 + i]
  BY <1>3
<1>5. kept = ToData(left)
  <2>1. DOMAIN s.disk = ToData(s.files)
    BY DEF Sound
  <2>2. \A i \in 1 .. Len(left) : n + 1 + i \in 1 .. Len(s.files)
    BY <1>3, <1>4
  <2>3. ToData(left) \subseteq ToData(s.files)
    BY <1>4, <2>2 DEF ToData
  <2> QED BY <2>1, <2>3
<1>6. left # <<>> => Head(left) = left[1] /\ left[1] \in kept
  <2>1. left # <<>> => Head(left) = left[1] /\ 1 \in 1 .. Len(left)
    BY <1>4
  <2> QED BY <2>1, <1>5 DEF ToData
<1>7. left = Left(s, n) /\ kept = Kept(s, n) /\ kept \subseteq DOMAIN s.disk
  BY DEF Left, Kept
<1>8. n + 1 <= Len(s.files) /\ Len(left) = Len(s.files) - 1 - n
  BY <1>1, <1>3, <1>4
<1> HIDE DEF rest, left, kept, t
<1>9. Unfired(s) = Tail(s.files)
  BY <1>2 DEF rest
<1> QED
  BY <1>4, <1>5, <1>6, <1>7, <1>8, <1>9

(* The cache without the skipped files, field by field.                    *)
Skipped(s, n) ==
  [files |-> Left(s, n), buffer |-> s.buffer,
   fire_buffer |-> s.fire_buffer, fire_offset |-> s.fire_offset,
   fire_index |-> IF Left(s, n) = <<>> THEN None ELSE Left(s, n)[1],
   disk |-> [i \in Kept(s, n) |-> s.disk[i]],
   faulty |-> (s.faulty \/ n > 0), stale |-> s.stale, raised |-> s.raised, overtook |-> s.overtook]

LEMMA SkipIs ==
  ASSUME NEW k \in Nat, k < IndexMod, NEW s, Sound(s, k),
         NEW n \in 0 .. Len(Unfired(s)), s.files # <<>>
  PROVE  Skip(s, n) = Skipped(s, n)
<1>1. Unfired(s) = Tail(s.files) /\ (Left(s, n) # <<>> => Head(Left(s, n)) = Left(s, n)[1])
  BY LoadNextLeft
<1>2. IsCache(s)
  BY DEF Sound
<1>3. Skip(s, n) =
        [s EXCEPT !.files = Left(s, n),
                  !.disk = [i \in Kept(s, n) |-> s.disk[i]],
                  !.fire_index = IF Left(s, n) = <<>> THEN None ELSE Left(s, n)[1],
                  !.faulty = @ \/ n > 0]
  BY <1>1 DEF Skip, Left, Kept
<1> QED
  BY <1>2, <1>3 DEF IsCache, Skipped

IsLoaded(t, s, n) ==
  /\ t.files = Left(s, n)
  /\ t.disk = [i \in Kept(s, n) |-> s.disk[i]]
  /\ t.fire_index = IF Left(s, n) = <<>> THEN None ELSE Left(s, n)[1]
  /\ t.fire_buffer = IF Left(s, n) = <<>> THEN <<>> ELSE s.disk[Left(s, n)[1]]
  /\ t.fire_offset = 1
  /\ t.buffer = s.buffer
  /\ t.overtook = s.overtook /\ t.raised = s.raised /\ t.stale = FALSE
  /\ t.faulty = (s.faulty \/ n > 0)
  /\ t = [files |-> t.files, buffer |-> t.buffer, fire_buffer |-> t.fire_buffer,
          fire_offset |-> t.fire_offset, fire_index |-> t.fire_index, disk |-> t.disk,
          faulty |-> t.faulty, stale |-> t.stale, raised |-> t.raised, overtook |-> t.overtook]

LEMMA LoadNextParts ==
  ASSUME NEW k \in Nat, k < IndexMod, NEW s, Sound(s, k),
         NEW n \in 0 .. Len(Unfired(s)), s.files # <<>>
  PROVE  IsLoaded(LoadNext(s, n), s, n)
<1>1. Skip(s, n) = Skipped(s, n)
  BY SkipIs
<1>2. Unfired(s) = Tail(s.files) /\ (Left(s, n) # <<>> => Head(Left(s, n)) = Left(s, n)[1])
  BY LoadNextLeft
<1>3. LoadNext(s, n) =
        [Skipped(s, n) EXCEPT
           !.fire_buffer = IF Left(s, n) = <<>> THEN <<>> ELSE s.disk[Left(s, n)[1]],
           !.fire_offset = 1,
           !.stale = FALSE]
  BY <1>1, <1>2 DEF LoadNext, Left
<1> QED
  BY ZenonT(60), <1>3 DEF Skipped, IsLoaded

LEMMA LoadNextFaulty ==
  ASSUME NEW k \in Nat, k < IndexMod, NEW s, Sound(s, k),
         NEW n \in 0 .. Len(Unfired(s)), s.files # <<>>
  PROVE  /\ LoadNext(s, n).faulty \in BOOLEAN
         /\ ~LoadNext(s, n).faulty => ~s.faulty /\ n = 0
<1>1. IsCache(s)
  BY DEF Sound
<1>2. IsLoaded(LoadNext(s, n), s, n)
  BY LoadNextParts
<1>3. LoadNext(s, n).faulty = (s.faulty \/ n > 0)
  BY Zenon, <1>2 DEF IsLoaded
<1>4. n > 0 \/ n = 0
  <2>1. Unfired(s) \in Seq(Index)
    BY <1>1 DEF IsCache, Unfired
  <2> QED BY <2>1
<1>5. LoadNext(s, n).faulty \in BOOLEAN
  BY Zenon, <1>3
<1>6. ~LoadNext(s, n).faulty => ~s.faulty /\ n = 0
  BY Zenon, <1>3, <1>4
<1> QED BY <1>5, <1>6

(* Loading the next file keeps the cache sound, leaves the tail alone and  *)
(* frees the place of a file.                                              *)
LEMMA LoadNextSound ==
  ASSUME NEW k \in Nat, k < IndexMod, NEW s, Sound(s, k),
         NEW n \in 0 .. Len(Unfired(s)), s.files # <<>>
  PROVE  /\ Sound(LoadNext(s, n), k - 1)
         /\ OffsetOK(LoadNext(s, n))
         /\ LoadNext(s, n).buffer = s.buffer
<1> DEFINE left == Left(s, n)
           kept == Kept(s, n)
           t    == LoadNext(s, n)
<1>1. /\ IsCache(s)
      /\ s.files \in Seq(Index)
      /\ DOMAIN s.disk \subseteq Index
      /\ s.disk \in [DOMAIN s.disk -> Seq(Data)]
  BY DEF Sound, IsCache
<1>3. n + 1 <= Len(s.files)
  BY LoadNextLeft
<1>4. /\ left \in Seq(Index)
      /\ Len(left) = Len(s.files) - 1 - n
      /\ \A i \in 1 .. Len(left) : left[i] = s.files[n + 1 + i]
  BY LoadNextLeft
<1>5. kept = ToData(left) /\ kept \subseteq DOMAIN s.disk
  BY LoadNextLeft
<1>6. IsLoaded(t, s, n)
  BY LoadNextParts
<1>7. left # <<>> => Head(left) = left[1] /\ left[1] \in kept
  BY LoadNextLeft
<1> HIDE DEF left, kept, t
<1>8. /\ t.files = left /\ t.disk = [i \in kept |-> s.disk[i]]
      /\ t.fire_index = IF left = <<>> THEN None ELSE left[1]
      /\ t.fire_buffer = IF left = <<>> THEN <<>> ELSE s.disk[left[1]]
      /\ t.fire_offset = 1
      /\ t.buffer = s.buffer
      /\ t.overtook = s.overtook /\ t.raised = s.raised /\ t.stale = FALSE
  BY <1>6 DEF IsLoaded, left, kept
<1>9. IsCache(t)
  <2>1. [i \in kept |-> s.disk[i]] \in [kept -> Seq(Data)] /\ kept \in SUBSET Index
    BY <1>1, <1>4, <1>5
  <2>2. left # <<>> => left[1] \in Index /\ s.disk[left[1]] \in Seq(Data)
    BY <1>1, <1>5, <1>7
  <2>3. DOMAIN t.disk = kept /\ t.disk \in [DOMAIN t.disk -> Seq(Data)]
    BY <1>8, <2>1
  <2>4. /\ s.fire_index \in Index \cup {None}
        /\ 1 \in Nat \ {0}
        /\ <<>> \in Seq(Data)
        /\ t.faulty \in BOOLEAN /\ t.overtook \in SUBSET Data
        /\ t.stale \in BOOLEAN /\ t.raised \in Nat
    <3>1. t.faulty \in BOOLEAN
      BY LoadNextFaulty DEF t
    <3>2. /\ s.fire_index \in Index \cup {None} /\ s.overtook \in SUBSET Data /\ s.raised \in Nat
          /\ 1 \in Nat \ {0} /\ <<>> \in Seq(Data) /\ FALSE \in BOOLEAN
      BY <1>1 DEF IsCache
    <3> QED BY Zenon, <1>8, <3>1, <3>2
  <2>5. t = [files |-> t.files, buffer |-> t.buffer, fire_buffer |-> t.fire_buffer,
             fire_offset |-> t.fire_offset, fire_index |-> t.fire_index, disk |-> t.disk,
             faulty |-> t.faulty, stale |-> t.stale, raised |-> t.raised, overtook |-> t.overtook]
    BY <1>6 DEF IsLoaded
  <2> HIDE DEF left, kept, t
  <2> QED BY <1>1, <1>4, <1>8, <2>1, <2>2, <2>3, <2>4, <2>5 DEF IsCache
<1>10. \A i \in 1 .. Len(left) : left[i] = (left[1] + (i - 1)) % IndexMod
  <2> SUFFICES ASSUME NEW i \in 1 .. Len(left)
               PROVE  left[i] = (left[1] + (i - 1)) % IndexMod
    OBVIOUS
  <2>1. /\ left[i] = (s.files[1] + ((n + 1) + (i - 1))) % IndexMod
        /\ left[1] = (s.files[1] + (n + 1)) % IndexMod
    <3>1. /\ Len(s.files) \in Nat /\ 1 \in 1 .. Len(left)
          /\ n + 1 + i \in 1 .. Len(s.files) /\ n + 1 + 1 \in 1 .. Len(s.files)
      BY <1>1, <1>3, <1>4
    <3>2. /\ left[i] = s.files[n + 1 + i] /\ left[1] = s.files[n + 1 + 1]
      BY <1>4, <3>1
    <3>3. \A y : \A x \in 1 .. Len(s.files) : x - 1 = y => s.files[x] = (s.files[1] + y) % IndexMod
      BY DEF Sound
    <3>4. (n + 1 + i) - 1 = (n + 1) + (i - 1) /\ (n + 1 + 1) - 1 = n + 1
      OBVIOUS
    <3>5. s.files[n + 1 + i] = (s.files[1] + ((n + 1) + (i - 1))) % IndexMod
      BY <3>1, <3>3, <3>4
    <3>6. s.files[n + 1 + 1] = (s.files[1] + (n + 1)) % IndexMod
      BY <3>1, <3>3, <3>4
    <3> QED BY <3>2, <3>5, <3>6
  <2>2. /\ (n + 1) + (i - 1) < IndexMod
        /\ s.files[1] \in 0 .. IndexMod - 1
    <3>1. Len(s.files) < IndexMod
      BY <1>1, IndexRange DEF Sound
    <3>2. n + i < Len(s.files)
      BY <1>3, <1>4
    <3>3. s.files[1] \in Index
      BY <1>1
    <3> QED BY <1>1, <1>3, <3>1, <3>2, <3>3, IndexRange DEF Index
  <2>3. /\ n + 1 \in Nat /\ i - 1 \in Nat
        /\ IndexMod \in Nat /\ IndexMod > 0
    BY <1>3, <1>4, IndexRange
  <2>4. (s.files[1] + ((n + 1) + (i - 1))) % IndexMod
        = (((s.files[1] + (n + 1)) % IndexMod) + (i - 1)) % IndexMod
    BY <2>2, <2>3, ShiftWrap
  <2> QED BY <2>1, <2>4
<1>11. /\ \A i \in DOMAIN t.disk : Len(t.disk[i]) \in 1 .. Room(t)
       /\ Len(t.fire_buffer) <= Room(t)
  <2>1. Room(t) = Room(s) /\ Room(t) \in Nat
    BY <1>8, <1>9, FileBufferAssumption DEF Room, IsCache
  <2>2. \A i \in DOMAIN t.disk : Len(t.disk[i]) \in 1 .. Room(t)
    BY <1>5, <1>8, <2>1 DEF Sound
  <2>3. CASE left = <<>>
    <3>1. t.fire_buffer = <<>> /\ Len(<<>>) = 0
      BY <1>8, <2>3
    <3> QED BY ONLY <2>1, <2>2, <3>1
  <2>4. CASE left # <<>>
    BY <1>5, <1>7, <1>8, <2>1, <2>4 DEF Sound
  <2> QED BY <2>2, <2>3, <2>4
<1>12. Len(left) <= k - 1
  BY <1>3, <1>4 DEF Sound
<1>13. Sound(t, k - 1)
  <2>1. t.raised # 0 => t.faulty
    <3>1. t.faulty = (s.faulty \/ n > 0)
      BY <1>6 DEF IsLoaded
    <3>2. s.raised # 0 => s.faulty
      BY DEF Sound
    <3> QED BY Zenon, <1>8, <3>1, <3>2
  <2> QED BY SMTT(30), <1>5, <1>7, <1>8, <1>9, <1>10, <1>11, <1>12, <2>1 DEF Sound
<1>14. OffsetOK(t)
  <2>1. left # <<>> => Len(s.disk[left[1]]) >= 1
    BY SMTT(30), <1>5, <1>7 DEF Sound
  <2> QED BY <2>1, <1>8 DEF OffsetOK
<1> QED BY <1>8, <1>13, <1>14 DEF t

(* A load that raises an error: the files are those of a load that goes    *)
(* well, the fire buffer stays, and the tail also if it was in a push.     *)
IsRaised(t, s, n, tail, r) ==
  /\ IsCache(t)
  /\ t.files = LoadNext(s, n).files /\ t.disk = LoadNext(s, n).disk
  /\ t.fire_index = LoadNext(s, n).fire_index
  /\ t.fire_buffer = s.fire_buffer /\ t.fire_offset = s.fire_offset
  /\ t.buffer = tail /\ t.raised = r /\ t.overtook = s.overtook
  /\ t.faulty = TRUE /\ t.stale = TRUE

LEMMA LoadRaisesParts ==
  ASSUME NEW k \in Nat, k < IndexMod, NEW s, Sound(s, k),
         NEW n \in 0 .. Len(Unfired(s)), s.files # <<>>, NEW tail \in Seq(Data)
  PROVE  /\ IsRaised(LoadRaises(s, n), s, n, s.buffer, s.raised)
         /\ IsRaised(PushRaises(s, n, tail), s, n, tail, s.raised + 1)
<1> DEFINE u == LoadRaises(s, n)
           l == LoadNext(s, n)
<1>1. Skip(s, n) = Skipped(s, n)
  BY SkipIs
<1>2. IsLoaded(l, s, n) /\ IsCache(l) /\ IsCache(s)
  BY LoadNextParts, LoadNextSound DEF Sound
<1>3. /\ l.files = Left(s, n)
      /\ l.disk = [i \in Kept(s, n) |-> s.disk[i]]
      /\ l.fire_index = IF Left(s, n) = <<>> THEN None ELSE Left(s, n)[1]
  BY <1>2 DEF IsLoaded
<1>4. u = [Skipped(s, n) EXCEPT !.faulty = TRUE, !.stale = TRUE]
  BY <1>1 DEF LoadRaises
<1> HIDE DEF l
<1>5. u = [files |-> l.files, buffer |-> s.buffer, fire_buffer |-> s.fire_buffer,
           fire_offset |-> s.fire_offset, fire_index |-> l.fire_index,
           disk |-> l.disk, faulty |-> TRUE, stale |-> TRUE,
           raised |-> s.raised, overtook |-> s.overtook]
  BY <1>3, <1>4 DEF Skipped
<1> HIDE DEF u
<1>6. /\ u.files = l.files /\ u.disk = l.disk /\ u.fire_index = l.fire_index
      /\ u.fire_buffer = s.fire_buffer /\ u.fire_offset = s.fire_offset
      /\ u.buffer = s.buffer /\ u.raised = s.raised /\ u.overtook = s.overtook
      /\ u.faulty = TRUE /\ u.stale = TRUE
  BY ONLY <1>5
<1>7. IsCache(u)
  BY <1>2, <1>5, <1>6 DEF IsCache
<1>8. IsRaised(u, s, n, s.buffer, s.raised)
  BY <1>6, <1>7 DEF IsRaised, l
<1>9. IsRaised(PushRaises(s, n, tail), s, n, tail, s.raised + 1)
  <2> DEFINE p == PushRaises(s, n, tail)
  <2>1. p = [u EXCEPT !.buffer = tail, !.raised = u.raised + 1]
    BY DEF PushRaises, u
  <2> HIDE DEF p
  <2>2. u.raised + 1 \in Nat
    BY <1>7 DEF IsCache
  <2>3. IsCache(p)
    BY <1>7, <2>1, <2>2 DEF IsCache
  <2>4. /\ p.files = u.files /\ p.disk = u.disk /\ p.fire_index = u.fire_index
        /\ p.fire_buffer = u.fire_buffer /\ p.fire_offset = u.fire_offset
        /\ p.buffer = tail /\ p.raised = u.raised + 1 /\ p.overtook = u.overtook
        /\ p.faulty = u.faulty /\ p.stale = u.stale
    BY <1>7, <2>1 DEF IsCache
  <2> QED BY <1>6, <2>3, <2>4 DEF IsRaised, l, p
<1> QED BY <1>8, <1>9 DEF u

(* It keeps the cache sound, and may leave the tail as it was, with room   *)
(* for a datum more.                                                       *)
LEMMA LoadRaisesSound ==
  ASSUME NEW k \in Nat, k < IndexMod, NEW s, Sound(s, k),
         NEW n \in 0 .. Len(Unfired(s)), n < Len(Unfired(s)), s.files # <<>>,
         NEW b \in Seq(Data), NEW r \in Nat, r >= s.raised,
         NEW t, IsRaised(t, s, n, b, r)
  PROVE  /\ Sound(t, k - 1) /\ t.buffer = b /\ t.raised = r
         /\ t.stale /\ (OffsetOK(s) => OffsetOK(t))
         /\ t.files # <<>>
<1> DEFINE l == LoadNext(s, n)
<1>1. IsCache(s) /\ s.raised \in Nat /\ s.fire_buffer \in Seq(Data)
  BY DEF Sound, IsCache
<1>3. Sound(l, k - 1) /\ IsCache(l) /\ l.raised = s.raised /\ l.stale = FALSE
  <2>1. IsLoaded(l, s, n)
    BY LoadNextParts
  <2>2. Sound(l, k - 1)
    BY LoadNextSound
  <2> QED BY <2>1, <2>2 DEF IsLoaded, Sound
<1>4. l.files # <<>>
  <2>1. IsLoaded(l, s, n)
    BY LoadNextParts
  <2>2. /\ Unfired(s) = Tail(s.files) /\ Left(s, n) \in Seq(Index)
        /\ Len(Left(s, n)) = Len(s.files) - 1 - n
    BY LoadNextLeft
  <2>3. Len(Unfired(s)) = Len(s.files) - 1 /\ Len(s.files) \in Nat /\ n \in Nat
    BY <1>1, <2>2 DEF IsCache
  <2>4. Len(Left(s, n)) > 0
    BY <2>2, <2>3
  <2> QED BY <2>1, <2>2, <2>4 DEF IsLoaded
<1> HIDE DEF l
<1>5. /\ t.files = l.files /\ t.buffer = b /\ t.fire_buffer = s.fire_buffer
      /\ t.fire_offset = s.fire_offset /\ t.fire_index = l.fire_index /\ t.disk = l.disk
      /\ t.faulty = TRUE /\ t.stale = TRUE /\ t.raised = r
  BY DEF IsRaised, l
<1>6. IsCache(t)
  BY DEF IsRaised
<1>7. /\ \A i \in DOMAIN t.disk : Len(t.disk[i]) \in 1 .. Room(t)
      /\ Len(t.fire_buffer) <= Room(t)
  <2>0. PerFile \in Nat
    BY FileBufferAssumption
  <2>1. /\ Room(s) \in Nat /\ Room(l) = Room(s) /\ Room(t) \in Nat /\ Room(s) <= Room(t)
    <3> DEFINE R == s.raised
    <3>1. R \in Nat /\ r >= R /\ r \in Nat
      BY <1>1
    <3>2. Room(s) = PerFile + R /\ Room(l) = PerFile + R /\ Room(t) = PerFile + r
      BY <1>3, <1>5 DEF Room
    <3> HIDE DEF R
    <3> QED BY ONLY <2>0, <3>1, <3>2
  <2>2. Len(s.fire_buffer) <= Room(s) /\ Len(s.fire_buffer) \in Nat
    BY <1>1 DEF Sound
  <2>3. \A i \in DOMAIN l.disk : Len(l.disk[i]) \in 1 .. Room(l)
    BY <1>3 DEF Sound
  <2>4. t.disk = l.disk /\ t.fire_buffer = s.fire_buffer
    BY <1>5
  <2>5. \A i \in DOMAIN t.disk : Len(t.disk[i]) \in 1 .. Room(t)
    BY ONLY <2>1, <2>3, <2>4
  <2> QED BY ONLY <2>1, <2>2, <2>4, <2>5
<1>8. Sound(t, k - 1)
  BY <1>3, <1>4, <1>5, <1>6, <1>7 DEF Sound
<1>9. OffsetOK(s) => OffsetOK(t)
  BY <1>5 DEF OffsetOK
<1> QED BY <1>4, <1>5, <1>8, <1>9

(* Listing a new file behind the others, which do not use up the indices.  *)
LEMMA AddFileSound ==
  ASSUME NEW s, Sound(s, MaxFiles), Len(s.buffer) \in 1 .. Room(s)
  PROVE  /\ Sound(AddFile(s, NextIndex(s)), MaxFiles + 1)
         /\ KeepsOffset(s, AddFile(s, NextIndex(s)))
         /\ AddFile(s, NextIndex(s)).raised = s.raised
         /\ AddFile(s, NextIndex(s)).buffer = <<>>
         /\ AddFile(s, NextIndex(s)).files # <<>>
         /\ Len(AddFile(s, NextIndex(s)).files) = Len(s.files) + 1
<1> DEFINE index == NextIndex(s)
           disk  == [i \in DOMAIN s.disk \cup {index} |->
                       IF i = index THEN s.buffer ELSE s.disk[i]]
           t     == AddFile(s, index)
<1>1. /\ IsCache(s)
      /\ s.files \in Seq(Index)
      /\ s.buffer \in Seq(Data)
      /\ DOMAIN s.disk \subseteq Index
      /\ s.disk \in [DOMAIN s.disk -> Seq(Data)]
      /\ Len(s.files) <= MaxFiles
  BY DEF Sound, IsCache
<1>2. index \in Index
  <2>1. s.fire_index \in Index \cup {None}
    BY <1>1 DEF IsCache
  <2>2. (IF s.fire_index = None THEN 1 ELSE s.fire_index) + Len(s.files) \in Nat
    BY <1>1, <2>1 DEF Index, None
  <2> QED BY <2>2, IndexRange DEF NextIndex, Index
<1>3. CASE s.files = <<>>
  <2>1. t = [s EXCEPT !.files = Append(s.files, index), !.disk = disk,
                      !.buffer = <<>>, !.fire_index = index,
                      !.fire_buffer = s.buffer, !.fire_offset = 1]
    BY <1>1, <1>3 DEF AddFile, Sound, IsCache
  <2>2. /\ Append(s.files, index) = <<index>>
        /\ disk = [i \in {index} |-> s.buffer]
    BY <1>1, <1>3 DEF Sound, ToData
  <2>3. /\ t.files = <<index>> /\ t.disk = [i \in {index} |-> s.buffer]
        /\ t.fire_index = index /\ t.fire_buffer = s.buffer
        /\ t.fire_offset = 1 /\ t.buffer = <<>>
        /\ t.faulty = s.faulty /\ t.stale = s.stale /\ t.raised = s.raised
    BY <1>1, <2>1, <2>2 DEF IsCache
  <2>4. IsCache(t)
    <3>1. [i \in {index} |-> s.buffer] \in UNION {[D -> Seq(Data)] : D \in SUBSET Index}
      <4>1. {index} \in SUBSET Index
        BY <1>2
      <4> HIDE DEF index
      <4>2. [i \in {index} |-> s.buffer] \in [{index} -> Seq(Data)]
        BY <1>1
      <4> QED BY <4>1, <4>2
    <3>2. <<index>> \in Seq(Index) /\ <<>> \in Seq(Data) /\ 1 \in Nat \ {0}
      BY <1>2
    <3>3. t \in [files : Seq(Index), buffer : Seq(Data), fire_buffer : Seq(Data),
                 fire_offset : Nat \ {0}, fire_index : Index \cup {None},
                 disk : UNION {[D -> Seq(Data)] : D \in SUBSET Index},
                 faulty : BOOLEAN, stale : BOOLEAN, raised : Nat, overtook : SUBSET Data]
      <4> DEFINE stored == [i \in {index} |-> s.buffer]
      <4>1. disk = stored
        BY <2>2
      <4> HIDE DEF index, disk, stored
      <4>2. t = [s EXCEPT !.files = <<index>>, !.disk = stored, !.buffer = <<>>,
                          !.fire_index = index, !.fire_buffer = s.buffer, !.fire_offset = 1]
        BY <2>1, <2>2, <4>1
      <4> HIDE DEF t
      <4>3. t = [files |-> <<index>>, buffer |-> <<>>, fire_buffer |-> s.buffer,
                 fire_offset |-> 1, fire_index |-> index, disk |-> stored,
                 faulty |-> s.faulty, stale |-> s.stale, raised |-> s.raised, overtook |-> s.overtook]
        BY <1>1, <4>2 DEF IsCache
      <4>4. stored \in UNION {[D -> Seq(Data)] : D \in SUBSET Index}
        BY <3>1 DEF stored
      <4>5. s.faulty \in BOOLEAN /\ s.stale \in BOOLEAN /\ s.raised \in Nat /\ s.overtook \in SUBSET Data
        BY <1>1 DEF IsCache
      <4> QED BY <1>1, <1>2, <3>2, <4>3, <4>4, <4>5
    <3> QED BY <3>3 DEF IsCache
  <2>5. ToData(<<index>>) = {index}
    BY DEF ToData
  <2>6. index = (index + (1 - 1)) % IndexMod
    BY <1>2, IndexRange, WrapOnce DEF Index
  <2> HIDE DEF t
  <2>7. Sound(t, MaxFiles + 1)
    <3>1. Room(t) = Room(s) /\ (t.stale \/ t.raised # 0 => t.faulty)
      BY <2>3 DEF Sound, Room
    <3> QED BY <2>3, <2>4, <2>5, <2>6, <3>1, IndexRange DEF Sound
  <2> QED BY <1>3, <2>3, <2>7 DEF OffsetOK, KeepsOffset, t
<1>4. CASE s.files # <<>>
  <2>1. /\ s.fire_index = s.files[1]
        /\ s.files[1] \in Index
        /\ s.fire_index # None
    <3>1. s.files[1] \in Index
      BY <1>1, <1>4
    <3>2. s.fire_index = s.files[1]
      BY <1>4 DEF Sound
    <3> QED BY <3>1, <3>2 DEF Index, None
  <2>2. t = [s EXCEPT !.files = Append(s.files, index), !.disk = disk,
                      !.buffer = <<>>]
    BY <2>1 DEF AddFile
  <2>3. /\ t.files = Append(s.files, index) /\ t.disk = disk
        /\ t.fire_index = s.fire_index /\ t.fire_buffer = s.fire_buffer
        /\ t.fire_offset = s.fire_offset /\ t.buffer = <<>>
        /\ t.faulty = s.faulty /\ t.overtook = s.overtook
        /\ t.stale = s.stale /\ t.raised = s.raised
    BY <1>1, <2>2 DEF IsCache
  <2>4. IsCache(t)
    <3>1. disk \in [DOMAIN s.disk \cup {index} -> Seq(Data)]
      BY <1>1
    <3>2. DOMAIN disk \subseteq Index /\ disk \in [DOMAIN disk -> Seq(Data)]
      BY <1>1, <1>2, <3>1
    <3>3. Append(s.files, index) \in Seq(Index) /\ <<>> \in Seq(Data)
      BY <1>1, <1>2
    <3>4. t = [files |-> t.files, buffer |-> t.buffer, fire_buffer |-> t.fire_buffer,
               fire_offset |-> t.fire_offset, fire_index |-> t.fire_index, disk |-> t.disk,
               faulty |-> t.faulty, stale |-> t.stale, raised |-> t.raised, overtook |-> t.overtook]
      <4> HIDE DEF index, disk
      <4> QED BY <1>1, <2>2 DEF IsCache
    <3> HIDE DEF index, disk, t
    <3> QED BY <1>1, <2>3, <3>2, <3>3, <3>4 DEF IsCache
  <2>5. index = (s.files[1] + Len(s.files)) % IndexMod
    BY <2>1 DEF NextIndex
  <2>6. index # s.files[1]
    <3>1. Len(s.files) \in 1 .. MaxFiles
      BY <1>1, <1>4
    <3>2. s.files[1] \in Nat /\ s.files[1] < IndexMod
      BY <2>1, IndexRange DEF Index
    <3>4. (s.files[1] + Len(s.files)) % IndexMod # s.files[1]
      BY <3>1, <3>2, OtherIndex
    <3> QED BY <2>5, <3>4
  <2>7. \A i \in 1 .. Len(t.files) : t.files[i] = (t.files[1] + (i - 1)) % IndexMod
    <3>1. /\ Len(t.files) = Len(s.files) + 1
          /\ t.files[Len(s.files) + 1] = index
          /\ \A i \in 1 .. Len(s.files) : t.files[i] = s.files[i]
          /\ Len(s.files) \in Nat /\ Len(s.files) >= 1
      <4> HIDE DEF index, t
      <4> QED BY <1>1, <1>2, <1>4, <2>3
    <3> HIDE DEF index, t
    <3> SUFFICES ASSUME NEW i \in 1 .. Len(t.files)
                 PROVE  t.files[i] = (t.files[1] + (i - 1)) % IndexMod
      OBVIOUS
    <3>2. t.files[1] = s.files[1]
      BY <3>1
    <3>3. CASE i \in 1 .. Len(s.files)
      <4>1. s.files[i] = (s.files[1] + (i - 1)) % IndexMod
        BY <3>3 DEF Sound
      <4> QED BY ONLY <3>1, <3>2, <3>3, <4>1
    <3>4. CASE i = Len(s.files) + 1
      <4>1. i - 1 = Len(s.files)
        BY <3>1, <3>4
      <4> QED BY ONLY <2>5, <3>1, <3>2, <3>4, <4>1
    <3> QED BY <3>1, <3>3, <3>4
  <2>8. DOMAIN t.disk = ToData(t.files)
    BY <1>1, <2>3 DEF Sound, ToData
  <2>9. /\ \A i \in DOMAIN t.disk : Len(t.disk[i]) \in 1 .. Room(t)
        /\ Len(t.fire_buffer) <= Room(t) /\ (t.stale \/ t.raised # 0 => t.faulty)
    <3>1. Room(t) = Room(s)
      BY <2>3 DEF Room
    <3> QED BY <2>3, <3>1 DEF Sound
  <2>10. (t.stale \/ t.fire_buffer = t.disk[t.files[1]]) /\ t.fire_index = t.files[1]
    BY <1>1, <1>4, <2>1, <2>3, <2>6 DEF Sound, ToData
  <2>11. Len(t.files) = Len(s.files) + 1 /\ t.files # <<>>
    <3> HIDE DEF index, t
    <3>1. Len(t.files) = Len(s.files) + 1 /\ Len(s.files) \in Nat
      BY <1>1, <1>2, <2>3
    <3> QED BY <3>1
  <2> HIDE DEF t
  <2>12. Sound(t, MaxFiles + 1)
    BY <1>1, <2>4, <2>7, <2>8, <2>9, <2>10, <2>11, IndexRange DEF Sound
  <2> QED BY <1>4, <2>3, <2>11, <2>12 DEF OffsetOK, KeepsOffset, t
<1> QED BY <1>3, <1>4

(* Every result of dumping a tail of 1 .. Room(s) data is sound again.     *)
LEMMA DumpsSound ==
  ASSUME NEW s, Sound(s, MaxFiles), Len(s.buffer) \in 1 .. Room(s),
         NEW t \in Dumps(s)
  PROVE  /\ Sound(t, MaxFiles) /\ KeepsOffset(s, t) /\ Len(t.buffer) < Room(t)
         /\ t.raised \in {s.raised, s.raised + 1}
         /\ t.raised = s.raised => t.buffer = <<>>
<1> DEFINE added == AddFile(s, NextIndex(s))
<1>0. /\ IsCache(s) /\ <<>> \in Seq(Data) /\ s.raised \in Nat /\ s.buffer \in Seq(Data)
      /\ PerFile \in Nat /\ PerFile > 0
  BY FileBufferAssumption DEF Sound, IsCache
<1>1. /\ Sound(added, MaxFiles + 1)
      /\ KeepsOffset(s, added)
      /\ added.buffer = <<>>
      /\ added.files # <<>>
      /\ added.raised = s.raised
      /\ Len(added.files) = Len(s.files) + 1
  BY AddFileSound
<1>s. MaxFiles + 1 \in Nat /\ MaxFiles + 1 < IndexMod /\ (MaxFiles + 1) - 1 = MaxFiles
  BY IndexRange
<1>n. ASSUME NEW n \in Unreadable(added)
      PROVE  n \in 0 .. Len(Unfired(added))
  <2>1. Unfired(added) \in Seq(Index)
    BY <1>1 DEF Sound, IsCache, Unfired
  <2> QED BY <2>1 DEF Unreadable
<1>2. CASE t = [s EXCEPT !.buffer = <<>>, !.faulty = TRUE]
  <2>2. IsCache(t) /\ t.buffer = <<>> /\ t.faulty = TRUE
        /\ t.files = s.files /\ t.disk = s.disk /\ t.fire_index = s.fire_index
        /\ t.fire_buffer = s.fire_buffer /\ t.fire_offset = s.fire_offset
        /\ t.stale = s.stale /\ t.raised = s.raised
    BY <1>0, <1>2 DEF IsCache
  <2>3. Room(t) = Room(s) /\ Len(t.buffer) < Room(t)
    BY <1>0, <2>2 DEF Room
  <2> QED BY <2>2, <2>3 DEF Sound, OffsetOK, KeepsOffset
<1>3. ASSUME NEW n \in Unreadable(added), t = LoadNext(added, n)
      PROVE  /\ Sound(t, MaxFiles) /\ OffsetOK(t) /\ t.buffer = <<>> /\ t.raised = s.raised
  <2>1. n \in 0 .. Len(Unfired(added))
    BY <1>n
  <2> HIDE DEF added
  <2>2. Sound(LoadNext(added, n), MaxFiles) /\ OffsetOK(LoadNext(added, n))
        /\ LoadNext(added, n).buffer = added.buffer
    BY <1>1, <1>s, <2>1, LoadNextSound
  <2>3. IsLoaded(LoadNext(added, n), added, n)
    BY <1>1, <1>s, <2>1, LoadNextParts
  <2> QED BY <1>1, <1>3, <2>2, <2>3 DEF IsLoaded
<1>4. ASSUME NEW n \in Corrupt(added), t = PushRaises(added, n, s.buffer)
      PROVE  /\ Sound(t, MaxFiles) /\ (OffsetOK(added) => OffsetOK(t)) /\ t.stale
             /\ t.buffer = s.buffer /\ t.raised = s.raised + 1
  <2>1. n \in 0 .. Len(Unfired(added)) /\ n < Len(Unfired(added))
    BY <1>n DEF Corrupt
  <2>2. s.raised + 1 \in Nat /\ s.raised + 1 >= added.raised /\ added.raised + 1 = s.raised + 1
    BY <1>0, <1>1
  <2> HIDE DEF added
  <2>3. IsRaised(t, added, n, s.buffer, added.raised + 1)
    BY <1>0, <1>1, <1>s, <1>4, <2>1, LoadRaisesParts
  <2>4. IsRaised(t, added, n, s.buffer, s.raised + 1)
    BY <2>2, <2>3
  <2> DEFINE K == MaxFiles + 1
             r == s.raised + 1
  <2>5. /\ K \in Nat /\ K < IndexMod /\ K - 1 = MaxFiles /\ Sound(added, K)
        /\ r \in Nat /\ r >= added.raised /\ IsRaised(t, added, n, s.buffer, r)
    BY <1>1, <1>s, <2>2, <2>4
  <2> HIDE DEF K, r
  <2>6. /\ Sound(t, K - 1) /\ (OffsetOK(added) => OffsetOK(t)) /\ t.stale
        /\ t.buffer = s.buffer /\ t.raised = r
    <3>1. added.files # <<>> /\ s.buffer \in Seq(Data)
      BY <1>0, <1>1
    <3> QED BY ONLY <2>1, <2>5, <3>1, LoadRaisesSound
  <2> QED BY <2>5, <2>6 DEF r
<1>5. CASE \E n \in Unreadable(added) : t = LoadNext(added, n)
  <2>1. Sound(t, MaxFiles) /\ OffsetOK(t) /\ t.buffer = <<>> /\ t.raised = s.raised
    BY <1>3, <1>5
  <2>2. Len(t.buffer) < Room(t)
    BY <1>0, <2>1 DEF Room
  <2> QED BY <2>1, <2>2 DEF KeepsOffset
<1>6. CASE \E n \in Corrupt(added) : t = PushRaises(added, n, s.buffer)
  <2>0. PICK n \in Corrupt(added) : t = PushRaises(added, n, s.buffer)
    BY <1>6
  <2>1. /\ Sound(t, MaxFiles) /\ (OffsetOK(added) => OffsetOK(t)) /\ t.stale
        /\ t.buffer = s.buffer /\ t.raised = s.raised + 1
    BY <1>4, <2>0
  <2>2. Len(t.buffer) < Room(t)
    BY <1>0, <2>1 DEF Room
  <2>3. t.raised # s.raised
    BY <1>0, <2>1
  <2> HIDE DEF added
  <2> QED BY <1>1, <2>1, <2>2, <2>3 DEF KeepsOffset
<1>7. CASE ~(Len(added.files) > MaxFiles) /\ t = added
  <2>1. Len(added.files) <= MaxFiles
    BY <1>1, <1>7, IndexRange DEF Sound, IsCache
  <2>2. Len(t.buffer) < Room(t)
    <3> HIDE DEF added
    <3> QED BY <1>0, <1>1, <1>7 DEF Room
  <2> HIDE DEF added
  <2> QED BY <1>1, <1>7, <2>1, <2>2 DEF Sound
<1> QED
  <2>1. \/ t = [s EXCEPT !.buffer = <<>>, !.faulty = TRUE]
        \/ \E n \in Unreadable(added) : t = LoadNext(added, n)
        \/ \E n \in Corrupt(added) : t = PushRaises(added, n, s.buffer)
        \/ ~(Len(added.files) > MaxFiles) /\ t = added
    BY Zenon DEF Dumps
  <2> HIDE DEF added
  <2> QED BY <1>2, <1>5, <1>6, <1>7, <2>1

LEMMA PushesSound ==
  ASSUME NEW s, Sound(s, MaxFiles), Len(s.buffer) < Room(s),
         NEW d \in Data, NEW t \in Pushes(s, d)
  PROVE  /\ Sound(t, MaxFiles) /\ KeepsOffset(s, t) /\ Len(t.buffer) < Room(t)
         /\ t.raised \in {s.raised, s.raised + 1}
<1> DEFINE a == [s EXCEPT !.buffer = Append(s.buffer, d)]
<1>1. /\ IsCache(s)
      /\ s.buffer \in Seq(Data)
      /\ Append(s.buffer, d) \in Seq(Data)
      /\ Len(Append(s.buffer, d)) = Len(s.buffer) + 1
      /\ s.raised \in Nat
  BY DEF Sound, IsCache
<1>2. /\ IsCache(a)
      /\ a.buffer = Append(s.buffer, d)
      /\ a.files = s.files /\ a.disk = s.disk /\ a.fire_index = s.fire_index
      /\ a.fire_buffer = s.fire_buffer /\ a.fire_offset = s.fire_offset
      /\ a.faulty = s.faulty /\ a.stale = s.stale /\ a.raised = s.raised
  BY <1>1 DEF IsCache
<1>3. /\ PerFile \in Nat /\ PerFile > 0 /\ Room(a) = Room(s) /\ Len(a.buffer) \in 1 .. Room(a)
      /\ PerFile <= Room(a)
  <2> DEFINE L == Len(s.buffer)
             R == s.raised
  <2>1. PerFile \in Nat /\ PerFile > 0 /\ L \in Nat /\ R \in Nat
    BY <1>1, FileBufferAssumption
  <2>2. Len(a.buffer) = L + 1 /\ Room(a) = PerFile + R /\ Room(s) = PerFile + R /\ L < Room(s)
    BY <1>1, <1>2 DEF Room
  <2> HIDE DEF a, L, R
  <2> QED BY <2>1, <2>2
<1>4. Sound(a, MaxFiles) /\ KeepsOffset(s, a) /\ (KeepsOffset(a, t) => KeepsOffset(s, t))
  BY <1>2, <1>3 DEF Sound, OffsetOK, KeepsOffset
<1>5. t = a \/ t \in Dumps(a)
  BY DEF Pushes
<1>6. CASE t \in Dumps(a)
  <2> HIDE DEF a
  <2>1. /\ Sound(t, MaxFiles) /\ KeepsOffset(a, t) /\ Len(t.buffer) < Room(t)
        /\ t.raised \in {a.raised, a.raised + 1}
    BY <1>3, <1>4, <1>6, DumpsSound
  <2> QED BY <1>2, <1>4, <2>1
<1>7. CASE Len(a.buffer) < PerFile /\ t = a
  <2>1. Len(a.buffer) < Room(a)
    <3> HIDE DEF a
    <3>1. Room(a) \in Nat
      BY <1>1, <1>2, <1>3 DEF Room
    <3> QED BY <1>3, <1>7, <3>1
  <2> HIDE DEF a
  <2> QED BY <1>2, <1>4, <1>7, <2>1
<1>8. CASE ~(Len(a.buffer) >= PerFile) /\ t = a
  <2>1. Len(a.buffer) < PerFile
    BY <1>1, <1>2, <1>3, <1>8
  <2> QED BY <1>7, <1>8, <2>1
<1> QED BY <1>5, <1>6, <1>8 DEF Pushes

LEMMA MoveSound ==
  ASSUME NEW s, Sound(s, MaxFiles), NEW done \in Nat \ {0}
  PROVE  LET m == [s EXCEPT !.fire_offset = @ + done] IN
         /\ Sound(m, MaxFiles)
         /\ m.buffer = s.buffer /\ m.fire_offset = s.fire_offset + done
         /\ m.files = s.files /\ m.disk = s.disk /\ m.fire_index = s.fire_index
         /\ m.fire_buffer = s.fire_buffer /\ m.faulty = s.faulty /\ m.overtook = s.overtook
         /\ m.stale = s.stale /\ m.raised = s.raised
         /\ m = [s EXCEPT !.fire_offset = s.fire_offset + done]
<1> DEFINE m == [s EXCEPT !.fire_offset = @ + done]
<1>1. IsCache(s) /\ s.fire_offset + done \in Nat \ {0}
  BY DEF Sound, IsCache
<1>2. /\ IsCache(m)
      /\ m.buffer = s.buffer /\ m.fire_offset = s.fire_offset + done
      /\ m.files = s.files /\ m.disk = s.disk /\ m.fire_index = s.fire_index
      /\ m.fire_buffer = s.fire_buffer /\ m.faulty = s.faulty /\ m.overtook = s.overtook
      /\ m.stale = s.stale /\ m.raised = s.raised
  BY <1>1 DEF IsCache
<1>3. Room(m) = Room(s)
  BY <1>2 DEF Room
<1>4. Sound(m, MaxFiles)
  BY <1>2, <1>3 DEF Sound
<1> QED BY <1>2, <1>4

LEMMA AdvancesSound ==
  ASSUME NEW s, Sound(s, MaxFiles), OffsetOK(s),
         working \in Index \cup {None},
         NEW done \in Nat \ {0}, working # None \/ s.files # <<>>,
         NEW t \in Advances(s, done)
  PROVE  Sound(t, MaxFiles) /\ OffsetOK(t) /\ t.buffer = s.buffer /\ t.raised = s.raised
<1> DEFINE m == [s EXCEPT !.fire_offset = @ + done]
<1>1. CASE working # s.fire_index
  BY <1>1 DEF Advances
<1>2. CASE working = s.fire_index
  <2>1. IsCache(s)
    BY DEF Sound
  <2>2. s.files # <<>>
    BY <1>2 DEF Sound
  <2>3. /\ Sound(m, MaxFiles) /\ IsCache(m)
        /\ m.buffer = s.buffer /\ m.raised = s.raised
        /\ m.files = s.files
    BY MoveSound DEF Sound
  <2>5. CASE Len(m.fire_buffer) < m.fire_offset /\ t \in {LoadNext(m, n) : n \in Unreadable(m)}
    <3>1. PICK n \in Unreadable(m) : t = LoadNext(m, n)
      BY <2>5
    <3>2. n \in 0 .. Len(Unfired(m))
      <4>1. Unfired(m) \in Seq(Index)
        <5> HIDE DEF m
        <5>1. m.files \in Seq(Index) /\ m.files # <<>>
          BY <2>2, <2>3 DEF IsCache
        <5> QED BY <5>1 DEF Unfired
      <4> QED BY <3>1, <4>1 DEF Unreadable
    <3>3. MaxFiles \in Nat /\ MaxFiles < IndexMod /\ m.files # <<>>
      BY <2>2, <2>3, IndexRange
    <3>4. Sound(t, MaxFiles - 1) /\ OffsetOK(t) /\ t.buffer = m.buffer /\ t.raised = m.raised
      <4> HIDE DEF m
      <4>1. IsLoaded(LoadNext(m, n), m, n)
        BY <2>3, <3>2, <3>3, LoadNextParts
      <4> QED BY <2>3, <3>1, <3>2, <3>3, <4>1, LoadNextSound DEF IsLoaded
    <3>5. Sound(t, MaxFiles)
      BY <3>4, IndexRange DEF Sound, IsCache
    <3> QED BY <2>3, <3>4, <3>5
  <2>6. CASE ~(Len(m.fire_buffer) < m.fire_offset) /\ t = m
    <3>1. OffsetOK(m)
      BY <2>3, <2>6 DEF OffsetOK, IsCache
    <3> HIDE DEF m
    <3> QED BY <2>3, <2>6, <3>1
  <2> QED BY <1>2, <2>5, <2>6 DEF Advances
<1> QED BY <1>1, <1>2

LEMMA AdvanceRaisesSound ==
  ASSUME NEW s, Sound(s, MaxFiles),
         working \in Index \cup {None},
         NEW done \in Nat \ {0}, working # None \/ s.files # <<>>,
         NEW t \in AdvanceRaises(s, done)
  PROVE  Sound(t, MaxFiles) /\ t.stale /\ t.buffer = s.buffer /\ t.raised = s.raised
<1> DEFINE m == [s EXCEPT !.fire_offset = @ + done]
<1>1. /\ Sound(m, MaxFiles) /\ IsCache(m)
      /\ m.buffer = s.buffer /\ m.raised = s.raised
      /\ m.files = s.files
  BY MoveSound DEF Sound
<1>2. working = s.fire_index /\ \E n \in Corrupt(m) : t = LoadRaises(m, n)
  BY DEF AdvanceRaises
<1>3. PICK n \in Corrupt(m) : t = LoadRaises(m, n)
  BY <1>2
<1>4. s.files # <<>>
  BY <1>2 DEF Sound
<1> HIDE DEF m
<1>5. n \in 0 .. Len(Unfired(m)) /\ n < Len(Unfired(m))
  <2>1. Unfired(m) \in Seq(Index)
    <3>1. m.files \in Seq(Index) /\ m.files # <<>>
      BY <1>1, <1>4 DEF IsCache
    <3> QED BY <3>1 DEF Unfired
  <2> QED BY <1>3, <2>1 DEF Corrupt, Unreadable
<1>6. MaxFiles \in Nat /\ MaxFiles < IndexMod /\ m.files # <<>> /\ m.raised \in Nat /\ m.buffer \in Seq(Data)
  BY <1>1, <1>4, IndexRange DEF IsCache
<1>7. IsRaised(t, m, n, m.buffer, m.raised)
  BY <1>1, <1>3, <1>5, <1>6, LoadRaisesParts
<1>8. Sound(t, MaxFiles - 1) /\ t.stale /\ t.buffer = m.buffer /\ t.raised = m.raised
  <2>1. m.raised >= m.raised
    BY <1>6
  <2> QED BY <1>1, <1>5, <1>6, <1>7, <2>1, LoadRaisesSound
<1>9. Sound(t, MaxFiles)
  <2>1. t.files \in Seq(Index) /\ Len(t.files) <= MaxFiles - 1 /\ MaxFiles \in Nat
    BY <1>6, <1>8 DEF Sound, IsCache
  <2>2. Len(t.files) <= MaxFiles
    BY <2>1
  <2> QED BY <1>8, <2>2 DEF Sound
<1> QED BY <1>1, <1>6, <1>8, <1>9

(* A slice of a sound cache is a list of data, empty without a file.       *)
LEMMA SliceType ==
  ASSUME NEW s, Sound(s, MaxFiles)
  PROVE  /\ Slice(s) \in Seq(Data)
         /\ Slice(s) # <<>> => s.fire_index # None
         /\ s.fire_index \in Index \cup {None}
<1>1. /\ IsCache(s)
      /\ s.fire_buffer \in Seq(Data)
      /\ s.fire_offset \in Nat \ {0}
      /\ s.fire_index \in Index \cup {None}
      /\ s.files \in Seq(Index)
  BY DEF Sound, IsCache
<1>2. Pending(s) \in Seq(Data)
  BY <1>1 DEF Pending
<1>3. Slice(s) \in Seq(Data)
  BY <1>2, FileBufferAssumption DEF Slice
<1>4. CASE s.files = <<>>
  <2>1. s.fire_buffer = <<>>
    BY <1>4 DEF Sound
  <2>2. Pending(s) = <<>>
    BY <1>1, <2>1 DEF Pending
  <2>3. Slice(s) = <<>>
    BY <2>2, FileBufferAssumption DEF Slice
  <2> QED BY <1>1, <1>3, <2>3
<1>5. CASE s.files # <<>>
  <2>1. s.files[1] \in Index /\ s.fire_index = s.files[1]
    BY <1>1, <1>5 DEF Sound
  <2> QED BY <1>1, <1>3, <2>1 DEF Index, None
<1> QED BY <1>4, <1>5

-----------------------------------------------------------------------------
LEMMA InitIInv == Init => IInv
<1> SUFFICES ASSUME Init PROVE IInv
  OBVIOUS
<1>1. fb = EmptyCache
  BY DEF Init
<1>2. IsCache(EmptyCache)
  <2>1. [i \in {} |-> <<>>] \in [{} -> Seq(Data)]
    OBVIOUS
  <2>2. [i \in {} |-> <<>>] \in UNION {[D -> Seq(Data)] : D \in SUBSET Index}
    BY <2>1
  <2> QED BY <2>2 DEF EmptyCache, IsCache
<1>3. /\ EmptyCache.files = <<>> /\ EmptyCache.buffer = <<>>
      /\ EmptyCache.fire_buffer = <<>> /\ EmptyCache.fire_index = None
      /\ EmptyCache.stale = FALSE /\ EmptyCache.raised = 0
      /\ EmptyCache.disk = [i \in {} |-> <<>>]
  BY DEF EmptyCache
<1>4. Sound(EmptyCache, MaxFiles)
  BY <1>2, <1>3, FileBufferAssumption DEF Sound, ToData, Room
<1>5. TypeOK
  <2>1. 1 \in 1 .. MaxPush + 1 /\ <<>> \in Seq(Data)
    BY FileBufferAssumption
  <2> QED BY <1>1, <1>2, <2>1 DEF Init, TypeOK
<1>6. OffsetOK(fb) /\ Len(fb.buffer) < Room(fb)
  BY <1>1, <1>3, FileBufferAssumption DEF OffsetOK, Room
<1> QED BY <1>1, <1>4, <1>5, <1>6 DEF IInv, Init

LEMMA NextIInv == IInv /\ [Next]_vars => IInv'
<1> SUFFICES ASSUME IInv, [Next]_vars PROVE IInv'
  OBVIOUS
<1> USE DEF IInv
<1>1. CASE Push
  <2>1. next \in Data /\ next' \in 1 .. MaxPush + 1
    BY SMTT(30), <1>1, FileBufferAssumption DEF Push, TypeOK, Data
  <2>2. acked' \in Seq(Data)
    <3>1. acked' = acked \/ acked' = Append(acked, next)
      BY <1>1 DEF Push
    <3>2. acked \in Seq(Data)
      BY DEF TypeOK
    <3> QED BY <2>1, <3>1, <3>2
  <2>3. Sound(fb', MaxFiles) /\ KeepsOffset(fb, fb') /\ Len(fb'.buffer) < Room(fb')
    <3>1. CASE fb' \in Pushes(fb, next)
      BY <2>1, <3>1, PushesSound
    <3>2. CASE fb' = fb
      BY <3>2 DEF KeepsOffset
    <3>3. CASE fb' = [fb EXCEPT !.overtook = @ \cup {next}]
      <4>1. IsCache(fb)
        BY DEF Sound
      <4>2. /\ IsCache(fb') /\ fb'.files = fb.files /\ fb'.buffer = fb.buffer
            /\ fb'.fire_buffer = fb.fire_buffer /\ fb'.fire_offset = fb.fire_offset
            /\ fb'.fire_index = fb.fire_index /\ fb'.disk = fb.disk
            /\ fb'.stale = fb.stale /\ fb'.raised = fb.raised /\ fb'.faulty = fb.faulty
        BY <2>1, <3>3, <4>1 DEF IsCache
      <4>3. Room(fb') = Room(fb)
        BY <4>2 DEF Room
      <4> QED BY <4>2, <4>3 DEF Sound, OffsetOK, KeepsOffset
    <3> QED BY <1>1, <3>1, <3>2, <3>3 DEF Push
  <2>4. IsCache(fb)'
    BY <2>3 DEF Sound
  <2>5. (OffsetOK(fb) \/ (fb.stale /\ pc = "done"))'
    BY <1>1, <2>3 DEF Push, KeepsOffset
  <2> QED BY <1>1, <2>1, <2>2, <2>3, <2>4, <2>5 DEF Push, TypeOK
<1>2. CASE Wake
  BY <1>2 DEF Wake, TypeOK
<1>3. CASE End
  BY <1>3 DEF End, TypeOK
<1>4. CASE Fire
  <2>1. CASE Empty(fb)
    BY <1>4, <2>1 DEF Fire, TypeOK
  <2>2. CASE ~Empty(fb)
    <3>1. Sound(fb', MaxFiles) /\ OffsetOK(fb') /\ Len(fb'.buffer) < Room(fb')
      <4>0. OffsetOK(fb)
        BY <1>4 DEF Fire
      <4>1. CASE fb' = fb
        BY <4>0, <4>1
      <4>2. CASE fb.files = <<>> /\ fb' \in Dumps(fb)
        <5>1. fb.fire_buffer = <<>> /\ fb.buffer # <<>>
          BY <2>2, <4>2 DEF Sound, Empty
        <5>2. Len(fb.buffer) \in 1 .. Room(fb)
          BY <5>1, FileBufferAssumption DEF Sound, IsCache, Room
        <5> QED BY <4>0, <4>2, <5>2, DumpsSound DEF KeepsOffset
      <4> QED BY <1>4, <2>2, <4>1, <4>2 DEF Fire
    <3>2. IsCache(fb)'
      BY <3>1 DEF Sound
    <3>3. working' = fb'.fire_index /\ batch' = Slice(fb') /\ pc' = "call"
          /\ UNCHANGED <<next, stopped, acked>>
      BY <1>4, <2>2 DEF Fire
    <3>4. /\ working' \in Index \cup {None}
          /\ batch' \in Seq(Data)
          /\ batch' # <<>> => working' # None
      BY <3>1, <3>3, SliceType
    <3> QED BY <3>1, <3>2, <3>3, <3>4 DEF TypeOK
  <2> QED BY <2>1, <2>2
<1>5. CASE FireFail
  BY <1>5 DEF FireFail, TypeOK
<1>6. CASE Stop
  BY <1>6 DEF Stop, TypeOK
<1>7. ASSUME NEW done \in 1 .. Len(batch), FireOk(done)
      PROVE  IInv'
  <2>1. /\ done \in Nat \ {0}
        /\ batch \in Seq(Data) /\ batch # <<>> /\ pc = "call"
        /\ \/ fb' \in Advances(fb, done) /\ pc' = "loop"
           \/ fb' \in AdvanceRaises(fb, done) /\ pc' = "done"
    BY <1>7 DEF FireOk, TypeOK
  <2>2. /\ Sound(fb', MaxFiles) /\ fb'.buffer = fb.buffer /\ fb'.raised = fb.raised
        /\ OffsetOK(fb') \/ (fb'.stale /\ pc' = "done")
    <3>1. OffsetOK(fb) /\ working # None /\ working \in Index \cup {None}
      BY <2>1 DEF TypeOK
    <3>2. CASE fb' \in Advances(fb, done) /\ pc' = "loop"
      BY <2>1, <3>1, <3>2, AdvancesSound
    <3>3. CASE fb' \in AdvanceRaises(fb, done) /\ pc' = "done"
      BY <2>1, <3>1, <3>3, AdvanceRaisesSound
    <3> QED BY <2>1, <3>2, <3>3
  <2>3. IsCache(fb)' /\ Len(fb'.buffer) < Room(fb')
    BY <2>2 DEF Sound, Room
  <2>4. acked' \in Seq(Data)
    BY <1>7, <2>1 DEF FireOk, TypeOK
  <2>5. (OffsetOK(fb) \/ (fb.stale /\ pc = "done"))'
    BY <2>2
  <2>6. TypeOK' /\ pc' # "call"
    BY <1>7, <2>1, <2>3, <2>4 DEF FireOk, TypeOK
  <2> QED BY <2>2, <2>3, <2>5, <2>6
<1>8. CASE UNCHANGED vars
  BY <1>8 DEF vars, TypeOK
<1> QED BY <1>1, <1>2, <1>3, <1>4, <1>5, <1>6, <1>7, <1>8 DEF Next

LEMMA IInvImplies == IInv => TypeOK /\ StoreConsistent /\ Bounded
<1> SUFFICES ASSUME IInv PROVE TypeOK /\ StoreConsistent /\ Bounded
  OBVIOUS
<1> USE DEF IInv
<1>1. StoreConsistent
  BY DEF StoreConsistent, Sound, OffsetOK
<1> QED BY <1>1 DEF Bounded, Sound, Room

LEMMA Inductive == Spec => []IInv
BY InitIInv, NextIInv, PTL DEF Spec

(* Every variable keeps its type (file.lua's fields and the coroutine's    *)
(* locals), with any pattern of I/O faults.                                *)
THEOREM TypeCorrect == Spec => []TypeOK
BY Inductive, IInvImplies, PTL

(* The cache folder and the memory agree at every step of file.lua, for    *)
(* every limit and although files may fail to be created or read back.     *)
THEOREM FolderAgrees == Spec => []StoreConsistent
BY Inductive, IInvImplies, PTL

(* All of it together: file.lua keeps memory, folder and limits in order,  *)
(* for every size of the cache, and whatever files fail, also with an      *)
(* error that ends the push or the fire coroutine.                         *)
THEOREM CacheAlwaysSound == Spec => []CacheSound
BY Inductive, IInvImplies, PTL DEF CacheSound

(* Memory and disk use of the cache are bounded by its two limits, and by  *)
(* the number of pushes that ended with an error.                          *)
THEOREM CacheBounded == Spec => []Bounded
BY Inductive, IInvImplies, PTL
-----------------------------------------------------------------------------
(* The content of the k-th file on the list.                               *)
File(s, k) == s.disk[s.files[k]]

Increasing(l) == \A i, j \in 1 .. Len(l) : i < j => l[i] < l[j]

(* Every datum of D was pushed before every datum of E.                    *)
Older(D, E) == \A x \in D, y \in E : x < y

(* The fire buffer is in push order and older than what is not in it.      *)
FiredOrdered(s, m) ==
  /\ Increasing(s.fire_buffer)
  /\ Older(ToData(s.fire_buffer), ToData(s.buffer) \cup {m})
  /\ \A k \in 2 .. Len(s.files) : Older(ToData(s.fire_buffer), ToData(File(s, k)))

(* So are the files, and all data are older than datum m.                  *)
Ordered(s, m) ==
  /\ Increasing(s.buffer) /\ Older(ToData(s.buffer), {m})
  /\ \A k \in 1 .. Len(s.files) : /\ Increasing(File(s, k))
                                  /\ Older(ToData(File(s, k)), ToData(s.buffer) \cup {m})
  /\ \A j, k \in 1 .. Len(s.files) : j < k => Older(ToData(File(s, j)), ToData(File(s, k)))
  /\ s.files # <<>> => FiredOrdered(s, m)

(* The files that loading the next one leaves are the same.                *)
LEMMA LoadNextFiles ==
  ASSUME NEW k \in Nat, k < IndexMod, NEW s, Sound(s, k),
         NEW n \in 0 .. Len(Unfired(s)), s.files # <<>>
  PROVE  LET t == LoadNext(s, n) IN
         /\ Len(t.files) = Len(s.files) - 1 - n
         /\ Len(t.files) \in Nat
         /\ \A i \in 1 .. Len(t.files) : /\ t.files[i] = s.files[n + 1 + i]
                                         /\ File(t, i) = File(s, n + 1 + i)
                                         /\ n + 1 + i \in 1 .. Len(s.files)
<1>1. /\ LoadNext(s, n).files = Left(s, n)
      /\ LoadNext(s, n).disk = [i \in Kept(s, n) |-> s.disk[i]]
  <2>1. IsLoaded(LoadNext(s, n), s, n)
    BY LoadNextParts
  <2> QED BY <2>1 DEF IsLoaded
<1>2. /\ Left(s, n) \in Seq(Index)
      /\ n + 1 <= Len(s.files)
      /\ Len(Left(s, n)) = Len(s.files) - 1 - n
      /\ Kept(s, n) = ToData(Left(s, n))
  BY LoadNextLeft
<1>6. \A i \in 1 .. Len(Left(s, n)) : Left(s, n)[i] = s.files[n + 1 + i]
  BY LoadNextLeft
<1>3. Len(s.files) \in Nat /\ n \in Nat
  <2>1. s.files \in Seq(Index) /\ Unfired(s) = Tail(s.files)
    BY LoadNextLeft DEF Sound, IsCache
  <2> QED BY <2>1
<1>5. Len(Left(s, n)) \in Nat
  BY <1>2
<1>4. \A i \in 1 .. Len(Left(s, n)) : Left(s, n)[i] \in Kept(s, n)
  BY <1>2 DEF ToData
<1>7. \A i \in 1 .. Len(Left(s, n)) : n + 1 + i \in 1 .. Len(s.files)
  BY <1>2, <1>3, <1>5
<1> QED BY <1>1, <1>2, <1>4, <1>5, <1>6, <1>7 DEF File

LEMMA LoadNextLen ==
  ASSUME NEW k \in Nat, k < IndexMod, NEW s, Sound(s, k),
         NEW n \in 0 .. Len(Unfired(s)), s.files # <<>>
  PROVE  Len(LoadNext(s, n).files) = Len(s.files) - 1 - n
BY LoadNextFiles

(* A new file is the last one and has the tail's data; the others stay.    *)
LEMMA AddFileFiles ==
  ASSUME NEW s, Sound(s, MaxFiles), Len(s.buffer) \in 1 .. Room(s)
  PROVE  LET t == AddFile(s, NextIndex(s)) IN
         /\ Len(t.files) = Len(s.files) + 1 /\ Len(s.files) \in Nat
         /\ \A i \in 1 .. Len(s.files) : t.files[i] = s.files[i] /\ File(t, i) = File(s, i)
         /\ File(t, Len(s.files) + 1) = s.buffer
         /\ t.buffer = <<>> /\ t.faulty = s.faulty /\ t.overtook = s.overtook
         /\ t.stale = s.stale /\ t.raised = s.raised
         /\ IF s.files = <<>>
            THEN t.fire_offset = 1 /\ t.fire_buffer = s.buffer
            ELSE /\ t.fire_offset = s.fire_offset /\ t.fire_buffer = s.fire_buffer
                 /\ t.fire_index = s.fire_index
<1> DEFINE index == NextIndex(s)
           disk  == [i \in DOMAIN s.disk \cup {index} |->
                       IF i = index THEN s.buffer ELSE s.disk[i]]
           t     == AddFile(s, index)
<1>1. /\ IsCache(s)
      /\ s.files \in Seq(Index)
      /\ Len(s.files) \in Nat /\ Len(s.files) <= MaxFiles
      /\ DOMAIN s.disk = ToData(s.files)
  BY DEF Sound, IsCache
<1>2. s.fire_index = None <=> s.files = <<>>
  <2>1. s.files # <<>> => s.files[1] \in Index
    BY <1>1
  <2> QED BY <2>1 DEF Sound, Index, None
<1>3. /\ t.files = Append(s.files, index) /\ t.disk = disk /\ t.buffer = <<>>
      /\ t.faulty = s.faulty /\ t.overtook = s.overtook
      /\ t.stale = s.stale /\ t.raised = s.raised
      /\ IF s.files = <<>>
         THEN t.fire_offset = 1 /\ t.fire_buffer = s.buffer
         ELSE /\ t.fire_offset = s.fire_offset /\ t.fire_buffer = s.fire_buffer
              /\ t.fire_index = s.fire_index
  <2> HIDE DEF disk, index
  <2>1. CASE s.files = <<>>
    <3>1. t = [s EXCEPT !.files = Append(s.files, index), !.disk = disk,
                        !.buffer = <<>>, !.fire_index = index,
                        !.fire_buffer = s.buffer, !.fire_offset = 1]
      BY <1>1, <1>2, <2>1 DEF AddFile, IsCache, disk
    <3> QED BY <1>1, <2>1, <3>1 DEF IsCache
  <2>2. CASE s.files # <<>>
    <3>1. t = [s EXCEPT !.files = Append(s.files, index), !.disk = disk, !.buffer = <<>>]
      BY <1>2, <2>2 DEF AddFile, disk
    <3> QED BY <1>1, <2>2, <3>1 DEF IsCache
  <2> QED BY <2>1, <2>2
<1>4. index \notin ToData(s.files)
  <2> SUFFICES ASSUME NEW i \in 1 .. Len(s.files)
               PROVE  index # s.files[i]
    BY DEF ToData
  <2> DEFINE a == s.files[i]
             l == Len(s.files) - (i - 1)
  <2>1. s.files[1] \in Index /\ a \in Index /\ s.fire_index = s.files[1] /\ s.fire_index # None
    BY <1>1, <1>2 DEF Sound
  <2>2. index = (s.files[1] + Len(s.files)) % IndexMod
    BY <2>1 DEF NextIndex
  <2>3. a = (s.files[1] + (i - 1)) % IndexMod
    BY DEF Sound
  <2>4. /\ l \in 1 .. MaxFiles /\ (i - 1) + l = Len(s.files) /\ i - 1 \in Nat /\ l \in Nat
        /\ s.files[1] \in 0 .. IndexMod - 1 /\ a \in Nat /\ a < IndexMod
        /\ (i - 1) + l < IndexMod /\ IndexMod \in Nat /\ IndexMod > 0
    BY <1>1, <2>1, IndexRange DEF Index
  <2> HIDE DEF a, l
  <2>5. (s.files[1] + ((i - 1) + l)) % IndexMod = (((s.files[1] + (i - 1)) % IndexMod) + l) % IndexMod
    BY <2>4, ShiftWrap
  <2>6. index = (a + l) % IndexMod
    BY <2>2, <2>3, <2>4, <2>5
  <2>7. (a + l) % IndexMod # a
    BY <2>4, OtherIndex
  <2> QED BY <2>6, <2>7 DEF a
<1> HIDE DEF index, t
<1>5. \A i \in 1 .. Len(s.files) : s.files[i] \in DOMAIN s.disk /\ s.files[i] # index
  BY <1>1, <1>4 DEF ToData
<1>6. /\ Len(t.files) = Len(s.files) + 1
      /\ t.files[Len(s.files) + 1] = index
      /\ \A i \in 1 .. Len(s.files) : t.files[i] = s.files[i]
  BY <1>1, <1>3
<1>7. /\ \A i \in 1 .. Len(s.files) : File(t, i) = File(s, i)
      /\ File(t, Len(s.files) + 1) = s.buffer
  BY <1>3, <1>5, <1>6 DEF File
<1> QED BY <1>1, <1>3, <1>6, <1>7 DEF t, index

(* What is left of the fire buffer is a part of it.                        *)
LEMMA PendingIs ==
  ASSUME NEW s, IsCache(s)
  PROVE  /\ Pending(s) \in Seq(Data) /\ Len(Pending(s)) \in Nat
         /\ Len(Pending(s)) = IF s.fire_offset <= Len(s.fire_buffer)
                              THEN Len(s.fire_buffer) - s.fire_offset + 1 ELSE 0
         /\ \A i \in 1 .. Len(Pending(s)) :
              /\ Pending(s)[i] = s.fire_buffer[s.fire_offset + i - 1]
              /\ s.fire_offset + i - 1 \in 1 .. Len(s.fire_buffer)
         /\ ToData(Pending(s)) \subseteq ToData(s.fire_buffer)
<1>1. s.fire_buffer \in Seq(Data) /\ s.fire_offset \in Nat \ {0} /\ Len(s.fire_buffer) \in Nat
  BY DEF IsCache
<1>2. /\ Pending(s) \in Seq(Data) /\ Len(Pending(s)) \in Nat
      /\ Len(Pending(s)) = IF s.fire_offset <= Len(s.fire_buffer)
                           THEN Len(s.fire_buffer) - s.fire_offset + 1 ELSE 0
      /\ \A i \in 1 .. Len(Pending(s)) : Pending(s)[i] = s.fire_buffer[s.fire_offset + i - 1]
  BY <1>1 DEF Pending
<1>3. \A i \in 1 .. Len(Pending(s)) : s.fire_offset + i - 1 \in 1 .. Len(s.fire_buffer)
  BY <1>1, <1>2
<1>4. ToData(Pending(s)) \subseteq ToData(s.fire_buffer)
  BY <1>2, <1>3 DEF ToData
<1> QED BY <1>2, <1>3, <1>4

LEMMA IsHeld ==
  ASSUME NEW s, NEW x
  PROVE  x \in Held(s) <=> \/ x \in ToData(Pending(s))
                           \/ \E j \in 2 .. Len(s.files) : x \in ToData(File(s, j))
                           \/ x \in ToData(s.buffer)
<1> DEFINE P == ToData(Pending(s))
           B == ToData(s.buffer)
           F == UNION {ToData(File(s, j)) : j \in 2 .. Len(s.files)}
<1>1. Held(s) = P \cup B \cup F
  <2>1. F = UNION {ToData(s.disk[s.files[j]]) : j \in 2 .. Len(s.files)}
    BY DEF File
  <2> HIDE DEF F
  <2> QED BY <2>1 DEF Held
<1>2. x \in F <=> \E j \in 2 .. Len(s.files) : x \in ToData(File(s, j))
  OBVIOUS
<1> HIDE DEF P, F, B
<1>3. x \in Held(s) <=> x \in P \/ x \in F \/ x \in B
  BY <1>1
<1> QED BY <1>2, <1>3 DEF P, B

(* Every datum held is in the fire buffer, in another file or in the tail; *)
(* files other than the one being fired are held as a whole.               *)
LEMMA HeldIs ==
  ASSUME NEW k, NEW s, Sound(s, k)
  PROVE  /\ \A x \in Held(s) : \/ x \in ToData(s.buffer)
                              \/ (s.files # <<>> /\ x \in ToData(s.fire_buffer))
                              \/ \E j \in 2 .. Len(s.files) : x \in ToData(File(s, j))
         /\ \A j \in 2 .. Len(s.files) : ToData(File(s, j)) \subseteq Held(s)
         /\ ToData(s.buffer) \subseteq Held(s)
         /\ ToData(Pending(s)) \subseteq Held(s)
         /\ s.files # <<>> => /\ s.stale \/ s.fire_buffer = File(s, 1)
                              /\ 1 \in 1 .. Len(s.files)
         /\ s.files = <<>> => ToData(s.fire_buffer) = {} /\ Len(s.files) = 0
<1>1. IsCache(s) /\ s.files \in Seq(Index)
  BY DEF Sound, IsCache
<1>2. s.files # <<>> => (s.stale \/ s.fire_buffer = File(s, 1)) /\ 1 \in 1 .. Len(s.files)
  BY <1>1 DEF Sound, File
<1>3. s.files = <<>> => ToData(s.fire_buffer) = {} /\ Len(s.files) = 0
  BY <1>1 DEF Sound, ToData
<1>4. \A x : x \in Held(s) <=> \/ x \in ToData(Pending(s))
                               \/ \E j \in 2 .. Len(s.files) : x \in ToData(File(s, j))
                               \/ x \in ToData(s.buffer)
  BY IsHeld
<1>5. ToData(Pending(s)) \subseteq ToData(s.fire_buffer)
  BY <1>1, PendingIs
<1>6. \A x \in Held(s) : \/ x \in ToData(s.buffer)
                        \/ (s.files # <<>> /\ x \in ToData(s.fire_buffer))
                        \/ \E j \in 2 .. Len(s.files) : x \in ToData(File(s, j))
  <2>1. \A x \in Held(s) : \/ x \in ToData(s.buffer)
                          \/ x \in ToData(s.fire_buffer)
                          \/ \E j \in 2 .. Len(s.files) : x \in ToData(File(s, j))
    BY <1>4, <1>5
  <2>2. \A x \in ToData(s.fire_buffer) : s.files # <<>>
    BY <1>3
  <2> QED BY <2>1, <2>2
<1>7. \A j \in 2 .. Len(s.files) : ToData(File(s, j)) \subseteq Held(s)
  BY <1>4
<1>8. ToData(s.buffer) \subseteq Held(s) /\ ToData(Pending(s)) \subseteq Held(s)
  BY <1>4
<1> QED BY <1>2, <1>3, <1>6, <1>7, <1>8

(* Loading the next file keeps the order, and what is held from then on is *)
(* newer than the file that was being fired.                               *)
LEMMA LoadNextOrdered ==
  ASSUME NEW k \in Nat, k < IndexMod, NEW s, Sound(s, k),
         NEW n \in 0 .. Len(Unfired(s)), s.files # <<>>,
         NEW m, Ordered(s, m)
  PROVE  /\ Ordered(LoadNext(s, n), m)
         /\ Held(LoadNext(s, n)) \subseteq Held(s)
         /\ Older(ToData(s.fire_buffer), Held(LoadNext(s, n)))
<1> DEFINE t == LoadNext(s, n)
<1>1. /\ Len(t.files) = Len(s.files) - 1 - n /\ Len(t.files) \in Nat /\ Len(s.files) \in Nat /\ n \in Nat
      /\ \A i \in 1 .. Len(t.files) : File(t, i) = File(s, n + 1 + i) /\ n + 1 + i \in 1 .. Len(s.files)
  <2>1. n \in Nat /\ Len(s.files) \in Nat
    BY LoadNextLeft DEF Sound, IsCache
  <2> QED BY <2>1, LoadNextFiles
<1>2. t.buffer = s.buffer /\ ~t.stale
  <2>1. IsLoaded(LoadNext(s, n), s, n)
    BY LoadNextParts
  <2> QED BY <2>1 DEF IsLoaded
<1>3. Sound(t, k - 1)
  BY LoadNextSound
<1> HIDE DEF t
<1>4. Ordered(t, m)
  <2>1. \A i, j \in 1 .. Len(t.files) : i < j => n + 1 + i < n + 1 + j
    BY <1>1
  <2>2. /\ \A i \in 1 .. Len(t.files) : /\ Increasing(File(t, i))
                                        /\ Older(ToData(File(t, i)), ToData(t.buffer) \cup {m})
        /\ \A i, j \in 1 .. Len(t.files) : i < j => Older(ToData(File(t, i)), ToData(File(t, j)))
    BY <1>1, <1>2, <2>1 DEF Ordered
  <2>3. ASSUME t.files # <<>>
        PROVE  FiredOrdered(t, m)
    <3>1. t.fire_buffer = File(t, 1) /\ 1 \in 1 .. Len(t.files)
      BY <1>2, <1>3, <2>3, HeldIs
    <3>2. \A j \in 2 .. Len(t.files) : j \in 1 .. Len(t.files) /\ 1 < j
      BY <1>1
    <3> QED BY <2>2, <3>1, <3>2 DEF FiredOrdered
  <2> QED BY <1>2, <2>2, <2>3 DEF Ordered
<1>5. \A x \in Held(t) : \/ x \in ToData(s.buffer)
                        \/ \E j \in 2 .. Len(s.files) : x \in ToData(File(s, j))
  <2> SUFFICES ASSUME NEW x \in Held(t), x \notin ToData(s.buffer)
               PROVE  \E j \in 2 .. Len(s.files) : x \in ToData(File(s, j))
    OBVIOUS
  <2>1. PICK i \in 1 .. Len(t.files) : x \in ToData(File(t, i))
    <3>1. CASE t.files # <<>> /\ x \in ToData(t.fire_buffer)
      BY <1>2, <1>3, <3>1, HeldIs
    <3>2. CASE \E j \in 2 .. Len(t.files) : x \in ToData(File(t, j))
      BY <1>1, <3>2
    <3> QED BY <1>2, <1>3, <3>1, <3>2, HeldIs
  <2>2. n + 1 + i \in 2 .. Len(s.files)
    BY <1>1
  <2> QED BY <1>1, <2>1, <2>2
<1>6. Held(t) \subseteq Held(s)
  BY <1>5, HeldIs
<1>7. Older(ToData(s.fire_buffer), Held(t))
  <2>1. FiredOrdered(s, m)
    BY DEF Ordered
  <2> QED BY <1>5, <2>1 DEF Older, FiredOrdered
<1> QED BY <1>4, <1>6, <1>7 DEF t

(* A batch taken from s has, in t, either not moved or been evicted.       *)
Outlived(s, t) ==
  \/ Pending(t) = Pending(s) /\ t.fire_index = s.fire_index
  \/ Older(ToData(s.fire_buffer), Held(t))

LEMMA AddFileOrdered ==
  ASSUME NEW s, Sound(s, MaxFiles), Len(s.buffer) \in 1 .. Room(s),
         NEW m, Ordered(s, m)
  PROVE  LET t == AddFile(s, NextIndex(s)) IN
         /\ Ordered(t, m) /\ Held(t) \subseteq Held(s)
         /\ s.files # <<>> => Pending(t) = Pending(s) /\ t.fire_index = s.fire_index
         /\ s.files = <<>> => Pending(t) = s.buffer
         /\ s.files # <<>> => t.fire_buffer = s.fire_buffer
<1> DEFINE t == AddFile(s, NextIndex(s))
<1>1. /\ Len(t.files) = Len(s.files) + 1 /\ Len(s.files) \in Nat
      /\ \A i \in 1 .. Len(s.files) : File(t, i) = File(s, i)
      /\ File(t, Len(s.files) + 1) = s.buffer
      /\ t.buffer = <<>>
      /\ s.files # <<>> => /\ t.fire_offset = s.fire_offset /\ t.fire_buffer = s.fire_buffer
                           /\ t.fire_index = s.fire_index
      /\ s.files = <<>> => t.fire_offset = 1 /\ t.fire_buffer = s.buffer
  BY AddFileFiles
<1>2. Sound(t, MaxFiles + 1)
  BY AddFileSound
<1> HIDE DEF t
<1>3. \A i \in 1 .. Len(t.files) : i \in 1 .. Len(s.files) \/ i = Len(s.files) + 1
  BY <1>1
<1>4. ToData(t.buffer) = {} /\ Increasing(t.buffer)
  BY <1>1 DEF ToData, Increasing
<1>5. Ordered(t, m)
  <2>1. ASSUME NEW i \in 1 .. Len(t.files)
        PROVE  Increasing(File(t, i)) /\ Older(ToData(File(t, i)), ToData(t.buffer) \cup {m})
    BY <1>1, <1>3, <1>4 DEF Ordered, Older
  <2>2. ASSUME NEW i \in 1 .. Len(t.files), NEW j \in 1 .. Len(t.files), i < j
        PROVE  Older(ToData(File(t, i)), ToData(File(t, j)))
    <3>1. i \in 1 .. Len(s.files) /\ File(t, i) = File(s, i)
      BY <1>1, <2>2
    <3>2. CASE j \in 1 .. Len(s.files)
      BY <1>1, <2>2, <3>1, <3>2 DEF Ordered
    <3>3. CASE j = Len(s.files) + 1
      BY <1>1, <3>1, <3>3 DEF Ordered, Older
    <3> QED BY <1>3, <3>2, <3>3
  <2>3. Older(ToData(t.buffer), {m})
    BY <1>4 DEF Older
  <2>4. CASE s.files = <<>>
    <3>1. Len(s.files) = 0
      BY <2>4
    <3>2. t.fire_buffer = s.buffer /\ Len(t.files) = 1
      BY <1>1, <2>4, <3>1
    <3>3. FiredOrdered(t, m)
      BY <1>4, <3>2 DEF FiredOrdered, Ordered, Older
    <3> QED BY <1>4, <2>1, <2>2, <2>3, <3>3 DEF Ordered
  <2>5. CASE s.files # <<>>
    <3>1. FiredOrdered(s, m) /\ t.fire_buffer = s.fire_buffer
      BY <1>1, <2>5 DEF Ordered
    <3>2. Older(ToData(t.fire_buffer), ToData(t.buffer) \cup {m})
      BY <1>4, <3>1 DEF FiredOrdered, Older
    <3>3. ASSUME NEW j \in 2 .. Len(t.files)
          PROVE  Older(ToData(t.fire_buffer), ToData(File(t, j)))
      <4>1. CASE j \in 2 .. Len(s.files)
        BY <1>1, <3>1, <4>1 DEF FiredOrdered
      <4>2. CASE j = Len(s.files) + 1
        BY <1>1, <3>1, <4>2 DEF FiredOrdered, Older
      <4> QED BY <1>1, <4>1, <4>2
    <3>4. FiredOrdered(t, m)
      BY <3>1, <3>2, <3>3 DEF FiredOrdered
    <3> QED BY <1>4, <2>1, <2>2, <2>3, <3>4 DEF Ordered
  <2> QED BY <2>4, <2>5
<1>6. s.files # <<>> => Pending(t) = Pending(s)
  BY <1>1 DEF Pending
<1>7. s.files = <<>> => Pending(t) = s.buffer
  <2>1. s.buffer \in Seq(Data)
    BY DEF Sound, IsCache
  <2> QED BY <1>1, <2>1 DEF Pending
<1>8. Held(t) \subseteq Held(s)
  <2> SUFFICES ASSUME NEW x \in Held(t)
               PROVE  x \in Held(s)
    OBVIOUS
  <2>1. \/ x \in ToData(Pending(t))
        \/ \E j \in 2 .. Len(t.files) : x \in ToData(File(t, j))
        \/ x \in ToData(t.buffer)
    BY IsHeld
  <2>2. CASE x \in ToData(Pending(t))
    BY <1>6, <1>7, <2>2, HeldIs
  <2>3. CASE \E j \in 2 .. Len(t.files) : x \in ToData(File(t, j))
    <3>1. PICK j \in 2 .. Len(t.files) : x \in ToData(File(t, j))
      BY <2>3
    <3>2. CASE j \in 2 .. Len(s.files)
      BY <1>1, <3>1, <3>2, HeldIs
    <3>3. CASE j = Len(s.files) + 1
      BY <1>1, <3>1, <3>3, HeldIs
    <3> QED BY <1>1, <3>2, <3>3
  <2> QED BY <1>4, <2>1, <2>2, <2>3
<1> QED BY <1>1, <1>5, <1>6, <1>7, <1>8 DEF t

(* What a dump of the tail does to order, data and batches in flight.      *)
LEMMA DumpsOrdered ==
  ASSUME NEW s, Sound(s, MaxFiles), Len(s.buffer) \in 1 .. Room(s),
         NEW m, Ordered(s, m), NEW t \in Dumps(s), t.raised = 0
  PROVE  /\ Ordered(t, m) /\ Held(t) \subseteq Held(s) /\ Outlived(s, t)
         /\ t.overtook = s.overtook
         /\ ~t.faulty => ~s.faulty /\ t.files # <<>>
<1> DEFINE added == AddFile(s, NextIndex(s))
<1>1. /\ Sound(added, MaxFiles + 1) /\ added.files # <<>>
      /\ Len(added.files) = Len(s.files) + 1
      /\ added.faulty = s.faulty /\ added.overtook = s.overtook
  BY AddFileSound, AddFileFiles
<1>2. /\ Ordered(added, m) /\ Held(added) \subseteq Held(s)
      /\ s.files # <<>> => /\ Pending(added) = Pending(s) /\ added.fire_index = s.fire_index
                           /\ added.fire_buffer = s.fire_buffer
  BY AddFileOrdered
<1>3. s.files = <<>> => Older(ToData(s.fire_buffer), Held(t))
  BY HeldIs DEF Older
<1> HIDE DEF added
<1>4. CASE t = [s EXCEPT !.buffer = <<>>, !.faulty = TRUE]
  <2>1. /\ t.buffer = <<>> /\ t.faulty /\ t.files = s.files /\ t.disk = s.disk
        /\ t.fire_index = s.fire_index /\ t.overtook = s.overtook
        /\ t.fire_buffer = s.fire_buffer /\ t.fire_offset = s.fire_offset
    BY <1>4 DEF Sound, IsCache
  <2>2. ToData(t.buffer) = {} /\ Increasing(t.buffer)
    BY <2>1 DEF ToData, Increasing
  <2>3. Ordered(t, m)
    <3>1. \A j : File(t, j) = File(s, j)
      BY <2>1 DEF File
    <3>2. s.files # <<>> => FiredOrdered(t, m)
      BY <2>1, <2>2, <3>1 DEF Ordered, FiredOrdered, Older
    <3>3. \A j \in 1 .. Len(t.files) : /\ Increasing(File(t, j))
                                      /\ Older(ToData(File(t, j)), ToData(t.buffer) \cup {m})
      BY <2>1, <2>2, <3>1 DEF Ordered, Older
    <3>4. \A i, j \in 1 .. Len(t.files) : i < j => Older(ToData(File(t, i)), ToData(File(t, j)))
      BY <2>1, <3>1 DEF Ordered
    <3> QED BY <2>1, <2>2, <3>2, <3>3, <3>4 DEF Ordered, Older
  <2>4. Pending(t) = Pending(s)
    BY <2>1 DEF Pending
  <2>5. Held(t) \subseteq Held(s)
    BY <2>1, <2>2, <2>4 DEF Held
  <2> QED BY <2>1, <2>3, <2>4, <2>5 DEF Outlived
<1>5. CASE Len(added.files) > MaxFiles /\ \E n \in Unreadable(added) : t = LoadNext(added, n)
  <2>1. PICK n \in Unreadable(added) : t = LoadNext(added, n)
    BY <1>5
  <2>2. n \in 0 .. Len(Unfired(added))
    <3>1. Unfired(added) \in Seq(Index)
      BY <1>1 DEF Sound, IsCache, Unfired
    <3> QED BY <2>1, <3>1 DEF Unreadable
  <2>3. MaxFiles + 1 \in Nat /\ MaxFiles + 1 < IndexMod
    BY IndexRange
  <2>4. /\ Ordered(t, m) /\ Held(t) \subseteq Held(added)
        /\ Older(ToData(added.fire_buffer), Held(t))
    BY <1>1, <1>2, <2>1, <2>2, <2>3, LoadNextOrdered
  <2>5. t.overtook = s.overtook /\ (~t.faulty => ~s.faulty /\ n = 0)
    <3>1. t.overtook = added.overtook
      <4>1. IsLoaded(LoadNext(added, n), added, n)
        BY <1>1, <2>2, <2>3, LoadNextParts
      <4> QED BY <2>1, <4>1 DEF IsLoaded
    <3>2. ~t.faulty => ~added.faulty /\ n = 0
      BY <1>1, <2>1, <2>2, <2>3, LoadNextFaulty
    <3> QED BY <1>1, <3>1, <3>2
  <2>6. Len(t.files) = Len(added.files) - 1 - n
    <3> DEFINE K == MaxFiles + 1
    <3>1. K \in Nat /\ K < IndexMod /\ Sound(added, K) /\ added.files # <<>>
      BY <1>1, <2>3
    <3> HIDE DEF K
    <3>2. Len(LoadNext(added, n).files) = Len(added.files) - 1 - n
      BY ONLY <2>2, <3>1, LoadNextLen
    <3> QED BY ONLY <2>1, <3>2
  <2>7. n = 0 => t.files # <<>>
    <3>1. Len(added.files) \in Nat /\ MaxFiles \in Nat \ {0}
      BY <1>1, FileBufferAssumption DEF Sound, IsCache
    <3>2. n = 0 => Len(t.files) > 0
      BY <1>5, <2>6, <3>1
    <3> QED BY <3>2
  <2>9. ~t.faulty => ~s.faulty /\ t.files # <<>>
    BY <2>5, <2>7
  <2> QED BY <1>2, <1>3, <2>4, <2>5, <2>9 DEF Outlived
<1>6. CASE t = added
  BY <1>1, <1>2, <1>3, <1>6 DEF Outlived
<1>7. ASSUME NEW n \in Corrupt(added), t = PushRaises(added, n, s.buffer)
      PROVE  FALSE
  <2>1. n \in 0 .. Len(Unfired(added))
    <3>1. Unfired(added) \in Seq(Index)
      BY <1>1 DEF Sound, IsCache, Unfired
    <3> QED BY <1>7, <3>1 DEF Corrupt, Unreadable
  <2>2. MaxFiles + 1 \in Nat /\ MaxFiles + 1 < IndexMod
    BY IndexRange
  <2>3. s.buffer \in Seq(Data) /\ added.raised \in Nat
    BY <1>1 DEF Sound, IsCache
  <2>4. t.raised = added.raised + 1
    <3>1. IsRaised(t, added, n, s.buffer, added.raised + 1)
      BY <1>1, <1>7, <2>1, <2>2, <2>3, LoadRaisesParts
    <3> QED BY <3>1 DEF IsRaised
  <2> QED BY <2>3, <2>4
<1> QED
  <2>1. \/ t = [s EXCEPT !.buffer = <<>>, !.faulty = TRUE]
        \/ Len(added.files) > MaxFiles /\ \E n \in Unreadable(added) : t = LoadNext(added, n)
        \/ \E n \in Corrupt(added) : t = PushRaises(added, n, s.buffer)
        \/ t = added
    BY Zenon DEF Dumps, added
  <2> QED BY <1>4, <1>5, <1>6, <1>7, <2>1

(* An appended datum is the newest.                                        *)
LEMMA PushOrdered ==
  ASSUME NEW s, Sound(s, MaxFiles),
         NEW d \in Data, Ordered(s, d)
  PROVE  LET a == [s EXCEPT !.buffer = Append(s.buffer, d)] IN
         /\ Ordered(a, d + 1) /\ ToData(a.buffer) = ToData(s.buffer) \cup {d}
<1> DEFINE a == [s EXCEPT !.buffer = Append(s.buffer, d)]
<1>1. /\ IsCache(s) /\ s.buffer \in Seq(Data) /\ Len(s.buffer) \in Nat
      /\ Append(s.buffer, d) \in Seq(Data)
      /\ Len(Append(s.buffer, d)) = Len(s.buffer) + 1
      /\ s.disk \in [DOMAIN s.disk -> Seq(Data)]
  BY DEF Sound, IsCache
<1>2. /\ IsCache(a) /\ a.buffer = Append(s.buffer, d)
      /\ a.files = s.files /\ a.disk = s.disk /\ a.fire_index = s.fire_index
      /\ a.fire_buffer = s.fire_buffer /\ a.fire_offset = s.fire_offset
      /\ a.faulty = s.faulty /\ a.overtook = s.overtook
  BY <1>1 DEF IsCache
<1> HIDE DEF a
<1>5. ToData(a.buffer) = ToData(s.buffer) \cup {d}
  <2>1. /\ \A i \in 1 .. Len(s.buffer) : Append(s.buffer, d)[i] = s.buffer[i]
        /\ Append(s.buffer, d)[Len(s.buffer) + 1] = d
    BY <1>1
  <2>2. \A i \in 1 .. Len(s.buffer) + 1 : i \in 1 .. Len(s.buffer) \/ i = Len(s.buffer) + 1
    BY <1>1
  <2>3. ToData(a.buffer) \subseteq ToData(s.buffer) \cup {d}
    BY <1>1, <1>2, <2>1, <2>2 DEF ToData
  <2>4. ToData(s.buffer) \cup {d} \subseteq ToData(a.buffer)
    <3>1. \A i \in 1 .. Len(s.buffer) : i \in 1 .. Len(a.buffer)
      BY <1>1, <1>2
    <3>2. Len(s.buffer) + 1 \in 1 .. Len(a.buffer)
      BY <1>1, <1>2
    <3> QED BY <1>2, <2>1, <3>1, <3>2 DEF ToData
  <2> QED BY <2>3, <2>4
<1>6. Increasing(a.buffer)
  <2> SUFFICES ASSUME NEW i \in 1 .. Len(a.buffer), NEW j \in 1 .. Len(a.buffer), i < j
               PROVE  a.buffer[i] < a.buffer[j]
    BY DEF Increasing
  <2>1. i \in 1 .. Len(s.buffer) /\ a.buffer[i] = s.buffer[i]
    BY <1>1, <1>2
  <2>2. CASE j \in 1 .. Len(s.buffer)
    BY <1>1, <1>2, <2>1, <2>2 DEF Ordered, Increasing
  <2>3. CASE j = Len(s.buffer) + 1
    <3>1. a.buffer[j] = d
      BY <1>1, <1>2, <2>3
    <3> QED BY <2>1, <3>1 DEF Ordered, Older, ToData
  <2> QED BY <1>1, <1>2, <2>2, <2>3
<1>7. Ordered(a, d + 1)
  <2>1. \A x \in Data : x < d => x < d + 1
    BY DEF Data
  <2>2. ToData(s.buffer) \subseteq Data /\ d < d + 1
    <3>1. d < d + 1
      BY DEF Data
    <3>2. ToData(s.buffer) \subseteq Data
      BY <1>1 DEF ToData
    <3> QED BY <3>1, <3>2
  <2>3. Older(ToData(a.buffer), {d + 1})
    BY <1>5, <2>1, <2>2 DEF Ordered, Older
  <2>4. ASSUME NEW j \in 1 .. Len(s.files)
        PROVE  Older(ToData(File(s, j)), ToData(a.buffer) \cup {d + 1})
    <3>1. s.files[j] \in DOMAIN s.disk
      BY DEF Sound, ToData
    <3>2. ToData(File(s, j)) \subseteq Data
      BY <1>1, <3>1 DEF File, ToData
    <3> QED BY <1>5, <2>1, <3>2 DEF Ordered, Older
  <2>5. \A j : File(a, j) = File(s, j)
    BY <1>2 DEF File
  <2>6. \A j \in 1 .. Len(s.files) : Increasing(File(s, j))
    BY DEF Ordered
  <2>7. \A j, k \in 1 .. Len(s.files) : j < k => Older(ToData(File(s, j)), ToData(File(s, k)))
    BY DEF Ordered
  <2>8. \A j \in 1 .. Len(a.files) : /\ Increasing(File(a, j))
                                     /\ Older(ToData(File(a, j)), ToData(a.buffer) \cup {d + 1})
    BY <1>2, <2>4, <2>5, <2>6
  <2>9. \A j, k \in 1 .. Len(a.files) : j < k => Older(ToData(File(a, j)), ToData(File(a, k)))
    BY <1>2, <2>5, <2>7
  <2>10. ASSUME s.files # <<>>
         PROVE  FiredOrdered(a, d + 1)
    <3>1. FiredOrdered(s, d)
      BY <2>10 DEF Ordered
    <3>2. ToData(s.fire_buffer) \subseteq Data
      BY <1>1 DEF IsCache, ToData
    <3>3. Older(ToData(s.fire_buffer), ToData(a.buffer) \cup {d + 1})
      BY <1>5, <2>1, <3>1, <3>2 DEF FiredOrdered, Older
    <3> QED BY <1>2, <2>5, <3>1, <3>3 DEF FiredOrdered
  <2> QED BY <1>2, <1>6, <2>3, <2>8, <2>9, <2>10 DEF Ordered
<1> QED BY <1>5, <1>7 DEF a

(* What a push does to them.                                               *)
LEMMA PushesOrdered ==
  ASSUME NEW s, Sound(s, MaxFiles), Len(s.buffer) < Room(s),
         NEW d \in Data, Ordered(s, d), NEW t \in Pushes(s, d), t.raised = 0
  PROVE  /\ Ordered(t, d + 1) /\ Held(t) \subseteq Held(s) \cup {d} /\ Outlived(s, t)
         /\ t.overtook = s.overtook
         /\ ~t.faulty => ~s.faulty /\ (s.files # <<>> => t.files # <<>>)
<1> DEFINE a == [s EXCEPT !.buffer = Append(s.buffer, d)]
<1>1. /\ IsCache(s) /\ s.buffer \in Seq(Data) /\ Len(s.buffer) \in Nat
      /\ Append(s.buffer, d) \in Seq(Data)
      /\ Len(Append(s.buffer, d)) = Len(s.buffer) + 1
      /\ s.disk \in [DOMAIN s.disk -> Seq(Data)]
  BY DEF Sound, IsCache
<1>2. /\ IsCache(a) /\ a.buffer = Append(s.buffer, d)
      /\ a.files = s.files /\ a.disk = s.disk /\ a.fire_index = s.fire_index
      /\ a.fire_buffer = s.fire_buffer /\ a.fire_offset = s.fire_offset
      /\ a.faulty = s.faulty /\ a.overtook = s.overtook
      /\ a.stale = s.stale /\ a.raised = s.raised
  BY <1>1 DEF IsCache
<1> HIDE DEF a
<1>3. Room(a) = Room(s) /\ Len(a.buffer) \in 1 .. Room(a)
  <2>1. Room(a) = Room(s)
    BY <1>2 DEF Room
  <2>2. Room(s) \in Nat
    BY <1>1, FileBufferAssumption DEF Room, IsCache
  <2> QED BY <1>1, <1>2, <2>1, <2>2
<1>4. Sound(a, MaxFiles)
  BY <1>2, <1>3 DEF Sound
<1>7. Ordered(a, d + 1) /\ ToData(a.buffer) = ToData(s.buffer) \cup {d}
  BY PushOrdered DEF a
<1>8. Pending(a) = Pending(s) /\ Held(a) = Held(s) \cup {d}
  <2>1. Pending(a) = Pending(s)
    BY <1>2 DEF Pending
  <2>2. \A j : File(a, j) = File(s, j)
    BY <1>2 DEF File
  <2>3. ASSUME NEW x
        PROVE  x \in Held(a) <=> x \in Held(s) \cup {d}
    <3>1. x \in Held(a) <=> \/ x \in ToData(Pending(a))
                            \/ \E j \in 2 .. Len(a.files) : x \in ToData(File(a, j))
                            \/ x \in ToData(a.buffer)
      BY IsHeld
    <3>2. x \in Held(s) <=> \/ x \in ToData(Pending(s))
                            \/ \E j \in 2 .. Len(s.files) : x \in ToData(File(s, j))
                            \/ x \in ToData(s.buffer)
      BY IsHeld
    <3> QED BY <1>2, <1>7, <2>1, <2>2, <3>1, <3>2
  <2> QED BY <2>1, <2>3
<1>9. t = a \/ t \in Dumps(a)
  BY DEF Pushes, a
<1>10. CASE t = a
  BY <1>2, <1>7, <1>8, <1>10 DEF Outlived
<1>11. CASE t \in Dumps(a)
  <2>1. /\ Ordered(t, d + 1) /\ Held(t) \subseteq Held(a) /\ Outlived(a, t)
        /\ t.overtook = a.overtook
        /\ ~t.faulty => ~a.faulty /\ t.files # <<>>
    BY <1>3, <1>4, <1>7, <1>11, DumpsOrdered
  <2> QED BY <1>2, <1>8, <2>1 DEF Outlived
<1> QED BY <1>9, <1>10, <1>11

(* A slice is the first part of what is left of the fire buffer.           *)
LEMMA SliceIs ==
  ASSUME NEW s, IsCache(s)
  PROVE  /\ Slice(s) \in Seq(Data) /\ Len(Slice(s)) \in Nat
         /\ Len(Slice(s)) <= Len(Pending(s))
         /\ \A i \in 1 .. Len(Slice(s)) : Slice(s)[i] = Pending(s)[i]
         /\ ToData(Slice(s)) \subseteq ToData(Pending(s))
<1>1. Pending(s) \in Seq(Data) /\ Len(Pending(s)) \in Nat
  BY PendingIs
<1>2. /\ Slice(s) \in Seq(Data) /\ Len(Slice(s)) \in Nat
      /\ Len(Slice(s)) <= Len(Pending(s))
      /\ \A i \in 1 .. Len(Slice(s)) : Slice(s)[i] = Pending(s)[i]
  BY <1>1, FileBufferAssumption DEF Slice
<1>3. \A i \in 1 .. Len(Slice(s)) : i \in 1 .. Len(Pending(s))
  BY <1>1, <1>2
<1> QED BY <1>2, <1>3 DEF ToData

(* Moving the offset over the data that were sent drops these and no more. *)
LEMMA AdvancesOrdered ==
  ASSUME NEW s, Sound(s, MaxFiles), OffsetOK(s),
         working \in Index \cup {None},
         NEW done \in Nat \ {0}, working # None \/ s.files # <<>>,
         NEW m, Ordered(s, m), NEW t \in Advances(s, done)
  PROVE  /\ Ordered(t, m) /\ Held(t) \subseteq Held(s) /\ t.overtook = s.overtook
         /\ ~t.faulty => ~s.faulty
         /\ working = s.fire_index /\ done <= Len(Slice(s)) =>
              \A i \in 1 .. done : Older({Slice(s)[i]}, Held(t))
<1> DEFINE a == [s EXCEPT !.fire_offset = @ + done]
<1>1. CASE working # s.fire_index
  BY <1>1 DEF Advances
<1>2. CASE working = s.fire_index
  <2>1. IsCache(s)
    BY DEF Sound
  <2>2. s.files # <<>>
    BY <1>2 DEF Sound
  <2>3. /\ IsCache(a)
        /\ a.buffer = s.buffer /\ a.fire_offset = s.fire_offset + done
        /\ a.files = s.files /\ a.disk = s.disk /\ a.fire_index = s.fire_index
        /\ a.fire_buffer = s.fire_buffer /\ a.faulty = s.faulty /\ a.overtook = s.overtook
        /\ a.stale = s.stale /\ a.raised = s.raised
    <3>1. s.fire_offset + done \in Nat \ {0}
      BY <2>1 DEF IsCache
    <3> QED BY <2>1, <3>1 DEF IsCache
  <2>4. t = a \/ (Len(a.fire_buffer) < a.fire_offset /\ \E n \in Unreadable(a) : t = LoadNext(a, n))
    BY <1>2 DEF Advances
  <2> HIDE DEF a
  <2>5. Sound(a, MaxFiles) /\ (\A j : File(a, j) = File(s, j))
    BY <2>3 DEF Sound, File, Room
  <2>f. FiredOrdered(s, m)
    BY <2>2 DEF Ordered
  <2>6. Ordered(a, m)
    BY <2>2, <2>3, <2>5, <2>f DEF Ordered, FiredOrdered
  <2>7. /\ Len(Pending(a)) \in Nat /\ Len(Pending(s)) \in Nat /\ Len(s.fire_buffer) \in Nat
        /\ s.fire_offset \in Nat
        /\ \A i \in 1 .. Len(Pending(a)) :
             /\ Pending(a)[i] = s.fire_buffer[s.fire_offset + done + i - 1]
             /\ s.fire_offset + done + i - 1 \in 1 .. Len(s.fire_buffer)
        /\ \A i \in 1 .. Len(Pending(s)) :
             /\ Pending(s)[i] = s.fire_buffer[s.fire_offset + i - 1]
             /\ s.fire_offset + i - 1 \in 1 .. Len(s.fire_buffer)
    <3>2. s.fire_offset \in Nat /\ Len(s.fire_buffer) \in Nat
      BY <2>1 DEF IsCache
    <3>3. Len(Pending(a)) \in Nat /\ \A i \in 1 .. Len(Pending(a)) :
             /\ Pending(a)[i] = s.fire_buffer[s.fire_offset + done + i - 1]
             /\ s.fire_offset + done + i - 1 \in 1 .. Len(s.fire_buffer)
      BY <2>3, PendingIs
    <3>4. Len(Pending(s)) \in Nat /\ \A i \in 1 .. Len(Pending(s)) :
             /\ Pending(s)[i] = s.fire_buffer[s.fire_offset + i - 1]
             /\ s.fire_offset + i - 1 \in 1 .. Len(s.fire_buffer)
      BY <2>1, PendingIs
    <3> QED BY <3>2, <3>3, <3>4
  <2>8. ToData(Pending(a)) \subseteq ToData(Pending(s))
    <3> SUFFICES ASSUME NEW i \in 1 .. Len(Pending(a))
                 PROVE  Pending(a)[i] \in ToData(Pending(s))
      BY DEF ToData
    <3>1. Len(Pending(s)) = IF s.fire_offset <= Len(s.fire_buffer)
                            THEN Len(s.fire_buffer) - s.fire_offset + 1 ELSE 0
      BY <2>1, PendingIs
    <3>2. done + i \in 1 .. Len(Pending(s))
      <4> DEFINE l == Len(s.fire_buffer)
                 o == s.fire_offset
                 p == Len(Pending(s))
      <4>1. /\ o + done + i - 1 \in 1 .. l /\ i >= 1 /\ done >= 1
            /\ o \in Int /\ l \in Int /\ i \in Int /\ done \in Int
        BY <2>7
      <4>2. p = IF o <= l THEN l - o + 1 ELSE 0
        BY <3>1
      <4> HIDE DEF l, o, p
      <4>3. done + i \in 1 .. p
        BY ONLY <4>1, <4>2
      <4> QED BY <4>3 DEF p
    <3>3. Pending(s)[done + i] = s.fire_buffer[s.fire_offset + (done + i) - 1]
      BY <2>7, <3>2
    <3>4. s.fire_offset + (done + i) - 1 = s.fire_offset + done + i - 1
      BY <2>7
    <3>5. Pending(a)[i] = Pending(s)[done + i]
      BY Zenon, <2>7, <3>3, <3>4
    <3> QED BY Zenon, <3>2, <3>5 DEF ToData
  <2>9. Held(a) \subseteq Held(s)
    <3> SUFFICES ASSUME NEW x \in Held(a) PROVE x \in Held(s)
      OBVIOUS
    <3>1. \/ x \in ToData(Pending(a)) \/ x \in ToData(a.buffer)
          \/ \E j \in 2 .. Len(a.files) : x \in ToData(File(a, j))
      BY IsHeld
    <3> QED BY <2>3, <2>5, <2>8, <3>1, HeldIs
  <2>10. ASSUME done <= Len(Slice(s)), NEW i \in 1 .. done
         PROVE  /\ Older({Slice(s)[i]}, Held(a))
                /\ Slice(s)[i] \in ToData(s.fire_buffer)
    <3>1. /\ i \in 1 .. Len(Slice(s)) /\ i \in 1 .. Len(Pending(s))
          /\ Len(Slice(s)) <= Len(Pending(s)) /\ Slice(s)[i] = Pending(s)[i]
      <4>1. Len(Slice(s)) \in Nat /\ Len(Slice(s)) <= Len(Pending(s))
            /\ \A j \in 1 .. Len(Slice(s)) : Slice(s)[j] = Pending(s)[j]
        BY <2>1, SliceIs
      <4> QED BY <2>7, <2>10, <4>1
    <3>2. /\ s.fire_offset + i - 1 \in 1 .. Len(s.fire_buffer)
          /\ Slice(s)[i] = s.fire_buffer[s.fire_offset + i - 1]
      BY <2>7, <3>1
    <3>3. Slice(s)[i] \in ToData(s.fire_buffer)
      BY <3>2 DEF ToData
    <3>4. ASSUME NEW x \in Held(a)
          PROVE  Slice(s)[i] < x
      <4>1. \/ x \in ToData(Pending(a)) \/ x \in ToData(a.buffer)
            \/ \E j \in 2 .. Len(a.files) : x \in ToData(File(a, j))
        BY IsHeld
      <4>2. CASE x \in ToData(Pending(a))
        <5>1. PICK j \in 1 .. Len(Pending(a)) : x = Pending(a)[j]
          BY <4>2 DEF ToData
        <5>2. /\ x = s.fire_buffer[s.fire_offset + done + j - 1]
              /\ s.fire_offset + done + j - 1 \in 1 .. Len(s.fire_buffer)
          BY <2>7, <5>1
        <5>3. s.fire_offset + i - 1 < s.fire_offset + done + j - 1
          BY <2>7
        <5>4. Increasing(s.fire_buffer)
          BY <2>f DEF FiredOrdered
        <5> QED BY <3>2, <5>2, <5>3, <5>4 DEF Increasing
      <4>3. CASE x \in ToData(a.buffer)
        BY <2>3, <2>f, <3>3, <4>3 DEF FiredOrdered, Older
      <4>4. CASE \E j \in 2 .. Len(a.files) : x \in ToData(File(a, j))
        <5>1. PICK j \in 2 .. Len(a.files) : x \in ToData(File(a, j))
          BY <4>4
        <5>2. j \in 2 .. Len(s.files) /\ x \in ToData(File(s, j))
          BY <2>3, <2>5, <5>1
        <5>3. Older(ToData(s.fire_buffer), ToData(File(s, j)))
          BY <2>f, <5>2 DEF FiredOrdered
        <5> QED BY <3>3, <5>2, <5>3 DEF Older
      <4> QED BY <4>1, <4>2, <4>3, <4>4
    <3> QED BY <3>3, <3>4 DEF Older
  <2>11. CASE t = a
    BY <2>3, <2>6, <2>9, <2>10, <2>11
  <2>12. ASSUME NEW n \in Unreadable(a), t = LoadNext(a, n)
         PROVE  /\ Ordered(t, m) /\ Held(t) \subseteq Held(a)
                /\ Older(ToData(s.fire_buffer), Held(t))
                /\ t.overtook = s.overtook /\ (~t.faulty => ~s.faulty)
    <3>1. n \in 0 .. Len(Unfired(a)) /\ a.files # <<>>
      <4>1. Unfired(a) \in Seq(Index)
        BY <2>2, <2>3 DEF IsCache, Unfired
      <4> QED BY <2>2, <2>3, <4>1 DEF Unreadable
    <3>2. MaxFiles \in Nat /\ MaxFiles < IndexMod
      BY IndexRange
    <3>3. /\ Ordered(t, m) /\ Held(t) \subseteq Held(a)
          /\ Older(ToData(a.fire_buffer), Held(t))
      BY <2>5, <2>6, <2>12, <3>1, <3>2, LoadNextOrdered
    <3>6. Sound(a, MaxFiles)
      BY <2>5
    <3>4. /\ ~LoadNext(a, n).faulty => ~a.faulty
          /\ LoadNext(a, n).overtook = a.overtook
      <4>1. ~LoadNext(a, n).faulty => ~a.faulty
        BY <3>6, <3>1, <3>2, LoadNextFaulty
      <4>2. LoadNext(a, n).overtook = a.overtook
        <5>1. IsLoaded(LoadNext(a, n), a, n)
          BY <3>1, <3>2, <3>6, LoadNextParts
        <5> QED BY <5>1 DEF IsLoaded
      <4> QED BY <4>1, <4>2
    <3>5. t.overtook = a.overtook /\ (~t.faulty => ~a.faulty)
      BY <2>12, <3>4
    <3> QED BY <2>3, <3>3, <3>5
  <2>13. CASE \E n \in Unreadable(a) : t = LoadNext(a, n)
    <3>1. /\ Ordered(t, m) /\ Held(t) \subseteq Held(a)
          /\ Older(ToData(s.fire_buffer), Held(t))
          /\ t.overtook = s.overtook /\ (~t.faulty => ~s.faulty)
      BY <2>12, <2>13
    <3> QED BY <2>9, <2>10, <3>1 DEF Older
  <2> QED BY <2>4, <2>11, <2>13
<1> QED BY <1>1, <1>2

(* An error of the load after the last data were sent: the fire buffer is  *)
(* used up and what the other files hold is newer.                         *)
LEMMA AdvanceRaisesOrdered ==
  ASSUME NEW s, Sound(s, MaxFiles),
         NEW done \in Nat \ {0}, working # None,
         NEW m, Ordered(s, m), NEW t \in AdvanceRaises(s, done)
  PROVE  /\ Ordered(t, m) /\ Held(t) \subseteq Held(s) /\ t.overtook = s.overtook
         /\ t.faulty = TRUE
         /\ working = s.fire_index
         /\ Older(ToData(s.fire_buffer), Held(t))
<1> DEFINE a == [s EXCEPT !.fire_offset = @ + done]
           l(n) == LoadNext(a, n)
<1>1. working = s.fire_index /\ s.files # <<>>
  BY DEF AdvanceRaises, Sound
<1>2. /\ Sound(a, MaxFiles) /\ IsCache(a)
      /\ a.buffer = s.buffer /\ a.files = s.files /\ a.disk = s.disk
      /\ a.fire_buffer = s.fire_buffer /\ a.overtook = s.overtook
  BY MoveSound DEF Sound
<1>3. Len(a.fire_buffer) < a.fire_offset /\ \E n \in Corrupt(a) : t = LoadRaises(a, n)
  BY DEF AdvanceRaises
<1>4. PICK n \in Corrupt(a) : t = LoadRaises(a, n)
  BY <1>3
<1> HIDE DEF a
<1>5. n \in 0 .. Len(Unfired(a))
  <2>1. Unfired(a) \in Seq(Index)
    <3>1. a.files \in Seq(Index) /\ a.files # <<>>
      BY <1>1, <1>2 DEF IsCache
    <3> QED BY <3>1 DEF Unfired
  <2> QED BY <1>4, <2>1 DEF Corrupt, Unreadable
<1>6. MaxFiles \in Nat /\ MaxFiles < IndexMod /\ a.files # <<>> /\ a.buffer \in Seq(Data)
  BY <1>1, <1>2, IndexRange DEF IsCache
<1>7. /\ IsCache(t) /\ t.files = l(n).files /\ t.disk = l(n).disk
      /\ t.fire_buffer = a.fire_buffer /\ t.fire_offset = a.fire_offset
      /\ t.buffer = a.buffer /\ t.overtook = a.overtook /\ t.faulty = TRUE
  <2>1. IsRaised(t, a, n, a.buffer, a.raised)
    BY <1>2, <1>4, <1>5, <1>6, LoadRaisesParts
  <2> QED BY <2>1 DEF IsRaised
<1>8. /\ Len(t.files) = Len(a.files) - 1 - n /\ Len(t.files) \in Nat /\ Len(a.files) \in Nat
      /\ n \in Nat
      /\ \A i \in 1 .. Len(t.files) : /\ File(t, i) = File(s, n + 1 + i)
                                      /\ n + 1 + i \in 1 .. Len(s.files)
  <2>1. /\ Len(l(n).files) = Len(a.files) - 1 - n /\ Len(l(n).files) \in Nat
        /\ \A i \in 1 .. Len(l(n).files) : /\ File(l(n), i) = File(a, n + 1 + i)
                                           /\ n + 1 + i \in 1 .. Len(a.files)
    <3> HIDE DEF l
    <3>1. /\ Len(LoadNext(a, n).files) = Len(a.files) - 1 - n
          /\ Len(LoadNext(a, n).files) \in Nat
          /\ \A i \in 1 .. Len(LoadNext(a, n).files) :
               /\ LoadNext(a, n).files[i] = a.files[n + 1 + i]
               /\ File(LoadNext(a, n), i) = File(a, n + 1 + i)
               /\ n + 1 + i \in 1 .. Len(a.files)
      BY ONLY <1>2, <1>5, <1>6, LoadNextFiles
    <3>2. l(n) = LoadNext(a, n)
      BY DEF l
    <3> QED BY ONLY <3>1, <3>2
  <2>2. \A i : File(t, i) = File(l(n), i) /\ File(a, i) = File(s, i)
    BY <1>2, <1>7 DEF File
  <2>3. n \in Nat /\ Len(a.files) \in Nat
    BY <1>2, <1>5 DEF IsCache
  <2> HIDE DEF l
  <2> QED BY <1>2, <1>7, <2>1, <2>2, <2>3
<1> HIDE DEF l
<1>9. FiredOrdered(s, m)
  BY <1>1 DEF Ordered
<1>10. \A i \in 1 .. Len(t.files) : n + 1 + i \in 2 .. Len(s.files)
  <2> SUFFICES ASSUME NEW i \in 1 .. Len(t.files)
               PROVE  n + 1 + i \in 2 .. Len(s.files)
    OBVIOUS
  <2>1. n + 1 + i \in 1 .. Len(s.files)
    BY Zenon, <1>8
  <2>2. n \in Nat /\ i \in Int /\ i >= 1
    BY <1>8
  <2> QED BY ONLY <2>1, <2>2
<1>11. Ordered(t, m)
  <2>1. \A i, j \in 1 .. Len(t.files) : i < j => n + 1 + i < n + 1 + j
    BY <1>8
  <2>2. /\ \A i \in 1 .. Len(t.files) : /\ Increasing(File(t, i))
                                        /\ Older(ToData(File(t, i)), ToData(t.buffer) \cup {m})
        /\ \A i, j \in 1 .. Len(t.files) : i < j => Older(ToData(File(t, i)), ToData(File(t, j)))
    BY <1>2, <1>7, <1>8, <2>1 DEF Ordered
  <2>3. FiredOrdered(t, m)
    <3>1. \A i \in 2 .. Len(t.files) : i \in 1 .. Len(t.files)
      BY <1>8
    <3> QED BY <1>2, <1>7, <1>8, <1>9, <1>10, <3>1 DEF FiredOrdered
  <2> QED BY <1>2, <1>7, <2>2, <2>3 DEF Ordered
<1>12. \A x \in Held(t) : \/ x \in ToData(s.buffer)
                         \/ \E j \in 2 .. Len(s.files) : x \in ToData(File(s, j))
  <2> SUFFICES ASSUME NEW x \in Held(t), x \notin ToData(s.buffer)
               PROVE  \E j \in 2 .. Len(s.files) : x \in ToData(File(s, j))
    OBVIOUS
  <2>1. ToData(Pending(t)) = {}
    <3>1. ~(t.fire_offset <= Len(t.fire_buffer))
      <4>1. t.fire_offset \in Nat /\ Len(t.fire_buffer) \in Nat
        BY <1>7 DEF IsCache
      <4> QED BY <1>3, <1>7, <4>1
    <3>2. Len(Pending(t)) = 0
      BY <1>7, <3>1, PendingIs
    <3> QED BY <3>2 DEF ToData
  <2>2. PICK i \in 2 .. Len(t.files) : x \in ToData(File(t, i))
    BY <1>2, <1>7, <2>1, IsHeld
  <2>3. i \in 1 .. Len(t.files)
    BY <1>8
  <2> QED BY <1>8, <1>10, <2>2, <2>3
<1>13. Held(t) \subseteq Held(s)
  BY <1>12, HeldIs
<1>14. Older(ToData(s.fire_buffer), Held(t))
  BY <1>9, <1>12 DEF FiredOrdered, Older
<1> QED BY <1>1, <1>2, <1>7, <1>11, <1>13, <1>14

-----------------------------------------------------------------------------
(* The data confirmed that nothing overtook.                               *)
InTurn == ToData(acked) \ fb.overtook

(* What a callback gets is the front of the cache or has been evicted.     *)
FlightOK ==
  /\ Increasing(batch) /\ Older(ToData(batch), {next}) /\ Older(InTurn, ToData(batch))
  /\ pc # "call" => batch = <<>>
  /\ \/ batch = Slice(fb) /\ working = fb.fire_index
     \/ Older(ToData(batch), Held(fb))

AckedOK ==
  /\ \A i, j \in 1 .. Len(acked) :
       i < j /\ acked[i] \notin fb.overtook /\ acked[j] \notin fb.overtook => acked[i] < acked[j]
  /\ Older(ToData(acked), {next})
  /\ Older(InTurn, Held(fb))

(* Only a callback whose file is gone can be overtaken.                    *)
NoFaultOK == ~fb.faulty => fb.overtook = {} /\ (pc = "call" => fb.files # <<>>)

(* The inductive invariant of the order.                                   *)
OInv == Ordered(fb, next) /\ FlightOK /\ AckedOK /\ NoFaultOK

(* What is held is older than what comes next, a slice of it increases.    *)
LEMMA SliceOrdered ==
  ASSUME NEW k, NEW s, Sound(s, k), NEW m, Ordered(s, m)
  PROVE  /\ Older(Held(s), {m})
         /\ Increasing(Slice(s)) /\ Increasing(Pending(s))
         /\ ToData(Slice(s)) \subseteq Held(s)
         /\ ToData(Slice(s)) \subseteq ToData(s.fire_buffer)
<1>1. IsCache(s) /\ s.fire_offset \in Nat /\ Len(s.fire_buffer) \in Nat
  BY DEF Sound, IsCache
<1>2. /\ Len(Slice(s)) \in Nat /\ Len(Slice(s)) <= Len(Pending(s))
      /\ \A i \in 1 .. Len(Slice(s)) : Slice(s)[i] = Pending(s)[i]
      /\ ToData(Slice(s)) \subseteq ToData(Pending(s))
  BY <1>1, SliceIs
<1>3. /\ Len(Pending(s)) \in Nat
      /\ \A i \in 1 .. Len(Pending(s)) :
           /\ Pending(s)[i] = s.fire_buffer[s.fire_offset + i - 1]
           /\ s.fire_offset + i - 1 \in 1 .. Len(s.fire_buffer)
      /\ ToData(Pending(s)) \subseteq ToData(s.fire_buffer)
  BY <1>1, PendingIs
<1>4. Increasing(s.fire_buffer)
  <2>1. CASE s.files = <<>>
    BY <2>1 DEF Sound, Increasing
  <2>2. CASE s.files # <<>>
    BY <2>2 DEF Ordered, FiredOrdered
  <2> QED BY <2>1, <2>2
<1>5. Increasing(Pending(s))
  <2> SUFFICES ASSUME NEW i \in 1 .. Len(Pending(s)), NEW j \in 1 .. Len(Pending(s)), i < j
               PROVE  Pending(s)[i] < Pending(s)[j]
    BY DEF Increasing
  <2> DEFINE o == s.fire_offset
  <2>2. o \in Int /\ i \in Int /\ j \in Int
    BY <1>1, <1>3 DEF IsCache
  <2> HIDE DEF o
  <2>3. o + i - 1 < o + j - 1
    BY ONLY <2>2, i < j
  <2>1. s.fire_offset + i - 1 < s.fire_offset + j - 1
    BY <2>3 DEF o
  <2> QED BY <1>3, <1>4, <2>1 DEF Increasing
<1>6. Increasing(Slice(s))
  <2>1. \A i \in 1 .. Len(Slice(s)) : i \in 1 .. Len(Pending(s))
    BY <1>2, <1>3
  <2> QED BY <1>2, <1>5, <2>1 DEF Increasing
<1>7. Older(Held(s), {m})
  <2> SUFFICES ASSUME NEW x \in Held(s)
               PROVE  x < m
    BY DEF Older
  <2>1. \/ x \in ToData(s.buffer)
        \/ (s.files # <<>> /\ x \in ToData(s.fire_buffer))
        \/ \E j \in 2 .. Len(s.files) : x \in ToData(File(s, j))
    BY HeldIs
  <2>2. CASE x \in ToData(s.buffer)
    BY <2>2 DEF Ordered, Older
  <2>3. CASE s.files # <<>> /\ x \in ToData(s.fire_buffer)
    BY <2>3 DEF Ordered, FiredOrdered, Older
  <2>4. CASE \E j \in 2 .. Len(s.files) : x \in ToData(File(s, j))
    <3>1. PICK j \in 2 .. Len(s.files) : x \in ToData(File(s, j))
      BY <2>4
    <3>2. j \in 1 .. Len(s.files)
      BY <1>1 DEF IsCache
    <3> QED BY <3>1, <3>2 DEF Ordered, Older
  <2> QED BY <2>1, <2>2, <2>3, <2>4
<1>8. ToData(Slice(s)) \subseteq Held(s)
  BY <1>2, HeldIs
<1> QED BY <1>2, <1>3, <1>5, <1>6, <1>7, <1>8

LEMMA InitOInv == Init => OInv
<1> SUFFICES ASSUME Init PROVE OInv
  OBVIOUS
<1>1. /\ fb.files = <<>> /\ fb.buffer = <<>> /\ fb.fire_buffer = <<>>
      /\ fb.overtook = {} /\ acked = <<>> /\ batch = <<>> /\ pc = "sleep"
  BY DEF Init, EmptyCache
<1>2. ToData(<<>>) = {}
  BY DEF ToData
<1>3. Ordered(fb, next)
  BY <1>1, <1>2 DEF Ordered, Increasing, Older
<1>4. InTurn = {}
  BY <1>1, <1>2 DEF InTurn
<1>5. FlightOK
  BY <1>1, <1>2 DEF FlightOK, Increasing, Older
<1>6. AckedOK
  BY <1>1, <1>2, <1>4 DEF AckedOK, Older
<1> QED BY <1>1, <1>3, <1>5, <1>6 DEF OInv, NoFaultOK

(* Without a batch nothing in flight can be out of order.                  *)
LEMMA NoFlight == batch = <<>> => FlightOK
<1>1. ToData(<<>>) = {} /\ Increasing(<<>>)
  BY DEF ToData, Increasing
<1> QED BY <1>1 DEF FlightOK, Older

(* A datum accepted as it is pushed: the cache is empty.                   *)
LEMMA DirectOrder ==
  ASSUME IInv, OInv, Push, Empty(fb), acked' = Append(acked, next),
         fb' = IF pc = "call" THEN [fb EXCEPT !.overtook = @ \cup {next}] ELSE fb
  PROVE  OInv'
<1> USE DEF IInv
<1>1. /\ IsCache(fb) /\ next \in Data /\ next' = next + 1 /\ next \in Nat
      /\ acked \in Seq(Data) /\ Len(acked) \in Nat /\ fb.overtook \subseteq Data
      /\ UNCHANGED <<pc, working, batch, stopped>>
  <2>1. next \in 1 .. MaxPush + 1 /\ next <= MaxPush /\ acked \in Seq(Data) /\ IsCache(fb)
    BY DEF Push, TypeOK
  <2>2. next \in Data /\ next \in Nat
    BY <2>1, FileBufferAssumption DEF Data
  <2>3. fb.overtook \subseteq Data
    BY <2>1 DEF IsCache
  <2>4. next' = next + 1 /\ UNCHANGED <<pc, working, batch, stopped>>
    BY DEF Push
  <2> QED BY <2>1, <2>2, <2>3, <2>4
<1>2. /\ fb'.files = fb.files /\ fb'.buffer = fb.buffer /\ fb'.faulty = fb.faulty
      /\ fb'.fire_buffer = fb.fire_buffer /\ fb'.fire_offset = fb.fire_offset
      /\ fb'.fire_index = fb.fire_index /\ fb'.disk = fb.disk
      /\ fb'.overtook = IF pc = "call" THEN fb.overtook \cup {next} ELSE fb.overtook
  BY <1>1 DEF IsCache
<1>3. /\ fb.files = <<>> /\ fb.buffer = <<>> /\ fb.fire_buffer = <<>>
      /\ ToData(<<>>) = {} /\ Increasing(<<>>)
  BY DEF Empty, ToData, Increasing
<1>4. Ordered(fb', next')
  BY <1>2, <1>3 DEF Ordered, Older
<1>5. Held(fb') = {}
  <2> SUFFICES ASSUME NEW x \in Held(fb') PROVE FALSE
    OBVIOUS
  <2>1. \/ x \in ToData(Pending(fb')) \/ x \in ToData(fb'.buffer)
        \/ \E j \in 2 .. Len(fb'.files) : x \in ToData(File(fb', j))
    BY IsHeld
  <2>2. Pending(fb') = <<>>
    <3>1. fb'.fire_offset \in Nat \ {0} /\ fb'.fire_buffer = <<>>
      BY <1>1, <1>2, <1>3 DEF IsCache
    <3> QED BY <3>1 DEF Pending
  <2> QED BY <1>2, <1>3, <2>1, <2>2
<1>6. /\ \A i \in 1 .. Len(acked) : acked'[i] = acked[i] /\ acked[i] \in Data
      /\ acked'[Len(acked) + 1] = next /\ Len(acked') = Len(acked) + 1
  BY <1>1
<1>7. \A i \in 1 .. Len(acked') : i \in 1 .. Len(acked) \/ i = Len(acked) + 1
  BY <1>1, <1>6
<1>8. ToData(acked') \subseteq ToData(acked) \cup {next}
  BY <1>6, <1>7 DEF ToData
<1>9. ToData(acked) \subseteq Data /\ ToData(batch) \subseteq Data
  BY <1>1 DEF ToData, TypeOK
<1>10. \A x \in Data : x < next => x < next'
  BY <1>1 DEF Data
<1>11. AckedOK'
  <2>1. ASSUME NEW i \in 1 .. Len(acked'), NEW j \in 1 .. Len(acked'), i < j,
               acked'[i] \notin fb'.overtook, acked'[j] \notin fb'.overtook
        PROVE  acked'[i] < acked'[j]
    <3>1. i \in 1 .. Len(acked) /\ acked'[i] = acked[i] /\ acked[i] \notin fb.overtook
      BY <1>1, <1>2, <1>6, <2>1
    <3>2. CASE j \in 1 .. Len(acked)
      <4>1. acked'[j] = acked[j] /\ acked[j] \notin fb.overtook
        BY <1>2, <1>6, <2>1, <3>2
      <4> QED BY <2>1, <3>1, <3>2, <4>1 DEF OInv, AckedOK
    <3>3. CASE j = Len(acked) + 1
      BY <1>6, <3>1, <3>3 DEF OInv, AckedOK, Older, ToData
    <3> QED BY <1>7, <3>2, <3>3
  <2>2. Older(ToData(acked'), {next'})
    <3>1. next < next'
      BY <1>1
    <3>2. \A x \in ToData(acked) : x < next'
      BY <1>9, <1>10 DEF OInv, AckedOK, Older
    <3> QED BY <1>8, <3>1, <3>2 DEF Older
  <2>3. Older(InTurn', Held(fb'))
    BY <1>5 DEF Older
  <2> QED BY <2>1, <2>2, <2>3 DEF AckedOK, ToData
<1>12. FlightOK'
  <2>1. CASE pc = "call"
    <3>1. InTurn' \subseteq InTurn
      BY <1>2, <1>8, <2>1 DEF InTurn, ToData
    <3>2. Older(ToData(batch), {next'})
      BY <1>9, <1>10 DEF OInv, FlightOK, Older
    <3>3. Older(ToData(batch), Held(fb'))
      BY <1>5 DEF Older
    <3>4. Older(InTurn', ToData(batch)) /\ Increasing(batch)
      BY <3>1 DEF OInv, FlightOK, Older
    <3>5. batch' = batch /\ pc' = pc
      BY <1>1
    <3> QED BY <2>1, <3>2, <3>3, <3>4, <3>5 DEF FlightOK, ToData
  <2>2. CASE pc # "call"
    <3>1. batch' = <<>>
      BY <1>1, <2>2 DEF OInv, FlightOK
    <3>2. (batch = <<>>)' => FlightOK'
      BY NoFlight, PTL
    <3> QED BY <3>1, <3>2
  <2> QED BY <2>1, <2>2
<1>13. NoFaultOK'
  BY <1>1, <1>2, <1>3 DEF OInv, NoFaultOK
<1> QED BY <1>4, <1>11, <1>12, <1>13 DEF OInv

(* A push into the cache.                                                  *)
LEMMA PushOrder ==
  ASSUME IInv, OInv, Push, fb' \in Pushes(fb, next), UNCHANGED acked, fb'.raised = 0
  PROVE  OInv'
<1> USE DEF IInv
<1>1. /\ next \in Data /\ next' = next + 1
      /\ UNCHANGED <<pc, working, batch, stopped, acked>>
  <2>1. next \in 1 .. MaxPush + 1 /\ next <= MaxPush
    BY DEF Push, TypeOK
  <2>2. next \in Data
    BY <2>1, FileBufferAssumption DEF Data
  <2> QED BY <2>2 DEF Push
<1>2. /\ Ordered(fb', next + 1) /\ Held(fb') \subseteq Held(fb) \cup {next}
      /\ Outlived(fb, fb') /\ fb'.overtook = fb.overtook
      /\ ~fb'.faulty => ~fb.faulty /\ (fb.files # <<>> => fb'.files # <<>>)
  BY <1>1, PushesOrdered DEF OInv
<1>3. InTurn' = InTurn
  BY <1>1, <1>2 DEF InTurn
<1>4. \A x \in Data : x < next => x < next'
  BY <1>1 DEF Data
<1>5. ToData(acked) \subseteq Data /\ ToData(batch) \subseteq Data
  BY DEF ToData, TypeOK
<1>6. AckedOK'
  <2>1. Older(ToData(acked), {next'})
    BY <1>4, <1>5 DEF OInv, AckedOK, Older
  <2>2. Older(InTurn, Held(fb'))
    BY <1>2 DEF OInv, AckedOK, Older, InTurn
  <2>3. \A i, j \in 1 .. Len(acked) :
          i < j /\ acked[i] \notin fb'.overtook /\ acked[j] \notin fb'.overtook
          => acked[i] < acked[j]
    BY <1>2 DEF OInv, AckedOK
  <2> QED BY <1>1, <1>3, <2>1, <2>2, <2>3 DEF AckedOK, ToData
<1>7. FlightOK'
  <2>1. Older(ToData(batch), {next'})
    BY <1>4, <1>5 DEF OInv, FlightOK, Older
  <2>2. \/ batch = Slice(fb') /\ working = fb'.fire_index
        \/ Older(ToData(batch), Held(fb'))
    <3>1. CASE Older(ToData(batch), Held(fb))
      BY <1>2, <3>1 DEF OInv, FlightOK, Older
    <3>2. CASE batch = Slice(fb) /\ working = fb.fire_index
      <4>1. CASE Pending(fb') = Pending(fb) /\ fb'.fire_index = fb.fire_index
        BY <3>2, <4>1 DEF Slice
      <4>2. CASE Older(ToData(fb.fire_buffer), Held(fb'))
        <5>1. ToData(batch) \subseteq ToData(fb.fire_buffer)
          BY <3>2, SliceOrdered DEF OInv
        <5> QED BY <4>2, <5>1 DEF Older
      <4> QED BY <1>2, <4>1, <4>2 DEF Outlived
    <3> QED BY <3>1, <3>2 DEF OInv, FlightOK
  <2>3. Increasing(batch) /\ Older(InTurn, ToData(batch)) /\ (pc # "call" => batch = <<>>)
    BY DEF OInv, FlightOK
  <2>4. batch' = batch /\ pc' = pc /\ working' = working
    BY <1>1
  <2> QED BY <1>3, <2>1, <2>2, <2>3, <2>4 DEF FlightOK, ToData
<1>8. NoFaultOK'
  BY <1>1, <1>2 DEF OInv, NoFaultOK
<1> QED BY <1>1, <1>2, <1>6, <1>7, <1>8 DEF OInv

(* The hand-over of a batch, possibly after a dump of the tail.            *)
LEMMA FireOrder ==
  ASSUME IInv, OInv, Fire, ~Empty(fb), fb'.raised = 0
  PROVE  OInv'
<1> USE DEF IInv
<1>1. /\ fb' \in (IF fb.fire_index = None /\ fb.files = <<>> THEN Dumps(fb) ELSE {fb})
      /\ working' = fb'.fire_index /\ batch' = Slice(fb') /\ pc' = "call"
      /\ UNCHANGED <<next, stopped, acked>>
  BY DEF Fire
<1>2. /\ Ordered(fb', next) /\ Held(fb') \subseteq Held(fb)
      /\ fb'.overtook = fb.overtook
      /\ ~fb'.faulty => ~fb.faulty /\ fb'.files # <<>>
      /\ Sound(fb', MaxFiles)
  <2>1. CASE fb.files = <<>>
    <3>1. fb' \in Dumps(fb)
      BY <1>1, <2>1 DEF Sound
    <3>2. fb.fire_buffer = <<>> /\ fb.buffer # <<>>
      BY <2>1 DEF Sound, Empty
    <3>3. Len(fb.buffer) \in 1 .. Room(fb)
      BY <3>2, FileBufferAssumption DEF Sound, IsCache, Room
    <3>4. Sound(fb', MaxFiles)
      BY <3>1, <3>3, DumpsSound
    <3> QED BY <3>1, <3>3, <3>4, DumpsOrdered DEF OInv
  <2>2. CASE fb.files # <<>>
    <3>1. fb' = fb
      BY <1>1, <2>2
    <3> QED BY <2>2, <3>1 DEF OInv
  <2> QED BY <2>1, <2>2
<1>3. InTurn' = InTurn
  BY <1>1, <1>2 DEF InTurn
<1>4. /\ Older(Held(fb'), {next}) /\ Increasing(batch')
      /\ ToData(batch') \subseteq Held(fb')
  BY <1>1, <1>2, SliceOrdered
<1>5. Older(InTurn, Held(fb'))
  BY <1>2 DEF OInv, AckedOK, Older
<1>6. AckedOK'
  <2>1. \A i, j \in 1 .. Len(acked) :
          i < j /\ acked[i] \notin fb'.overtook /\ acked[j] \notin fb'.overtook
          => acked[i] < acked[j]
    BY <1>2 DEF OInv, AckedOK
  <2>2. Older(ToData(acked), {next})
    BY DEF OInv, AckedOK
  <2> QED BY <1>1, <1>3, <1>5, <2>1, <2>2 DEF AckedOK, ToData
<1>7. FlightOK'
  <2>1. Older(ToData(batch'), {next}) /\ Older(InTurn, ToData(batch'))
    BY <1>4, <1>5 DEF Older
  <2>2. (ToData(batch))' = ToData(batch')
    BY DEF ToData
  <2>3. (Increasing(batch))' = Increasing(batch')
    BY DEF Increasing
  <2>4. (Older(ToData(batch), {next}))' /\ (Older(InTurn, ToData(batch)))'
    BY <1>1, <1>3, <2>1, <2>2 DEF Older
  <2> QED BY <1>1, <1>4, <2>3, <2>4 DEF FlightOK
<1>8. NoFaultOK'
  BY <1>1, <1>2 DEF OInv, NoFaultOK
<1> QED BY <1>1, <1>2, <1>6, <1>7, <1>8 DEF OInv

(* The first data of the batch are confirmed and leave the cache.          *)
LEMMA FireOkOrder ==
  ASSUME IInv, OInv, NEW done \in 1 .. Len(batch), FireOk(done)
  PROVE  OInv'
<1> USE DEF IInv
<1>1. /\ pc = "call" /\ done \in 1 .. Len(batch) /\ done \in Nat \ {0}
      /\ batch \in Seq(Data) /\ batch # <<>> /\ Len(batch) \in Nat
      /\ acked \in Seq(Data) /\ Len(acked) \in Nat
      /\ acked' = acked \o SubSeq(batch, 1, done)
      /\ fb' \in Advances(fb, done) \/ fb' \in AdvanceRaises(fb, done)
      /\ batch' = <<>> /\ pc' # "call"
      /\ UNCHANGED <<next, working, stopped>>
  BY DEF FireOk, TypeOK
<1>2. working # None /\ working \in Index \cup {None} /\ OffsetOK(fb)
  BY <1>1 DEF TypeOK
<1>3. /\ Ordered(fb', next) /\ Held(fb') \subseteq Held(fb) /\ fb'.overtook = fb.overtook
      /\ ~fb'.faulty => ~fb.faulty
      /\ working = fb.fire_index /\ done <= Len(Slice(fb)) =>
           \A i \in 1 .. done : Older({Slice(fb)[i]}, Held(fb'))
  <2>1. CASE fb' \in Advances(fb, done)
    BY <1>1, <1>2, <2>1, AdvancesOrdered DEF OInv
  <2>2. CASE fb' \in AdvanceRaises(fb, done)
    <3>1. /\ Ordered(fb', next) /\ Held(fb') \subseteq Held(fb) /\ fb'.overtook = fb.overtook
          /\ fb'.faulty = TRUE /\ Older(ToData(fb.fire_buffer), Held(fb'))
      BY <1>1, <1>2, <2>2, AdvanceRaisesOrdered DEF OInv
    <3>2. ToData(Slice(fb)) \subseteq ToData(fb.fire_buffer) /\ Len(Slice(fb)) \in Nat
      BY SliceOrdered, SliceIs DEF OInv, Sound
    <3>3. ASSUME done <= Len(Slice(fb)), NEW i \in 1 .. done
          PROVE  Older({Slice(fb)[i]}, Held(fb'))
      <4>1. i \in 1 .. Len(Slice(fb))
        BY <1>1, <3>2, <3>3
      <4>2. Slice(fb)[i] \in ToData(fb.fire_buffer)
        BY <3>2, <4>1 DEF ToData
      <4> QED BY <3>1, <4>2 DEF Older
    <3> QED BY <3>1, <3>3
  <2> QED BY <1>1, <2>1, <2>2
<1>4. /\ Len(acked') = Len(acked) + done
      /\ \A i \in 1 .. Len(acked) : acked'[i] = acked[i]
      /\ \A i \in 1 .. done : acked'[Len(acked) + i] = batch[i] /\ i \in 1 .. Len(batch)
  <2>1. /\ SubSeq(batch, 1, done) \in Seq(Data) /\ Len(SubSeq(batch, 1, done)) = done
        /\ \A i \in 1 .. done : SubSeq(batch, 1, done)[i] = batch[i] /\ i \in 1 .. Len(batch)
    BY <1>1
  <2> HIDE DEF IInv
  <2>2. /\ Len(acked') = Len(acked) + done
        /\ \A i \in 1 .. Len(acked) : acked'[i] = acked[i]
        /\ \A i \in 1 .. done : acked'[Len(acked) + i] = SubSeq(batch, 1, done)[i]
    BY <1>1, <2>1
  <2> QED BY <2>1, <2>2
<1>5. \A i \in 1 .. Len(acked') : i \in 1 .. Len(acked) \/ \E k \in 1 .. done : i = Len(acked) + k
  <2> SUFFICES ASSUME NEW i \in 1 .. Len(acked'), i \notin 1 .. Len(acked)
               PROVE  \E k \in 1 .. done : i = Len(acked) + k
    OBVIOUS
  <2>1. i - Len(acked) \in 1 .. done /\ i = Len(acked) + (i - Len(acked))
    BY <1>1, <1>4
  <2> QED BY <2>1
<1>6. \A x \in ToData(acked') : x \in ToData(acked) \/ \E k \in 1 .. done : x = batch[k]
  <2> SUFFICES ASSUME NEW i \in 1 .. Len(acked')
               PROVE  acked'[i] \in ToData(acked) \/ \E k \in 1 .. done : acked'[i] = batch[k]
    BY DEF ToData
  <2>1. CASE i \in 1 .. Len(acked)
    BY <1>4, <2>1 DEF ToData
  <2>2. CASE \E k \in 1 .. done : i = Len(acked) + k
    BY <1>4, <2>2
  <2> QED BY <1>5, <2>1, <2>2
<1>7. ASSUME NEW i \in 1 .. done
      PROVE  Older({batch[i]}, Held(fb'))
  <2>1. CASE Older(ToData(batch), Held(fb))
    <3>1. batch[i] \in ToData(batch)
      BY <1>4 DEF ToData
    <3> QED BY <1>3, <2>1, <3>1 DEF Older
  <2>2. CASE batch = Slice(fb) /\ working = fb.fire_index
    BY <1>1, <1>3, <2>2
  <2> QED BY <2>1, <2>2 DEF OInv, FlightOK
<1>8. AckedOK'
  <2>1. ASSUME NEW i \in 1 .. Len(acked'), NEW j \in 1 .. Len(acked'), i < j,
               acked'[i] \notin fb'.overtook, acked'[j] \notin fb'.overtook
        PROVE  acked'[i] < acked'[j]
    <3>1. CASE i \in 1 .. Len(acked) /\ j \in 1 .. Len(acked)
      BY <1>3, <1>4, <2>1, <3>1 DEF OInv, AckedOK
    <3>2. CASE i \in 1 .. Len(acked) /\ \E k \in 1 .. done : j = Len(acked) + k
      <4>1. PICK k \in 1 .. done : j = Len(acked) + k
        BY <3>2
      <4>2. acked'[j] \in ToData(batch)
        BY <1>4, <4>1 DEF ToData
      <4>3. acked'[i] \in InTurn
        BY <1>3, <1>4, <2>1, <3>2 DEF InTurn, ToData
      <4> QED BY <4>2, <4>3 DEF OInv, FlightOK, Older
    <3>3. CASE \E k \in 1 .. done : i = Len(acked) + k
      <4>1. PICK k \in 1 .. done : i = Len(acked) + k
        BY <3>3
      <4>2. j \notin 1 .. Len(acked)
        BY <1>1, <2>1, <4>1
      <4>3. PICK l \in 1 .. done : j = Len(acked) + l
        BY <1>5, <4>2
      <4>4. k < l
        BY <1>1, <2>1, <4>1, <4>3
      <4>5. batch[k] < batch[l]
        BY <1>4, <4>4 DEF OInv, FlightOK, Increasing
      <4> QED BY <1>4, <4>1, <4>3, <4>5
    <3> QED BY <1>5, <3>1, <3>2, <3>3
  <2>2. Older(ToData(acked'), {next})
    <3>1. \A k \in 1 .. done : batch[k] \in ToData(batch)
      BY <1>4 DEF ToData
    <3> QED BY <1>6, <3>1 DEF OInv, AckedOK, FlightOK, Older
  <2>3. Older(InTurn', Held(fb'))
    <3> SUFFICES ASSUME NEW x \in InTurn', NEW y \in Held(fb')
                 PROVE  x < y
      BY DEF Older
    <3>1. x \in ToData(acked') /\ x \notin fb.overtook
      BY <1>3 DEF InTurn, ToData
    <3>2. CASE x \in ToData(acked)
      <4>1. x \in InTurn
        BY <3>1, <3>2 DEF InTurn
      <4> QED BY <1>3, <4>1 DEF OInv, AckedOK, Older
    <3>3. CASE \E k \in 1 .. done : x = batch[k]
      BY <1>7, <3>3 DEF Older
    <3> QED BY <1>6, <3>1, <3>2, <3>3
  <2>4. (Older(ToData(acked), {next}))' /\ (Older(InTurn, Held(fb)))'
    <3>1. (ToData(acked))' = ToData(acked') /\ (Held(fb))' = Held(fb') /\ next' = next
      BY <1>1 DEF ToData, Held, Pending
    <3> QED BY <2>2, <2>3, <3>1 DEF Older
  <2> QED BY <2>1, <2>4 DEF AckedOK
<1>9. FlightOK'
  <2>1. (batch = <<>>)' => FlightOK'
    BY NoFlight, PTL
  <2> QED BY <1>1, <2>1
<1>10. NoFaultOK'
  BY <1>1, <1>3 DEF OInv, NoFaultOK
<1>11. (Ordered(fb, next))'
  BY <1>1, <1>3 DEF Ordered, FiredOrdered, Older, Increasing, File, ToData
<1> QED BY <1>8, <1>9, <1>10, <1>11 DEF OInv

(* Pushes that ended with an error are not forgotten.                      *)
LEMMA RaisedGrows == IInv /\ [Next]_vars => fb.raised \in Nat /\ (fb'.raised = 0 => fb.raised = 0)
<1> SUFFICES ASSUME IInv, [Next]_vars
             PROVE  fb.raised \in Nat /\ (fb'.raised = 0 => fb.raised = 0)
  OBVIOUS
<1> USE DEF IInv
<1>1. fb.raised \in Nat /\ IsCache(fb)
  BY DEF Sound, IsCache
<1>2. CASE fb'.raised \in {fb.raised, fb.raised + 1}
  BY <1>1, <1>2
<1>3. CASE Push
  <2>1. next \in Data
    BY SMTT(30), <1>3, FileBufferAssumption DEF Push, TypeOK, Data
  <2>2. CASE fb' \in Pushes(fb, next)
    BY <1>2, <2>1, <2>2, PushesSound
  <2>3. CASE fb' = fb
    BY <1>1, <2>3
  <2>4. CASE fb' = [fb EXCEPT !.overtook = @ \cup {next}]
    BY <1>1, <2>4 DEF IsCache
  <2> QED BY <1>3, <2>2, <2>3, <2>4 DEF Push
<1>4. CASE Fire
  <2>1. CASE fb' = fb
    BY <1>1, <2>1
  <2>2. CASE ~Empty(fb) /\ fb.files = <<>> /\ fb' \in Dumps(fb)
    <3>1. fb.fire_buffer = <<>> /\ fb.buffer # <<>>
      BY <2>2 DEF Sound, Empty
    <3>2. Len(fb.buffer) \in 1 .. Room(fb)
      BY <3>1, FileBufferAssumption DEF Sound, IsCache, Room
    <3> QED BY <1>2, <2>2, <3>2, DumpsSound
  <2> QED BY <1>4, <2>1, <2>2 DEF Fire
<1>5. ASSUME NEW done \in 1 .. Len(batch), FireOk(done)
      PROVE  fb'.raised = fb.raised
  <2>1. /\ done \in Nat \ {0} /\ OffsetOK(fb) /\ working # None /\ working \in Index \cup {None}
        /\ fb' \in Advances(fb, done) \/ fb' \in AdvanceRaises(fb, done)
    BY <1>5 DEF FireOk, TypeOK
  <2> QED BY <2>1, AdvancesSound, AdvanceRaisesSound
<1>6. CASE UNCHANGED fb
  BY <1>1, <1>6
<1> QED BY <1>1, <1>3, <1>4, <1>5, <1>6 DEF Next, Wake, End, FireFail, Stop, vars

LEMMA NextOInv == IInv /\ OInv /\ [Next]_vars /\ fb'.raised = 0 => OInv'
<1> SUFFICES ASSUME IInv, OInv, [Next]_vars, fb'.raised = 0 PROVE OInv'
  OBVIOUS
<1>10. ASSUME UNCHANGED <<fb, next, acked>>
       PROVE  (Ordered(fb, next))' /\ AckedOK' /\ InTurn' = InTurn
  <2>1. (Ordered(fb, next))' = Ordered(fb, next)
    <3>1. (Ordered(fb, next))' = Ordered(fb', next')
      BY DEF Ordered, FiredOrdered, Older, Increasing, File, ToData
    <3> QED BY <1>10, <3>1
  <2>2. InTurn' = InTurn
    BY <1>10 DEF InTurn, ToData
  <2>3. (Older(ToData(acked), {next}))' /\ (Older(InTurn, Held(fb)))'
    <3>1. (ToData(acked))' = ToData(acked) /\ (Held(fb))' = Held(fb) /\ next' = next
      BY <1>10 DEF ToData, Held, Pending
    <3> QED BY <2>2, <3>1 DEF OInv, AckedOK, Older
  <2> QED BY <1>10, <2>1, <2>2, <2>3 DEF OInv, AckedOK
<1>11. ASSUME UNCHANGED <<fb, next, acked, batch, working>>, pc' = "call" <=> pc = "call"
       PROVE  FlightOK' /\ NoFaultOK'
  <2>1. InTurn' = InTurn
    BY <1>10, <1>11
  <2>2. /\ (ToData(batch))' = ToData(batch) /\ (Held(fb))' = Held(fb)
        /\ (Slice(fb))' = Slice(fb) /\ (Increasing(batch))' = Increasing(batch)
    BY <1>11 DEF ToData, Held, Pending, Slice, Increasing
  <2>3. /\ (Older(ToData(batch), {next}))' /\ (Older(InTurn, ToData(batch)))'
        /\ (Older(ToData(batch), Held(fb)))' = Older(ToData(batch), Held(fb))
    BY <1>11, <2>1, <2>2 DEF OInv, FlightOK, Older
  <2>4. (pc # "call" => batch = <<>>)'
    BY <1>11 DEF OInv, FlightOK
  <2>5. FlightOK'
    BY <1>11, <2>2, <2>3, <2>4 DEF OInv, FlightOK
  <2> QED BY <1>11, <2>5 DEF OInv, NoFaultOK
<1>1. ASSUME UNCHANGED <<fb, next, working, batch, acked>>, pc # "call", pc' # "call"
      PROVE  OInv'
  BY <1>1, <1>10, <1>11 DEF OInv
<1>2. CASE Push
  <2>1. CASE fb' \in Pushes(fb, next) /\ UNCHANGED acked
    BY <1>2, <2>1, PushOrder
  <2>2. CASE /\ Empty(fb) /\ acked' = Append(acked, next)
             /\ fb' = IF pc = "call" THEN [fb EXCEPT !.overtook = @ \cup {next}] ELSE fb
    BY <1>2, <2>2, DirectOrder
  <2> QED BY <1>2, <2>1, <2>2 DEF Push
<1>3. CASE Wake
  BY <1>1, <1>3 DEF Wake
<1>4. CASE End
  BY <1>1, <1>4 DEF End
<1>5. CASE Fire
  <2>1. CASE Empty(fb)
    BY <1>1, <1>5, <2>1 DEF Fire
  <2> QED BY <1>5, <2>1, FireOrder
<1>6. CASE FireFail
  <2>1. UNCHANGED <<fb, next, acked>> /\ batch' = <<>> /\ pc' = "sleep"
    BY <1>6 DEF FireFail
  <2>2. (batch = <<>>)' => FlightOK'
    BY NoFlight, PTL
  <2>3. (Ordered(fb, next))' /\ AckedOK' /\ NoFaultOK'
    BY <1>10, <2>1 DEF OInv, NoFaultOK
  <2> QED BY <2>1, <2>2, <2>3 DEF OInv
<1>7. CASE Stop
  BY <1>7, <1>10, <1>11 DEF Stop, OInv
<1>8. ASSUME NEW done \in 1 .. Len(batch), FireOk(done)
      PROVE  OInv'
  BY <1>8, FireOkOrder
<1>9. CASE UNCHANGED vars
  BY <1>9, <1>10, <1>11 DEF vars, OInv
<1> QED BY <1>2, <1>3, <1>4, <1>5, <1>6, <1>7, <1>8, <1>9 DEF Next

(* The order of the pieces is the order of all that was pushed.            *)
LEMMA OInvInOrder == IInv /\ OInv => InOrder
<1> SUFFICES ASSUME IInv, OInv PROVE InOrder
  OBVIOUS
<1> DEFINE n == Len(fb.files)
<1>1. /\ Sound(fb, MaxFiles) /\ IsCache(fb) /\ n \in Nat
      /\ Len(acked) \in Nat /\ Len(fb.buffer) \in Nat /\ Len(Pending(fb)) \in Nat
  <2>1. Sound(fb, MaxFiles) /\ IsCache(fb) /\ acked \in Seq(Data)
    BY DEF IInv, Sound, TypeOK
  <2>2. fb.files \in Seq(Index) /\ fb.buffer \in Seq(Data)
    BY <2>1 DEF IsCache
  <2> QED BY <2>1, <2>2, PendingIs
<1>2. DOMAIN Pieces = 0 .. n + 1
  BY DEF Pieces
<1>3. /\ Pieces[0] = acked
      /\ Pieces[n + 1] = fb.buffer
      /\ n > 0 => Pieces[1] = Pending(fb)
      /\ \A k \in 2 .. n : Pieces[k] = File(fb, k)
  BY <1>1 DEF Pieces, File
<1> DEFINE Piece(k) == ToData(Pieces[k])
<1> HIDE DEF n
<1>4. \A k \in 1 .. n + 1 : k = n + 1 \/ (k = 1 /\ n > 0) \/ k \in 2 .. n
  BY <1>1
<1>5. \A k \in 1 .. n + 1 : Piece(k) \subseteq Held(fb) /\ Increasing(Pieces[k])
  <2> SUFFICES ASSUME NEW k \in 1 .. n + 1
               PROVE  Piece(k) \subseteq Held(fb) /\ Increasing(Pieces[k])
    OBVIOUS
  <2>1. CASE k = n + 1
    <3>1. Increasing(fb.buffer)
      BY DEF OInv, Ordered
    <3>2. ToData(fb.buffer) \subseteq Held(fb)
      BY <1>1, HeldIs
    <3> QED BY <1>3, <2>1, <3>1, <3>2
  <2>2. CASE k = 1 /\ n > 0
    <3>1. Increasing(Pending(fb))
      BY <1>1, SliceOrdered DEF OInv
    <3>2. ToData(Pending(fb)) \subseteq Held(fb)
      BY <1>1, HeldIs
    <3> QED BY <1>3, <2>2, <3>1, <3>2
  <2>3. CASE k \in 2 .. n
    <3>1. k \in 1 .. Len(fb.files)
      BY <1>1, <2>3 DEF n
    <3>2. Increasing(File(fb, k))
      BY <3>1 DEF OInv, Ordered
    <3>3. ToData(File(fb, k)) \subseteq Held(fb)
      BY <1>1, <2>3, HeldIs DEF n
    <3> QED BY <1>3, <2>3, <3>2, <3>3
  <2> QED BY <1>4, <2>1, <2>2, <2>3
<1>6. \A j, k \in 1 .. n + 1 : j < k => Older(Piece(j), Piece(k))
  <2> SUFFICES ASSUME NEW j \in 1 .. n + 1, NEW k \in 1 .. n + 1, j < k
               PROVE  Older(Piece(j), Piece(k))
    OBVIOUS
  <2>1. j \in 1 .. Len(fb.files) /\ (k = n + 1 \/ k \in 2 .. n)
    BY <1>1, <1>4 DEF n
  <2>2. CASE j = 1
    <3>1. n > 0 /\ fb.files # <<>>
      BY <1>1, <2>1, <2>2 DEF n
    <3>2. FiredOrdered(fb, next)
      BY <3>1 DEF OInv, Ordered
    <3>3. ToData(Pending(fb)) \subseteq ToData(fb.fire_buffer)
      BY <1>1, PendingIs
    <3>4. Piece(j) \subseteq ToData(fb.fire_buffer)
      BY <1>3, <2>2, <3>1, <3>3
    <3>5. CASE k = n + 1
      <4>1. Older(ToData(fb.fire_buffer), ToData(fb.buffer))
        BY <3>2 DEF FiredOrdered, Older
      <4> QED BY <1>3, <3>4, <3>5, <4>1 DEF Older
    <3>6. CASE k \in 2 .. n
      <4>1. Older(ToData(fb.fire_buffer), ToData(File(fb, k)))
        BY <3>2, <3>6 DEF FiredOrdered, n
      <4> QED BY <1>3, <3>4, <3>6, <4>1 DEF Older
    <3> QED BY <2>1, <3>5, <3>6
  <2>3. CASE j \in 2 .. n
    <3>1. Piece(j) = ToData(File(fb, j))
      BY <1>3, <2>3
    <3>2. CASE k = n + 1
      <4>1. Older(ToData(File(fb, j)), ToData(fb.buffer))
        BY <2>1 DEF OInv, Ordered, Older
      <4> QED BY <1>3, <3>1, <3>2, <4>1 DEF Older
    <3>3. CASE k \in 2 .. n
      <4>1. k \in 1 .. Len(fb.files)
        BY <1>1, <3>3 DEF n
      <4>2. Older(ToData(File(fb, j)), ToData(File(fb, k)))
        BY <2>1, <4>1 DEF OInv, Ordered
      <4> QED BY <1>3, <3>1, <3>3, <4>2 DEF Older
    <3> QED BY <2>1, <3>2, <3>3
  <2> QED BY <1>1, <2>1, <2>2, <2>3 DEF n
<1> HIDE DEF Piece
<1>7. ASSUME NEW p \in Places, NEW q \in Places, Ahead(p, q),
             DatumAt(p) \notin fb.overtook, DatumAt(q) \notin fb.overtook
      PROVE  DatumAt(p) < DatumAt(q)
  <2>1. /\ p[1] \in 0 .. n + 1 /\ p[2] \in 1 .. Len(Pieces[p[1]])
        /\ q[1] \in 0 .. n + 1 /\ q[2] \in 1 .. Len(Pieces[q[1]])
    BY <1>2 DEF Places
  <2>2. DatumAt(p) \in Piece(p[1]) /\ DatumAt(q) \in Piece(q[1])
    BY <2>1 DEF DatumAt, Piece, ToData
  <2>3. CASE p[1] = q[1] /\ p[2] < q[2]
    <3>1. CASE p[1] = 0
      BY <1>3, <1>7, <2>1, <2>3, <3>1 DEF OInv, AckedOK, DatumAt
    <3>2. CASE p[1] \in 1 .. n + 1
      BY <1>5, <2>1, <2>3, <3>2 DEF Increasing, DatumAt
    <3> QED BY <1>1, <2>1, <3>1, <3>2
  <2>4. CASE p[1] < q[1]
    <3>1. q[1] \in 1 .. n + 1
      BY <1>1, <2>1, <2>4
    <3>2. CASE p[1] = 0
      <4>1. DatumAt(p) \in InTurn
        BY <1>3, <1>7, <2>2, <3>2 DEF InTurn, Piece
      <4>2. DatumAt(q) \in Held(fb)
        BY <1>5, <2>2, <3>1 DEF Piece
      <4> QED BY <4>1, <4>2 DEF OInv, AckedOK, Older
    <3>3. CASE p[1] \in 1 .. n + 1
      BY <1>6, <2>2, <2>4, <3>1, <3>3 DEF Older
    <3> QED BY <1>1, <2>1, <3>2, <3>3
  <2> QED BY <1>7, <2>3, <2>4 DEF Ahead
<1>8. ~fb.faulty => fb.overtook = {}
  BY DEF OInv, NoFaultOK
<1> QED BY <1>7, <1>8 DEF InOrder

(* The order is kept until a push ends with an error.                      *)
QInv == fb.raised = 0 => OInv

LEMMA InitQInv == Init => QInv
BY InitOInv DEF QInv

LEMMA NextQInv == IInv /\ QInv /\ [Next]_vars => QInv'
<1> SUFFICES ASSUME IInv, QInv, [Next]_vars, (fb.raised = 0)' PROVE OInv'
  BY DEF QInv
<1>1. fb.raised = 0
  BY RaisedGrows
<1> QED BY <1>1, NextOInv DEF QInv

LEMMA QInvInOrder == IInv /\ QInv => InOrder
BY OInvInOrder DEF QInv, InOrder

LEMMA OrderInductive == Spec => []QInv
BY Inductive, InitQInv, NextQInv, PTL DEF Spec

(* Data leave in the order they were pushed and none is confirmed twice or *)
(* both confirmed and still held until a push ends with an error: for      *)
(* every size of the cache, whatever is evicted while a batch is in flight *)
(* and whatever files cannot be created or read, also when an error ended  *)
(* the fire coroutine (fire_loop and _dump_buffer_to_file of file.lua).    *)
THEOREM CacheInOrder == Spec => []InOrder
BY Inductive, OrderInductive, QInvInOrder, PTL

-----------------------------------------------------------------------------
(* Arithmetic of data in files of PerFile.                                 *)
LEMMA Quotient ==
  ASSUME NEW x \in Int, NEW p \in Int, p > 0
  PROVE  \E q \in Int : q * p <= x /\ x < q * p + p
<1>1. x \div p \in Int
  OBVIOUS
<1> WITNESS x \div p \in Int
<1> QED OBVIOUS

LEMMA TimesOne ==
  ASSUME NEW a \in Int, NEW p \in Int
  PROVE  (a + 1) * p = a * p + p /\ (a - 1) * p = a * p - p /\ a * p \in Int
OBVIOUS

LEMMA TimesUp ==
  ASSUME NEW a \in Int, NEW b \in Int, NEW p \in Nat, a <= b
  PROVE  a * p <= b * p
OBVIOUS

LEMMA TimesDown ==
  ASSUME NEW a \in Int, NEW b \in Int, NEW p \in Nat, a * p < b * p
  PROVE  a < b
OBVIOUS

LEMMA TimesTotal ==
  ASSUME NEW a \in Int, NEW p \in Int
  PROVE  a * p \in Int
OBVIOUS

(* Where no file has failed, none was corrupt.                             *)
LEMMA Clean ==
  ASSUME NEW k, NEW s, Sound(s, k), ~s.faulty
  PROVE  ~s.stale /\ s.raised = 0 /\ Room(s) = PerFile /\ PerFile \in Nat
<1>1. ~s.stale /\ s.raised = 0
  BY DEF Sound
<1>2. PerFile \in Nat
  BY FileBufferAssumption
<1> QED BY <1>1, <1>2 DEF Room

(* The first datum of the memory tail, when m is the next datum.           *)
TailStart(s, m) == m - Len(s.buffer)

(* Without faults the cache holds the newest data without a gap: file by   *)
(* file, all full but the first, then the tail.                            *)
Gapless(s, m) ==
  /\ \A i \in 1 .. Len(s.buffer) : s.buffer[i] = TailStart(s, m) + i - 1
  /\ \A k \in 2 .. Len(s.files) :
       /\ Len(File(s, k)) = PerFile
       /\ \A i \in 1 .. PerFile :
            File(s, k)[i] = TailStart(s, m) - (Len(s.files) + 1 - k) * PerFile + i - 1
  /\ s.files # <<>> =>
       \A i \in 1 .. Len(s.fire_buffer) :
         s.fire_buffer[i] = TailStart(s, m) - (Len(s.files) - 1) * PerFile
                                            - Len(s.fire_buffer) + i - 1

(* The oldest datum held.                                                  *)
Front(s, m) ==
  IF s.files = <<>>
  THEN TailStart(s, m)
  ELSE TailStart(s, m) - (Len(s.files) - 1) * PerFile - Len(s.fire_buffer) + s.fire_offset - 1

(* Without gaps the data held are all those from the oldest one on, and    *)
(* what is left of the fire buffer are the first of them.                  *)
LEMMA SpanIs ==
  ASSUME NEW k, NEW s, Sound(s, k), OffsetOK(s), NEW m \in Int, Gapless(s, m)
  PROVE  /\ Front(s, m) \in Int /\ Front(s, m) <= TailStart(s, m) /\ TailStart(s, m) <= m
         /\ \A i \in 1 .. Len(Pending(s)) : Pending(s)[i] = Front(s, m) + i - 1
         /\ s.files # <<>> => Len(Pending(s)) = Len(s.fire_buffer) - s.fire_offset + 1
         /\ s.files # <<>> => Len(Pending(s)) >= 1
         /\ Held(s) = Front(s, m) .. m - 1
<1> DEFINE n == Len(s.files)
           E == TailStart(s, m)
           F == Front(s, m)
           L == Len(s.fire_buffer)
           r == (n - 1) * PerFile
           b == Len(s.buffer)
           p == Len(Pending(s))
           o == s.fire_offset
<1>1. /\ IsCache(s) /\ n \in Nat /\ L \in Nat /\ o \in Nat /\ o >= 1
      /\ b \in Nat /\ PerFile \in Nat /\ PerFile >= 1
      /\ s.files = <<>> <=> n = 0
  <2>1. IsCache(s) /\ s.files \in Seq(Index) /\ s.fire_buffer \in Seq(Data) /\ s.buffer \in Seq(Data)
    BY DEF Sound, IsCache
  <2> QED BY <2>1, FileBufferAssumption DEF IsCache
<1>2. E \in Int /\ E <= m /\ E = m - b
  BY <1>1 DEF TailStart
<1>3. r \in Int /\ (n > 0 => r >= 0)
  <2>1. n > 0 => 0 * PerFile <= (n - 1) * PerFile
    BY <1>1, TimesUp
  <2>2. (n - 1) * PerFile \in Int /\ 0 * PerFile = 0
    BY <1>1, TimesTotal
  <2> QED BY <2>1, <2>2
<1>4. F = IF n = 0 THEN E ELSE E - r - L + o - 1
  BY <1>1 DEF Front
<1>5. n > 0 => o <= L
  BY <1>1 DEF OffsetOK
<1> HIDE DEF n, E, F, L, r, b, p, o
<1>6. F \in Int /\ F <= E
  BY <1>1, <1>2, <1>3, <1>4, <1>5
<1>7. /\ p \in Nat
      /\ n > 0 => p = L - o + 1 /\ p >= 1
      /\ n = 0 => p = 0
  <2>1. p \in Nat
        /\ p = IF o <= L THEN L - o + 1 ELSE 0
    BY <1>1, PendingIs DEF L, p, o
  <2>2. n = 0 => L = 0
    BY <1>1 DEF Sound, L
  <2> QED BY <1>1, <1>5, <2>1, <2>2
<1>8. ASSUME NEW i \in 1 .. p
      PROVE  Pending(s)[i] = F + i - 1 /\ n > 0
  <2>1. n > 0
    BY <1>1, <1>7
  <2>2. Pending(s)[i] = s.fire_buffer[o + i - 1] /\ o + i - 1 \in 1 .. L
    BY <1>1, PendingIs DEF L, p, o
  <2>3. s.fire_buffer[o + i - 1] = E - r - L + (o + i - 1) - 1
    BY <1>1, <2>1, <2>2 DEF Gapless, E, r, L, n
  <2> QED BY <1>1, <1>2, <1>3, <1>4, <1>7, <2>1, <2>2, <2>3
<1>9. ASSUME NEW x \in Held(s)
      PROVE  x \in F .. m - 1
  <2>1. \/ x \in ToData(Pending(s)) \/ x \in ToData(s.buffer)
        \/ \E j \in 2 .. n : x \in ToData(File(s, j))
    BY IsHeld DEF n
  <2>2. CASE x \in ToData(Pending(s))
    <3>1. PICK i \in 1 .. p : x = Pending(s)[i]
      BY <2>2 DEF ToData, b, p
    <3>2. x = F + i - 1 /\ n > 0
      BY <1>8, <3>1
    <3> QED BY <1>1, <1>2, <1>3, <1>4, <1>6, <1>7, <3>2
  <2>3. CASE x \in ToData(s.buffer)
    <3>1. PICK i \in 1 .. b : x = s.buffer[i]
      BY <2>3 DEF ToData, b, p
    <3>2. x = E + i - 1
      BY <3>1 DEF Gapless, E, b
    <3> QED BY <1>1, <1>2, <1>6, <3>2
  <2>4. CASE \E j \in 2 .. n : x \in ToData(File(s, j))
    <3>1. PICK j \in 2 .. n : x \in ToData(File(s, j))
      BY <2>4
    <3>2. PICK i \in 1 .. PerFile : x = E - (n + 1 - j) * PerFile + i - 1
      BY <3>1 DEF Gapless, ToData, E, n
    <3> DEFINE q == (n + 1 - j) * PerFile
    <3>3. q \in Int /\ q <= r /\ PerFile <= q
      <4>1. n + 1 - j \in Int /\ n + 1 - j <= n - 1 /\ 1 <= n + 1 - j
        BY <1>1
      <4>2. q <= (n - 1) * PerFile /\ 1 * PerFile <= q /\ q \in Int
        BY <1>1, <4>1, TimesUp, TimesTotal
      <4> QED BY <1>1, <4>2 DEF r
    <3>4. x = E - q + i - 1
      BY <3>2
    <3> HIDE DEF q
    <3>5. n > 0 /\ E - q >= E - r /\ E - q + PerFile <= E
      BY <1>1, <1>2, <1>3, <3>3
    <3> QED BY <1>1, <1>2, <1>3, <1>4, <1>5, <3>3, <3>4, <3>5
  <2> QED BY <2>1, <2>2, <2>3, <2>4
<1>10. ASSUME NEW x \in F .. m - 1
       PROVE  x \in Held(s)
  <2>1. CASE x >= E
    <3>1. x - E + 1 \in 1 .. b
      BY <1>1, <1>2, <1>6, <2>1
    <3>2. s.buffer[x - E + 1] = E + (x - E + 1) - 1
      BY <3>1 DEF Gapless, E, b
    <3>3. x = s.buffer[x - E + 1]
      BY <1>2, <1>6, <3>2
    <3>4. x \in ToData(s.buffer)
      BY <3>1, <3>3 DEF ToData, b, p
    <3> QED BY <3>4, HeldIs
  <2>2. CASE x < E /\ x < E - r
    <3>1. x - F + 1 \in 1 .. p
      BY <1>1, <1>2, <1>3, <1>4, <1>6, <1>7, <2>2
    <3>2. Pending(s)[x - F + 1] = F + (x - F + 1) - 1
      BY <1>8, <3>1
    <3>3. x = Pending(s)[x - F + 1]
      BY <1>6, <3>2
    <3>4. x \in ToData(Pending(s))
      BY <3>1, <3>3 DEF ToData, b, p
    <3> QED BY <3>4, HeldIs
  <2>3. CASE x < E /\ x >= E - r
    <3>1. n > 0
      BY <1>1, <1>4, <1>6, <2>3
    <3>10. x - (E - r) \in Int /\ x - (E - r) >= 0 /\ PerFile \in Int /\ PerFile > 0
      BY <1>1, <1>2, <1>3, <1>6, <2>3
    <3>2. PICK q \in Int : q * PerFile <= x - (E - r) /\ x - (E - r) < q * PerFile + PerFile
      BY ONLY <3>10, Quotient
    <3>3. q >= 0 /\ q < n - 1
      <4>1. q * PerFile \in Int /\ (q + 1) * PerFile = q * PerFile + PerFile /\ 0 * PerFile = 0
        BY <1>1, TimesOne
      <4>2. q * PerFile < (n - 1) * PerFile
        BY <1>2, <1>3, <1>6, <2>3, <3>2, <4>1 DEF r
      <4>3. 0 * PerFile < (q + 1) * PerFile
        BY ONLY <3>2, <3>10, <4>1
      <4>4. q < n - 1
        BY <1>1, <4>2, TimesDown
      <4>5. 0 < q + 1
        BY <1>1, <4>3, TimesDown
      <4> QED BY <4>4, <4>5
    <3> DEFINE j == q + 2
               i == x - (E - r) - q * PerFile + 1
    <3>4. j \in 2 .. n /\ i \in 1 .. PerFile
      <4>1. q * PerFile \in Int
        BY <1>1, TimesTotal
      <4> QED BY <1>1, <1>2, <1>3, <1>6, <3>2, <3>3, <4>1
    <3>5. File(s, j)[i] = E - (n + 1 - j) * PerFile + i - 1 /\ Len(File(s, j)) = PerFile
      BY <3>4 DEF Gapless, E, n
    <3>6. (n + 1 - j) * PerFile = r - q * PerFile
      <4>1. n + 1 - j = (n - 1) - q
        BY <1>1
      <4>2. ((n - 1) - q) * PerFile = (n - 1) * PerFile - q * PerFile
        BY <1>1
      <4> QED BY <4>1, <4>2 DEF r
    <3>7. x = E - (r - q * PerFile) + i - 1
      <4>1. q * PerFile \in Int
        BY <1>1, TimesTotal
      <4> QED BY <1>2, <1>3, <1>6, <4>1
    <3> HIDE DEF i, j
    <3>8. x \in ToData(File(s, j))
      BY <3>4, <3>5, <3>6, <3>7 DEF ToData, b, p
    <3> QED BY <3>4, <3>8, HeldIs DEF n
  <2> QED BY <1>2, <1>3, <1>6, <2>1, <2>2, <2>3
<1>11. Held(s) = F .. m - 1
  BY <1>9, <1>10
<1>12. TailStart(s, m) <= m
  BY <1>2 DEF E
<1>13. /\ Front(s, m) \in Int /\ Front(s, m) <= TailStart(s, m)
       /\ \A i \in 1 .. Len(Pending(s)) : Pending(s)[i] = Front(s, m) + i - 1
       /\ Held(s) = Front(s, m) .. m - 1
  BY <1>6, <1>8, <1>11 DEF F, E, p
<1>14. s.files # <<>> => /\ Len(Pending(s)) = Len(s.fire_buffer) - s.fire_offset + 1
                         /\ Len(Pending(s)) >= 1
  <2>1. s.files # <<>> => n > 0
    BY <1>1
  <2> QED BY <1>7, <2>1 DEF p, L, o
<1> QED BY <1>12, <1>13, <1>14

(* Loading the next file when it can be read leaves no gap.                *)
LEMMA LoadNextGapless ==
  ASSUME NEW k \in Nat, k < IndexMod, NEW s, Sound(s, k), s.files # <<>>,
         NEW m \in Int, Gapless(s, m)
  PROVE  /\ Gapless(LoadNext(s, 0), m)
         /\ Front(LoadNext(s, 0), m) = TailStart(s, m) - (Len(s.files) - 1) * PerFile
         /\ Len(LoadNext(s, 0).files) = Len(s.files) - 1
         /\ LoadNext(s, 0).buffer = s.buffer
         /\ LoadNext(s, 0).files # <<>> =>
              LoadNext(s, 0).fire_index = (s.fire_index + 1) % IndexMod
<1>14. PICK z : z = 0
  OBVIOUS
<1> DEFINE t == LoadNext(s, z)
           n == Len(s.files)
           E == TailStart(s, m)
<1>1. z \in 0 .. Len(Unfired(s))
  <2>1. s.files \in Seq(Index)
    BY DEF Sound, IsCache
  <2>2. Unfired(s) \in Seq(Index)
    BY <2>1 DEF Unfired
  <2> QED BY <1>14, <2>2
<1>2. /\ Len(t.files) = n - 1 - z
      /\ Len(t.files) \in Nat
      /\ \A i \in 1 .. Len(t.files) : /\ t.files[i] = s.files[z + 1 + i]
                                      /\ File(t, i) = File(s, z + 1 + i)
                                      /\ z + 1 + i \in 1 .. Len(s.files)
  BY <1>1, LoadNextFiles
<1>3. /\ t.files = Left(s, z) /\ t.buffer = s.buffer /\ t.fire_offset = 1
      /\ t.fire_index = IF Left(s, z) = <<>> THEN None ELSE Left(s, z)[1]
      /\ t.fire_buffer = IF Left(s, z) = <<>> THEN <<>> ELSE s.disk[Left(s, z)[1]]
  <2>1. IsLoaded(LoadNext(s, z), s, z)
    BY <1>1, LoadNextParts
  <2> QED BY <2>1 DEF IsLoaded
<1>4. Left(s, z) \in Seq(Index) /\ s.files \in Seq(Index)
  BY <1>1, LoadNextLeft DEF Sound, IsCache
<1> HIDE DEF t
<1>5. n \in Nat /\ (t.files = <<>> <=> n = 1) /\ PerFile \in Nat /\ n >= 1
  <2>1. n \in Nat /\ n >= 1
    BY <1>4
  <2>2. t.files = <<>> <=> Len(t.files) = 0
    BY <1>3, <1>4
  <2> QED BY <1>2, <1>14, <2>1, <2>2, FileBufferAssumption
<1> HIDE DEF n
<1>6. /\ Len(t.files) = n - 1
      /\ \A i \in 1 .. n - 1 : t.files[i] = s.files[i + 1] /\ File(t, i) = File(s, i + 1)
  <2>1. Len(t.files) = n - 1
    BY <1>2, <1>5, <1>14
  <2>2. \A i \in 1 .. n - 1 : z + 1 + i = i + 1
    BY <1>5, <1>14
  <2> QED BY <1>2, <2>1, <2>2
<1>7. TailStart(t, m) = E /\ E \in Int
  <2>1. Len(s.buffer) \in Nat
    BY DEF Sound, IsCache
  <2> QED BY <1>3, <2>1 DEF TailStart
<1> HIDE DEF E
<1>8. n > 1 => t.fire_buffer = File(s, 2)
  BY <1>3, <1>5, <1>6 DEF File
<1>9. n > 1 => Len(File(s, 2)) = PerFile
  BY <1>5 DEF Gapless, n
<1>10. (n - 1) * PerFile = (n - 1 - 1) * PerFile + PerFile /\ (n - 1) * PerFile \in Int
       /\ (n - 1 - 1) * PerFile \in Int
  <2>1. n - 1 - 1 \in Int /\ n - 1 - 1 + 1 = n - 1 /\ n - 1 \in Int
    BY <1>5
  <2> QED BY <1>5, <2>1, TimesOne
<1>11. Gapless(t, m)
  <2>1. \A i \in 1 .. Len(t.buffer) : t.buffer[i] = TailStart(t, m) + i - 1
    BY <1>3, <1>7 DEF Gapless, E
  <2>2. ASSUME NEW j \in 2 .. Len(t.files)
        PROVE  /\ Len(File(t, j)) = PerFile
               /\ \A i \in 1 .. PerFile :
                    File(t, j)[i] = TailStart(t, m) - (Len(t.files) + 1 - j) * PerFile + i - 1
    <3>1. j \in 1 .. n - 1 /\ j + 1 \in 2 .. n /\ n + 1 - (j + 1) = Len(t.files) + 1 - j
      BY <1>5, <1>6
    <3>2. /\ Len(File(s, j + 1)) = PerFile
          /\ \A i \in 1 .. PerFile :
               File(s, j + 1)[i] = E - (n + 1 - (j + 1)) * PerFile + i - 1
      BY <3>1 DEF Gapless, E, n
    <3> QED BY <1>6, <1>7, <3>1, <3>2
  <2>3. ASSUME t.files # <<>>, NEW i \in 1 .. Len(t.fire_buffer)
        PROVE  t.fire_buffer[i] = TailStart(t, m) - (Len(t.files) - 1) * PerFile
                                                  - Len(t.fire_buffer) + i - 1
    <3>1. n > 1 /\ Len(t.fire_buffer) = PerFile /\ i \in 1 .. PerFile /\ i \in Int
      BY <1>5, <1>8, <1>9, <2>3
    <3>2. t.fire_buffer[i] = E - (n + 1 - 2) * PerFile + i - 1
      <4>1. 2 \in 2 .. n
        BY <1>5, <3>1
      <4> QED BY <1>8, <3>1, <4>1 DEF Gapless, E, n
    <3>3. n + 1 - 2 = n - 1
      BY <1>5
    <3>4. t.fire_buffer[i] = E - (n - 1) * PerFile + i - 1
      BY <3>2, <3>3
    <3>5. E - (n - 1) * PerFile + i - 1 = E - (n - 1 - 1) * PerFile - PerFile + i - 1
      BY ONLY <1>5, <1>7, <1>10, <3>1
    <3> QED BY <1>6, <1>7, <3>1, <3>4, <3>5
  <2> QED BY <2>1, <2>2, <2>3 DEF Gapless
<1>12. Front(t, m) = E - (n - 1) * PerFile
  <2>1. CASE t.files = <<>>
    <3>1. n - 1 = 0 /\ 0 * PerFile = 0
      BY <1>5, <2>1
    <3>2. Front(t, m) = E
      BY <1>7, <2>1 DEF Front
    <3>3. (n - 1) * PerFile = 0
      BY <3>1
    <3> QED BY <1>7, <3>2, <3>3
  <2>2. CASE t.files # <<>>
    <3>1. Front(t, m) = E - (n - 1 - 1) * PerFile - PerFile + 1 - 1
      <4>1. n > 1 /\ Len(t.fire_buffer) = PerFile /\ t.fire_offset = 1
        BY <1>3, <1>5, <1>8, <1>9, <2>2
      <4> QED BY <1>6, <1>7, <2>2, <4>1 DEF Front
    <3> QED BY ONLY <1>5, <1>7, <1>10, <3>1
  <2> QED BY <2>1, <2>2
<1>13. t.files # <<>> => t.fire_index = (s.fire_index + 1) % IndexMod
  <2> SUFFICES ASSUME t.files # <<>> PROVE t.fire_index = (s.fire_index + 1) % IndexMod
    OBVIOUS
  <2>1. t.fire_index = s.files[2] /\ 2 \in 1 .. Len(s.files)
    <3>1. 1 \in 1 .. n - 1 /\ 2 \in 1 .. n
      BY <1>5
    <3> QED BY <1>3, <1>6, <3>1 DEF n
  <2>2. s.files[2] = (s.files[1] + (2 - 1)) % IndexMod
    BY <2>1 DEF Sound
  <2>3. s.fire_index = s.files[1]
    BY DEF Sound
  <2> QED BY <2>1, <2>2, <2>3
<1> QED BY <1>3, <1>6, <1>11, <1>12, <1>13, <1>14 DEF t, n, E

(* Making the tail a file changes nothing about what is held.              *)
LEMMA AddFileGapless ==
  ASSUME NEW s, Sound(s, MaxFiles), ~s.faulty, Len(s.buffer) \in 1 .. PerFile,
         s.files # <<>> => Len(s.buffer) = PerFile,
         NEW m \in Int, Gapless(s, m)
  PROVE  LET t == AddFile(s, NextIndex(s)) IN
         /\ Gapless(t, m) /\ TailStart(t, m) = m
         /\ Front(t, m) = Front(s, m)
<1> DEFINE t == AddFile(s, NextIndex(s))
           n == Len(s.files)
           E == TailStart(s, m)
           b == Len(s.buffer)
<1>0. Len(s.buffer) \in 1 .. Room(s)
  BY Clean
<1>1. /\ Len(t.files) = n + 1 /\ n \in Nat
      /\ \A i \in 1 .. n : File(t, i) = File(s, i)
      /\ File(t, n + 1) = s.buffer
      /\ t.buffer = <<>>
      /\ s.files # <<>> => t.fire_offset = s.fire_offset /\ t.fire_buffer = s.fire_buffer
      /\ s.files = <<>> => t.fire_offset = 1 /\ t.fire_buffer = s.buffer
  BY <1>0, AddFileFiles
<1>2. t.files # <<>> /\ IsCache(s) /\ (s.files = <<>> <=> n = 0)
  <2>1. s.files \in Seq(Index)
    BY DEF Sound, IsCache
  <2> QED BY <1>0, <2>1, AddFileSound DEF Sound
<1> HIDE DEF t, n, b
<1>3. /\ b \in 1 .. PerFile /\ b \in Nat /\ PerFile \in Nat /\ s.fire_offset \in Nat
      /\ Len(s.fire_buffer) \in Nat
  BY <1>2, FileBufferAssumption DEF IsCache, b
<1>4. E = m - b /\ E \in Int /\ TailStart(t, m) = m
  <2>1. Len(t.buffer) = 0
    BY <1>1
  <2> QED BY <1>3, <2>1 DEF TailStart, b
<1> HIDE DEF E
<1>5. (n + 1 - 1) * PerFile = (n - 1) * PerFile + PerFile /\ (n - 1) * PerFile \in Int
  <2> DEFINE c == n - 1
  <2>1. c \in Int /\ n + 1 - 1 = c + 1
    BY <1>1
  <2> HIDE DEF c
  <2>2. (c + 1) * PerFile = c * PerFile + PerFile /\ c * PerFile \in Int
    BY <1>3, <2>1, TimesOne
  <2>3. (n + 1 - 1) * PerFile = c * PerFile + PerFile /\ c * PerFile \in Int
    BY <2>1, <2>2
  <2> QED BY <2>3 DEF c
<1>6. n > 0 => E = m - PerFile
  BY <1>2, <1>4 DEF b
<1>7. Gapless(t, m)
  <2>1. \A i \in 1 .. Len(t.buffer) : t.buffer[i] = TailStart(t, m) + i - 1
    BY <1>1
  <2>2. ASSUME NEW j \in 2 .. n + 1
        PROVE  /\ Len(File(t, j)) = PerFile
               /\ \A i \in 1 .. PerFile :
                    File(t, j)[i] = m - (n + 1 + 1 - j) * PerFile + i - 1
    <3>1. n > 0
      BY <1>1
    <3>2. CASE j \in 2 .. n
      <4>1. j \in 1 .. n
        BY <1>1, <3>2
      <4>2. /\ Len(File(s, j)) = PerFile
            /\ \A i \in 1 .. PerFile : File(s, j)[i] = E - (n + 1 - j) * PerFile + i - 1
        BY <3>2 DEF Gapless, E, n
      <4>3. (n + 1 + 1 - j) * PerFile = (n + 1 - j) * PerFile + PerFile
            /\ (n + 1 - j) * PerFile \in Int
        <5> DEFINE c == n + 1 - j
        <5>1. c \in Int /\ n + 1 + 1 - j = c + 1
          BY <1>1
        <5> HIDE DEF c
        <5>2. (c + 1) * PerFile = c * PerFile + PerFile /\ c * PerFile \in Int
          BY <1>3, <5>1, TimesOne
        <5>3. (n + 1 + 1 - j) * PerFile = c * PerFile + PerFile /\ c * PerFile \in Int
          BY <5>1, <5>2
        <5> QED BY <5>3 DEF c
      <4>4. ASSUME NEW i \in 1 .. PerFile
            PROVE  E - (n + 1 - j) * PerFile + i - 1 = m - (n + 1 + 1 - j) * PerFile + i - 1
        <5> DEFINE u == (n + 1 - j) * PerFile
                   v == (n + 1 + 1 - j) * PerFile
        <5>1. v = u + PerFile /\ u \in Int /\ E = m - PerFile /\ PerFile \in Int /\ i \in Int
          BY <1>3, <1>6, <3>1, <4>3
        <5> HIDE DEF u, v
        <5>2. E - u + i - 1 = m - v + i - 1
          BY ONLY <5>1, m \in Int
        <5> QED BY <5>2 DEF u, v
      <4> QED BY <1>1, <4>1, <4>2, <4>4
    <3>3. CASE j = n + 1
      <4>1. File(t, j) = s.buffer /\ b = PerFile
        BY <1>1, <1>2, <3>1, <3>3 DEF b
      <4>2. \A i \in 1 .. b : s.buffer[i] = E + i - 1
        BY DEF Gapless, E, b
      <4>3. (n + 1 + 1 - j) * PerFile = PerFile
        <5>1. n + 1 + 1 - j = 1
          BY <1>1, <3>3
        <5> QED BY <1>3, <5>1
      <4>4. ASSUME NEW i \in 1 .. PerFile
            PROVE  E + i - 1 = m - (n + 1 + 1 - j) * PerFile + i - 1
        <5> DEFINE v == (n + 1 + 1 - j) * PerFile
        <5>1. v = PerFile /\ E = m - PerFile /\ PerFile \in Int /\ i \in Int
          BY <1>3, <1>6, <3>1, <4>3
        <5> HIDE DEF v
        <5>2. E + i - 1 = m - v + i - 1
          BY ONLY <5>1, m \in Int
        <5> QED BY <5>2 DEF v
      <4> QED BY <4>1, <4>2, <4>4 DEF b
    <3> QED BY <1>1, <3>2, <3>3
  <2>3. ASSUME NEW i \in 1 .. Len(t.fire_buffer)
        PROVE  t.fire_buffer[i] = m - (n + 1 - 1) * PerFile - Len(t.fire_buffer) + i - 1
    <3>1. CASE n = 0
      <4>1. t.fire_buffer = s.buffer /\ i \in 1 .. b /\ Len(t.fire_buffer) = b
        BY <1>1, <1>2, <2>3, <3>1 DEF b
      <4>2. s.buffer[i] = E + i - 1
        BY <4>1 DEF Gapless, E, b
      <4>3. (n + 1 - 1) * PerFile = 0
        <5>1. n + 1 - 1 = 0
          BY <3>1
        <5> QED BY <1>3, <5>1
      <4>4. E + i - 1 = m - (n + 1 - 1) * PerFile - b + i - 1
        BY ONLY <1>3, <1>4, <4>1, <4>3, m \in Int
      <4> QED BY <4>1, <4>2, <4>4
    <3>2. CASE n > 0
      <4>1. t.fire_buffer = s.fire_buffer /\ i \in 1 .. Len(s.fire_buffer)
        BY <1>1, <1>2, <2>3, <3>2
      <4>2. s.fire_buffer[i] = E - (n - 1) * PerFile - Len(s.fire_buffer) + i - 1
        BY <1>2, <3>2, <4>1 DEF Gapless, E, n
      <4> DEFINE l == Len(s.fire_buffer)
      <4> HIDE DEF l
      <4>3. i \in Int /\ l \in Int
        BY <1>3, <4>1 DEF l
      <4> DEFINE u == (n - 1) * PerFile
                 v == (n + 1 - 1) * PerFile
      <4>4. E = m - PerFile /\ v = u + PerFile /\ u \in Int /\ PerFile \in Int
        BY <1>3, <1>5, <1>6, <3>2
      <4> HIDE DEF u, v
      <4>5. E - u - l + i - 1 = m - v - l + i - 1
        BY ONLY <4>3, <4>4, m \in Int
      <4> QED BY <4>1, <4>2, <4>5 DEF l, u, v
    <3> QED BY <1>1, <3>1, <3>2
  <2> QED BY <1>1, <1>4, <2>1, <2>2, <2>3 DEF Gapless
<1>8. Front(t, m) = Front(s, m)
  <2> DEFINE l == Len(s.fire_buffer)
             o == s.fire_offset
  <2>1. Front(t, m) = m - (n + 1 - 1) * PerFile - Len(t.fire_buffer) + t.fire_offset - 1
    BY <1>1, <1>2, <1>4 DEF Front
  <2>2. CASE n = 0
    <3>1. Front(s, m) = E /\ Len(t.fire_buffer) = b /\ t.fire_offset = 1
      BY <1>1, <1>2, <2>2 DEF Front, E, b
    <3>2. (n + 1 - 1) * PerFile = 0
      <4>1. n + 1 - 1 = 0
        BY <2>2
      <4> QED BY <1>3, <4>1
    <3>3. m - (n + 1 - 1) * PerFile - b + 1 - 1 = E
      BY ONLY <1>3, <1>4, <3>2, m \in Int
    <3> QED BY <2>1, <3>1, <3>3
  <2>3. CASE n > 0
    <3>1. Front(s, m) = E - (n - 1) * PerFile - l + o - 1
      BY <1>2, <2>3 DEF Front, E, n
    <3>2. Len(t.fire_buffer) = l /\ t.fire_offset = o /\ l \in Int /\ o \in Int
      BY <1>1, <1>2, <1>3, <2>3
    <3> HIDE DEF l, o
    <3> DEFINE u == (n - 1) * PerFile
               v == (n + 1 - 1) * PerFile
    <3>3. E = m - PerFile /\ v = u + PerFile /\ u \in Int /\ PerFile \in Int
      BY <1>3, <1>5, <1>6, <2>3
    <3>4. Front(s, m) = E - u - l + o - 1 /\ Front(t, m) = m - v - l + o - 1
      BY <2>1, <3>1, <3>2
    <3> HIDE DEF u, v
    <3> QED BY ONLY <3>2, <3>3, <3>4, m \in Int
  <2> QED BY <1>1, <2>2, <2>3
<1> QED BY <1>4, <1>7, <1>8 DEF t

(* The number of data the cache has made room for: full files and a tail.  *)
Size(s) == Len(s.files) * PerFile + Len(s.buffer)

(* From s, when m was the next datum, to t, when w is, nothing was evicted *)
(* ...                                                                     *)
Grown(s, t, m, w) ==
  /\ Front(t, w) = Front(s, m)
  /\ Size(t) - w = Size(s) - m
  /\ s.files # <<>> => t.fire_index = s.fire_index /\ Pending(t) = Pending(s)

(* ... or the oldest file was: the cache is full of the newest data.       *)
Shed(s, t, m, w) ==
  /\ s.files # <<>>
  /\ Front(s, m) <= Front(t, w) /\ Front(t, w) = w - MaxFiles * PerFile
  /\ Size(t) - w = Size(s) - m - PerFile
  /\ t.fire_index = (s.fire_index + 1) % IndexMod
  /\ Older(ToData(s.fire_buffer), Held(t))

(* A dump of the tail leaves no gap.                                       *)
LEMMA DumpsGapless ==
  ASSUME NEW s, Sound(s, MaxFiles), OffsetOK(s), ~s.faulty, Len(s.buffer) \in 1 .. PerFile,
         s.files # <<>> => Len(s.buffer) = PerFile,
         NEW m \in Int, Gapless(s, m), Ordered(s, m), NEW t \in Dumps(s), ~t.faulty
  PROVE  /\ Gapless(t, m)
         /\ \/ Front(t, m) = Front(s, m) /\ (s.files # <<>> => Grown(s, t, m, m))
            \/ Shed(s, t, m, m)
<1> DEFINE a == AddFile(s, NextIndex(s))
           n == Len(s.files)
<1>0. Len(s.buffer) \in 1 .. Room(s) /\ s.buffer \in Seq(Data)
  BY Clean DEF Sound, IsCache
<1>1. /\ Sound(a, MaxFiles + 1) /\ OffsetOK(a) /\ a.files # <<>> /\ Len(a.files) = n + 1
      /\ n \in Nat /\ a.buffer = <<>>
      /\ s.files # <<>> => a.fire_index = s.fire_index /\ Pending(a) = Pending(s)
                           /\ a.fire_buffer = s.fire_buffer
  <2>1. /\ Sound(a, MaxFiles + 1) /\ a.files # <<>> /\ Len(a.files) = n + 1 /\ KeepsOffset(s, a)
    BY <1>0, AddFileSound
  <2>2. /\ n \in Nat /\ a.buffer = <<>>
    BY <1>0, AddFileFiles
  <2>3. s.files # <<>> => a.fire_index = s.fire_index /\ Pending(a) = Pending(s)
                           /\ a.fire_buffer = s.fire_buffer
    BY <1>0, AddFileOrdered
  <2>4. OffsetOK(a)
    BY <2>1 DEF KeepsOffset
  <2> HIDE DEF a
  <2> QED BY <2>1, <2>2, <2>3, <2>4
<1>2. Gapless(a, m) /\ TailStart(a, m) = m /\ Front(a, m) = Front(s, m) /\ Ordered(a, m)
  BY <1>0, AddFileGapless, AddFileOrdered
<1>8. ASSUME NEW z \in Corrupt(a), t = PushRaises(a, z, s.buffer)
      PROVE  FALSE
  <2>1. z \in 0 .. Len(Unfired(a))
    <3> HIDE DEF a
    <3>1. Unfired(a) \in Seq(Index)
      BY <1>1 DEF Sound, IsCache, Unfired
    <3> QED BY <1>8, <3>1 DEF Corrupt, Unreadable
  <2>2. MaxFiles + 1 \in Nat /\ MaxFiles + 1 < IndexMod
    BY IndexRange
  <2> HIDE DEF a
  <2>3. IsRaised(t, a, z, s.buffer, a.raised + 1)
    BY <1>0, <1>1, <1>8, <2>1, <2>2, LoadRaisesParts
  <2> QED BY <2>3 DEF IsRaised
<1>3. t = a \/ (n + 1 > MaxFiles /\ \E z \in Unreadable(a) : t = LoadNext(a, z))
  <2>1. t # [s EXCEPT !.buffer = <<>>, !.faulty = TRUE]
    BY DEF Sound, IsCache
  <2>2. \/ t = [s EXCEPT !.buffer = <<>>, !.faulty = TRUE]
        \/ Len(a.files) > MaxFiles /\ \E z \in Unreadable(a) : t = LoadNext(a, z)
        \/ \E z \in Corrupt(a) : t = PushRaises(a, z, s.buffer)
        \/ t = a
    BY Zenon DEF Dumps
  <2> HIDE DEF a
  <2> QED BY <1>1, <1>8, <2>1, <2>2
<1>4. PerFile \in Nat /\ MaxFiles \in Nat /\ n <= MaxFiles /\ MaxFiles >= 1
      /\ (s.files = <<>> <=> n = 0)
  <2>1. s.files \in Seq(Index) /\ n <= MaxFiles
    BY DEF Sound, IsCache
  <2> QED BY <2>1, FileBufferAssumption
<1> HIDE DEF a
<1>6. CASE t = a
  <2>1. ASSUME s.files # <<>>
        PROVE  Size(a) = Size(s)
    <3>1. Size(s) = n * PerFile + PerFile
      BY <2>1 DEF Size
    <3>2. Size(a) = (n + 1) * PerFile + 0
      BY <1>1 DEF Size
    <3>3. (n + 1) * PerFile = n * PerFile + PerFile /\ n * PerFile \in Int
      BY <1>1, <1>4, TimesOne
    <3> HIDE DEF n
    <3> QED BY ONLY <1>4, <3>1, <3>2, <3>3
  <2> QED BY <1>1, <1>2, <1>6, <2>1 DEF Grown
<1>7. ASSUME n + 1 > MaxFiles, NEW z \in Unreadable(a), t = LoadNext(a, z)
      PROVE  Gapless(t, m) /\ Shed(s, t, m, m)
  <2>1. z \in 0 .. Len(Unfired(a))
    <3>1. Unfired(a) \in Seq(Index)
      BY <1>1 DEF Sound, IsCache, Unfired
    <3> QED BY <3>1 DEF Unreadable
  <2>2. MaxFiles + 1 \in Nat /\ MaxFiles + 1 < IndexMod
    BY IndexRange
  <2>3. z = 0
    <3>1. ~LoadNext(a, z).faulty
      BY <1>7
    <3> QED BY <1>1, <2>1, <2>2, <3>1, LoadNextFaulty
  <2>4. t = LoadNext(a, 0)
    BY <1>7, <2>3
  <2>5. /\ Gapless(t, m)
        /\ Front(t, m) = TailStart(a, m) - (Len(a.files) - 1) * PerFile
        /\ Len(t.files) = Len(a.files) - 1
        /\ t.buffer = a.buffer
        /\ t.files # <<>> => t.fire_index = (a.fire_index + 1) % IndexMod
    BY <1>1, <1>2, <2>2, <2>4, LoadNextGapless
  <2>6. n = MaxFiles /\ s.files # <<>> /\ Len(a.files) - 1 = MaxFiles /\ t.files # <<>>
    <3>1. n = MaxFiles
      BY <1>1, <1>4, <1>7
    <3> QED BY <1>1, <1>4, <2>5, <3>1
  <2>7. Front(t, m) = m - MaxFiles * PerFile
    BY <1>2, <2>5, <2>6
  <2>8. Front(s, m) <= Front(t, m)
    <3> DEFINE l == Len(a.fire_buffer)
               o == a.fire_offset
               w == MaxFiles * PerFile
    <3>1. Front(a, m) = m - w - l + o - 1
      BY <1>1, <1>2, <2>6 DEF Front
    <3>2. l \in Int /\ o \in Int /\ o <= l
      BY <1>1 DEF Sound, IsCache, OffsetOK
    <3>3. w \in Int
      BY <1>4, TimesTotal
    <3> HIDE DEF l, o, w
    <3>4. Front(a, m) <= m - w
      BY <3>1, <3>2, <3>3
    <3> QED BY <1>2, <2>7, <3>4 DEF w
  <2>9. Size(t) - m = Size(s) - m - PerFile
    <3>1. Size(t) = MaxFiles * PerFile + 0
      BY <1>1, <2>5, <2>6 DEF Size
    <3>2. Size(s) = MaxFiles * PerFile + PerFile
      BY <2>6 DEF Size
    <3>3. MaxFiles * PerFile \in Int
      BY <1>4, TimesTotal
    <3> QED BY ONLY m \in Int, <1>4, <3>1, <3>2, <3>3
  <2>10. Older(ToData(s.fire_buffer), Held(t))
    <3>1. Older(ToData(a.fire_buffer), Held(t))
      BY <1>1, <1>2, <1>7, <2>1, <2>2, LoadNextOrdered
    <3> QED BY <1>1, <2>6, <3>1
  <2> QED BY <1>1, <2>5, <2>6, <2>7, <2>8, <2>9, <2>10 DEF Shed
<1> QED BY <1>3, <1>6, <1>7

(* So does a push.                                                         *)
LEMMA PushesGapless ==
  ASSUME NEW s, Sound(s, MaxFiles), OffsetOK(s), ~s.faulty, Len(s.buffer) < PerFile,
         NEW d \in Data, Gapless(s, d), Ordered(s, d), NEW t \in Pushes(s, d), ~t.faulty
  PROVE  /\ Gapless(t, d + 1)
         /\ \/ Front(t, d + 1) = Front(s, d) /\ (s.files # <<>> => Grown(s, t, d, d + 1))
            \/ Shed(s, t, d, d + 1)
<1> DEFINE a == [s EXCEPT !.buffer = Append(s.buffer, d)]
           b == Len(s.buffer)
<1>1. /\ IsCache(s) /\ s.buffer \in Seq(Data) /\ b \in Nat
      /\ Append(s.buffer, d) \in Seq(Data)
      /\ Len(Append(s.buffer, d)) = b + 1 /\ Append(s.buffer, d)[b + 1] = d
      /\ \A i \in 1 .. b : Append(s.buffer, d)[i] = s.buffer[i]
      /\ d \in Int
  BY DEF Sound, IsCache, Data
<1>2. /\ IsCache(a) /\ a.buffer = Append(s.buffer, d)
      /\ a.files = s.files /\ a.disk = s.disk /\ a.fire_index = s.fire_index
      /\ a.fire_buffer = s.fire_buffer /\ a.fire_offset = s.fire_offset
      /\ a.faulty = s.faulty /\ a.overtook = s.overtook
      /\ a.stale = s.stale /\ a.raised = s.raised
  BY <1>1 DEF IsCache
<1>3. \/ t = a
      \/ t \in Dumps(a) /\ b + 1 = PerFile
  <2>1. IF Len(a.buffer) >= PerFile THEN t \in Dumps(a) ELSE t = a
    BY DEF Pushes
  <2>2. Len(a.buffer) = b + 1
    BY <1>1, <1>2
  <2>3. b < PerFile /\ b \in Nat /\ PerFile \in Nat
    BY <1>1, FileBufferAssumption
  <2> HIDE DEF a, b
  <2>4. b + 1 >= PerFile \/ b + 1 < PerFile
    BY <2>3
  <2>5. b + 1 >= PerFile => b + 1 = PerFile
    BY <2>3
  <2>6. CASE b + 1 >= PerFile
    <3>1. Len(a.buffer) >= PerFile
      BY <2>2, <2>6
    <3> QED BY <2>1, <2>5, <2>6, <3>1
  <2>7. CASE b + 1 < PerFile
    <3>1. ~(Len(a.buffer) >= PerFile)
      BY <2>2, <2>3, <2>7
    <3> QED BY <2>1, <2>7, <3>1
  <2> QED BY <2>4, <2>6, <2>7
<1> HIDE DEF a
<1>4. PerFile \in Nat /\ Len(a.buffer) = b + 1 /\ Len(a.buffer) \in 1 .. PerFile
  BY <1>1, <1>2, FileBufferAssumption
<1>5. Sound(a, MaxFiles) /\ OffsetOK(a)
  <2>1. Room(a) = Room(s)
    BY <1>2 DEF Room
  <2> QED BY <1>2, <2>1 DEF Sound, OffsetOK
<1> HIDE DEF b
<1>6. TailStart(a, d + 1) = TailStart(s, d) /\ TailStart(s, d) = d - b /\ TailStart(s, d) \in Int
  BY <1>1, <1>4 DEF TailStart, b
<1>7. Gapless(a, d + 1)
  <2>1. ASSUME NEW i \in 1 .. Len(a.buffer)
        PROVE  a.buffer[i] = TailStart(a, d + 1) + i - 1
    <3>1. CASE i \in 1 .. b
      BY <1>1, <1>2, <1>6, <3>1 DEF Gapless, b
    <3>2. CASE i = b + 1
      <4>1. a.buffer[i] = d
        BY <1>1, <1>2, <3>2
      <4> QED BY <1>1, <1>6, <3>2, <4>1
    <3> QED BY <1>1, <1>4, <3>1, <3>2
  <2>2. \A j : File(a, j) = File(s, j)
    BY <1>2 DEF File
  <2>3. \A j \in 2 .. Len(a.files) :
          /\ Len(File(a, j)) = PerFile
          /\ \A i \in 1 .. PerFile :
               File(a, j)[i] = TailStart(a, d + 1) - (Len(a.files) + 1 - j) * PerFile + i - 1
    BY <1>2, <1>6, <2>2 DEF Gapless
  <2>4. a.files # <<>> =>
          \A i \in 1 .. Len(a.fire_buffer) :
            a.fire_buffer[i] = TailStart(a, d + 1) - (Len(a.files) - 1) * PerFile
                                                  - Len(a.fire_buffer) + i - 1
    BY <1>2, <1>6 DEF Gapless
  <2> QED BY <2>1, <2>3, <2>4 DEF Gapless
<1>8. Front(a, d + 1) = Front(s, d)
  BY <1>2, <1>6 DEF Front
<1>9. Size(a) - (d + 1) = Size(s) - d
  <2>1. Len(s.files) \in Int
    BY <1>1 DEF IsCache
  <2>2. Len(s.files) * PerFile \in Int
    BY <1>4, <2>1, TimesTotal
  <2>3. Size(a) = Len(s.files) * PerFile + (b + 1)
    BY <1>2, <1>4 DEF Size
  <2>4. Size(s) = Len(s.files) * PerFile + b
    BY DEF Size, b
  <2> DEFINE w == Len(s.files) * PerFile
  <2> HIDE DEF w
  <2>5. Size(a) = w + (b + 1) /\ Size(s) = w + b /\ w \in Int
    BY <2>2, <2>3, <2>4 DEF w
  <2> QED BY <1>1, <2>5
<1>10. Pending(a) = Pending(s)
  BY <1>2 DEF Pending
<1>11. CASE t = a
  BY <1>2, <1>7, <1>8, <1>9, <1>10, <1>11 DEF Grown
<1>12. CASE t \in Dumps(a) /\ b + 1 = PerFile
  <2>1. Ordered(a, d + 1)
    <3>1. a \in Pushes(s, d) \/ t \in Dumps(a)
      BY <1>12
    <3>2. Ordered(a, d + 1)
      BY PushOrdered DEF a
    <3> QED BY <3>2
  <2>2. d + 1 \in Int /\ Len(a.buffer) = PerFile
    BY <1>1, <1>4, <1>12
  <2>3. /\ Gapless(t, d + 1)
        /\ \/ Front(t, d + 1) = Front(a, d + 1) /\ (a.files # <<>> => Grown(a, t, d + 1, d + 1))
           \/ Shed(a, t, d + 1, d + 1)
    BY <1>2, <1>4, <1>5, <1>7, <1>12, <2>1, <2>2, DumpsGapless
  <2>5. Shed(a, t, d + 1, d + 1) => Shed(s, t, d, d + 1)
    <3>1. /\ a.files = s.files /\ a.fire_index = s.fire_index /\ a.fire_buffer = s.fire_buffer
          /\ Front(a, d + 1) = Front(s, d) /\ Size(a) - (d + 1) = Size(s) - d
      BY <1>2, <1>8, <1>9
    <3> HIDE DEF b
    <3> QED BY ONLY <3>1 DEF Shed
  <2>6. Grown(a, t, d + 1, d + 1) => Grown(s, t, d, d + 1)
    BY <1>2, <1>8, <1>9, <1>10 DEF Grown
  <2> QED BY <1>2, <1>8, <2>3, <2>5, <2>6
<1> QED BY <1>3, <1>11, <1>12

(* Advancing over the first data held leaves the others.                   *)
LEMMA AdvancesGapless ==
  ASSUME NEW s, Sound(s, MaxFiles), OffsetOK(s), s.files # <<>>, working = s.fire_index,
         NEW done \in 1 .. Len(Slice(s)), NEW m \in Int, Gapless(s, m),
         NEW t \in Advances(s, done), ~t.faulty
  PROVE  Gapless(t, m) /\ Front(t, m) = Front(s, m) + done
<1> DEFINE a == [s EXCEPT !.fire_offset = @ + done]
           l == Len(s.fire_buffer)
           o == s.fire_offset
           n == Len(s.files)
<1>1. /\ IsCache(s) /\ l \in Nat /\ o \in Nat /\ n \in Nat
      /\ PerFile \in Nat /\ TailStart(s, m) \in Int
  <2>1. IsCache(s) /\ PerFile \in Nat
    BY FileBufferAssumption DEF Sound
  <2>2. l \in Nat /\ o \in Nat /\ n \in Nat /\ Len(s.buffer) \in Nat
    BY <2>1 DEF IsCache
  <2> QED BY <2>1, <2>2 DEF TailStart
<1>2. done \in Nat \ {0} /\ done <= l - o + 1
  <2>1. Len(Slice(s)) \in Nat /\ Len(Slice(s)) <= Len(Pending(s))
    BY <1>1, SliceIs
  <2>2. Len(Pending(s)) = l - o + 1
    BY SpanIs
  <2> HIDE DEF l, o
  <2> QED BY <1>1, <2>1, <2>2
<1>3. /\ IsCache(a)
      /\ a.buffer = s.buffer /\ a.fire_offset = o + done
      /\ a.files = s.files /\ a.disk = s.disk /\ a.fire_index = s.fire_index
      /\ a.fire_buffer = s.fire_buffer /\ a.faulty = s.faulty /\ a.overtook = s.overtook
      /\ Sound(a, MaxFiles)
  <2>1. Sound(a, MaxFiles)
        /\ a.buffer = s.buffer /\ a.fire_offset = o + done
        /\ a.files = s.files /\ a.disk = s.disk /\ a.fire_index = s.fire_index
        /\ a.fire_buffer = s.fire_buffer /\ a.faulty = s.faulty /\ a.overtook = s.overtook
    BY <1>2, MoveSound
  <2> HIDE DEF a
  <2> QED BY <2>1 DEF Sound
<1>4. t = a \/ (Len(a.fire_buffer) < a.fire_offset /\ \E z \in Unreadable(a) : t = LoadNext(a, z))
  BY DEF Advances
<1> HIDE DEF a
<1>5. Sound(a, MaxFiles) /\ \A j : File(a, j) = File(s, j)
  BY <1>3 DEF File
<1>6. TailStart(a, m) = TailStart(s, m)
  BY <1>3 DEF TailStart
<1>7. Gapless(a, m)
  BY <1>3, <1>5, <1>6 DEF Gapless
<1> DEFINE E == TailStart(s, m)
           r == (n - 1) * PerFile
<1>8. r \in Int /\ E \in Int
  BY <1>1, TimesTotal
<1>9. Front(s, m) = E - r - l + o - 1
  BY DEF Front
<1>10. CASE t = a
  <2>1. Front(a, m) = E - r - l + (o + done) - 1
    BY <1>3, <1>6 DEF Front
  <2> HIDE DEF E, r, l, o, n
  <2>2. Front(a, m) = Front(s, m) + done
    BY <1>1, <1>2, <1>8, <1>9, <2>1
  <2> QED BY <1>7, <1>10, <2>2
<1>11. ASSUME Len(a.fire_buffer) < a.fire_offset, NEW z \in Unreadable(a), t = LoadNext(a, z)
       PROVE  Gapless(t, m) /\ Front(t, m) = Front(s, m) + done
  <2>1. z \in 0 .. Len(Unfired(a)) /\ a.files # <<>>
    <3>1. Unfired(a) \in Seq(Index)
      BY <1>3 DEF IsCache, Unfired
    <3> QED BY <1>3, <3>1 DEF Unreadable
  <2>2. MaxFiles \in Nat /\ MaxFiles < IndexMod
    BY IndexRange
  <2>3. z = 0
    <3>1. ~LoadNext(a, z).faulty
      BY <1>11
    <3> QED BY <1>5, <2>1, <2>2, <3>1, LoadNextFaulty
  <2>4. t = LoadNext(a, 0)
    BY <1>11, <2>3
  <2>5. Gapless(t, m) /\ Front(t, m) = TailStart(a, m) - (Len(a.files) - 1) * PerFile
    BY <1>5, <1>7, <2>1, <2>2, <2>4, LoadNextGapless
  <2>6. Front(t, m) = E - r
    BY <1>3, <1>6, <2>5
  <2>7. l < o + done
    BY <1>3, <1>11
  <2> HIDE DEF E, r, l, o, n
  <2>8. Front(t, m) = Front(s, m) + done
    BY <1>1, <1>2, <1>8, <1>9, <2>6, <2>7
  <2> QED BY <2>5, <2>8
<1> QED BY <1>4, <1>10, <1>11

-----------------------------------------------------------------------------
(* While a batch is in flight e files were evicted, all filled with data   *)
(* pushed since.                                                           *)
Evicted(e) ==
  /\ working \in Index
  /\ fb.fire_index = (working + e) % IndexMod
  /\ e * PerFile + Size(fb) + 2 <= next + PerFile
  /\ e = 0 => batch = Slice(fb)
  /\ e > 0 => Older(ToData(batch), Held(fb))

(* The inductive invariant of the refinement.                              *)
GInv ==
  ~fb.faulty => /\ Gapless(fb, next)
                /\ pc = "call" => \E e \in 0 .. IndexMod - 1 : Evicted(e)

(* Too few data are pushed for the file indices to come round.             *)
NoWrap == MaxPush <= IndexMod * PerFile

LEMMA OtherEvicted ==
  ASSUME NEW f \in Index, NEW e \in 0 .. IndexMod - 1
  PROVE  (f + e) % IndexMod = f <=> e = 0
<1>1. IndexMod \in Nat /\ IndexMod > 0 /\ f \in Nat /\ f < IndexMod /\ e \in Nat /\ e < IndexMod
  BY IndexRange DEF Index
<1>2. (f + e) % IndexMod = IF f + e < IndexMod THEN f + e ELSE f + e - IndexMod
  BY <1>1, WrapOnce
<1> QED BY <1>1, <1>2

LEMMA HeldData ==
  ASSUME NEW k, NEW s, Sound(s, k)
  PROVE  Held(s) \subseteq Data
<1> SUFFICES ASSUME NEW x \in Held(s) PROVE x \in Data
  OBVIOUS
<1>1. IsCache(s) /\ s.buffer \in Seq(Data) /\ s.disk \in [DOMAIN s.disk -> Seq(Data)]
  BY DEF Sound, IsCache
<1>2. CASE x \in ToData(s.buffer)
  BY <1>1, <1>2 DEF ToData
<1>3. CASE \E j \in 2 .. Len(s.files) : x \in ToData(File(s, j))
  <2>1. PICK j \in 2 .. Len(s.files) : x \in ToData(File(s, j))
    BY <1>3
  <2>2. j \in 1 .. Len(s.files)
    BY <1>1, <2>1 DEF IsCache
  <2>3. s.files[j] \in DOMAIN s.disk
    BY <2>2 DEF Sound, ToData
  <2>4. File(s, j) \in Seq(Data)
    BY <1>1, <2>3 DEF File
  <2> QED BY <2>1, <2>4 DEF ToData
<1>4. CASE x \in ToData(s.fire_buffer)
  BY <1>1, <1>4 DEF ToData, IsCache
<1> QED BY <1>2, <1>3, <1>4, HeldIs

(* Of the data pushed so far the first is not newer than the fire buffer.  *)
LEMMA SizeBound ==
  ASSUME NEW k, NEW s, Sound(s, k), ~s.faulty, s.files # <<>>, NEW m \in Int, Gapless(s, m)
  PROVE  Size(s) + 2 <= m + PerFile
<1> DEFINE n == Len(s.files)
           b == Len(s.buffer)
           l == Len(s.fire_buffer)
           r == (n - 1) * PerFile
<1>1. IsCache(s) /\ n \in Nat /\ b \in Nat /\ l \in Nat /\ PerFile \in Nat /\ s.fire_buffer \in Seq(Data)
  <2>1. IsCache(s) /\ PerFile \in Nat
    BY FileBufferAssumption DEF Sound
  <2> QED BY <2>1 DEF IsCache
<1>2. l \in 1 .. PerFile
  <2>1. s.fire_buffer = s.disk[s.files[1]] /\ s.files[1] \in DOMAIN s.disk
    <3>1. 1 \in 1 .. Len(s.files)
      BY HeldIs
    <3> QED BY <3>1, Clean DEF Sound, ToData
  <2>2. s.disk[s.files[1]] \in Seq(Data) /\ Len(s.disk[s.files[1]]) \in 1 .. Room(s)
    BY <1>1, <2>1 DEF Sound, IsCache
  <2> QED BY <2>1, <2>2, Clean
<1>3. TailStart(s, m) = m - b
  BY DEF TailStart
<1>4. s.fire_buffer[1] \in Data /\ s.fire_buffer[1] = m - b - r - l + 1 - 1
  <2>1. 1 \in 1 .. l
    BY <1>1, <1>2
  <2>2. s.fire_buffer[1] = TailStart(s, m) - r - l + 1 - 1
    BY <2>1 DEF Gapless
  <2>3. s.fire_buffer[1] \in Data
    BY <1>1, <2>1
  <2> QED BY ONLY <1>3, <2>2, <2>3
<1>5. r \in Int /\ n * PerFile = r + PerFile
  <2>1. n - 1 \in Int /\ n - 1 + 1 = n
    BY <1>1
  <2>2. (n - 1 + 1) * PerFile = (n - 1) * PerFile + PerFile /\ (n - 1) * PerFile \in Int
    BY <1>1, <2>1, TimesOne
  <2> HIDE DEF n
  <2> QED BY <2>1, <2>2
<1>6. Size(s) = n * PerFile + b
  BY DEF Size
<1> HIDE DEF n, b, l, r
<1>7. m - b - r - l + 1 - 1 >= 1
  BY <1>4 DEF Data
<1> DEFINE w == n * PerFile
<1>8. /\ w = r + PerFile /\ r \in Int /\ Size(s) = w + b
      /\ b \in Nat /\ l \in Nat /\ PerFile \in Nat
  BY <1>1, <1>5, <1>6
<1> HIDE DEF w
<1> QED BY ONLY <1>2, <1>7, <1>8, m \in Int

LEMMA SizeInt ==
  ASSUME NEW k, NEW s, Sound(s, k)
  PROVE  Size(s) \in Int
<1>1. Len(s.files) \in Int /\ Len(s.buffer) \in Int /\ PerFile \in Int
  BY FileBufferAssumption DEF Sound, IsCache
<1>2. Len(s.files) * PerFile \in Int
  BY <1>1, TimesTotal
<1> QED BY <1>1, <1>2 DEF Size

(* Where no file has failed the cache is as it was meant to be ...         *)
LEMMA CleanNow ==
  ASSUME IInv, ~fb.faulty
  PROVE  /\ Sound(fb, MaxFiles) /\ OffsetOK(fb) /\ fb.raised = 0 /\ Room(fb) = PerFile
         /\ Len(fb.buffer) < PerFile
<1>1. Sound(fb, MaxFiles) /\ Len(fb.buffer) < Room(fb) /\ (OffsetOK(fb) \/ fb.stale)
  BY DEF IInv
<1>2. ~fb.stale /\ fb.raised = 0 /\ Room(fb) = PerFile
  BY <1>1, Clean
<1> QED BY <1>1, <1>2

(* ... and a step after which none has failed found it so.                 *)
LEMMA CleanStep ==
  ASSUME IInv, [Next]_vars, ~fb'.faulty
  PROVE  Sound(fb', MaxFiles) /\ OffsetOK(fb') /\ fb'.raised = 0 /\ fb.raised = 0
<1>1. IInv'
  BY NextIInv
<1>2. Sound(fb', MaxFiles) /\ (OffsetOK(fb') \/ fb'.stale)
  BY <1>1 DEF IInv
<1>3. ~fb'.stale /\ fb'.raised = 0
  BY <1>2, Clean
<1>4. fb.raised = 0
  BY <1>3, RaisedGrows
<1> QED BY <1>2, <1>3, <1>4

(* What a step of the code does when no file has failed yet.               *)
LEMMA PushLossless ==
  ASSUME NoWrap, IInv, OInv, GInv, Push, fb' \in Pushes(fb, next), ~fb'.faulty
  PROVE  /\ Gapless(fb', next + 1) /\ Gapless(fb, next)
         /\ \/ Front(fb', next + 1) = Front(fb, next)
            \/ /\ Front(fb, next) <= Front(fb', next + 1)
               /\ Front(fb', next + 1) = (next + 1) - MaxFiles * PerFile
         /\ pc = "call" => \E e \in 0 .. IndexMod - 1 : Evicted(e)'
<1> USE DEF IInv
<1>1. /\ next \in Data /\ next' = next + 1 /\ next \in Nat /\ next <= MaxPush
      /\ UNCHANGED <<pc, working, batch, stopped>>
  <2>1. next \in 1 .. MaxPush + 1 /\ next <= MaxPush
    BY DEF Push, TypeOK
  <2>2. next \in Data /\ next \in Nat
    BY <2>1, FileBufferAssumption DEF Data
  <2> QED BY <2>1, <2>2 DEF Push
<1>2. /\ Held(fb') \subseteq Held(fb) \cup {next}
      /\ ~fb.faulty /\ (fb.files # <<>> => fb'.files # <<>>)
      /\ Sound(fb', MaxFiles)
  <2>1. Sound(fb', MaxFiles)
    BY <1>1, PushesSound
  <2>2. fb'.raised = 0
    BY <2>1, Clean
  <2> QED BY <1>1, <2>1, <2>2, PushesOrdered DEF OInv
<1>3. Gapless(fb, next) /\ (pc = "call" => \E e \in 0 .. IndexMod - 1 : Evicted(e))
  BY <1>2 DEF GInv
<1>4. /\ Gapless(fb', next + 1)
      /\ \/ Front(fb', next + 1) = Front(fb, next)
            /\ (fb.files # <<>> => Grown(fb, fb', next, next + 1))
         \/ Shed(fb, fb', next, next + 1)
  BY <1>1, <1>2, <1>3, CleanNow, PushesGapless DEF OInv
<1>5. ASSUME pc = "call" PROVE \E e \in 0 .. IndexMod - 1 : Evicted(e)'
  <2>1. fb.files # <<>>
    BY <1>2, <1>5 DEF OInv, NoFaultOK
  <2>2. PICK e \in 0 .. IndexMod - 1 : Evicted(e)
    BY <1>3, <1>5
  <2> DEFINE P == PerFile
             w == Size(fb)
             v == Size(fb')
  <2>3. /\ P \in Nat /\ P >= 1 /\ IndexMod \in Nat /\ MaxPush \in Nat /\ e \in Nat
        /\ e * P \in Int /\ w \in Int /\ v \in Int
    <3>1. P \in Nat /\ P >= 1 /\ IndexMod \in Nat /\ MaxPush \in Nat
      BY FileBufferAssumption
    <3>2. Sound(fb', MaxFiles)
      BY <1>2
    <3>3. Size(fb) \in Int /\ Size(fb') \in Int
      BY <3>2, SizeInt
    <3>5. e \in Int /\ e \in Nat
      BY <3>1
    <3>6. e * P \in Int
      BY <3>1, <3>5, TimesTotal
    <3> QED BY <3>1, <3>3, <3>5, <3>6
  <2>4. /\ working \in Index
        /\ fb.fire_index = (working + e) % IndexMod
        /\ e * P + w + 2 <= next + P
        /\ e = 0 => batch = Slice(fb)
        /\ e > 0 => Older(ToData(batch), Held(fb))
    BY <2>2 DEF Evicted
  <2>5. Older(ToData(batch), Held(fb)) => Older(ToData(batch), Held(fb'))
    BY <1>2 DEF OInv, FlightOK, Older
  <2> HIDE DEF P, w, v
  <2>6. CASE Grown(fb, fb', next, next + 1)
    <3>1. v - (next + 1) = w - next /\ fb'.fire_index = fb.fire_index /\ Pending(fb') = Pending(fb)
      BY <2>1, <2>6 DEF Grown, v, w
    <3>2. e * P + v + 2 <= next' + P
      BY <1>1, <2>3, <2>4, <3>1
    <3>3. e = 0 => batch = Slice(fb')
      BY <2>4, <3>1 DEF Slice
    <3>4. Evicted(e)'
      BY <1>1, <2>4, <2>5, <3>1, <3>2, <3>3 DEF Evicted, v, P, ToData
    <3> QED BY <3>4
  <2>7. CASE Shed(fb, fb', next, next + 1)
    <3>1. /\ v - (next + 1) = w - next - P /\ fb'.fire_index = (fb.fire_index + 1) % IndexMod
          /\ Older(ToData(fb.fire_buffer), Held(fb'))
      BY <2>7 DEF Shed, v, w, P
    <3>2. (e + 1) * P = e * P + P
      BY <2>3, TimesOne
    <3>3. (e + 1) * P + v + 2 <= next' + P
      BY <1>1, <2>3, <2>4, <3>1, <3>2
    <3>4. v >= P
      <4>1. Len(fb'.files) \in Int /\ Len(fb'.buffer) \in Int /\ Len(fb'.files) >= 1 /\ Len(fb'.buffer) >= 0
        <5>1. Sound(fb', MaxFiles)
          BY <1>2
        <5>2. fb'.files \in Seq(Index) /\ fb'.buffer \in Seq(Data)
          BY <5>1 DEF Sound, IsCache
        <5> QED BY <1>2, <2>1, <5>2
      <4>2. 1 * PerFile <= Len(fb'.files) * PerFile
        BY <4>1, FileBufferAssumption, TimesUp
      <4>3. 1 * PerFile = PerFile /\ Len(fb'.files) * PerFile \in Int
        BY <4>1, FileBufferAssumption, TimesTotal
      <4>4. Size(fb') = Len(fb'.files) * PerFile + Len(fb'.buffer)
        BY DEF Size
      <4> DEFINE h == Len(fb'.files) * PerFile
                 y == Len(fb'.buffer)
      <4>5. P <= h /\ h \in Int /\ v = h + y /\ y \in Int /\ y >= 0
        BY <4>1, <4>2, <4>3, <4>4 DEF v, P
      <4> HIDE DEF h, y
      <4> QED BY <2>3, <4>5
    <3>5. e + 1 \in 0 .. IndexMod - 1
      <4>1. MaxPush <= IndexMod * P /\ IndexMod * P \in Int
        BY <2>3, TimesTotal DEF NoWrap, P
      <4>2. (e + 1) * P \in Int
        BY <2>3, <3>2
      <4>3. (e + 1) * P < IndexMod * P
        BY <1>1, <2>3, <3>3, <3>4, <4>1, <4>2
      <4>4. e + 1 < IndexMod
        BY <2>3, <4>3, TimesDown
      <4> QED BY <2>3, <4>4
    <3>6. fb'.fire_index = (working + (e + 1)) % IndexMod
      <4>1. working \in 0 .. IndexMod - 1 /\ IndexMod > 0 /\ e + 1 < IndexMod
        BY <2>3, <2>4, <3>5 DEF Index
      <4>2. (working + (e + 1)) % IndexMod = (((working + e) % IndexMod) + 1) % IndexMod
        BY <2>3, <4>1, ShiftWrap
      <4> QED BY <2>4, <3>1, <4>2
    <3>7. Older(ToData(batch), Held(fb'))
      <4>1. CASE e = 0
        <5>1. ToData(batch) \subseteq ToData(fb.fire_buffer)
          BY <2>4, <4>1, SliceOrdered DEF OInv
        <5> QED BY <3>1, <5>1 DEF Older
      <4>2. CASE e > 0
        BY <2>4, <2>5, <4>2
      <4> QED BY <2>3, <4>1, <4>2
    <3>8. e + 1 # 0
      BY <2>3
    <3>9. Evicted(e + 1)'
      BY <1>1, <2>4, <3>3, <3>6, <3>7, <3>8 DEF Evicted, v, P, ToData
    <3> QED BY <3>5, <3>9
  <2> QED BY <1>4, <2>1, <2>6, <2>7
<1>6. Shed(fb, fb', next, next + 1) =>
        /\ Front(fb, next) <= Front(fb', next + 1)
        /\ Front(fb', next + 1) = (next + 1) - MaxFiles * PerFile
  BY DEF Shed
<1> QED BY <1>3, <1>4, <1>5, <1>6

LEMMA FireLossless ==
  ASSUME IInv, OInv, GInv, Fire, ~Empty(fb), ~fb'.faulty
  PROVE  /\ Gapless(fb', next) /\ Gapless(fb, next) /\ Front(fb', next) = Front(fb, next)
         /\ fb'.files # <<>> /\ batch' = Slice(fb')
         /\ Evicted(0)'
<1> USE DEF IInv
<1>1. /\ fb' \in (IF fb.fire_index = None /\ fb.files = <<>> THEN Dumps(fb) ELSE {fb})
      /\ working' = fb'.fire_index /\ batch' = Slice(fb') /\ pc' = "call"
      /\ UNCHANGED <<next, stopped, acked>>
  BY DEF Fire
<1>2. next \in Int
  BY DEF TypeOK
<1>3. /\ Gapless(fb', next) /\ Gapless(fb, next) /\ Front(fb', next) = Front(fb, next)
      /\ fb'.files # <<>> /\ Sound(fb', MaxFiles)
  <2>1. CASE fb.files = <<>>
    <3>1. fb' \in Dumps(fb)
      BY <1>1, <2>1 DEF Sound
    <3>2. fb.fire_buffer = <<>> /\ fb.buffer # <<>>
      BY <2>1 DEF Sound, Empty
    <3>3. Len(fb.buffer) \in 1 .. Room(fb)
      BY <3>2, FileBufferAssumption DEF Sound, IsCache, Room
    <3>4. Sound(fb', MaxFiles)
      BY <3>1, <3>3, DumpsSound
    <3>5. Ordered(fb, next)
      BY DEF OInv
    <3>10. fb'.raised = 0
      BY <3>4, Clean
    <3>6. ~fb.faulty /\ fb'.files # <<>>
      BY <3>1, <3>3, <3>5, <3>10, DumpsOrdered
    <3>7. Gapless(fb, next)
      BY <3>6 DEF GInv
    <3>8. /\ Gapless(fb', next)
          /\ \/ Front(fb', next) = Front(fb, next)
             \/ Shed(fb, fb', next, next)
      BY <1>2, <2>1, <3>1, <3>3, <3>5, <3>6, <3>7, CleanNow, DumpsGapless
    <3>9. ~Shed(fb, fb', next, next)
      BY <2>1 DEF Shed
    <3> QED BY <3>4, <3>6, <3>7, <3>8, <3>9
  <2>2. CASE fb.files # <<>>
    <3>1. fb' = fb
      BY <1>1, <2>2
    <3> QED BY <2>2, <3>1 DEF GInv
  <2> QED BY <2>1, <2>2
<1>4. Evicted(0)'
  <2>1. fb'.fire_index \in Index
    BY <1>3, HeldIs DEF Sound, IsCache
  <2>2. (fb'.fire_index + 0) % IndexMod = fb'.fire_index
    <3>1. 0 \in 0 .. IndexMod - 1
      BY IndexRange
    <3> QED BY <2>1, <3>1, OtherEvicted
  <2>3. Size(fb') + 2 <= next + PerFile
    BY <1>2, <1>3, SizeBound
  <2>4. 0 * PerFile + Size(fb') + 2 <= next + PerFile
    <3>1. 0 * PerFile = 0
      BY FileBufferAssumption
    <3>2. Size(fb') \in Int
      BY <1>3, SizeInt
    <3> QED BY <2>3, <3>1, <3>2
  <2> QED BY <1>1, <2>1, <2>2, <2>4 DEF Evicted
<1> QED BY <1>1, <1>3, <1>4

LEMMA FireOkLossless ==
  ASSUME IInv, OInv, GInv, NEW done \in 1 .. Len(batch), FireOk(done), ~fb'.faulty
  PROVE  /\ Gapless(fb', next) /\ Gapless(fb, next)
         /\ \/ fb' = fb /\ Older(ToData(batch), Held(fb))
            \/ batch = Slice(fb) /\ fb.files # <<>> /\ Front(fb', next) = Front(fb, next) + done
<1> USE DEF IInv
<1>1. /\ pc = "call" /\ done \in 1 .. Len(batch) /\ done \in Nat \ {0}
      /\ fb' \in Advances(fb, done) /\ pc' = "loop" /\ Len(batch) \in Nat
  <2>1. batch \in Seq(Data) /\ fb' \in Advances(fb, done) \cup AdvanceRaises(fb, done)
    BY DEF TypeOK, FireOk
  <2>2. Len(batch) \in Nat
    BY <2>1
  <2>3. done \in Nat \ {0}
    BY <2>2
  <2>4. ~(fb' \in AdvanceRaises(fb, done))
    <3>1. SUFFICES ASSUME fb' \in AdvanceRaises(fb, done) PROVE FALSE
      OBVIOUS
    <3>2. working \in Index \cup {None} /\ working # None /\ Sound(fb, MaxFiles)
      <4>1. batch # <<>> /\ pc = "call"
        BY DEF FireOk
      <4> QED BY <4>1 DEF IInv, TypeOK
    <3>3. Sound(fb', MaxFiles) /\ fb'.stale
      BY <2>3, <3>1, <3>2, AdvanceRaisesSound
    <3> QED BY <3>3, Clean
  <2> QED BY <2>2, <2>3, <2>4 DEF FireOk
<1>2. next \in Int /\ Ordered(fb, next) /\ working \in Index \cup {None} /\ working # None
  <2>1. batch # <<>>
    BY <1>1
  <2> QED BY <1>1, <2>1 DEF TypeOK, OInv
<1>10. OffsetOK(fb)
  BY <1>1
<1>3. ~fb.faulty
  BY <1>1, <1>2, <1>10, AdvancesOrdered
<1>4. Gapless(fb, next) /\ fb.files # <<>> /\ \E e \in 0 .. IndexMod - 1 : Evicted(e)
  BY <1>1, <1>3 DEF GInv, OInv, NoFaultOK
<1>5. PICK e \in 0 .. IndexMod - 1 : Evicted(e)
  BY <1>4
<1>6. /\ working \in Index /\ fb.fire_index = (working + e) % IndexMod
      /\ e = 0 => batch = Slice(fb)
      /\ e > 0 => Older(ToData(batch), Held(fb))
  BY <1>5 DEF Evicted
<1>7. fb.fire_index = working <=> e = 0
  BY <1>6, OtherEvicted
<1>8. CASE e = 0
  <2>1. batch = Slice(fb) /\ working = fb.fire_index /\ done \in 1 .. Len(Slice(fb))
    BY <1>1, <1>6, <1>7, <1>8
  <2>2. Gapless(fb', next) /\ Front(fb', next) = Front(fb, next) + done
    BY <1>1, <1>2, <1>4, <1>10, <2>1, AdvancesGapless
  <2> QED BY <1>4, <2>1, <2>2
<1>9. CASE e > 0
  <2>1. fb' = fb
    BY <1>1, <1>7, <1>9 DEF Advances
  <2> QED BY <1>4, <1>6, <1>9, <2>1
<1> QED BY <1>8, <1>9

LEMMA InitGInv == Init => GInv
<1> SUFFICES ASSUME Init PROVE GInv
  OBVIOUS
<1>1. fb.files = <<>> /\ fb.buffer = <<>> /\ pc = "sleep"
  BY DEF Init, EmptyCache
<1>2. Len(fb.buffer) = 0 /\ Len(fb.files) = 0
  BY <1>1
<1>3. Gapless(fb, next)
  BY <1>1, <1>2 DEF Gapless
<1> QED BY <1>1, <1>3 DEF GInv

(* A datum that is accepted as it is pushed leaves no trace.               *)
LEMMA DirectLossless ==
  ASSUME IInv, OInv, GInv, Push, Empty(fb), ~fb'.faulty,
         fb' = IF pc = "call" THEN [fb EXCEPT !.overtook = @ \cup {next}] ELSE fb
  PROVE  fb' = fb /\ pc # "call" /\ pc' = pc /\ Gapless(fb', next + 1)
<1>1. ~fb.faulty
  BY DEF IInv, TypeOK, IsCache
<1>2. pc # "call"
  BY <1>1 DEF OInv, NoFaultOK, Empty
<1>3. fb' = fb /\ fb.files = <<>> /\ fb.buffer = <<>>
  BY <1>2 DEF Empty
<1>4. Len(fb.buffer) = 0 /\ Len(fb.files) = 0
  BY <1>3
<1>5. Gapless(fb, next + 1)
  BY <1>3, <1>4 DEF Gapless
<1> QED BY <1>2, <1>3, <1>5 DEF Push

LEMMA NextGInv == NoWrap /\ IInv /\ QInv /\ GInv /\ [Next]_vars => GInv'
<1> SUFFICES ASSUME NoWrap, IInv, QInv, GInv, [Next]_vars, ~fb'.faulty PROVE GInv'
  BY DEF GInv
<1>12. OInv
  BY CleanStep DEF QInv
<1>1. ASSUME Gapless(fb', next'), pc' = "call" => \E e \in 0 .. IndexMod - 1 : Evicted(e)'
      PROVE  GInv'
  <2>1. (Gapless(fb, next))'
    BY <1>1
  <2> QED BY <1>1, <2>1 DEF GInv
<1>2. ASSUME UNCHANGED <<fb, next>>, pc' # "call"
      PROVE  GInv'
  BY <1>1, <1>2 DEF GInv
<1>3. ASSUME UNCHANGED <<fb, next, working, batch, pc>>
      PROVE  GInv'
  <2>1. ASSUME NEW e, Evicted(e)
        PROVE  Evicted(e)'
    <3>1. (Size(fb))' = Size(fb) /\ (Slice(fb))' = Slice(fb) /\ (Held(fb))' = Held(fb)
          /\ (ToData(batch))' = ToData(batch)
      BY <1>3 DEF ToData
    <3> QED BY <1>3, <2>1, <3>1 DEF Evicted
  <2> QED BY <1>1, <1>3, <2>1 DEF GInv
<1>4. CASE Push
  <2>1. CASE fb' \in Pushes(fb, next)
    <3>1. next' = next + 1 /\ pc' = pc
      BY <1>4 DEF Push
    <3> QED BY <1>1, <1>4, <1>12, <2>1, <3>1, PushLossless
  <2>2. CASE /\ Empty(fb)
             /\ fb' = IF pc = "call" THEN [fb EXCEPT !.overtook = @ \cup {next}] ELSE fb
    <3>1. next' = next + 1
      BY <1>4 DEF Push
    <3> QED BY <1>1, <1>4, <1>12, <2>2, <3>1, DirectLossless
  <2> QED BY <1>4, <2>1, <2>2 DEF Push
<1>5. CASE Wake
  BY <1>2, <1>5 DEF Wake
<1>6. CASE End
  BY <1>2, <1>6 DEF End
<1>7. CASE Fire
  <2>1. CASE Empty(fb)
    BY <1>2, <1>7, <2>1 DEF Fire
  <2>2. CASE ~Empty(fb)
    <3>1. next' = next
      BY <1>7 DEF Fire
    <3>2. Gapless(fb', next) /\ Evicted(0)'
      BY <1>7, <1>12, <2>2, FireLossless
    <3>3. 0 \in 0 .. IndexMod - 1
      BY IndexRange
    <3> QED BY <1>1, <3>1, <3>2, <3>3
  <2> QED BY <2>1, <2>2
<1>8. CASE FireFail
  BY <1>2, <1>8 DEF FireFail
<1>9. CASE Stop
  BY <1>3, <1>9 DEF Stop
<1>10. ASSUME NEW done \in 1 .. Len(batch), FireOk(done)
       PROVE  GInv'
  <2>1. next' = next /\ pc' # "call"
    BY <1>10 DEF FireOk
  <2>2. Gapless(fb', next)
    BY <1>10, <1>12, FireOkLossless
  <2> QED BY <1>1, <2>1, <2>2
<1>11. CASE UNCHANGED vars
  BY <1>3, <1>11 DEF vars
<1> QED BY <1>4, <1>5, <1>6, <1>7, <1>8, <1>9, <1>10, <1>11 DEF Next

-----------------------------------------------------------------------------
(* Every step of the code is a step of the lossy queue.                    *)
LEMMA InitCache == Init => Cache!Init
<1> SUFFICES ASSUME Init PROVE Cache!Init
  OBVIOUS
<1>1. /\ fb.files = <<>> /\ fb.buffer = <<>> /\ fb.fire_buffer = <<>> /\ fb.fire_offset = 1
      /\ next = 1 /\ batch = <<>> /\ acked = <<>>
  BY DEF Init, EmptyCache
<1>2. ToData(fb.buffer) = {}
  BY <1>1 DEF ToData
<1>3. Pending(fb) = <<>>
  BY <1>1 DEF Pending
<1>4. ToData(Pending(fb)) = {}
  BY <1>3 DEF ToData
<1>5. Len(fb.files) = 0
  BY <1>1
<1>6. 2 .. Len(fb.files) = {}
  BY <1>5
<1>7. Held(fb) = {}
  BY <1>2, <1>4, <1>6, IsHeld
<1> QED BY <1>1, <1>7 DEF Cache!Init

(* What has been taken from the front of the cache.                        *)
LEMMA SliceSpan ==
  ASSUME NEW k, NEW s, Sound(s, k), OffsetOK(s), s.files # <<>>, NEW m \in Int, Gapless(s, m)
  PROVE  /\ Len(Slice(s)) \in Nat /\ Len(Slice(s)) >= 1
         /\ Front(s, m) \in Int /\ Held(s) = Front(s, m) .. m - 1
         /\ \A i \in 1 .. Len(Slice(s)) : Slice(s)[i] = Front(s, m) + i - 1
         /\ Slice(s)[Len(Slice(s))] \in Held(s)
<1>1. /\ Front(s, m) \in Int /\ Held(s) = Front(s, m) .. m - 1
      /\ \A i \in 1 .. Len(Pending(s)) : Pending(s)[i] = Front(s, m) + i - 1
      /\ Len(Pending(s)) >= 1
  BY SpanIs
<1>2. IsCache(s)
  BY DEF Sound
<1>3. /\ Pending(s) \in Seq(Data) /\ Len(Pending(s)) \in Nat
      /\ Len(Slice(s)) \in Nat /\ Len(Slice(s)) <= Len(Pending(s))
      /\ \A i \in 1 .. Len(Slice(s)) : Slice(s)[i] = Pending(s)[i]
      /\ ToData(Slice(s)) \subseteq ToData(Pending(s))
  BY <1>2, PendingIs, SliceIs
<1>4. Len(Slice(s)) >= 1
  BY <1>1, <1>3, FileBufferAssumption DEF Slice
<1>5. \A i \in 1 .. Len(Slice(s)) : Slice(s)[i] = Front(s, m) + i - 1
  <2>1. \A i \in 1 .. Len(Slice(s)) : i \in 1 .. Len(Pending(s))
    BY <1>3
  <2> QED BY <1>1, <1>3, <2>1
<1>6. Slice(s)[Len(Slice(s))] \in Held(s)
  <2>1. Len(Slice(s)) \in 1 .. Len(Slice(s))
    BY <1>3, <1>4
  <2>2. Slice(s)[Len(Slice(s))] \in ToData(Slice(s))
    BY <2>1 DEF ToData
  <2> QED BY <1>3, <2>2, IsHeld
<1> QED BY <1>1, <1>3, <1>4, <1>5, <1>6

LEMMA PushRefines ==
  ASSUME NoWrap, IInv, OInv, GInv, Push, ~fb'.faulty
  PROVE  Cache!Next
<1> USE DEF IInv
<1>1. next \in Data /\ next \in Int /\ next >= 1 /\ next' = next + 1 /\ UNCHANGED batch
  <2>1. next \in 1 .. MaxPush + 1 /\ next <= MaxPush
    BY DEF Push, TypeOK
  <2>2. next \in Data /\ next \in Int
    BY <2>1, FileBufferAssumption DEF Data
  <2> QED BY <2>1, <2>2 DEF Push
<1>2. CASE fb' \in Pushes(fb, next) /\ UNCHANGED acked
  <2> DEFINE F == Front(fb, next)
             G == Front(fb', next + 1)
  <2>1. /\ Gapless(fb', next + 1) /\ Gapless(fb, next)
        /\ \/ G = F
           \/ F <= G /\ G = (next + 1) - MaxFiles * PerFile
    BY <1>2, PushLossless
  <2>2. Sound(fb', MaxFiles) /\ OffsetOK(fb')
    <3>1. [Next]_vars
      BY DEF Next
    <3> QED BY <3>1, CleanStep
  <2>20. OffsetOK(fb)
    <3>1. ~fb.faulty
      BY <1>1, <1>2, <2>2, Clean, PushesOrdered DEF OInv
    <3> QED BY <3>1, CleanNow
  <2>3. F \in Int /\ F <= next /\ Held(fb) = F .. next - 1
    <3>1. /\ F \in Int /\ F <= TailStart(fb, next) /\ TailStart(fb, next) <= next
          /\ Held(fb) = F .. next - 1
      BY <1>1, <2>1, <2>20, SpanIs
    <3>2. TailStart(fb, next) \in Int
      BY <1>1 DEF TailStart, Sound, IsCache
    <3> HIDE DEF F
    <3> QED BY <1>1, <3>1, <3>2
  <2>4. G \in Int /\ Held(fb') = G .. (next + 1) - 1
    BY <1>1, <2>1, <2>2, SpanIs
  <2>5. MaxFiles * PerFile \in Int /\ MaxFiles * PerFile >= 1
    <3>1. MaxFiles \in Int /\ PerFile \in Nat /\ 1 <= MaxFiles /\ 1 <= PerFile
      BY FileBufferAssumption
    <3>2. 1 * PerFile <= MaxFiles * PerFile /\ MaxFiles * PerFile \in Int /\ 1 * PerFile = PerFile
      BY <3>1, TimesUp, TimesTotal
    <3> QED BY <3>1, <3>2
  <2> DEFINE c == MaxFiles * PerFile
  <2> HIDE DEF F, G, c
  <2>6. F <= G /\ G <= next /\ (G = F \/ G = (next + 1) - c) /\ c \in Int
    BY <1>1, <2>1, <2>3, <2>5 DEF c
  <2>7. Held(fb') = G .. next
    BY <1>1, <2>4
  <2>8. G >= 1
    <3>1. Held(fb') \subseteq Data
      BY <2>2, HeldData
    <3>2. G \in Held(fb')
      BY <1>1, <2>4, <2>6, <2>7
    <3> QED BY <3>1, <3>2 DEF Data
  <2>9. G - 1 \in 0 .. next - 1
    BY <1>1, <2>4, <2>6, <2>8
  <2>10. Held(fb') = {x \in Held(fb) : x > G - 1} \cup {next}
    BY <1>1, <2>3, <2>4, <2>6, <2>7
  <2>11. {x \in Held(fb) : x <= G - 1} # {} => Cardinality(Held(fb')) >= c
    <3> SUFFICES ASSUME {x \in Held(fb) : x <= G - 1} # {}
                 PROVE  Cardinality(Held(fb')) >= c
      OBVIOUS
    <3>1. G # F
      BY <2>3, <2>4
    <3>2. Cardinality(G .. next) = next - G + 1
      BY <1>1, <2>4, <2>6, FS_Interval
    <3> QED BY <1>1, <2>4, <2>6, <2>7, <3>1, <3>2
  <2>12. Cache!Enqueue
    <3>1. (Held(fb))' = Held(fb')
      OBVIOUS
    <3>2. (Held(fb))' = Cache!Newer(G - 1) \cup {next}
      BY <2>10, <3>1 DEF Cache!Newer
    <3>3. Cache!Older(G - 1) # {} => Cardinality((Held(fb))') >= MaxFiles * PerFile
      BY <2>11, <3>1 DEF Cache!Older, c
    <3>4. PICK lost : lost = G - 1
      OBVIOUS
    <3>5. /\ lost \in 0 .. next - 1
          /\ (Held(fb))' = Cache!Newer(lost) \cup {next}
          /\ Cache!Older(lost) # {} => Cardinality((Held(fb))') >= MaxFiles * PerFile
      BY <2>9, <3>2, <3>3, <3>4
    <3>6. next' = next + 1 /\ UNCHANGED <<batch, acked>>
      BY <1>1, <1>2
    <3> QED BY ONLY <3>5, <3>6 DEF Cache!Enqueue, Cache!Cardinality, Cardinality
  <2> QED BY <2>12 DEF Cache!Next
<1>3. CASE /\ Empty(fb) /\ acked' = Append(acked, next)
           /\ fb' = IF pc = "call" THEN [fb EXCEPT !.overtook = @ \cup {next}] ELSE fb
  <2>1. fb' = fb
    BY <1>3, DirectLossless
  <2>2. Held(fb) = {}
    <3>1. fb.files = <<>> /\ fb.buffer = <<>> /\ Len(fb.files) = 0 /\ Len(fb.buffer) = 0
      BY <1>3 DEF Empty
    <3>2. ToData(fb.buffer) = {} /\ 1 .. Len(fb.files) = {}
      BY <3>1 DEF ToData
    <3> QED BY <3>2, HeldIs
  <2>3. Cache!Bypass
    BY <1>1, <1>3, <2>1, <2>2 DEF Cache!Bypass
  <2> QED BY <2>3 DEF Cache!Next
<1> QED BY <1>2, <1>3 DEF Push

LEMMA FireRefines ==
  ASSUME IInv, OInv, GInv, Fire, ~Empty(fb), ~fb'.faulty
  PROVE  Cache!Next
<1> USE DEF IInv
<1>1. /\ Gapless(fb', next) /\ Gapless(fb, next) /\ Front(fb', next) = Front(fb, next)
      /\ fb'.files # <<>> /\ batch' = Slice(fb')
  BY FireLossless
<1>2. next \in Int /\ UNCHANGED <<next, acked>> /\ batch = <<>>
  BY DEF TypeOK, Fire, OInv, FlightOK
<1>3. Sound(fb', MaxFiles) /\ OffsetOK(fb')
  <2>1. [Next]_vars
    BY DEF Next
  <2> QED BY <2>1, CleanStep
<1>20. OffsetOK(fb)
  <2>1. pc = "loop"
    BY DEF Fire
  <2> QED BY <2>1 DEF IInv
<1> DEFINE F == Front(fb, next)
           n == Len(Slice(fb'))
<1>4. /\ n \in Nat /\ n >= 1 /\ F \in Int /\ Held(fb') = F .. next - 1
      /\ \A i \in 1 .. n : Slice(fb')[i] = F + i - 1
      /\ Slice(fb')[n] \in Held(fb')
  BY <1>1, <1>2, <1>3, SliceSpan
<1>5. Held(fb) = F .. next - 1
  BY <1>1, <1>2, <1>20, SpanIs
<1> DEFINE b == Slice(fb')
<1>6. b[n] \in F .. next - 1 /\ b[n] = F + n - 1 /\ \A i \in 1 .. n : b[i] = F + i - 1
  BY <1>4
<1> HIDE DEF F
<1>7. {x \in F .. next - 1 : x <= b[n]} = F .. F + n - 1
  BY <1>2, <1>4, <1>6
<1>8. {b[i] : i \in 1 .. n} = F .. F + n - 1
  <2>1. \A x \in F .. F + n - 1 : x - F + 1 \in 1 .. n /\ b[x - F + 1] = x
    BY <1>4, <1>6
  <2>2. \A i \in 1 .. n : b[i] \in F .. F + n - 1
    BY <1>4, <1>6
  <2> QED BY <2>1, <2>2
<1>9. \A i, j \in 1 .. n : i < j => b[i] < b[j]
  BY <1>4, <1>6
<1>10. Cache!Lists(batch', {x \in Held(fb) : x <= b[n]})
  BY <1>1, <1>5, <1>7, <1>8, <1>9 DEF Cache!Lists
<1>11. Held(fb') = Held(fb) /\ b[n] \in Held(fb)
  BY <1>4, <1>5
<1> HIDE DEF n, b
<1>12. Cache!HandOver
  BY <1>2, <1>10, <1>11 DEF Cache!HandOver, Cache!Older
<1> QED BY <1>12 DEF Cache!Next

LEMMA FireOkRefines ==
  ASSUME IInv, OInv, GInv, NEW done \in 1 .. Len(batch), FireOk(done), ~fb'.faulty
  PROVE  Cache!Next
<1> USE DEF IInv
<1>1. /\ done \in 1 .. Len(batch) /\ batch \in Seq(Data) /\ Len(batch) \in Nat
      /\ acked' = acked \o SubSeq(batch, 1, done) /\ batch' = <<>> /\ UNCHANGED next
      /\ next \in Int
  BY DEF FireOk, TypeOK
<1>2. Sound(fb', MaxFiles) /\ OffsetOK(fb') /\ OffsetOK(fb)
  <2>1. [Next]_vars
    BY DEF Next
  <2>2. pc = "call"
    BY DEF FireOk
  <2> QED BY <2>1, <2>2, CleanStep DEF IInv
<1>3. Held(fb') = {x \in Held(fb) : x > batch[done]}
  <2>1. CASE fb' = fb /\ Older(ToData(batch), Held(fb))
    <3>1. batch[done] \in ToData(batch)
      BY <1>1 DEF ToData
    <3>2. \A x \in Held(fb) : batch[done] < x /\ x \in Int
      BY <2>1, <3>1, HeldData DEF Older, Data
    <3>3. batch[done] \in Int
      <4>1. batch[done] \in Data
        BY <1>1
      <4> QED BY <4>1 DEF Data
    <3> QED BY <2>1, <3>2, <3>3
  <2>2. CASE /\ batch = Slice(fb) /\ fb.files # <<>>
             /\ Front(fb', next) = Front(fb, next) + done
    <3> DEFINE F == Front(fb, next)
    <3>1. Gapless(fb', next) /\ Gapless(fb, next)
      BY FireOkLossless
    <3>2. F \in Int /\ Held(fb) = F .. next - 1 /\ \A i \in 1 .. Len(batch) : batch[i] = F + i - 1
      BY <1>1, <1>2, <2>2, <3>1, SliceSpan
    <3>3. Held(fb') = Front(fb', next) .. next - 1
      BY <1>1, <1>2, <3>1, SpanIs
    <3> HIDE DEF F
    <3>4. batch[done] = F + done - 1 /\ Held(fb') = F + done .. next - 1 /\ done \in Int
      BY <1>1, <2>2, <3>2, <3>3 DEF F
    <3> DEFINE h == batch[done]
    <3>5. /\ h = F + done - 1 /\ F \in Int /\ done \in Int /\ next \in Int /\ done >= 1
          /\ Held(fb) = F .. next - 1 /\ Held(fb') = F + done .. next - 1
      BY <1>1, <3>2, <3>4
    <3> HIDE DEF h
    <3>6. F + done .. next - 1 = {x \in F .. next - 1 : x > h}
      BY ONLY <3>5
    <3> QED BY ONLY <3>5, <3>6 DEF h
  <2> QED BY <2>1, <2>2, FireOkLossless
<1>4. Cache!Confirm
  BY <1>1, <1>3 DEF Cache!Confirm, Cache!Newer
<1> QED BY <1>4 DEF Cache!Next

LEMMA NextRefines ==
  NoWrap /\ IInv /\ QInv /\ GInv /\ [Next]_vars => [fb'.faulty \/ Cache!Next]_Cache!qvars
<1> SUFFICES ASSUME NoWrap, IInv, QInv, GInv, [Next]_vars, ~fb'.faulty
             PROVE  Cache!Next \/ UNCHANGED Cache!qvars
  OBVIOUS
<1>10. OInv
  BY CleanStep DEF QInv
<1>1. ASSUME UNCHANGED <<fb, next, batch, acked>>
      PROVE  UNCHANGED Cache!qvars
  <2>1. (Held(fb))' = Held(fb)
    BY <1>1
  <2> QED BY <1>1, <2>1 DEF Cache!qvars
<1>2. CASE Push
  BY <1>2, <1>10, PushRefines
<1>3. CASE Wake
  BY <1>1, <1>3 DEF Wake
<1>4. CASE End
  BY <1>1, <1>4 DEF End
<1>5. CASE Fire
  <2>1. CASE Empty(fb)
    BY <1>1, <1>5, <2>1 DEF Fire
  <2> QED BY <1>5, <1>10, <2>1, FireRefines
<1>6. CASE FireFail
  <2>1. batch' = <<>> /\ UNCHANGED <<fb, next, acked>>
    BY <1>6 DEF FireFail
  <2>2. (Held(fb))' = Held(fb)
    BY <2>1
  <2>3. Cache!Return
    BY <2>1, <2>2 DEF Cache!Return
  <2> QED BY <2>3 DEF Cache!Next
<1>7. CASE Stop
  BY <1>1, <1>7 DEF Stop
<1>8. ASSUME NEW done \in 1 .. Len(batch), FireOk(done)
      PROVE  Cache!Next
  BY <1>8, <1>10, FireOkRefines
<1>9. CASE UNCHANGED vars
  BY <1>1, <1>9 DEF vars
<1> QED BY <1>2, <1>3, <1>4, <1>5, <1>6, <1>7, <1>8, <1>9 DEF Next

(* Until a file fails the disk cache is the lossy queue (file.lua:357):    *)
(* what it loses are the oldest data, only to keep MaxFiles full files of  *)
(* the newest ones, and what it hands over is its front.  The file indices *)
(* must not come round while a batch is in flight: file.lua:315 tells by   *)
(* the index that a file was evicted.                                      *)
THEOREM CacheIsLossyQueue ==
  ASSUME MaxPush <= IndexMod * PerFile
  PROVE  Spec => IsLossyQueue
<1>1. NoWrap
  BY DEF NoWrap
<1>2. Init => Cache!Init
  BY InitCache
<1>3. Init => GInv
  BY InitGInv
<1>4. NoWrap /\ IInv /\ QInv /\ GInv /\ [Next]_vars => GInv'
  BY NextGInv
<1>5. NoWrap /\ IInv /\ QInv /\ GInv /\ [Next]_vars => [fb'.faulty \/ Cache!Next]_Cache!qvars
  BY NextRefines
<1>6. Spec => []IInv /\ []QInv
  BY Inductive, OrderInductive
<1> HIDE DEF IInv, QInv, GInv, NoWrap
<1> QED BY <1>1, <1>2, <1>3, <1>4, <1>5, <1>6, PTL DEF Spec, IsLossyQueue

(* file.lua:315 "if index equal means the self._fire_buffer is valid one", *)
(* until a file fails: what the offset is moved over is what was sent.     *)
THEOREM IndexTellsEviction ==
  ASSUME MaxPush <= IndexMod * PerFile
  PROVE  Spec => [](fb.faulty \/ IndexEqualMeansValid)
<1>1. NoWrap
  BY DEF NoWrap
<1>2. Init => GInv
  BY InitGInv
<1>3. NoWrap /\ IInv /\ QInv /\ GInv /\ [Next]_vars => GInv'
  BY NextGInv
<1>4. GInv => fb.faulty \/ IndexEqualMeansValid
  <2> SUFFICES ASSUME GInv, ~fb.faulty, pc = "call", working = fb.fire_index
               PROVE  batch = Slice(fb)
    BY DEF IndexEqualMeansValid
  <2>1. PICK e \in 0 .. IndexMod - 1 : Evicted(e)
    BY DEF GInv
  <2> QED BY <2>1, OtherEvicted DEF Evicted
<1>5. Spec => []IInv /\ []QInv
  BY Inductive, OrderInductive
<1> HIDE DEF IInv, QInv, GInv, NoWrap, IndexEqualMeansValid
<1> QED BY <1>1, <1>2, <1>3, <1>4, <1>5, PTL DEF Spec
=============================================================================
