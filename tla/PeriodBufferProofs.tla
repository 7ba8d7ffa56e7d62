------------------------- MODULE PeriodBufferProofs -------------------------
(***************************************************************************)
(* No datum is lost or doubled by the upload buffer, and none overtakes    *)
(* another unless fire_all calls do, for any number of concurrent calls,   *)
(* any limit and any batch size.                                           *)
(***************************************************************************)
EXTENDS PeriodBuffer, SequenceTheorems, FiniteSetTheorems, TLAPS

IInv == TypeOK /\ Bounded /\ NothingLost

-----------------------------------------------------------------------------
LEMMA DataOfConcat ==
  ASSUME NEW s \in Seq(Data), NEW t \in Seq(Data)
  PROVE  s \o t \in Seq(Data) /\ ToData(s \o t) = ToData(s) \cup ToData(t)
<1>1. /\ s \o t \in Seq(Data)
      /\ Len(s \o t) = Len(s) + Len(t)
      /\ \A i \in 1 .. Len(s) : (s \o t)[i] = s[i]
      /\ \A i \in 1 .. Len(t) : (s \o t)[Len(s) + i] = t[i]
  BY ConcatProperties
<1>2. ASSUME NEW i \in 1 .. Len(s \o t)
      PROVE  (s \o t)[i] \in ToData(s) \cup ToData(t)
  <2>1. CASE i <= Len(s)
    BY <1>1, <2>1 DEF ToData
  <2>2. CASE i > Len(s)
    <3>1. i - Len(s) \in 1 .. Len(t) /\ i = Len(s) + (i - Len(s))
      BY <1>1, <2>2
    <3>2. (s \o t)[i] = t[i - Len(s)]
      BY <1>1, <3>1
    <3> QED BY <3>1, <3>2 DEF ToData
  <2> QED BY <2>1, <2>2, <1>1
<1>3. ASSUME NEW i \in 1 .. Len(s)
      PROVE  s[i] \in ToData(s \o t)
  <2>1. i \in 1 .. Len(s \o t)
    BY <1>1
  <2> QED BY <1>1, <2>1 DEF ToData
<1>4. ASSUME NEW i \in 1 .. Len(t)
      PROVE  t[i] \in ToData(s \o t)
  <2>1. Len(s) + i \in 1 .. Len(s \o t)
    BY <1>1
  <2> QED BY <1>1, <2>1 DEF ToData
<1> QED BY <1>1, <1>2, <1>3, <1>4 DEF ToData

(* Cutting a list in two keeps its data.                                   *)
LEMMA DataOfCut ==
  ASSUME NEW s \in Seq(Data), NEW k \in 0 .. Len(s)
  PROVE  /\ SubSeq(s, 1, k) \in Seq(Data) /\ Len(SubSeq(s, 1, k)) = k
         /\ SubSeq(s, k + 1, Len(s)) \in Seq(Data)
         /\ Len(SubSeq(s, k + 1, Len(s))) = Len(s) - k
         /\ ToData(s) = ToData(SubSeq(s, 1, k)) \cup ToData(SubSeq(s, k + 1, Len(s)))
<1> DEFINE a == SubSeq(s, 1, k)
           b == SubSeq(s, k + 1, Len(s))
<1>1. /\ a \in Seq(Data) /\ Len(a) = k
      /\ \A i \in 1 .. k : a[i] = s[i]
      /\ b \in Seq(Data) /\ Len(b) = Len(s) - k
      /\ \A i \in 1 .. Len(s) - k : b[i] = s[k + i]
  OBVIOUS
<1>2. ASSUME NEW i \in 1 .. Len(s)
      PROVE  s[i] \in ToData(a) \cup ToData(b)
  <2>1. CASE i <= k
    BY <1>1, <2>1 DEF ToData
  <2>2. CASE i > k
    <3>1. i - k \in 1 .. Len(s) - k /\ i = k + (i - k)
      BY <2>2
    <3>2. b[i - k] = s[i]
      BY <1>1, <3>1
    <3> QED BY <1>1, <3>1, <3>2 DEF ToData
  <2> QED BY <2>1, <2>2
<1>3. ToData(a) \subseteq ToData(s) /\ ToData(b) \subseteq ToData(s)
  <2>1. \A i \in 1 .. Len(b) : k + i \in 1 .. Len(s)
    BY <1>1
  <2> QED BY <1>1, <2>1 DEF ToData
<1> QED BY <1>1, <1>2, <1>3 DEF ToData

(* What does not fit and what does are the whole list; what fits is within *)
(* the limit.                                                              *)
LEMMA OverflowFitting ==
  ASSUME NEW s \in Seq(Data)
  PROVE  /\ Overflow(s) \in Seq(Data)
         /\ Fitting(s) \in Seq(Data)
         /\ Len(Fitting(s)) <= MaxSize
         /\ ToData(s) = ToData(Overflow(s)) \cup ToData(Fitting(s))
<1>1. Excess(s) \in 0 .. Len(s) /\ Len(s) - Excess(s) <= MaxSize
  BY PeriodBufferAssumption DEF Excess
<1> QED BY <1>1, DataOfCut DEF Overflow, Fitting

(* Where a batch ends.                                                     *)
LEMMA BatchCut ==
  ASSUME NEW s \in Seq(Data)
  PROVE  \E k \in 0 .. Len(s) : /\ Batch(s) = SubSeq(s, 1, k)
                                /\ AfterBatch(s) = SubSeq(s, k + 1, Len(s))
<1>1. PICK k \in 0 .. Len(s) : Batch(s) = SubSeq(s, 1, k)
  <2>1. CASE Len(s) <= MaxBatch
    <3>1. s = SubSeq(s, 1, Len(s))
      BY SubSeqFull
    <3>2. Len(s) \in 0 .. Len(s) /\ Batch(s) = SubSeq(s, 1, Len(s))
      BY <2>1, <3>1 DEF Batch
    <3> QED BY <3>2
  <2>2. CASE ~(Len(s) <= MaxBatch)
    <3>1. MaxBatch \in 0 .. Len(s) /\ Batch(s) = SubSeq(s, 1, MaxBatch)
      BY <2>2, PeriodBufferAssumption DEF Batch
    <3> QED BY <3>1
  <2> QED BY <2>1, <2>2
<1>2. Len(Batch(s)) = k
  BY <1>1, DataOfCut
<1>3. AfterBatch(s) = SubSeq(s, k + 1, Len(s))
  BY <1>2 DEF AfterBatch
<1> QED BY <1>1, <1>3

(* A batch and the rest are the whole list.                                *)
LEMMA BatchRest ==
  ASSUME NEW s \in Seq(Data)
  PROVE  /\ Batch(s) \in Seq(Data)
         /\ AfterBatch(s) \in Seq(Data)
         /\ Len(AfterBatch(s)) <= Len(s)
         /\ ToData(s) = ToData(Batch(s)) \cup ToData(AfterBatch(s))
<1>1. PICK k \in 0 .. Len(s) : /\ Batch(s) = SubSeq(s, 1, k)
                               /\ AfterBatch(s) = SubSeq(s, k + 1, Len(s))
  BY BatchCut
<1>2. Len(AfterBatch(s)) <= Len(s)
  BY <1>1, DataOfCut
<1> QED BY <1>1, <1>2, DataOfCut

(* The data taken by all firers, when one of them changes its list.        *)
LEMMA TakenExcept ==
  ASSUME TypeOK, NEW f \in Firers, NEW s \in Seq(Data),
         taken' = [taken EXCEPT ![f] = s]
  PROVE  /\ taken' \in [Firers -> Seq(Data)]
         /\ UNION {ToData(taken'[g]) : g \in Firers}
            = ToData(s) \cup UNION {ToData(taken[g]) : g \in Firers \ {f}}
         /\ UNION {ToData(taken[g]) : g \in Firers}
            = ToData(taken[f]) \cup UNION {ToData(taken[g]) : g \in Firers \ {f}}
<1>1. taken' \in [Firers -> Seq(Data)] /\ taken'[f] = s
      /\ \A g \in Firers \ {f} : taken'[g] = taken[g]
  BY DEF TypeOK
<1> QED BY <1>1

-----------------------------------------------------------------------------
LEMMA InitIInv == Init => IInv
<1> SUFFICES ASSUME Init PROVE IInv
  OBVIOUS
<1>1. overlap \in BOOLEAN
  BY Zenon DEF Init
<1> QED
  BY <1>1, PeriodBufferAssumption DEF Init, IInv, TypeOK, Bounded, NothingLost, ToData

LEMMA NextIInv == IInv /\ [Next]_vars => IInv'
<1> SUFFICES ASSUME IInv, [Next]_vars PROVE IInv'
  OBVIOUS
<1> DEFINE InFire == UNION {ToData(taken[f]) : f \in Firers}
<1>0. /\ TypeOK /\ buf \in Seq(Data) /\ sent \in Seq(Data) /\ dropped \in Seq(Data)
      /\ taken \in [Firers -> Seq(Data)] /\ next \in 1 .. MaxPush + 1
      /\ 1 .. next - 1 = ToData(buf) \cup ToData(sent) \cup ToData(dropped) \cup InFire
      /\ Len(buf) <= MaxSize
      /\ \A f \in Firers : Len(taken[f]) <= MaxSize
  BY DEF IInv, TypeOK, Bounded, NothingLost
<1>b. overlap' \in BOOLEAN
  <2>1. overlap \in BOOLEAN
    BY DEF IInv, TypeOK
  <2> QED
    BY <2>1, Zenon DEF Next, Push, FireAll, Accept, Refuse, vars
<1>1. CASE Push
  <2> DEFINE longer == Append(buf, next)
  <2>1. next \in Data /\ next' \in 1 .. MaxPush + 1 /\ next' = next + 1
    BY <1>0, <1>1, PeriodBufferAssumption DEF Push, Data
  <2>2. longer \in Seq(Data) /\ ToData(longer) = ToData(buf) \cup {next}
    <3>1. longer = buf \o <<next>> /\ <<next>> \in Seq(Data)
      BY <1>0, <2>1, AppendIsConcat
    <3>2. ToData(<<next>>) = {next}
      BY DEF ToData
    <3>3. /\ buf \o <<next>> \in Seq(Data)
          /\ ToData(buf \o <<next>>) = ToData(buf) \cup ToData(<<next>>)
      BY <1>0, <3>1, DataOfConcat
    <3> QED BY <3>1, <3>2, <3>3
  <2>3. /\ buf' = Fitting(longer) /\ dropped' = dropped \o Overflow(longer)
        /\ taken' = taken /\ sent' = sent
    BY <1>1 DEF Push
  <2> HIDE DEF longer
  <2>4. /\ buf' \in Seq(Data) /\ dropped' \in Seq(Data) /\ Len(buf') <= MaxSize
        /\ ToData(buf') \cup ToData(dropped') = ToData(longer) \cup ToData(dropped)
    BY <1>0, <2>2, <2>3, OverflowFitting, DataOfConcat
  <2>5. 1 .. next' - 1 = (1 .. next - 1) \cup {next}
    BY <1>0, <2>1
  <2>6. 1 .. next' - 1 = ToData(buf') \cup ToData(sent) \cup ToData(dropped') \cup InFire
    <3> HIDE DEF InFire
    <3> QED BY <1>0, <2>2, <2>4, <2>5
  <2> QED BY <1>0, <1>b, <2>1, <2>3, <2>4, <2>6 DEF IInv, TypeOK, Bounded, NothingLost
<1>2. ASSUME NEW f \in Firers, FireAll(f)
      PROVE  IInv'
  <2>1. /\ taken[f] = <<>> /\ taken' = [taken EXCEPT ![f] = buf] /\ buf' = <<>>
        /\ UNCHANGED <<next, sent, dropped>>
    BY <1>2 DEF FireAll
  <2>2. ToData(<<>>) = {}
    BY DEF ToData
  <2>3. taken' \in [Firers -> Seq(Data)]
        /\ UNION {ToData(taken'[g]) : g \in Firers} = ToData(buf) \cup InFire
    <3> DEFINE others == UNION {ToData(taken[g]) : g \in Firers \ {f}}
    <3>1. /\ taken' \in [Firers -> Seq(Data)]
          /\ UNION {ToData(taken'[g]) : g \in Firers} = ToData(buf) \cup others
          /\ InFire = ToData(taken[f]) \cup others
      BY <1>0, <2>1, TakenExcept
    <3> HIDE DEF InFire, others
    <3> QED BY <2>1, <2>2, <3>1
  <2>4. /\ Len(buf') <= MaxSize /\ buf' \in Seq(Data)
        /\ \A g \in Firers : Len(taken'[g]) <= MaxSize
    BY <1>0, <2>1, PeriodBufferAssumption
  <2>5. NothingLost'
    <3> HIDE DEF InFire
    <3> QED BY <1>0, <2>1, <2>2, <2>3 DEF NothingLost
  <2> QED BY <1>0, <1>b, <2>1, <2>3, <2>4, <2>5 DEF IInv, TypeOK, Bounded
<1>3. ASSUME NEW f \in Firers, Accept(f)
      PROVE  IInv'
  <2> DEFINE rest == AfterBatch(taken[f])
             others == UNION {ToData(taken[g]) : g \in Firers \ {f}}
  <2>1. /\ sent' = sent \o Batch(taken[f]) /\ taken' = [taken EXCEPT ![f] = rest]
        /\ UNCHANGED <<buf, next, dropped>>
    BY <1>3 DEF Accept
  <2>2. /\ Batch(taken[f]) \in Seq(Data) /\ rest \in Seq(Data)
        /\ Len(rest) <= Len(taken[f])
        /\ ToData(taken[f]) = ToData(Batch(taken[f])) \cup ToData(rest)
    BY <1>0, BatchRest
  <2> HIDE DEF rest
  <2>3. /\ sent' \in Seq(Data)
        /\ ToData(sent') = ToData(sent) \cup ToData(Batch(taken[f]))
    BY <1>0, <2>1, <2>2, DataOfConcat
  <2>4. /\ taken' \in [Firers -> Seq(Data)]
        /\ UNION {ToData(taken'[g]) : g \in Firers} = ToData(rest) \cup others
        /\ InFire = ToData(taken[f]) \cup others
    BY <1>0, <2>1, <2>2, TakenExcept
  <2>5. \A g \in Firers : Len(taken'[g]) <= MaxSize
    BY <1>0, <2>1, <2>2, PeriodBufferAssumption
  <2>6. NothingLost'
    <3> HIDE DEF InFire, others
    <3> QED BY <1>0, <2>1, <2>2, <2>3, <2>4 DEF NothingLost
  <2> QED BY <1>0, <1>b, <2>1, <2>3, <2>4, <2>5, <2>6 DEF IInv, TypeOK, Bounded
<1>4. ASSUME NEW f \in Firers, Refuse(f)
      PROVE  IInv'
  <2> DEFINE merged == taken[f] \o buf
             others == UNION {ToData(taken[g]) : g \in Firers \ {f}}
  <2>1. /\ taken' = [taken EXCEPT ![f] = <<>>]
        /\ UNCHANGED <<next, sent>>
    BY <1>4 DEF Refuse
  <2>2. /\ merged \in Seq(Data)
        /\ ToData(merged) = ToData(taken[f]) \cup ToData(buf)
    BY <1>0, DataOfConcat
  <2>3. /\ buf' \in Seq(Data) /\ dropped' \in Seq(Data) /\ Len(buf') <= MaxSize
        /\ ToData(buf') \cup ToData(dropped') = ToData(merged) \cup ToData(dropped)
    <3>1. CASE buf = <<>> /\ buf' = taken[f] /\ dropped' = dropped
      <4>1. ToData(buf) = {}
        BY <3>1 DEF ToData
      <4> QED BY <1>0, <2>2, <3>1, <4>1
    <3>2. CASE buf' = Fitting(merged) /\ dropped' = dropped \o Overflow(merged)
      <4> HIDE DEF merged
      <4> QED BY <1>0, <2>2, <3>2, OverflowFitting, DataOfConcat
    <3> QED BY <1>4, <3>1, <3>2 DEF Refuse
  <2>4. ToData(<<>>) = {} /\ <<>> \in Seq(Data)
    BY DEF ToData
  <2>5. /\ taken' \in [Firers -> Seq(Data)]
        /\ UNION {ToData(taken'[g]) : g \in Firers} = ToData(<<>>) \cup others
        /\ InFire = ToData(taken[f]) \cup others
    BY <1>0, <2>1, <2>4, TakenExcept
  <2>6. \A g \in Firers : Len(taken'[g]) <= MaxSize
    BY <1>0, <2>1, PeriodBufferAssumption
  <2>7. NothingLost'
    <3> HIDE DEF InFire, others, merged
    <3> QED BY <1>0, <2>1, <2>2, <2>3, <2>4, <2>5 DEF NothingLost
  <2> QED BY <1>0, <1>b, <2>1, <2>3, <2>5, <2>6, <2>7 DEF IInv, TypeOK, Bounded
<1>5. CASE UNCHANGED vars
  BY <1>b, <1>5 DEF vars, IInv, TypeOK, Bounded, NothingLost
<1> QED BY <1>1, <1>2, <1>3, <1>4, <1>5 DEF Next

LEMMA Inductive == Spec => []IInv
BY InitIInv, NextIInv, PTL DEF Spec

(* Memory use of the upload buffer is bounded for any number of fire_all   *)
(* calls in progress.                                                      *)
THEOREM PeriodBounded == Spec => []Bounded
BY Inductive, PTL DEF IInv

(* The limit and the account of the data hold together, with any number of *)
(* coroutines inside fire_all.                                             *)
THEOREM PeriodKept == Spec => []Kept
BY Inductive, PTL DEF IInv, Kept

(* No interleaving of pushes and fire_all calls loses a datum: it is in    *)
(* memory, sent, or handed to the drop callback.                           *)
THEOREM PeriodNothingLost == Spec => []NothingLost
BY Inductive, PTL DEF IInv
-----------------------------------------------------------------------------
(* How many data the firers hold.                                          *)
Slots(f, n) == {<<f, i>> : i \in 1 .. n}
InFire(t) == UNION {Slots(f, Len(t[f])) : f \in Firers}

Counted == IsFiniteSet(InFire(taken)) /\ NothingTwice

LEMMA SlotsCounted ==
  ASSUME NEW f, NEW n \in Nat
  PROVE  IsFiniteSet(Slots(f, n)) /\ Cardinality(Slots(f, n)) = n
<1> DEFINE slot == [i \in 1 .. n |-> <<f, i>>]
<1>1. slot \in Bijection(1 .. n, Slots(f, n))
  <2>1. slot \in [1 .. n -> Slots(f, n)]
    BY DEF Slots
  <2>2. \A i, j \in 1 .. n : slot[i] = slot[j] => i = j
    OBVIOUS
  <2>3. \A x \in Slots(f, n) : \E i \in 1 .. n : slot[i] = x
    BY DEF Slots
  <2> QED BY <2>1, <2>2, <2>3 DEF Bijection, Injection, Surjection, IsInjective
<1>2. ExistsBijection(1 .. n, Slots(f, n))
  BY <1>1 DEF ExistsBijection
<1>3. IsFiniteSet(1 .. n) /\ Cardinality(1 .. n) = n
  BY FS_Interval
<1> QED BY <1>2, <1>3, FS_Bijection

(* When one firer changes its list, the number of data in fire_all changes *)
(* by as much.                                                             *)
LEMMA InFireCounted ==
  ASSUME NEW t \in [Firers -> Seq(Data)], NEW f \in Firers, NEW s \in Seq(Data),
         IsFiniteSet(InFire(t))
  PROVE  LET u == [t EXCEPT ![f] = s]
         IN  /\ IsFiniteSet(InFire(u))
             /\ Cardinality(InFire(u)) = Cardinality(InFire(t)) - Len(t[f]) + Len(s)
             /\ Cardinality(InFire(t)) \in Nat
<1> DEFINE others == UNION {Slots(g, Len(t[g])) : g \in Firers \ {f}}
           u == [t EXCEPT ![f] = s]
<1>1. InFire(t) = others \cup Slots(f, Len(t[f]))
  BY DEF InFire
<1>2. InFire(u) = others \cup Slots(f, Len(s))
  <2>1. u[f] = s /\ \A g \in Firers \ {f} : u[g] = t[g]
    OBVIOUS
  <2> HIDE DEF u
  <2> QED BY <2>1 DEF InFire
<1>3. \A n \in Nat : others \cap Slots(f, n) = {}
  BY DEF Slots
<1> HIDE DEF others, u
<1>4. Len(t[f]) \in Nat /\ Len(s) \in Nat
  OBVIOUS
<1>5. IsFiniteSet(others)
  <2>1. others \in SUBSET InFire(t)
    BY <1>1
  <2> QED BY <2>1, FS_Subset
<1>6. \A n \in Nat : /\ IsFiniteSet(others \cup Slots(f, n))
                     /\ Cardinality(others \cup Slots(f, n)) = Cardinality(others) + n
  <2> TAKE n \in Nat
  <2>1. IsFiniteSet(Slots(f, n)) /\ Cardinality(Slots(f, n)) = n
    BY SlotsCounted
  <2>2. Cardinality(others \cap Slots(f, n)) = 0
    BY <1>3, FS_EmptySet
  <2>3. Cardinality(others) \in Nat
    BY <1>5, FS_CardinalityType
  <2>4. /\ IsFiniteSet(others \cup Slots(f, n))
        /\ Cardinality(others \cup Slots(f, n)) =
             Cardinality(others) + Cardinality(Slots(f, n)) - Cardinality(others \cap Slots(f, n))
    BY <1>5, <2>1, FS_Union
  <2> QED BY <2>1, <2>2, <2>3, <2>4
<1>7. Cardinality(others) \in Nat
  BY <1>5, FS_CardinalityType
<1>8. /\ IsFiniteSet(InFire(u))
      /\ Cardinality(InFire(u)) = Cardinality(others) + Len(s)
      /\ Cardinality(InFire(t)) = Cardinality(others) + Len(t[f])
  BY <1>1, <1>2, <1>4, <1>6
<1>9. /\ Cardinality(InFire(u)) = Cardinality(InFire(t)) - Len(t[f]) + Len(s)
      /\ Cardinality(InFire(t)) \in Nat
  BY <1>4, <1>7, <1>8
<1> QED BY <1>8, <1>9 DEF u

(* Lengths of what is cut and of what is put together.                     *)
LEMMA Lengths ==
  ASSUME NEW s \in Seq(Data), NEW t \in Seq(Data)
  PROVE  /\ Len(s \o t) = Len(s) + Len(t)
         /\ Len(Overflow(s)) + Len(Fitting(s)) = Len(s)
         /\ Len(Batch(s)) + Len(AfterBatch(s)) = Len(s)
<1>1. Excess(s) \in 0 .. Len(s)
  BY PeriodBufferAssumption DEF Excess
<1>2. Len(Overflow(s)) = Excess(s) /\ Len(Fitting(s)) = Len(s) - Excess(s)
  BY <1>1, DataOfCut DEF Overflow, Fitting
<1>3. Len(Batch(s)) + Len(AfterBatch(s)) = Len(s)
  <2>1. PICK k \in 0 .. Len(s) : /\ Batch(s) = SubSeq(s, 1, k)
                                 /\ AfterBatch(s) = SubSeq(s, k + 1, Len(s))
    BY BatchCut
  <2>2. Len(Batch(s)) = k /\ Len(AfterBatch(s)) = Len(s) - k
    BY <2>1, DataOfCut
  <2> QED BY <2>2
<1> QED BY <1>1, <1>2, <1>3, ConcatProperties

LEMMA InitCounted == Init => Counted
<1> SUFFICES ASSUME Init PROVE Counted
  OBVIOUS
<1>1. InFire(taken) = {}
  BY DEF Init, InFire, Slots
<1>2. IsFiniteSet(InFire(taken)) /\ Cardinality(InFire(taken)) = 0
  BY <1>1, FS_EmptySet
<1> QED BY <1>2 DEF Init, Counted, NothingTwice, InFire, Slots

LEMMA CountedIs ==
  ASSUME IsFiniteSet(InFire(taken))
  PROVE  Counted <=>
         Len(buf) + Len(sent) + Len(dropped) + Cardinality(InFire(taken)) = next - 1
BY DEF Counted, NothingTwice, InFire, Slots

(* Each action moves data from one place to another, none of them twice.   *)
LEMMA NextCounted == TypeOK /\ Counted /\ [Next]_vars => Counted'
<1> SUFFICES ASSUME TypeOK, Counted, [Next]_vars PROVE Counted'
  OBVIOUS
<1> DEFINE count(t) == Cardinality(InFire(t))
<1>0. /\ buf \in Seq(Data) /\ sent \in Seq(Data) /\ dropped \in Seq(Data)
      /\ taken \in [Firers -> Seq(Data)] /\ next \in 1 .. MaxPush + 1
      /\ \A f \in Firers : taken[f] \in Seq(Data)
      /\ Len(buf) + Len(sent) + Len(dropped) + count(taken) = next - 1
      /\ IsFiniteSet(InFire(taken))
      /\ count(taken) \in Nat
      /\ <<>> \in Seq(Data) /\ Len(<<>>) = 0
  BY FS_CardinalityType, CountedIs DEF TypeOK, Counted
<1>a. ASSUME /\ IsFiniteSet(InFire(taken'))
             /\ Len(buf') + Len(sent') + Len(dropped') + count(taken') = next' - 1
      PROVE  Counted'
  BY <1>a DEF Counted, NothingTwice, InFire, Slots
<1>1. CASE Push
  <2> DEFINE longer == Append(buf, next)
  <2>1. longer \in Seq(Data) /\ Len(longer) = Len(buf) + 1
    BY <1>0, <1>1, PeriodBufferAssumption DEF Push, Data
  <2>2. /\ buf' = Fitting(longer) /\ dropped' = dropped \o Overflow(longer)
        /\ taken' = taken /\ sent' = sent /\ next' = next + 1
    BY <1>1 DEF Push
  <2> HIDE DEF longer, count
  <2>3. Overflow(longer) \in Seq(Data) /\ Fitting(longer) \in Seq(Data)
    BY <2>1, OverflowFitting
  <2>4. Len(dropped') = Len(dropped) + Len(Overflow(longer))
    BY <1>0, <2>2, <2>3, Lengths
  <2>5. Len(Overflow(longer)) + Len(buf') = Len(buf) + 1
    BY <2>1, <2>2, Lengths
  <2>6. Len(buf') + Len(sent') + Len(dropped') + count(taken') = next' - 1
    <3>1. /\ Len(buf) \in Nat /\ Len(sent) \in Nat /\ Len(dropped) \in Nat /\ Len(buf') \in Nat
          /\ Len(Overflow(longer)) \in Nat /\ next \in Nat /\ count(taken) \in Nat
      BY <1>0, <2>2, <2>3
    <3>2. Len(buf) + Len(sent) + Len(dropped) + count(taken) = next - 1
      BY <1>0
    <3>3. sent' = sent /\ next' = next + 1 /\ count(taken') = count(taken)
      BY <2>2
    <3> QED BY ONLY <2>4, <2>5, <3>1, <3>2, <3>3, SMTT(60)
  <2> QED BY <1>0, <1>a, <2>2, <2>6
<1>2. ASSUME NEW f \in Firers, FireAll(f)
      PROVE  Counted'
  <2>1. /\ taken[f] = <<>> /\ taken' = [taken EXCEPT ![f] = buf] /\ buf' = <<>>
        /\ UNCHANGED <<next, sent, dropped>>
    BY <1>2 DEF FireAll
  <2>2. IsFiniteSet(InFire(taken')) /\ count(taken') = count(taken) - 0 + Len(buf)
    BY <1>0, <2>1, InFireCounted
  <2> HIDE DEF count
  <2> QED BY <1>0, <1>a, <2>1, <2>2
<1>3. ASSUME NEW f \in Firers, Accept(f)
      PROVE  Counted'
  <2> DEFINE rest == AfterBatch(taken[f])
             batch == Batch(taken[f])
  <2>1. /\ sent' = sent \o batch /\ taken' = [taken EXCEPT ![f] = rest]
        /\ UNCHANGED <<buf, next, dropped>>
    BY <1>3 DEF Accept
  <2>2. batch \in Seq(Data) /\ rest \in Seq(Data) /\ Len(batch) + Len(rest) = Len(taken[f])
    BY <1>0, BatchRest, Lengths
  <2> HIDE DEF rest, batch
  <2>3. IsFiniteSet(InFire(taken')) /\ count(taken') = count(taken) - Len(taken[f]) + Len(rest)
    BY <1>0, <2>1, <2>2, InFireCounted
  <2> HIDE DEF count
  <2>4. Len(sent') = Len(sent) + Len(batch)
    BY <1>0, <2>1, <2>2, Lengths
  <2> QED BY <1>0, <1>a, <2>1, <2>2, <2>3, <2>4, SMTT(30)
<1>4. ASSUME NEW f \in Firers, Refuse(f)
      PROVE  Counted'
  <2> DEFINE merged == taken[f] \o buf
  <2>1. /\ taken' = [taken EXCEPT ![f] = <<>>]
        /\ UNCHANGED <<next, sent>>
    BY <1>4 DEF Refuse
  <2>2. merged \in Seq(Data) /\ Len(merged) = Len(taken[f]) + Len(buf)
    BY <1>0, DataOfConcat, Lengths
  <2>3. Len(buf') + Len(dropped') = Len(taken[f]) + Len(buf) + Len(dropped)
        /\ Len(buf') \in Nat /\ Len(dropped') \in Nat
    <3>1. CASE buf = <<>> /\ buf' = taken[f] /\ dropped' = dropped
      BY <1>0, <3>1
    <3>2. CASE buf' = Fitting(merged) /\ dropped' = dropped \o Overflow(merged)
      <4> HIDE DEF merged
      <4>1. Overflow(merged) \in Seq(Data) /\ Fitting(merged) \in Seq(Data)
        BY <2>2, OverflowFitting
      <4>2. /\ Len(dropped') = Len(dropped) + Len(Overflow(merged))
            /\ Len(Overflow(merged)) + Len(buf') = Len(merged)
        BY <1>0, <2>2, <3>2, <4>1, Lengths
      <4>3. /\ Len(buf) \in Nat /\ Len(dropped) \in Nat /\ Len(taken[f]) \in Nat
            /\ Len(buf') \in Nat /\ Len(Overflow(merged)) \in Nat
        BY <1>0, <3>2, <4>1
      <4> QED BY ONLY <2>2, <4>2, <4>3
    <3> QED BY <1>4, <3>1, <3>2 DEF Refuse
  <2>4. IsFiniteSet(InFire(taken')) /\ count(taken') = count(taken) - Len(taken[f]) + 0
    BY <1>0, <2>1, InFireCounted
  <2> HIDE DEF count
  <2>5. Len(taken[f]) \in Nat /\ Len(sent) \in Nat /\ Len(buf) \in Nat /\ Len(dropped) \in Nat
    BY <1>0
  <2>6. Len(buf') + Len(sent') + Len(dropped') + count(taken') = next' - 1
    <3> DEFINE b == Len(buf)
               s == Len(sent)
               d == Len(dropped)
               c == count(taken)
               k == Len(taken[f])
               b2 == Len(buf')
               s2 == Len(sent')
               d2 == Len(dropped')
               c2 == count(taken')
    <3>1. b \in Nat /\ s \in Nat /\ d \in Nat /\ k \in Nat /\ b2 \in Nat /\ d2 \in Nat
      BY <2>3, <2>5
    <3>2. c \in Nat /\ next \in Nat /\ b + s + d + c = next - 1
      BY <1>0
    <3>3. s2 = s /\ next' = next
      BY <2>1
    <3>4. b2 + d2 = k + b + d
      BY <2>3
    <3>5. c2 = c - k + 0
      BY <2>4
    <3> HIDE DEF b, s, d, c, k, b2, s2, d2, c2
    <3>6. b2 + s2 + d2 + c2 = next' - 1
      BY ONLY <3>1, <3>2, <3>3, <3>4, <3>5
    <3> QED BY <3>6 DEF b2, s2, d2, c2
  <2> QED BY <1>a, <2>4, <2>6
<1>5. CASE UNCHANGED vars
  BY <1>0, <1>5, <1>a DEF vars
<1> QED BY <1>1, <1>2, <1>3, <1>4, <1>5 DEF Next

-----------------------------------------------------------------------------
(* As long as fire_all calls do not overlap, one of them holds the oldest  *)
(* data in memory, the buffer those pushed since, and what was sent is     *)
(* older than both.                                                        *)
Before(s, t) == \A x \in ToData(s), y \in ToData(t) : x < y

OneFirer == \A f, g \in Firers : taken[f] # <<>> /\ taken[g] # <<>> => f = g

InOrder ==
  /\ Sorted(sent) /\ Sorted(buf) /\ Before(sent, buf)
  /\ \A f \in Firers : Sorted(taken[f]) /\ Before(sent, taken[f]) /\ Before(taken[f], buf)

OInv == TypeOK /\ NothingLost /\ (~overlap => OneFirer /\ InOrder)

LEMMA SortedConcat ==
  ASSUME NEW s \in Seq(Data), NEW t \in Seq(Data), Sorted(s), Sorted(t), Before(s, t)
  PROVE  Sorted(s \o t)
<1>1. /\ Len(s \o t) = Len(s) + Len(t)
      /\ \A i \in 1 .. Len(s) : (s \o t)[i] = s[i]
      /\ \A i \in 1 .. Len(t) : (s \o t)[Len(s) + i] = t[i]
  BY ConcatProperties
<1> SUFFICES ASSUME NEW i \in 1 .. Len(s \o t), NEW j \in 1 .. Len(s \o t), i < j
             PROVE  (s \o t)[i] < (s \o t)[j]
  BY DEF Sorted
<1>2. CASE j <= Len(s)
  BY <1>1, <1>2 DEF Sorted
<1>3. CASE i > Len(s)
  <2>1. /\ i - Len(s) \in 1 .. Len(t) /\ j - Len(s) \in 1 .. Len(t)
        /\ i = Len(s) + (i - Len(s)) /\ j = Len(s) + (j - Len(s))
        /\ i - Len(s) < j - Len(s)
    BY <1>1, <1>3
  <2>2. (s \o t)[i] = t[i - Len(s)] /\ (s \o t)[j] = t[j - Len(s)]
    BY <1>1, <2>1
  <2> QED BY <2>1, <2>2 DEF Sorted
<1>4. CASE i <= Len(s) /\ j > Len(s)
  <2>1. i \in 1 .. Len(s) /\ j - Len(s) \in 1 .. Len(t) /\ j = Len(s) + (j - Len(s))
    BY <1>1, <1>4
  <2>2. (s \o t)[i] = s[i] /\ (s \o t)[j] = t[j - Len(s)]
    BY <1>1, <2>1
  <2> QED BY <2>1, <2>2 DEF Before, ToData
<1> QED BY <1>2, <1>3, <1>4

LEMMA SortedCut ==
  ASSUME NEW s \in Seq(Data), NEW k \in 0 .. Len(s), Sorted(s)
  PROVE  /\ Sorted(SubSeq(s, 1, k)) /\ Sorted(SubSeq(s, k + 1, Len(s)))
         /\ Before(SubSeq(s, 1, k), SubSeq(s, k + 1, Len(s)))
<1> DEFINE a == SubSeq(s, 1, k)
           b == SubSeq(s, k + 1, Len(s))
<1>1. /\ Len(a) = k /\ \A i \in 1 .. k : a[i] = s[i]
      /\ Len(b) = Len(s) - k /\ \A i \in 1 .. Len(s) - k : b[i] = s[k + i] /\ k + i \in 1 .. Len(s)
  OBVIOUS
<1> HIDE DEF a, b
<1>2. Sorted(a)
  BY <1>1 DEF Sorted
<1>3. Sorted(b)
  <2> SUFFICES ASSUME NEW i \in 1 .. Len(b), NEW j \in 1 .. Len(b), i < j
               PROVE  b[i] < b[j]
    BY DEF Sorted
  <2>1. k + i \in 1 .. Len(s) /\ k + j \in 1 .. Len(s) /\ k + i < k + j
    BY <1>1
  <2> QED BY <1>1, <2>1 DEF Sorted
<1>4. Before(a, b)
  <2> SUFFICES ASSUME NEW i \in 1 .. Len(a), NEW j \in 1 .. Len(b)
               PROVE  a[i] < b[j]
    BY DEF Before, ToData
  <2>1. i \in 1 .. Len(s) /\ k + j \in 1 .. Len(s) /\ i < k + j
    BY <1>1
  <2> QED BY <1>1, <2>1 DEF Sorted
<1> QED BY <1>2, <1>3, <1>4 DEF a, b

LEMMA FittingSorted ==
  ASSUME NEW s \in Seq(Data), Sorted(s)
  PROVE  Sorted(Fitting(s)) /\ ToData(Fitting(s)) \subseteq ToData(s)
<1>1. Excess(s) \in 0 .. Len(s)
  BY PeriodBufferAssumption DEF Excess
<1> QED BY <1>1, SortedCut, OverflowFitting DEF Fitting

LEMMA BatchSorted ==
  ASSUME NEW s \in Seq(Data), Sorted(s)
  PROVE  /\ Sorted(Batch(s)) /\ Sorted(AfterBatch(s)) /\ Before(Batch(s), AfterBatch(s))
         /\ ToData(Batch(s)) \subseteq ToData(s) /\ ToData(AfterBatch(s)) \subseteq ToData(s)
<1>1. PICK k \in 0 .. Len(s) : /\ Batch(s) = SubSeq(s, 1, k)
                               /\ AfterBatch(s) = SubSeq(s, k + 1, Len(s))
  BY BatchCut
<1> QED BY <1>1, SortedCut, BatchRest

(* What is in memory is among the data pushed.                             *)
LEMMA PushedBefore ==
  ASSUME TypeOK, NothingLost
  PROVE  /\ \A x \in ToData(buf) \cup ToData(sent) : x < next
         /\ \A f \in Firers : \A x \in ToData(taken[f]) : x < next
<1>1. \A x \in 1 .. next - 1 : x < next
  BY DEF TypeOK
<1>2. /\ ToData(buf) \cup ToData(sent) \subseteq 1 .. next - 1
      /\ \A f \in Firers : ToData(taken[f]) \subseteq 1 .. next - 1
  BY DEF NothingLost
<1> QED BY <1>1, <1>2

LEMMA InitOInv == Init => OInv
<1> SUFFICES ASSUME Init PROVE OInv
  OBVIOUS
<1>1. OneFirer /\ InOrder
  BY DEF Init, OneFirer, InOrder, Sorted, Before, ToData
<1> QED BY <1>1, InitIInv DEF OInv, IInv

LEMMA OrderStep ==
  ASSUME TypeOK, NothingLost, OneFirer, InOrder, [Next]_vars, ~overlap'
  PROVE  OneFirer' /\ InOrder'
<1>0. /\ buf \in Seq(Data) /\ sent \in Seq(Data) /\ taken \in [Firers -> Seq(Data)]
      /\ \A f \in Firers : taken[f] \in Seq(Data)
      /\ Sorted(sent) /\ Sorted(buf) /\ Before(sent, buf)
      /\ \A f \in Firers : Sorted(taken[f]) /\ Before(sent, taken[f]) /\ Before(taken[f], buf)
      /\ \A f, g \in Firers : taken[f] # <<>> /\ taken[g] # <<>> => f = g
  BY DEF TypeOK, OneFirer, InOrder
<1>n. ToData(<<>>) = {} /\ Sorted(<<>>) /\ <<>> \in Seq(Data)
  BY DEF ToData, Sorted
<1>1. CASE Push
  <2> DEFINE longer == Append(buf, next)
  <2>0. next \in Data
    BY <1>1, PeriodBufferAssumption DEF Push, Data, TypeOK
  <2>1. longer = buf \o <<next>> /\ <<next>> \in Seq(Data)
    BY <1>0, <2>0, AppendIsConcat
  <2>2. ToData(<<next>>) = {next} /\ Sorted(<<next>>)
    BY DEF ToData, Sorted
  <2>3. buf' = Fitting(longer) /\ taken' = taken /\ sent' = sent
    BY <1>1 DEF Push
  <2> HIDE DEF longer
  <2>4. /\ Before(buf, <<next>>) /\ Before(sent, <<next>>)
        /\ \A f \in Firers : Before(taken[f], <<next>>)
    BY <2>2, PushedBefore DEF Before
  <2>5. /\ longer \in Seq(Data) /\ Sorted(longer)
        /\ ToData(longer) = ToData(buf) \cup ToData(<<next>>)
    BY <1>0, <2>1, <2>2, <2>4, SortedConcat, DataOfConcat
  <2>6. Sorted(buf') /\ ToData(buf') \subseteq ToData(longer)
    BY <2>3, <2>5, FittingSorted
  <2>7. Before(sent, buf') /\ \A f \in Firers : Before(taken[f], buf')
    BY <1>0, <2>4, <2>5, <2>6 DEF Before
  <2> QED BY <1>0, <2>3, <2>6, <2>7 DEF OneFirer, InOrder
<1>2. ASSUME NEW f \in Firers, FireAll(f)
      PROVE  OneFirer' /\ InOrder'
  <2>1. /\ taken' = [taken EXCEPT ![f] = buf] /\ buf' = <<>> /\ sent' = sent
        /\ \A g \in Firers : taken[g] = <<>>
    BY <1>2 DEF FireAll
  <2>2. taken'[f] = buf /\ \A g \in Firers \ {f} : taken'[g] = <<>>
    BY <1>0, <2>1
  <2>3. OneFirer'
    BY <2>2 DEF OneFirer
  <2>4. InOrder'
    BY <1>0, <1>n, <2>1, <2>2 DEF InOrder, Before
  <2> QED BY <2>3, <2>4
<1>3. ASSUME NEW f \in Firers, Accept(f)
      PROVE  OneFirer' /\ InOrder'
  <2> DEFINE rest == AfterBatch(taken[f])
             batch == Batch(taken[f])
  <2>1. /\ taken[f] # <<>> /\ sent' = sent \o batch /\ taken' = [taken EXCEPT ![f] = rest]
        /\ buf' = buf
    BY <1>3 DEF Accept
  <2>2. /\ batch \in Seq(Data) /\ rest \in Seq(Data)
        /\ Sorted(batch) /\ Sorted(rest) /\ Before(batch, rest)
        /\ ToData(batch) \subseteq ToData(taken[f]) /\ ToData(rest) \subseteq ToData(taken[f])
    BY <1>0, BatchRest, BatchSorted
  <2> HIDE DEF rest, batch
  <2>3. taken'[f] = rest /\ \A g \in Firers \ {f} : taken'[g] = <<>>
    BY <1>0, <2>1
  <2>4. /\ Before(sent, batch) /\ Before(sent, rest)
        /\ Before(batch, buf) /\ Before(rest, buf)
    BY <1>0, <2>2 DEF Before
  <2>5. Sorted(sent') /\ ToData(sent') = ToData(sent) \cup ToData(batch)
    BY <1>0, <2>1, <2>2, <2>4, SortedConcat, DataOfConcat
  <2>6. Before(sent', rest) /\ Before(sent', buf)
    BY <1>0, <2>2, <2>4, <2>5 DEF Before
  <2>7. OneFirer'
    BY <2>3 DEF OneFirer
  <2>8. InOrder'
    BY <1>0, <1>n, <2>1, <2>2, <2>3, <2>4, <2>5, <2>6 DEF InOrder, Before
  <2> QED BY <2>7, <2>8
<1>4. ASSUME NEW f \in Firers, Refuse(f)
      PROVE  OneFirer' /\ InOrder'
  <2> DEFINE merged == taken[f] \o buf
  <2>1. taken[f] # <<>> /\ taken' = [taken EXCEPT ![f] = <<>>] /\ sent' = sent
    BY <1>4 DEF Refuse
  <2>2. \A g \in Firers : taken'[g] = <<>>
    BY <1>0, <2>1
  <2>3. /\ merged \in Seq(Data) /\ Sorted(merged)
        /\ ToData(merged) = ToData(taken[f]) \cup ToData(buf)
    BY <1>0, SortedConcat, DataOfConcat
  <2>4. Sorted(buf') /\ ToData(buf') \subseteq ToData(merged)
    <3>1. CASE buf' = taken[f]
      BY <1>0, <2>3, <3>1
    <3>2. CASE buf' = Fitting(merged)
      <4> HIDE DEF merged
      <4> QED BY <2>3, <3>2, FittingSorted
    <3> QED BY <1>4, <3>1, <3>2 DEF Refuse
  <2> HIDE DEF merged
  <2>5. Before(sent, buf')
    BY <1>0, <2>3, <2>4 DEF Before
  <2>6. OneFirer'
    BY <2>2 DEF OneFirer
  <2>7. InOrder'
    BY <1>0, <1>n, <2>1, <2>2, <2>4, <2>5 DEF InOrder, Before
  <2> QED BY <2>6, <2>7
<1>5. CASE UNCHANGED vars
  BY <1>0, <1>5 DEF vars, OneFirer, InOrder
<1> QED BY <1>1, <1>2, <1>3, <1>4, <1>5 DEF Next

LEMMA NextOInv == IInv /\ OInv /\ [Next]_vars => OInv'
<1> SUFFICES ASSUME IInv, OInv, [Next]_vars PROVE OInv'
  OBVIOUS
<1>1. IInv'
  BY NextIInv
<1>2. ASSUME ~overlap' PROVE OneFirer' /\ InOrder'
  <2>1. ~overlap
    BY <1>2 DEF Next, Push, FireAll, Accept, Refuse, vars
  <2> QED BY <1>2, <2>1, OrderStep DEF OInv
<1> QED BY <1>1, <1>2 DEF IInv, OInv

(* Whatever interleaves, a datum is sent, dropped to the disk cache or     *)
(* still in memory in one copy only; and unless a flush ran beside the     *)
(* period coroutine, data are uploaded in the order they were pushed, also *)
(* after refusals that put them back in front of newer ones.               *)
THEOREM PeriodSentInOrder == Spec => []SentInOrder
<1> DEFINE All == IInv /\ Counted /\ OInv
<1>1. Init => All
  BY InitIInv, InitCounted, InitOInv
<1>2. All /\ [Next]_vars => All'
  BY NextIInv, NextCounted, NextOInv DEF IInv
<1>3. All => SentInOrder
  BY DEF Counted, OInv, InOrder, SentInOrder
<1> HIDE DEF All
<1> QED BY <1>1, <1>2, <1>3, PTL DEF Spec
=============================================================================
