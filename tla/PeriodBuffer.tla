---------------------------- MODULE PeriodBuffer ----------------------------
(***************************************************************************)
(* The upload buffer of freeioe (lualib/buffer/period.lua): data wait in   *)
(* memory and are fired in batches by the period coroutine, and by flush   *)
(* requests (snax/cloud.lua, data_flush) that run fire_all beside it.  The *)
(* callback may yield, so pushes and other fire_all calls run between a    *)
(* batch and its result.  Data that do not fit go to the drop callback,    *)
(* which the gateway connects to the disk cache.                           *)
(*                                                                         *)
(* Data are the numbers 1 .. MaxPush, in the order they are pushed.        *)
(***************************************************************************)
EXTENDS Integers, Sequences, FiniteSets

CONSTANTS
  Firers,    (* the coroutines that call fire_all                           *)
  MaxSize,   (* max_buf_size                                                *)
  MaxBatch,  (* max_batch_size                                              *)
  MaxPush    (* bound: the number of data pushed                            *)

ASSUME PeriodBufferAssumption ==
  /\ MaxSize \in Nat \ {0}
  /\ MaxBatch \in Nat \ {0}
  /\ MaxPush \in Nat

Data == 1 .. MaxPush

VARIABLES
  buf,     (* _buf                                                          *)
  next,    (* the next datum to be pushed                                   *)
  taken,   (* per firer: the part of its swapped buffer not yet confirmed,  *)
           (* empty when the firer is not inside fire_all                   *)
  sent,    (* history: the data the callback accepted, in order             *)
  dropped, (* history: the data given to the drop callback, in order        *)
  overlap  (* history: has a firer ever entered fire_all beside another?    *)

vars == <<buf, next, taken, sent, dropped, overlap>>

-----------------------------------------------------------------------------
ToData(s) == {s[i] : i \in 1 .. Len(s)}

Excess(s) == IF Len(s) > MaxSize THEN Len(s) - MaxSize ELSE 0

(* Definitions named Mut... are faulty variants, used to show that the     *)
(* properties can fail.  Fault: one dropped datum stays.                   *)
MutKeepDropped(s) == IF Excess(s) = 0 THEN s ELSE SubSeq(s, Excess(s), Len(s))

(* The oldest data of a list that is too long, and the rest.               *)
Overflow(s) == SubSeq(s, 1, Excess(s))
Fitting(s) == SubSeq(s, Excess(s) + 1, Len(s))

(* The part of the list a callback gets, and what is left without it.      *)
Batch(s) == IF Len(s) <= MaxBatch THEN s ELSE SubSeq(s, 1, MaxBatch)
AfterBatch(s) == SubSeq(s, Len(Batch(s)) + 1, Len(s))

Init == /\ buf = <<>>
        /\ next = 1
        /\ taken = [f \in Firers |-> <<>>]
        /\ sent = <<>>
        /\ dropped = <<>>
        /\ overlap = FALSE

(* push                                                                    *)
Push ==
  /\ next <= MaxPush
  /\ next' = next + 1
  /\ LET longer == Append(buf, next)
     IN  /\ buf' = Fitting(longer)
         /\ dropped' = dropped \o Overflow(longer)
  /\ UNCHANGED <<taken, sent, overlap>>

(* Fault: fire_all waits for a full batch.                                 *)
MutWaitBatch(f) ==
  /\ taken[f] = <<>>
  /\ Len(buf) >= MaxBatch
  /\ taken' = [taken EXCEPT ![f] = buf]
  /\ buf' = <<>>
  /\ overlap' = (overlap \/ \E g \in Firers : taken[g] # <<>>)
  /\ UNCHANGED <<next, sent, dropped>>

(* fire_all up to its first callback: "swap buffer in case callback will   *)
(* pause".  An empty buffer is left alone.                                 *)
FireAll(f) ==
  /\ taken[f] = <<>>
  /\ buf # <<>>
  /\ taken' = [taken EXCEPT ![f] = buf]
  /\ buf' = <<>>
  /\ overlap' = (overlap \/ \E g \in Firers : taken[g] # <<>>)
  /\ UNCHANGED <<next, sent, dropped>>

(* The callback accepts the batch; fire_all goes on with the next one or   *)
(* returns.                                                                *)
Accept(f) ==
  /\ taken[f] # <<>>
  /\ sent' = sent \o Batch(taken[f])
  /\ taken' = [taken EXCEPT ![f] = AfterBatch(taken[f])]
  /\ UNCHANGED <<buf, next, dropped, overlap>>

(* Faults: the data put back replace those pushed in the meantime, or go   *)
(* behind them.                                                            *)
MutReplace(f) ==
  /\ taken[f] # <<>>
  /\ buf' = taken[f]
  /\ taken' = [taken EXCEPT ![f] = <<>>]
  /\ UNCHANGED <<next, sent, dropped, overlap>>

MutPushBack(f) ==
  /\ taken[f] # <<>>
  /\ buf' = Fitting(buf \o taken[f])
  /\ dropped' = dropped \o Overflow(buf \o taken[f])
  /\ taken' = [taken EXCEPT ![f] = <<>>]
  /\ UNCHANGED <<next, sent, overlap>>

(* The callback refuses the batch: all data not confirmed go back in front *)
(* of those pushed in the meantime (_push_front), and the oldest that no   *)
(* longer fit are dropped.                                                 *)
Refuse(f) ==
  /\ taken[f] # <<>>
  /\ LET merged == taken[f] \o buf
     IN  IF buf = <<>>
         THEN buf' = taken[f] /\ UNCHANGED dropped
         ELSE /\ buf' = Fitting(merged)
              /\ dropped' = dropped \o Overflow(merged)
  /\ taken' = [taken EXCEPT ![f] = <<>>]
  /\ UNCHANGED <<next, sent, overlap>>

Next == \/ Push
        \/ \E f \in Firers : FireAll(f) \/ Accept(f) \/ Refuse(f)

Spec == Init /\ [][Next]_vars

(* The period coroutine runs fire_all again and again, a callback always   *)
(* comes back, and the uplink works again and again.                       *)
Fairness == \A f \in Firers : /\ WF_vars(FireAll(f))
                              /\ WF_vars(Accept(f) \/ Refuse(f))
                              /\ SF_vars(Accept(f))

FairSpec == Spec /\ Fairness

-----------------------------------------------------------------------------
TypeOK == /\ buf \in Seq(Data)
          /\ next \in 1 .. MaxPush + 1
          /\ taken \in [Firers -> Seq(Data)]
          /\ sent \in Seq(Data)
          /\ dropped \in Seq(Data)
          /\ overlap \in BOOLEAN

(* The number of data in memory stays within the limit, in the buffer and  *)
(* in each list a firer took, although lists are put back in front of a    *)
(* buffer that may be full again.                                          *)
Bounded == /\ Len(buf) <= MaxSize
           /\ \A f \in Firers : Len(taken[f]) <= MaxSize

(* Every datum pushed is accounted for: waiting, taken by a firer, sent or *)
(* given to the drop callback, so that what could not be uploaded reaches  *)
(* the disk cache.                                                         *)
NothingLost ==
  1 .. next - 1 = ToData(buf) \cup ToData(sent) \cup ToData(dropped)
                  \cup UNION {ToData(taken[f]) : f \in Firers}

(* The upload buffer keeps both whatever interleaves: its limit, and every *)
(* datum until it was sent or given to the drop callback.                  *)
Kept == TypeOK /\ Bounded /\ NothingLost

(* ... and exactly once: no interleaving of two firers and a push back     *)
(* sends a datum twice, or sends and caches it.                            *)
NothingTwice ==
  LET inFire == UNION {{<<f, i>> : i \in 1 .. Len(taken[f])} : f \in Firers}
  IN  Len(buf) + Len(sent) + Len(dropped) + Cardinality(inFire) = next - 1

Sorted(s) == \A i, j \in 1 .. Len(s) : i < j => s[i] < s[j]

(* Data are uploaded once and, as long as no flush runs beside the period  *)
(* coroutine, in the order they were pushed: a push back never puts a list *)
(* behind newer data.                                                      *)
SentInOrder == NothingTwice /\ (~overlap => Sorted(sent))

(* Once the uplink works no datum stays in memory.                         *)
Drains == []<>(buf = <<>> /\ \A f \in Firers : taken[f] = <<>>)
=============================================================================
