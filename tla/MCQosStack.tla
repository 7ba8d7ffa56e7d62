----------------------------- MODULE MCQosStack -----------------------------
(* QosStack for TLC.                                                       *)
EXTENDS QosStack

CONSTANTS m1, m2, m3, m4

FourMsgs == {m1, m2, m3, m4}
=============================================================================
