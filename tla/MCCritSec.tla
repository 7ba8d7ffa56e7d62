----------------------------- MODULE MCCritSec -----------------------------
(* CritSec for TLC.                                                        *)
EXTENDS CritSec

CONSTANTS c1, c2, c3, c4

ThreeThreads == {c1, c2, c3}
FourThreads == {c1, c2, c3, c4}
=============================================================================
