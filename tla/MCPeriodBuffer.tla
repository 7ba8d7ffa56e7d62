--------------------------- MODULE MCPeriodBuffer ---------------------------
(* PeriodBuffer for TLC: the period coroutine and two flush requests.      *)
EXTENDS PeriodBuffer, TLC

CONSTANTS period, flush, flush2

ThreeFirers == {period, flush, flush2}
=============================================================================
