----------------------------- MODULE MCCfgStore -----------------------------
(* CfgStore for TLC.                                                       *)
EXTENDS CfgStore

CONSTANTS v0, v1, v2, empty, part

ThreeValues == {v0, v1, v2}
TornTexts == {empty, part}
=============================================================================
