------------------------------ MODULE MCAppMgr ------------------------------
(* AppMgr for TLC, with a few requests that are interchangeable.           *)
EXTENDS AppMgr

CONSTANTS r1, r2, r3, r4

ThreeOps == {r1, r2, r3}
FourOps == {r1, r2, r3, r4}
=============================================================================
