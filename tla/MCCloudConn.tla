---------------------------- MODULE MCCloudConn ----------------------------
(* CloudConn for TLC.                                                      *)
EXTENDS CloudConn

CONSTANTS p1, p2, p3

ThreeProcs == {p1, p2, p3}
=============================================================================
