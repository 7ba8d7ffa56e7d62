----------------------------- MODULE MCSkynetMQ -----------------------------
EXTENDS SkynetMQ, TLC
CONSTANTS a, b, w1, w2, timer
Weights == (w1 :> -1) @@ (w2 :> 0)
=============================================================================
