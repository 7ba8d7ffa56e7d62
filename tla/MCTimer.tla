------------------------------ MODULE MCTimer ------------------------------
EXTENDS Timer
CONSTANTS t1, t2
=============================================================================
