---------------------------- MODULE MCFileBuffer ----------------------------
(* FileBuffer for TLC.                                                     *)
EXTENDS FileBuffer, TLC
=============================================================================
