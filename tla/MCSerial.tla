------------------------------ MODULE MCSerial ------------------------------
(* Instance of Serial for TLC.                                             *)
EXTENDS Serial

CONSTANTS r1, w1, w2
============================================================================
