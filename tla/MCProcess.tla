----------------------------- MODULE MCProcess -----------------------------
(* Instances of Process for TLC.                                           *)
EXTENDS Process

CONSTANTS m, idle, a, b
============================================================================
