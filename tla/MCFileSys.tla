------------------------------ MODULE MCFileSys -----------------------------
(* Instances of FileSys for TLC.                                           *)
EXTENDS FileSys

CONSTANTS p1, p2, prog, text, word

\* Processes that do nothing but create files.
CreatorsNext == \E p \in Proc : Steps(p) \/ \E n \in Name, size \in Size : Create(p, n, size)
CreatorsSpec == Init /\ [][CreatorsNext]_vars
============================================================================
