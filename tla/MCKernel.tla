------------------------------ MODULE MCKernel ------------------------------
(* Instances of Kernel for TLC.                                            *)
EXTENDS Kernel

CONSTANTS m, idle, a, b, c, tl, l1, s1

\* Threads other than main and idle are interchangeable.
Symm == Permutations({a, b, c})

============================================================================
