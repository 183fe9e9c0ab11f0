------------------------------- MODULE Mutex -------------------------------
(***************************************************************************)
(* What the comments of threads/synch.c promise of a lock (183-197, 206-   *)
(* 208, 243): one thread owns it or nobody does; only a free lock is       *)
(* acquired, and only its owner releases it.                               *)
(***************************************************************************)
CONSTANTS Thread, Lock, NULL

VARIABLE owner

Init == owner = [l \in Lock |-> NULL]

Acquire(t, l) ==
    /\ owner[l] = NULL
    /\ owner' = [owner EXCEPT ![l] = t]

Release(t, l) ==
    /\ owner[l] = t
    /\ owner' = [owner EXCEPT ![l] = NULL]

Next == \E t \in Thread, l \in Lock : Acquire(t, l) \/ Release(t, l)

Spec == Init /\ [][Next]_owner
============================================================================
