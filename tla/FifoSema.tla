------------------------------ MODULE FifoSema ------------------------------
(***************************************************************************)
(* The semaphores of project 4, os_prj4_20191599/src/threads/synch.c, as   *)
(* values: a count and the threads waiting in order of arrival.  Each      *)
(* operation runs with interrupts off and is one step of its caller.       *)
(*                                                                         *)
(* A thread that finds the count at zero appends itself to the waiters and *)
(* leaves the CPU (Enqueued); sema_up takes the first waiter off the list  *)
(* and makes it ready (Raised), whereupon it looks at the count again.  So *)
(* a thread on the list is asleep, and one off it runs at its own pace.    *)
(***************************************************************************)
EXTENDS Integers, Sequences, SequencesExt

\* sema_init
NewSema(value) == [value |-> value, waiters |-> <<>>]

\* sema_down: the loop's condition, its body, and what follows it.
IsZero(sema) == sema.value = 0
Enqueued(sema, t) == [sema EXCEPT !.waiters = Append(@, t)]
Lowered(sema) == [sema EXCEPT !.value = @ - 1]

\* sema_up
Raised_NoWake(sema) == [sema EXCEPT !.value = @ + 1]
Raised(sema) ==
    [value   |-> sema.value + 1,
     waiters |-> IF sema.waiters = <<>> THEN <<>> ELSE Tail(sema.waiters)]

Waits(t, sema) == \E i \in DOMAIN sema.waiters : sema.waiters[i] = t

Semaphores(T) == [value : Nat, waiters : Seq(T)]
============================================================================
