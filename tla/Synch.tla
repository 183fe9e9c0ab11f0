------------------------------- MODULE Synch -------------------------------
(***************************************************************************)
(* Semaphores and locks of project 3, os_prj3_20191599/src/threads/        *)
(* synch.c.  A lock is a semaphore of initial value 1 and a holder, so     *)
(* Lock is the subset of Sema whose elements are the semaphore member of a *)
(* struct lock.                                                            *)
(***************************************************************************)
EXTENDS Scheduler

CONSTANTS
    Sema,       \* every struct semaphore but those of cond_wait, locks' included
    Lock,       \* the ones inside a struct lock
    tid_lock,   \* thread.c's lock around next_tid
    MaxValue    \* bound: a client raises a semaphore no further than this

ASSUME SynchAssumption ==
    /\ Lock \subseteq Sema
    /\ tid_lock \in Lock
    /\ NULL \notin Sema
    /\ Sema \cap Thread = {}
    /\ MaxValue \in Nat

\* The semaphore in cond_wait's struct semaphore_elem lives on the waiting thread's
\* stack: it is named by that thread.
Semaphore == Sema \cup Thread

VARIABLES
    value,      \* struct semaphore: value
    waiters,    \* struct semaphore: waiters, in order of arrival
    holder,     \* struct lock: holder
    holding,    \* client's view: locks it acquired and has not begun to release
    obj         \* the semaphore each thread's current synch.c call is about

synchVars == <<value, waiters, holder, holding, obj>>

----------------------------------------------------------------------------
(* sema_down, sema_try_down, lock_acquire, lock_try_acquire.               *)

\* t enters the critical part of sema_down(s): from its own code, from a kernel
\* function that calls it on obj[t], or switched back to inside the loop, which
\* looks again.  lock_acquire asserts that the caller does not hold the lock.
InSemaDown(t, s) ==
    \/ At(t, "run") /\ t # Idle /\ s \in Sema \ {tid_lock} /\ s \notin holding[t]
    \/ At(t, "call_down") /\ s = obj[t]
    \/ At(t, "sema_down") /\ s = obj[t]

\* The loop's body: the value is 0, so t queues up and sleeps.
SemaDownBlocks(t, s) ==
    /\ InSemaDown(t, s)
    /\ value[s] = 0
    /\ waiters' = [waiters EXCEPT ![s] = Append(@, t)]
    /\ obj' = [obj EXCEPT ![t] = s]
    /\ Goto(t, "sema_down")
    /\ BlockCPU(t)
    /\ UNCHANGED <<panicked, ret, value, holder, holding>>

SemaDownTakes_If(t, s) ==
    /\ InSemaDown(t, s)
    /\ value[s] > 0 \/ pc[t] = "sema_down"
    /\ value' = [value EXCEPT ![s] = @ - 1]
    /\ obj' = [obj EXCEPT ![t] = IF s \in Lock THEN s ELSE NULL]
    /\ Goto(t, IF s \in Lock THEN "set_holder" ELSE ret[t])
    /\ UNCHANGED <<schedVars, panicked, ret, waiters, holder, holding>>

SemaDownTakes_HandOff(t, s) ==
    /\ InSemaDown(t, s)
    /\ value[s] > 0
    /\ value' = IF pc[t] = "sema_down" THEN value ELSE [value EXCEPT ![s] = @ - 1]
    /\ obj' = [obj EXCEPT ![t] = IF s \in Lock THEN s ELSE NULL]
    /\ Goto(t, IF s \in Lock THEN "set_holder" ELSE ret[t])
    /\ UNCHANGED <<schedVars, panicked, ret, waiters, holder, holding>>

\* Past the loop: t takes one unit.  A successful sema_try_down has the same
\* effect, and one that fails has none.  In lock_acquire the holder is set
\* next, with interrupts on again.
SemaDownTakes(t, s) ==
    /\ InSemaDown(t, s)
    /\ value[s] > 0
    /\ value' = [value EXCEPT ![s] = @ - 1]
    /\ obj' = [obj EXCEPT ![t] = IF s \in Lock THEN s ELSE NULL]
    /\ Goto(t, IF s \in Lock THEN "set_holder" ELSE ret[t])
    /\ UNCHANGED <<schedVars, panicked, ret, waiters, holder, holding>>

\* The rest of lock_acquire: lock->holder = thread_current().
SetHolder(t) ==
    /\ At(t, "set_holder")
    /\ holder' = [holder EXCEPT ![obj[t]] = t]
    /\ holding' = [holding EXCEPT ![t] = @ \cup {obj[t]}]
    /\ obj' = [obj EXCEPT ![t] = NULL]
    /\ Goto(t, ret[t])
    /\ UNCHANGED <<schedVars, panicked, ret, value, waiters>>

----------------------------------------------------------------------------
(* sema_up, lock_release.                                                  *)

\* lock_release(l) up to its sema_up: the holder is cleared first.
LockRelease(t, l) ==
    /\ \/ At(t, "run") /\ l \in holding[t]
       \/ At(t, "call_release") /\ l = obj[t]
    /\ holder' = [holder EXCEPT ![l] = NULL]
    /\ holding' = [holding EXCEPT ![t] = @ \ {l}]
    /\ obj' = [obj EXCEPT ![t] = l]
    /\ Goto(t, "sema_up")
    /\ UNCHANGED <<schedVars, panicked, ret, value, waiters>>

\* The priorities that sema_up's scan reads.  The one after the last waiter's is
\* the list's tail, where list_entry(...)->priority is, by the layout of the two
\* structs, the semaphore's own value.
Scanned(s) ==
    [i \in 1..(Len(waiters[s]) + 1) |->
        IF i <= Len(waiters[s]) THEN priority[waiters[s][i]] ELSE value[s]]

IterMax_Last(s) ==
    LET iterMax[i \in 1..(Len(waiters[s]) + 1)] ==
            IF i = 1 THEN 1
            ELSE IF Scanned(s)[iterMax[i - 1]] <= Scanned(s)[i] THEN i ELSE iterMax[i - 1]
    IN  iterMax[Len(waiters[s]) + 1]

\* Where iterMax is when the scan ends.  It begins at the first waiter; each turn
\* steps on and then compares, the last one with the tail.
IterMax(s) ==
    LET iterMax[i \in 1..(Len(waiters[s]) + 1)] ==
            IF i = 1 THEN 1
            ELSE IF Scanned(s)[iterMax[i - 1]] < Scanned(s)[i] THEN i ELSE iterMax[i - 1]
    IN  iterMax[Len(waiters[s]) + 1]

ScanPassesTail(s) == IterMax(s) = Len(waiters[s]) + 1

InSemaUp(t, s) ==
    \/ At(t, "run") /\ t # Idle /\ s \in Sema \ Lock /\ value[s] < MaxValue
    \/ At(t, "sema_up") /\ s = obj[t]

SemaUpNoWaiter_NoWake(t, s) ==
    /\ InSemaUp(t, s)
    /\ value' = [value EXCEPT ![s] = @ + 1]
    /\ obj' = [obj EXCEPT ![t] = NULL]
    /\ Goto(t, "yield")
    /\ UNCHANGED <<schedVars, panicked, ret, waiters, holder, holding>>

\* sema_up(s) with interrupts off; thread_yield() follows, with interrupts on.
SemaUpNoWaiter(t, s) ==
    /\ InSemaUp(t, s)
    /\ waiters[s] = <<>>
    /\ value' = [value EXCEPT ![s] = @ + 1]
    /\ obj' = [obj EXCEPT ![t] = NULL]
    /\ Goto(t, "yield")
    /\ UNCHANGED <<schedVars, panicked, ret, waiters, holder, holding>>

SemaUpWakes_NotRemoved(t, s) ==
    /\ InSemaUp(t, s)
    /\ waiters[s] # <<>>
    /\ ~ScanPassesTail(s)
    /\ Unblock(waiters[s][IterMax(s)])
    /\ value' = [value EXCEPT ![s] = @ + 1]
    /\ obj' = [obj EXCEPT ![t] = NULL]
    /\ Goto(t, "yield")
    /\ UNCHANGED <<panicked, ret, waiters, holder, holding>>

SemaUpWakes(t, s) ==
    /\ InSemaUp(t, s)
    /\ waiters[s] # <<>>
    /\ ~ScanPassesTail(s)
    /\ LET k == IterMax(s)
       IN  /\ waiters' = [waiters EXCEPT ![s] = RemoveAt(@, k)]
           /\ Unblock(waiters[s][k])
    /\ value' = [value EXCEPT ![s] = @ + 1]
    /\ obj' = [obj EXCEPT ![t] = NULL]
    /\ Goto(t, "yield")
    /\ UNCHANGED <<panicked, ret, holder, holding>>

\* list_remove(tail): its assertion is_interior(elem) fails.
SemaUpPanics(t, s) ==
    /\ InSemaUp(t, s)
    /\ waiters[s] # <<>>
    /\ ScanPassesTail(s)
    /\ panicked' = TRUE
    /\ UNCHANGED <<schedVars, pc, ret, synchVars>>

----------------------------------------------------------------------------
SynchInit ==
    /\ value = [s \in Semaphore |-> IF s \in Lock THEN 1 ELSE 0]
    /\ waiters = [s \in Semaphore |-> <<>>]
    /\ holder = [l \in Lock |-> NULL]
    /\ holding = [t \in Thread |-> {}]
    /\ obj = [t \in Thread |-> NULL]

SynchTypeOK ==
    /\ value \in [Semaphore -> Nat]
    /\ waiters \in [Semaphore -> Seq(Thread)]
    /\ holder \in [Lock -> Thread \cup {NULL}]
    /\ holding \in [Thread -> SUBSET Lock]
    /\ obj \in [Thread -> Semaphore \cup {NULL}]
============================================================================
