----------------------------- MODULE Condition -----------------------------
(***************************************************************************)
(* Condition variables of project 3, os_prj3_20191599/src/threads/synch.c. *)
(* Each waiter brings a semaphore of its own (see Semaphore in Synch) and  *)
(* sleeps on it; signalling takes the first waiter off the list and raises *)
(* its semaphore.                                                          *)
(***************************************************************************)
EXTENDS Synch

CONSTANT Cond   \* the condition variables, each named by the lock it goes with

ASSUME ConditionAssumption == Cond \subseteq Lock \ {tid_lock}

VARIABLES
    condWaiters,  \* struct condition: waiters, whose elements are on these threads' stacks
    monitor       \* the lock argument of each thread's call of a cond_ function

condVars == <<condWaiters, monitor>>

----------------------------------------------------------------------------
(* cond_wait: the four calls of its body, each left through ret.           *)

\* sema_init and list_push_back; lock_release comes next.
CondWait(t, l) ==
    /\ At(t, "run") /\ l \in holding[t]
    /\ value' = [value EXCEPT ![t] = 0]
    /\ waiters' = [waiters EXCEPT ![t] = <<>>]
    /\ condWaiters' = [condWaiters EXCEPT ![l] = Append(@, t)]
    /\ monitor' = [monitor EXCEPT ![t] = l]
    /\ obj' = [obj EXCEPT ![t] = l]
    /\ ret' = [ret EXCEPT ![t] = "cond_down"]
    /\ Goto(t, "call_release")
    /\ UNCHANGED <<schedVars, holder, holding>>

CondDown_Init(t) ==
    /\ At(t, "cond_down")
    /\ value' = [value EXCEPT ![t] = 0]
    /\ obj' = [obj EXCEPT ![t] = t]
    /\ ret' = [ret EXCEPT ![t] = "cond_acquire"]
    /\ Goto(t, "call_down")
    /\ UNCHANGED <<schedVars, waiters, holder, holding, condVars>>

\* sema_down(&waiter.semaphore)
CondDown(t) ==
    /\ At(t, "cond_down")
    /\ obj' = [obj EXCEPT ![t] = t]
    /\ ret' = [ret EXCEPT ![t] = "cond_acquire"]
    /\ Goto(t, "call_down")
    /\ UNCHANGED <<schedVars, value, waiters, holder, holding, condVars>>

\* lock_acquire(lock)
CondAcquire(t) ==
    /\ At(t, "cond_acquire")
    /\ obj' = [obj EXCEPT ![t] = monitor[t]]
    /\ monitor' = [monitor EXCEPT ![t] = NULL]
    /\ ret' = [ret EXCEPT ![t] = "run"]
    /\ Goto(t, "call_down")
    /\ UNCHANGED <<schedVars, value, waiters, holder, holding, condWaiters>>

----------------------------------------------------------------------------
(* cond_signal and cond_broadcast, which assert that the lock is held.     *)

\* list_pop_front(&cond->waiters), then sema_up on its semaphore.
PopWaiter(t, l) ==
    /\ condWaiters[l] # <<>>
    /\ condWaiters' = [condWaiters EXCEPT ![l] = Tail(@)]
    /\ obj' = [obj EXCEPT ![t] = Head(condWaiters[l])]
    /\ Goto(t, "sema_up")
    /\ UNCHANGED <<schedVars, value, waiters, holder, holding>>

CondSignal(t, l) ==
    /\ At(t, "run") /\ l \in holding[t]
    /\ PopWaiter(t, l)
    /\ UNCHANGED <<ret, monitor>>

\* One turn of cond_broadcast's loop, and its end.
CondBroadcast(t, l) ==
    /\ \/ At(t, "run") /\ l \in holding[t]
       \/ At(t, "cond_broadcast") /\ l = monitor[t]
    /\ PopWaiter(t, l)
    /\ monitor' = [monitor EXCEPT ![t] = l]
    /\ ret' = [ret EXCEPT ![t] = "cond_broadcast"]

BroadcastDone(t) ==
    /\ At(t, "cond_broadcast")
    /\ condWaiters[monitor[t]] = <<>>
    /\ monitor' = [monitor EXCEPT ![t] = NULL]
    /\ ret' = [ret EXCEPT ![t] = "run"]
    /\ Goto(t, "run")
    /\ UNCHANGED <<schedVars, synchVars, condWaiters>>

----------------------------------------------------------------------------
CondInit ==
    /\ condWaiters = [l \in Cond |-> <<>>]
    /\ monitor = [t \in Thread |-> NULL]

CondTypeOK ==
    /\ condWaiters \in [Cond -> Seq(Thread)]
    /\ monitor \in [Thread -> Cond \cup {NULL}]
============================================================================
