------------------------------- MODULE Kernel -------------------------------
(***************************************************************************)
(* The kernel of project 3: thread creation, priority changes, exit and    *)
(* the idle thread (threads/thread.c), composed with the semaphores, locks *)
(* and condition variables of Synch and Condition and the alarm clock of   *)
(* Timer.                                                                  *)
(***************************************************************************)
EXTENDS Condition, Timer

CONSTANTS
    NewPriorities,  \* what threads pass to thread_create, thread_set_priority
    MaxTid          \* bound: no thread is created beyond this tid

ASSUME KernelAssumption ==
    /\ NewPriorities \subseteq Priority
    /\ MaxTid \in Nat

VARIABLES
    tid,       \* struct thread: tid
    next_tid,  \* allocate_tid's static counter
    child      \* the thread a thread_create in progress is making

createVars == <<tid, next_tid, child>>
vars == <<schedVars, in_external_intr, panicked, pc, ret, synchVars, condVars, timerVars, createVars>>

----------------------------------------------------------------------------
(* thread_create, with allocate_tid inlined: tid_lock is taken and released *)
(* with Synch's lock_acquire and lock_release.                             *)

CreateInit_NoLock(t, u, p) ==
    /\ At(t, "run") /\ t # Idle
    /\ status[u] = "NONE"
    /\ next_tid <= MaxTid
    /\ InitThread(u, p)
    /\ tid' = [tid EXCEPT ![u] = 0]
    /\ child' = [child EXCEPT ![t] = u]
    /\ pc' = [pc EXCEPT ![t] = "tid_read", ![u] = "run"]
    /\ UNCHANGED <<ret, obj, next_tid>>

\* Up to allocate_tid's lock_acquire.
CreateInit(t, u, p) ==
    /\ At(t, "run") /\ t # Idle
    /\ status[u] = "NONE"
    /\ next_tid <= MaxTid
    /\ InitThread(u, p)
    /\ tid' = [tid EXCEPT ![u] = 0]
    /\ child' = [child EXCEPT ![t] = u]
    /\ obj' = [obj EXCEPT ![t] = tid_lock]
    /\ pc' = [pc EXCEPT ![t] = "call_down", ![u] = "run"]
    /\ ret' = [ret EXCEPT ![t] = "tid_read"]
    /\ UNCHANGED next_tid

\* tid = next_tid++ loads and stores the counter with interrupts on.
TidRead(t) ==
    /\ At(t, "tid_read")
    /\ tid' = [tid EXCEPT ![child[t]] = next_tid]
    /\ Goto(t, "tid_write")
    /\ UNCHANGED <<schedVars, ret, obj, next_tid, child>>

TidWrite(t) ==
    /\ At(t, "tid_write")
    /\ next_tid' = tid[child[t]] + 1
    /\ obj' = [obj EXCEPT ![t] = tid_lock]
    /\ ret' = [ret EXCEPT ![t] = "create_unblock"]
    /\ Goto(t, "call_release")
    /\ UNCHANGED <<schedVars, tid, child>>

\* thread_unblock(child); the creator yields if its own priority is lower.
CreateUnblock(t) ==
    /\ At(t, "create_unblock")
    /\ Unblock(child[t])
    /\ child' = [child EXCEPT ![t] = NULL]
    /\ ret' = [ret EXCEPT ![t] = "run"]
    /\ Goto(t, IF priority[t] < priority[child[t]] THEN "yield" ELSE "run")
    /\ UNCHANGED <<obj, tid, next_tid>>

----------------------------------------------------------------------------
(* thread_yield, thread_set_priority, thread_exit, idle.                   *)

\* Called by a thread, or last in sema_up, thread_create, thread_set_priority.
ThreadYield(t) ==
    /\ t # Idle
    /\ At(t, "run") \/ At(t, "yield")
    /\ YieldCPU(t)
    /\ Goto(t, ret[t])
    /\ UNCHANGED <<ret, obj, createVars>>

ThreadSetPriority_NoYield(t, p) ==
    /\ At(t, "run") /\ t # Idle
    /\ priority' = [priority EXCEPT ![t] = p]
    /\ UNCHANGED <<status, ready_list, running, thread_ticks, pc, ret, obj, createVars>>

ThreadSetPriority(t, p) ==
    /\ At(t, "run") /\ t # Idle
    /\ priority' = [priority EXCEPT ![t] = p]
    /\ Goto(t, IF p < priority[t] THEN "yield" ELSE "run")
    /\ UNCHANGED <<status, ready_list, running, thread_ticks, ret, obj, createVars>>

\* A thread function returns, or calls thread_exit, holding no lock.
ThreadExit(t) ==
    /\ At(t, "run") /\ t # Idle
    /\ holding[t] = {}
    /\ ExitCPU(t)
    /\ Goto(t, "dead")
    /\ UNCHANGED <<ret, obj, createVars>>

\* One turn of idle's loop, up to the hlt.
IdleBlock ==
    /\ At(Idle, "run")
    /\ BlockCPU(Idle)
    /\ Goto(Idle, "hlt")
    /\ UNCHANGED <<ret, obj, createVars>>

----------------------------------------------------------------------------
(* The composition.                                                        *)

flags == <<in_external_intr, panicked>>

SynchStep ==
    /\ \E t \in Thread :
         \/ \E s \in Semaphore : \/ SemaDownBlocks(t, s)
                                 \/ SemaDownTakes(t, s)
                                 \/ SemaUpNoWaiter(t, s)
                                 \/ SemaUpWakes(t, s)
                                 \/ SemaUpPanics(t, s)
         \/ \E l \in Lock : LockRelease(t, l)
         \/ SetHolder(t)
    /\ UNCHANGED <<in_external_intr, condVars, timerVars, createVars>>

ConditionStep ==
    /\ \E t \in Thread :
         \/ CondDown(t)
         \/ CondAcquire(t)
         \/ \E l \in Cond : CondWait(t, l) \/ CondSignal(t, l) \/ CondBroadcast(t, l)
         \/ BroadcastDone(t)
    /\ UNCHANGED <<flags, timerVars, createVars>>

SleepStep ==
    /\ \E t \in Thread : \/ SleepReadClock(t)
                         \/ \E n \in SleepTicks : SleepBlock(t, n)
                         \/ SleepReturn(t)
    /\ UNCHANGED <<flags, synchVars, condVars, createVars>>

InterruptStep ==
    /\ TimerInterrupt \/ TimerSkips \/ TimerWakes \/ TimerReturns
    /\ UNCHANGED <<panicked, synchVars, condVars, createVars>>

ThreadStep ==
    /\ \E t \in Thread :
         \/ \E u \in Thread, p \in NewPriorities : CreateInit(t, u, p)
         \/ TidRead(t)
         \/ TidWrite(t)
         \/ CreateUnblock(t)
         \/ ThreadYield(t)
         \/ \E p \in NewPriorities : ThreadSetPriority(t, p)
         \/ ThreadExit(t)
         \/ t = Idle /\ IdleBlock
    /\ UNCHANGED <<flags, value, waiters, holder, holding, condVars, timerVars>>

Init ==
    /\ SchedInit
    /\ SynchInit
    /\ CondInit
    /\ TimerInit
    /\ tid = [t \in Thread |-> CASE t = Main -> 1 [] t = Idle -> 2 [] OTHER -> 0]
    /\ next_tid = 3
    /\ child = [t \in Thread |-> NULL]

Next == SynchStep \/ ConditionStep \/ SleepStep \/ InterruptStep \/ ThreadStep

Spec == Init /\ [][Next]_vars

----------------------------------------------------------------------------
(* Fairness.  The interrupt controller latches a request until interrupts  *)
(* are on again, so ticks keep arriving however often a thread turns them  *)
(* off: strong fairness.  A handler, and code inside the kernel, runs on.  *)
(* A thread at "run" may compute for ever: no fairness.                    *)

InKernel == pc[running] # "run"

Fairness ==
    /\ SF_vars(TimerInterrupt /\ UNCHANGED <<panicked, synchVars, condVars, createVars>>)
    /\ WF_vars(InterruptStep /\ in_external_intr)
    /\ WF_vars((SynchStep \/ ConditionStep \/ SleepStep \/ ThreadStep) /\ InKernel)
    /\ WF_vars(ThreadStep /\ running = Idle)

FairSpec == Spec /\ Fairness

----------------------------------------------------------------------------
(* Safety.                                                                 *)

TypeOK ==
    /\ SchedTypeOK
    /\ SynchTypeOK
    /\ CondTypeOK
    /\ TimerTypeOK
    /\ tid \in [Thread -> Nat]
    /\ next_tid \in Nat
    /\ child \in [Thread -> Thread \cup {NULL}]

OnReady == ToSet(ready_list)
OnWaiters(s) == ToSet(waiters[s])
OnSleeping == ToSet(sleepingThreadList)

\* thread.h:83-88: struct thread's one list element serves the run queue, the
\* semaphores' wait lists and timer.c's sleeping list "only because they are
\* mutually exclusive": no thread is on two lists, or twice on one, and the
\* thread on the run queue is ready where one on a wait list is blocked.
ElemExclusive ==
    /\ IsInjective(ready_list)
    /\ IsInjective(sleepingThreadList)
    /\ \A s \in Semaphore : IsInjective(waiters[s])
    /\ \A t \in OnReady : status[t] = "READY"
    /\ \A t \in OnSleeping : status[t] = "BLOCKED"
    /\ \A s \in Semaphore : \A t \in OnWaiters(s) :
         /\ status[t] = "BLOCKED"
         /\ t \notin OnSleeping
         /\ \A r \in Semaphore \ {s} : t \notin OnWaiters(r)

\* No thread is lost: exactly one runs, a ready thread is on the run queue, and
\* a blocked one is where somebody will find it to unblock it: in a semaphore's
\* wait list, in the sleeping list, or in the hands of its creator.
NoThreadLost ==
    \A t \in Thread :
        /\ status[t] = "RUNNING" <=> t = running
        /\ status[t] = "READY" /\ t # Idle => t \in OnReady
        /\ status[t] = "BLOCKED" /\ t # Idle =>
             \/ \E s \in Semaphore : t \in OnWaiters(s) /\ pc[t] = "sema_down" /\ obj[t] = s
             \/ t \in OnSleeping /\ pc[t] = "sleeping"
             \/ \E c \in Thread : child[c] = t

\* The run queue is in priority order, so its head is the thread to run next.
ReadySorted ==
    \A i, j \in 1..Len(ready_list) :
        i < j => priority[ready_list[i]] >= priority[ready_list[j]]

\* synch.c:183-184, "A lock can be held by at most a single thread at any given
\* time": what clients rely on between lock_acquire and lock_release; and the
\* holder that lock_release asserts is the one that acquired the lock.
MutualExclusion ==
    \A l \in Lock : \A t \in Thread : l \in holding[t] =>
        /\ holder[l] = t
        /\ \A u \in Thread \ {t} : l \notin holding[u]

\* Threads woken by sema_up(s) that have not yet looked at the value again.
Woken(s) == {t \in Thread : pc[t] = "sema_down" /\ obj[t] = s /\ t \notin OnWaiters(s)}

\* No wakeup is lost: while threads wait for a semaphore, every unit of its
\* value has a woken thread on its way to take it.
NoLostWakeup ==
    \A s \in Semaphore : waiters[s] # <<>> => value[s] <= Cardinality(Woken(s))

\* cond_wait's release of the lock and its sleep are one atomic step to everybody
\* who signals under the lock (synch.c:284-286): a thread that sleeps in cond_wait
\* is still on the list that the next signal will look at, with no unit of its
\* semaphore spent or left over, or the signal for it is being delivered.
SignalNotLost ==
    /\ \A l \in Cond : \A t \in ToSet(condWaiters[l]) : monitor[t] = l /\ value[t] = 0
    /\ \A t \in Thread : t \in OnWaiters(t) =>
         \/ \E l \in Cond : t \in ToSet(condWaiters[l])
         \/ \E u \in Thread : pc[u] = "sema_up" /\ obj[u] = t

\* allocate_tid's lock does its work: threads that exist have different tids.
TidsUnique ==
    \A t, u \in Thread :
        tid[t] = tid[u] /\ t # u /\ "NONE" \notin {status[t], status[u]} => tid[t] = 0

\* Where only threads make each other ready (no thread sleeps), a thread that
\* executes its own code has the highest priority: each kernel call that makes a
\* higher one ready, or lowers the caller, has given way before it returns.
RunsHighest ==
    pc[running] = "run" =>
        \A t \in OnReady : priority[t] <= priority[running]

\* sema_up never removes the list's tail for a waiter, which list_remove's assertion
\* is_interior(elem) would stop (synch.c:125-139, lib/kernel/list.c:251).
NoPanic == ~panicked

\* synch.c:183-197: a thread owns the lock from the moment it took the unit of
\* its semaphore until it has put it back.
Owns(t, l) == l \in holding[t] \/ (obj[t] = l /\ pc[t] \in {"set_holder", "sema_up"})

Owner == [l \in Lock |-> IF \E t \in Thread : Owns(t, l)
                         THEN CHOOSE t \in Thread : Owns(t, l)
                         ELSE NULL]

AbstractMutex == INSTANCE Mutex WITH owner <- Owner

\* Every lock of the kernel behaves as the abstract one.
ImplementsMutex == AbstractMutex!Spec

----------------------------------------------------------------------------
(* Action properties.                                                      *)

\* Whenever the CPU changes hands, the thread that gets it has the highest
\* priority of all threads that are ready, idle only if there are none.
SwitchToHighest ==
    [][running' # running =>
         /\ running' = Idle => ready_list' = <<>>
         /\ \A t \in ToSet(ready_list') : priority'[t] <= priority'[running']]_vars

\* timer_sleep(n) returns only when n ticks have passed since it read the clock.
SleepsLongEnough ==
    [][\A t \in Thread : pc[t] = "sleeping" /\ pc'[t] = "run" =>
         \E n \in SleepTicks : alarmTimeStamp[t] = start[t] + n /\ ticks >= start[t] + n]_vars

\* sema_up wakes the thread of highest priority, and of those the first to come.
WakesHighest ==
    [][\A s \in Semaphore : \A i \in 1..Len(waiters[s]) :
         waiters[s][i] \notin ToSet(waiters'[s]) =>
           \A j \in 1..Len(waiters[s]) :
             \/ priority[waiters[s][j]] < priority[waiters[s][i]]
             \/ priority[waiters[s][j]] = priority[waiters[s][i]] /\ i <= j]_vars

----------------------------------------------------------------------------
(* Liveness, of FairSpec.                                                  *)

\* A thread that sleeps is made ready again.
SleepersWake ==
    \A t \in Thread : t \in OnSleeping ~> t \notin OnSleeping

\* Nobody of lower priority keeps the CPU from a ready thread for good: it runs,
\* or loses its claim to be above the running thread.
PreemptsLower ==
    \A t \in Thread :
        (t \in OnReady /\ priority[t] > priority[running])
          ~> (t \notin OnReady \/ priority[t] <= priority[running])

\* Round robin: a ready thread that nobody exceeds in priority gets to run.
RoundRobin ==
    \A t \in Thread :
        []<>(\/ t \notin OnReady
             \/ \E u \in Thread : status[u] \in {"RUNNING", "READY"}
                                   /\ priority[u] > priority[t])
============================================================================
