------------------------------- MODULE Timer -------------------------------
(***************************************************************************)
(* The alarm clock of project 3, os_prj3_20191599/src/devices/timer.c:     *)
(* timer_sleep and the timer interrupt, with the external-interrupt part   *)
(* of threads/interrupt.c around it.  The handler's loop over the sleeping *)
(* list is unrolled into one step per element; interrupts stay off, so     *)
(* nothing else can happen in between.                                     *)
(***************************************************************************)
EXTENDS Scheduler

CONSTANTS
    SleepTicks,  \* the arguments threads pass to timer_sleep
    MaxTicks     \* bound: the clock stands still here (see TimerInterrupt)

ASSUME TimerAssumption == SleepTicks \subseteq Int /\ MaxTicks \in Nat

VARIABLES
    ticks,               \* timer ticks since boot
    sleepingThreadList,  \* threads inside timer_sleep
    alarmTimeStamp,      \* struct thread: the tick to wake up at
    start,               \* timer_sleep's local of that name
    iter                 \* the handler's cursor in sleepingThreadList

timerVars == <<ticks, sleepingThreadList, alarmTimeStamp, start, iter>>

----------------------------------------------------------------------------
(* timer_sleep.                                                            *)

\* start = timer_ticks(): the clock is read before interrupts are turned off.
\* Bound: no thread goes to sleep past MaxTicks.
SleepReadClock(t) ==
    /\ At(t, "run") /\ t # Idle
    /\ SleepTicks # {} /\ \A n \in SleepTicks : ticks + n <= MaxTicks
    /\ start' = [start EXCEPT ![t] = ticks]
    /\ Goto(t, "sleep_push")
    /\ UNCHANGED <<schedVars, ret, ticks, sleepingThreadList, alarmTimeStamp, iter>>

\* The rest, with interrupts off; n is the argument.
SleepBlock(t, n) ==
    /\ At(t, "sleep_push")
    /\ alarmTimeStamp' = [alarmTimeStamp EXCEPT ![t] = start[t] + n]
    /\ sleepingThreadList' = Append(sleepingThreadList, t)
    /\ Goto(t, "sleeping")
    /\ BlockCPU(t)
    /\ UNCHANGED <<ret, ticks, start, iter>>

\* Switched back to: timer_sleep restores the interrupt level and returns.
SleepReturn(t) ==
    /\ At(t, "sleeping")
    /\ start' = [start EXCEPT ![t] = 0]
    /\ Goto(t, "run")
    /\ UNCHANGED <<schedVars, ret, ticks, sleepingThreadList, alarmTimeStamp, iter>>

----------------------------------------------------------------------------
(* The timer interrupt.                                                    *)

\* intr_handler enters timer_interrupt.  No stamp exceeds MaxTicks, so a clock
\* that stands still there compares with every stamp as one that goes on.
TimerInterrupt ==
    /\ ~panicked /\ ~in_external_intr
    /\ IntrOn
    /\ in_external_intr' = TRUE
    /\ ticks' = IF ticks < MaxTicks THEN ticks + 1 ELSE ticks
    /\ iter' = 1
    /\ UNCHANGED <<schedVars, pc, ret, sleepingThreadList, alarmTimeStamp, start>>

Due_TickEarly(u) == alarmTimeStamp[u] <= ticks + 1
Due_OnTheTick(u) == alarmTimeStamp[u] = ticks
Due(u) == alarmTimeStamp[u] <= ticks

\* The loop's two cases: the thread at the cursor is not due, or is woken.
TimerSkips ==
    /\ in_external_intr
    /\ iter <= Len(sleepingThreadList)
    /\ ~Due(sleepingThreadList[iter])
    /\ iter' = iter + 1
    /\ UNCHANGED <<schedVars, in_external_intr, pc, ret, ticks,
                   sleepingThreadList, alarmTimeStamp, start>>

TimerWakes_NotRemoved ==
    /\ in_external_intr
    /\ iter <= Len(sleepingThreadList)
    /\ Due(sleepingThreadList[iter])
    /\ iter' = iter + 1
    /\ Unblock(sleepingThreadList[iter])
    /\ UNCHANGED <<in_external_intr, pc, ret, ticks, sleepingThreadList, alarmTimeStamp, start>>

TimerWakes ==
    /\ in_external_intr
    /\ iter <= Len(sleepingThreadList)
    /\ Due(sleepingThreadList[iter])
    /\ sleepingThreadList' = RemoveAt(sleepingThreadList, iter)
    /\ Unblock(sleepingThreadList[iter])
    /\ UNCHANGED <<in_external_intr, pc, ret, ticks, alarmTimeStamp, start, iter>>

\* thread_tick's test for the end of the time slice.
SliceOver == thread_ticks + 1 >= TIME_SLICE

TimerReturns_NoYield ==
    /\ in_external_intr
    /\ iter > Len(sleepingThreadList)
    /\ in_external_intr' = FALSE
    /\ iter' = 0
    /\ thread_ticks' = IF SliceOver THEN 0 ELSE thread_ticks + 1
    /\ IF pc[running] = "hlt" THEN Goto(running, "run") ELSE UNCHANGED pc
    /\ UNCHANGED <<status, priority, ready_list, running, ret, ticks,
                   sleepingThreadList, alarmTimeStamp, start>>

\* thread_tick, and the end of intr_handler: at the end of its time slice the
\* interrupted thread yields.  The idle thread's hlt ends with the interrupt.
TimerReturns ==
    /\ in_external_intr
    /\ iter > Len(sleepingThreadList)
    /\ in_external_intr' = FALSE
    /\ iter' = 0
    /\ IF SliceOver
       THEN YieldCPU(running)
       ELSE /\ thread_ticks' = thread_ticks + 1
            /\ UNCHANGED <<status, priority, ready_list, running>>
    /\ IF pc[running] = "hlt" THEN Goto(running, "run") ELSE UNCHANGED pc
    /\ UNCHANGED <<ret, ticks, sleepingThreadList, alarmTimeStamp, start>>

----------------------------------------------------------------------------
TimerInit ==
    /\ ticks = 0
    /\ sleepingThreadList = <<>>
    /\ alarmTimeStamp = [t \in Thread |-> 0]
    /\ start = [t \in Thread |-> 0]
    /\ iter = 0

TimerTypeOK ==
    /\ ticks \in 0..MaxTicks
    /\ sleepingThreadList \in Seq(Thread)
    /\ alarmTimeStamp \in [Thread -> Int]
    /\ start \in [Thread -> 0..MaxTicks]
    /\ iter \in Nat
    /\ in_external_intr => iter \in 1..(Len(sleepingThreadList) + 1)
============================================================================
