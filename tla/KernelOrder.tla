---------------------------- MODULE KernelOrder -----------------------------
(***************************************************************************)
(* Proofs about Kernel: who comes first.  The run queue is in priority     *)
(* order, although priorities change, because only the running thread,     *)
(* which is not on it, changes its own; so whoever gets the CPU has the    *)
(* highest priority of those who want it.  A semaphore wakes the waiter of *)
(* highest priority, of those the one that waits longest, and as many as   *)
(* it has units.  A sleeper comes back when its ticks have passed.         *)
(***************************************************************************)
EXTENDS KernelProofs

Sorted(list) ==
    \A i, j \in 1..Len(list) : i < j => priority[list[i]] >= priority[list[j]]

----------------------------------------------------------------------------
(* list_insert_ordered and list_pop_front on a sorted list.                *)

\* The threads ahead of t are the first ones of the list.
LEMMA AheadOfPrefix ==
    ASSUME NEW list \in Seq(Thread), NEW t \in Thread
    PROVE  AheadOf(t, list) = 1..Cardinality(AheadOf(t, list))
<1> DEFINE rest == (1..(Len(list) + 1)) \ AheadOf(t, list)
<1>1. Len(list) \in Nat /\ AheadOf(t, list) \subseteq 1..Len(list)
  BY DEF AheadOf
<1>2. rest \in SUBSET Nat /\ Len(list) + 1 \in rest
  BY <1>1
<1>3. PICK x \in rest : \A y \in rest : x <= y
  <2> HIDE DEF rest
  <2> QED BY <1>2, LeastExists
<1>4. x \in 1..(Len(list) + 1) /\ x \notin AheadOf(t, list)
  BY <1>3
<1>5. \A y \in AheadOf(t, list) : y < x
  <2> SUFFICES ASSUME NEW y \in AheadOf(t, list), x <= y PROVE FALSE
    BY <1>1, <1>4
  <2>1. x \in 1..Len(list) /\ \A j \in 1..x : j \in 1..y
    BY <1>1, <1>4
  <2>2. x \in AheadOf(t, list)
    BY <2>1 DEF AheadOf
  <2> QED BY <1>4, <2>2
<1>6. AheadOf(t, list) = 1..(x - 1)
  <2>1. \A y \in 1..(x - 1) : y \in 1..(Len(list) + 1) /\ ~(x <= y)
    BY <1>1, <1>4
  <2>2. 1..(x - 1) \subseteq AheadOf(t, list)
    BY <1>3, <2>1
  <2>3. AheadOf(t, list) \subseteq 1..(x - 1)
    BY <1>1, <1>4, <1>5
  <2> QED BY <2>2, <2>3
<1>7. Cardinality(AheadOf(t, list)) = x - 1
  <2>1. x - 1 \in Nat
    BY <1>4
  <2>2. Cardinality(1..(x - 1)) = x - 1
    BY <2>1, FS_Interval
  <2> QED BY <1>6, <2>2
<1> QED BY <1>6, <1>7

\* Inserting a number q into numbers that fall, behind the last not below it.
LEMMA InsertFalling ==
    ASSUME NEW n \in Nat, NEW k \in 0..n, NEW q \in Int, NEW f \in [1..n -> Int],
           \A i, j \in 1..n : i < j => f[i] >= f[j],
           \A i \in 1..k : f[i] >= q,
           k < n => q >= f[k + 1],
           NEW g \in [1..(n + 1) -> Int],
           \A i \in 1..(n + 1) : g[i] = IF i < k + 1 THEN f[i] ELSE IF i = k + 1 THEN q ELSE f[i - 1]
    PROVE  \A i, j \in 1..(n + 1) : i < j => g[i] >= g[j]
<1>1. \A i \in 1..n : i > k => q >= f[i]
  <2> SUFFICES ASSUME NEW i \in 1..n, i > k PROVE q >= f[i]
    OBVIOUS
  <2>1. k + 1 \in 1..n /\ (i = k + 1 \/ k + 1 < i)
    OBVIOUS
  <2>2. f[k + 1] >= f[i]
    BY <2>1
  <2> QED BY <2>1, <2>2
<1> SUFFICES ASSUME NEW i \in 1..(n + 1), NEW j \in 1..(n + 1), i < j PROVE g[i] >= g[j]
  OBVIOUS
<1>2. CASE j < k + 1
  BY <1>2
<1>3. CASE j = k + 1
  BY <1>3
<1>4. CASE j > k + 1 /\ i = k + 1
  BY <1>1, <1>4
<1>5. CASE j > k + 1 /\ i < k + 1
  <2>1. i \in 1..k /\ i \in 1..n /\ j - 1 \in 1..n /\ j - 1 > k
    BY <1>5
  <2>2. f[i] >= q /\ q >= f[j - 1]
    BY <1>1, <2>1
  <2> QED BY <1>5, <2>1, <2>2
<1>6. CASE j > k + 1 /\ i > k + 1
  <2>1. i - 1 \in 1..n /\ j - 1 \in 1..n /\ i - 1 < j - 1
    BY <1>6
  <2> QED BY <1>6, <2>1
<1> QED BY <1>2, <1>3, <1>4, <1>5, <1>6

\* list_insert_ordered keeps the order of the list.
LEMMA InsertOrderedSorted ==
    ASSUME NEW list \in Seq(Thread), NEW t \in Thread, Sorted(list),
           priority \in [Thread -> Priority]
    PROVE  Sorted(InsertOrdered(list, t))
<1> DEFINE n == Len(list)
           k == Cardinality(AheadOf(t, list))
           r == InsertOrdered(list, t)
           q == priority[t]
           f == [i \in 1..n |-> priority[list[i]]]
           g == [i \in 1..(n + 1) |-> priority[r[i]]]
<1>1. n \in Nat /\ k \in 0..n /\ AheadOf(t, list) = 1..k
  BY InsertOrderedPlace, AheadOfPrefix
<1>2. /\ r \in Seq(Thread) /\ Len(r) = n + 1
      /\ \A i \in 1..(n + 1) : r[i] = IF i < k + 1 THEN list[i] ELSE IF i = k + 1 THEN t ELSE list[i - 1]
  <2>1. k + 1 \in 1..(Len(list) + 1)
    BY <1>1
  <2> HIDE DEF k
  <2>2. InsertAt(list, k + 1, t) \in Seq(Thread)
    BY <2>1, InsertAtFacts
  <2>3. /\ Len(InsertAt(list, k + 1, t)) = Len(list) + 1
        /\ \A i \in 1..(Len(list) + 1) :
             InsertAt(list, k + 1, t)[i] = IF i < k + 1 THEN list[i] ELSE IF i = k + 1 THEN t ELSE list[i - 1]
    BY <2>1, InsertAtFacts
  <2> QED BY <2>2, <2>3 DEF InsertOrdered, k
<1>3. \A u \in Thread : priority[u] \in Int
  <2>1. Priority \subseteq Int
    BY DEF Priority, PRI_MIN, PRI_MAX
  <2> QED BY <2>1
<1>4. q \in Int /\ f \in [1..n -> Int]
  <2>1. \A i \in 1..n : list[i] \in Thread
    OBVIOUS
  <2> QED BY <1>3, <2>1
<1>5. g \in [1..(n + 1) -> Int]
  <2>1. \A i \in 1..(n + 1) : r[i] \in Thread
    BY <1>2
  <2> QED BY <1>3, <2>1
<1>6. \A i, j \in 1..n : i < j => f[i] >= f[j]
  BY DEF Sorted
<1>7. \A i \in 1..k : f[i] >= q
  <2> SUFFICES ASSUME NEW i \in 1..k PROVE priority[list[i]] >= priority[t]
    BY <1>1
  <2>1. i \in AheadOf(t, list) /\ i \in 1..i
    BY <1>1
  <2> QED BY <2>1 DEF AheadOf
<1>8. k < n => q >= f[k + 1]
  <2> SUFFICES ASSUME k < n PROVE q >= f[k + 1]
    OBVIOUS
  <2>1. k + 1 \in 1..n /\ k + 1 \notin AheadOf(t, list)
    BY <1>1
  <2>2. PICK i \in 1..(k + 1) : ~(priority[list[i]] >= priority[t])
    BY <2>1 DEF AheadOf
  <2>3. i \in 1..n
    BY <1>1, <2>1
  <2>4. ~(f[i] >= q)
    BY <2>2, <2>3
  <2> HIDE DEF f, q, n, k
  <2>5. i = k + 1
    BY <1>1, <1>7, <2>4
  <2> QED BY <1>1, <1>4, <2>1, <2>4, <2>5
<1>9. \A i \in 1..(n + 1) : g[i] = IF i < k + 1 THEN f[i] ELSE IF i = k + 1 THEN q ELSE f[i - 1]
  <2> SUFFICES ASSUME NEW i \in 1..(n + 1)
               PROVE  g[i] = IF i < k + 1 THEN f[i] ELSE IF i = k + 1 THEN q ELSE f[i - 1]
    OBVIOUS
  <2>1. g[i] = priority[r[i]]
    OBVIOUS
  <2>2. i < k + 1 => i \in 1..n
    BY <1>1
  <2>3. ~(i < k + 1) /\ i # k + 1 => i - 1 \in 1..n
    BY <1>1
  <2>4. r[i] = IF i < k + 1 THEN list[i] ELSE IF i = k + 1 THEN t ELSE list[i - 1]
    BY <1>2
  <2> HIDE DEF n, k, r, g
  <2> QED BY <2>1, <2>2, <2>3, <2>4
<1>10. \A i, j \in 1..(n + 1) : i < j => g[i] >= g[j]
  <2> HIDE DEF n, k, q, f, g
  <2> QED BY <1>1, <1>4, <1>5, <1>6, <1>7, <1>8, <1>9, InsertFalling
<1> QED BY <1>2, <1>10 DEF Sorted

----------------------------------------------------------------------------
(* What a step of the kernel is to the scheduler.                          *)

\* The CPU goes to the best.
BestNext ==
    running' # running =>
        /\ running' = Idle => ready_list' = <<>>
        /\ \A t \in ToSet(ready_list') : priority'[t] <= priority'[running']

Orderly == ReadySorted' /\ BestNext

\* Nobody on the run queue has a higher priority than the running thread.
BestRuns == \A t \in OnReady : priority[t] <= priority[running]

\* schedule() with a sorted list.
LEMMA ScheduleOrder ==
    ASSUME NEW list \in Seq(Thread), Sorted(list), Idle \notin ToSet(list),
           priority \in [Thread -> Priority], UNCHANGED priority,
           NEW st, Schedule(list, st)
    PROVE  Orderly /\ BestRuns'
<1>1. CASE list = <<>>
  <2>1. ready_list' = <<>> /\ Len(ready_list') = 0 /\ ToSet(ready_list') = {}
    BY <1>1 DEF Schedule, ToSet
  <2> QED BY <2>1 DEF Orderly, ReadySorted, BestNext, BestRuns, OnReady
<1>2. CASE list # <<>>
  <2>1. /\ Len(list) \in Nat \ {0} /\ Head(list) = list[1] /\ Tail(list) \in Seq(Thread)
        /\ Len(Tail(list)) = Len(list) - 1
        /\ \A i \in 1..(Len(list) - 1) : Tail(list)[i] = list[i + 1]
    BY <1>2, EmptySeq, HeadTailProperties
  <2>2. running' = list[1] /\ ready_list' = Tail(list)
    BY <1>2, <2>1 DEF Schedule
  <2>3. ReadySorted'
    BY <2>1, <2>2 DEF ReadySorted, Sorted
  <2>4. running' # Idle
    BY <2>1, <2>2 DEF ToSet
  <2>5. \A t \in ToSet(ready_list') : priority[t] <= priority[list[1]]
    <3> SUFFICES ASSUME NEW i \in 1..(Len(list) - 1) PROVE priority[list[i + 1]] <= priority[list[1]]
      BY <2>1, <2>2 DEF ToSet
    <3>1. i + 1 \in 1..Len(list) /\ 1 \in 1..Len(list) /\ 1 < i + 1
      BY <2>1
    <3>2. priority[list[1]] >= priority[list[i + 1]]
      BY <3>1 DEF Sorted
    <3>3. priority[list[1]] \in 0..63 /\ priority[list[i + 1]] \in 0..63
      <4>1. list[1] \in Thread /\ list[i + 1] \in Thread
        BY <3>1
      <4> QED BY <4>1 DEF Priority, PRI_MIN, PRI_MAX
    <3> QED BY <3>2, <3>3
  <2> QED BY <2>2, <2>3, <2>4, <2>5 DEF Orderly, BestNext, BestRuns, OnReady
<1> QED BY <1>1, <1>2

\* The kinds of steps: the running thread gives up the CPU, another thread is put
\* on the run queue, one that is not on it gets a priority, or none of these.
LEMMA OrderKinds ==
    ASSUME TypeInv, QueueInv, ReadySorted
    PROVE  /\ YieldCPU(running) \/ BlockCPU(running) \/ ExitCPU(running) => Orderly /\ BestRuns'
           /\ \A u \in Thread : Unblock(u) => Orderly
           /\ \A u \in Thread, p \in Priority :
                /\ status[u] # "READY" /\ priority' = [priority EXCEPT ![u] = p]
                /\ UNCHANGED <<ready_list, running>>
                => Orderly
           /\ UNCHANGED <<priority, ready_list, running>> => Orderly
<1>1. /\ running \in Thread /\ ready_list \in Seq(Thread) /\ priority \in [Thread -> Priority]
      /\ Idle \notin ToSet(ready_list) /\ Sorted(ready_list)
      /\ \A u \in Thread : u \in ToSet(ready_list) => status[u] = "READY"
      /\ Idle \in Thread
  BY SchedulerAssumption DEF TypeInv, TypeOK, SchedTypeOK, QueueInv, ReadyOK, OnReady, ReadySorted, Sorted
<1>2. \A u \in Thread : /\ InsertOrdered(ready_list, u) \in Seq(Thread)
                        /\ Sorted(InsertOrdered(ready_list, u))
                        /\ ToSet(InsertOrdered(ready_list, u)) = ToSet(ready_list) \cup {u}
  BY <1>1, InsertOrderedSet, InsertOrderedSorted
<1>3. YieldCPU(running) => Orderly /\ BestRuns'
  BY <1>1, <1>2, ScheduleOrder DEF YieldCPU
<1>4. BlockCPU(running) \/ ExitCPU(running) => Orderly /\ BestRuns'
  BY <1>1, ScheduleOrder DEF BlockCPU, ExitCPU
<1>5. \A u \in Thread : Unblock(u) => Orderly
  BY <1>2 DEF Unblock, Orderly, BestNext, ReadySorted, Sorted
<1>6. ASSUME NEW u \in Thread, NEW p \in Priority, status[u] # "READY",
             priority' = [priority EXCEPT ![u] = p], UNCHANGED <<ready_list, running>>
      PROVE  Orderly
  <2>1. \A i \in 1..Len(ready_list) : priority'[ready_list[i]] = priority[ready_list[i]]
    BY <1>1, <1>6 DEF ToSet
  <2> QED BY <1>1, <1>6, <2>1 DEF Orderly, BestNext, ReadySorted, Sorted
<1>7. UNCHANGED <<priority, ready_list, running>> => Orderly
  BY DEF Orderly, BestNext, ReadySorted
<1> QED BY <1>3, <1>4, <1>5, <1>6, <1>7

\* Semaphores, locks and condition variables.
LEMMA SynchOrder ==
    ASSUME TypeInv, QueueInv, ReadySorted, SynchStep \/ ConditionStep
    PROVE  Orderly
<1>1. ASSUME NEW t \in Thread, NEW s \in Semaphore, SemaDownBlocks(t, s) PROVE Orderly
  BY <1>1, OrderKinds DEF SemaDownBlocks, InSemaDown, At
<1>2. ASSUME NEW t \in Thread, NEW s \in Semaphore, SemaUpWakes(t, s) PROVE Orderly
  <2>1. PICK k \in 1..Len(waiters[s]) : Unblock(waiters[s][k])
    BY <1>2, ScanEnds, QueueTypes DEF SemaUpWakes, CPUTypeOK
  <2>2. waiters[s][k] \in Thread
    BY QueueTypes
  <2> QED BY <2>1, <2>2, OrderKinds
<1>3. ASSUME UNCHANGED schedVars PROVE Orderly
  BY <1>3, OrderKinds DEF schedVars
<1> QED BY <1>1, <1>2, <1>3
        DEF SynchStep, SemaDownTakes, SemaUpNoWaiter, SemaUpPanics, LockRelease, SetHolder,
            ConditionStep, CondDown, CondAcquire, CondWait, CondSignal, CondBroadcast, PopWaiter,
            BroadcastDone

\* The alarm clock and the timer interrupt.
LEMMA TimerOrder ==
    ASSUME TypeInv, QueueInv, ReadySorted, SleepStep \/ InterruptStep
    PROVE  Orderly
<1>1. ASSUME NEW t \in Thread, NEW n \in SleepTicks, SleepBlock(t, n) PROVE Orderly
  BY <1>1, OrderKinds DEF SleepBlock, At
<1>2. CASE TimerWakes
  <2>1. iter \in 1..Len(sleepingThreadList) /\ sleepingThreadList \in Seq(Thread)
    BY <1>2 DEF TimerWakes, TypeInv, TypeOK, TimerTypeOK
  <2>2. sleepingThreadList[iter] \in Thread
    BY <2>1
  <2> QED BY <1>2, <2>2, OrderKinds DEF TimerWakes
<1>3. CASE TimerReturns
  BY <1>3, OrderKinds DEF TimerReturns
<1>4. ASSUME UNCHANGED schedVars PROVE Orderly
  BY <1>4, OrderKinds DEF schedVars
<1> QED BY <1>1, <1>2, <1>3, <1>4
        DEF SleepStep, SleepReadClock, SleepReturn, InterruptStep, TimerInterrupt, TimerSkips

\* Creation, yields, priorities, exit.
LEMMA ThreadOrder ==
    ASSUME TypeInv, QueueInv, ReadySorted, ThreadStep
    PROVE  Orderly
<1>1. ASSUME NEW t \in Thread, NEW u \in Thread, NEW p \in NewPriorities, CreateInit(t, u, p)
      PROVE  Orderly
  <2>1. p \in Priority
    BY KernelAssumption
  <2> QED BY <1>1, <2>1, OrderKinds DEF CreateInit, InitThread
<1>2. ASSUME NEW t \in Thread, CreateUnblock(t) PROVE Orderly
  <2>1. child[t] \in Thread
    BY <1>2, TypeInvParts DEF CreateUnblock, At, ControlTypeOK, ArgsOK, MakesChild
  <2> QED BY <1>2, <2>1, OrderKinds DEF CreateUnblock
<1>3. ASSUME NEW t \in Thread, ThreadYield(t) \/ ThreadExit(t) PROVE Orderly
  BY <1>3, OrderKinds DEF ThreadYield, ThreadExit, At
<1>4. ASSUME NEW t \in Thread, NEW p \in NewPriorities, ThreadSetPriority(t, p) PROVE Orderly
  <2>1. p \in Priority /\ status[t] # "READY"
    BY <1>4, KernelAssumption DEF ThreadSetPriority, At, QueueInv, ReadyOK
  <2> QED BY <1>4, <2>1, OrderKinds DEF ThreadSetPriority
<1>5. ASSUME IdleBlock PROVE Orderly
  BY <1>5, OrderKinds DEF IdleBlock, At
<1>6. ASSUME UNCHANGED schedVars PROVE Orderly
  BY <1>6, OrderKinds DEF schedVars
<1> QED BY <1>1, <1>2, <1>3, <1>4, <1>5, <1>6 DEF ThreadStep, TidRead, TidWrite

\* Every step of the kernel keeps the run queue in order and gives the CPU, if it
\* gives it to another thread, to the best one.
LEMMA StepOrder ==
    ASSUME TypeInv, QueueInv, ReadySorted, [Next]_vars
    PROVE  Orderly
<1>1. CASE UNCHANGED vars
  BY <1>1, OrderKinds DEF vars, schedVars
<1> QED BY <1>1, SynchOrder, TimerOrder, ThreadOrder DEF Next

\* The run queue is always in priority order.
THEOREM RunQueueSorted == Spec => []ReadySorted
<1>1. Init => ReadySorted
  <2> SUFFICES ASSUME Init PROVE ReadySorted
    OBVIOUS
  <2>1. Len(ready_list) = 0
    BY DEF Init, SchedInit
  <2> QED BY <2>1 DEF ReadySorted
<1>2. TypeInv /\ QueueInv /\ ReadySorted /\ [Next]_vars => ReadySorted'
  BY StepOrder DEF Orderly
<1> QED BY <1>1, <1>2, Typing, Queues, PTL DEF Spec

\* schedule() gives the CPU to a ready thread of the highest priority, and to the
\* idle thread only when no other is ready.
THEOREM CPUToHighest == Spec => SwitchToHighest
<1>1. TypeInv /\ QueueInv /\ ReadySorted /\ [Next]_vars => [BestNext]_vars
  BY StepOrder DEF Orderly
<1>2. SwitchToHighest <=> [][BestNext]_vars
  BY DEF SwitchToHighest, BestNext
<1> QED BY <1>1, <1>2, Typing, Queues, RunQueueSorted, PTL DEF Spec

----------------------------------------------------------------------------
(* Who runs.  Between a step that makes a better thread ready, or makes the *)
(* caller a worse one, and the thread_yield that follows it, the caller is  *)
(* at "yield".                                                              *)

HighInv == SleepTicks = {} =>
    sleepingThreadList = <<>> /\ (pc[running] # "yield" => BestRuns)

\* The scheduler's three ways to take the CPU away end with the best thread.
LEMMA SwitchHigh ==
    ASSUME TypeInv, QueueInv, ReadySorted, HighInv, UNCHANGED sleepingThreadList,
           YieldCPU(running) \/ BlockCPU(running) \/ ExitCPU(running)
    PROVE  HighInv'
BY OrderKinds DEF HighInv

\* The same thread keeps the CPU, and nothing else changes for the scheduler.
LEMMA StayHigh ==
    ASSUME HighInv, UNCHANGED <<sleepingThreadList, priority, ready_list, running>>,
           pc[running] # "yield" \/ pc'[running] = "yield"
    PROVE  HighInv'
BY DEF HighInv, BestRuns, OnReady

\* Semaphores and condition variables: sema_up goes on to thread_yield.
LEMMA SynchHigh ==
    ASSUME TypeInv, QueueInv, ReadySorted, HighInv, SynchStep \/ ConditionStep
    PROVE  HighInv'
<1>1. UNCHANGED sleepingThreadList
  BY DEF SynchStep, ConditionStep, timerVars
<1>2. ASSUME NEW t \in Thread, NEW s \in Semaphore, SemaDownBlocks(t, s) PROVE HighInv'
  BY <1>1, <1>2, SwitchHigh DEF SemaDownBlocks, InSemaDown, At
<1>3. ASSUME NEW t \in Thread, NEW s \in Semaphore, SemaUpWakes(t, s) PROVE HighInv'
  <2>1. running' = t /\ pc'[t] = "yield"
    BY <1>3, QueueTypes DEF SemaUpWakes, InSemaUp, At, Goto, Unblock
  <2> QED BY <1>1, <2>1 DEF HighInv
<1>4. ASSUME NEW t \in Thread, UNCHANGED schedVars, running = t, pc[t] # "yield" PROVE HighInv'
  BY <1>1, <1>4, StayHigh DEF schedVars
<1> QED BY <1>2, <1>3, <1>4
        DEF SynchStep, SemaDownTakes, InSemaDown, SemaUpNoWaiter, SemaUpPanics, InSemaUp, LockRelease,
            SetHolder, ConditionStep, CondDown, CondAcquire, CondWait, CondSignal, CondBroadcast,
            PopWaiter, BroadcastDone, At

\* Where nobody sleeps, the timer interrupt wakes nobody.
LEMMA TimerHigh ==
    ASSUME TypeInv, QueueInv, ReadySorted, HighInv, SleepStep \/ InterruptStep
    PROVE  HighInv'
<1> SUFFICES ASSUME SleepTicks = {} PROVE HighInv'
  BY DEF HighInv
<1>1. Len(sleepingThreadList) = 0 /\ sleepingThreadList = <<>>
  BY DEF HighInv
<1>2. ASSUME NEW t \in Thread, SleepReturn(t) PROVE HighInv'
  BY <1>2, StayHigh DEF SleepReturn, At, schedVars
<1>3. CASE TimerInterrupt
  BY <1>3, StayHigh DEF TimerInterrupt, schedVars
<1>4. in_external_intr => iter > Len(sleepingThreadList)
  BY <1>1 DEF TypeInv, TypeOK, TimerTypeOK
<1>5. iter \in Nat
  BY DEF TypeInv, TypeOK, TimerTypeOK
<1>6. ~TimerSkips /\ ~TimerWakes
  BY <1>1, <1>4, <1>5 DEF TimerSkips, TimerWakes
<1>7. CASE TimerReturns
  <2>1. CASE YieldCPU(running)
    BY <1>7, <2>1, SwitchHigh DEF TimerReturns
  <2>2. CASE UNCHANGED <<priority, ready_list, running>>
    <3>1. pc[running] # "yield" \/ pc'[running] = "yield"
      BY <1>7 DEF TimerReturns
    <3> QED BY <1>7, <2>2, <3>1, StayHigh DEF TimerReturns
  <2> QED BY <1>7, <2>1, <2>2 DEF TimerReturns
<1> QED BY <1>2, <1>3, <1>6, <1>7 DEF SleepStep, InterruptStep, SleepReadClock

\* thread_create, thread_set_priority, thread_yield, thread_exit.
LEMMA ThreadHigh ==
    ASSUME TypeInv, QueueInv, ReadySorted, HighInv, ThreadStep
    PROVE  HighInv'
<1>1. UNCHANGED sleepingThreadList /\ priority \in [Thread -> Priority] /\ Priority \subseteq Int
  BY DEF ThreadStep, timerVars, TypeInv, TypeOK, SchedTypeOK, Priority, PRI_MIN, PRI_MAX
<1>2. /\ running \in Thread /\ ready_list \in Seq(Thread) /\ OnReady \subseteq Thread
      /\ \A u \in OnReady : status[u] = "READY"
  BY DEF TypeInv, TypeOK, SchedTypeOK, QueueInv, ReadyOK, OnReady, ToSet
<1>3. ASSUME NEW t \in Thread, NEW u \in Thread, NEW p \in NewPriorities, CreateInit(t, u, p)
      PROVE  HighInv'
  <2>1. t = running /\ running' = running /\ ready_list' = ready_list /\ pc[t] = "run"
        /\ priority' = [priority EXCEPT ![u] = p] /\ status[u] = "NONE" /\ status[t] = "RUNNING"
    BY <1>3 DEF CreateInit, InitThread, At, QueueInv, ReadyOK
  <2>2. priority'[running] = priority[running] /\ \A v \in OnReady : priority'[v] = priority[v]
    BY <1>1, <1>2, <2>1
  <2> QED BY <1>1, <2>1, <2>2 DEF HighInv, BestRuns, OnReady
<1>4. ASSUME NEW t \in Thread, CreateUnblock(t)
      PROVE  HighInv'
  <2>1. child[t] \in Thread
    BY <1>4, TypeInvParts DEF CreateUnblock, At, ControlTypeOK, ArgsOK, MakesChild
  <2>2. /\ t = running /\ running' = running /\ priority' = priority /\ pc[t] = "create_unblock"
        /\ OnReady' = OnReady \cup {child[t]}
    BY <1>2, <1>4, <2>1, InsertOrderedSet DEF CreateUnblock, Unblock, At, OnReady
  <2>3. CASE priority[t] < priority[child[t]]
    <3>1. pc'[t] = "yield"
      BY <1>4, <2>3, QueueTypes DEF CreateUnblock, Goto
    <3> QED BY <1>1, <2>2, <3>1 DEF HighInv
  <2>4. CASE ~(priority[t] < priority[child[t]])
    <3>1. priority[t] \in Int /\ priority[child[t]] \in Int
      BY <1>1, <2>1
    <3>2. priority[child[t]] <= priority[t]
      BY <2>4, <3>1
    <3> QED BY <1>1, <2>2, <3>2 DEF HighInv, BestRuns
  <2> QED BY <2>3, <2>4
<1>5. ASSUME NEW t \in Thread, ThreadYield(t) \/ ThreadExit(t) PROVE HighInv'
  BY <1>1, <1>5, SwitchHigh DEF ThreadYield, ThreadExit, At
<1>6. ASSUME NEW t \in Thread, NEW p \in NewPriorities, ThreadSetPriority(t, p)
      PROVE  HighInv'
  <2>1. /\ t = running /\ running' = running /\ OnReady' = OnReady /\ pc[t] = "run"
        /\ priority' = [priority EXCEPT ![t] = p] /\ t \notin OnReady
    BY <1>2, <1>6 DEF ThreadSetPriority, At, OnReady, QueueInv, ReadyOK
  <2>2. /\ priority'[t] = p /\ \A u \in OnReady : priority'[u] = priority[u] /\ priority[u] \in Int
        /\ p \in Int /\ priority[t] \in Int
    BY <1>1, <1>2, <2>1, KernelAssumption
  <2>3. CASE p < priority[t]
    <3>1. pc'[t] = "yield"
      BY <1>6, <2>3, QueueTypes DEF ThreadSetPriority, Goto
    <3> QED BY <1>1, <2>1, <3>1 DEF HighInv
  <2>4. CASE priority[t] <= p
    <3>1. BestRuns => \A u \in OnReady : priority[u] <= p
      BY <2>1, <2>2, <2>4 DEF BestRuns
    <3> QED BY <1>1, <2>1, <2>2, <3>1 DEF HighInv, BestRuns
  <2> QED BY <2>2, <2>3, <2>4
<1>7. ASSUME IdleBlock PROVE HighInv'
  BY <1>1, <1>7, SwitchHigh DEF IdleBlock, At
<1>8. ASSUME NEW t \in Thread, TidRead(t) \/ TidWrite(t) PROVE HighInv'
  BY <1>1, <1>8, StayHigh DEF TidRead, TidWrite, At, schedVars
<1> QED BY <1>3, <1>4, <1>5, <1>6, <1>7, <1>8 DEF ThreadStep

\* Where nobody sleeps, a thread that executes its own code has the highest
\* priority of all that are ready, however its kernel calls were interrupted.
THEOREM RunsTheHighest == Spec => [](SleepTicks = {} => RunsHighest)
<1>1. Init => HighInv
  <2>1. ToSet(<<>>) = {}
    BY DEF ToSet
  <2> QED BY <2>1 DEF Init, SchedInit, TimerInit, HighInv, BestRuns, OnReady
<1>2. TypeInv /\ QueueInv /\ ReadySorted /\ HighInv /\ [Next]_vars => HighInv'
  <2> SUFFICES ASSUME TypeInv, QueueInv, ReadySorted, HighInv, [Next]_vars PROVE HighInv'
    OBVIOUS
  <2>1. CASE UNCHANGED vars
    BY <2>1, StayHigh DEF vars, schedVars, timerVars
  <2> QED BY <2>1, SynchHigh, TimerHigh, ThreadHigh DEF Next
<1>3. HighInv => (SleepTicks = {} => RunsHighest)
  BY DEF HighInv, BestRuns, RunsHighest
<1> QED BY <1>1, <1>2, <1>3, Typing, Queues, RunQueueSorted, PTL DEF Spec

----------------------------------------------------------------------------
(* Whom sema_up wakes.                                                     *)

\* No waiter has a better claim than the i-th.
FirstClaim(list, i) ==
    \A j \in 1..Len(list) :
        \/ priority[list[j]] < priority[list[i]]
        \/ priority[list[j]] = priority[list[i]] /\ i <= j

\* Whoever leaves a wait list had the best claim of all who were on it.
RightWoken ==
    \A s \in Semaphore : \A i \in 1..Len(waiters[s]) :
        waiters[s][i] \notin ToSet(waiters'[s]) => FirstClaim(waiters[s], i)

\* Nobody leaves a list that gets longer or stays.
LEMMA NoneWoken ==
    ASSUME waiters \in [Semaphore -> Seq(Thread)],
           \A s \in Semaphore : ToSet(waiters[s]) \subseteq ToSet(waiters'[s])
    PROVE  RightWoken
<1> SUFFICES ASSUME NEW s \in Semaphore, NEW i \in 1..Len(waiters[s])
             PROVE  waiters[s][i] \in ToSet(waiters'[s])
  BY DEF RightWoken
<1>1. waiters[s][i] \in ToSet(waiters[s])
  BY DEF ToSet
<1> QED BY <1>1

\* sema_up takes the one its scan settles on.
LEMMA ScanWakes ==
    ASSUME TypeInv, QueueInv, NEW t \in Thread, NEW s \in Semaphore, SemaUpWakes(t, s)
    PROVE  RightWoken
<1> DEFINE w == waiters[s]
           k == IterMax(s)
<1>1. w \in Seq(Thread) /\ w # <<>> /\ IsInjective(w) /\ priority \in [Thread -> Priority]
  BY QueueTypes DEF SemaUpWakes, QueueInv, WaitersOK, CPUTypeOK
<1>2. /\ k \in 1..Len(w)
      /\ \A j \in 1..Len(w) : priority[w[j]] <= priority[w[k]]
      /\ \A j \in 1..(k - 1) : priority[w[j]] < priority[w[k]]
  BY <1>1, ScanEnds, QueueTypes DEF SemaUpWakes
<1>3. waiters' = [waiters EXCEPT ![s] = RemoveAt(w, k)]
  BY DEF SemaUpWakes
<1> HIDE DEF k
<1>4. ToSet(RemoveAt(w, k)) = ToSet(w) \ {w[k]}
  BY <1>1, <1>2, RemoveAtSet
<1>5. FirstClaim(w, k)
  <2> SUFFICES ASSUME NEW j \in 1..Len(w)
               PROVE  \/ priority[w[j]] < priority[w[k]]
                      \/ priority[w[j]] = priority[w[k]] /\ k <= j
    BY DEF FirstClaim
  <2>1. priority[w[j]] \in Int /\ priority[w[k]] \in Int
    <3>1. w[j] \in Thread /\ w[k] \in Thread /\ Priority \subseteq Int
      BY <1>1, <1>2 DEF Priority, PRI_MIN, PRI_MAX
    <3> QED BY <1>1, <3>1
  <2>2. CASE j < k
    <3>1. j \in 1..(k - 1)
      BY <1>2, <2>2
    <3> QED BY <1>2, <3>1
  <2>3. CASE k <= j
    <3>1. priority[w[j]] <= priority[w[k]]
      BY <1>2
    <3> DEFINE x == priority[w[j]]
               y == priority[w[k]]
    <3> HIDE DEF x, y
    <3>2. x < y \/ x = y
      BY <2>1, <3>1 DEF x, y
    <3> QED BY <2>3, <3>2 DEF x, y
  <2>4. j < k \/ k <= j
    BY <1>2
  <2> QED BY <2>2, <2>3, <2>4
<1>6. ASSUME NEW i \in 1..Len(w), w[i] \notin ToSet(RemoveAt(w, k)) PROVE FirstClaim(w, i)
  <2>1. w[i] = w[k]
    <3>1. w[i] \in ToSet(w)
      BY <1>1, <1>6 DEF ToSet
    <3> QED BY <1>4, <1>6, <3>1
  <2>2. i = k
    BY <1>1, <1>2, <2>1 DEF IsInjective
  <2> QED BY <1>5, <2>2
<1>7. \A r \in Semaphore : waiters'[r] = IF r = s THEN RemoveAt(w, k) ELSE waiters[r]
  BY <1>3, QueueTypes DEF TypeInv, TypeOK, SynchTypeOK
<1>8. ASSUME NEW r \in Semaphore, NEW i \in 1..Len(waiters[r]), waiters[r][i] \notin ToSet(waiters'[r])
      PROVE  FirstClaim(waiters[r], i)
  <2>1. CASE r = s
    BY <1>6, <1>7, <1>8, <2>1
  <2>2. CASE r # s
    BY <1>7, <1>8, <2>2 DEF ToSet
  <2> QED BY <2>1, <2>2
<1> QED BY <1>8 DEF RightWoken

\* A thread queues up behind those that wait.
LEMMA DownWakesNone ==
    ASSUME TypeInv, NEW t \in Thread, NEW s \in Semaphore, SemaDownBlocks(t, s)
    PROVE  RightWoken
<1>1. waiters \in [Semaphore -> Seq(Thread)]
  BY DEF TypeInv, TypeOK, SynchTypeOK
<1>2. \A r \in Semaphore : waiters'[r] = IF r = s THEN Append(waiters[s], t) ELSE waiters[r]
  BY <1>1 DEF SemaDownBlocks
<1>3. ToSet(Append(waiters[s], t)) = ToSet(waiters[s]) \cup {t}
  BY <1>1, AppendSet
<1> QED BY <1>1, <1>2, <1>3, NoneWoken

\* cond_wait's new semaphore takes the place of one nobody waits for.
LEMMA WaitWakesNone ==
    ASSUME TypeInv, QueueInv, NEW t \in Thread, NEW l \in Cond, CondWait(t, l)
    PROVE  RightWoken
<1>1. waiters \in [Semaphore -> Seq(Thread)] /\ t \in Semaphore
  BY DEF TypeInv, TypeOK, SynchTypeOK, Semaphore
<1>2. waiters' = [waiters EXCEPT ![t] = <<>>] /\ pc[t] = "run"
  BY DEF CondWait, At
<1>3. ToSet(waiters[t]) = {}
  <2> SUFFICES ASSUME NEW u \in OnWaiters(t) PROVE FALSE
    BY DEF OnWaiters
  <2>1. u \in Thread /\ pc[u] = "sema_down" /\ obj[u] = t
    BY <1>1, QueueTypes DEF QueueInv, WaitersOK
  <2>2. u = t
    BY <2>1 DEF QueueInv, PlacesOK
  <2> QED BY <1>2, <2>1, <2>2
<1> QED BY <1>1, <1>2, <1>3, NoneWoken

\* sema_up wakes the waiter of highest priority and, of those, the first to come
\* (who may still find the unit taken by a thread that never waited).
THEOREM WakesTheRightOne == Spec => WakesHighest
<1>1. TypeInv /\ QueueInv /\ [Next]_vars => RightWoken
  <2> SUFFICES ASSUME TypeInv, QueueInv, [Next]_vars PROVE RightWoken
    OBVIOUS
  <2>1. UNCHANGED waiters => RightWoken
    BY NoneWoken DEF TypeInv, TypeOK, SynchTypeOK
  <2>2. CASE SynchStep
    BY <2>1, <2>2, ScanWakes, DownWakesNone
       DEF SynchStep, SemaDownTakes, SemaUpNoWaiter, SemaUpPanics, LockRelease, SetHolder, synchVars
  <2>3. CASE ConditionStep
    BY <2>1, <2>3, WaitWakesNone
       DEF ConditionStep, CondDown, CondAcquire, CondSignal, CondBroadcast, PopWaiter, BroadcastDone, synchVars
  <2>4. CASE SleepStep \/ InterruptStep \/ ThreadStep \/ UNCHANGED vars
    BY <2>1, <2>4 DEF SleepStep, InterruptStep, ThreadStep, synchVars, vars
  <2> QED BY <2>2, <2>3, <2>4 DEF Next
<1>2. WakesHighest <=> [][RightWoken]_vars
  BY DEF WakesHighest, RightWoken, FirstClaim
<1> QED BY <1>1, <1>2, Typing, Queues, PTL DEF Spec

----------------------------------------------------------------------------
(* Enough are woken.  sema_up raises the value and takes a waiter off the   *)
(* list in one step; the waiter takes the unit, if nobody was faster, in a  *)
(* later one.                                                               *)

WakeInv ==
    \A s \in Semaphore :
        /\ IsFiniteSet(Woken(s))
        /\ waiters[s] # <<>> => value[s] <= Cardinality(Woken(s))

\* A step that leaves semaphore s alone.
Untouched(s) == Woken(s)' = Woken(s) /\ value'[s] = value[s] /\ waiters'[s] = waiters[s]

\* All semaphores but s are left alone, and s gets its due.
LEMMA TouchOne ==
    ASSUME WakeInv, NEW s \in Semaphore, \A r \in Semaphore \ {s} : Untouched(r),
           IsFiniteSet(Woken(s)'),
           waiters'[s] # <<>> => value'[s] <= Cardinality(Woken(s)')
    PROVE  WakeInv'
<1>1. ASSUME NEW r \in Semaphore
      PROVE  /\ IsFiniteSet(Woken(r)')
             /\ waiters'[r] # <<>> => value'[r] <= Cardinality(Woken(r)')
  BY DEF WakeInv, Untouched
<1> QED BY <1>1 DEF WakeInv

\* The threads that loop in sema_down stay there and no others come.
LEMMA SameLoops ==
    ASSUME WakeInv,
           \A u \in Thread : /\ pc'[u] = "sema_down" <=> pc[u] = "sema_down"
                             /\ pc[u] = "sema_down" => obj'[u] = obj[u],
           UNCHANGED <<value, waiters>>
    PROVE  WakeInv'
<1>1. \A s \in Semaphore : Woken(s)' = Woken(s)
  BY DEF Woken, OnWaiters
<1> QED BY <1>1 DEF WakeInv

\* The steps of sema_down and sema_up.
LEMMA SynchWakes ==
    ASSUME TypeInv, QueueInv, WakeInv, SynchStep
    PROVE  WakeInv'
<1>1. /\ waiters \in [Semaphore -> Seq(Thread)] /\ value \in [Semaphore -> Nat]
      /\ pc \in [Thread -> Label] /\ obj \in [Thread -> Semaphore \cup {NULL}] /\ ret \in [Thread -> ReturnLabel]
      /\ "sema_down" \notin ReturnLabel
  BY QueueTypes DEF TypeInv, TypeOK, SynchTypeOK, ReturnLabel
<1>2. \A s \in Semaphore : IsFiniteSet(Woken(s)) /\ Cardinality(Woken(s)) \in Nat
  BY FS_CardinalityType DEF WakeInv
<1>3. ASSUME NEW t \in Thread, NEW s \in Semaphore, SemaDownBlocks(t, s)
      PROVE  WakeInv'
  <2>1. /\ pc'[t] = "sema_down" /\ obj'[t] = s /\ value[s] = 0 /\ value' = value
        /\ \A u \in Thread \ {t} : pc'[u] = pc[u] /\ obj'[u] = obj[u]
        /\ \A r \in Semaphore \ {s} : waiters'[r] = waiters[r]
        /\ pc[t] = "sema_down" => obj[t] = s
    BY <1>1, <1>3 DEF SemaDownBlocks, InSemaDown, At, Goto
  <2>2. OnWaiters(s)' = OnWaiters(s) \cup {t}
    BY <1>1, <1>3, AppendSet DEF SemaDownBlocks, OnWaiters
  <2>3. Woken(s)' = Woken(s) \ {t}
    BY <2>1, <2>2 DEF Woken
  <2>4. IsFiniteSet(Woken(s)') /\ Cardinality(Woken(s)') \in Nat
    BY <1>2, <2>3, FS_RemoveElement, FS_CardinalityType
  <2>5. \A r \in Semaphore \ {s} : Untouched(r)
    BY <2>1 DEF Untouched, Woken, OnWaiters
  <2> QED BY <2>1, <2>4, <2>5, TouchOne
<1>4. ASSUME NEW t \in Thread, NEW s \in Semaphore, SemaDownTakes(t, s)
      PROVE  WakeInv'
  <2>1. /\ pc'[t] # "sema_down" /\ value[s] > 0 /\ value' = [value EXCEPT ![s] = @ - 1] /\ waiters' = waiters
        /\ \A u \in Thread \ {t} : pc'[u] = pc[u] /\ obj'[u] = obj[u]
        /\ pc[t] = "sema_down" => obj[t] = s
    BY <1>1, <1>4 DEF SemaDownTakes, InSemaDown, At, Goto
  <2>2. Woken(s)' = Woken(s) \ {t}
    BY <2>1 DEF Woken, OnWaiters
  <2>3. /\ IsFiniteSet(Woken(s)')
        /\ Cardinality(Woken(s)') \in {Cardinality(Woken(s)), Cardinality(Woken(s)) - 1}
    BY <1>2, <2>2, FS_RemoveElement
  <2>4. waiters[s] # <<>> => value'[s] <= Cardinality(Woken(s)')
    <3> SUFFICES ASSUME waiters[s] # <<>> PROVE value'[s] <= Cardinality(Woken(s)')
      OBVIOUS
    <3>1. PICK v \in Nat : v = value[s]
      BY <1>1
    <3>2. PICK c \in Nat : c = Cardinality(Woken(s))
      BY <1>2
    <3>3. v <= c /\ value'[s] = v - 1
      BY <1>1, <2>1, <3>1, <3>2 DEF WakeInv
    <3> QED BY <2>3, <3>2, <3>3
  <2>5. \A r \in Semaphore \ {s} : Untouched(r)
    BY <1>1, <2>1 DEF Untouched, Woken, OnWaiters
  <2> QED BY <2>1, <2>3, <2>4, <2>5, TouchOne
<1>5. ASSUME NEW t \in Thread, NEW s \in Semaphore, SemaUpNoWaiter(t, s)
      PROVE  WakeInv'
  <2>1. /\ pc[t] # "sema_down" /\ pc'[t] # "sema_down" /\ value' = [value EXCEPT ![s] = @ + 1]
        /\ waiters' = waiters /\ waiters[s] = <<>>
        /\ \A u \in Thread \ {t} : pc'[u] = pc[u] /\ obj'[u] = obj[u]
    BY <1>1, <1>5 DEF SemaUpNoWaiter, InSemaUp, At, Goto
  <2>2. \A r \in Semaphore : Woken(r)' = Woken(r)
    BY <2>1 DEF Woken, OnWaiters
  <2>3. \A r \in Semaphore \ {s} : Untouched(r)
    BY <1>1, <2>1, <2>2 DEF Untouched
  <2> QED BY <1>2, <2>1, <2>2, <2>3, TouchOne
<1>6. ASSUME NEW t \in Thread, NEW s \in Semaphore, SemaUpWakes(t, s)
      PROVE  WakeInv'
  <2>1. /\ pc[t] # "sema_down" /\ pc'[t] # "sema_down" /\ value' = [value EXCEPT ![s] = @ + 1]
        /\ waiters[s] \in Seq(Thread) /\ waiters[s] # <<>> /\ IsInjective(waiters[s])
        /\ \A u \in Thread \ {t} : pc'[u] = pc[u] /\ obj'[u] = obj[u]
        /\ \A r \in Semaphore \ {s} : waiters'[r] = waiters[r]
    BY <1>1, <1>6 DEF SemaUpWakes, InSemaUp, At, Goto, QueueInv, WaitersOK
  <2>2. PICK k \in 1..Len(waiters[s]) : waiters'[s] = RemoveAt(waiters[s], k)
    BY <1>1, <1>6, <2>1, ScanEnds, QueueTypes DEF SemaUpWakes, CPUTypeOK
  <2>3. PICK w \in Thread : w = waiters[s][k]
    BY <2>1
  <2>4. w \in OnWaiters(s) /\ OnWaiters(s)' = OnWaiters(s) \ {w}
    <3>1. w \in OnWaiters(s)
      BY <2>1, <2>3 DEF OnWaiters, ToSet
    <3>2. ToSet(RemoveAt(waiters[s], k)) = ToSet(waiters[s]) \ {w}
      BY <2>1, <2>3, RemoveAtSet
    <3> QED BY <2>2, <3>1, <3>2 DEF OnWaiters
  <2>5. pc[w] = "sema_down" /\ obj[w] = s /\ w # t
    BY <2>1, <2>4 DEF QueueInv, WaitersOK
  <2>6. Woken(s)' = Woken(s) \cup {w} /\ w \notin Woken(s)
    BY <2>1, <2>4, <2>5 DEF Woken
  <2>7. IsFiniteSet(Woken(s)') /\ Cardinality(Woken(s)') = Cardinality(Woken(s)) + 1
    BY <1>2, <2>6, FS_AddElement
  <2>8. value'[s] <= Cardinality(Woken(s)')
    <3>1. PICK v \in Nat : v = value[s]
      BY <1>1
    <3>2. PICK c \in Nat : c = Cardinality(Woken(s))
      BY <1>2
    <3>3. v <= c /\ value'[s] = v + 1
      BY <1>1, <2>1, <3>1, <3>2 DEF WakeInv
    <3> QED BY <2>7, <3>2, <3>3
  <2>9. \A r \in Semaphore \ {s} : Untouched(r)
    BY <1>1, <2>1 DEF Untouched, Woken, OnWaiters
  <2> QED BY <2>7, <2>8, <2>9, TouchOne
<1>7. ASSUME NEW t \in Thread, NEW s \in Semaphore, SemaUpPanics(t, s)
      PROVE  WakeInv'
  BY <1>7, SameLoops DEF SemaUpPanics, synchVars
<1>8. ASSUME NEW t \in Thread, NEW l \in Lock, LockRelease(t, l)
      PROVE  WakeInv'
  BY <1>1, <1>8, SameLoops DEF LockRelease, At, Goto
<1>9. ASSUME NEW t \in Thread, SetHolder(t)
      PROVE  WakeInv'
  BY <1>1, <1>9, SameLoops DEF SetHolder, At, Goto
<1> QED BY <1>3, <1>4, <1>5, <1>6, <1>7, <1>8, <1>9 DEF SynchStep

\* cond_wait's new semaphore has no waiters and nobody to wake.
LEMMA ConditionWakes ==
    ASSUME TypeInv, QueueInv, WakeInv, ConditionStep
    PROVE  WakeInv'
<1>1. ASSUME NEW t \in Thread, NEW l \in Cond, CondWait(t, l)
      PROVE  WakeInv'
  <2>1. /\ pc[t] = "run" /\ pc'[t] # "sema_down" /\ value' = [value EXCEPT ![t] = 0]
        /\ waiters' = [waiters EXCEPT ![t] = <<>>] /\ t \in Semaphore
        /\ \A u \in Thread \ {t} : pc'[u] = pc[u] /\ obj'[u] = obj[u]
    BY <1>1, QueueTypes DEF CondWait, At, Goto, Semaphore
  <2>2. Woken(t)' \subseteq Woken(t)
    <3> SUFFICES ASSUME NEW u \in Thread, u \in OnWaiters(t), pc[u] = "sema_down", obj[u] = t PROVE FALSE
      BY <2>1 DEF Woken
    <3> QED BY <2>1 DEF QueueInv, PlacesOK
  <2>3. IsFiniteSet(Woken(t)')
    BY <2>1, <2>2, FS_Subset DEF WakeInv
  <2>4. waiters \in [Semaphore -> Seq(Thread)] /\ value \in [Semaphore -> Nat]
    BY DEF TypeInv, TypeOK, SynchTypeOK
  <2>5. \A r \in Semaphore \ {t} : Untouched(r)
    BY <2>1, <2>4 DEF Untouched, Woken, OnWaiters
  <2> QED BY <2>1, <2>3, <2>4, <2>5, TouchOne
<1>2. \A t \in Thread, l \in {"call_down", "call_release", "sema_up", "run"} :
        Goto(t, l) /\ pc[t] # "sema_down" => \A u \in Thread : pc'[u] = "sema_down" <=> pc[u] = "sema_down"
  BY QueueTypes DEF Goto
<1>3. ASSUME NEW t \in Thread, CondDown(t) \/ CondAcquire(t) \/ BroadcastDone(t) PROVE WakeInv'
  BY <1>2, <1>3, SameLoops, QueueTypes DEF CondDown, CondAcquire, BroadcastDone, At, synchVars
<1>4. ASSUME NEW t \in Thread, NEW l \in Cond, CondSignal(t, l) \/ CondBroadcast(t, l) PROVE WakeInv'
  BY <1>2, <1>4, SameLoops, QueueTypes DEF CondSignal, CondBroadcast, PopWaiter, At
<1> QED BY <1>1, <1>3, <1>4 DEF ConditionStep

\* The other steps raise and lower no semaphore.
LEMMA OtherWakes ==
    ASSUME TypeInv, QueueInv, WakeInv, SleepStep \/ InterruptStep \/ ThreadStep
    PROVE  WakeInv'
<1>1. UNCHANGED <<value, waiters>> /\ "sema_down" \notin ReturnLabel
  BY DEF SleepStep, InterruptStep, ThreadStep, synchVars, ReturnLabel
<1>2. ASSUME NEW t \in Thread, NEW l, l # "sema_down", Goto(t, l), pc[t] # "sema_down",
             \A u \in Thread \ {t} : obj'[u] = obj[u]
      PROVE  WakeInv'
  BY <1>1, <1>2, SameLoops, QueueTypes DEF Goto
<1>3. CASE SleepStep
  BY <1>2, <1>3 DEF SleepStep, synchVars, SleepReadClock, SleepBlock, SleepReturn, At
<1>4. CASE InterruptStep
  <2>1. running \in Thread /\ UNCHANGED obj
    BY <1>4 DEF TypeInv, TypeOK, SchedTypeOK, InterruptStep, synchVars
  <2>2. CASE UNCHANGED pc
    BY <1>1, <2>1, <2>2, SameLoops
  <2> QED BY <1>2, <1>4, <2>1, <2>2 DEF InterruptStep, TimerInterrupt, TimerSkips, TimerWakes, TimerReturns
<1>5. CASE ThreadStep
  <2>1. ASSUME NEW t \in Thread, NEW u \in Thread, NEW p \in NewPriorities, CreateInit(t, u, p)
        PROVE  WakeInv'
    <3>1. u # t /\ pc[u] = "dead" /\ pc[t] = "run"
      BY <2>1 DEF CreateInit, At, QueueInv, ReadyOK, PlacesOK
    <3>2. \A v \in Thread : pc'[v] = "sema_down" <=> pc[v] = "sema_down"
      BY <2>1, <3>1, QueueTypes DEF CreateInit
    <3>3. \A v \in Thread : pc[v] = "sema_down" => obj'[v] = obj[v]
      BY <2>1, <3>1, QueueTypes DEF CreateInit
    <3> QED BY <1>1, <3>2, <3>3, SameLoops
  <2>2. ASSUME NEW t \in Thread, TidWrite(t) PROVE WakeInv'
    BY <1>2, <2>2, QueueTypes DEF TidWrite, At
  <2>3. ASSUME NEW t \in Thread, CreateUnblock(t) \/ TidRead(t) \/ ThreadExit(t) PROVE WakeInv'
    BY <1>2, <2>3 DEF CreateUnblock, TidRead, ThreadExit, At
  <2>4. ASSUME NEW t \in Thread, ThreadYield(t) PROVE WakeInv'
    <3>1. ret[t] # "sema_down"
      BY <1>1, QueueTypes
    <3> QED BY <1>2, <2>4, <3>1 DEF ThreadYield, At
  <2>5. ASSUME NEW t \in Thread, NEW p \in NewPriorities, ThreadSetPriority(t, p) PROVE WakeInv'
    BY <1>2, <2>5 DEF ThreadSetPriority, At
  <2>6. ASSUME IdleBlock PROVE WakeInv'
    BY <1>2, <2>6, SchedulerAssumption DEF IdleBlock, At
  <2> QED BY <1>5, <2>1, <2>2, <2>3, <2>4, <2>5, <2>6 DEF ThreadStep
<1> QED BY <1>3, <1>4, <1>5

\* While threads wait for a semaphore, every unit it has is matched by a thread
\* that was woken and has still to look: none of them waits in vain.
THEOREM WakeupsKept == Spec => []NoLostWakeup
<1>1. Init => WakeInv
  <2> SUFFICES ASSUME Init PROVE WakeInv
    OBVIOUS
  <2>1. \A s \in Semaphore : Woken(s) = {} /\ waiters[s] = <<>>
    BY DEF Init, SchedInit, SynchInit, Woken
  <2> QED BY <2>1, FS_EmptySet DEF WakeInv
<1>2. TypeInv /\ QueueInv /\ WakeInv /\ [Next]_vars => WakeInv'
  <2> SUFFICES ASSUME TypeInv, QueueInv, WakeInv, [Next]_vars PROVE WakeInv'
    OBVIOUS
  <2>1. CASE UNCHANGED vars
    BY <2>1, SameLoops DEF vars, synchVars
  <2> QED BY <2>1, SynchWakes, ConditionWakes, OtherWakes DEF Next
<1>3. WakeInv => NoLostWakeup
  BY DEF WakeInv, NoLostWakeup
<1> QED BY <1>1, <1>2, <1>3, Typing, Queues, PTL DEF Spec

----------------------------------------------------------------------------
(* No early return from timer_sleep.  A thread inside it is on the list of  *)
(* sleepers until the handler finds its stamp due, and the clock does not   *)
(* go back.                                                                 *)

\* What a sleeping thread may rely on.
Sleeper(t) ==
    /\ \E n \in SleepTicks : alarmTimeStamp[t] = start[t] + n
    /\ t \notin OnSleeping => alarmTimeStamp[t] <= ticks

SleepInv == \A t \in Thread : pc[t] = "sleeping" => Sleeper(t)

\* Only the running thread wakes up in timer_sleep, and it returns.
Rested == \A t \in Thread : pc[t] = "sleeping" /\ pc'[t] # "sleeping" => t = running

\* Nobody goes to sleep or comes back, and the clock and the list stay.
LEMMA NobodySleeps ==
    ASSUME TypeInv, QueueInv, SleepInv, UNCHANGED timerVars, NEW t \in Thread, t = running,
           \A u \in Thread \ {t} : pc'[u] = pc[u] \/ (pc[u] = "dead" /\ pc'[u] = "run"),
           pc'[t] # "sleeping"
    PROVE  SleepInv' /\ Rested
<1>1. /\ alarmTimeStamp' = alarmTimeStamp /\ start' = start /\ ticks' = ticks
      /\ sleepingThreadList' = sleepingThreadList
  BY DEF timerVars
<1>2. \A u \in Thread : pc'[u] = "sleeping" => pc[u] = "sleeping"
  OBVIOUS
<1> QED BY <1>1, <1>2 DEF SleepInv, Sleeper, OnSleeping, Rested

\* Synchronisation, creation, yields and exit have nothing to do with sleepers.
LEMMA AwakeSteps ==
    ASSUME TypeInv, QueueInv, SleepInv, SynchStep \/ ConditionStep \/ ThreadStep
    PROVE  SleepInv' /\ Rested
<1>1. UNCHANGED timerVars /\ "sleeping" \notin ReturnLabel /\ ret \in [Thread -> ReturnLabel]
  BY QueueTypes DEF SynchStep, ConditionStep, ThreadStep, ReturnLabel
<1>2. ASSUME NEW t \in Thread, t = running, NEW l, l # "sleeping", Goto(t, l)
      PROVE  SleepInv' /\ Rested
  BY <1>1, <1>2, NobodySleeps, QueueTypes DEF Goto
<1>3. \A t \in Thread : ret[t] # "sleeping"
  BY <1>1
<1>4. CASE SynchStep
  <2>1. ASSUME UNCHANGED pc PROVE SleepInv' /\ Rested
    BY <1>1, <2>1 DEF timerVars, SleepInv, Sleeper, OnSleeping, Rested
  <2>2. ASSUME NEW t \in Thread, NEW s \in Semaphore,
               \/ SemaDownBlocks(t, s) \/ SemaDownTakes(t, s) \/ SemaUpNoWaiter(t, s) \/ SemaUpWakes(t, s)
        PROVE  SleepInv' /\ Rested
    <3>1. PICK l : Goto(t, l) /\ l # "sleeping"
      BY <1>3, <2>2 DEF SemaDownBlocks, SemaDownTakes, SemaUpNoWaiter, SemaUpWakes
    <3>2. t = running
      BY <2>2 DEF SemaDownBlocks, SemaDownTakes, SemaUpNoWaiter, SemaUpWakes, InSemaDown, InSemaUp, At
    <3> QED BY <1>2, <3>1, <3>2
  <2>3. ASSUME NEW t \in Thread, SetHolder(t) PROVE SleepInv' /\ Rested
    BY <1>2, <1>3, <2>3 DEF SetHolder, At
  <2>4. ASSUME NEW t \in Thread, NEW l \in Lock, LockRelease(t, l) PROVE SleepInv' /\ Rested
    BY <1>2, <2>4 DEF LockRelease, At
  <2> QED BY <1>4, <2>1, <2>2, <2>3, <2>4 DEF SynchStep, SemaUpPanics
<1>5. CASE ConditionStep
  BY <1>2, <1>5 DEF ConditionStep, CondDown, CondAcquire, CondWait, CondSignal, CondBroadcast, PopWaiter,
                    BroadcastDone, At
<1>6. CASE ThreadStep
  <2>1. ASSUME NEW t \in Thread, NEW u \in Thread, NEW p \in NewPriorities, CreateInit(t, u, p)
        PROVE  SleepInv' /\ Rested
    <3>1. t = running /\ u # t /\ pc[u] = "dead" /\ pc' = [pc EXCEPT ![t] = "call_down", ![u] = "run"]
      BY <2>1 DEF CreateInit, At, QueueInv, ReadyOK, PlacesOK
    <3> QED BY <1>1, <3>1, NobodySleeps, QueueTypes
  <2>2. ASSUME NEW t \in Thread,
               TidRead(t) \/ TidWrite(t) \/ CreateUnblock(t) \/ ThreadYield(t) \/ ThreadExit(t)
        PROVE  SleepInv' /\ Rested
    BY <1>2, <1>3, <2>2 DEF TidRead, TidWrite, CreateUnblock, ThreadYield, ThreadExit, At
  <2>3. ASSUME NEW t \in Thread, NEW p \in NewPriorities, ThreadSetPriority(t, p)
        PROVE  SleepInv' /\ Rested
    BY <1>2, <2>3 DEF ThreadSetPriority, At
  <2>4. ASSUME IdleBlock PROVE SleepInv' /\ Rested
    BY <1>2, <2>4, SchedulerAssumption DEF IdleBlock, At
  <2> QED BY <1>6, <2>1, <2>2, <2>3, <2>4 DEF ThreadStep
<1> QED BY <1>4, <1>5, <1>6

\* timer_sleep and the handler.
LEMMA TimerSteps ==
    ASSUME TypeInv, QueueInv, SleepInv, SleepStep \/ InterruptStep
    PROVE  SleepInv' /\ Rested
<1>1. /\ pc \in [Thread -> Label] /\ sleepingThreadList \in Seq(Thread) /\ ticks \in 0..MaxTicks
      /\ alarmTimeStamp \in [Thread -> Int] /\ start \in [Thread -> 0..MaxTicks] /\ MaxTicks \in Nat
      /\ running \in Thread /\ IsInjective(sleepingThreadList)
      /\ in_external_intr => iter \in 1..(Len(sleepingThreadList) + 1)
      /\ \A t \in OnSleeping : status[t] = "BLOCKED"
      /\ \A t \in Thread : status[t] = "RUNNING" <=> t = running
  BY TimerAssumption, QueueTypes
     DEF TypeInv, TypeOK, SchedTypeOK, TimerTypeOK, QueueInv, SleepingOK, ReadyOK
<1>2. ASSUME NEW t \in Thread, SleepReadClock(t) PROVE SleepInv' /\ Rested
  <2>1. \A u \in Thread : pc'[u] = "sleeping" => pc[u] = "sleeping" /\ start'[u] = start[u]
    BY <1>1, <1>2 DEF SleepReadClock, At, Goto
  <2>2. Rested
    BY <1>1, <1>2 DEF SleepReadClock, At, Goto, Rested
  <2> QED BY <1>2, <2>1, <2>2 DEF SleepReadClock, SleepInv, Sleeper, OnSleeping
<1>3. ASSUME NEW t \in Thread, NEW n \in SleepTicks, SleepBlock(t, n) PROVE SleepInv' /\ Rested
  <2>1. /\ pc'[t] = "sleeping" /\ alarmTimeStamp'[t] = start[t] + n /\ start' = start /\ ticks' = ticks
        /\ \A u \in Thread \ {t} : pc'[u] = pc[u] /\ alarmTimeStamp'[u] = alarmTimeStamp[u]
    BY <1>1, <1>3 DEF SleepBlock, Goto
  <2>2. OnSleeping' = OnSleeping \cup {t}
    BY <1>1, <1>3, AppendSet DEF SleepBlock, OnSleeping
  <2> QED BY <2>1, <2>2 DEF SleepInv, Sleeper, Rested
<1>4. ASSUME NEW t \in Thread, SleepReturn(t) PROVE SleepInv' /\ Rested
  <2>1. \A u \in Thread : pc'[u] = "sleeping" => pc[u] = "sleeping" /\ start'[u] = start[u]
    BY <1>1, <1>4 DEF SleepReturn, At, Goto
  <2>2. Rested
    BY <1>1, <1>4 DEF SleepReturn, At, Goto, Rested
  <2> QED BY <1>4, <2>1, <2>2 DEF SleepReturn, SleepInv, Sleeper, OnSleeping
<1>5. ASSUME UNCHANGED <<pc, sleepingThreadList, alarmTimeStamp, start>>, ticks <= ticks', ticks' \in Int
      PROVE  SleepInv' /\ Rested
  <2>1. ASSUME NEW t \in Thread, alarmTimeStamp[t] <= ticks PROVE alarmTimeStamp[t] <= ticks'
    <3>1. alarmTimeStamp[t] \in Int /\ ticks \in Int
      BY <1>1
    <3> QED BY <1>5, <2>1, <3>1
  <2> QED BY <1>5, <2>1 DEF SleepInv, Sleeper, OnSleeping, Rested
<1>6. CASE TimerInterrupt
  <2>1. ticks <= ticks' /\ ticks' \in Int
    BY <1>1, <1>6 DEF TimerInterrupt
  <2> QED BY <1>5, <1>6, <2>1 DEF TimerInterrupt
<1>7. CASE TimerSkips
  BY <1>1, <1>5, <1>7 DEF TimerSkips
<1>8. CASE TimerWakes
  <2>1. iter \in 1..Len(sleepingThreadList)
    BY <1>1, <1>8 DEF TimerWakes
  <2>2. PICK w \in Thread : w = sleepingThreadList[iter]
    BY <1>1, <2>1
  <2>3. OnSleeping' = OnSleeping \ {w} /\ alarmTimeStamp[w] <= ticks
    BY <1>1, <1>8, <2>1, <2>2, RemoveAtSet DEF TimerWakes, OnSleeping, Due
  <2>4. UNCHANGED <<pc, alarmTimeStamp, start, ticks>>
    BY <1>8 DEF TimerWakes
  <2> QED BY <2>3, <2>4 DEF SleepInv, Sleeper, Rested
<1>9. CASE TimerReturns
  <2>1. /\ \A u \in Thread : pc'[u] = "sleeping" <=> pc[u] = "sleeping"
        /\ UNCHANGED <<ticks, sleepingThreadList, alarmTimeStamp, start>>
    BY <1>1, <1>9 DEF TimerReturns, Goto
  <2> QED BY <2>1 DEF SleepInv, Sleeper, OnSleeping, Rested
<1> QED BY <1>2, <1>3, <1>4, <1>6, <1>7, <1>8, <1>9 DEF SleepStep, InterruptStep

\* A thread that returns from timer_sleep has slept its ticks, whatever the clock
\* did between its reading of the clock and its going on the list.
THEOREM NoEarlyReturn == Spec => SleepsLongEnough
<1> DEFINE Slept == \A t \in Thread : pc[t] = "sleeping" /\ pc'[t] = "run" =>
                      \E n \in SleepTicks : alarmTimeStamp[t] = start[t] + n /\ ticks >= start[t] + n
<1>1. Init => SleepInv
  BY DEF Init, SchedInit, SleepInv
<1>2. TypeInv /\ QueueInv /\ SleepInv /\ [Next]_vars => SleepInv' /\ Rested
  <2> SUFFICES ASSUME TypeInv, QueueInv, SleepInv, [Next]_vars PROVE SleepInv' /\ Rested
    OBVIOUS
  <2>1. CASE UNCHANGED vars
    BY <2>1 DEF vars, timerVars, SleepInv, Sleeper, OnSleeping, Rested
  <2> QED BY <2>1, AwakeSteps, TimerSteps DEF Next
<1>3. TypeInv /\ QueueInv /\ SleepInv /\ Rested => Slept
  <2> SUFFICES ASSUME TypeInv, QueueInv, SleepInv, Rested, NEW t \in Thread, pc[t] = "sleeping", pc'[t] = "run"
               PROVE  \E n \in SleepTicks : alarmTimeStamp[t] = start[t] + n /\ ticks >= start[t] + n
    OBVIOUS
  <2>1. t \notin OnSleeping
    BY DEF Rested, QueueInv, ReadyOK, SleepingOK
  <2>2. Sleeper(t) /\ alarmTimeStamp[t] \in Int /\ ticks \in Int
    BY DEF SleepInv, TypeInv, TypeOK, TimerTypeOK
  <2> QED BY <2>1, <2>2 DEF Sleeper
<1>4. TypeInv /\ QueueInv /\ SleepInv /\ [Next]_vars => [Slept]_vars
  BY <1>2, <1>3
<1>5. SleepsLongEnough <=> [][Slept]_vars
  BY DEF SleepsLongEnough
<1> QED BY <1>1, <1>2, <1>4, <1>5, Typing, Queues, PTL DEF Spec
============================================================================
