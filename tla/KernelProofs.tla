---------------------------- MODULE KernelProofs ----------------------------
(***************************************************************************)
(* Proofs about Kernel, for every number of threads, semaphores, locks and *)
(* condition variables and every value of the bounds: types, and where     *)
(* every thread is.  The run queue holds the ready threads and the wait    *)
(* lists hold blocked ones, so the one list element of struct thread is    *)
(* never on two lists; and every blocked thread is somewhere it can be     *)
(* found.  The second invariant speaks of ret and child too, because       *)
(* thread_create holds a blocked thread that is on no list over several    *)
(* steps in which its creator may itself block.                            *)
(***************************************************************************)
EXTENDS Kernel, ListLemmas

----------------------------------------------------------------------------
(* The list operators of Scheduler and Synch.                              *)

\* list_insert_ordered inserts at some place of the list.
LEMMA InsertOrderedPlace ==
    ASSUME NEW list \in Seq(Thread), NEW t \in Thread
    PROVE  /\ IsFiniteSet(AheadOf(t, list))
           /\ Cardinality(AheadOf(t, list)) \in 0..Len(list)
<1>1. IsFiniteSet(1..Len(list)) /\ Cardinality(1..Len(list)) = Len(list)
  <2>1. Len(list) \in Nat
    OBVIOUS
  <2> QED BY <2>1, FS_Interval
<1>2. AheadOf(t, list) \in SUBSET (1..Len(list))
  BY DEF AheadOf
<1>3. IsFiniteSet(AheadOf(t, list)) /\ Cardinality(AheadOf(t, list)) <= Len(list)
  BY <1>1, <1>2, FS_Subset
<1>4. Cardinality(AheadOf(t, list)) \in Nat
  BY <1>3, FS_CardinalityType
<1> QED BY <1>3, <1>4

\* Inserting in priority order adds the thread and keeps the others.
LEMMA InsertOrderedSet ==
    ASSUME NEW list \in Seq(Thread), NEW t \in Thread
    PROVE  /\ InsertOrdered(list, t) \in Seq(Thread)
           /\ ToSet(InsertOrdered(list, t)) = ToSet(list) \cup {t}
           /\ IsInjective(list) /\ t \notin ToSet(list) => IsInjective(InsertOrdered(list, t))
<1>1. Cardinality(AheadOf(t, list)) + 1 \in 1..(Len(list) + 1)
  BY InsertOrderedPlace
<1> QED BY <1>1, InsertAtFacts, InsertAtSet DEF InsertOrdered

\* sema_up's scan ends at the first of the waiters of highest priority, or at the
\* tail if the semaphore's value exceeds the priority of all of them.
LEMMA ScanEnds ==
    ASSUME NEW s \in Semaphore, value[s] \in Nat, waiters[s] \in Seq(Thread),
           priority \in [Thread -> Priority]
    PROVE  LET w == waiters[s]
               k == IterMax(s)
           IN  /\ ~ScanPassesTail(s) =>
                    /\ k \in 1..Len(w)
                    /\ \A j \in 1..Len(w) : priority[w[j]] <= priority[w[k]]
                    /\ \A j \in 1..(k - 1) : priority[w[j]] < priority[w[k]]
               /\ ScanPassesTail(s) =>
                    \A j \in 1..Len(w) : priority[w[j]] < value[s]
<1> DEFINE w == waiters[s]
           n == Len(w) + 1
           v == Scanned(s)
           k == IterMax(s)
<1>1. n \in Nat \ {0} /\ Len(w) \in Nat /\ n = Len(w) + 1
  OBVIOUS
<1>2. /\ \A i \in 1..Len(w) : v[i] = priority[w[i]] /\ v[i] \in Int
      /\ v[n] = value[s] /\ v[n] \in Int
  <2>1. \A i \in 1..Len(w) : w[i] \in Thread
    OBVIOUS
  <2>2. Priority \subseteq Int /\ \A t \in Thread : priority[t] \in Priority
    BY DEF Priority, PRI_MIN, PRI_MAX
  <2>3. \A i \in 1..Len(w) : priority[w[i]] \in Int
    BY <2>1, <2>2
  <2> QED BY <1>1, <2>1, <2>3 DEF Scanned
<1>3. \A i \in 1..n : i \in 1..Len(w) \/ i = n
  BY <1>1
<1>4. v \in [1..n -> Int]
  <2>1. v = [i \in 1..n |-> v[i]]
    BY DEF Scanned
  <2> HIDE DEF v, n
  <2> QED BY <1>2, <1>3, <2>1
<1>5. /\ k \in 1..n
      /\ \A j \in 1..n : v[j] <= v[k]
      /\ \A j \in 1..(k - 1) : v[j] < v[k]
  <2> DEFINE f[i \in 1..n] == IF i = 1 THEN 1
                              ELSE IF v[f[i - 1]] < v[i] THEN i ELSE f[i - 1]
  <2>1. k = f[n]
    BY DEF IterMax
  <2>2. PICK g \in [1..n -> Nat] : \A i \in 1..n :
            g[i] = IF i = 1 THEN 1 ELSE IF v[g[i - 1]] < v[i] THEN i ELSE g[i - 1]
    <3> HIDE DEF n, v
    <3> QED BY <1>1, <1>4, RunningGreatestExists
  <2>3. g = [i \in 1..n |-> IF i = 1 THEN 1
                            ELSE IF v[g[i - 1]] < v[i] THEN i ELSE g[i - 1]]
    <3> HIDE DEF n, v
    <3> QED BY <2>2
  <2>4. f = [i \in 1..n |-> IF i = 1 THEN 1
                            ELSE IF v[f[i - 1]] < v[i] THEN i ELSE f[i - 1]]
    <3> HIDE DEF n, v
    <3> QED BY <2>3
  <2> HIDE DEF f, n, v, k
  <2>5. \A i \in 1..n :
            f[i] = IF i = 1 THEN 1 ELSE IF v[f[i - 1]] < v[i] THEN i ELSE f[i - 1]
    BY <2>4
  <2>6. \A i \in 1..n : v[i] \in Int
    BY <1>4
  <2> QED BY <1>1, <2>1, <2>5, <2>6, RunningGreatest
<1>6. ScanPassesTail(s) <=> k = n
  BY DEF ScanPassesTail
<1> HIDE DEF v, k, n
<1>7. \A j \in 1..(k - 1) : j \in 1..Len(w)
  BY <1>1, <1>5
<1>8. CASE k = n
  <2>1. \A j \in 1..Len(w) : j \in 1..(k - 1)
    BY <1>1, <1>8
  <2> QED BY <1>2, <1>5, <1>6, <1>8, <2>1
<1>9. CASE k # n
  <2>1. k \in 1..Len(w)
    BY <1>3, <1>5, <1>9
  <2>2. \A j \in 1..Len(w) : j \in 1..n
    BY <1>1
  <2> QED BY <1>2, <1>5, <1>6, <1>7, <1>9, <2>1, <2>2 DEF k
<1> QED BY <1>8, <1>9

----------------------------------------------------------------------------
(* Types.  TypeOK is not inductive: some labels promise that an argument   *)
(* is there, and ret is a label that a call can return to.                 *)

\* What the operations of Scheduler change, typed.
CPUTypeOK ==
    /\ status \in [Thread -> Status]
    /\ priority \in [Thread -> Priority]
    /\ ready_list \in Seq(Thread)
    /\ running \in Thread
    /\ thread_ticks \in 0..(TIME_SLICE - 1)

ReturnLabel == {"run", "tid_read", "create_unblock", "cond_down", "cond_acquire", "cond_broadcast"}

MakesChild(t) ==
    \/ pc[t] \in {"tid_read", "tid_write", "create_unblock"}
    \/ ret[t] \in {"tid_read", "create_unblock"}

ArgsOK ==
    /\ ret \in [Thread -> ReturnLabel]
    /\ \A t \in Thread : pc[t] = "set_holder" => obj[t] \in Lock
    /\ \A t \in Thread : MakesChild(t) => child[t] \in Thread

TypeInv == TypeOK /\ ArgsOK

\* schedule() keeps the types of what it changes.
LEMMA ScheduleType ==
    ASSUME NEW list \in Seq(Thread), NEW st \in [Thread -> Status], Schedule(list, st),
           CPUTypeOK, UNCHANGED priority
    PROVE  CPUTypeOK'
<1>1. running' \in Thread /\ ready_list' \in Seq(Thread)
  <2>1. CASE list = <<>>
    BY <2>1, SchedulerAssumption DEF Schedule
  <2>2. CASE list # <<>>
    <3>1. Head(list) \in Thread /\ Tail(list) \in Seq(Thread)
      BY <2>2, HeadTailProperties
    <3> QED BY <3>1, <2>2 DEF Schedule
  <2> QED BY <2>1, <2>2
<1>2. status' \in [Thread -> Status]
  BY DEF Schedule, Status
<1>3. thread_ticks' \in 0..(TIME_SLICE - 1)
  BY SchedulerAssumption DEF Schedule
<1> QED BY <1>1, <1>2, <1>3 DEF CPUTypeOK

\* The operations of Scheduler keep their types.
LEMMA OperationTypes ==
    ASSUME CPUTypeOK, NEW t \in Thread
    PROVE  /\ YieldCPU(t) => CPUTypeOK'
           /\ BlockCPU(t) => CPUTypeOK'
           /\ ExitCPU(t) => CPUTypeOK'
           /\ Unblock(t) => CPUTypeOK'
           /\ \A p \in Priority : InitThread(t, p) => CPUTypeOK'
           /\ UNCHANGED schedVars => CPUTypeOK'
<1>1. /\ ready_list \in Seq(Thread)
      /\ InsertOrdered(ready_list, t) \in Seq(Thread)
      /\ \A v \in Status : [status EXCEPT ![t] = v] \in [Thread -> Status]
  BY InsertOrderedSet DEF CPUTypeOK
<1>2. {"NONE", "READY", "BLOCKED", "DYING"} \subseteq Status
  BY DEF Status
<1>3. ASSUME YieldCPU(t) PROVE CPUTypeOK'
  BY <1>1, <1>2, <1>3, ScheduleType DEF YieldCPU
<1>4. ASSUME BlockCPU(t) PROVE CPUTypeOK'
  BY <1>1, <1>2, <1>4, ScheduleType DEF BlockCPU
<1>5. ASSUME ExitCPU(t) PROVE CPUTypeOK'
  BY <1>1, <1>2, <1>5, ScheduleType DEF ExitCPU
<1>6. ASSUME Unblock(t) PROVE CPUTypeOK'
  BY <1>1, <1>2, <1>6 DEF Unblock, CPUTypeOK
<1>7. ASSUME NEW p \in Priority, InitThread(t, p) PROVE CPUTypeOK'
  BY <1>1, <1>2, <1>7 DEF InitThread, CPUTypeOK
<1>8. ASSUME UNCHANGED schedVars PROVE CPUTypeOK'
  BY <1>8 DEF schedVars, CPUTypeOK
<1> QED BY <1>3, <1>4, <1>5, <1>6, <1>7, <1>8

\* What ties the parts of TypeInv to each group of steps.
FlagsTypeOK == in_external_intr \in BOOLEAN /\ panicked \in BOOLEAN
ControlTypeOK == pc \in [Thread -> Label] /\ ArgsOK
CreateTypeOK == tid \in [Thread -> Nat] /\ next_tid \in Nat /\ child \in [Thread -> Thread \cup {NULL}]

\* The parts of the typing invariant, to cite them one by one.
LEMMA TypeInvParts ==
    /\ TypeInv <=> /\ CPUTypeOK /\ FlagsTypeOK /\ ControlTypeOK
                   /\ SynchTypeOK /\ CondTypeOK /\ TimerTypeOK /\ CreateTypeOK
    /\ TypeInv' <=> /\ CPUTypeOK' /\ FlagsTypeOK' /\ ControlTypeOK'
                    /\ SynchTypeOK' /\ CondTypeOK' /\ TimerTypeOK' /\ CreateTypeOK'
<1>1. ReturnLabel \subseteq Label
  BY DEF ReturnLabel, Label
<1>2. /\ ret \in [Thread -> ReturnLabel] => ret \in [Thread -> Label]
      /\ ret' \in [Thread -> ReturnLabel] => ret' \in [Thread -> Label]
  BY <1>1
<1> QED BY <1>2 DEF TypeInv, TypeOK, SchedTypeOK, CPUTypeOK, FlagsTypeOK, ControlTypeOK, CreateTypeOK, ArgsOK

\* A thread that goes to label l, or to ret[t], keeps the promises of the labels.
LEMMA GotoKeepsArgs ==
    ASSUME ControlTypeOK, NEW t \in Thread, NEW l \in Label, Goto(t, l), UNCHANGED <<ret, child>>,
           \A u \in Thread \ {t} : obj'[u] = obj[u],
           l = "set_holder" => obj'[t] \in Lock,
           l \in {"tid_read", "tid_write", "create_unblock"} => MakesChild(t)
    PROVE  ControlTypeOK'
<1>1. pc' \in [Thread -> Label] /\ ret' \in [Thread -> ReturnLabel]
  BY DEF ControlTypeOK, ArgsOK, Goto
<1>2. pc'[t] = l /\ \A u \in Thread \ {t} : pc'[u] = pc[u]
  BY DEF ControlTypeOK, Goto
<1>3. \A u \in Thread : pc'[u] = "set_holder" => obj'[u] \in Lock
  BY <1>2 DEF ControlTypeOK, ArgsOK
<1>4. ASSUME NEW u \in Thread, MakesChild(u)' PROVE child'[u] \in Thread
  <2>1. MakesChild(u)
    BY <1>2, <1>4 DEF MakesChild
  <2> QED BY <2>1 DEF ControlTypeOK, ArgsOK
<1> QED BY <1>1, <1>3, <1>4 DEF ControlTypeOK, ArgsOK

\* The same for a thread that enters or leaves a call that returns by ret.
LEMMA CallKeepsArgs ==
    ASSUME ControlTypeOK, NEW t \in Thread, NEW l \in Label \ {"set_holder"}, NEW r \in ReturnLabel,
           Goto(t, l), ret' = [ret EXCEPT ![t] = r],
           \A u \in Thread \ {t} : obj'[u] = obj[u] /\ child'[u] = child[u],
           \/ l \notin {"tid_read", "tid_write", "create_unblock"} /\ r \notin {"tid_read", "create_unblock"}
           \/ child'[t] \in Thread
    PROVE  ControlTypeOK'
<1>1. pc' \in [Thread -> Label] /\ ret' \in [Thread -> ReturnLabel]
  BY DEF ControlTypeOK, ArgsOK, Goto
<1>2. /\ pc'[t] = l /\ ret'[t] = r
      /\ \A u \in Thread \ {t} : pc'[u] = pc[u] /\ ret'[u] = ret[u]
  BY DEF ControlTypeOK, ArgsOK, Goto
<1>3. \A u \in Thread : pc'[u] = "set_holder" => obj'[u] \in Lock
  BY <1>2 DEF ControlTypeOK, ArgsOK
<1>4. ASSUME NEW u \in Thread, MakesChild(u)' PROVE child'[u] \in Thread
  <2>1. CASE u = t
    BY <1>2, <1>4, <2>1 DEF MakesChild
  <2>2. CASE u # t
    BY <1>2, <1>4, <2>2 DEF MakesChild, ControlTypeOK, ArgsOK
  <2> QED BY <2>1, <2>2
<1> QED BY <1>1, <1>3, <1>4 DEF ControlTypeOK, ArgsOK

\* Semaphores and locks.
LEMMA SynchTyping ==
    ASSUME TypeInv, SynchStep
    PROVE  TypeInv'
<1> DEFINE Goal == CPUTypeOK' /\ panicked' \in BOOLEAN /\ ControlTypeOK' /\ SynchTypeOK'
<1>1. /\ CPUTypeOK /\ panicked \in BOOLEAN /\ ControlTypeOK /\ SynchTypeOK
      /\ \A t \in Thread : /\ ret[t] \in Label /\ ret[t] \notin {"set_holder", "tid_write"}
                           /\ ret[t] \in {"tid_read", "create_unblock"} => MakesChild(t)
      /\ {"sema_down", "set_holder", "yield", "sema_up"} \subseteq Label /\ Lock \subseteq Semaphore
  BY TypeInvParts, SynchAssumption DEF ReturnLabel, Label, FlagsTypeOK, Semaphore, ControlTypeOK, ArgsOK, MakesChild
<1>2. UNCHANGED <<in_external_intr, condVars, timerVars, createVars>> /\ child' = child
  BY DEF SynchStep, createVars
<1>3. SUFFICES Goal
  BY <1>2, TypeInvParts DEF condVars, timerVars, createVars, FlagsTypeOK, CondTypeOK, TimerTypeOK, CreateTypeOK
<1>4. ASSUME NEW t \in Thread, NEW s \in Semaphore, SemaDownBlocks(t, s)
      PROVE  Goal
  <2>1. CPUTypeOK' /\ panicked' \in BOOLEAN
    BY <1>1, <1>4, OperationTypes DEF SemaDownBlocks
  <2>2. ControlTypeOK'
    BY <1>1, <1>2, <1>4, GotoKeepsArgs DEF SemaDownBlocks, SynchTypeOK
  <2>3. SynchTypeOK'
    BY <1>1, <1>4 DEF SemaDownBlocks, SynchTypeOK
  <2> QED BY <2>1, <2>2, <2>3
<1>5. ASSUME NEW t \in Thread, NEW s \in Semaphore, SemaDownTakes(t, s)
      PROVE  Goal
  <2>1. CPUTypeOK' /\ panicked' \in BOOLEAN
    BY <1>1, <1>5, OperationTypes DEF SemaDownTakes
  <2>2. ControlTypeOK'
    BY <1>1, <1>2, <1>5, GotoKeepsArgs DEF SemaDownTakes, SynchTypeOK
  <2>3. SynchTypeOK'
    BY <1>1, <1>5 DEF SemaDownTakes, SynchTypeOK
  <2> QED BY <2>1, <2>2, <2>3
<1>6. ASSUME NEW t \in Thread, NEW s \in Semaphore, SemaUpNoWaiter(t, s)
      PROVE  Goal
  <2>1. CPUTypeOK' /\ panicked' \in BOOLEAN
    BY <1>1, <1>6, OperationTypes DEF SemaUpNoWaiter
  <2>2. ControlTypeOK'
    BY <1>1, <1>2, <1>6, GotoKeepsArgs DEF SemaUpNoWaiter, SynchTypeOK
  <2>3. SynchTypeOK'
    BY <1>1, <1>6 DEF SemaUpNoWaiter, SynchTypeOK
  <2> QED BY <2>1, <2>2, <2>3
<1>7. ASSUME NEW t \in Thread, NEW s \in Semaphore, SemaUpWakes(t, s)
      PROVE  Goal
  <2> DEFINE k == IterMax(s)
  <2>0. waiters[s] \in Seq(Thread) /\ waiters[s] # <<>> /\ k \in 1..Len(waiters[s])
    BY <1>1, <1>7, ScanEnds DEF SemaUpWakes, SynchTypeOK, CPUTypeOK
  <2>1. CPUTypeOK' /\ panicked' \in BOOLEAN
    <3>1. waiters[s][k] \in Thread
      BY <2>0
    <3> QED BY <1>1, <1>7, <3>1, OperationTypes DEF SemaUpWakes
  <2>2. ControlTypeOK'
    BY <1>1, <1>2, <1>7, GotoKeepsArgs DEF SemaUpWakes, SynchTypeOK
  <2>3. SynchTypeOK'
    <3>1. RemoveAt(waiters[s], k) \in Seq(Thread)
      BY <2>0, RemoveAtFacts
    <3> QED BY <1>1, <1>7, <3>1 DEF SemaUpWakes, SynchTypeOK
  <2> QED BY <2>1, <2>2, <2>3
<1>8. ASSUME NEW t \in Thread, NEW s \in Semaphore, SemaUpPanics(t, s)
      PROVE  Goal
  BY <1>1, <1>2, <1>8 DEF SemaUpPanics, schedVars, synchVars, CPUTypeOK, ControlTypeOK, ArgsOK, MakesChild, SynchTypeOK
<1>9. ASSUME NEW t \in Thread, NEW l \in Lock, LockRelease(t, l)
      PROVE  Goal
  <2>1. CPUTypeOK' /\ panicked' \in BOOLEAN
    BY <1>1, <1>9, OperationTypes DEF LockRelease
  <2>2. ControlTypeOK'
    BY <1>1, <1>2, <1>9, GotoKeepsArgs DEF LockRelease, SynchTypeOK
  <2>3. SynchTypeOK'
    BY <1>1, <1>9 DEF LockRelease, SynchTypeOK
  <2> QED BY <2>1, <2>2, <2>3
<1>10. ASSUME NEW t \in Thread, SetHolder(t)
       PROVE  Goal
  <2>1. CPUTypeOK' /\ panicked' \in BOOLEAN
    BY <1>1, <1>10, OperationTypes DEF SetHolder
  <2>2. ControlTypeOK'
    BY <1>1, <1>2, <1>10, GotoKeepsArgs DEF SetHolder, SynchTypeOK
  <2>3. SynchTypeOK'
    <3>1. obj[t] \in Lock
      BY <1>1, <1>10 DEF SetHolder, At, ControlTypeOK, ArgsOK
    <3> QED BY <1>1, <1>10, <3>1 DEF SetHolder, SynchTypeOK
  <2> QED BY <2>1, <2>2, <2>3
<1> HIDE DEF Goal
<1> QED BY <1>4, <1>5, <1>6, <1>7, <1>8, <1>9, <1>10 DEF SynchStep

\* Condition variables.
LEMMA ConditionTyping ==
    ASSUME TypeInv, ConditionStep
    PROVE  TypeInv'
<1> DEFINE Goal == CPUTypeOK' /\ ControlTypeOK' /\ SynchTypeOK' /\ CondTypeOK'
<1>1. /\ CPUTypeOK /\ ControlTypeOK /\ SynchTypeOK /\ CondTypeOK
      /\ Lock \subseteq Semaphore /\ Cond \subseteq Lock /\ Thread \subseteq Semaphore
      /\ \A t \in Thread : /\ ret[t] \in ReturnLabel
                           /\ ret[t] \in {"tid_read", "create_unblock"} => MakesChild(t)
      /\ {"sema_up", "call_release", "call_down", "run"} \subseteq Label
      /\ {"run", "cond_down", "cond_acquire", "cond_broadcast"} \subseteq ReturnLabel
  BY TypeInvParts, SynchAssumption, ConditionAssumption
     DEF Label, ReturnLabel, Semaphore, ControlTypeOK, ArgsOK, MakesChild
<1>2. UNCHANGED <<in_external_intr, panicked, timerVars, createVars>> /\ child' = child
  BY DEF ConditionStep, createVars, flags
<1>3. SUFFICES Goal
  BY <1>2, TypeInvParts DEF timerVars, createVars, FlagsTypeOK, TimerTypeOK, CreateTypeOK
<1>4. ASSUME NEW t \in Thread, CondDown(t)
      PROVE  Goal
  <2>1. CPUTypeOK'
    BY <1>1, <1>4, OperationTypes DEF CondDown
  <2>2. ControlTypeOK'
    BY <1>1, <1>2, <1>4, CallKeepsArgs DEF CondDown, SynchTypeOK
  <2>3. SynchTypeOK' /\ CondTypeOK'
    BY <1>1, <1>4 DEF CondDown, SynchTypeOK, CondTypeOK, condVars
  <2> QED BY <2>1, <2>2, <2>3
<1>5. ASSUME NEW t \in Thread, CondAcquire(t)
      PROVE  Goal
  <2>1. CPUTypeOK'
    BY <1>1, <1>5, OperationTypes DEF CondAcquire
  <2>2. ControlTypeOK'
    BY <1>1, <1>2, <1>5, CallKeepsArgs DEF CondAcquire, SynchTypeOK
  <2>3. SynchTypeOK' /\ CondTypeOK'
    BY <1>1, <1>5 DEF CondAcquire, SynchTypeOK, CondTypeOK
  <2> QED BY <2>1, <2>2, <2>3
<1>6. ASSUME NEW t \in Thread, NEW l \in Cond, CondWait(t, l)
      PROVE  Goal
  <2>1. CPUTypeOK'
    BY <1>1, <1>6, OperationTypes DEF CondWait
  <2>2. ControlTypeOK'
    BY <1>1, <1>2, <1>6, CallKeepsArgs DEF CondWait, SynchTypeOK
  <2>3. SynchTypeOK' /\ CondTypeOK'
    BY <1>1, <1>6 DEF CondWait, SynchTypeOK, CondTypeOK
  <2> QED BY <2>1, <2>2, <2>3
<1>7. ASSUME NEW t \in Thread, NEW l \in Cond, PopWaiter(t, l)
      PROVE  CPUTypeOK' /\ SynchTypeOK' /\ (condWaiters \in [Cond -> Seq(Thread)])'
  <2>1. Head(condWaiters[l]) \in Thread /\ Tail(condWaiters[l]) \in Seq(Thread)
    BY <1>1, <1>7, HeadTailProperties DEF PopWaiter, CondTypeOK
  <2> QED BY <1>1, <1>7, <2>1, OperationTypes DEF PopWaiter, SynchTypeOK, CondTypeOK
<1>8. ASSUME NEW t \in Thread, NEW l \in Cond, CondSignal(t, l)
      PROVE  Goal
  <2>1. ControlTypeOK'
    BY <1>1, <1>2, <1>8, GotoKeepsArgs DEF CondSignal, PopWaiter, SynchTypeOK
  <2>2. monitor' \in [Thread -> Cond \cup {NULL}]
    BY <1>1, <1>8 DEF CondSignal, CondTypeOK
  <2> QED BY <1>7, <1>8, <2>1, <2>2 DEF CondSignal, CondTypeOK
<1>9. ASSUME NEW t \in Thread, NEW l \in Cond, CondBroadcast(t, l)
      PROVE  Goal
  <2>1. ControlTypeOK'
    BY <1>1, <1>2, <1>9, CallKeepsArgs DEF CondBroadcast, PopWaiter, SynchTypeOK
  <2>2. monitor' \in [Thread -> Cond \cup {NULL}]
    BY <1>1, <1>9 DEF CondBroadcast, CondTypeOK
  <2> QED BY <1>7, <1>9, <2>1, <2>2 DEF CondBroadcast, CondTypeOK
<1>10. ASSUME NEW t \in Thread, BroadcastDone(t)
       PROVE  Goal
  <2>1. CPUTypeOK'
    BY <1>1, <1>10, OperationTypes DEF BroadcastDone
  <2>2. ControlTypeOK'
    BY <1>1, <1>2, <1>10, CallKeepsArgs DEF BroadcastDone, synchVars
  <2>3. SynchTypeOK' /\ CondTypeOK'
    BY <1>1, <1>10 DEF BroadcastDone, SynchTypeOK, CondTypeOK, synchVars
  <2> QED BY <2>1, <2>2, <2>3
<1> HIDE DEF Goal
<1> QED BY <1>4, <1>5, <1>6, <1>8, <1>9, <1>10 DEF ConditionStep

\* timer_sleep.
LEMMA SleepTyping ==
    ASSUME TypeInv, SleepStep
    PROVE  TypeInv'
<1> DEFINE Goal == CPUTypeOK' /\ ControlTypeOK' /\ TimerTypeOK'
<1>1. /\ CPUTypeOK /\ ControlTypeOK /\ TimerTypeOK
      /\ {"sleep_push", "sleeping", "run"} \subseteq Label
      /\ SleepTicks \subseteq Int
  BY TypeInvParts, TimerAssumption DEF Label
<1>2. UNCHANGED <<in_external_intr, panicked, synchVars, condVars, createVars>> /\ child' = child /\ obj' = obj
  BY DEF SleepStep, createVars, synchVars, flags
<1>3. SUFFICES Goal
  BY <1>2, TypeInvParts DEF synchVars, condVars, createVars, FlagsTypeOK, SynchTypeOK, CondTypeOK, CreateTypeOK
<1>4. ASSUME NEW t \in Thread, SleepReadClock(t)
      PROVE  Goal
  <2>1. CPUTypeOK'
    BY <1>1, <1>4, OperationTypes DEF SleepReadClock
  <2>2. ControlTypeOK'
    BY <1>1, <1>2, <1>4, GotoKeepsArgs DEF SleepReadClock
  <2>3. TimerTypeOK'
    BY <1>1, <1>2, <1>4 DEF SleepReadClock, TimerTypeOK
  <2> QED BY <2>1, <2>2, <2>3
<1>5. ASSUME NEW t \in Thread, NEW n \in SleepTicks, SleepBlock(t, n)
      PROVE  Goal
  <2>1. CPUTypeOK'
    BY <1>1, <1>5, OperationTypes DEF SleepBlock
  <2>2. ControlTypeOK'
    BY <1>1, <1>2, <1>5, GotoKeepsArgs DEF SleepBlock
  <2>3. TimerTypeOK'
    <3>1. ~in_external_intr /\ ~in_external_intr'
      BY <1>2, <1>5 DEF SleepBlock, At
    <3>2. start[t] + n \in Int
      BY <1>1 DEF TimerTypeOK
    <3>3. sleepingThreadList' \in Seq(Thread)
      BY <1>1, <1>5 DEF SleepBlock, TimerTypeOK
    <3> QED BY <1>1, <1>5, <3>1, <3>2, <3>3 DEF SleepBlock, TimerTypeOK
  <2> QED BY <2>1, <2>2, <2>3
<1>6. ASSUME NEW t \in Thread, SleepReturn(t)
      PROVE  Goal
  <2>1. CPUTypeOK'
    BY <1>1, <1>6, OperationTypes DEF SleepReturn
  <2>2. ControlTypeOK'
    BY <1>1, <1>2, <1>6, GotoKeepsArgs DEF SleepReturn
  <2>3. TimerTypeOK'
    BY <1>1, <1>2, <1>6, TimerAssumption DEF SleepReturn, TimerTypeOK
  <2> QED BY <2>1, <2>2, <2>3
<1> HIDE DEF Goal
<1> QED BY <1>4, <1>5, <1>6 DEF SleepStep

\* The timer interrupt.
LEMMA InterruptTyping ==
    ASSUME TypeInv, InterruptStep
    PROVE  TypeInv'
<1> DEFINE Goal == CPUTypeOK' /\ in_external_intr' \in BOOLEAN /\ ControlTypeOK' /\ TimerTypeOK'
<1>1. /\ CPUTypeOK /\ ControlTypeOK /\ TimerTypeOK
      /\ sleepingThreadList \in Seq(Thread) /\ iter \in Nat
      /\ "run" \in Label
  BY TypeInvParts DEF Label, TimerTypeOK
<1>2. UNCHANGED <<panicked, synchVars, condVars, createVars>> /\ child' = child /\ obj' = obj
  BY DEF InterruptStep, createVars, synchVars
<1>3. SUFFICES Goal
  BY <1>2, TypeInvParts DEF synchVars, condVars, createVars, FlagsTypeOK, SynchTypeOK, CondTypeOK, CreateTypeOK
<1>4. ASSUME UNCHANGED <<pc, ret>> PROVE ControlTypeOK'
  BY <1>1, <1>2, <1>4 DEF ControlTypeOK, ArgsOK, MakesChild
<1>5. ASSUME TimerInterrupt
      PROVE  Goal
  <2>1. CPUTypeOK' /\ in_external_intr' \in BOOLEAN /\ ControlTypeOK'
    BY <1>1, <1>4, <1>5, OperationTypes DEF TimerInterrupt, CPUTypeOK
  <2>2. TimerTypeOK'
    BY <1>1, <1>5, TimerAssumption DEF TimerInterrupt, TimerTypeOK
  <2> QED BY <2>1, <2>2
<1>6. ASSUME TimerSkips
      PROVE  Goal
  <2>1. CPUTypeOK' /\ in_external_intr' \in BOOLEAN /\ ControlTypeOK'
    BY <1>1, <1>4, <1>6, OperationTypes DEF TimerSkips, CPUTypeOK
  <2>2. TimerTypeOK'
    BY <1>1, <1>6 DEF TimerSkips, TimerTypeOK
  <2> QED BY <2>1, <2>2
<1>7. ASSUME TimerWakes
      PROVE  Goal
  <2>1. iter \in 1..Len(sleepingThreadList) /\ sleepingThreadList[iter] \in Thread
    BY <1>1, <1>7 DEF TimerWakes, TimerTypeOK
  <2>2. CPUTypeOK' /\ in_external_intr' \in BOOLEAN /\ ControlTypeOK'
    BY <1>1, <1>4, <1>7, <2>1, OperationTypes DEF TimerWakes
  <2>3. sleepingThreadList' \in Seq(Thread) /\ Len(sleepingThreadList') = Len(sleepingThreadList) - 1
    BY <1>1, <1>7, <2>1, RemoveAtFacts DEF TimerWakes
  <2>4. TimerTypeOK'
    BY <1>1, <1>7, <2>1, <2>3 DEF TimerWakes, TimerTypeOK
  <2> QED BY <2>2, <2>4
<1>8. ASSUME TimerReturns
      PROVE  Goal
  <2>1. CPUTypeOK'
    <3>1. CASE SliceOver
      BY <1>1, <1>8, <3>1, OperationTypes DEF TimerReturns, CPUTypeOK
    <3>2. CASE ~SliceOver
      BY <1>1, <1>8, <3>2, SchedulerAssumption DEF TimerReturns, CPUTypeOK, SliceOver
    <3> QED BY <3>1, <3>2
  <2>2. ControlTypeOK'
    <3>1. running \in Thread /\ UNCHANGED <<ret, child, obj>>
      BY <1>1, <1>2, <1>8 DEF CPUTypeOK, TimerReturns
    <3>2. CASE Goto(running, "run")
      BY <1>1, <3>1, <3>2, GotoKeepsArgs
    <3>3. CASE UNCHANGED pc
      BY <3>1, <3>3, <1>4
    <3> QED BY <1>8, <3>2, <3>3 DEF TimerReturns
  <2>3. TimerTypeOK' /\ in_external_intr' \in BOOLEAN
    BY <1>1, <1>8 DEF TimerReturns, TimerTypeOK
  <2> QED BY <2>1, <2>2, <2>3
<1> HIDE DEF Goal
<1> QED BY <1>5, <1>6, <1>7, <1>8 DEF InterruptStep

\* Thread creation, priorities, exit, idle.
LEMMA ThreadTyping ==
    ASSUME TypeInv, ThreadStep
    PROVE  TypeInv'
<1> DEFINE Goal == CPUTypeOK' /\ ControlTypeOK' /\ obj' \in [Thread -> Semaphore \cup {NULL}] /\ CreateTypeOK'
<1>1. /\ CPUTypeOK /\ ControlTypeOK /\ obj \in [Thread -> Semaphore \cup {NULL}] /\ CreateTypeOK
      /\ {"run", "yield", "call_down", "call_release", "tid_write", "dead", "hlt"} \subseteq Label
      /\ {"run", "tid_read", "create_unblock"} \subseteq ReturnLabel
      /\ \A t \in Thread : /\ ret[t] \in Label \ {"set_holder", "tid_write"}
                           /\ ret[t] \in {"tid_read", "create_unblock"} => MakesChild(t)
      /\ \A t \in Thread : MakesChild(t) => child[t] \in Thread
      /\ NewPriorities \subseteq Priority /\ tid_lock \in Semaphore
  BY TypeInvParts, KernelAssumption, SynchAssumption
     DEF Label, ReturnLabel, Semaphore, ControlTypeOK, ArgsOK, MakesChild, SynchTypeOK
<1>2. UNCHANGED <<flags, value, waiters, holder, holding, condVars, timerVars>>
  BY DEF ThreadStep
<1>3. SUFFICES Goal
  BY <1>2, TypeInvParts DEF flags, condVars, timerVars, FlagsTypeOK, SynchTypeOK, CondTypeOK, TimerTypeOK
<1>4. ASSUME NEW t \in Thread, NEW u \in Thread, NEW p \in NewPriorities, CreateInit(t, u, p)
      PROVE  Goal
  <2>1. CPUTypeOK'
    BY <1>1, <1>4, OperationTypes DEF CreateInit
  <2>2. CreateTypeOK' /\ obj' \in [Thread -> Semaphore \cup {NULL}] /\ child'[t] = u
    BY <1>1, <1>4 DEF CreateInit, CreateTypeOK
  <2>3. ControlTypeOK'
    BY <1>1, <1>4, <2>2 DEF CreateInit, ControlTypeOK, ArgsOK, MakesChild, CreateTypeOK
  <2> QED BY <2>1, <2>2, <2>3
<1>5. ASSUME NEW t \in Thread, TidRead(t)
      PROVE  Goal
  <2>1. CPUTypeOK' /\ MakesChild(t)
    BY <1>1, <1>5, OperationTypes DEF TidRead, At, MakesChild
  <2>2. ControlTypeOK'
    BY <1>1, <1>5, <2>1, GotoKeepsArgs DEF TidRead
  <2>3. CreateTypeOK' /\ obj' = obj
    BY <1>1, <1>5 DEF TidRead, CreateTypeOK
  <2> QED BY <1>1, <2>1, <2>2, <2>3
<1>6. ASSUME NEW t \in Thread, TidWrite(t)
      PROVE  Goal
  <2>1. CPUTypeOK' /\ child[t] \in Thread
    BY <1>1, <1>6, OperationTypes DEF TidWrite, At, MakesChild
  <2>2. obj' \in [Thread -> Semaphore \cup {NULL}] /\ \A u \in Thread \ {t} : obj'[u] = obj[u]
    BY <1>1, <1>6 DEF TidWrite
  <2>3. ControlTypeOK'
    BY <1>1, <1>6, <2>1, <2>2, CallKeepsArgs DEF TidWrite
  <2>4. CreateTypeOK'
    BY <1>1, <1>6, <2>1 DEF TidWrite, CreateTypeOK
  <2> QED BY <2>1, <2>2, <2>3, <2>4
<1>7. ASSUME NEW t \in Thread, CreateUnblock(t)
      PROVE  Goal
  <2>1. child[t] \in Thread
    BY <1>1, <1>7 DEF CreateUnblock, At, MakesChild
  <2>2. CPUTypeOK'
    BY <1>1, <1>7, <2>1, OperationTypes DEF CreateUnblock
  <2>3. CreateTypeOK' /\ obj' = obj /\ \A u \in Thread \ {t} : child'[u] = child[u]
    BY <1>1, <1>7 DEF CreateUnblock, CreateTypeOK
  <2>4. ControlTypeOK'
    BY <1>1, <1>7, <2>3, CallKeepsArgs DEF CreateUnblock
  <2> QED BY <1>1, <2>2, <2>3, <2>4
<1>8. ASSUME NEW t \in Thread, UNCHANGED <<ret, obj, createVars>>, CPUTypeOK', NEW l \in Label, Goto(t, l),
             l \in {"run", "yield", "dead", "hlt"} \/ l = ret[t]
      PROVE  Goal
  <2>1. ControlTypeOK'
    BY <1>1, <1>8, GotoKeepsArgs DEF createVars
  <2> QED BY <1>1, <1>8, <2>1 DEF createVars, CreateTypeOK
<1>9. ASSUME NEW t \in Thread, ThreadYield(t)
      PROVE  Goal
  BY <1>1, <1>8, <1>9, OperationTypes DEF ThreadYield
<1>10. ASSUME NEW t \in Thread, NEW p \in NewPriorities, ThreadSetPriority(t, p)
       PROVE  Goal
  <2>1. CPUTypeOK'
    BY <1>1, <1>10 DEF ThreadSetPriority, CPUTypeOK
  <2> QED BY <1>1, <1>8, <1>10, <2>1 DEF ThreadSetPriority
<1>11. ASSUME NEW t \in Thread, ThreadExit(t)
       PROVE  Goal
  BY <1>1, <1>8, <1>11, OperationTypes DEF ThreadExit
<1>12. ASSUME IdleBlock
       PROVE  Goal
  BY <1>1, <1>8, <1>12, OperationTypes, SchedulerAssumption DEF IdleBlock
<1> HIDE DEF Goal
<1> QED BY <1>4, <1>5, <1>6, <1>7, <1>9, <1>10, <1>11, <1>12 DEF ThreadStep

\* The state after thread_start is well-typed.
LEMMA InitTyping == Init => TypeInv
<1> SUFFICES ASSUME Init PROVE TypeInv
  OBVIOUS
<1>1. CPUTypeOK /\ FlagsTypeOK
  <2>1. status \in [Thread -> Status] /\ FlagsTypeOK
    BY DEF Init, SchedInit, FlagsTypeOK, Status
  <2>2. priority \in [Thread -> Priority]
    BY DEF Init, SchedInit, Priority, PRI_MIN, PRI_MAX, PRI_DEFAULT
  <2>3. ready_list \in Seq(Thread) /\ running \in Thread /\ thread_ticks \in 0..(TIME_SLICE - 1)
    BY SchedulerAssumption DEF Init, SchedInit
  <2> QED BY <2>1, <2>2, <2>3 DEF CPUTypeOK
<1>2. ControlTypeOK
  BY DEF Init, SchedInit, ControlTypeOK, ArgsOK, MakesChild, ReturnLabel, Label
<1>3. SynchTypeOK /\ CondTypeOK
  BY DEF Init, SynchInit, CondInit, SynchTypeOK, CondTypeOK
<1>4. TimerTypeOK
  BY TimerAssumption DEF Init, SchedInit, TimerInit, TimerTypeOK
<1>5. CreateTypeOK
  BY DEF Init, CreateTypeOK
<1> QED BY <1>1, <1>2, <1>3, <1>4, <1>5, TypeInvParts

\* A step that changes nothing keeps the typing invariant.
LEMMA StutterTyping == TypeInv /\ UNCHANGED vars => TypeInv'
BY DEF vars, schedVars, synchVars, condVars, timerVars, createVars, TypeInv, TypeOK, ArgsOK, MakesChild,
       SchedTypeOK, SynchTypeOK, CondTypeOK, TimerTypeOK

\* Every variable of the kernel keeps its type: no operation indexes a list or
\* follows a pointer outside what it was made for, the semaphore's value never
\* falls below 0 and the interrupt handler's cursor stays in the sleeping list.
THEOREM Typing == Spec => []TypeInv
<1>1. TypeInv /\ [Next]_vars => TypeInv'
  BY SynchTyping, ConditionTyping, SleepTyping, InterruptTyping, ThreadTyping, StutterTyping DEF Next
<1> QED BY <1>1, InitTyping, PTL DEF Spec

\* Typing, as the runs check it.
THEOREM TypeCorrect == Spec => []TypeOK
<1>1. TypeInv => TypeOK
  BY DEF TypeInv
<1> QED BY <1>1, Typing, PTL

----------------------------------------------------------------------------
(* Where every thread is.                                                  *)

ReadyOK ==
    /\ IsInjective(ready_list)
    /\ \A t \in Thread : t \in OnReady <=> (status[t] = "READY" /\ t # Idle)
    /\ \A t \in Thread : status[t] = "RUNNING" <=> t = running

WaitersOK ==
    \A s \in Semaphore :
        /\ IsInjective(waiters[s])
        /\ \A t \in OnWaiters(s) : status[t] = "BLOCKED" /\ pc[t] = "sema_down" /\ obj[t] = s

SleepingOK ==
    /\ IsInjective(sleepingThreadList)
    /\ \A t \in OnSleeping : status[t] = "BLOCKED" /\ pc[t] = "sleeping"

\* A new thread is its creator's alone until thread_create unblocks it.
ChildrenOK ==
    \A c \in Thread : child[c] # NULL =>
        /\ ret[c] \in {"tid_read", "create_unblock"}
        /\ status[child[c]] = "BLOCKED" /\ pc[child[c]] = "run" /\ child[c] # Idle
        /\ \A d \in Thread \ {c} : child[d] # child[c]

PlacesOK ==
    /\ pc[Idle] \in {"run", "hlt"} /\ holding[Idle] = {}
    /\ \A t \in Thread : pc[t] \in {"dead", "sleep_push", "sleeping", "hlt"} => ret[t] = "run"
    /\ \A t \in Thread : pc[t] \in ReturnLabel => ret[t] = pc[t]
    /\ \A t \in Thread : status[t] \in {"NONE", "DYING"} => pc[t] = "dead"
    /\ \A t \in Thread :
         pc[t] \in {"call_down", "sema_down"} /\ obj[t] \in Thread => obj[t] = t

\* A blocked thread is found where what will unblock it looks.
Found(t) ==
    \/ obj[t] \in Semaphore /\ t \in OnWaiters(obj[t])
    \/ t \in OnSleeping
    \/ \E c \in Thread : child[c] = t

FoundOK == \A t \in Thread \ {Idle} : status[t] = "BLOCKED" => Found(t)

QueueInv == ReadyOK /\ WaitersOK /\ SleepingOK /\ ChildrenOK /\ PlacesOK /\ FoundOK

----------------------------------------------------------------------------
(* What the operations of Scheduler do to the run queue.                   *)

\* What thread u's status is worth to the lists is left as it was.
Kept(u) ==
    /\ status'[u] \in {"NONE", "DYING"} => status[u] = status'[u]
    /\ u # Idle => (status'[u] = "BLOCKED" <=> status[u] = "BLOCKED")

\* What schedule() leaves on the run queue and makes of the statuses.
LEMMA ScheduleReady ==
    ASSUME NEW list \in Seq(Thread), NEW st \in [Thread -> Status], Schedule(list, st),
           IsInjective(list),
           \A u \in Thread : u \in ToSet(list) <=> (st[u] = "READY" /\ u # Idle),
           \A u \in Thread : st[u] # "RUNNING"
    PROVE  /\ ReadyOK'
           /\ \A u \in Thread : status'[u] = st[u] \/ (status'[u] = "RUNNING" /\ (st[u] = "READY" \/ u = Idle))
<1>1. CASE list = <<>>
  <2>1. running' = Idle /\ ready_list' = <<>> /\ status' = [st EXCEPT ![Idle] = "RUNNING"]
    BY <1>1 DEF Schedule
  <2>2. ToSet(list) = {} /\ IsInjective(<<>>)
    BY <1>1 DEF ToSet, IsInjective
  <2> QED BY <1>1, <2>1, <2>2, SchedulerAssumption DEF ReadyOK, OnReady
<1>2. CASE list # <<>>
  <2>1. /\ Head(list) \in ToSet(list) /\ ToSet(Tail(list)) = ToSet(list) \ {Head(list)}
        /\ IsInjective(Tail(list)) /\ Head(list) \in Thread
    BY <1>2, TailSet, HeadTailProperties
  <2>2. /\ running' = Head(list) /\ ready_list' = Tail(list)
        /\ status' = [st EXCEPT ![Head(list)] = "RUNNING"]
    BY <1>2 DEF Schedule
  <2> QED BY <2>1, <2>2 DEF ReadyOK, OnReady
<1> QED BY <1>1, <1>2

\* The running thread gives up the CPU.
LEMMA SwitchQueues ==
    ASSUME CPUTypeOK, ReadyOK, NEW t \in Thread, t = running
    PROVE  /\ YieldCPU(t) => ReadyOK' /\ \A u \in Thread : Kept(u)
           /\ BlockCPU(t) => /\ ReadyOK' /\ \A u \in Thread \ {t} : Kept(u)
                             /\ t # Idle => status'[t] = "BLOCKED"
                             /\ t = Idle => Kept(t)
           /\ t # Idle /\ ExitCPU(t) =>
                /\ ReadyOK' /\ \A u \in Thread \ {t} : Kept(u)
                /\ status'[t] \in {"NONE", "DYING"}
<1>1. /\ status[t] = "RUNNING" /\ t \notin ToSet(ready_list)
      /\ status \in [Thread -> Status] /\ ready_list \in Seq(Thread) /\ IsInjective(ready_list)
      /\ {"NONE", "READY", "BLOCKED", "DYING"} \subseteq Status
  BY DEF CPUTypeOK, ReadyOK, OnReady, Status
<1>2. ASSUME YieldCPU(t) PROVE ReadyOK' /\ \A u \in Thread : Kept(u)
  <2> DEFINE list == IF t = Idle THEN ready_list ELSE InsertOrdered(ready_list, t)
             st == [status EXCEPT ![t] = "READY"]
  <2>1. Schedule(list, st)
    BY <1>2 DEF YieldCPU
  <2>2. /\ list \in Seq(Thread) /\ IsInjective(list)
        /\ ToSet(list) = IF t = Idle THEN ToSet(ready_list) ELSE ToSet(ready_list) \cup {t}
    BY <1>1, InsertOrderedSet
  <2>3. st \in [Thread -> Status] /\ st[t] = "READY" /\ \A u \in Thread \ {t} : st[u] = status[u]
    BY <1>1
  <2> HIDE DEF list, st
  <2>4. /\ \A u \in Thread : u \in ToSet(list) <=> (st[u] = "READY" /\ u # Idle)
        /\ \A u \in Thread : st[u] # "RUNNING"
    BY <2>2, <2>3 DEF ReadyOK, OnReady
  <2>5. ReadyOK' /\ \A u \in Thread :
                     status'[u] = st[u] \/ (status'[u] = "RUNNING" /\ (st[u] = "READY" \/ u = Idle))
    BY <2>1, <2>2, <2>3, <2>4, ScheduleReady
  <2> QED BY <1>1, <2>3, <2>5 DEF Kept
<1>3. ASSUME NEW v \in {"NONE", "BLOCKED", "DYING"}, Schedule(ready_list, [status EXCEPT ![t] = v])
      PROVE  /\ ReadyOK' /\ \A u \in Thread \ {t} : Kept(u)
             /\ t # Idle => status'[t] = v
             /\ t = Idle => status'[t] \in {v, "RUNNING"}
  <2> DEFINE st == [status EXCEPT ![t] = v]
  <2>1. st \in [Thread -> Status] /\ st[t] = v /\ \A u \in Thread \ {t} : st[u] = status[u]
    BY <1>1
  <2> HIDE DEF st
  <2>2. /\ \A u \in Thread : u \in ToSet(ready_list) <=> (st[u] = "READY" /\ u # Idle)
        /\ \A u \in Thread : st[u] # "RUNNING"
    BY <1>1, <2>1 DEF ReadyOK, OnReady
  <2>3. ReadyOK' /\ \A u \in Thread :
                     status'[u] = st[u] \/ (status'[u] = "RUNNING" /\ (st[u] = "READY" \/ u = Idle))
    BY <1>1, <1>3, <2>1, <2>2, ScheduleReady DEF st
  <2> QED BY <2>1, <2>3 DEF Kept
<1> QED BY <1>2, <1>3 DEF BlockCPU, ExitCPU, Kept

\* Another thread changes its state; the running one keeps the CPU.
LEMMA StayQueues ==
    ASSUME CPUTypeOK, ReadyOK, NEW u \in Thread \ {Idle}
    PROVE  /\ status[u] = "BLOCKED" /\ Unblock(u) =>
                /\ ReadyOK' /\ \A v \in Thread \ {u} : Kept(v)
                /\ status'[u] = "READY"
           /\ status[u] = "NONE" /\ (\E p \in Priority : InitThread(u, p)) =>
                /\ ReadyOK' /\ \A v \in Thread \ {u} : Kept(v)
                /\ status'[u] = "BLOCKED"
<1>1. /\ status \in [Thread -> Status] /\ ready_list \in Seq(Thread) /\ IsInjective(ready_list)
      /\ u \in ToSet(ready_list) <=> status[u] = "READY"
  BY DEF CPUTypeOK, ReadyOK, OnReady
<1>2. ASSUME status[u] = "BLOCKED", Unblock(u)
      PROVE  ReadyOK' /\ (\A v \in Thread \ {u} : Kept(v)) /\ status'[u] = "READY"
  <2>1. /\ ToSet(ready_list') = ToSet(ready_list) \cup {u} /\ IsInjective(ready_list')
        /\ status'[u] = "READY" /\ running' = running
        /\ \A v \in Thread \ {u} : status'[v] = status[v]
    BY <1>1, <1>2, InsertOrderedSet DEF Unblock
  <2> QED BY <1>2, <2>1 DEF ReadyOK, OnReady, Kept
<1>3. ASSUME status[u] = "NONE", NEW p \in Priority, InitThread(u, p)
      PROVE  ReadyOK' /\ (\A v \in Thread \ {u} : Kept(v)) /\ status'[u] = "BLOCKED"
  <2>1. /\ ready_list' = ready_list /\ status'[u] = "BLOCKED" /\ running' = running
        /\ \A v \in Thread \ {u} : status'[v] = status[v]
    BY <1>1, <1>3 DEF InitThread
  <2> QED BY <1>1, <1>3, <2>1 DEF ReadyOK, OnReady, Kept
<1> QED BY <1>2, <1>3

\* A step that leaves the run queue and every status alone.
LEMMA NoSwitchQueues ==
    ASSUME ReadyOK, UNCHANGED <<status, ready_list, running>>
    PROVE  ReadyOK' /\ \A u \in Thread : Kept(u)
BY DEF ReadyOK, OnReady, Kept

----------------------------------------------------------------------------
(* The steps of the running thread.                                        *)

\* A thread that takes a step is the running one, and so not idle off-CPU, on no
\* list and in no creator's hands.
LEMMA Acts ==
    ASSUME TypeInv, QueueInv, NEW t \in Thread, NEW l \in Label, At(t, l)
    PROVE  /\ t = running /\ status[t] = "RUNNING" /\ pc[t] = l
           /\ \A s \in Semaphore : t \notin OnWaiters(s)
           /\ t \notin OnSleeping
           /\ \A u \in Thread : child[u] # t
           /\ t = Idle => l \in {"run", "hlt"} /\ holding[t] = {}
           /\ l \in ReturnLabel => ret[t] = l
           /\ l \in {"run", "cond_down", "cond_acquire", "cond_broadcast", "sleep_push", "sleeping", "hlt"} =>
                child[t] = NULL
<1>1. t = running /\ status[t] = "RUNNING" /\ pc[t] = l
  BY DEF At, QueueInv, ReadyOK
<1>2. NULL # t
  BY SchedulerAssumption
<1> QED BY <1>1, <1>2 DEF QueueInv, WaitersOK, SleepingOK, ChildrenOK, PlacesOK, ReturnLabel

\* The running thread t goes to label l and changes nobody's place in a list.
LEMMA GotoQueues ==
    ASSUME TypeInv, QueueInv, NEW t \in Thread, t = running, NEW l \in Label, Goto(t, l),
           ReadyOK', \A u \in Thread : Kept(u),
           UNCHANGED <<waiters, sleepingThreadList, child>>,
           \A u \in Thread \ {t} : obj'[u] = obj[u] /\ ret'[u] = ret[u],
           child[t] # NULL => ret'[t] \in {"tid_read", "create_unblock"},
           l \in {"dead", "sleep_push", "sleeping", "hlt"} => ret'[t] = "run",
           l \in ReturnLabel => ret'[t] = l,
           l \in {"call_down", "sema_down"} /\ obj'[t] \in Thread => obj'[t] = t,
           t = Idle => l \in {"run", "hlt"},
           holding'[Idle] = {}
    PROVE  QueueInv'
<1>1. /\ status[t] = "RUNNING"
      /\ \A s \in Semaphore : t \notin OnWaiters(s)
      /\ t \notin OnSleeping
      /\ \A u \in Thread : child[u] # t
  BY SchedulerAssumption DEF QueueInv, ReadyOK, WaitersOK, SleepingOK, ChildrenOK
<1>2. pc'[t] = l /\ \A u \in Thread \ {t} : pc'[u] = pc[u]
  BY DEF Goto, TypeInv, TypeOK, SchedTypeOK
<1>3. \A s \in Semaphore : OnWaiters(s) \subseteq Thread \ {t, Idle} /\ OnWaiters(s)' = OnWaiters(s)
  <2> SUFFICES ASSUME NEW s \in Semaphore PROVE OnWaiters(s) \subseteq Thread \ {t, Idle} /\ OnWaiters(s)' = OnWaiters(s)
    OBVIOUS
  <2>1. waiters[s] \in Seq(Thread)
    BY DEF TypeInv, TypeOK, SynchTypeOK
  <2>2. OnWaiters(s) \subseteq Thread /\ OnWaiters(s)' = OnWaiters(s)
    BY <2>1 DEF OnWaiters, ToSet
  <2>3. Idle \notin OnWaiters(s)
    BY DEF QueueInv, WaitersOK, PlacesOK
  <2> QED BY <1>1, <2>2, <2>3
<1>4. WaitersOK'
  <2>1. ASSUME NEW s \in Semaphore, NEW u \in OnWaiters(s)
        PROVE  status'[u] = "BLOCKED" /\ pc'[u] = "sema_down" /\ obj'[u] = s
    BY <1>2, <1>3, <2>1 DEF QueueInv, WaitersOK, Kept
  <2> QED BY <1>3, <2>1 DEF QueueInv, WaitersOK
<1>5. SleepingOK'
  <2>1. OnSleeping \subseteq Thread \ {t, Idle} /\ OnSleeping' = OnSleeping
    <3>1. sleepingThreadList \in Seq(Thread)
      BY DEF TypeInv, TypeOK, TimerTypeOK
    <3>2. OnSleeping \subseteq Thread /\ OnSleeping' = OnSleeping
      BY <3>1 DEF OnSleeping, ToSet
    <3>3. Idle \notin OnSleeping
      BY DEF QueueInv, SleepingOK, PlacesOK
    <3> QED BY <1>1, <3>2, <3>3
  <2> QED BY <1>2, <2>1 DEF QueueInv, SleepingOK, Kept
<1>6. ChildrenOK'
  <2> SUFFICES ASSUME NEW c \in Thread, child[c] # NULL
               PROVE  /\ ret'[c] \in {"tid_read", "create_unblock"}
                      /\ status'[child[c]] = "BLOCKED" /\ pc'[child[c]] = "run" /\ child[c] # Idle
                      /\ \A d \in Thread \ {c} : child[d] # child[c]
    BY DEF ChildrenOK
  <2>1. child[c] \in Thread \ {t, Idle}
    BY <1>1 DEF QueueInv, ChildrenOK, TypeInv, TypeOK
  <2> QED BY <1>2, <2>1 DEF QueueInv, ChildrenOK, Kept
<1>7. PlacesOK'
  <2>1. pc'[Idle] \in {"run", "hlt"}
    BY <1>2, SchedulerAssumption DEF QueueInv, PlacesOK
  <2>2. \A u \in Thread : status'[u] \in {"NONE", "DYING"} => pc'[u] = "dead"
    BY <1>1, <1>2 DEF QueueInv, PlacesOK, Kept
  <2>3. /\ \A u \in Thread : pc'[u] \in {"dead", "sleep_push", "sleeping", "hlt"} => ret'[u] = "run"
        /\ \A u \in Thread : pc'[u] \in ReturnLabel => ret'[u] = pc'[u]
    BY <1>2 DEF QueueInv, PlacesOK
  <2>4. \A u \in Thread : pc'[u] \in {"call_down", "sema_down"} /\ obj'[u] \in Thread => obj'[u] = u
    BY <1>2 DEF QueueInv, PlacesOK
  <2> QED BY <2>1, <2>2, <2>3, <2>4 DEF PlacesOK
<1>8. FoundOK'
  <2> SUFFICES ASSUME NEW u \in Thread \ {Idle}, status'[u] = "BLOCKED" PROVE Found(u)'
    BY DEF FoundOK
  <2>1. status[u] = "BLOCKED" /\ u # t
    BY <1>1 DEF Kept
  <2>2. Found(u) /\ obj'[u] = obj[u]
    BY <2>1 DEF QueueInv, FoundOK
  <2> QED BY <2>2, <1>3 DEF Found, OnSleeping
<1> QED BY <1>4, <1>5, <1>6, <1>7, <1>8 DEF QueueInv

\* The typing facts that the steps below use.
LEMMA QueueTypes ==
    ASSUME TypeInv, QueueInv
    PROVE  /\ CPUTypeOK /\ ReadyOK /\ sleepingThreadList \in Seq(Thread)
           /\ pc \in [Thread -> Label] /\ obj \in [Thread -> Semaphore \cup {NULL}]
           /\ ret \in [Thread -> ReturnLabel] /\ child \in [Thread -> Thread \cup {NULL}]
           /\ holding \in [Thread -> SUBSET Lock] /\ \A s \in Semaphore : value[s] \in Nat
           /\ \A s \in Semaphore : waiters[s] \in Seq(Thread) /\ OnWaiters(s) \subseteq Thread \ {Idle}
           /\ OnSleeping \subseteq Thread \ {Idle}
<1>1. \A s \in Semaphore : waiters[s] \in Seq(Thread)
  BY DEF TypeInv, TypeOK, SynchTypeOK
<1>2. \A s \in Semaphore : OnWaiters(s) \subseteq Thread
  BY <1>1 DEF OnWaiters, ToSet
<1>3. sleepingThreadList \in Seq(Thread)
  BY DEF TypeInv, TypeOK, TimerTypeOK
<1>4. OnSleeping \subseteq Thread
  BY <1>3 DEF OnSleeping, ToSet
<1>5. Idle \notin OnSleeping /\ \A s \in Semaphore : Idle \notin OnWaiters(s)
  BY DEF QueueInv, WaitersOK, SleepingOK, PlacesOK
<1> QED BY <1>1, <1>2, <1>3, <1>4, <1>5, TypeInvParts
        DEF QueueInv, TypeInv, TypeOK, SynchTypeOK, ControlTypeOK, ArgsOK

\* The running thread goes to sleep on a list: on the wait list of obj'[t] or
\* on the sleeping list.
LEMMA SleepQueues ==
    ASSUME TypeInv, QueueInv, NEW t \in Thread \ {Idle}, t = running, BlockCPU(t),
           UNCHANGED <<ret, child, holding>>,
           \A u \in Thread \ {t} : obj'[u] = obj[u],
           \/ /\ Goto(t, "sema_down") /\ UNCHANGED sleepingThreadList
              /\ obj'[t] \in Semaphore /\ (obj'[t] \in Thread => obj'[t] = t)
              /\ waiters' = [waiters EXCEPT ![obj'[t]] = Append(@, t)]
           \/ /\ Goto(t, "sleeping") /\ UNCHANGED waiters /\ ret[t] = "run"
              /\ sleepingThreadList' = Append(sleepingThreadList, t)
    PROVE  QueueInv'
<1>1. /\ status[t] = "RUNNING"
      /\ \A s \in Semaphore : t \notin OnWaiters(s)
      /\ t \notin OnSleeping
      /\ \A u \in Thread : child[u] # t
  BY SchedulerAssumption DEF QueueInv, ReadyOK, WaitersOK, SleepingOK, ChildrenOK
<1>2. ReadyOK' /\ status'[t] = "BLOCKED" /\ \A u \in Thread \ {t} : Kept(u)
  BY QueueTypes, SwitchQueues
<1>3. pc'[t] \in {"sema_down", "sleeping"} /\ \A u \in Thread \ {t} : pc'[u] = pc[u]
  BY QueueTypes DEF Goto
<1>4. ASSUME NEW s \in Semaphore
      PROVE  /\ IsInjective(waiters'[s])
             /\ OnWaiters(s)' = IF pc'[t] = "sema_down" /\ s = obj'[t] THEN OnWaiters(s) \cup {t} ELSE OnWaiters(s)
  <2>1. waiters[s] \in Seq(Thread) /\ IsInjective(waiters[s]) /\ waiters \in [Semaphore -> Seq(Thread)]
    BY DEF TypeInv, TypeOK, SynchTypeOK, QueueInv, WaitersOK
  <2>2. /\ IsInjective(Append(waiters[s], t))
        /\ ToSet(Append(waiters[s], t)) = OnWaiters(s) \cup {t}
    BY <2>1, <1>1, AppendSet DEF OnWaiters
  <2>3. waiters'[s] = IF pc'[t] = "sema_down" /\ s = obj'[t] THEN Append(waiters[s], t) ELSE waiters[s]
    <3>1. CASE Goto(t, "sema_down")
      <4>1. pc'[t] = "sema_down" /\ waiters' = [waiters EXCEPT ![obj'[t]] = Append(@, t)]
        BY <3>1, QueueTypes DEF Goto
      <4> QED BY <2>1, <4>1
    <3>2. CASE Goto(t, "sleeping")
      <4>1. pc'[t] = "sleeping" /\ waiters' = waiters
        BY <3>2, QueueTypes DEF Goto
      <4> QED BY <4>1
    <3> QED BY <3>1, <3>2
  <2> QED BY <2>1, <2>2, <2>3 DEF OnWaiters
<1>5. /\ IsInjective(sleepingThreadList')
      /\ OnSleeping' = IF pc'[t] = "sleeping" THEN OnSleeping \cup {t} ELSE OnSleeping
  <2>1. sleepingThreadList \in Seq(Thread) /\ IsInjective(sleepingThreadList)
    BY QueueTypes DEF QueueInv, SleepingOK
  <2>2. /\ IsInjective(Append(sleepingThreadList, t))
        /\ ToSet(Append(sleepingThreadList, t)) = OnSleeping \cup {t}
    BY <2>1, <1>1, AppendSet DEF OnSleeping
  <2>3. sleepingThreadList' = IF pc'[t] = "sleeping" THEN Append(sleepingThreadList, t) ELSE sleepingThreadList
    BY QueueTypes DEF Goto
  <2> QED BY <2>1, <2>2, <2>3 DEF OnSleeping
<1>6. WaitersOK'
  <2>1. ASSUME NEW s \in Semaphore, NEW u \in OnWaiters(s)'
        PROVE  status'[u] = "BLOCKED" /\ pc'[u] = "sema_down" /\ obj'[u] = s
    <3>1. CASE u = t
      BY <1>1, <1>2, <1>4, <2>1, <3>1
    <3>2. CASE u # t
      <4>1. u \in OnWaiters(s) /\ u \in Thread \ {t, Idle}
        BY <1>4, <2>1, <3>2, QueueTypes
      <4> QED BY <1>2, <1>3, <4>1 DEF QueueInv, WaitersOK, Kept
    <3> QED BY <3>1, <3>2
  <2> QED BY <1>4, <2>1 DEF WaitersOK
<1>7. SleepingOK'
  <2>1. ASSUME NEW u \in OnSleeping'
        PROVE  status'[u] = "BLOCKED" /\ pc'[u] = "sleeping"
    <3>1. CASE u = t
      BY <1>1, <1>2, <1>5, <2>1, <3>1
    <3>2. CASE u # t
      <4>1. u \in OnSleeping /\ u \in Thread \ {t, Idle}
        BY <1>5, <2>1, <3>2, QueueTypes
      <4> QED BY <1>2, <1>3, <4>1 DEF QueueInv, SleepingOK, Kept
    <3> QED BY <3>1, <3>2
  <2> QED BY <1>5, <2>1 DEF SleepingOK
<1>8. ChildrenOK'
  <2> SUFFICES ASSUME NEW c \in Thread, child[c] # NULL
               PROVE  /\ ret'[c] \in {"tid_read", "create_unblock"}
                      /\ status'[child[c]] = "BLOCKED" /\ pc'[child[c]] = "run" /\ child[c] # Idle
                      /\ \A d \in Thread \ {c} : child[d] # child[c]
    BY DEF ChildrenOK
  <2>1. child[c] \in Thread \ {t, Idle}
    BY <1>1, QueueTypes DEF QueueInv, ChildrenOK
  <2> QED BY <1>2, <1>3, <2>1 DEF QueueInv, ChildrenOK, Kept
<1>9. PlacesOK'
  <2>1. pc'[Idle] \in {"run", "hlt"} /\ holding'[Idle] = {}
    BY <1>3, SchedulerAssumption DEF QueueInv, PlacesOK
  <2>2. \A u \in Thread : status'[u] \in {"NONE", "DYING"} => pc'[u] = "dead"
    BY <1>2, <1>3 DEF QueueInv, PlacesOK, Kept
  <2>3. /\ \A u \in Thread : pc'[u] \in {"dead", "sleep_push", "sleeping", "hlt"} => ret'[u] = "run"
        /\ \A u \in Thread : pc'[u] \in ReturnLabel => ret'[u] = pc'[u]
    BY <1>3, QueueTypes DEF QueueInv, PlacesOK, Goto, ReturnLabel
  <2>4. \A u \in Thread : pc'[u] \in {"call_down", "sema_down"} /\ obj'[u] \in Thread => obj'[u] = u
    BY <1>3, QueueTypes DEF QueueInv, PlacesOK, Goto
  <2> QED BY <2>1, <2>2, <2>3, <2>4 DEF PlacesOK
<1>10. FoundOK'
  <2> SUFFICES ASSUME NEW u \in Thread \ {Idle}, status'[u] = "BLOCKED" PROVE Found(u)'
    BY DEF FoundOK
  <2>1. CASE u = t
    BY <1>3, <1>4, <1>5, <2>1, QueueTypes DEF Goto, Found
  <2>2. CASE u # t
    <3>1. Found(u) /\ obj'[u] = obj[u]
      BY <1>2, <2>2 DEF Kept, QueueInv, FoundOK
    <3> QED BY <3>1, <1>4, <1>5 DEF Found
  <2> QED BY <2>1, <2>2
<1> QED BY <1>2, <1>6, <1>7, <1>8, <1>9, <1>10 DEF QueueInv

\* A blocked thread u is taken off the list it is on, or from its creator, and
\* made ready, while nobody leaves the CPU.
LEMMA WakeQueues ==
    ASSUME TypeInv, QueueInv, NEW u \in Thread \ {Idle}, status[u] = "BLOCKED", Unblock(u),
           NEW t \in Thread, t = running,
           pc' \in [Thread -> Label], \A v \in Thread \ {t} : pc'[v] = pc[v] /\ ret'[v] = ret[v] /\ obj'[v] = obj[v],
           \/ UNCHANGED <<pc, ret, obj>>
           \/ t # Idle /\ pc'[t] = "yield"
           \/ t # Idle /\ pc'[t] = "run" /\ ret'[t] = "run",
           \A c \in Thread : child'[c] = IF child[c] = u THEN NULL ELSE child[c],
           \A c \in Thread : child'[c] # NULL => ret'[c] = ret[c],
           holding' = holding,
           IsInjective(sleepingThreadList'), OnSleeping' = OnSleeping \ {u},
           \A s \in Semaphore : IsInjective(waiters'[s]) /\ OnWaiters(s)' = OnWaiters(s) \ {u}
    PROVE  QueueInv'
<1>1. /\ status[t] = "RUNNING" /\ t # u
      /\ \A s \in Semaphore : t \notin OnWaiters(s)
      /\ t \notin OnSleeping
      /\ \A c \in Thread : child[c] # t
  BY SchedulerAssumption DEF QueueInv, ReadyOK, WaitersOK, SleepingOK, ChildrenOK
<1>2. ReadyOK' /\ status'[u] = "READY" /\ \A v \in Thread \ {u} : Kept(v)
  BY QueueTypes, StayQueues
<1>3. WaitersOK'
  <2>1. ASSUME NEW s \in Semaphore, NEW v \in OnWaiters(s)'
        PROVE  status'[v] = "BLOCKED" /\ pc'[v] = "sema_down" /\ obj'[v] = s
    <3>1. v \in OnWaiters(s) /\ v \in Thread \ {u, t, Idle}
      BY <1>1, <2>1, QueueTypes
    <3> QED BY <1>2, <3>1 DEF QueueInv, WaitersOK, Kept
  <2> QED BY <2>1 DEF WaitersOK
<1>4. SleepingOK'
  <2>1. ASSUME NEW v \in OnSleeping'
        PROVE  status'[v] = "BLOCKED" /\ pc'[v] = "sleeping"
    <3>1. v \in OnSleeping /\ v \in Thread \ {u, t, Idle}
      BY <1>1, <2>1, QueueTypes
    <3> QED BY <1>2, <3>1 DEF QueueInv, SleepingOK, Kept
  <2> QED BY <2>1 DEF SleepingOK
<1>5. ChildrenOK'
  <2> SUFFICES ASSUME NEW c \in Thread, child'[c] # NULL
               PROVE  /\ ret'[c] \in {"tid_read", "create_unblock"}
                      /\ status'[child'[c]] = "BLOCKED" /\ pc'[child'[c]] = "run" /\ child'[c] # Idle
                      /\ \A d \in Thread \ {c} : child'[d] # child'[c]
    BY DEF ChildrenOK
  <2>1. child'[c] = child[c] /\ child[c] # NULL /\ child[c] # u /\ ret'[c] = ret[c]
    BY DEF QueueInv
  <2>2. child[c] \in Thread \ {t, u, Idle}
    BY <1>1, <2>1, QueueTypes DEF QueueInv, ChildrenOK
  <2>3. \A d \in Thread \ {c} : child'[d] # child'[c]
    BY <2>1 DEF QueueInv, ChildrenOK
  <2> QED BY <1>2, <2>1, <2>2, <2>3 DEF QueueInv, ChildrenOK, Kept
<1>6. PlacesOK'
  <2>1. pc'[Idle] \in {"run", "hlt"} /\ holding'[Idle] = {}
    BY SchedulerAssumption DEF QueueInv, PlacesOK
  <2>2. \A v \in Thread : status'[v] \in {"NONE", "DYING"} => pc'[v] = "dead"
    BY <1>1, <1>2 DEF QueueInv, PlacesOK, Kept
  <2>3. /\ \A v \in Thread : pc'[v] \in {"dead", "sleep_push", "sleeping", "hlt"} => ret'[v] = "run"
        /\ \A v \in Thread : pc'[v] \in ReturnLabel => ret'[v] = pc'[v]
    <3> SUFFICES ASSUME NEW v \in Thread
                 PROVE  /\ pc'[v] \in {"dead", "sleep_push", "sleeping", "hlt"} => ret'[v] = "run"
                        /\ pc'[v] \in ReturnLabel => ret'[v] = pc'[v]
      OBVIOUS
    <3>1. CASE pc'[v] = pc[v] /\ ret'[v] = ret[v]
      BY <3>1 DEF QueueInv, PlacesOK
    <3>2. CASE pc'[t] = "yield" \/ (pc'[t] = "run" /\ ret'[t] = "run")
      <4>1. CASE v = t
        BY <3>2, <4>1 DEF ReturnLabel
      <4>2. CASE v # t
        BY <3>1, <4>2
      <4> QED BY <4>1, <4>2
    <3>3. CASE UNCHANGED <<pc, ret, obj>>
      BY <3>1, <3>3
    <3> QED BY <3>2, <3>3
  <2>4. \A v \in Thread : pc'[v] \in {"call_down", "sema_down"} /\ obj'[v] \in Thread => obj'[v] = v
    BY DEF QueueInv, PlacesOK
  <2> QED BY <2>1, <2>2, <2>3, <2>4 DEF PlacesOK
<1>7. FoundOK'
  <2> SUFFICES ASSUME NEW v \in Thread \ {Idle}, status'[v] = "BLOCKED" PROVE Found(v)'
    BY DEF FoundOK
  <2>1. v # u /\ status[v] = "BLOCKED" /\ v # t
    BY <1>1, <1>2 DEF Kept
  <2>2. Found(v) /\ obj'[v] = obj[v]
    BY <2>1 DEF QueueInv, FoundOK
  <2> QED BY <2>1, <2>2 DEF Found
<1> QED BY <1>2, <1>3, <1>4, <1>5, <1>6, <1>7 DEF QueueInv

----------------------------------------------------------------------------
(* Every step keeps QueueInv.                                              *)

\* The steps of semaphores and locks keep the queue invariant.
LEMMA SynchQueues ==
    ASSUME TypeInv, QueueInv, SynchStep
    PROVE  QueueInv'
<1>1. UNCHANGED <<sleepingThreadList, child>>
  BY DEF SynchStep, timerVars, createVars
<1>2. {"run", "call_down", "sema_down", "set_holder", "call_release", "sema_up", "yield"} \subseteq Label
      /\ Sema \cap Thread = {} /\ Lock \subseteq Sema /\ NULL \notin Thread
  BY SynchAssumption, SchedulerAssumption DEF Label
<1>3. ASSUME NEW t \in Thread, NEW s \in Semaphore, InSemaDown(t, s)
      PROVE  t = running /\ t # Idle /\ (s \in Thread => s = t)
  <2>1. CASE At(t, "run") /\ t # Idle /\ s \in Sema \ {tid_lock} /\ s \notin holding[t]
    BY <1>2, <2>1, Acts
  <2>2. CASE At(t, "call_down") /\ s = obj[t]
    BY <1>2, <2>2, Acts DEF QueueInv, PlacesOK
  <2>3. CASE At(t, "sema_down") /\ s = obj[t]
    BY <1>2, <2>3, Acts DEF QueueInv, PlacesOK
  <2> QED BY <1>3, <2>1, <2>2, <2>3 DEF InSemaDown
<1>4. ASSUME NEW t \in Thread, NEW s \in Semaphore, InSemaUp(t, s)
      PROVE  t = running /\ t # Idle
  BY <1>2, <1>4, Acts DEF InSemaUp
<1>5. ASSUME NEW t \in Thread
      PROVE  /\ ret[t] \in Label /\ {"set_holder", "yield", "sema_up"} \cap ReturnLabel = {}
             /\ ret[t] \notin {"dead", "sleep_push", "sleeping", "hlt", "call_down", "sema_down"}
             /\ child[t] # NULL => ret[t] \in {"tid_read", "create_unblock"}
             /\ holding[Idle] = {}
  BY QueueTypes DEF QueueInv, ChildrenOK, PlacesOK, ReturnLabel, Label
<1>6. ASSUME NEW t \in Thread, NEW s \in Semaphore, SemaDownBlocks(t, s)
      PROVE  QueueInv'
  <2>1. t = running /\ t # Idle /\ (s \in Thread => s = t)
    BY <1>3, <1>6 DEF SemaDownBlocks
  <2>2. obj'[t] = s /\ \A u \in Thread \ {t} : obj'[u] = obj[u]
    BY <1>6, QueueTypes DEF SemaDownBlocks
  <2> QED BY <1>1, <1>6, <2>1, <2>2, SleepQueues DEF SemaDownBlocks
<1>7. ASSUME NEW t \in Thread, NEW s \in Semaphore, SemaDownTakes(t, s)
      PROVE  QueueInv'
  <2>1. t = running /\ t # Idle
    BY <1>3, <1>7 DEF SemaDownTakes
  <2>2. ReadyOK' /\ \A u \in Thread : Kept(u)
    BY <1>7, QueueTypes, NoSwitchQueues DEF SemaDownTakes, schedVars
  <2>3. UNCHANGED <<waiters, ret, holding>> /\ \A u \in Thread \ {t} : obj'[u] = obj[u]
    BY <1>7, QueueTypes DEF SemaDownTakes
  <2>4. Goto(t, IF s \in Lock THEN "set_holder" ELSE ret[t])
    BY <1>7 DEF SemaDownTakes
  <2>5. CASE s \in Lock
    BY <1>1, <1>2, <1>5, <2>1, <2>2, <2>3, <2>4, <2>5, GotoQueues
  <2>6. CASE s \notin Lock
    BY <1>1, <1>2, <1>5, <2>1, <2>2, <2>3, <2>4, <2>6, GotoQueues
  <2> QED BY <2>5, <2>6
<1>8. ASSUME NEW t \in Thread, NEW s \in Semaphore, SemaUpNoWaiter(t, s)
      PROVE  QueueInv'
  <2>1. t = running /\ t # Idle
    BY <1>4, <1>8 DEF SemaUpNoWaiter
  <2>2. ReadyOK' /\ \A u \in Thread : Kept(u)
    BY <1>8, QueueTypes, NoSwitchQueues DEF SemaUpNoWaiter, schedVars
  <2>3. UNCHANGED <<waiters, ret, holding>> /\ Goto(t, "yield") /\ \A u \in Thread \ {t} : obj'[u] = obj[u]
    BY <1>8, QueueTypes DEF SemaUpNoWaiter
  <2> QED BY <1>1, <1>2, <1>5, <2>1, <2>2, <2>3, GotoQueues
<1>9. ASSUME NEW t \in Thread, NEW s \in Semaphore, SemaUpWakes(t, s)
      PROVE  QueueInv'
  <2> DEFINE k == IterMax(s)
             u == waiters[s][k]
  <2>1. t = running /\ t # Idle
    BY <1>4, <1>9 DEF SemaUpWakes
  <2>2. waiters[s] \in Seq(Thread) /\ waiters[s] # <<>> /\ k \in 1..Len(waiters[s])
    BY <1>9, QueueTypes, ScanEnds DEF SemaUpWakes, CPUTypeOK
  <2>3. u \in OnWaiters(s) /\ u \in Thread \ {Idle}
    <3>1. u \in OnWaiters(s)
      BY <2>2 DEF OnWaiters, ToSet
    <3> QED BY <3>1, QueueTypes
  <2>4. status[u] = "BLOCKED" /\ obj[u] = s /\ pc[u] = "sema_down"
    BY <2>3 DEF QueueInv, WaitersOK
  <2>5. waiters' = [waiters EXCEPT ![s] = RemoveAt(@, k)] /\ Unblock(u) /\ Goto(t, "yield")
        /\ UNCHANGED <<ret, holding>> /\ \A v \in Thread \ {t} : obj'[v] = obj[v]
    BY <1>9, QueueTypes DEF SemaUpWakes
  <2>6. /\ ToSet(RemoveAt(waiters[s], k)) = OnWaiters(s) \ {u} /\ IsInjective(RemoveAt(waiters[s], k))
    BY <2>2, RemoveAtSet DEF QueueInv, WaitersOK, OnWaiters
  <2>7. \A r \in Semaphore : /\ IsInjective(waiters'[r])
                             /\ OnWaiters(r)' = OnWaiters(r) \ {u}
    <3> SUFFICES ASSUME NEW r \in Semaphore
                 PROVE IsInjective(waiters'[r]) /\ OnWaiters(r)' = OnWaiters(r) \ {u}
      OBVIOUS
    <3>1. waiters \in [Semaphore -> Seq(Thread)]
      BY DEF TypeInv, TypeOK, SynchTypeOK
    <3>2. CASE r = s
      BY <2>5, <2>6, <3>1, <3>2 DEF OnWaiters
    <3>3. CASE r # s
      <4>1. waiters'[r] = waiters[r] /\ u \notin OnWaiters(r)
        BY <2>4, <2>5, <3>1, <3>3 DEF QueueInv, WaitersOK
      <4> QED BY <4>1 DEF OnWaiters, QueueInv, WaitersOK
    <3> QED BY <3>2, <3>3
  <2>8. /\ IsInjective(sleepingThreadList') /\ OnSleeping' = OnSleeping \ {u}
        /\ \A c \in Thread : child[c] # u
    <3>1. u \notin OnSleeping /\ \A c \in Thread : child[c] # u
      BY <1>2, <2>3, <2>4 DEF QueueInv, SleepingOK, ChildrenOK
    <3> QED BY <1>1, <3>1 DEF QueueInv, SleepingOK, OnSleeping
  <2>9. pc' \in [Thread -> Label] /\ pc'[t] = "yield" /\ \A v \in Thread \ {t} : pc'[v] = pc[v]
    BY <1>2, <2>5, QueueTypes DEF Goto
  <2> HIDE DEF u, k
  <2> QED BY <1>1, <2>1, <2>3, <2>4, <2>5, <2>7, <2>8, <2>9, WakeQueues
<1>10. ASSUME NEW t \in Thread, NEW s \in Semaphore, SemaUpPanics(t, s)
       PROVE  QueueInv'
  BY <1>1, <1>10 DEF SemaUpPanics, schedVars, synchVars, QueueInv, ReadyOK, WaitersOK, SleepingOK, ChildrenOK,
                     PlacesOK, FoundOK, Found, OnReady, OnWaiters, OnSleeping
<1>11. ASSUME NEW t \in Thread, NEW l \in Lock, LockRelease(t, l)
       PROVE  QueueInv'
  <2>1. t = running /\ t # Idle
    BY <1>2, <1>11, Acts DEF LockRelease
  <2>2. ReadyOK' /\ \A u \in Thread : Kept(u)
    BY <1>11, QueueTypes, NoSwitchQueues DEF LockRelease, schedVars
  <2>3. UNCHANGED <<waiters, ret>> /\ Goto(t, "sema_up") /\ \A u \in Thread \ {t} : obj'[u] = obj[u]
    BY <1>11, QueueTypes DEF LockRelease
  <2>4. holding'[Idle] = {}
    BY <1>5, <1>11, <2>1, QueueTypes, SchedulerAssumption DEF LockRelease
  <2> QED BY <1>1, <1>2, <1>5, <2>1, <2>2, <2>3, <2>4, GotoQueues
<1>12. ASSUME NEW t \in Thread, SetHolder(t)
       PROVE  QueueInv'
  <2>1. t = running /\ t # Idle
    BY <1>2, <1>12, Acts DEF SetHolder
  <2>2. ReadyOK' /\ \A u \in Thread : Kept(u)
    BY <1>12, QueueTypes, NoSwitchQueues DEF SetHolder, schedVars
  <2>3. UNCHANGED <<waiters, ret>> /\ Goto(t, ret[t]) /\ \A u \in Thread \ {t} : obj'[u] = obj[u]
    BY <1>12, QueueTypes DEF SetHolder
  <2>4. holding'[Idle] = {}
    BY <1>5, <1>12, <2>1, QueueTypes, SchedulerAssumption DEF SetHolder
  <2> QED BY <1>1, <1>5, <2>1, <2>2, <2>3, <2>4, GotoQueues
<1> QED BY <1>6, <1>7, <1>8, <1>9, <1>10, <1>11, <1>12 DEF SynchStep

\* The steps of condition variables keep the queue invariant.
LEMMA ConditionQueues ==
    ASSUME TypeInv, QueueInv, ConditionStep
    PROVE  QueueInv'
<1>1. UNCHANGED <<sleepingThreadList, child>>
  BY DEF ConditionStep, timerVars, createVars
<1>2. /\ {"run", "cond_down", "cond_acquire", "cond_broadcast", "call_down", "call_release", "sema_up"} \subseteq Label
      /\ Sema \cap Thread = {} /\ Lock \subseteq Sema /\ Cond \subseteq Lock /\ NULL \notin Thread
  BY SynchAssumption, SchedulerAssumption, ConditionAssumption DEF Label
<1>3. ASSUME NEW t \in Thread
      PROVE  /\ child[t] # NULL => ret[t] \in {"tid_read", "create_unblock"}
             /\ holding[Idle] = {}
  BY QueueTypes DEF QueueInv, ChildrenOK, PlacesOK
\* A call that ends at l leaves with the argument o and returns to r.
<1>4. ASSUME NEW t \in Thread, NEW l \in {"call_down", "call_release", "sema_up", "run"}, NEW r \in ReturnLabel,
             t = running, t # Idle, child[t] = NULL, UNCHANGED schedVars, UNCHANGED <<waiters, holding>>,
             Goto(t, l), ret' = [ret EXCEPT ![t] = r], l = "run" => r = "run",
             \A u \in Thread \ {t} : obj'[u] = obj[u],
             l = "call_down" /\ obj'[t] \in Thread => obj'[t] = t
      PROVE  QueueInv'
  <2>1. ReadyOK' /\ \A u \in Thread : Kept(u)
    BY <1>4, QueueTypes, NoSwitchQueues DEF schedVars
  <2>2. ret'[t] = r /\ \A u \in Thread \ {t} : ret'[u] = ret[u]
    BY <1>4, QueueTypes
  <2> QED BY <1>1, <1>2, <1>3, <1>4, <2>1, <2>2, GotoQueues DEF ReturnLabel
<1>5. {"call_down", "call_release", "sema_up"} \cap ReturnLabel = {}
      /\ {"run", "cond_down", "cond_acquire", "cond_broadcast"} \subseteq ReturnLabel
  BY DEF ReturnLabel
<1>6. ASSUME NEW t \in Thread, CondDown(t)
      PROVE  QueueInv'
  <2>1. t = running /\ t # Idle /\ child[t] = NULL
    BY <1>2, <1>6, Acts DEF CondDown
  <2> QED BY <1>4, <1>5, <1>6, <2>1, QueueTypes DEF CondDown
<1>7. ASSUME NEW t \in Thread, CondAcquire(t)
      PROVE  QueueInv'
  <2>1. t = running /\ t # Idle /\ child[t] = NULL
    BY <1>2, <1>7, Acts DEF CondAcquire
  <2>2. monitor[t] \notin Thread
    BY <1>2 DEF TypeInv, TypeOK, CondTypeOK
  <2> QED BY <1>4, <1>5, <1>7, <2>1, <2>2, QueueTypes DEF CondAcquire
<1>8. ASSUME NEW t \in Thread, NEW l \in Cond, CondWait(t, l)
      PROVE  QueueInv'
  <2>1. t = running /\ t # Idle /\ child[t] = NULL
    BY <1>2, <1>8, Acts DEF CondWait
  <2>2. waiters[t] = <<>>
    <3>1. waiters[t] \in Seq(Thread) /\ t \in Semaphore
      BY QueueTypes DEF Semaphore
    <3>2. ASSUME NEW u \in OnWaiters(t) PROVE FALSE
      <4>1. u \in Thread /\ pc[u] = "sema_down" /\ obj[u] = t
        BY <3>1, QueueTypes DEF QueueInv, WaitersOK
      <4>2. u = t
        BY <4>1 DEF QueueInv, PlacesOK
      <4> QED BY <1>2, <1>8, <4>1, <4>2 DEF CondWait, At
    <3>3. ToSet(waiters[t]) = {}
      BY <3>2 DEF OnWaiters
    <3>4. Len(waiters[t]) = 0
      <4>1. ASSUME Len(waiters[t]) # 0 PROVE FALSE
        <5>1. 1 \in 1..Len(waiters[t]) /\ DOMAIN waiters[t] = 1..Len(waiters[t])
          BY <3>1, <4>1
        <5> QED BY <3>3, <5>1 DEF ToSet
      <4> QED BY <4>1
    <3> QED BY <3>1, <3>4
  <2>3. UNCHANGED <<waiters, holding>>
    BY <1>8, <2>2 DEF CondWait, TypeInv, TypeOK, SynchTypeOK
  <2> QED BY <1>4, <1>5, <1>8, <2>1, <2>3, QueueTypes DEF CondWait
<1>9. ASSUME NEW t \in Thread, NEW l \in Cond, CondSignal(t, l)
      PROVE  QueueInv'
  <2>1. t = running /\ t # Idle /\ child[t] = NULL /\ ret[t] = "run"
    BY <1>2, <1>5, <1>9, Acts DEF CondSignal
  <2>2. ret' = [ret EXCEPT ![t] = "run"]
    BY <1>9, <2>1, QueueTypes DEF CondSignal
  <2> QED BY <1>4, <1>5, <1>9, <2>1, <2>2, QueueTypes DEF CondSignal, PopWaiter
<1>10. ASSUME NEW t \in Thread, NEW l \in Cond, CondBroadcast(t, l)
       PROVE  QueueInv'
  <2>1. t = running /\ t # Idle /\ child[t] = NULL
    BY <1>2, <1>10, Acts DEF CondBroadcast
  <2> QED BY <1>4, <1>5, <1>10, <2>1, QueueTypes DEF CondBroadcast, PopWaiter
<1>11. ASSUME NEW t \in Thread, BroadcastDone(t)
       PROVE  QueueInv'
  <2>1. t = running /\ t # Idle /\ child[t] = NULL
    BY <1>2, <1>11, Acts DEF BroadcastDone
  <2> QED BY <1>4, <1>5, <1>11, <2>1, QueueTypes DEF BroadcastDone, synchVars
<1> QED BY <1>6, <1>7, <1>8, <1>9, <1>10, <1>11 DEF ConditionStep

\* The steps of timer_sleep keep the queue invariant.
LEMMA SleepStepQueues ==
    ASSUME TypeInv, QueueInv, SleepStep
    PROVE  QueueInv'
<1>1. UNCHANGED <<waiters, obj, holding, child>>
  BY DEF SleepStep, synchVars, createVars
<1>2. {"run", "sleep_push", "sleeping"} \subseteq Label /\ "run" \in ReturnLabel
      /\ {"sleep_push", "sleeping"} \cap ReturnLabel = {}
  BY DEF Label, ReturnLabel
<1>3. holding'[Idle] = {}
  BY <1>1 DEF QueueInv, PlacesOK
<1>4. ASSUME NEW t \in Thread, SleepReadClock(t)
      PROVE  QueueInv'
  <2>1. t = running /\ t # Idle /\ child[t] = NULL /\ ret[t] = "run"
    BY <1>2, <1>4, Acts DEF SleepReadClock
  <2>2. ReadyOK' /\ \A u \in Thread : Kept(u)
    BY <1>4, QueueTypes, NoSwitchQueues DEF SleepReadClock, schedVars
  <2> QED BY <1>1, <1>2, <1>3, <1>4, <2>1, <2>2, GotoQueues DEF SleepReadClock
<1>5. ASSUME NEW t \in Thread, NEW n \in SleepTicks, SleepBlock(t, n)
      PROVE  QueueInv'
  <2>1. t = running /\ t # Idle /\ ret[t] = "run"
    BY <1>2, <1>5, Acts DEF SleepBlock, QueueInv, PlacesOK
  <2> QED BY <1>1, <1>5, <2>1, SleepQueues DEF SleepBlock
<1>6. ASSUME NEW t \in Thread, SleepReturn(t)
      PROVE  QueueInv'
  <2>1. t = running /\ t # Idle /\ child[t] = NULL /\ ret[t] = "run"
    BY <1>2, <1>6, Acts DEF SleepReturn, QueueInv, PlacesOK
  <2>2. ReadyOK' /\ \A u \in Thread : Kept(u)
    BY <1>6, QueueTypes, NoSwitchQueues DEF SleepReturn, schedVars
  <2> QED BY <1>1, <1>2, <1>3, <1>6, <2>1, <2>2, GotoQueues DEF SleepReturn
<1> QED BY <1>4, <1>5, <1>6 DEF SleepStep

\* The steps of the timer interrupt keep the queue invariant.
LEMMA InterruptQueues ==
    ASSUME TypeInv, QueueInv, InterruptStep
    PROVE  QueueInv'
<1>1. UNCHANGED <<waiters, obj, holding, child>>
  BY DEF InterruptStep, synchVars, createVars
<1>2. "run" \in Label
  BY DEF Label
<1>3. ASSUME UNCHANGED <<schedVars, pc, ret, sleepingThreadList>>
      PROVE  QueueInv'
  BY <1>1, <1>3 DEF schedVars, QueueInv, ReadyOK, WaitersOK, SleepingOK, ChildrenOK,
                    PlacesOK, FoundOK, Found, OnReady, OnWaiters, OnSleeping
<1>4. ASSUME TimerWakes
      PROVE  QueueInv'
  <2> DEFINE u == sleepingThreadList[iter]
  <2>1. iter \in 1..Len(sleepingThreadList) /\ sleepingThreadList \in Seq(Thread)
    BY <1>4 DEF TimerWakes, TypeInv, TypeOK, TimerTypeOK
  <2>2. u \in OnSleeping
    BY <2>1 DEF OnSleeping, ToSet
  <2>3. u \in Thread \ {Idle} /\ status[u] = "BLOCKED" /\ pc[u] = "sleeping"
    BY <2>2, QueueTypes DEF QueueInv, SleepingOK
  <2>4. IsInjective(sleepingThreadList') /\ OnSleeping' = OnSleeping \ {u}
    BY <1>4, <2>1, RemoveAtSet DEF TimerWakes, QueueInv, SleepingOK, OnSleeping
  <2>5. Unblock(u) /\ UNCHANGED <<pc, ret>>
    BY <1>4 DEF TimerWakes
  <2>6. ASSUME NEW s \in Semaphore PROVE IsInjective(waiters'[s]) /\ OnWaiters(s)' = OnWaiters(s) \ {u}
    <3>1. u \notin OnWaiters(s)
      BY <2>3 DEF QueueInv, WaitersOK
    <3> QED BY <1>1, <3>1 DEF QueueInv, WaitersOK, OnWaiters
  <2>7. \A c \in Thread : child[c] # u
    BY <2>3, SchedulerAssumption DEF QueueInv, ChildrenOK
  <2>8. running \in Thread
    BY QueueTypes DEF CPUTypeOK
  <2> HIDE DEF u
  <2> QED BY <1>1, <2>3, <2>4, <2>5, <2>6, <2>7, <2>8, QueueTypes, WakeQueues
<1>5. ASSUME TimerReturns
      PROVE  QueueInv'
  <2>1. running \in Thread /\ UNCHANGED <<ret, sleepingThreadList>> /\ pc[running] \in Label
    BY <1>5, QueueTypes DEF CPUTypeOK, TimerReturns
  <2>2. ReadyOK' /\ \A u \in Thread : Kept(u)
    <3>1. CASE SliceOver
      BY <1>5, <2>1, <3>1, QueueTypes, SwitchQueues DEF TimerReturns
    <3>2. CASE ~SliceOver
      BY <1>5, <3>2, QueueTypes, NoSwitchQueues DEF TimerReturns
    <3> QED BY <3>1, <3>2
  <2>3. /\ child[running] # NULL => ret[running] \in {"tid_read", "create_unblock"}
        /\ pc[running] \in {"dead", "sleep_push", "sleeping", "hlt"} => ret[running] = "run"
        /\ pc[running] \in ReturnLabel => ret[running] = pc[running]
        /\ pc[running] \in {"call_down", "sema_down"} /\ obj[running] \in Thread => obj[running] = running
        /\ running = Idle => pc[running] \in {"run", "hlt"}
        /\ holding'[Idle] = {}
    BY <1>1, <2>1 DEF QueueInv, ChildrenOK, PlacesOK
  <2>4. CASE pc[running] = "hlt"
    <3>1. Goto(running, "run") /\ ret[running] = "run"
      BY <1>5, <2>3, <2>4 DEF TimerReturns
    <3> QED BY <1>1, <1>2, <2>1, <2>2, <2>3, <3>1, GotoQueues
  <2>5. CASE pc[running] # "hlt"
    <3>1. Goto(running, pc[running])
      BY <1>5, <2>5, QueueTypes DEF TimerReturns, Goto
    <3> QED BY <1>1, <2>1, <2>2, <2>3, <3>1, GotoQueues
  <2> QED BY <2>4, <2>5
<1> QED BY <1>3, <1>4, <1>5 DEF InterruptStep, TimerInterrupt, TimerSkips

\* thread_create's new thread belongs to its creator.
LEMMA CreateQueues ==
    ASSUME TypeInv, QueueInv, UNCHANGED <<waiters, holding, sleepingThreadList>>,
           NEW t \in Thread, NEW u \in Thread, NEW p \in NewPriorities, CreateInit(t, u, p)
    PROVE  QueueInv'
<1>1. /\ t # Idle /\ status[u] = "NONE" /\ p \in Priority /\ "run" \in Label
      /\ NULL \notin Thread /\ tid_lock \in Sema /\ Sema \cap Thread = {}
  BY KernelAssumption, SynchAssumption, SchedulerAssumption DEF CreateInit, Label
<1>2. t = running /\ status[t] = "RUNNING" /\ child[t] = NULL /\ \A c \in Thread : child[c] # t
  BY <1>1, Acts DEF CreateInit
<1>3. u # t /\ u # Idle /\ pc[u] = "dead" /\ ret[u] = "run" /\ child[u] = NULL
  BY <1>1, <1>2 DEF QueueInv, PlacesOK, ChildrenOK
<1>4. ReadyOK' /\ status'[u] = "BLOCKED" /\ \A v \in Thread \ {u} : Kept(v)
  BY <1>1, <1>3, QueueTypes, StayQueues DEF CreateInit
<1>5. /\ pc'[t] = "call_down" /\ pc'[u] = "run" /\ \A v \in Thread \ {t, u} : pc'[v] = pc[v]
      /\ ret'[t] = "tid_read" /\ \A v \in Thread \ {t} : ret'[v] = ret[v]
      /\ obj'[t] = tid_lock /\ \A v \in Thread \ {t} : obj'[v] = obj[v]
      /\ child'[t] = u /\ \A v \in Thread \ {t} : child'[v] = child[v]
  BY <1>3, QueueTypes DEF CreateInit
<1>6. /\ \A s \in Semaphore : OnWaiters(s)' = OnWaiters(s) /\ t \notin OnWaiters(s) /\ u \notin OnWaiters(s)
      /\ OnSleeping' = OnSleeping /\ t \notin OnSleeping /\ u \notin OnSleeping
      /\ \A c \in Thread : child[c] # u
  BY <1>1, <1>2 DEF QueueInv, WaitersOK, SleepingOK, ChildrenOK, OnWaiters, OnSleeping
<1>7. WaitersOK'
  <2>1. ASSUME NEW s \in Semaphore, NEW v \in OnWaiters(s)'
        PROVE  status'[v] = "BLOCKED" /\ pc'[v] = "sema_down" /\ obj'[v] = s
    <3>1. v \in OnWaiters(s) /\ v \in Thread \ {t, u, Idle}
      BY <1>6, <2>1, QueueTypes
    <3> QED BY <1>4, <1>5, <3>1 DEF QueueInv, WaitersOK, Kept
  <2> QED BY <2>1 DEF QueueInv, WaitersOK
<1>8. SleepingOK'
  <2>1. ASSUME NEW v \in OnSleeping'
        PROVE  status'[v] = "BLOCKED" /\ pc'[v] = "sleeping"
    <3>1. v \in OnSleeping /\ v \in Thread \ {t, u, Idle}
      BY <1>6, <2>1, QueueTypes
    <3> QED BY <1>4, <1>5, <3>1 DEF QueueInv, SleepingOK, Kept
  <2> QED BY <2>1 DEF QueueInv, SleepingOK
<1>9. ChildrenOK'
  <2> SUFFICES ASSUME NEW c \in Thread, child'[c] # NULL
               PROVE  /\ ret'[c] \in {"tid_read", "create_unblock"}
                      /\ status'[child'[c]] = "BLOCKED" /\ pc'[child'[c]] = "run" /\ child'[c] # Idle
                      /\ \A d \in Thread \ {c} : child'[d] # child'[c]
    BY DEF ChildrenOK
  <2>1. CASE c = t
    BY <1>3, <1>4, <1>5, <1>6, <2>1
  <2>2. CASE c # t
    <3>1. child'[c] = child[c] /\ child[c] \in Thread \ {t, u, Idle}
      BY <1>2, <1>5, <1>6, <2>2, QueueTypes DEF QueueInv, ChildrenOK
    <3> QED BY <1>4, <1>5, <2>2, <3>1 DEF QueueInv, ChildrenOK, Kept
  <2> QED BY <2>1, <2>2
<1>10. PlacesOK'
  <2>1. pc'[Idle] \in {"run", "hlt"} /\ holding'[Idle] = {}
    BY <1>1, <1>3, <1>5, SchedulerAssumption DEF QueueInv, PlacesOK
  <2>2. \A v \in Thread : status'[v] \in {"NONE", "DYING"} => pc'[v] = "dead"
    BY <1>2, <1>3, <1>4, <1>5 DEF QueueInv, PlacesOK, Kept
  <2>3. /\ \A v \in Thread : pc'[v] \in {"dead", "sleep_push", "sleeping", "hlt"} => ret'[v] = "run"
        /\ \A v \in Thread : pc'[v] \in ReturnLabel => ret'[v] = pc'[v]
    BY <1>3, <1>5 DEF QueueInv, PlacesOK, ReturnLabel
  <2>4. \A v \in Thread : pc'[v] \in {"call_down", "sema_down"} /\ obj'[v] \in Thread => obj'[v] = v
    BY <1>1, <1>5 DEF QueueInv, PlacesOK
  <2> QED BY <2>1, <2>2, <2>3, <2>4 DEF PlacesOK
<1>11. FoundOK'
  <2> SUFFICES ASSUME NEW v \in Thread \ {Idle}, status'[v] = "BLOCKED" PROVE Found(v)'
    BY DEF FoundOK
  <2>1. CASE v = u
    BY <1>5, <2>1 DEF Found
  <2>2. CASE v # u
    <3>1. status[v] = "BLOCKED" /\ v # t
      BY <1>2, <1>4, <2>2 DEF Kept
    <3>2. Found(v) /\ obj'[v] = obj[v]
      BY <1>5, <3>1 DEF QueueInv, FoundOK
    <3> QED BY <1>1, <1>2, <1>5, <1>6, <3>2 DEF Found
  <2> QED BY <2>1, <2>2
<1> QED BY <1>4, <1>7, <1>8, <1>9, <1>10, <1>11 DEF QueueInv

\* thread_exit's thread is on no list and nobody's child.
LEMMA ExitQueues ==
    ASSUME TypeInv, QueueInv, UNCHANGED <<waiters, holding, sleepingThreadList, obj, ret, child>>,
           NEW t \in Thread, ThreadExit(t)
    PROVE  QueueInv'
<1>1. /\ t # Idle /\ t = running /\ status[t] = "RUNNING" /\ child[t] = NULL /\ ret[t] = "run"
      /\ \A c \in Thread : child[c] # t
  <2>1. "run" \in Label /\ "run" \in ReturnLabel
    BY DEF Label, ReturnLabel
  <2> QED BY <2>1, Acts DEF ThreadExit
<1>2. ReadyOK' /\ status'[t] \in {"NONE", "DYING"} /\ \A v \in Thread \ {t} : Kept(v)
  BY <1>1, QueueTypes, SwitchQueues DEF ThreadExit
<1>3. pc'[t] = "dead" /\ \A v \in Thread \ {t} : pc'[v] = pc[v]
  BY QueueTypes DEF ThreadExit, Goto
<1>4. /\ \A s \in Semaphore : OnWaiters(s)' = OnWaiters(s) /\ t \notin OnWaiters(s)
      /\ OnSleeping' = OnSleeping /\ t \notin OnSleeping
  BY <1>1 DEF QueueInv, WaitersOK, SleepingOK, OnWaiters, OnSleeping
<1>5. WaitersOK'
  <2>1. ASSUME NEW s \in Semaphore, NEW v \in OnWaiters(s)'
        PROVE  status'[v] = "BLOCKED" /\ pc'[v] = "sema_down" /\ obj'[v] = s
    <3>1. v \in OnWaiters(s) /\ v \in Thread \ {t, Idle}
      BY <1>4, <2>1, QueueTypes
    <3> QED BY <1>2, <1>3, <3>1 DEF QueueInv, WaitersOK, Kept
  <2> QED BY <2>1 DEF QueueInv, WaitersOK
<1>6. SleepingOK'
  <2>1. ASSUME NEW v \in OnSleeping'
        PROVE  status'[v] = "BLOCKED" /\ pc'[v] = "sleeping"
    <3>1. v \in OnSleeping /\ v \in Thread \ {t, Idle}
      BY <1>4, <2>1, QueueTypes
    <3> QED BY <1>2, <1>3, <3>1 DEF QueueInv, SleepingOK, Kept
  <2> QED BY <2>1 DEF QueueInv, SleepingOK
<1>7. ChildrenOK'
  <2> SUFFICES ASSUME NEW c \in Thread, child[c] # NULL
               PROVE  /\ ret[c] \in {"tid_read", "create_unblock"}
                      /\ status'[child[c]] = "BLOCKED" /\ pc'[child[c]] = "run" /\ child[c] # Idle
                      /\ \A d \in Thread \ {c} : child[d] # child[c]
    BY DEF ChildrenOK
  <2>1. child[c] \in Thread \ {t, Idle}
    BY <1>1, QueueTypes DEF QueueInv, ChildrenOK
  <2> QED BY <1>2, <1>3, <2>1 DEF QueueInv, ChildrenOK, Kept
<1>8. PlacesOK'
  <2>1. pc'[Idle] \in {"run", "hlt"} /\ holding'[Idle] = {}
    BY <1>1, <1>3, SchedulerAssumption DEF QueueInv, PlacesOK
  <2>2. \A v \in Thread : status'[v] \in {"NONE", "DYING"} => pc'[v] = "dead"
    BY <1>2, <1>3 DEF QueueInv, PlacesOK, Kept
  <2>3. /\ \A v \in Thread : pc'[v] \in {"dead", "sleep_push", "sleeping", "hlt"} => ret'[v] = "run"
        /\ \A v \in Thread : pc'[v] \in ReturnLabel => ret'[v] = pc'[v]
    BY <1>1, <1>3 DEF QueueInv, PlacesOK, ReturnLabel
  <2>4. \A v \in Thread : pc'[v] \in {"call_down", "sema_down"} /\ obj'[v] \in Thread => obj'[v] = v
    BY <1>3 DEF QueueInv, PlacesOK
  <2> QED BY <2>1, <2>2, <2>3, <2>4 DEF PlacesOK
<1>9. FoundOK'
  <2> SUFFICES ASSUME NEW v \in Thread \ {Idle}, status'[v] = "BLOCKED" PROVE Found(v)'
    BY DEF FoundOK
  <2>1. v # t /\ status[v] = "BLOCKED"
    BY <1>2 DEF Kept
  <2> QED BY <1>4, <2>1 DEF Found, QueueInv, FoundOK
<1> QED BY <1>2, <1>5, <1>6, <1>7, <1>8, <1>9 DEF QueueInv

\* Creation, yield, priority change, exit and idle keep the queue invariant.
LEMMA ThreadQueues ==
    ASSUME TypeInv, QueueInv, ThreadStep
    PROVE  QueueInv'
<1>1. UNCHANGED <<waiters, holding, sleepingThreadList>> /\ holding'[Idle] = {}
  BY DEF ThreadStep, timerVars, QueueInv, PlacesOK
<1>2. /\ {"run", "yield", "call_release", "tid_read", "tid_write", "create_unblock", "hlt"} \subseteq Label
      /\ {"run", "tid_read", "create_unblock"} \subseteq ReturnLabel
      /\ {"yield", "call_release", "tid_write", "hlt"} \cap ReturnLabel = {}
      /\ NULL \notin Thread
  BY SchedulerAssumption DEF Label, ReturnLabel
<1>3. ASSUME NEW t \in Thread
      PROVE  /\ child[t] # NULL => ret[t] \in {"tid_read", "create_unblock"}
             /\ ret[t] \in ReturnLabel /\ ret[t] \in Label
             /\ ret[t] \notin {"dead", "sleep_push", "sleeping", "hlt", "call_down", "sema_down"}
  BY QueueTypes DEF QueueInv, ChildrenOK, ReturnLabel, Label
<1>4. ASSUME NEW t \in Thread, TidRead(t)
      PROVE  QueueInv'
  <2>1. t = running /\ t # Idle
    BY <1>2, <1>4, Acts DEF TidRead
  <2>2. ReadyOK' /\ \A u \in Thread : Kept(u)
    BY <1>4, QueueTypes, NoSwitchQueues DEF TidRead, schedVars
  <2> QED BY <1>1, <1>2, <1>3, <1>4, <2>1, <2>2, GotoQueues DEF TidRead
<1>5. ASSUME NEW t \in Thread, TidWrite(t)
      PROVE  QueueInv'
  <2>1. t = running /\ t # Idle
    <3>1. "tid_write" \in Label
      BY <1>2
    <3> QED BY <1>5, <3>1, Acts DEF TidWrite
  <2>2. ReadyOK' /\ \A u \in Thread : Kept(u)
    BY <1>5, QueueTypes, NoSwitchQueues DEF TidWrite, schedVars
  <2>3. /\ ret'[t] = "create_unblock" /\ child' = child /\ Goto(t, "call_release")
        /\ \A u \in Thread \ {t} : obj'[u] = obj[u] /\ ret'[u] = ret[u]
    BY <1>5, QueueTypes DEF TidWrite
  <2> QED BY <1>1, <1>2, <2>1, <2>2, <2>3, GotoQueues
<1>6. ASSUME NEW t \in Thread, CreateUnblock(t)
      PROVE  QueueInv'
  <2> DEFINE u == child[t]
  <2>1. t = running /\ t # Idle /\ pc[t] = "create_unblock"
    BY <1>2, <1>6, Acts DEF CreateUnblock
  <2>2. u \in Thread /\ u # NULL
    BY <1>2, <2>1 DEF TypeInv, ArgsOK, MakesChild
  <2>3. status[u] = "BLOCKED" /\ pc[u] = "run" /\ u # Idle /\ \A c \in Thread \ {t} : child[c] # u
    BY <2>2 DEF QueueInv, ChildrenOK
  <2>4. /\ Unblock(u) /\ obj' = obj
        /\ pc' \in [Thread -> Label] /\ pc'[t] \in {"yield", "run"} /\ ret'[t] = "run" /\ child'[t] = NULL
        /\ \A v \in Thread \ {t} : pc'[v] = pc[v] /\ ret'[v] = ret[v] /\ child'[v] = child[v]
    BY <1>2, <1>6, QueueTypes DEF CreateUnblock, Goto
  <2>5. /\ IsInjective(sleepingThreadList') /\ OnSleeping' = OnSleeping \ {u}
        /\ \A s \in Semaphore : IsInjective(waiters'[s]) /\ OnWaiters(s)' = OnWaiters(s) \ {u}
    <3>1. u \notin OnSleeping /\ \A s \in Semaphore : u \notin OnWaiters(s)
      BY <2>3 DEF QueueInv, SleepingOK, WaitersOK
    <3> QED BY <1>1, <3>1 DEF QueueInv, SleepingOK, WaitersOK, OnSleeping, OnWaiters
  <2>6. \A c \in Thread : /\ child'[c] = IF child[c] = u THEN NULL ELSE child[c]
                          /\ child'[c] # NULL => ret'[c] = ret[c]
    BY <2>3, <2>4
  <2> HIDE DEF u
  <2> QED BY <1>1, <2>1, <2>2, <2>3, <2>4, <2>5, <2>6, WakeQueues
<1>7. ASSUME NEW t \in Thread, ThreadYield(t)
      PROVE  QueueInv'
  <2>1. t = running /\ t # Idle
    BY <1>2, <1>7, Acts DEF ThreadYield
  <2>2. ReadyOK' /\ \A u \in Thread : Kept(u)
    BY <1>7, <2>1, QueueTypes, SwitchQueues DEF ThreadYield
  <2> QED BY <1>1, <1>3, <1>7, <2>1, <2>2, GotoQueues DEF ThreadYield, createVars
<1>8. ASSUME NEW t \in Thread, NEW p \in NewPriorities, ThreadSetPriority(t, p)
      PROVE  QueueInv'
  <2>1. t = running /\ t # Idle /\ ret[t] = "run"
    BY <1>2, <1>8, Acts DEF ThreadSetPriority
  <2>2. ReadyOK' /\ \A u \in Thread : Kept(u)
    BY <1>8, QueueTypes, NoSwitchQueues DEF ThreadSetPriority
  <2>3. PICK l \in {"run", "yield"} : Goto(t, l)
    BY <1>8 DEF ThreadSetPriority
  <2> QED BY <1>1, <1>2, <1>3, <1>8, <2>1, <2>2, <2>3, GotoQueues DEF ThreadSetPriority, createVars
<1>9. ASSUME IdleBlock
      PROVE  QueueInv'
  <2>1. Idle \in Thread /\ Idle = running /\ ret[Idle] = "run" /\ child[Idle] = NULL
    BY <1>2, <1>9, Acts, SchedulerAssumption DEF IdleBlock
  <2>2. ReadyOK' /\ \A u \in Thread : Kept(u)
    BY <1>9, <2>1, QueueTypes, SwitchQueues DEF IdleBlock
  <2> QED BY <1>1, <1>2, <1>9, <2>1, <2>2, GotoQueues DEF IdleBlock, createVars
<1> QED BY <1>1, <1>4, <1>5, <1>6, <1>7, <1>8, <1>9, CreateQueues, ExitQueues DEF ThreadStep, ThreadExit, createVars

\* The queue invariant holds after thread_start.
LEMMA InitQueues == Init => QueueInv
<1> SUFFICES ASSUME Init PROVE QueueInv
  OBVIOUS
<1>1. ToSet(<<>>) = {} /\ IsInjective(<<>>)
  BY DEF ToSet, IsInjective
<1>2. ReadyOK
  BY <1>1, SchedulerAssumption DEF Init, SchedInit, ReadyOK, OnReady
<1>3. WaitersOK /\ SleepingOK /\ ChildrenOK
  BY <1>1 DEF Init, SynchInit, TimerInit, WaitersOK, SleepingOK, ChildrenOK, OnWaiters, OnSleeping
<1>4. PlacesOK
  BY SchedulerAssumption DEF Init, SchedInit, SynchInit, PlacesOK, ReturnLabel
<1>5. FoundOK
  BY DEF Init, SchedInit, FoundOK
<1> QED BY <1>2, <1>3, <1>4, <1>5 DEF QueueInv

\* A step that changes nothing keeps the queue invariant.
LEMMA StutterQueues == QueueInv /\ UNCHANGED vars => QueueInv'
BY DEF vars, schedVars, synchVars, timerVars, createVars, QueueInv, ReadyOK, WaitersOK, SleepingOK, ChildrenOK,
       PlacesOK, FoundOK, Found, OnReady, OnWaiters, OnSleeping

\* Whatever the threads do, every thread is where its status says.
THEOREM Queues == Spec => []QueueInv
<1>1. TypeInv /\ QueueInv /\ [Next]_vars => QueueInv'
  BY SynchQueues, ConditionQueues, SleepStepQueues, InterruptQueues, ThreadQueues, StutterQueues DEF Next
<1> QED BY <1>1, InitQueues, Typing, PTL DEF Spec

\* struct thread's one list element is never asked to be on two lists: the claim
\* of thread.h:83-88, with timer.c's sleeping list added.
THEOREM ListElement == Spec => []ElemExclusive
<1>1. TypeInv /\ QueueInv => ElemExclusive
  <2> SUFFICES ASSUME TypeInv, QueueInv PROVE ElemExclusive
    OBVIOUS
  <2>1. \A t \in OnReady : t \in Thread
    BY DEF TypeInv, TypeOK, SchedTypeOK, OnReady, ToSet
  <2>2. \A s \in Semaphore : \A t \in OnWaiters(s) :
          /\ status[t] = "BLOCKED" /\ t \notin OnSleeping
          /\ \A r \in Semaphore \ {s} : t \notin OnWaiters(r)
    BY DEF QueueInv, WaitersOK, SleepingOK
  <2> QED BY <2>1, <2>2 DEF ElemExclusive, QueueInv, ReadyOK, WaitersOK, SleepingOK
<1> QED BY <1>1, Typing, Queues, PTL

\* No thread is lost: exactly one runs, and all that are ready or blocked are where
\* the scheduler, a sema_up, the timer or their creator will find them.
THEOREM NobodyLost == Spec => []NoThreadLost
<1>1. TypeInv /\ QueueInv => NoThreadLost
  <2> SUFFICES ASSUME TypeInv, QueueInv, NEW t \in Thread
               PROVE  /\ status[t] = "RUNNING" <=> t = running
                      /\ status[t] = "READY" /\ t # Idle => t \in OnReady
                      /\ status[t] = "BLOCKED" /\ t # Idle =>
                           \/ \E s \in Semaphore : t \in OnWaiters(s) /\ pc[t] = "sema_down" /\ obj[t] = s
                           \/ t \in OnSleeping /\ pc[t] = "sleeping"
                           \/ \E c \in Thread : child[c] = t
    BY DEF NoThreadLost
  <2>1. ASSUME status[t] = "BLOCKED", t # Idle
        PROVE  \/ \E s \in Semaphore : t \in OnWaiters(s) /\ pc[t] = "sema_down" /\ obj[t] = s
               \/ t \in OnSleeping /\ pc[t] = "sleeping"
               \/ \E c \in Thread : child[c] = t
    BY <2>1 DEF QueueInv, FoundOK, Found, WaitersOK, SleepingOK
  <2> QED BY <2>1 DEF QueueInv, ReadyOK
<1> QED BY <1>1, Typing, Queues, PTL
============================================================================
