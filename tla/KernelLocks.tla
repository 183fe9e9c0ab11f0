---------------------------- MODULE KernelLocks -----------------------------
(***************************************************************************)
(* Proofs about Kernel: who owns a lock.  lock_acquire takes the unit of   *)
(* the semaphore first and sets the holder later, lock_release clears the  *)
(* holder first and puts the unit back later, and the thread may lose the  *)
(* CPU in between: ownership (Owns in Kernel) spans both stretches, and    *)
(* the unit is missing exactly as long as somebody owns the lock.  From    *)
(* that follow mutual exclusion, the refinement of Mutex, and that tids,   *)
(* which tid_lock protects, are unique.  The same account is kept of the   *)
(* semaphores that cond_wait brings along: no signal is lost, and kernels  *)
(* that use locks and monitors only do not panic in sema_up.               *)
(***************************************************************************)
EXTENDS KernelProofs

\* Where a thread stands in its calls decides what it has to do with locks:
\* what it is about to release it holds, what it has begun to release it does
\* not, and between the two halves of next_tid++ it holds tid_lock.
ThreadLocks(t) ==
    /\ \A l \in holding[t] : holder[l] = t
    /\ pc[t] = "call_release" => obj[t] \in holding[t]
    /\ pc[t] = "sema_up" => obj[t] \notin holding[t]
    /\ pc[t] \in {"tid_read", "tid_write"} => tid_lock \in holding[t]
    /\ ret[t] = "tid_read" =>
         \/ pc[t] \in {"tid_read", "tid_write"}
         \/ pc[t] \in {"call_down", "sema_down", "set_holder"} /\ obj[t] = tid_lock

\* The unit of a lock's semaphore is there, or one thread has it.
LockInv ==
    /\ \A l \in Lock : value[l] \in {0, 1}
    /\ \A l \in Lock : \A t \in Thread : Owns(t, l) =>
         value[l] = 0 /\ \A u \in Thread : Owns(u, l) => u = t
    /\ \A t \in Thread : ThreadLocks(t)

\* What each step is shown to do: keep the invariant, and do to the locks what
\* the abstract lock allows.
KeepsLocks == LockInv' /\ [AbstractMutex!Next]_Owner

----------------------------------------------------------------------------
(* The owner of a lock before and after a step.                            *)

\* Owner names the owner, of whom there is at most one.
LEMMA OwnerIs ==
    ASSUME NEW l \in Lock
    PROVE  /\ LockInv => \A t \in Thread : Owns(t, l) => Owner[l] = t
           /\ (\A t \in Thread : ~Owns(t, l)) => Owner[l] = NULL
           /\ LockInv' => \A t \in Thread : Owns(t, l)' => Owner'[l] = t
           /\ (\A t \in Thread : ~Owns(t, l)') => Owner'[l] = NULL
<1>1. ASSUME LockInv, NEW t \in Thread, Owns(t, l) PROVE Owner[l] = t
  <2>1. (CHOOSE u \in Thread : Owns(u, l)) = t
    BY <1>1 DEF LockInv
  <2> QED BY <1>1, <2>1 DEF Owner
<1>2. ASSUME LockInv', NEW t \in Thread, Owns(t, l)' PROVE Owner'[l] = t
  <2>1. (CHOOSE u \in Thread : Owns(u, l)') = t
    BY <1>2 DEF LockInv
  <2> QED BY <1>2, <2>1 DEF Owner
<1> QED BY <1>1, <1>2 DEF Owner

\* Threads other than t keep their hands off the locks; a page may become a
\* thread.
Others(t) ==
    \A u \in Thread \ {t} :
        /\ obj'[u] = obj[u] /\ ret'[u] = ret[u] /\ holding'[u] = holding[u]
        /\ \A l \in holding[u] : holder'[l] = holder[l]
        /\ pc'[u] = pc[u] \/ (pc[u] = "dead" /\ pc'[u] = "run" /\ ret[u] = "run")

\* They own what they owned.
LEMMA OthersKeep ==
    ASSUME LockInv, NEW t \in Thread, Others(t), NEW u \in Thread \ {t}
    PROVE  ThreadLocks(u)' /\ \A l \in Lock : Owns(u, l)' <=> Owns(u, l)
BY DEF LockInv, ThreadLocks, Owns, Others

\* A step of t that takes no lock and gives none back.
LEMMA KeepStep ==
    ASSUME LockInv, NEW t \in Thread, Others(t), ThreadLocks(t)',
           \A l \in Lock : value'[l] = value[l] /\ (Owns(t, l)' <=> Owns(t, l))
    PROVE  KeepsLocks
<1>1. \A u \in Thread : ThreadLocks(u)' /\ \A l \in Lock : Owns(u, l)' <=> Owns(u, l)
  BY OthersKeep
<1>2. LockInv'
  BY <1>1 DEF LockInv
<1>3. \A l \in Lock : Owner'[l] = Owner[l]
  <2> SUFFICES ASSUME NEW l \in Lock PROVE Owner'[l] = Owner[l]
    OBVIOUS
  <2>1. CASE \E u \in Thread : Owns(u, l)
    BY <1>1, <1>2, <2>1, OwnerIs
  <2>2. CASE \A u \in Thread : ~Owns(u, l)
    BY <1>1, <2>2, OwnerIs
  <2> QED BY <2>1, <2>2
<1>4. Owner' = Owner
  BY <1>3 DEF Owner
<1> QED BY <1>2, <1>4 DEF KeepsLocks

\* A step by which t takes the unit of lock k's semaphore.
LEMMA AcquireStep ==
    ASSUME LockInv, NEW t \in Thread, Others(t), ThreadLocks(t)', NEW k \in Lock,
           value[k] = 1, value'[k] = 0, Owns(t, k)',
           \A l \in Lock \ {k} : value'[l] = value[l] /\ (Owns(t, l)' <=> Owns(t, l))
    PROVE  KeepsLocks
<1>1. \A u \in Thread \ {t} : ThreadLocks(u)' /\ \A l \in Lock : Owns(u, l)' <=> Owns(u, l)
  BY OthersKeep
<1>2. \A u \in Thread : ~Owns(u, k)
  BY DEF LockInv
<1>3. LockInv'
  BY <1>1, <1>2 DEF LockInv
<1>4. Owner[k] = NULL /\ Owner'[k] = t
  BY <1>2, <1>3, OwnerIs
<1>5. \A l \in Lock \ {k} : Owner'[l] = Owner[l]
  <2> SUFFICES ASSUME NEW l \in Lock \ {k} PROVE Owner'[l] = Owner[l]
    OBVIOUS
  <2>1. CASE \E u \in Thread : Owns(u, l)
    BY <1>1, <1>3, <2>1, OwnerIs
  <2>2. CASE \A u \in Thread : ~Owns(u, l)
    BY <1>1, <2>2, OwnerIs
  <2> QED BY <2>1, <2>2
<1>6. Owner' = [Owner EXCEPT ![k] = t]
  <2>1. /\ Owner = [l \in Lock |-> Owner[l]]
        /\ Owner' = [l \in Lock |-> Owner'[l]]
    BY DEF Owner
  <2> QED BY <1>4, <1>5, <2>1
<1> QED BY <1>3, <1>4, <1>6 DEF KeepsLocks, AbstractMutex!Next, AbstractMutex!Acquire

\* A step by which t, its owner, puts back the unit of lock k's semaphore.
LEMMA ReleaseStep ==
    ASSUME LockInv, NEW t \in Thread, Others(t), ThreadLocks(t)', NEW k \in Lock,
           value'[k] = 1, Owns(t, k), ~Owns(t, k)',
           \A l \in Lock \ {k} : value'[l] = value[l] /\ (Owns(t, l)' <=> Owns(t, l))
    PROVE  KeepsLocks
<1>1. \A u \in Thread \ {t} : ThreadLocks(u)' /\ \A l \in Lock : Owns(u, l)' <=> Owns(u, l)
  BY OthersKeep
<1>2. \A u \in Thread : ~Owns(u, k)'
  BY <1>1 DEF LockInv
<1>3. LockInv'
  BY <1>1, <1>2 DEF LockInv
<1>4. Owner[k] = t /\ Owner'[k] = NULL
  BY <1>2, OwnerIs
<1>5. \A l \in Lock \ {k} : Owner'[l] = Owner[l]
  <2> SUFFICES ASSUME NEW l \in Lock \ {k} PROVE Owner'[l] = Owner[l]
    OBVIOUS
  <2>1. CASE \E u \in Thread : Owns(u, l)
    BY <1>1, <1>3, <2>1, OwnerIs
  <2>2. CASE \A u \in Thread : ~Owns(u, l)
    BY <1>1, <2>2, OwnerIs
  <2> QED BY <2>1, <2>2
<1>6. Owner' = [Owner EXCEPT ![k] = NULL]
  <2>1. /\ Owner = [l \in Lock |-> Owner[l]]
        /\ Owner' = [l \in Lock |-> Owner'[l]]
    BY DEF Owner
  <2> QED BY <1>4, <1>5, <2>1
<1> QED BY <1>3, <1>4, <1>6 DEF KeepsLocks, AbstractMutex!Next, AbstractMutex!Release

----------------------------------------------------------------------------
(* The steps, group by group.                                              *)

\* The typing facts that the steps below use.
LEMMA LockTypes ==
    ASSUME TypeInv, QueueInv
    PROVE  /\ pc \in [Thread -> Label] /\ ret \in [Thread -> ReturnLabel]
           /\ obj \in [Thread -> Semaphore \cup {NULL}]
           /\ value \in [Semaphore -> Nat] /\ holder \in [Lock -> Thread \cup {NULL}]
           /\ holding \in [Thread -> SUBSET Lock]
           /\ Lock \subseteq Semaphore /\ Lock \cap Thread = {} /\ NULL \notin Lock
           /\ tid_lock \in Lock /\ Thread \subseteq Semaphore
           /\ \A t \in Thread : pc[t] \in ReturnLabel => ret[t] = pc[t]
           /\ \A t \in Thread : pc[t] = "set_holder" => obj[t] \in Lock
BY TypeInvParts, SynchAssumption
   DEF TypeInv, TypeOK, SynchTypeOK, ControlTypeOK, ArgsOK, QueueInv, PlacesOK, Semaphore

\* Semaphores and locks.
LEMMA SynchLocks ==
    ASSUME TypeInv, QueueInv, LockInv, SynchStep
    PROVE  KeepsLocks
<1>1. ASSUME NEW t \in Thread, NEW s \in Semaphore, SemaDownBlocks(t, s)
      PROVE  KeepsLocks
  <2>1. Others(t) /\ \A l \in Lock : value'[l] = value[l] /\ (Owns(t, l)' <=> Owns(t, l))
    BY <1>1, LockTypes DEF SemaDownBlocks, InSemaDown, At, Goto, Others, Owns
  <2>2. ThreadLocks(t)'
    BY <1>1, LockTypes DEF SemaDownBlocks, InSemaDown, At, Goto, ThreadLocks, LockInv, ReturnLabel
  <2> QED BY <2>1, <2>2, KeepStep
<1>2. ASSUME NEW t \in Thread, NEW s \in Semaphore, SemaDownTakes(t, s)
      PROVE  KeepsLocks
  <2>1. Others(t)
    BY <1>2, LockTypes DEF SemaDownTakes, InSemaDown, At, Goto, Others
  <2>2. ThreadLocks(t)'
    BY <1>2, LockTypes DEF SemaDownTakes, InSemaDown, At, Goto, ThreadLocks, LockInv, ReturnLabel
  <2>3. CASE s \in Lock
    <3>1. value[s] = 1 /\ value'[s] = 0 /\ Owns(t, s)'
      BY <1>2, <2>3, LockTypes DEF SemaDownTakes, Goto, LockInv, Owns
    <3>2. \A l \in Lock \ {s} : value'[l] = value[l] /\ (Owns(t, l)' <=> Owns(t, l))
      BY <1>2, <2>3, LockTypes DEF SemaDownTakes, InSemaDown, At, Goto, Owns
    <3> QED BY <2>1, <2>2, <2>3, <3>1, <3>2, AcquireStep
  <2>4. CASE s \notin Lock
    <3>1. \A l \in Lock : value'[l] = value[l] /\ (Owns(t, l)' <=> Owns(t, l))
      BY <1>2, <2>4, LockTypes DEF SemaDownTakes, InSemaDown, At, Goto, Owns, ReturnLabel
    <3> QED BY <2>1, <2>2, <3>1, KeepStep
  <2> QED BY <2>3, <2>4
<1>3. ASSUME NEW t \in Thread, NEW s \in Semaphore, InSemaUp(t, s),
             value' = [value EXCEPT ![s] = @ + 1], obj' = [obj EXCEPT ![t] = NULL],
             Goto(t, "yield"), UNCHANGED <<ret, holder, holding>>
      PROVE  KeepsLocks
  <2>1. Others(t)
    BY <1>3, LockTypes DEF Goto, Others
  <2>2. ThreadLocks(t)'
    BY <1>3, LockTypes DEF InSemaUp, At, Goto, ThreadLocks, LockInv, ReturnLabel
  <2>3. CASE s \in Lock
    <3>1. pc[t] = "sema_up" /\ obj[t] = s /\ Owns(t, s)
      BY <1>3, <2>3 DEF InSemaUp, At, Owns
    <3>2. value'[s] = 1 /\ ~Owns(t, s)'
      <4>1. value[s] = 0 /\ s \notin holding[t]
        BY <2>3, <3>1 DEF LockInv, ThreadLocks
      <4> QED BY <1>3, <4>1, LockTypes DEF Goto, Owns
    <3>3. \A l \in Lock \ {s} : value'[l] = value[l] /\ (Owns(t, l)' <=> Owns(t, l))
      BY <1>3, <3>1, LockTypes DEF Goto, Owns
    <3> QED BY <2>1, <2>2, <2>3, <3>1, <3>2, <3>3, ReleaseStep
  <2>4. CASE s \notin Lock
    <3>1. \A l \in Lock : value'[l] = value[l] /\ (Owns(t, l)' <=> Owns(t, l))
      BY <1>3, <2>4, LockTypes DEF InSemaUp, At, Goto, Owns
    <3> QED BY <2>1, <2>2, <3>1, KeepStep
  <2> QED BY <2>3, <2>4
<1>4. ASSUME NEW t \in Thread, NEW s \in Semaphore, SemaUpNoWaiter(t, s) \/ SemaUpWakes(t, s)
      PROVE  KeepsLocks
  BY <1>3, <1>4 DEF SemaUpNoWaiter, SemaUpWakes
<1>5. ASSUME NEW t \in Thread, NEW s \in Semaphore, SemaUpPanics(t, s)
      PROVE  KeepsLocks
  <2>1. Others(t) /\ \A l \in Lock : value'[l] = value[l] /\ (Owns(t, l)' <=> Owns(t, l))
    BY <1>5 DEF SemaUpPanics, synchVars, Others, Owns
  <2>2. ThreadLocks(t)'
    BY <1>5 DEF SemaUpPanics, synchVars, ThreadLocks, LockInv
  <2> QED BY <2>1, <2>2, KeepStep
<1>6. ASSUME NEW t \in Thread, NEW l \in Lock, LockRelease(t, l)
      PROVE  KeepsLocks
  <2>1. l \in holding[t] /\ holder[l] = t
    BY <1>6 DEF LockRelease, At, LockInv, ThreadLocks
  <2>2. \A u \in Thread \ {t} : l \notin holding[u]
    BY <2>1, LockTypes DEF LockInv, Owns
  <2>3. Others(t)
    BY <1>6, <2>2, LockTypes DEF LockRelease, Goto, Others
  <2>4. ThreadLocks(t)'
    BY <1>6, LockTypes DEF LockRelease, At, Goto, ThreadLocks, LockInv, ReturnLabel
  <2>5. \A k \in Lock : value'[k] = value[k] /\ (Owns(t, k)' <=> Owns(t, k))
    BY <1>6, <2>1, LockTypes DEF LockRelease, At, Goto, Owns
  <2> QED BY <2>3, <2>4, <2>5, KeepStep
<1>7. ASSUME NEW t \in Thread, SetHolder(t)
      PROVE  KeepsLocks
  <2>1. obj[t] \in Lock /\ Owns(t, obj[t]) /\ pc[t] = "set_holder"
    BY <1>7, LockTypes DEF SetHolder, At, Owns
  <2>2. \A u \in Thread \ {t} : obj[t] \notin holding[u]
    BY <2>1, LockTypes DEF LockInv, Owns
  <2>3. Others(t)
    BY <1>7, <2>2, LockTypes DEF SetHolder, Goto, Others
  <2>4. ThreadLocks(t)'
    BY <1>7, <2>1, LockTypes DEF SetHolder, Goto, ThreadLocks, LockInv, ReturnLabel
  <2>5. \A k \in Lock : value'[k] = value[k] /\ (Owns(t, k)' <=> Owns(t, k))
    BY <1>7, <2>1, LockTypes DEF SetHolder, Goto, Owns, ReturnLabel
  <2> QED BY <2>3, <2>4, <2>5, KeepStep
<1> QED BY <1>1, <1>2, <1>4, <1>5, <1>6, <1>7 DEF SynchStep

\* Condition variables: their calls of lock_release and lock_acquire are steps
\* of Synch, and the semaphores they raise are no locks.
LEMMA ConditionLocks ==
    ASSUME TypeInv, QueueInv, LockInv, ConditionStep
    PROVE  KeepsLocks
<1>1. ASSUME NEW t \in Thread, NEW l \in Label, NEW r \in ReturnLabel,
             pc[t] \in ReturnLabel \ {"tid_read", "create_unblock"},
             Goto(t, l), l \in {"call_down", "call_release", "sema_up", "run"},
             ret' = [ret EXCEPT ![t] = r], r # "tid_read",
             \A u \in Thread \ {t} : obj'[u] = obj[u],
             l = "call_release" => obj'[t] \in holding[t],
             l = "sema_up" => obj'[t] \in Thread,
             \A k \in Lock : value'[k] = value[k],
             UNCHANGED <<holder, holding>>
      PROVE  KeepsLocks
  <2>1. Others(t)
    BY <1>1, LockTypes DEF Goto, Others
  <2>2. ThreadLocks(t)'
    BY <1>1, LockTypes DEF Goto, ThreadLocks, LockInv
  <2>3. \A k \in Lock : Owns(t, k)' <=> Owns(t, k)
    BY <1>1, LockTypes DEF Goto, Owns, ReturnLabel
  <2> QED BY <1>1, <2>1, <2>2, <2>3, KeepStep
<1>2. /\ {"run", "call_down", "call_release", "sema_up"} \subseteq Label
      /\ {"run", "cond_down", "cond_acquire", "cond_broadcast"} \subseteq ReturnLabel \ {"tid_read", "create_unblock"}
  BY DEF Label, ReturnLabel
<1>3. ASSUME NEW t \in Thread, CondDown(t) PROVE KeepsLocks
  BY <1>1, <1>2, <1>3, LockTypes DEF CondDown, At
<1>4. ASSUME NEW t \in Thread, CondAcquire(t) PROVE KeepsLocks
  BY <1>1, <1>2, <1>4, LockTypes DEF CondAcquire, At
<1>5. ASSUME NEW t \in Thread, NEW l \in Cond, CondWait(t, l) PROVE KeepsLocks
  <2>1. \A k \in Lock : value'[k] = value[k]
    BY <1>5, LockTypes DEF CondWait
  <2>2. obj'[t] \in holding[t] /\ \A u \in Thread \ {t} : obj'[u] = obj[u]
    BY <1>5, LockTypes DEF CondWait
  <2> QED BY <1>1, <1>2, <1>5, <2>1, <2>2 DEF CondWait, At
<1>6. ASSUME NEW t \in Thread, NEW l \in Cond, PopWaiter(t, l)
      PROVE  obj'[t] \in Thread /\ \A u \in Thread \ {t} : obj'[u] = obj[u]
  <2>1. condWaiters[l] \in Seq(Thread)
    BY DEF TypeInv, TypeOK, CondTypeOK
  <2>2. Head(condWaiters[l]) \in Thread
    BY <1>6, <2>1, HeadTailProperties DEF PopWaiter
  <2> QED BY <1>6, <2>2, LockTypes DEF PopWaiter
<1>7. ASSUME NEW t \in Thread, NEW l \in Cond, CondSignal(t, l) PROVE KeepsLocks
  <2>1. pc[t] = "run" /\ ret[t] = "run" /\ ret' = [ret EXCEPT ![t] = "run"]
    BY <1>7, LockTypes DEF CondSignal, At, ReturnLabel
  <2> QED BY <1>1, <1>2, <1>6, <1>7, <2>1 DEF CondSignal, PopWaiter
<1>8. ASSUME NEW t \in Thread, NEW l \in Cond, CondBroadcast(t, l) PROVE KeepsLocks
  BY <1>1, <1>2, <1>6, <1>8 DEF CondBroadcast, PopWaiter, At
<1>9. ASSUME NEW t \in Thread, BroadcastDone(t) PROVE KeepsLocks
  BY <1>1, <1>2, <1>9 DEF BroadcastDone, At, synchVars
<1> QED BY <1>3, <1>4, <1>5, <1>7, <1>8, <1>9 DEF ConditionStep

\* A step of t that leaves the semaphores and its own place in their code alone.
LEMMA ElsewhereStep ==
    ASSUME TypeInv, QueueInv, LockInv, NEW t \in Thread, NEW l \in Label, Goto(t, l),
           pc[t] \notin {"set_holder", "sema_up"},
           l \notin {"set_holder", "sema_up", "call_release", "tid_read", "tid_write"},
           ret[t] # "tid_read",
           UNCHANGED <<ret, obj, value, holder, holding>>
    PROVE  KeepsLocks
<1>1. Others(t)
  BY LockTypes DEF Goto, Others
<1>2. ThreadLocks(t)'
  BY LockTypes DEF Goto, ThreadLocks, LockInv
<1>3. \A k \in Lock : value'[k] = value[k] /\ (Owns(t, k)' <=> Owns(t, k))
  BY LockTypes DEF Goto, Owns
<1> QED BY <1>1, <1>2, <1>3, KeepStep

\* timer_sleep has nothing to do with locks.
LEMMA SleepLocks ==
    ASSUME TypeInv, QueueInv, LockInv, SleepStep
    PROVE  KeepsLocks
<1>1. {"run", "sleep_push", "sleeping"} \subseteq Label /\ UNCHANGED <<obj, value, holder, holding>>
  BY DEF Label, SleepStep, synchVars
<1>2. ASSUME NEW t \in Thread, SleepReadClock(t) PROVE KeepsLocks
  BY <1>1, <1>2, LockTypes, ElsewhereStep DEF SleepReadClock, At, ReturnLabel
<1>3. ASSUME NEW t \in Thread, NEW n \in SleepTicks, SleepBlock(t, n) PROVE KeepsLocks
  <2>1. ret[t] = "run"
    BY <1>3 DEF SleepBlock, At, QueueInv, PlacesOK
  <2> QED BY <1>1, <1>3, <2>1, ElsewhereStep DEF SleepBlock, At
<1>4. ASSUME NEW t \in Thread, SleepReturn(t) PROVE KeepsLocks
  <2>1. ret[t] = "run"
    BY <1>4 DEF SleepReturn, At, QueueInv, PlacesOK
  <2> QED BY <1>1, <1>4, <2>1, ElsewhereStep DEF SleepReturn, At
<1> QED BY <1>2, <1>3, <1>4 DEF SleepStep

\* A step that leaves the locks and every control point alone.
LEMMA StutterLocks ==
    LockInv /\ UNCHANGED <<pc, ret, obj, value, holder, holding>> => KeepsLocks
BY DEF LockInv, ThreadLocks, Owns, Owner, KeepsLocks

\* Nor has the timer interrupt.
LEMMA InterruptLocks ==
    ASSUME TypeInv, QueueInv, LockInv, InterruptStep
    PROVE  KeepsLocks
<1>1. UNCHANGED <<ret, obj, value, holder, holding>>
  BY DEF InterruptStep, TimerInterrupt, TimerSkips, TimerWakes, TimerReturns, synchVars
<1>2. CASE UNCHANGED pc
  BY <1>1, <1>2, StutterLocks
<1>3. CASE pc[running] = "hlt" /\ Goto(running, "run")
  <2>1. running \in Thread /\ ret[running] = "run" /\ "run" \in Label
    BY <1>3 DEF TypeInv, TypeOK, SchedTypeOK, QueueInv, PlacesOK, Label
  <2> QED BY <1>1, <1>3, <2>1, ElsewhereStep
<1> QED BY <1>2, <1>3 DEF InterruptStep, TimerInterrupt, TimerSkips, TimerWakes, TimerReturns

\* thread_create takes tid_lock by the book; the other steps of ThreadStep do
\* not touch locks.
LEMMA ThreadLocking ==
    ASSUME TypeInv, QueueInv, LockInv, ThreadStep
    PROVE  KeepsLocks
<1>1. UNCHANGED <<value, holder, holding>>
  BY DEF ThreadStep
<1>2. /\ ReturnLabel \subseteq Label /\ {"run", "yield", "dead", "hlt"} \subseteq Label
      /\ {"set_holder", "sema_up", "call_release", "tid_write"} \cap ReturnLabel = {}
      /\ {"run", "tid_read", "create_unblock"} \subseteq ReturnLabel
  BY DEF Label, ReturnLabel
<1>3. ASSUME NEW t \in Thread, NEW u \in Thread, NEW p \in NewPriorities, CreateInit(t, u, p)
      PROVE  KeepsLocks
  <2>1. u # t /\ pc[u] = "dead" /\ ret[u] = "run"
    BY <1>3 DEF CreateInit, At, QueueInv, ReadyOK, PlacesOK
  <2>2. Others(t)
    BY <1>1, <1>3, <2>1, LockTypes DEF CreateInit, Others
  <2>3. ThreadLocks(t)'
    BY <1>1, <1>3, <2>1, LockTypes DEF CreateInit, ThreadLocks, LockInv
  <2>4. \A k \in Lock : value'[k] = value[k] /\ (Owns(t, k)' <=> Owns(t, k))
    BY <1>1, <1>3, <2>1, LockTypes DEF CreateInit, At, Owns
  <2> QED BY <2>2, <2>3, <2>4, KeepStep
<1>4. ASSUME NEW t \in Thread, TidRead(t)
      PROVE  KeepsLocks
  <2>1. Others(t)
    BY <1>1, <1>4, LockTypes DEF TidRead, Goto, Others
  <2>2. ThreadLocks(t)'
    BY <1>1, <1>4, LockTypes DEF TidRead, At, Goto, ThreadLocks, LockInv
  <2>3. \A k \in Lock : value'[k] = value[k] /\ (Owns(t, k)' <=> Owns(t, k))
    BY <1>1, <1>4, LockTypes DEF TidRead, At, Goto, Owns
  <2> QED BY <2>1, <2>2, <2>3, KeepStep
<1>5. ASSUME NEW t \in Thread, TidWrite(t)
      PROVE  KeepsLocks
  <2>1. Others(t)
    BY <1>1, <1>5, LockTypes DEF TidWrite, Goto, Others
  <2>2. ThreadLocks(t)'
    BY <1>1, <1>5, LockTypes DEF TidWrite, At, Goto, ThreadLocks, LockInv
  <2>3. \A k \in Lock : value'[k] = value[k] /\ (Owns(t, k)' <=> Owns(t, k))
    BY <1>1, <1>5, LockTypes DEF TidWrite, At, Goto, Owns
  <2> QED BY <2>1, <2>2, <2>3, KeepStep
<1>6. ASSUME NEW t \in Thread, CreateUnblock(t)
      PROVE  KeepsLocks
  <2>1. PICK l \in {"yield", "run"} : Goto(t, l)
    BY <1>6 DEF CreateUnblock
  <2>2. Others(t)
    BY <1>1, <1>6, <2>1, LockTypes DEF CreateUnblock, Goto, Others
  <2>3. ThreadLocks(t)'
    BY <1>1, <1>6, <2>1, LockTypes DEF CreateUnblock, Goto, ThreadLocks, LockInv
  <2>4. \A k \in Lock : value'[k] = value[k] /\ (Owns(t, k)' <=> Owns(t, k))
    BY <1>1, <1>6, <2>1, LockTypes DEF CreateUnblock, At, Goto, Owns
  <2> QED BY <2>2, <2>3, <2>4, KeepStep
<1>7. ASSUME NEW t \in Thread, ThreadYield(t)
      PROVE  KeepsLocks
  <2>1. ret[t] \in ReturnLabel \ {"tid_read"}
    BY <1>2, <1>7, LockTypes DEF ThreadYield, At, LockInv, ThreadLocks
  <2> QED BY <1>1, <1>2, <1>7, <2>1, ElsewhereStep DEF ThreadYield, At
<1>8. ASSUME NEW t \in Thread, NEW p \in NewPriorities, ThreadSetPriority(t, p)
      PROVE  KeepsLocks
  <2>1. PICK l \in {"yield", "run"} : Goto(t, l)
    BY <1>8 DEF ThreadSetPriority
  <2>2. ret[t] = "run"
    BY <1>2, <1>8, LockTypes DEF ThreadSetPriority, At
  <2> QED BY <1>1, <1>2, <1>8, <2>1, <2>2, ElsewhereStep DEF ThreadSetPriority, At
<1>9. ASSUME NEW t \in Thread, ThreadExit(t)
      PROVE  KeepsLocks
  <2>1. ret[t] = "run"
    BY <1>2, <1>9, LockTypes DEF ThreadExit, At
  <2> QED BY <1>1, <1>2, <1>9, <2>1, ElsewhereStep DEF ThreadExit, At
<1>10. ASSUME IdleBlock
       PROVE  KeepsLocks
  <2>1. Idle \in Thread /\ ret[Idle] = "run"
    BY <1>2, <1>10, LockTypes, SchedulerAssumption DEF IdleBlock, At
  <2> QED BY <1>1, <1>2, <1>10, <2>1, ElsewhereStep DEF IdleBlock, At
<1> QED BY <1>3, <1>4, <1>5, <1>6, <1>7, <1>8, <1>9, <1>10 DEF ThreadStep

\* After thread_start every lock's unit is there and nobody owns one.
LEMMA InitLocks == Init => LockInv /\ AbstractMutex!Init
<1> SUFFICES ASSUME Init PROVE LockInv /\ AbstractMutex!Init
  OBVIOUS
<1>1. Lock \subseteq Semaphore
  BY SynchAssumption DEF Semaphore
<1>2. \A t \in Thread, l \in Lock : ~Owns(t, l)
  BY DEF Init, SchedInit, SynchInit, Owns
<1>3. \A t \in Thread : ThreadLocks(t)
  BY DEF Init, SchedInit, SynchInit, ThreadLocks
<1>4. LockInv
  BY <1>1, <1>2, <1>3 DEF Init, SynchInit, LockInv
<1>5. \A l \in Lock : Owner[l] = NULL
  BY <1>2, OwnerIs
<1>6. Owner = [l \in Lock |-> Owner[l]]
  BY DEF Owner
<1> QED BY <1>4, <1>5, <1>6 DEF AbstractMutex!Init

----------------------------------------------------------------------------

\* Every step of the kernel keeps the locks' invariant and is, to the locks, a
\* step of the abstract lock or none.
LEMMA StepLocks ==
    ASSUME TypeInv, QueueInv, LockInv, [Next]_vars
    PROVE  KeepsLocks
BY SynchLocks, ConditionLocks, SleepLocks, InterruptLocks, ThreadLocking, StutterLocks
   DEF Next, vars, synchVars

\* Whatever the threads do, a lock's unit is missing exactly as long as one
\* thread owns the lock.
THEOREM Locks == Spec => []LockInv
<1>1. TypeInv /\ QueueInv /\ LockInv /\ [Next]_vars => LockInv'
  BY StepLocks DEF KeepsLocks
<1> QED BY <1>1, InitLocks, Typing, Queues, PTL DEF Spec

\* lock_acquire and lock_release of synch.c exclude: at most one thread is between
\* them, and it is the one the lock names as its holder.
THEOREM Exclusion == Spec => []MutualExclusion
<1>1. TypeInv /\ LockInv => MutualExclusion
  BY DEF LockInv, ThreadLocks, Owns, MutualExclusion
<1> QED BY <1>1, Typing, Locks, PTL

\* The locks of synch.c, built on semaphores whose waiters race for the unit,
\* implement the abstract lock its comments describe.
THEOREM Refinement == Spec => ImplementsMutex
<1>1. TypeInv /\ QueueInv /\ LockInv /\ [Next]_vars => [AbstractMutex!Next]_Owner
  BY StepLocks DEF KeepsLocks
<1>2. Init => AbstractMutex!Init
  BY InitLocks
<1> QED BY <1>1, <1>2, Typing, Queues, Locks, PTL DEF Spec, ImplementsMutex, AbstractMutex!Spec

----------------------------------------------------------------------------
(* What tid_lock is for: next_tid.                                         *)

\* Tids are handed out in order.  The thread between the load and the store of
\* next_tid has given the next one away already.
TidInv ==
    /\ next_tid \in Nat \ {0}
    /\ \A t \in Thread : pc[t] = "tid_write" => tid[child[t]] = next_tid
    /\ \A t \in Thread : status[t] # "NONE" =>
         \/ tid[t] < next_tid
         \/ \E v \in Thread : pc[v] = "tid_write" /\ child[v] = t
    /\ TidsUnique

NoNewThread == \A u \in Thread : status'[u] # "NONE" => status[u] # "NONE"

\* A switch, or the waking of a blocked thread, makes no thread out of a free page.
LEMMA OldThreads ==
    ASSUME TypeInv, QueueInv
    PROVE  /\ YieldCPU(running) \/ BlockCPU(running) \/ ExitCPU(running) => NoNewThread
           /\ \A u \in Thread : status[u] = "BLOCKED" /\ Unblock(u) => NoNewThread
           /\ UNCHANGED status => NoNewThread
<1>1. /\ running \in Thread /\ status \in [Thread -> Status] /\ ready_list \in Seq(Thread)
      /\ status[running] = "RUNNING" /\ status[Idle] # "NONE" /\ Idle \in Thread
      /\ \A u \in ToSet(ready_list) : u \in Thread => status[u] = "READY"
  BY SchedulerAssumption DEF TypeInv, TypeOK, SchedTypeOK, QueueInv, ReadyOK, PlacesOK, OnReady
<1>2. ASSUME NEW list \in Seq(Thread), ToSet(list) \subseteq ToSet(ready_list) \cup {running},
             NEW v \in Status, Schedule(list, [status EXCEPT ![running] = v])
      PROVE  NoNewThread
  <2>1. CASE list = <<>>
    BY <1>1, <1>2, <2>1 DEF Schedule, NoNewThread
  <2>2. CASE list # <<>>
    <3>1. Head(list) \in ToSet(list) /\ Head(list) \in Thread
      <4>1. 1 \in 1..Len(list) /\ Head(list) = list[1]
        BY <2>2, EmptySeq
      <4> QED BY <2>2, <4>1, HeadTailProperties DEF ToSet
    <3> QED BY <1>1, <1>2, <2>2, <3>1 DEF Schedule, NoNewThread
  <2> QED BY <2>1, <2>2
<1>3. /\ InsertOrdered(ready_list, running) \in Seq(Thread)
      /\ ToSet(InsertOrdered(ready_list, running)) = ToSet(ready_list) \cup {running}
  BY <1>1, InsertOrderedSet
<1>4. {"READY", "BLOCKED", "DYING", "NONE"} \subseteq Status
  BY DEF Status
<1>5. YieldCPU(running) \/ BlockCPU(running) \/ ExitCPU(running) => NoNewThread
  BY <1>1, <1>2, <1>3, <1>4 DEF YieldCPU, BlockCPU, ExitCPU
<1>6. \A u \in Thread : status[u] = "BLOCKED" /\ Unblock(u) => NoNewThread
  BY <1>1 DEF Unblock, NoNewThread
<1> QED BY <1>5, <1>6 DEF NoNewThread

\* A step that makes no thread, hands out no tid and has nobody enter or leave the
\* middle of next_tid++.
LEMMA TidKeep ==
    ASSUME TidInv, NoNewThread, UNCHANGED <<tid, next_tid>>,
           \A v \in Thread : pc'[v] = "tid_write" <=> pc[v] = "tid_write",
           \A v \in Thread : pc[v] = "tid_write" => child'[v] = child[v]
    PROVE  TidInv'
BY DEF TidInv, TidsUnique, NoNewThread

\* Such is a step of a thread that goes from one label to another.
LEMMA TidGoto ==
    ASSUME TypeInv, TidInv, NoNewThread, UNCHANGED <<tid, next_tid, child>>,
           NEW t \in Thread, NEW l \in Label, Goto(t, l), "tid_write" \notin {l, pc[t]}
    PROVE  TidInv'
BY TidKeep DEF Goto, TypeInv, TypeOK, SchedTypeOK

\* Semaphores and locks make no thread and hand out no tid.
LEMMA SynchTids ==
    ASSUME TypeInv, QueueInv, LockInv, TidInv, SynchStep
    PROVE  TidInv'
<1>1. /\ UNCHANGED <<tid, next_tid, child>> /\ ReturnLabel \subseteq Label \ {"tid_write"}
      /\ {"sema_down", "set_holder", "sema_up", "yield"} \subseteq Label
  BY DEF SynchStep, createVars, ReturnLabel, Label
<1>2. ASSUME NEW t \in Thread, NEW s \in Semaphore, SemaDownBlocks(t, s) PROVE TidInv'
  BY <1>1, <1>2, OldThreads, TidGoto DEF SemaDownBlocks, InSemaDown, At
<1>3. ASSUME NEW t \in Thread, NEW s \in Semaphore, SemaDownTakes(t, s) PROVE TidInv'
  BY <1>1, <1>3, OldThreads, TidGoto, LockTypes DEF SemaDownTakes, InSemaDown, At, schedVars
<1>4. ASSUME NEW t \in Thread, NEW s \in Semaphore, SemaUpNoWaiter(t, s) PROVE TidInv'
  BY <1>1, <1>4, OldThreads, TidGoto DEF SemaUpNoWaiter, InSemaUp, At, schedVars
<1>5. ASSUME NEW t \in Thread, NEW s \in Semaphore, SemaUpWakes(t, s) PROVE TidInv'
  <2>1. PICK k \in 1..Len(waiters[s]) : Unblock(waiters[s][k])
    BY <1>5, ScanEnds, QueueTypes DEF SemaUpWakes, CPUTypeOK
  <2>2. waiters[s][k] \in OnWaiters(s) /\ waiters[s][k] \in Thread
    BY QueueTypes DEF OnWaiters, ToSet
  <2>3. NoNewThread
    BY <2>1, <2>2, OldThreads DEF QueueInv, WaitersOK
  <2> QED BY <1>1, <1>5, <2>3, TidGoto DEF SemaUpWakes, InSemaUp, At
<1>6. ASSUME NEW t \in Thread, NEW s \in Semaphore, SemaUpPanics(t, s) PROVE TidInv'
  BY <1>1, <1>6, OldThreads, TidKeep DEF SemaUpPanics, schedVars
<1>7. ASSUME NEW t \in Thread, NEW l \in Lock, LockRelease(t, l) PROVE TidInv'
  BY <1>1, <1>7, OldThreads, TidGoto DEF LockRelease, At, schedVars
<1>8. ASSUME NEW t \in Thread, SetHolder(t) PROVE TidInv'
  BY <1>1, <1>8, OldThreads, TidGoto, LockTypes DEF SetHolder, At, schedVars
<1> QED BY <1>2, <1>3, <1>4, <1>5, <1>6, <1>7, <1>8 DEF SynchStep

\* Nor do condition variables.
LEMMA ConditionTids ==
    ASSUME TypeInv, QueueInv, TidInv, ConditionStep
    PROVE  TidInv'
<1>1. UNCHANGED <<tid, next_tid, child>>
  BY DEF ConditionStep, createVars
<1>2. UNCHANGED status
  BY DEF ConditionStep, CondDown, CondAcquire, CondWait, CondSignal, CondBroadcast, PopWaiter,
         BroadcastDone, schedVars
<1>3. \E t \in Thread, l \in {"call_down", "call_release", "sema_up", "run"} :
        Goto(t, l) /\ pc[t] \in {"run", "cond_down", "cond_acquire", "cond_broadcast"}
  BY DEF ConditionStep, CondDown, CondAcquire, CondWait, CondSignal, CondBroadcast, PopWaiter,
         BroadcastDone, At
<1> QED BY <1>1, <1>2, <1>3, OldThreads, TidGoto DEF Label

\* Nor do sleeping and the timer interrupt.
LEMMA TimerTids ==
    ASSUME TypeInv, QueueInv, TidInv, SleepStep \/ InterruptStep
    PROVE  TidInv'
<1>1. /\ UNCHANGED <<tid, next_tid, child>>
      /\ {"run", "sleep_push", "sleeping", "hlt"} \subseteq Label \ {"tid_write"}
  BY DEF SleepStep, InterruptStep, createVars, Label
<1>2. ASSUME NEW t \in Thread, SleepReadClock(t) \/ SleepReturn(t) PROVE TidInv'
  BY <1>1, <1>2, OldThreads, TidGoto DEF SleepReadClock, SleepReturn, At, schedVars
<1>3. ASSUME NEW t \in Thread, NEW n \in SleepTicks, SleepBlock(t, n) PROVE TidInv'
  BY <1>1, <1>3, OldThreads, TidGoto DEF SleepBlock, At
<1>4. CASE TimerInterrupt \/ TimerSkips
  BY <1>1, <1>4, OldThreads, TidKeep DEF TimerInterrupt, TimerSkips, schedVars
<1>5. CASE TimerWakes
  <2>1. /\ iter \in 1..Len(sleepingThreadList) /\ sleepingThreadList \in Seq(Thread)
    BY <1>5 DEF TimerWakes, TypeInv, TypeOK, TimerTypeOK
  <2>2. sleepingThreadList[iter] \in Thread /\ sleepingThreadList[iter] \in OnSleeping
    BY <2>1 DEF OnSleeping, ToSet
  <2>3. NoNewThread
    BY <1>5, <2>2, OldThreads DEF TimerWakes, QueueInv, SleepingOK
  <2> QED BY <1>1, <1>5, <2>3, TidKeep DEF TimerWakes
<1>6. CASE TimerReturns
  <2>1. NoNewThread
    BY <1>6, OldThreads DEF TimerReturns
  <2>2. running \in Thread
    BY DEF TypeInv, TypeOK, SchedTypeOK
  <2>3. CASE pc[running] = "hlt"
    BY <1>1, <1>6, <2>1, <2>2, <2>3, TidGoto DEF TimerReturns
  <2>4. CASE pc[running] # "hlt"
    BY <1>1, <1>6, <2>1, <2>4, TidKeep DEF TimerReturns
  <2> QED BY <2>3, <2>4
<1> QED BY <1>2, <1>3, <1>4, <1>5, <1>6 DEF SleepStep, InterruptStep

\* thread_create: the two halves of next_tid++ follow each other, because only the
\* owner of tid_lock is between them.
LEMMA ThreadTids ==
    ASSUME TypeInv, QueueInv, LockInv, TidInv, ThreadStep
    PROVE  TidInv'
<1>1. /\ ReturnLabel \subseteq Label \ {"tid_write"}
      /\ {"run", "yield", "dead", "hlt"} \subseteq Label
      /\ status \in [Thread -> Status] /\ tid \in [Thread -> Nat] /\ child \in [Thread -> Thread \cup {NULL}]
      /\ \A t \in Thread : pc[t] \in {"tid_read", "tid_write", "create_unblock"} => child[t] \in Thread
  BY TypeInvParts DEF ReturnLabel, Label, TypeInv, TypeOK, SchedTypeOK, ControlTypeOK, ArgsOK, MakesChild
<1>2. ASSUME NEW t \in Thread, NEW v \in Thread,
             pc[t] \in {"tid_read", "tid_write"}, pc[v] \in {"tid_read", "tid_write"}
      PROVE  t = v
  BY <1>2, LockTypes DEF LockInv, ThreadLocks, Owns
<1>3. ASSUME NEW t \in Thread, NEW v \in Thread, pc[t] = "tid_write"
      PROVE  status[child[t]] = "BLOCKED" /\ child[t] \in Thread
  BY <1>1, <1>3, SchedulerAssumption DEF QueueInv, ChildrenOK
<1>4. ASSUME NEW t \in Thread, NEW u \in Thread, NEW p \in NewPriorities, CreateInit(t, u, p)
      PROVE  TidInv'
  <2>1. /\ tid' = [tid EXCEPT ![u] = 0] /\ next_tid' = next_tid /\ status[u] = "NONE" /\ pc[t] = "run"
        /\ \A w \in Thread \ {u} : status'[w] = status[w]
        /\ \A w \in Thread \ {t} : child'[w] = child[w]
        /\ \A w \in Thread : pc'[w] = "tid_write" <=> pc[w] = "tid_write" /\ w # u
    BY <1>4, LockTypes DEF CreateInit, InitThread, At
  <2>2. pc[u] = "dead"
    BY <2>1 DEF QueueInv, PlacesOK
  <2>3. \A w \in Thread : pc[w] = "tid_write" => tid'[child'[w]] = next_tid
    BY <1>1, <1>3, <2>1 DEF TidInv
  <2> QED BY <1>1, <2>1, <2>2, <2>3 DEF TidInv, TidsUnique
<1>5. ASSUME NEW t \in Thread, TidRead(t)
      PROVE  TidInv'
  <2>1. /\ tid' = [tid EXCEPT ![child[t]] = next_tid] /\ next_tid' = next_tid /\ child' = child
        /\ pc' = [pc EXCEPT ![t] = "tid_write"] /\ status' = status /\ pc[t] = "tid_read"
        /\ child[t] \in Thread
    BY <1>1, <1>5 DEF TidRead, At, Goto, schedVars
  <2>2. \A v \in Thread : pc[v] # "tid_write"
    BY <1>2, <2>1
  <2>3. \A w \in Thread : status[w] # "NONE" => tid[w] < next_tid
    BY <2>2 DEF TidInv
  <2>4. \A v \in Thread : pc'[v] = "tid_write" <=> v = t
    BY <2>1, <2>2, LockTypes
  <2> QED BY <1>1, <2>1, <2>3, <2>4 DEF TidInv, TidsUnique
<1>6. ASSUME NEW t \in Thread, TidWrite(t)
      PROVE  TidInv'
  <2>1. /\ next_tid' = tid[child[t]] + 1 /\ tid' = tid /\ child' = child /\ status' = status
        /\ pc' = [pc EXCEPT ![t] = "call_release"] /\ pc[t] = "tid_write"
    BY <1>6 DEF TidWrite, At, Goto, schedVars
  <2>2. next_tid' = next_tid + 1 /\ \A v \in Thread : pc'[v] # "tid_write"
    BY <1>2, <2>1, LockTypes DEF TidInv
  <2>3. \A w \in Thread : status[w] # "NONE" => tid[w] < next_tid + 1
    BY <1>1, <1>2, <2>1 DEF TidInv
  <2> QED BY <1>1, <2>1, <2>2, <2>3 DEF TidInv, TidsUnique
<1>7. ASSUME NEW t \in Thread, CreateUnblock(t)
      PROVE  TidInv'
  <2>1. NoNewThread
    BY <1>1, <1>7, OldThreads, SchedulerAssumption DEF CreateUnblock, At, QueueInv, ChildrenOK
  <2>2. /\ \A v \in Thread : pc'[v] = "tid_write" <=> pc[v] = "tid_write"
        /\ \A v \in Thread : pc[v] = "tid_write" => child'[v] = child[v]
    BY <1>1, <1>7, LockTypes DEF CreateUnblock, At, Goto
  <2> QED BY <1>7, <2>1, <2>2, TidKeep DEF CreateUnblock
<1>8. ASSUME NEW t \in Thread, ThreadYield(t)
      PROVE  TidInv'
  BY <1>1, <1>8, OldThreads, TidGoto, LockTypes DEF ThreadYield, At, createVars
<1>9. ASSUME NEW t \in Thread, NEW p \in NewPriorities, ThreadSetPriority(t, p)
      PROVE  TidInv'
  BY <1>1, <1>9, OldThreads, TidGoto DEF ThreadSetPriority, At, createVars
<1>10. ASSUME NEW t \in Thread, ThreadExit(t)
       PROVE  TidInv'
  BY <1>1, <1>10, OldThreads, TidGoto DEF ThreadExit, At, createVars
<1>11. ASSUME IdleBlock
       PROVE  TidInv'
  BY <1>1, <1>11, OldThreads, TidGoto, SchedulerAssumption DEF IdleBlock, At, createVars
<1> QED BY <1>4, <1>5, <1>6, <1>7, <1>8, <1>9, <1>10, <1>11 DEF ThreadStep

\* main and the idle thread have the first two tids.
LEMMA InitTids == Init => TidInv
BY SchedulerAssumption DEF Init, SchedInit, TidInv, TidsUnique

\* allocate_tid's lock does its work, whoever is interrupted where: no two threads
\* that exist have the same tid.
THEOREM DistinctTids == Spec => []TidsUnique
<1>1. TypeInv /\ QueueInv /\ LockInv /\ TidInv /\ [Next]_vars => TidInv'
  <2> SUFFICES ASSUME TypeInv, QueueInv, LockInv, TidInv, [Next]_vars PROVE TidInv'
    OBVIOUS
  <2>1. CASE UNCHANGED vars
    BY <2>1, OldThreads, TidKeep DEF vars, schedVars, createVars
  <2> QED BY <2>1, SynchTids, ConditionTids, TimerTids, ThreadTids DEF Next
<1>2. TidInv => TidsUnique
  BY DEF TidInv
<1> QED BY <1>1, <1>2, InitTids, Typing, Queues, Locks, PTL DEF Spec

----------------------------------------------------------------------------
(* No signal is lost.  A thread in cond_wait owns the semaphore it brought *)
(* along from its first step to the sema_down that ends the wait.  While   *)
(* that semaphore is 0, either the thread is on the condition's list or    *)
(* exactly one thread, which took it off, is about to raise it.            *)

\* t is inside cond_wait, before the end of its sema_down.
Waits(t) == ret[t] = "cond_down" \/ (pc[t] \in {"call_down", "sema_down"} /\ obj[t] = t)

\* t is on the list of a condition variable.
Listed(t) == \E l \in Cond : t \in ToSet(condWaiters[l])

\* u has taken t off that list and has not raised its semaphore yet.
Signals(u, t) == pc[u] = "sema_up" /\ obj[u] = t

\* A thread is on the list of its own monitor, once.
ListsOK ==
    \A l \in Cond : IsInjective(condWaiters[l]) /\ \A t \in ToSet(condWaiters[l]) : monitor[t] = l

\* What becomes of the one unit that t's wait is for.
UnitOK(t) ==
    /\ Listed(t) => Waits(t) /\ value[t] = 0 /\ \A u \in Thread : ~Signals(u, t)
    /\ \A u \in Thread : Signals(u, t) =>
         Waits(t) /\ value[t] = 0 /\ \A v \in Thread : Signals(v, t) => v = u
    /\ Waits(t) /\ value[t] = 0 => Listed(t) \/ \E u \in Thread : Signals(u, t)
    /\ t \in OnWaiters(t) => value[t] = 0
    /\ pc[t] \in {"call_down", "sema_down"} /\ obj[t] = t => ret[t] = "cond_acquire"

SignalInv == ListsOK /\ \A t \in Thread : UnitOK(t)

\* The typing facts that the steps below use.
LEMMA SignalTypes ==
    ASSUME TypeInv, QueueInv
    PROVE  /\ pc \in [Thread -> Label] /\ ret \in [Thread -> ReturnLabel]
           /\ obj \in [Thread -> Semaphore \cup {NULL}] /\ value \in [Semaphore -> Nat]
           /\ waiters \in [Semaphore -> Seq(Thread)]
           /\ condWaiters \in [Cond -> Seq(Thread)] /\ monitor \in [Thread -> Cond \cup {NULL}]
           /\ Thread \subseteq Semaphore /\ Lock \cap Thread = {} /\ Sema \cap Thread = {} /\ NULL \notin Thread
           /\ Cond \subseteq Lock /\ Lock \subseteq Semaphore
           /\ \A t \in Thread : pc[t] \in ReturnLabel => ret[t] = pc[t]
           /\ \A t \in Thread : pc[t] \in {"call_down", "sema_down"} /\ obj[t] \in Thread => obj[t] = t
           /\ \A t \in Thread : \A u \in OnWaiters(t) : u = t
<1>1. waiters \in [Semaphore -> Seq(Thread)] /\ Thread \subseteq Semaphore
  BY DEF TypeInv, TypeOK, SynchTypeOK, Semaphore
<1>2. /\ \A t \in Thread : pc[t] \in ReturnLabel => ret[t] = pc[t]
      /\ \A t \in Thread : pc[t] \in {"call_down", "sema_down"} /\ obj[t] \in Thread => obj[t] = t
  BY DEF QueueInv, PlacesOK
<1>3. ASSUME NEW t \in Thread, NEW u \in OnWaiters(t) PROVE u = t
  <2>1. u \in Thread
    BY <1>1 DEF OnWaiters, ToSet
  <2> QED BY <1>1, <1>2, <2>1 DEF QueueInv, WaitersOK
<1> QED
  BY <1>1, <1>2, <1>3, TypeInvParts, LockTypes, SynchAssumption, ConditionAssumption, SchedulerAssumption
     DEF SynchTypeOK, CondTypeOK

\* At a call that concerns some thread's own semaphore.
Concerned(t) == pc[t] \in {"call_down", "sema_down", "sema_up"} /\ obj[t] \in Thread

\* A step of t that has nothing to do with the semaphores of cond_wait.
Calm(t) ==
    /\ \A u \in Thread \ {t} :
         /\ obj'[u] = obj[u] /\ ret'[u] = ret[u] /\ monitor'[u] = monitor[u]
         /\ pc'[u] = pc[u] \/ (pc[u] = "dead" /\ pc'[u] = "run")
    /\ ~Concerned(t) /\ ~Concerned(t)'
    /\ ret'[t] = "cond_down" <=> ret[t] = "cond_down"
    /\ monitor'[t] = monitor[t] \/ ret[t] # "cond_down"
    /\ UNCHANGED condWaiters
    /\ \A u \in Thread : value'[u] = value[u] /\ waiters'[u] = waiters[u]

LEMMA CalmStep ==
    ASSUME TypeInv, QueueInv, SignalInv, NEW t \in Thread, Calm(t)
    PROVE  SignalInv'
<1>1. \A u \in Thread : /\ Waits(u)' <=> Waits(u)
                        /\ Listed(u)' <=> Listed(u)
                        /\ OnWaiters(u)' = OnWaiters(u)
                        /\ \A v \in Thread : Signals(v, u)' <=> Signals(v, u)
  BY DEF Calm, Concerned, Waits, Listed, OnWaiters, Signals
<1>2. \A u \in Thread : pc'[u] \in {"call_down", "sema_down"} /\ obj'[u] = u => ret'[u] = "cond_acquire"
  BY DEF Calm, Concerned, SignalInv, UnitOK
<1>3. \A u \in Thread : UnitOK(u)'
  BY <1>1, <1>2 DEF SignalInv, UnitOK, Calm
<1>4. ASSUME NEW l \in Cond, NEW u \in ToSet(condWaiters[l]) PROVE monitor'[u] = l
  <2>1. u \in Thread
    BY SignalTypes DEF ToSet
  <2>2. Waits(u)
    BY <2>1 DEF SignalInv, UnitOK, Listed
  <2> QED BY <2>1, <2>2 DEF Calm, Concerned, Waits, SignalInv, ListsOK
<1>5. ListsOK'
  BY <1>4 DEF Calm, SignalInv, ListsOK
<1> QED BY <1>3, <1>5 DEF SignalInv

\* Semaphores and locks: the wait's own semaphore is lowered only by its thread
\* and raised only by the thread that signals.
LEMMA SynchSignals ==
    ASSUME TypeInv, QueueInv, SignalInv, SynchStep
    PROVE  SignalInv'
<1>1. UNCHANGED condVars
  BY DEF SynchStep
<1>2. UNCHANGED <<condWaiters, monitor>>
  BY <1>1 DEF condVars
<1>3. ASSUME NEW t \in Thread, NEW s \in Semaphore \ Thread,
             pc[t] \in {"run", "call_down", "sema_down", "sema_up"},
             pc[t] # "run" => s = obj[t],
             NEW l \in Label, Goto(t, l), l \in {"call_down", "sema_down", "sema_up"} => obj'[t] = s,
             \A u \in Thread \ {t} : obj'[u] = obj[u],
             \A r \in Semaphore \ {s} : value'[r] = value[r] /\ waiters'[r] = waiters[r],
             UNCHANGED ret
      PROVE  SignalInv'
  BY <1>2, <1>3, SignalTypes, CalmStep DEF Calm, Concerned, Goto
<1>4. /\ ReturnLabel \subseteq Label /\ {"set_holder", "sema_down", "sema_up", "yield"} \subseteq Label
      /\ ReturnLabel \cap {"call_down", "sema_down", "sema_up"} = {}
  BY DEF Label, ReturnLabel
<1>5. ASSUME NEW t \in Thread, NEW s \in Semaphore, SemaDownBlocks(t, s)
      PROVE  SignalInv'
  <2>1. CASE s \notin Thread
    BY <1>3, <1>4, <1>5, <2>1, SignalTypes DEF SemaDownBlocks, InSemaDown, At
  <2>2. CASE s \in Thread
    <3>1. s = t /\ pc[t] \in {"call_down", "sema_down"} /\ obj[t] = t /\ value[t] = 0
      BY <1>5, <2>2, SignalTypes DEF SemaDownBlocks, InSemaDown, At
    <3>2. /\ pc'[t] = "sema_down" /\ \A u \in Thread \ {t} : pc'[u] = pc[u]
          /\ obj' = obj /\ ret' = ret /\ value' = value
          /\ \A u \in Thread \ {t} : waiters'[u] = waiters[u]
      BY <1>5, <3>1, SignalTypes DEF SemaDownBlocks, Goto
    <3>3. \A u \in Thread : /\ Waits(u)' <=> Waits(u)
                            /\ Listed(u)' <=> Listed(u)
                            /\ u # t => OnWaiters(u)' = OnWaiters(u)
                            /\ \A v \in Thread : Signals(v, u)' <=> Signals(v, u)
      BY <1>2, <3>1, <3>2 DEF Waits, Listed, OnWaiters, Signals
    <3>4. \A u \in Thread : UnitOK(u)'
      BY <3>1, <3>2, <3>3 DEF SignalInv, UnitOK
    <3> QED BY <1>2, <3>4 DEF SignalInv, ListsOK
  <2> QED BY <2>1, <2>2
<1>6. ASSUME NEW t \in Thread, NEW s \in Semaphore, SemaDownTakes(t, s)
      PROVE  SignalInv'
  <2>1. CASE s \notin Thread
    <3>1. ret[t] \in ReturnLabel
      BY SignalTypes
    <3>2. PICK l \in Label : Goto(t, l) /\ l \notin {"call_down", "sema_down", "sema_up"}
      BY <1>4, <1>6, <3>1 DEF SemaDownTakes
    <3>3. \A r \in Semaphore \ {s} : value'[r] = value[r] /\ waiters'[r] = waiters[r]
      BY <1>6, SignalTypes DEF SemaDownTakes
    <3> QED BY <1>3, <1>6, <2>1, <3>2, <3>3, SignalTypes DEF SemaDownTakes, InSemaDown, At
  <2>2. CASE s \in Thread
    <3>1. s = t /\ pc[t] \in {"call_down", "sema_down"} /\ obj[t] = t /\ value[t] > 0
      BY <1>6, <2>2, SignalTypes DEF SemaDownTakes, InSemaDown, At
    <3>2. ret[t] = "cond_acquire" /\ ~Listed(t) /\ t \notin OnWaiters(t) /\ \A u \in Thread : ~Signals(u, t)
      BY <3>1 DEF SignalInv, UnitOK
    <3>3. /\ pc'[t] = "cond_acquire" /\ \A u \in Thread \ {t} : pc'[u] = pc[u]
          /\ obj'[t] = NULL /\ \A u \in Thread \ {t} : obj'[u] = obj[u] /\ value'[u] = value[u]
          /\ ret' = ret /\ waiters' = waiters
      BY <1>6, <3>1, <3>2, SignalTypes DEF SemaDownTakes, Goto
    <3>4. /\ ~Waits(t)' /\ \A u \in Thread \ {t} : Waits(u)' <=> Waits(u)
          /\ \A u \in Thread : /\ Listed(u)' <=> Listed(u)
                               /\ OnWaiters(u)' = OnWaiters(u)
                               /\ \A v \in Thread : Signals(v, u)' <=> Signals(v, u)
      BY <1>2, <3>1, <3>2, <3>3 DEF Waits, Listed, OnWaiters, Signals
    <3>5. \A u \in Thread : UnitOK(u)'
      BY <3>1, <3>2, <3>3, <3>4 DEF SignalInv, UnitOK
    <3> QED BY <1>2, <3>5 DEF SignalInv, ListsOK
  <2> QED BY <2>1, <2>2
<1>7. ASSUME NEW t \in Thread, NEW s \in Semaphore, SemaUpNoWaiter(t, s) \/ SemaUpWakes(t, s)
      PROVE  SignalInv'
  <2>1. /\ InSemaUp(t, s) /\ Goto(t, "yield") /\ value' = [value EXCEPT ![s] = @ + 1]
        /\ obj' = [obj EXCEPT ![t] = NULL] /\ ret' = ret
        /\ \A r \in Semaphore \ {s} : waiters'[r] = waiters[r]
    BY <1>7, SignalTypes DEF SemaUpNoWaiter, SemaUpWakes
  <2>2. CASE s \notin Thread
    BY <1>3, <1>4, <2>1, <2>2, SignalTypes DEF InSemaUp, At
  <2>3. CASE s \in Thread
    <3>1. Signals(t, s) /\ pc[t] = "sema_up"
      BY <2>1, <2>3, SignalTypes DEF InSemaUp, At, Signals
    <3>2. Waits(s) /\ value[s] = 0 /\ ~Listed(s) /\ \A v \in Thread : Signals(v, s) => v = t
      BY <2>3, <3>1 DEF SignalInv, UnitOK
    <3>3. /\ pc'[t] = "yield" /\ \A u \in Thread \ {t} : pc'[u] = pc[u] /\ obj'[u] = obj[u]
          /\ value'[s] = 1 /\ \A u \in Thread \ {s} : value'[u] = value[u]
      BY <2>1, <3>2, SignalTypes DEF Goto
    <3>4. s \notin OnWaiters(s)'
      <4>1. CASE SemaUpNoWaiter(t, s)
        BY <4>1 DEF SemaUpNoWaiter, OnWaiters, ToSet
      <4>2. CASE SemaUpWakes(t, s)
        <5>1. waiters[s] \in Seq(Thread) /\ waiters[s] # <<>> /\ IsInjective(waiters[s])
          BY <4>2, SignalTypes DEF SemaUpWakes, QueueInv, WaitersOK
        <5>2. PICK k \in 1..Len(waiters[s]) : waiters'[s] = RemoveAt(waiters[s], k)
          BY <4>2, <5>1, ScanEnds, QueueTypes, SignalTypes DEF SemaUpWakes, CPUTypeOK
        <5>3. waiters[s][k] \in OnWaiters(s)
          BY <5>1 DEF OnWaiters, ToSet
        <5>4. waiters[s][k] = s
          BY <2>3, <5>3, SignalTypes
        <5> QED BY <5>1, <5>2, <5>4, RemoveAtSet DEF OnWaiters
      <4> QED BY <1>7, <4>1, <4>2
    <3>5. /\ \A u \in Thread : /\ Waits(u)' <=> Waits(u)
                               /\ Listed(u)' <=> Listed(u)
                               /\ u # s => OnWaiters(u)' = OnWaiters(u)
          /\ \A v \in Thread : ~Signals(v, s)'
          /\ \A u \in Thread \ {s} : \A v \in Thread : Signals(v, u)' <=> Signals(v, u)
      BY <1>2, <2>1, <2>3, <3>1, <3>2, <3>3, SignalTypes DEF Waits, Listed, OnWaiters, Signals
    <3>6. \A u \in Thread : pc'[u] \in {"call_down", "sema_down"} /\ obj'[u] = u => ret'[u] = "cond_acquire"
      BY <2>1, <3>3 DEF SignalInv, UnitOK
    <3>7. \A u \in Thread : UnitOK(u)'
      BY <3>2, <3>3, <3>4, <3>5, <3>6 DEF SignalInv, UnitOK
    <3> QED BY <1>2, <3>7 DEF SignalInv, ListsOK
  <2> QED BY <2>2, <2>3
<1>8. ASSUME NEW t \in Thread, NEW s \in Semaphore, SemaUpPanics(t, s)
      PROVE  SignalInv'
  BY <1>2, <1>8 DEF SemaUpPanics, synchVars, SignalInv, ListsOK, UnitOK, Waits, Listed, Signals, OnWaiters
<1>9. ASSUME NEW t \in Thread, NEW l \in Lock, LockRelease(t, l)
      PROVE  SignalInv'
  BY <1>2, <1>9, SignalTypes, CalmStep DEF LockRelease, At, Goto, Calm, Concerned
<1>10. ASSUME NEW t \in Thread, SetHolder(t)
       PROVE  SignalInv'
  BY <1>2, <1>4, <1>10, SignalTypes, CalmStep DEF SetHolder, At, Goto, Calm, Concerned
<1> QED BY <1>5, <1>6, <1>7, <1>8, <1>9, <1>10 DEF SynchStep

\* t takes the head of l's list off it: from now on it is t that signals.
LEMMA PopSignals ==
    ASSUME TypeInv, QueueInv, SignalInv, NEW t \in Thread, NEW l \in Cond, PopWaiter(t, l),
           pc[t] \in {"run", "cond_broadcast"},
           \A u \in Thread \ {t} : monitor'[u] = monitor[u] /\ ret'[u] = ret[u],
           ret'[t] \in {"run", "cond_broadcast"}
    PROVE  SignalInv'
<1> DEFINE list == condWaiters[l]
<1>1. list \in Seq(Thread) /\ list # <<>> /\ IsInjective(list)
  BY SignalTypes DEF PopWaiter, SignalInv, ListsOK
<1>2. PICK h \in Thread : /\ h = Head(list) /\ h \in ToSet(list)
                          /\ ToSet(Tail(list)) = ToSet(list) \ {h} /\ IsInjective(Tail(list))
  BY <1>1, TailSet, HeadTailProperties
<1>3. /\ pc'[t] = "sema_up" /\ obj'[t] = h
      /\ \A u \in Thread \ {t} : pc'[u] = pc[u] /\ obj'[u] = obj[u]
      /\ condWaiters' = [condWaiters EXCEPT ![l] = Tail(list)]
      /\ value' = value /\ waiters' = waiters
  BY <1>2, SignalTypes DEF PopWaiter, Goto
<1>4. Listed(h) /\ Waits(h) /\ value[h] = 0 /\ monitor[h] = l /\ \A u \in Thread : ~Signals(u, h)
  BY <1>2 DEF Listed, SignalInv, ListsOK, UnitOK
<1>5. ret[t] \in {"run", "cond_broadcast"} /\ ~Waits(t) /\ ~Waits(t)' /\ ~Listed(t)
  BY <1>3, SignalTypes DEF Waits, SignalInv, UnitOK, ReturnLabel
<1>6. \A u \in Thread : Waits(u)' <=> Waits(u)
  BY <1>3, <1>5 DEF Waits
<1>7. /\ condWaiters'[l] = Tail(list)
      /\ \A k \in Cond \ {l} : condWaiters'[k] = condWaiters[k]
  BY <1>3, SignalTypes
<1>8. \A u \in Thread : Listed(u)' <=> Listed(u) /\ u # h
  <2>1. \A k \in Cond \ {l} : h \notin ToSet(condWaiters[k])
    BY <1>4 DEF SignalInv, ListsOK
  <2> QED BY <1>2, <1>7, <2>1 DEF Listed
<1>9. /\ Signals(t, h)' /\ \A v \in Thread : Signals(v, h)' => v = t
      /\ \A u \in Thread \ {h} : \A v \in Thread : Signals(v, u)' <=> Signals(v, u)
  BY <1>3, <1>4 DEF Signals
<1>10. \A u \in Thread : OnWaiters(u)' = OnWaiters(u)
  BY <1>3 DEF OnWaiters
<1>11. \A u \in Thread : pc'[u] \in {"call_down", "sema_down"} /\ obj'[u] = u => ret'[u] = "cond_acquire"
  BY <1>3 DEF SignalInv, UnitOK
<1>12. \A u \in Thread : UnitOK(u)'
  BY <1>3, <1>4, <1>6, <1>8, <1>9, <1>10, <1>11 DEF SignalInv, UnitOK
<1>13. ASSUME NEW k \in Cond, NEW u \in ToSet(condWaiters'[k]) PROVE monitor'[u] = k
  <2>1. u \in ToSet(condWaiters[k])
    BY <1>2, <1>7, <1>13
  <2>2. u \in Thread /\ u # t
    <3>1. u \in Thread
      BY <2>1, SignalTypes DEF ToSet
    <3> QED BY <1>5, <2>1, <3>1 DEF Listed
  <2> QED BY <2>1, <2>2 DEF SignalInv, ListsOK
<1>14. ListsOK'
  BY <1>2, <1>7, <1>13 DEF SignalInv, ListsOK
<1> QED BY <1>12, <1>14 DEF SignalInv

\* Condition variables.
LEMMA ConditionSignals ==
    ASSUME TypeInv, QueueInv, SignalInv, ConditionStep
    PROVE  SignalInv'
<1>1. ASSUME NEW t \in Thread, CondDown(t) PROVE SignalInv'
  <2>1. ret[t] = "cond_down" /\ UNCHANGED <<condWaiters, monitor>>
    BY <1>1, SignalTypes DEF CondDown, At, ReturnLabel, condVars
  <2>2. /\ pc[t] = "cond_down" /\ pc'[t] = "call_down" /\ obj'[t] = t /\ ret'[t] = "cond_acquire"
        /\ \A u \in Thread \ {t} : pc'[u] = pc[u] /\ obj'[u] = obj[u] /\ ret'[u] = ret[u]
        /\ value' = value /\ waiters' = waiters
    BY <1>1, SignalTypes DEF CondDown, At, Goto
  <2>3. \A u \in Thread : /\ Waits(u)' <=> Waits(u)
                          /\ Listed(u)' <=> Listed(u)
                          /\ OnWaiters(u)' = OnWaiters(u)
                          /\ \A v \in Thread : Signals(v, u)' <=> Signals(v, u)
    BY <2>1, <2>2 DEF Waits, Listed, OnWaiters, Signals
  <2>4. \A u \in Thread : UnitOK(u)'
    BY <2>2, <2>3 DEF SignalInv, UnitOK
  <2> QED BY <2>1, <2>4 DEF SignalInv, ListsOK
<1>2. ASSUME NEW t \in Thread, CondAcquire(t) PROVE SignalInv'
  <2>1. ret[t] = "cond_acquire" /\ monitor[t] \notin Thread
    BY <1>2, SignalTypes DEF CondAcquire, At, ReturnLabel
  <2> QED BY <1>2, <2>1, SignalTypes, CalmStep DEF CondAcquire, At, Goto, Calm, Concerned
<1>3. ASSUME NEW t \in Thread, NEW l \in Cond, CondWait(t, l) PROVE SignalInv'
  <2>1. pc[t] = "run" /\ ret[t] = "run" /\ ~Waits(t) /\ ~Listed(t) /\ \A u \in Thread : ~Signals(u, t)
    BY <1>3, SignalTypes DEF CondWait, At, ReturnLabel, Waits, SignalInv, UnitOK
  <2>2. /\ pc'[t] = "call_release" /\ ret'[t] = "cond_down" /\ value'[t] = 0 /\ waiters'[t] = <<>>
        /\ monitor'[t] = l /\ obj'[t] = l
        /\ \A u \in Thread \ {t} : /\ pc'[u] = pc[u] /\ ret'[u] = ret[u] /\ value'[u] = value[u]
                                   /\ waiters'[u] = waiters[u] /\ monitor'[u] = monitor[u] /\ obj'[u] = obj[u]
        /\ condWaiters'[l] = Append(condWaiters[l], t)
        /\ \A k \in Cond \ {l} : condWaiters'[k] = condWaiters[k]
    BY <1>3, SignalTypes DEF CondWait, Goto
  <2>3. ToSet(condWaiters'[l]) = ToSet(condWaiters[l]) \cup {t} /\ IsInjective(condWaiters'[l])
    BY <2>1, <2>2, SignalTypes, AppendSet DEF Listed, SignalInv, ListsOK
  <2>4. /\ Waits(t)' /\ \A u \in Thread \ {t} : Waits(u)' <=> Waits(u)
        /\ \A u \in Thread : \A v \in Thread : Signals(v, u)' <=> Signals(v, u)
        /\ \A u \in Thread \ {t} : OnWaiters(u)' = OnWaiters(u)
    BY <2>1, <2>2 DEF Waits, OnWaiters, Signals
  <2>5. Listed(t)' /\ \A u \in Thread \ {t} : Listed(u)' <=> Listed(u)
    BY <2>2, <2>3 DEF Listed
  <2>6. \A u \in Thread : pc'[u] \in {"call_down", "sema_down"} /\ obj'[u] = u => ret'[u] = "cond_acquire"
    BY <2>2 DEF SignalInv, UnitOK
  <2>7. \A u \in Thread : UnitOK(u)'
    BY <2>1, <2>2, <2>4, <2>5, <2>6 DEF SignalInv, UnitOK
  <2>8. ASSUME NEW k \in Cond, NEW u \in ToSet(condWaiters'[k]) PROVE monitor'[u] = k
    <3>1. CASE u = t
      BY <2>1, <2>2, <2>8, <3>1 DEF Listed
    <3>2. CASE u # t
      <4>1. u \in ToSet(condWaiters[k])
        <5>1. CASE k = l
          BY <2>3, <2>8, <3>2, <5>1
        <5>2. CASE k # l
          BY <2>2, <2>8, <5>2
        <5> QED BY <5>1, <5>2
      <4>2. u \in Thread
        BY <4>1, SignalTypes DEF ToSet
      <4> QED BY <2>2, <3>2, <4>1, <4>2 DEF SignalInv, ListsOK
    <3> QED BY <3>1, <3>2
  <2>9. ListsOK'
    BY <2>2, <2>3, <2>8 DEF SignalInv, ListsOK
  <2> QED BY <2>7, <2>9 DEF SignalInv
<1>4. ASSUME NEW t \in Thread, NEW l \in Cond, CondSignal(t, l) PROVE SignalInv'
  BY <1>4, SignalTypes, PopSignals DEF CondSignal, At, ReturnLabel
<1>5. ASSUME NEW t \in Thread, NEW l \in Cond, CondBroadcast(t, l) PROVE SignalInv'
  BY <1>5, SignalTypes, PopSignals DEF CondBroadcast, At
<1>6. ASSUME NEW t \in Thread, BroadcastDone(t) PROVE SignalInv'
  BY <1>6, SignalTypes, CalmStep DEF BroadcastDone, At, ReturnLabel, synchVars, Goto, Calm, Concerned
<1> QED BY <1>1, <1>2, <1>3, <1>4, <1>5, <1>6 DEF ConditionStep

\* The other steps do not touch the semaphores of cond_wait.
LEMMA OtherSignals ==
    ASSUME TypeInv, QueueInv, SignalInv, SleepStep \/ InterruptStep \/ ThreadStep
    PROVE  SignalInv'
<1>1. UNCHANGED <<value, waiters, condWaiters, monitor>>
  BY DEF SleepStep, InterruptStep, ThreadStep, synchVars, condVars
<1>2. ReturnLabel \cap {"call_down", "sema_down", "sema_up"} = {}
  BY DEF ReturnLabel
<1>3. ASSUME NEW t \in Thread, NEW l, Goto(t, l), l \notin {"call_down", "sema_down", "sema_up"},
             pc[t] \notin {"call_down", "sema_down", "sema_up"}, UNCHANGED <<ret, obj>>
      PROVE  SignalInv'
  BY <1>1, <1>3, SignalTypes, CalmStep DEF Goto, Calm, Concerned
<1>4. CASE SleepStep
  BY <1>3, <1>4 DEF SleepStep, synchVars, SleepReadClock, SleepBlock, SleepReturn, At
<1>5. ASSUME UNCHANGED <<pc, ret, obj>> PROVE SignalInv'
  BY <1>1, <1>5 DEF SignalInv, ListsOK, UnitOK, Waits, Listed, Signals, OnWaiters
<1>6. CASE InterruptStep
  <2>1. running \in Thread /\ UNCHANGED obj
    BY <1>6 DEF TypeInv, TypeOK, SchedTypeOK, InterruptStep, synchVars
  <2> QED BY <1>3, <1>5, <1>6, <2>1 DEF InterruptStep, TimerInterrupt, TimerSkips, TimerWakes, TimerReturns
<1>7. ASSUME NEW t \in Thread, NEW u \in Thread, NEW p \in NewPriorities, CreateInit(t, u, p)
      PROVE  SignalInv'
  <2>1. u # t /\ pc[u] = "dead"
    BY <1>7 DEF CreateInit, At, QueueInv, ReadyOK, PlacesOK
  <2>2. ret[t] = "run" /\ tid_lock \notin Thread
    BY <1>7, SignalTypes, LockTypes DEF CreateInit, At, ReturnLabel
  <2>3. /\ pc[t] = "run" /\ obj'[t] = tid_lock /\ ret'[t] = "tid_read"
        /\ \A v \in Thread \ {t} :
             /\ obj'[v] = obj[v] /\ ret'[v] = ret[v]
             /\ pc'[v] = pc[v] \/ (pc[v] = "dead" /\ pc'[v] = "run")
    BY <1>7, <2>1, SignalTypes DEF CreateInit, At
  <2>4. Calm(t)
    BY <1>1, <2>2, <2>3 DEF Calm, Concerned
  <2> QED BY <2>4, CalmStep
<1>8. ASSUME NEW t \in Thread, TidWrite(t)
      PROVE  SignalInv'
  <2>1. ret[t] \in {"tid_read", "create_unblock"}
    BY <1>8, TypeInvParts, SchedulerAssumption
       DEF TidWrite, At, QueueInv, ChildrenOK, ControlTypeOK, ArgsOK, MakesChild
  <2> QED BY <1>1, <1>8, <2>1, SignalTypes, CalmStep DEF TidWrite, At, Goto, Calm, Concerned
<1>9. ASSUME NEW t \in Thread, CreateUnblock(t)
      PROVE  SignalInv'
  <2>1. PICK l \in {"yield", "run"} : Goto(t, l)
    BY <1>9 DEF CreateUnblock
  <2>2. ret[t] = "create_unblock"
    BY <1>9, SignalTypes DEF CreateUnblock, At, ReturnLabel
  <2> QED BY <1>1, <1>9, <2>1, <2>2, SignalTypes, CalmStep DEF CreateUnblock, At, Goto, Calm, Concerned
<1>10. ASSUME NEW t \in Thread, ThreadYield(t) \/ TidRead(t) \/ ThreadExit(t)
       PROVE  SignalInv'
  <2>1. ret[t] \in ReturnLabel
    BY SignalTypes
  <2> QED BY <1>2, <1>3, <1>10, <2>1 DEF ThreadYield, TidRead, ThreadExit, At
<1>11. ASSUME NEW t \in Thread, NEW p \in NewPriorities, ThreadSetPriority(t, p)
       PROVE  SignalInv'
  BY <1>3, <1>11 DEF ThreadSetPriority, At
<1>12. ASSUME IdleBlock PROVE SignalInv'
  BY <1>3, <1>12, SchedulerAssumption DEF IdleBlock, At
<1> QED BY <1>4, <1>6, <1>7, <1>8, <1>9, <1>10, <1>11, <1>12 DEF ThreadStep

\* Nobody waits when thread_start has returned.
LEMMA InitSignals == Init => SignalInv
<1> SUFFICES ASSUME Init PROVE SignalInv
  OBVIOUS
<1>1. ToSet(<<>>) = {} /\ IsInjective(<<>>)
  BY DEF ToSet, IsInjective
<1>2. Thread \subseteq Semaphore
  BY DEF Semaphore
<1> QED
  BY <1>1, <1>2 DEF Init, SchedInit, SynchInit, CondInit, SignalInv, ListsOK, UnitOK, Waits, Listed, Signals, OnWaiters

\* Whatever happens between the steps of cond_wait, the unit that ends a wait is
\* accounted for.
THEOREM SignalsAccounted == Spec => []SignalInv
<1>1. TypeInv /\ QueueInv /\ SignalInv /\ [Next]_vars => SignalInv'
  <2> SUFFICES ASSUME TypeInv, QueueInv, SignalInv, [Next]_vars PROVE SignalInv'
    OBVIOUS
  <2>1. CASE UNCHANGED vars
    BY <2>1 DEF vars, synchVars, condVars, SignalInv, ListsOK, UnitOK, Waits, Listed, Signals, OnWaiters
  <2> QED BY <2>1, SynchSignals, ConditionSignals, OtherSignals DEF Next
<1> QED BY <1>1, InitSignals, Typing, Queues, PTL DEF Spec

\* cond_wait releases the lock and goes to sleep in several steps, and no signal
\* that comes in between is lost.
THEOREM NoSignalLost == Spec => []SignalNotLost
<1>1. TypeInv /\ QueueInv /\ SignalInv => SignalNotLost
  <2> SUFFICES ASSUME TypeInv, QueueInv, SignalInv PROVE SignalNotLost
    OBVIOUS
  <2>1. \A l \in Cond : \A t \in ToSet(condWaiters[l]) : t \in Thread
    BY SignalTypes DEF ToSet
  <2>2. ASSUME NEW t \in Thread, t \in OnWaiters(t)
        PROVE  Listed(t) \/ \E u \in Thread : Signals(u, t)
    <3>1. pc[t] = "sema_down" /\ obj[t] = t /\ value[t] = 0
      BY <2>2, SignalTypes DEF SignalInv, UnitOK, QueueInv, WaitersOK
    <3> QED BY <3>1 DEF SignalInv, UnitOK, Waits
  <2> QED BY <2>1, <2>2 DEF SignalNotLost, SignalInv, ListsOK, UnitOK, Listed, Signals
<1> QED BY <1>1, Typing, Queues, SignalsAccounted, PTL

----------------------------------------------------------------------------
(* sema_up's scan.                                                         *)

\* Where every semaphore is a lock's or a waiter's of a condition variable, the
\* scan that reads one element too far does no harm: it compares with the value
\* of a semaphore that is 0 whenever somebody raises it.
THEOREM MonitorsDoNotPanic == Spec => [](Sema = Lock => NoPanic)
<1> DEFINE Safe == Sema = Lock => NoPanic
<1>1. TypeInv /\ QueueInv /\ LockInv /\ SignalInv /\ Safe /\ [Next]_vars => Safe'
  <2> SUFFICES ASSUME TypeInv, QueueInv, LockInv, SignalInv, NoPanic, [Next]_vars, Sema = Lock
               PROVE  NoPanic'
    OBVIOUS
  <2>1. ASSUME NEW t \in Thread, NEW s \in Semaphore, SemaUpPanics(t, s) PROVE FALSE
    <3>1. pc[t] = "sema_up" /\ s = obj[t]
      BY <2>1 DEF SemaUpPanics, InSemaUp, At
    <3>2. value[s] = 0
      <4>1. CASE s \in Lock
        BY <3>1, <4>1 DEF LockInv, Owns
      <4>2. CASE s \in Thread
        BY <3>1, <4>2 DEF SignalInv, UnitOK, Signals
      <4> QED BY <4>1, <4>2 DEF Semaphore
    <3>3. PICK k \in 1..Len(waiters[s]) : priority[waiters[s][k]] < value[s]
      <4>1. waiters[s] \in Seq(Thread) /\ waiters[s] # <<>> /\ ScanPassesTail(s)
        BY <2>1, QueueTypes DEF SemaUpPanics
      <4>2. 1 \in 1..Len(waiters[s])
        BY <4>1, EmptySeq
      <4> QED BY <4>1, <4>2, ScanEnds, QueueTypes DEF CPUTypeOK
    <3>4. priority[waiters[s][k]] \in 0..63
      <4>1. waiters[s][k] \in Thread
        BY QueueTypes
      <4> QED BY <4>1, QueueTypes DEF CPUTypeOK, Priority, PRI_MIN, PRI_MAX
    <3>5. PICK q \in 0..63 : q < value[s]
      BY <3>3, <3>4
    <3> QED BY <3>2, <3>5
  <2>2. UNCHANGED panicked
    BY <2>1 DEF Next, vars, SynchStep, ConditionStep, SleepStep, InterruptStep, ThreadStep, flags,
                SemaDownBlocks, SemaDownTakes, SemaUpNoWaiter, SemaUpWakes, LockRelease, SetHolder
  <2> QED BY <2>2 DEF NoPanic
<1>2. Init => Safe
  BY DEF Init, SchedInit, NoPanic
<1> QED BY <1>1, <1>2, Typing, Queues, Locks, SignalsAccounted, PTL DEF Spec
============================================================================
