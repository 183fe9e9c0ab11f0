----------------------------- MODULE Scheduler -----------------------------
(***************************************************************************)
(* The thread scheduler of project 3, os_prj3_20191599/src/threads/        *)
(* thread.c: the ready list kept in priority order, the status of every    *)
(* thread, and the context switch.  There is one CPU: interrupts are the   *)
(* only concurrency, and code that runs with interrupts off is one step.   *)
(*                                                                         *)
(* This module holds the state and the operations; who calls them is said  *)
(* in Synch (synch.c), Timer (devices/timer.c) and Kernel, which composes  *)
(* all three.                                                              *)
(***************************************************************************)
EXTENDS Integers, FiniteSets, Sequences, SequencesExt

CONSTANTS
    Thread,      \* the pages a struct thread may live in
    Main,        \* initial_thread
    Idle,        \* idle_thread
    NULL,        \* the null pointer
    TIME_SLICE   \* timer ticks a thread runs before it must yield

PRI_MIN == 0
PRI_DEFAULT == 31
PRI_MAX == 63
Priority == PRI_MIN .. PRI_MAX

ASSUME SchedulerAssumption ==
    /\ Main \in Thread /\ Idle \in Thread /\ Main # Idle
    /\ NULL \notin Thread
    /\ TIME_SLICE \in Nat \ {0}

\* enum thread_status; "NONE" is a page that holds no thread.
Status == {"NONE", "RUNNING", "READY", "BLOCKED", "DYING"}

VARIABLES
    status,            \* struct thread: status
    priority,          \* struct thread: priority
    ready_list,        \* the run queue; idle_thread is never on it
    running,           \* running_thread()
    thread_ticks,      \* timer ticks since the last switch
    in_external_intr,  \* interrupt.c: an external interrupt is being handled
    panicked,          \* debug_panic() was reached: the machine has stopped
    pc,                \* where each thread stands in the kernel's code
    ret                \* the label the outermost kernel call returns to

schedVars == <<status, priority, ready_list, running, thread_ticks>>

\* The labels of pc.  "run" is the thread's own code, outside the kernel.
Label == {"run", "yield", "call_down", "sema_down", "set_holder", "call_release", "sema_up",
          "cond_down", "cond_acquire", "cond_broadcast", "tid_read", "tid_write",
          "create_unblock", "sleep_push", "sleeping", "hlt", "dead"}

----------------------------------------------------------------------------
(* Interrupts and control points.                                          *)

\* A thread that was switched back to inside sema_down or timer_sleep still
\* has interrupts off; everywhere else between two steps they are on.
IntrOn == pc[running] \notin {"sema_down", "sleeping"}

\* The CPU executes t, which stands at label l.
At(t, l) ==
    /\ ~panicked /\ ~in_external_intr
    /\ running = t
    /\ pc[t] = l

Goto(t, l) == pc' = [pc EXCEPT ![t] = l]

----------------------------------------------------------------------------
(* The ready list.                                                         *)

\* list_insert_ordered puts a thread before the first element that
\* myPriorityCompare places after it: behind the longest prefix of threads
\* whose priority is at least its own.
AheadOf_Equals(t, list) ==
    {i \in 1..Len(list) : \A j \in 1..i : priority[list[j]] > priority[t]}
AheadOf(t, list) ==
    {i \in 1..Len(list) : \A j \in 1..i : priority[list[j]] >= priority[t]}

InsertOrdered_PushBack(list, t) == Append(list, t)
InsertOrdered(list, t) == InsertAt(list, Cardinality(AheadOf(t, list)) + 1, t)

\* schedule(), next_thread_to_run() and thread_schedule_tail(): the CPU goes to
\* the head of list, or to the idle thread, with a new time slice.  st is the
\* status of the threads once the old one has been marked.
Schedule(list, st) ==
    LET next == IF list = <<>> THEN Idle ELSE Head(list)
    IN  /\ running' = next
        /\ ready_list' = IF list = <<>> THEN <<>> ELSE Tail(list)
        /\ status' = [st EXCEPT ![next] = "RUNNING"]
        /\ thread_ticks' = 0

\* thread_yield() of the running thread t.
YieldCPU_NotListed(t) ==
    /\ Schedule(ready_list, [status EXCEPT ![t] = "READY"])
    /\ UNCHANGED priority
YieldCPU(t) ==
    /\ Schedule(IF t = Idle THEN ready_list ELSE InsertOrdered(ready_list, t),
                [status EXCEPT ![t] = "READY"])
    /\ UNCHANGED priority

\* thread_block() of the running thread t.
BlockCPU(t) ==
    /\ Schedule(ready_list, [status EXCEPT ![t] = "BLOCKED"])
    /\ UNCHANGED priority

\* thread_unblock(u): u becomes ready; the running thread keeps the CPU.
Unblock(u) ==
    /\ ready_list' = InsertOrdered(ready_list, u)
    /\ status' = [status EXCEPT ![u] = "READY"]
    /\ UNCHANGED <<priority, running, thread_ticks>>

\* thread_exit() of the running thread t: the next thread frees t's page in
\* thread_schedule_tail, unless t is initial_thread, which stays dying.
ExitCPU(t) ==
    /\ Schedule(ready_list,
                [status EXCEPT ![t] = IF t = Main THEN "DYING" ELSE "NONE"])
    /\ UNCHANGED priority

\* init_thread(u, priority) by thread_create: u is blocked and on no list.
InitThread(u, p) ==
    /\ status' = [status EXCEPT ![u] = "BLOCKED"]
    /\ priority' = [priority EXCEPT ![u] = p]
    /\ UNCHANGED <<ready_list, running, thread_ticks>>

----------------------------------------------------------------------------
(* The state when thread_start() has returned: main runs, and idle is off   *)
(* the ready list, inside the thread_yield of its one sema_up.             *)
SchedInit ==
    /\ status = [t \in Thread |-> CASE t = Main -> "RUNNING"
                                    [] t = Idle -> "READY"
                                    [] OTHER    -> "NONE"]
    /\ priority = [t \in Thread |-> IF t = Idle THEN PRI_MIN ELSE PRI_DEFAULT]
    /\ ready_list = <<>>
    /\ running = Main
    /\ thread_ticks = 0
    /\ in_external_intr = FALSE
    /\ panicked = FALSE
    /\ pc = [t \in Thread |-> IF t \in {Main, Idle} THEN "run" ELSE "dead"]
    /\ ret = [t \in Thread |-> "run"]

SchedTypeOK ==
    /\ status \in [Thread -> Status]
    /\ priority \in [Thread -> Priority]
    /\ ready_list \in Seq(Thread)
    /\ running \in Thread
    /\ thread_ticks \in 0..(TIME_SLICE - 1)
    /\ in_external_intr \in BOOLEAN
    /\ panicked \in BOOLEAN
    /\ pc \in [Thread -> Label]
    /\ ret \in [Thread -> Label]
============================================================================
