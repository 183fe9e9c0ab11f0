------------------------------ MODULE Process ------------------------------
(***************************************************************************)
(* Processes of project 4: process_execute, start_process, process_wait    *)
(* and process_exit (os_prj4_20191599/src/userprog/process.c) with the     *)
(* parts of threads/thread.c that create and free a thread.  A process is  *)
(* the page its struct thread lives in.  Parent and child meet at two      *)
(* semaphores of the child: childSema, which the child raises when it has  *)
(* loaded and again when it exits, and memSema, which the parent raises    *)
(* when it has read the child's status.                                    *)
(*                                                                         *)
(* The run queue is not modelled: it is first come first served, and the   *)
(* timer preempts, so any thread that is not asleep may take the next step *)
(* and every one takes it some time.                                       *)
(***************************************************************************)
EXTENDS FifoSema, FiniteSets

CONSTANTS
    Page,        \* pages a struct thread may live in
    Main, Idle,  \* initial_thread and the idle thread
    NULL,        \* the null pointer
    ExitStatus,  \* statuses user programs exit with
    MaxTid       \* bound: tids handed out

ASSUME ProcessAssumption ==
    /\ Main \in Page /\ Idle \in Page /\ Main # Idle
    /\ NULL \notin Page
    /\ ExitStatus \subseteq Int
    /\ MaxTid \in Nat /\ MaxTid >= 2

VARIABLES
    tid,          \* struct thread: tid, 0 in a free page
    childList,    \* struct thread: childList
    childSema,    \* struct thread: childSema
    memSema,      \* struct thread: memSema
    flag,         \* struct thread: flag, set when the program is loaded
    exit_status,  \* struct thread: exit_status
    pc,           \* where each thread stands
    child,        \* the local variable child or t of execute and wait
    answer,       \* the last answer a call gave: the caller's tid, the argument of its
                  \* wait or 0 for an execute, and what it returned
    task,         \* what execute returned to run_task
    next_tid      \* allocate_tid's counter

vars == <<tid, childList, childSema, memSema, flag, exit_status, pc, child, answer, task,
          next_tid>>

Tid == 1..MaxTid
Label == {"free", "idle", "load", "loaded", "run", "run_task", "exec_down", "exec_flag",
          "wait_down", "wait_read", "wait_up", "exit_up", "exit_down", "dying"}

\* Inside process_exit, and past it.
Exiting == {"exit_up", "exit_down", "dying"}

\* Thread p executes at label l: it is not asleep in either semaphore.
At(p, l) ==
    /\ pc[p] = l
    /\ \A u \in Page : ~Waits(p, childSema[u]) /\ ~Waits(p, memSema[u])

Goto(p, l) == pc' = [pc EXCEPT ![p] = l]

\* A system call returns to the user's code; in initial_thread process_execute
\* returns to run_task, which keeps what it returned to wait for it.
Return(p, arg, value) == answer' = <<tid[p], arg, value>>
ExecuteAnswer(p, value) ==
    /\ Return(p, 0, value)
    /\ task' = IF p = Main THEN value ELSE task
Caller(p) == IF p = Main THEN "run_task" ELSE "run"

----------------------------------------------------------------------------
(* process_execute and start_process.                                      *)

\* No such file, or no page for the copy of its name or for the thread.
ExecuteFails(p) ==
    /\ At(p, "run")
    /\ ExecuteAnswer(p, -1)
    /\ Goto(p, Caller(p))
    /\ UNCHANGED <<tid, childList, childSema, memSema, flag, exit_status, child, next_tid>>

\* thread_create: init_thread in a zeroed page, allocate_tid, thread_unblock.
\* init_thread puts the child at the end of its creator's list, and execute
\* takes it off again; nobody else looks at that list.
Execute(p, u) ==
    /\ At(p, "run")
    /\ pc[u] = "free" /\ next_tid <= MaxTid
    /\ tid' = [tid EXCEPT ![u] = next_tid]
    /\ next_tid' = next_tid + 1
    /\ childList' = [childList EXCEPT ![u] = <<>>]
    /\ childSema' = [childSema EXCEPT ![u] = NewSema(0)]
    /\ memSema' = [memSema EXCEPT ![u] = NewSema(0)]
    /\ flag' = [flag EXCEPT ![u] = FALSE]
    /\ exit_status' = [exit_status EXCEPT ![u] = 0]
    /\ child' = [child EXCEPT ![p] = u, ![u] = NULL]
    /\ UNCHANGED <<answer, task>>
    /\ pc' = [pc EXCEPT ![p] = "exec_down", ![u] = "load"]

\* start_process: load() succeeds or fails.
Load(u) ==
    /\ At(u, "load")
    /\ \E success \in BOOLEAN : flag' = [flag EXCEPT ![u] = success]
    /\ Goto(u, "loaded")
    /\ UNCHANGED <<tid, childList, childSema, memSema, exit_status, child, answer, task, next_tid>>

\* The child tells its parent; if load failed it goes on to thread_exit.
Loaded_NoWake(u) ==
    /\ At(u, "loaded")
    /\ childSema' = [childSema EXCEPT ![u] = Raised_NoWake(@)]
    /\ Goto(u, IF flag[u] THEN "run" ELSE "exit_up")
    /\ UNCHANGED <<tid, childList, memSema, flag, exit_status, child, answer, task, next_tid>>
Loaded(u) ==
    /\ At(u, "loaded")
    /\ childSema' = [childSema EXCEPT ![u] = Raised(@)]
    /\ Goto(u, IF flag[u] THEN "run" ELSE "exit_up")
    /\ UNCHANGED <<tid, childList, memSema, flag, exit_status, child, answer, task, next_tid>>

\* sema_down(&child->childSema), by execute and by wait.
DownChildSema(p, from, to) ==
    /\ At(p, from)
    /\ LET u == child[p] IN
       IF IsZero(childSema[u])
       THEN childSema' = [childSema EXCEPT ![u] = Enqueued(@, p)] /\ UNCHANGED pc
       ELSE childSema' = [childSema EXCEPT ![u] = Lowered(@)] /\ Goto(p, to)
    /\ UNCHANGED <<tid, childList, memSema, flag, exit_status, child, answer, task, next_tid>>

ExecuteDown_Skipped(p) ==
    /\ At(p, "exec_down")
    /\ Goto(p, "exec_flag")
    /\ UNCHANGED <<tid, childList, childSema, memSema, flag, exit_status, child, answer, task, next_tid>>
ExecuteDown(p) == DownChildSema(p, "exec_down", "exec_flag")

\* A child that has loaded goes back on its parent's list.
ExecuteReturns(p) ==
    /\ At(p, "exec_flag")
    /\ LET u == child[p] IN
       /\ childList' = [childList EXCEPT ![p] = IF flag[u] THEN Append(@, u) ELSE @]
       /\ ExecuteAnswer(p, IF flag[u] THEN tid[u] ELSE -1)
    /\ child' = [child EXCEPT ![p] = NULL]
    /\ Goto(p, Caller(p))
    /\ UNCHANGED <<tid, childSema, memSema, flag, exit_status, next_tid>>

----------------------------------------------------------------------------
(* process_wait.                                                           *)

\* The children of p that the scan finds under this tid.
ChildrenWithTid(p, arg) == {u \in Page : Contains(childList[p], u) /\ tid[u] = arg}

WaitFindsNobody(p, arg) ==
    /\ At(p, "run") \/ At(p, "run_task")
    /\ ChildrenWithTid(p, arg) = {}
    /\ Return(p, arg, -1)
    /\ Goto(p, "run")
    /\ UNCHANGED <<tid, childList, childSema, memSema, flag, exit_status, child, next_tid>>

WaitFinds(p, arg) ==
    /\ At(p, "run") \/ At(p, "run_task")
    /\ \E u \in ChildrenWithTid(p, arg) : child' = [child EXCEPT ![p] = u]
    /\ Goto(p, "wait_down")
    /\ UNCHANGED <<tid, childList, childSema, memSema, flag, exit_status, answer, next_tid>>

ProcessWait(p, arg) == WaitFindsNobody(p, arg) \/ WaitFinds(p, arg)

\* A user program may pass any number; run_task passes what execute returned.
UserWait(p) ==
    /\ p # Main /\ At(p, "run")
    /\ \E arg \in Tid \union {-1} : ProcessWait(p, arg)
    /\ UNCHANGED task
TaskWait(p) ==
    /\ At(p, "run_task")
    /\ ProcessWait(p, task)
    /\ task' = 0

WaitDown(p) == DownChildSema(p, "wait_down", "wait_read")

\* exit_status is read, and the child taken off the list.
WaitRead_NotRemoved(p) ==
    /\ At(p, "wait_read")
    /\ Return(p, tid[child[p]], exit_status[child[p]])
    /\ Goto(p, "wait_up")
    /\ UNCHANGED <<tid, childList, childSema, memSema, flag, exit_status, child, task, next_tid>>
WaitRead(p) ==
    /\ At(p, "wait_read")
    /\ Return(p, tid[child[p]], exit_status[child[p]])
    /\ \E i \in DOMAIN childList[p] :
          /\ childList[p][i] = child[p]
          /\ childList' = [childList EXCEPT ![p] = RemoveAt(@, i)]
    /\ Goto(p, "wait_up")
    /\ UNCHANGED <<tid, childSema, memSema, flag, exit_status, child, task, next_tid>>

\* sema_up(&t->memSema): the child may go.
WaitUp_WrongSema(p) ==
    /\ At(p, "wait_up")
    /\ childSema' = [childSema EXCEPT ![child[p]] = Raised(@)]
    /\ child' = [child EXCEPT ![p] = NULL]
    /\ Goto(p, "run")
    /\ UNCHANGED <<tid, childList, memSema, flag, exit_status, answer, task, next_tid>>
WaitUp(p) ==
    /\ At(p, "wait_up")
    /\ memSema' = [memSema EXCEPT ![child[p]] = Raised(@)]
    /\ child' = [child EXCEPT ![p] = NULL]
    /\ Goto(p, "run")
    /\ UNCHANGED <<tid, childList, childSema, flag, exit_status, answer, task, next_tid>>

----------------------------------------------------------------------------
(* process_exit.                                                           *)

\* mySysExit(status): also what a bad pointer or a bad page fault comes to,
\* with status -1.
Exit(p, status) ==
    /\ p # Main /\ At(p, "run")
    /\ exit_status' = [exit_status EXCEPT ![p] = status]
    /\ Goto(p, "exit_up")
    /\ UNCHANGED <<tid, childList, childSema, memSema, flag, child, answer, task, next_tid>>

\* thread_exit() by kill(), at an exception in a user program, and by main()
\* after its last task: exit_status keeps its initial value.
ExitWithoutStatus(p) ==
    /\ At(p, "run")
    /\ Goto(p, "exit_up")
    /\ UNCHANGED <<tid, childList, childSema, memSema, flag, exit_status, child, answer, task, next_tid>>

\* The address space is freed; then the parent is told.
ExitUp_NoWake(p) ==
    /\ At(p, "exit_up")
    /\ childSema' = [childSema EXCEPT ![p] = Raised_NoWake(@)]
    /\ Goto(p, "exit_down")
    /\ UNCHANGED <<tid, childList, memSema, flag, exit_status, child, answer, task, next_tid>>
ExitUp(p) ==
    /\ At(p, "exit_up")
    /\ childSema' = [childSema EXCEPT ![p] = Raised(@)]
    /\ Goto(p, "exit_down")
    /\ UNCHANGED <<tid, childList, memSema, flag, exit_status, child, answer, task, next_tid>>

\* sema_down(&cur->memSema): the process stays until its parent has waited.
ExitDown_NoWait(p) ==
    /\ At(p, "exit_down")
    /\ Goto(p, "dying")
    /\ UNCHANGED <<tid, childList, childSema, memSema, flag, exit_status, child, answer, task, next_tid>>
ExitDown(p) ==
    /\ At(p, "exit_down")
    /\ IF IsZero(memSema[p])
       THEN memSema' = [memSema EXCEPT ![p] = Enqueued(@, p)] /\ UNCHANGED pc
       ELSE memSema' = [memSema EXCEPT ![p] = Lowered(@)] /\ Goto(p, "dying")
    /\ UNCHANGED <<tid, childList, childSema, flag, exit_status, child, answer, task, next_tid>>

\* The last schedule(): thread_schedule_tail frees the page of a dying thread.
\* What the page held no longer matters, as the next thread in it starts from a
\* zeroed page: the fields are reset here to keep freed pages alike.
Die(p) ==
    /\ At(p, "dying") /\ p # Main
    /\ tid' = [tid EXCEPT ![p] = 0]
    /\ childList' = [childList EXCEPT ![p] = <<>>]
    /\ exit_status' = [exit_status EXCEPT ![p] = 0]
    /\ flag' = [flag EXCEPT ![p] = FALSE]
    /\ Goto(p, "free")
    /\ UNCHANGED <<childSema, memSema, child, answer, task, next_tid>>

----------------------------------------------------------------------------
\* The state when run_actions begins.  init_thread put initial_thread and the
\* idle thread on the list of the thread that was running: initial_thread.
Init ==
    /\ tid = [p \in Page |-> CASE p = Main -> 1 [] p = Idle -> 2 [] OTHER -> 0]
    /\ childList = [p \in Page |-> IF p = Main THEN <<Main, Idle>> ELSE <<>>]
    /\ childSema = [p \in Page |-> NewSema(0)]
    /\ memSema = [p \in Page |-> NewSema(0)]
    /\ flag = [p \in Page |-> FALSE]
    /\ exit_status = [p \in Page |-> 0]
    /\ pc = [p \in Page |-> CASE p = Main -> "run" [] p = Idle -> "idle" [] OTHER -> "free"]
    /\ child = [p \in Page |-> NULL]
    /\ answer = <<0, 0, 0>>
    /\ task = 0
    /\ next_tid = 3

\* What a thread does once it is in the kernel.
InKernel(p) ==
    \/ Load(p) \/ Loaded(p) \/ ExecuteDown(p) \/ ExecuteReturns(p)
    \/ TaskWait(p) \/ WaitDown(p) \/ WaitRead(p) \/ WaitUp(p)
    \/ ExitUp(p) \/ ExitDown(p) \/ Die(p)

\* What a thread may ask of it.
Calls(p) ==
    \/ ExecuteFails(p)
    \/ \E u \in Page : Execute(p, u)
    \/ UserWait(p)
    \/ \E status \in ExitStatus : Exit(p, status)
    \/ ExitWithoutStatus(p)

Next == \E p \in Page : Calls(p) \/ InKernel(p)

Spec == Init /\ [][Next]_vars

\* A thread in the kernel that is not asleep gets the CPU again.
FairSpec == Spec /\ \A p \in Page \ {Idle} : WF_vars(InKernel(p))

----------------------------------------------------------------------------
(* Properties.                                                             *)

Answers == (Tid \union {0}) \X (Tid \union {0, -1}) \X (Tid \union ExitStatus \union {0, -1})

\* Types; childSema holds at most the two messages of its thread, memSema one.
TypeOK ==
    /\ tid \in [Page -> Tid \union {0}]
    /\ childList \in [Page -> Seq(Page)]
    /\ childSema \in [Page -> Semaphores(Page)]
    /\ memSema \in [Page -> Semaphores(Page)]
    /\ \A p \in Page : childSema[p].value <= 2 /\ memSema[p].value <= 1
    /\ flag \in [Page -> BOOLEAN]
    /\ exit_status \in [Page -> ExitStatus \union {0}]
    /\ pc \in [Page -> Label]
    /\ child \in [Page -> Page \union {NULL}]
    /\ answer \in Answers
    /\ task \in Tid \union {0, -1}
    /\ next_tid \in 3..(MaxTid + 1)

\* A process never holds a pointer to a child's page that has been freed, or
\* freed and taken by somebody else's child: neither on its list nor in a
\* local variable of a call it is still in (process.c:79-87, 168-188).
NoDanglingChild ==
    \A p, q \in Page :
        /\ \A i \in DOMAIN childList[p] :
              /\ pc[childList[p][i]] # "free"
              /\ \A j \in DOMAIN childList[q] :
                    childList[p][i] = childList[q][j] => p = q /\ i = j
        /\ child[p] # NULL =>
              /\ pc[child[p]] # "free"
              /\ child[p] = child[q] => p = q
              /\ Contains(childList[q], child[p]) =>
                     q = p /\ pc[p] \in {"wait_down", "wait_read"}

\* The one semaphore that carries "I have loaded" and "I have exited" does not
\* mix them up: past its down execute sees a child that has loaded or failed
\* to, past its own down wait sees one that has exited (process.c:81, 181).
MessagesNotConfused ==
    \A p \in Page :
        /\ pc[p] = "exec_flag" => pc[child[p]] # "load"
        /\ pc[p] \in {"wait_read", "wait_up"} => pc[child[p]] \in {"exit_down", "dying"}

\* Execute and wait keep what their comments promise (process.c:30-33, 153-158),
\* but for the status of a killed process: execute returns a process that has
\* loaded; a wait for a child returns the status it ended with, after it ended, to
\* one caller, once, and 0 if it was killed; and only what is no child gets -1.
ByTid(f, t, default) ==
    IF \E u \in Page : tid[u] = t THEN f[CHOOSE u \in Page : tid[u] = t] ELSE default
LifeOf == [p \in Page |-> IF pc[p] \notin Exiting THEN "alive"
                           ELSE IF flag[p] \/ p = Main THEN "ended" ELSE "failed"]
CodeOf == [p \in Page |-> IF LifeOf[p] = "ended" THEN exit_status[p] ELSE 0]
TidsOf == [p \in Page |-> {tid[childList[p][i]] : i \in DOMAIN childList[p]}]
LifeByTid == [t \in Tid |-> ByTid(LifeOf, t, IF t < next_tid THEN "gone" ELSE "unborn")]
CodeByTid == [t \in Tid |-> ByTid(CodeOf, t, 0)]
ChildrenByTid == [t \in Tid |-> ByTid(TidsOf, t, {})]
Abstract == INSTANCE ExecWait WITH
    KilledStatus <- 0,
    life <- LifeByTid, code <- CodeByTid, children <- ChildrenByTid
ImplementsExecWait == Abstract!Spec

\* process.c:153-155, "If it was terminated by the kernel (i.e. killed due to an
\* exception), returns -1": the answer for a child that ended in no mySysExit,
\* whose status is then none of ExitStatus.
KilledAnswersMinusOne ==
    [][\A p \in Page :
         /\ pc[p] = "wait_read" /\ pc'[p] = "wait_up"
         /\ exit_status[child[p]] \notin ExitStatus
         => answer'[3] = -1]_vars

\* A process that executes a program gets its answer: whether the child loads
\* or fails, and however early it exits (process.c:81, 128).
ExecuteAnswers ==
    \A p \in Page \ {Idle} : pc[p] = "exec_down" ~> pc[p] \in {"run", "run_task"}

\* A process that waits for a child that exits gets its answer (process.c:181).
WaitAnswers ==
    \A p \in Page \ {Idle} :
        (pc[p] = "wait_down" /\ pc[child[p]] \in Exiting) ~> pc[p] = "run"

\* A child that has been waited for goes, and its page is free some time
\* (process.c:187, 231-232).
ReapedIsFreed ==
    \A u \in Page \ {Main, Idle} :
        (\E p \in Page : pc[p] = "wait_up" /\ child[p] = u) ~> pc[u] = "free"
============================================================================
