# Verification of the Sogang CS projects

The repository collects one student's course work. Its systems code is Pintos, the teaching
kernel, in four snapshots (`cse4070-operating-system/os_prj1 .. os_prj4`). This directory models
that kernel in TLA+, checks it with TLC and proves facts about it with TLAPS.

Paths below are relative to `src/cse4070-operating-system/`; *prj3* and *prj4* stand for
`os_prj3_20191599/src` and `os_prj4_20191599/src`.

## 1. Inventory

| Part | State | Operations | What is hard | What makes it correct |
|---|---|---|---|---|
| Scheduler, prj3 `threads/thread.c` | `ready_list`, status and priority of threads, `thread_ticks` | yield, block, unblock, create, exit, set_priority, tick | preemption at every instruction where interrupts are on; one list element per thread for all lists | no thread lost or listed twice; the highest priority runs; equals share |
| Semaphores and locks, prj3 `threads/synch.c` | value, waiters, holder | down, try_down, up, acquire, release | the woken thread races others for the unit; holder set outside the critical part | mutual exclusion, no lost wakeup |
| Condition variables, same file | waiters, each with its semaphore | wait, signal, broadcast | the signal between the release of the lock and the sleep | no lost signal |
| Alarm clock, prj3 `devices/timer.c` | `ticks`, `sleepingThreadList`, stamps | timer_sleep, timer_interrupt | clock read with interrupts on; list changed while walked | no early return, everybody wakes |
| Interrupts, prj3 `threads/interrupt.c` | level, `in_external_intr` | intr_disable/set_level, intr_handler | which functions may be called from a handler | no assertion reached |
| MLFQS and aging, prj3 `thread.c`, `timer.c` | nice, recent_cpu, load_avg | updateEverySec, updatePriority | 32-bit fixed point; priorities change under a sorted list | bounds, order |
| Processes, prj4 `userprog/process.c` | childList, `childSema`, `memSema`, flag, exit_status | execute, start, wait, exit | parent and child finish in either order; failed loads | wait returns the child's status once; nobody blocks for ever |
| Paging, prj4 `vm/*`, `userprog/exception.c` | page tables, `frame_table`, swap bitmap | fault, stack growth, evict, swap in and out | unlocked tables around blocking disk I/O | a page is in one place; a frame has one owner |
| System calls and files, prj4 `userprog/syscall.c`, `filesys/*` | fd tables, open inodes, directory, free map, `fileLock` | create, open, close, remove, read, write | some calls take `fileLock`, some do not | names unique, a sector belongs to one file, inode freed at the last close |
| Devices, prj4 `devices/intq.c`, `ide.c` | ring buffer, waiter pointers; `expecting_interrupt`, `completion_wait` | getc, putc, read, write, handler | interrupt against thread | FIFO, each request gets its own completion |
| Allocators, prj4 `threads/palloc.c`, `malloc.c` | bitmaps, arenas | get, free, malloc, free | the arena is freed with its last block | no block handed out twice |

The parts interact through calls and through the interrupt level: in prj3 `thread_create` calls
`allocate_tid` (a lock), locks and conditions call semaphores, semaphores call block, unblock and
yield; the timer interrupt calls unblock and, at the end of a time slice, yields for the thread
it interrupted. prj4's processes, files and frames are clients of the same kernel, with the
original FIFO `sema_up`, which does not yield. A process's page faults take frames from other
processes through `frame_table` and the swap block; its system calls meet others in the directory,
the open-inode list and the free map, under `fileLock` or not; its output goes through the console
lock to the serial queue, its input comes from the keyboard queue under `fileLock`.

`PROJECT.json` lists the components, those left out too, and under `hazards` the lines where the
code is hard to test, with the property that watches each.

Left out for good: projects 1 and 2 (earlier states of the same tree), user programs, tests,
emulator patches, the loader, page-directory encoding and hardware set-up of Pintos; the
multicore-programming directory, whose sources are the course's skeletons (an echo server, a shell
without job control, a heap simulator) and `csapp.c`, the textbook's wrappers; the F#, compiler, database, graphics and data-analysis
course work.

## 2. Modules

| Module | Models | Notes |
|---|---|---|
| `Scheduler` | prj3 `thread.c`: run queue, switch, status | operators used by the others; state, no `Next` of its own |
| `Synch` | prj3 `synch.c`: semaphores, locks | extends `Scheduler` |
| `Condition` | prj3 `synch.c`: condition variables | extends `Synch` |
| `Timer` | prj3 `timer.c` and the interrupt entry and exit around it | extends `Scheduler` |
| `Kernel` | composition; thread_create with allocate_tid, set_priority, exit, idle; all properties | extends `Condition`, `Timer` |
| `Mutex` | what the comments of `synch.c` promise of a lock | `Kernel!Owner` refines its `owner` |
| `FifoSema` | prj4 `synch.c`: semaphores as values | extended by `Process`, `Frames`, `Serial` |
| `Process` | prj4 `process.c`, thread creation and death in `thread.c`, the ends of a program in `syscall.c` and `exception.c` | |
| `ExecWait` | what the comments of `process.c` promise of execute and wait | `Process` refines it |
| `Frames` | prj4 `exception.c`, `vm/frame.c`, `vm/page.c`, `vm/swap.c`, the page loops of `process.c` | |
| `FileSys` | prj4 `syscall.c`, `filesys/*` | |
| `FileStore` | what the comments of `filesys/` promise of files | `FileSys` refines it |
| `Serial` | prj4 `devices/intq.c`, `serial.c`, `input.c`, `kbd.c`, the lock of `lib/kernel/console.c` | |
| `MC...` | instances for TLC | |
| `ListLemmas` | lemmas about lists, for the modules below | see section 5 |
| `KernelProofs`, `KernelLocks`, `KernelOrder` | proofs about `Kernel`: types, lists and statuses; locks, tids and signals; priorities, wakeups and sleeps | the last two extend `KernelProofs` |
| `ProcessProofs` | proofs about `Process`, with the refinement of `ExecWait` | |
| `FramesProofs` | proofs about `Frames` where evictions do not overlap | |
| `SerialProofs` | proofs about `Serial` | |
| `FileSysProofs` | proofs about `FileSys` as one process uses it | |

### 2.1 The kernel of project 3

**Grain.** There is one CPU. A stretch of code that runs with interrupts off is one step; between
two such stretches the timer may interrupt. A context switch inside a kernel function is a step
that ends with another thread running and leaves `pc` of the old one at the point it will be
switched back to: `"sema_down"` (in the loop, about to look at the value again) and `"sleeping"`
still have interrupts off, so no interrupt comes before the next step (`IntrOn`).

**Control points.** `pc[t]` is where the thread stands: `"run"` is its own code; `"yield"` the
`thread_yield` that ends `sema_up`, `thread_create` and `thread_set_priority`; `"set_holder"` the
end of `lock_acquire`; `"call_down"`, `"call_release"` calls made by another kernel function on
`obj[t]`; `"tid_read"`, `"tid_write"` the two halves of `next_tid++`. `ret[t]` is the point the
outermost kernel call continues at, since conditions and `allocate_tid` call locks and locks call
semaphores.

**Clients.** What threads do at `"run"` is any sequence of calls the functions' own assertions
allow: take a lock not held, release one held, wait or signal with the monitor's lock held,
raise or lower a semaphore, sleep, yield, change priority, create a thread, exit. Two assumptions
on clients are ours: a thread exits holding no lock, and a semaphore is raised up to `MaxValue`.
The pool lock that `thread_create` takes inside `palloc_get_page` is any lock but `tid_lock` taken
and released at `"run"`.

**Names.** A thread is the page its `struct thread` is in; the page is free (`"NONE"`) again when
the next thread runs. The semaphore on the stack of a thread in `cond_wait` is named by that
thread. A condition variable is named by its lock. `tid_lock` is the lock in `allocate_tid`.

**Start.** `Init` is the state when `thread_start` has returned: `main` runs; the idle thread has
raised `idle_started`, yielded and is ready, but on no list, as `thread_yield` leaves it.

**Folded.** The comparison at the end of `thread_create` reads the priority of the current thread
and a parameter, neither of which another thread changes, so it is in one step with
`thread_unblock`. `list_insert_ordered` is the operator `InsertOrdered`. The `ready_list` is a
sequence, and a thread's list element is taken off one list before it is put on the next within
one step, as the code does with interrupts off.

**The scan of sema_up.** `sema_up` looks for the waiter of highest priority in a loop that steps
first and looks afterwards, and so looks at the list's tail too. With the layouts of the two
structs, the "priority" found there is the semaphore's value. `Scanned` is what the loop reads, in
order, and `IterMax` the loop: where `iterMax` is when it ends. `ScanPassesTail` is the case where it
is at the tail, because the value exceeds every waiter's priority; `list_remove(tail)` then fails its
assertion (`SemaUpPanics`). This is the only assertion a step of the model may run into: those at the
head of a function are guards of its action, since the callers that are modelled respect them.

**Notation.** `At(p, l)` and `Goto(p, l)` are how these modules speak of a control point; they stand
for no code, so `PROJECT.json` maps them to none.

### 2.2 Project 4

Project 4's scheduler is round robin and its `sema_up` does not yield, so where the CPU is does not
matter: any thread that is not asleep may take the next step. A step is what a thread does between
two points where another could run and see the difference: a semaphore operation, a disk
operation, a store that others read. A semaphore is a record of its value and its waiters; a woken
thread looks at the value again, as the loop in `sema_down` does.

**Process.** A process is the page of its `struct thread`; pages are freed and reused, which is what
pointers in `childList` may get wrong. Locals of `process_execute` and `process_wait` are `child`. The
outcome of `load()`, whether a program is found, and what a program does next are free choices.
`ExitWithoutStatus` is `thread_exit` called by anyone but `mySysExit`; `task` is what `run_task` passes from
`process_execute` to `process_wait`. `ExecWait` speaks of tids and
knows no semaphores and no pages. It has an action for each way a process ends: not loaded, exited with
a status of its own, out of tasks, killed. What the last of these makes `wait` return is its constant `KilledStatus`;
the comment promises -1, `Process` implements it with 0 and with nothing else (section 4).

**Frames.** `pte` is the page directories, `pad` and `swapI` the fields of `struct page_entry`, `kpage`,
`victim` and `slot` the locals of the functions an eviction runs through. `job` says which function
wants the frame, `todo` for which pages. A frame's contents is a version of a page, `Zeros`, or `Junk`
once it has been freed; `latest` remembers what a process wrote last to each page, and `lost` the pages where
that will not be found again: written to between `swapOut`'s copy and `clearFrame`, or covered with zeros by `stackGrowth`;
the next write to the page ends that. `"panic"` is a failed assertion of `palloc_free_page`
or of `pagedir_set_page` or a transfer to no slot, `"failed"` a frame that was not obtained.

**FileSys.** The unit is the sector. `root`, `disk_map`, `disk` survive a crash, the rest does not. `call` holds the
locals of the call a process is in. `leaked` counts the opens nobody can close: those of
`process_execute`, which opens the program to see whether it exists, and those of `mySysOpen` without a
free descriptor. `lost` collects the sectors that a failed creation or a crash leaves allocated. The
read of a directory slot by slot is one step. `FileStore` has files, names and handles only, and
loses nothing but handles in a crash.

**Serial.** Both queues and both directions of the port are one module because they share the interrupt
enable register, which every change of either queue rewrites. Of `not_full` and `not_empty` one is
always `NULL` in each queue, so the model has one `waiter`. Bytes are numbers, which is what order is
checked by. The UART, which raises the interrupts, is external (`Transmitted`, `Received`).

## 3. Runs

The first four are instances of the kernel of project 3 with `main`, `idle` and one to three more threads, `TIME_SLICE = 2`.

| Run | Instance | Shows |
|---|---|---|
| `synch` | three extra threads, `tid_lock`, one counting semaphore up to 2, priorities 0 and 31 | `TypeOK`, `ElemExclusive`, `NoLostWakeup`, `RunsHighest`, `TidsUnique`, `NoThreadLost`, `SwitchToHighest`, `WakesHighest` |
| `monitor` | two extra threads, `tid_lock` and one monitor | `MutualExclusion`, `NoPanic`, `SignalNotLost`, refinement of `Mutex` |
| `alarm` | one extra thread, sleeps of 0 and 2 ticks, clock to 4, fairness | `ElemExclusive`, `SleepsLongEnough`, `SleepersWake`, `PreemptsLower`, `RoundRobin` |
| `scan` (violation) | two extra threads, two locks, one counting semaphore up to 2 | `NoPanic` fails: see findings |
| `process` | main, idle and two more pages, tids up to 5 | `TypeOK`, `NoDanglingChild`, `MessagesNotConfused`, refinement of `ExecWait`, `ExecuteAnswers`, `WaitAnswers`, `ReapedIsFreed` |
| `process_killed` (violation) | as `process`, tids up to 4 | `KilledAnswersMinusOne` fails: see findings |
| `frames` | one process of 5 pages in 3 frames whose stack grows (`Alone`); parent and child of 2 pages each in 2 frames (`Family`), and of 3 each (`Thrash`) | `TypeOK`, `FramesOwned`, `SlotsOwned`, `DataKept`, `AlwaysProvides`, `FaultReturns` |
| `frames_lost_write` (violation) | the parent and the child of `Family` | `NoLostWrite` fails: see findings |
| `frames_stack` (violation) | the process of `Alone` | `StackKept` fails: see findings |
| `filesys` | one process, 2 names, 2 slots, 4 sectors, files of 1 or 2 | `TypeOK`, `DiskConsistent`, `OpensCounted`, `NothingElseLost`, refinement of `FileStore` |
| `filesys_create_race` (violation) | two processes that create one name | `NamesDistinct` fails: see findings |
| `serial` | a reader, two writers, queues of 2 bytes (`INTQ_BUFSIZE` 3), one byte printed by handlers | `TypeOK`, `NoPanic`, `BytesInOrder`, `PutcReturns`, `GetcReturns` |

**Bounds.** `MaxTid` ends the creation of threads. Pages are reused before it is reached, as far as
it allows: it is 5 in `synch` and 4 in `monitor`, so exit, reuse and a second creator all happen.
`MaxValue` 2 is the least value at which two wakeups can be outstanding, and above the lower
priority 0, which the scan needs. `MaxTicks`: no thread goes to sleep when its stamp would exceed
it, so a clock that stands still there compares with every stamp as one that runs on, and
interrupts keep coming: nothing is cut off but the number of sleeps. In the runs without
sleepers (`MaxTicks = 0`) the clock does not matter. `TIME_SLICE = 2` (4 in the code) keeps both
cases, a tick that ends the slice and one that does not. Priorities: two values, the second
below, at or above that of `main`; the refinement and the locks do not depend on more.
`Symm` permutes the extra threads, and is used in the runs without liveness properties.

`CHECK_DEADLOCK FALSE` stands in `synch` and, for the reason given below, in `process` and `process_killed` only: with a
counting semaphore the machine can stop in the assertion that `scan` shows. Everywhere else TLC also checks that
something can always happen.
Threads that wait for each other's locks are not a deadlock of the kernel, whose idle thread
and timer go on.

**Bounds, project 4.**
* `process`: two pages and three tids for user processes, so a page is reused, by a child of the same
  parent or of another, while an older pointer to it could exist, and a child may be a parent.
  `ExitStatus` has one value; the other is the 0 of a process that ends without one. `process_killed` needs one child only. With
  `CHECK_DEADLOCK FALSE`, because the system can stop: a process whose parent never waits stays in
  `process_exit`, and `main` may wait for a program that waits for ever.
* `frames`: the scenarios are those in which no two evictions overlap: one process, or a parent, asleep
  while its child loads, and its child, both faulting under `pageLock`. `load()` and `stackGrowth`
  evict without the lock, so with a third process that loads while another faults, or two that grow,
  two evictors can choose one victim, and `FramesOwned` is false; that is listed as a hazard. `MCFrames`
  assumes of its instances what the theorems assume (`EvictionsSafe`, `EnoughFrames`, section 5), with nothing to
  spare: in `Alone` the stack's top is evicted and mapped again while it still has its
  first slot. The frame it is mapped to again is not on `frame_table`, so it is never
  evicted a second time. With fewer slots `swapOut` returns -1 and the page is lost, another hazard. So what these
  runs say of overlapping evictors and of a full swap space is nothing. In `Family` the pages of either process fit
  the frames, so that faults end when the other one rests; in `Thrash` they do not, and each process alone may fault for ever.
* `filesys`: one process, since a second that finds an inode on the list before its sector has been
  read uses memory that was not initialised (`inode.c:135-140`); four sectors are too few for
  both files at their largest, so the second allocation of a creation fails too; `dir_add` fails
  on a name that exists, and never on a full directory, which ends in the same step. A crash may come before any
  disk operation. `MaxLeaks` bounds the opens that are never closed.
* `serial`: a queue of two bytes is empty, half full and full; two writers are enough for one to hold
  the console lock while the other waits for it. Numbers are taken modulo 6, twice the queue.

**Fairness, project 4.** In `process` and `frames`, in-kernel code of a thread that is not asleep is
weakly fair: the round-robin scheduler runs every ready thread, and a disk operation completes.
What a program asks for has no fairness. `pageLock` is not handed over: `lock_release` raises its semaphore and makes the
waiter ready, and whoever faults first takes it. So a process that faults for ever may, under this fairness, keep another
waiting for ever; in `Thrash` this happens, and "every page fault returns" is false there. `FaultReturns` therefore says that a fault returns, with
the page present, unless another process goes on faulting for ever, which is the one way it may not. In `serial`, calls are weakly fair in the same sense, and so are
the port's transmission and the serial interrupt, which stays requested until served; keys and
incoming bytes are not, and neither is `Leave`: a thread may never print or read again.
`FileSys` has safety properties only: a call there waits for nothing but `fileLock`.

**Fairness, project 3** (`FairSpec`, run `alarm`). The timer interrupt is strongly fair: the 8259 latches a
request while interrupts are off, so an interrupt that is possible again and again comes. The
handler, in-kernel code and the idle loop are weakly fair: the CPU goes on executing them. A
thread's own code has no fairness: it may compute for ever, and only preemption takes the CPU
from it, which is what `PreemptsLower` and `RoundRobin` are about.

`PreemptsLower` is weaker than "the highest priority always runs" because the code is: `timer_interrupt`
wakes a thread without yielding on return, so a woken thread of higher priority waits for the end
of the running one's time slice. `RunsHighest`, which needs no such delay, is checked where only
threads make each other ready.

## 4. Findings

* `sema_up`'s scan (run `scan`): a thread of priority 0 waits, a second and a third up follow before
  it runs, and the kernel panics in `list_remove`.
* A killed process (run `process_killed`): `kill()` ends in `thread_exit` and leaves `exit_status` at 0, and
  `process_wait` returns that; its comment (`process.c:153-155`) promises -1. In all else execute and wait keep
  what their comments say: that is `ImplementsExecWait`, with 0 for `KilledStatus`.
* A lost write (run `frames_lost_write`): `frameEvict` copies the victim's page to swap while it is
  still mapped, and unmaps it afterwards; what its process writes in between is lost.
* A lost stack (run `frames_stack`): a fault below the stack makes `stackGrowth` map zeros over every stack page that is
  not present, also over one that was swapped out, with the program's arguments on it, for instance. `DataKept`
  shows, and `DataIsKept` proves, that nothing is lost in other ways than these two, where evictions do not overlap and swap is
  large enough.
* A name twice (run `filesys_create_race`): `create` takes no lock, and both of two creations of one
  name succeed. With one process `DiskConsistent` shows names distinct.

Places where the code differs from what comments or tests say, seen while modelling and not made
runs: prj3's `sema_up` ends with a `thread_yield` that asserts `!intr_context()` (`thread.c:113`), where its comment (`synch.c:104`)
allows interrupt handlers to call it, as the one of `ide.c:517` does; in prj4 a child whose load fails
is never freed (`process.c:82`), so a test that fails to load again and again loses a page each time;
a program once executed is open for good (`process.c:55`), so removing it never frees its
sectors: not at the last close, which does not come, and not at the next start, which reads the free map as it is; `lib/kernel/console.c:14-17` says that the serial layer does its own locking, while
`intq.c` fails its assertion when two threads wait for one queue, and only the locks of its callers prevent that
(`AssertionsHold`, and the mutant `Enter_Unlocked` of run `serial`). In prj3,
`timer_sleep(0)` blocks until the next tick (`tests/threads/alarm-zero.c:1` expects it to return
immediately), and `cond_signal` is first-come-first-served (`tests/threads/priority-condvar.c:1-2`
expects the highest priority).

## 5. Proofs

Assumptions: the named `ASSUME`s of `Scheduler`, `Synch`, `Condition`, `Timer` and `Kernel`, and, each for its own
proofs, of `Process`, `Frames`, `Serial` and `FileSys` only:
main and idle are different threads, lock names are semaphore names, no name is `NULL`, bounds are
numbers, the device has finitely many sectors, memory and swap finitely many frames and slots, and a process finitely many descriptors. The number of threads, locks, priorities in use, sleeps and every bound are arbitrary.

* `ListLemmas`: what inserting, removing and appending do to the length, the elements and the
  injectivity of a sequence, and which element a loop ends with that keeps the first greatest so far
  (`RunningGreatest`). The community modules' operators are unfolded here and nowhere else.
* `KernelProofs`, types: `InsertOrdered` inserts exactly the thread given; the scan of `sema_up` ends at the tail or at the first
  waiter of highest priority (`ScanEnds`); then `TypeInv` and `TypeCorrect`. `TypeOK` alone is not inductive: a step
  that starts at `"call_release"` writes `holder[obj[t]]`, so `TypeInv` adds that a thread at
  such a point has a lock there, that one inside `thread_create` has a child, that one on its way
  through `cond_wait` has its monitor, and that `ret` is a point where a call can continue.
* `KernelProofs`, queues: `QueueInv`, with `ListElement` (`ElemExclusive`) and `NobodyLost` (`NoThreadLost`).
  Neither is inductive. `QueueInv` says where every thread is: ready threads are on the run queue
  (`ReadyOK`), blocked ones on the wait list of the semaphore they stand at (`WaitersOK`), on the
  sleeping list (`SleepingOK`), in the hands of exactly one creator (`ChildrenOK`), or idle; and the
  idle thread and pages without a thread are on no list (`PlacesOK`). The argument goes by kind of
  switch: lemmas say what the invariant needs when the running thread leaves the CPU, when another
  is put on the run queue, and when nothing about the lists changes, and each action is one of
  these.

* `KernelLocks`: `LockInv`, with `Exclusion` (`MutualExclusion`), `Refinement` (`ImplementsMutex`) and
  `DistinctTids` (`TidsUnique`). `MutualExclusion` is not inductive: it speaks of `holding`, which a
  thread gains two steps after it took the unit. `LockInv` says that a lock's semaphore is 0 or 1 and
  that it is 0, with one owner, whenever some thread owns the lock, where owning (`Owns`) begins with
  the unit taken in `sema_down` and ends with the unit put back in `sema_up`; and that a thread
  inside a call has of the lock what its place in the call implies (`ThreadLocks`). Each
  step takes one unit, gives one back or does neither (`AcquireStep`, `ReleaseStep`, `KeepStep`),
  and is so an acquire, a release or a stutter of `Mutex`. For tids, `TidInv` adds that every tid is
  below `next_tid`, except for the child of the thread that stands between the load and the store
  of the counter; that there is one such thread at most is `LockInv` of `tid_lock`.
  `SignalsAccounted` (`SignalInv`), `NoSignalLost` (`SignalNotLost`) and `MonitorsDoNotPanic` (`NoPanic`) keep the same
  account of the semaphore a thread brings along into `cond_wait`. `SignalNotLost` speaks of threads that
  sleep; but the signal may come before the waiter has released the lock, or when it has and has not
  gone to sleep. So `UnitOK` follows the one unit from the thread's going on the list to its
  `sema_down`: as long as it waits with the semaphore at 0, either it is listed or one signaller, who took it
  off, stands at `sema_up`; never both, never two, and never with the unit already there. That the scan's
  overrun never reaches `list_remove`'s assertion is proved where `Sema = Lock`, that is, all semaphores belong to locks or waiters, as in run `monitor`: the value that the
  scan of `sema_up` compares with by mistake is then 0 whenever somebody raises it. With counting
  semaphores it is false (run `scan`).
* `KernelOrder`: `RunQueueSorted` (`ReadySorted`, an invariant that needs `QueueInv`: the only priority
  that changes is that of a thread off the queue), from which `CPUToHighest` (`SwitchToHighest`); and
  `WakesTheRightOne` (`WakesHighest`), which follows from what the loop of the scan computes (`ScanEnds`: the one comparison too
  many decides between the tail and the first of the best waiters, never between two waiters) and from `QueueInv`, by which the
  semaphore that `cond_wait` initialises has no waiters to forget.
  `RunsTheHighest` (`RunsHighest`) has the condition `SleepTicks = {}`, nobody calls `timer_sleep`: the handler wakes sleepers
  without yielding, and `RunsHighest` is false then, which is why run `alarm` does not check it. `HighInv` allows
  the exception that makes it inductive: a thread that has made a better one ready, or itself a worse
  one, stands at `"yield"` until it has yielded.
  `WakeupsKept` (`NoLostWakeup`) counts: `sema_up` adds one to the value and one to `Woken`, a thread that takes a
  unit leaves `Woken` or was not in it and lowers the value, and one that goes back to sleep found the value 0. `WakeInv` adds that
  `Woken` is finite, without which its cardinality says nothing; the set of threads may be infinite.
  `NoEarlyReturn` (`SleepsLongEnough`): `SleepInv` says that the stamp of a thread in `timer_sleep` is its start
  plus the ticks asked for, and due once the thread is off the list; the clock does not go back, and only the running thread
  returns.

* `ProcessProofs`: `TypeCorrect` (`TypeOK`), `NoStalePointer` (`NoDanglingChild`), `MessagesApart` (`MessagesNotConfused`) and
  `Refinement` (`ImplementsExecWait`), from `IInv`, for any number of pages and tids. `TypeOK` bounds the values of the semaphores and
  so is not inductive alone; nothing in a step that frees a page says that no list points to it. `Pointers` says it the
  other way round: a child on a list or in a local variable of a call is not past
  `sema_down(&memSema)` (`Unreaped`), it is on one list, once, and its tid
  (`Tids`) belongs to no other page. `Messages` accounts for the two messages on `childSema`: its value is
  how often the child has raised it (`Told`) less how often its parent has lowered it (`Heard`), so an
  `execute` that gets a unit gets the first, a `wait` the second. `Ran` ties the statuses to the ends of `ExecWait`: who runs has loaded, so
  has every child on a list, and a process that has not come to its end has status 0. In the refinement a state of pages maps to
  a state of tids (`ByTid`): there is one lemma for each kind of step, by what it does to the tid it is about.

* `FramesProofs`: `TypeCorrect` (`TypeOK`), `FramesAreOwned` (`FramesOwned`), `SlotsAreOwned` (`SlotsOwned`), `DataIsKept`
  (`DataKept`) and `NeverFails` (`AlwaysProvides`), from `IInv`, for any number of pages, frames and slots, any
  stores and any interleaving of one process, or of a parent and its child. The three
  properties speak of pages at rest; while one is on its way the tables disagree, and `IInv` says how far.
  `Turns`: one process at a time is between asking for a frame and having mapped it, because it holds
  `pageLock`, or because all the others sleep in `process_execute` or do not exist. `Calls` and `Todos` tie the labels to the
  function a process is in and to the pages it has yet to provide: `load()` has made entries exactly for the segments
  before the one it is at, and a page that is faulted in or grown is not present. `Holds` is the frame it has obtained and
  nobody else knows. `Pages`, `Slots` and `Table` are ownership: a frame is free, mapped once, or held; a slot in use is
  one page's; a listed frame is its page's or on its way there. `Victims` says what is true of the page
  under eviction at each step: still mapped, its `pad` cleared, and the slot chosen still unmarked at `"mark"`, although eight
  blocking writes ago, since `swapOut` is never in two processes. `Data` follows the contents: of every page that is not in `lost`, and of the copy in the slot and in the frame while the page is between them.
  Two conditions are in `EvictionsSafe`, an operator of `Frames`. `EvictsAlone` is the code's: `load()` and `stackGrowth`
  evict without `pageLock`, so only with one process, or with a parent that sleeps while its one child loads and no
  stack that grows, does one eviction end before the next starts. `EnoughSwap` is the machine's: memory and swap hold
  all pages, and one more, or three if a stack grows: `stackGrowth` maps the top of the stack again without releasing its slot.
  `SlotFound` shows by counting that this is enough: slots in use belong to different pages, those pages
  are not in frames but for the stack's top, and at `"pick"` no frame is free.
  `NeverFails` needs `EnoughFrames` too: the two frames that `stackGrowth` may map are on no list, so with two frames there might be
  nothing to evict.

* `SerialProofs`: `TypeCorrect` (`TypeOK`) and `AssertionsHold` (`NoPanic`), from `IInv`. The assertion in `wait` is
  checked when a thread has got the queue's lock, possibly long after it found the queue empty or
  full. `InTurn` says why it still holds: one thread at most of those that share a queue is past
  the caller's lock, whose unit is then missing, and the queue's own lock is taken exactly while that
  thread is in `wait`, so it is free whenever the thread asks for it. For any number of threads, any
  queue size and any interleaving of the handlers. `FirstInFirstOut` (`BytesInOrder`) needs only the types: the cells from
  `tail` on hold consecutive numbers (`InOrder`), what is put extends them at one end and what is got takes from the other, modulo
  the size of the ring for the cells and modulo `Numbers` for what is in them.

* `FileSysProofs`: `TypeCorrect` (`TypeOK`), `DiskAgrees` (`DiskConsistent`), `OpensAreCounted` (`OpensCounted`) and `NothingIsLost`
  (`NothingElseLost`) and `Refinement`, from `IInv`, for any number of names, slots, sectors and descriptors, any sizes of
  files, and crashes anywhere. `DiskConsistent` speaks of the disk, but what a step does to the disk depends on
  what the call read steps before and on what is in memory. So `IInv` says whose every allocated
  sector is: a file's that has a name or is open (`FilesOK`: no two share one), the call's (`HeldOK`: what
  it has allocated and not yet named, or no longer named and not yet released), or lost (`Covered`). It says
  that an inode in memory is the one on disk and is marked removed exactly if it has no name, up to
  the last step of `remove` (`OpensOK`); without that, releasing the sectors that memory names could
  free another file's. And it says what the call has seen is still so (`Knows`): the name it did not find
  is not there, the directory's sector it is about to write back is as it was read, and outside
  `"write_map"` the free map on disk is the one in memory, which is all a crash relies on.
  A crash keeps `IInv` because `NamesOK` says of the map on disk what `FilesOK` says of the one in memory.
  In `Refinement` (`ImplementsFileStore`) a call takes effect on `FileStore` in one step: the write of the directory for
  a creation or a removal (`CreateSeen`, `RemoveSeen`), the descriptor for an open, the count in memory for a close, the
  sector for a write; `Unseen` covers all the others. A file must have its zeros when its name appears, so the
  invariant gets one more part, `Zeroed`: nothing is written to the sectors of a creation after its own `WriteZeros`.
  A write changes no other file because `FilesOK` keeps files apart, and a crash none at all
  because which files there are depends only on the directory and the descriptors.
  The theorems have the condition `OneProcess`. It is the code's: with two processes `DiskConsistent` is false
  (run `filesys_create_race`), and what a second process reads in an inode that is being loaded is undefined.

Every safety property that a passing run checks is stated by a theorem. With conditions: `NoPanic` and `RunsHighest` of
`Kernel` and everything about `FileSys` and `Frames`, as said above. Only model-checked, because they are about
what must happen under fairness: `SleepersWake`, `PreemptsLower`, `RoundRobin`, `ExecuteAnswers`, `WaitAnswers`, `ReapedIsFreed`,
`FaultReturns`, `PutcReturns`, `GetcReturns`. The properties of the five violation runs are false of the code
and stay with TLC (`NoPanic` of `Kernel` where there are counting semaphores).

## 6. Plan

What is left, in this order:

1. Exits in `Frames`, with what the next eviction does to a page that has been freed.
2. `IdeChannel` (prj4 `ide.c`): the request, its interrupt, and a unit left in `completion_wait`.
3. `Arena` (prj4 `malloc.c`).

Not modelled, and why: exits and system-call page faults in `Frames` (the code goes on with freed
memory); several processes in the open-inode list of `FileSys` (memory that was not initialised);
`Mlfqs` (its fixed-point products need 64 bits, `thread.c:339`; TLC's integers have 32); the modules
under 2 and 3 above; and what section 1 leaves out.

Not within TLAPS's reach, and so left to TLC: liveness under fairness, and what recursive definitions
compute over all inputs.

## 7. Running

    tlc -workers 2 -config synch.cfg MCKernel      (alarm, monitor, scan likewise)
    tlc -workers 2 -config process.cfg MCProcess   (process_killed likewise; frames, frames_lost_write
                                                    and frames_stack: MCFrames; filesys and filesys_create_race: MCFileSys; serial: MCSerial)
    tlapm KernelLocks.tla                          (ListLemmas, KernelProofs, KernelOrder, ProcessProofs,
                                                    FramesProofs, SerialProofs, FileSysProofs likewise)

Operators whose name ends in `_` and a word (`SemaDownTakes_If`) are deliberately wrong variants of the
definition that follows them; substituting one must make the property named with it in
`PROJECT.json` fail.
