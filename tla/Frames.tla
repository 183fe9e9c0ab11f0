------------------------------- MODULE Frames -------------------------------
(***************************************************************************)
(* Demand paging in project 4 (os_prj4_20191599/src): page_fault,          *)
(* handleMMFault and stackGrowth in userprog/exception.c, frameAllocation  *)
(* and frameEvict in vm/frame.c, swapOut and swapIn in vm/swap.c, and the  *)
(* pages that load() obtains in userprog/process.c.                        *)
(*                                                                         *)
(* A page is where its page directory maps it (pte), where its page table  *)
(* entry says (pad, swapI), and what the frame table says of its frame.    *)
(* Frames are evicted first in, first out.  Only handleMMFault takes       *)
(* pageLock: eviction for load() and for the stack does not.  Disk I/O     *)
(* blocks, so other processes run in the middle of it; what the code does  *)
(* between two disk operations on its own page or victim is one step.      *)
(*                                                                         *)
(* Processes do not exit here: exit frees the page table that entries of   *)
(* the frame table still lead to, and what a later eviction does then is   *)
(* undefined.                                                              *)
(***************************************************************************)
EXTENDS FifoSema, FiniteSets

CONSTANTS
    Proc,        \* user processes
    First,       \* the one the kernel starts
    MaxSegments, \* bound: pages of a program's segments, numbered from 1
    Frame,       \* page frames, numbered
    Slot,        \* slots of a swap block, numbered
    Scenarios,   \* who runs, whose stack grows, the pages written to, the sizes
                 \* of programs, memory and swap
    NULL

ASSUME FramesAssumption ==
    /\ First \in Proc
    /\ MaxSegments \in Nat \ {0}
    /\ Frame \subseteq Nat /\ Slot \subseteq Nat
    /\ NULL \notin Frame
    /\ \A s \in Scenarios :
          /\ First \in s.runs /\ s.runs \subseteq Proc /\ s.grows \subseteq s.runs
          /\ s.segments \in 1..MaxSegments
          /\ s.writes \subseteq Proc \X (-1..MaxSegments)
          /\ s.frames \subseteq Frame /\ IsFiniteSet(s.frames)
          /\ s.slots \subseteq Slot /\ IsFiniteSet(s.slots)

Stack == 0      \* the page setup_stack provides
Growth == -1    \* the page below it
Page == Proc \X (Growth..MaxSegments)
NoSlot == -1    \* NOT_ON_SWAP_SPACE

\* What load() provides, in order: the segments, then the stack.
Program(scen) == [i \in 1..(scen.segments + 1) |-> IF i <= scen.segments THEN i ELSE Stack]

VARIABLES
    scenario,     \* chosen at the start
    pte,          \* page directories: the frame of a page that is present
    entry,        \* page tables: pages that have an entry
    pad, swapI,   \* struct page_entry: pad, swapI
    frame_table,  \* the frame_entries, oldest first
    free,         \* palloc's user pool: free frames
    used_slots,   \* swapBitmap
    mem, disk,    \* what frames and slots contain
    pageLock,     \* the semaphore in pageLock
    pc, job,      \* where each process stands, and in which function
    todo,         \* vaddrs the function has yet to provide a page for
    kpage,        \* the frame it has obtained
    victim, slot, \* locals of frameEvict and swapOut
    latest,       \* what each process wrote last to each page
    lost          \* pages whose latest content will not be found again: they were
                  \* written to after swapOut had copied them, or covered with zeros

tables == <<entry, pad, swapI, frame_table, used_slots>>
locals == <<job, todo, kpage, victim, slot>>
ghosts == <<latest, lost>>
vars == <<scenario, pte, tables, free, mem, disk, pageLock, pc, locals, ghosts>>

Labels == {"new", "exec", "run", "lock", "get", "pick", "write", "mark", "clear", "again",
           "got", "read", "swap_in", "map", "unlock", "panic", "failed"}
Jobs == {"none", "load", "fault", "grow"}

At(p, l) == pc[p] = l /\ ~Waits(p, pageLock)
Goto(p, l) == pc' = [pc EXCEPT ![p] = l]

\* The page process p is working on.
Current(p) == <<p, Head(todo[p])>>

\* Contents: what version of which page, a page of zeros, or leftovers.
Zeros == <<>>
Junk == <<NULL>>
Version(pg, n) == <<pg, n>>
Contents == {Zeros, Junk} \union {Version(pg, n) : pg \in Page, n \in {0, 1}}
Rewritten(pg, content) ==
    Version(pg, IF content \in {Zeros, Version(pg, 0)} THEN 1 ELSE 0)

----------------------------------------------------------------------------
(* User code.                                                              *)

\* An instruction writes to a page that is present; the MMU asks nobody.  All
\* pages are treated alike: the scenario says which ones are written to.
Write(p, v) ==
    LET pg == <<p, v>> IN
    /\ pg \in scenario.writes
    /\ At(p, "run") /\ pte[pg] # NULL
    /\ latest' = [latest EXCEPT ![pg] = Rewritten(pg, @)]
    /\ mem' = [mem EXCEPT ![pte[pg]] = latest'[pg]]
    /\ lost' = IF \E q \in Proc : pc[q] \in {"mark", "clear"} /\ victim[q].page = pg
               THEN lost \union {pg} ELSE lost \ {pg}
    /\ UNCHANGED <<scenario, pte, tables, free, disk, pageLock, pc, locals>>

\* A child is created, and its parent sleeps in process_execute until the
\* child has loaded.
Execute(p, q) ==
    /\ At(p, "run") /\ q \in scenario.runs /\ pc[q] = "new"
    /\ pc' = [pc EXCEPT ![p] = "exec", ![q] = "get"]
    /\ job' = [job EXCEPT ![q] = "load"]
    /\ todo' = [todo EXCEPT ![q] = Program(scenario)]
    /\ UNCHANGED <<scenario, pte, tables, free, mem, disk, pageLock, kpage, victim, slot, ghosts>>

\* page_fault at a page that has an entry: handleMMFault.
Fault(p, v) ==
    /\ At(p, "run") /\ pte[<<p, v>>] = NULL /\ <<p, v>> \in entry
    /\ job' = [job EXCEPT ![p] = "fault"]
    /\ todo' = [todo EXCEPT ![p] = <<v>>]
    /\ Goto(p, "lock")
    /\ UNCHANGED <<scenario, pte, tables, free, mem, disk, pageLock, kpage, victim, slot, ghosts>>

\* page_fault just below the stack: stackGrowth.  It looks for the pages that
\* are present from the top of the stack down, and provides all the others up
\* to the top again.
StackGrowth(p) ==
    /\ p \in scenario.grows
    /\ At(p, "run") /\ pte[<<p, Growth>>] = NULL
    /\ job' = [job EXCEPT ![p] = "grow"]
    /\ todo' = [todo EXCEPT ![p] = IF pte[<<p, Stack>>] = NULL THEN <<Growth, Stack>> ELSE <<Growth>>]
    /\ Goto(p, "get")
    /\ UNCHANGED <<scenario, pte, tables, free, mem, disk, pageLock, kpage, victim, slot, ghosts>>

----------------------------------------------------------------------------
(* palloc_get_page and frameEvict.                                         *)

Lock_NoWait(p) ==
    /\ At(p, "lock")
    /\ pageLock' = Lowered(pageLock)
    /\ Goto(p, "get")
    /\ UNCHANGED <<scenario, pte, tables, free, mem, disk, locals, ghosts>>
Lock(p) ==
    /\ At(p, "lock")
    /\ IF IsZero(pageLock)
       THEN pageLock' = Enqueued(pageLock, p) /\ UNCHANGED pc
       ELSE pageLock' = Lowered(pageLock) /\ Goto(p, "get")
    /\ UNCHANGED <<scenario, pte, tables, free, mem, disk, locals, ghosts>>

\* palloc_get_page takes the first free frame.
Take(p) ==
    LET f == CHOOSE f \in free : \A g \in free : f <= g IN
    /\ free' = free \ {f}
    /\ kpage' = [kpage EXCEPT ![p] = f]
    /\ Goto(p, "got")

\* The first attempt; frameAllocation makes none for a page that has a frame.
GetPage(p) ==
    /\ At(p, "get")
    /\ IF job[p] = "fault" /\ pad[Current(p)] # NULL
       THEN kpage' = [kpage EXCEPT ![p] = pad[Current(p)]] /\ Goto(p, "got") /\ UNCHANGED free
       ELSE IF free # {} THEN Take(p)
       ELSE Goto(p, "pick") /\ UNCHANGED <<free, kpage>>
    /\ UNCHANGED <<scenario, pte, tables, mem, disk, pageLock, job, todo, victim, slot, ghosts>>

\* The victim is the oldest frame; it must have a page table entry.  swapOut
\* looks for the first slot that is free.
PickVictim(p) ==
    /\ At(p, "pick") /\ frame_table # <<>>
    /\ LET v == Head(frame_table)
           open == scenario.slots \ used_slots
       IN  IF v.page \notin entry
           THEN Goto(p, "failed") /\ UNCHANGED <<victim, pad, slot>>
           ELSE /\ victim' = [victim EXCEPT ![p] = v]
                /\ pad' = [pad EXCEPT ![v.page] = NULL]
                /\ slot' = [slot EXCEPT ![p] = IF open = {} THEN NoSlot
                                               ELSE CHOOSE s \in open : \A r \in open : s <= r]
                /\ Goto(p, IF open = {} THEN "mark" ELSE "write")
    /\ UNCHANGED <<scenario, pte, entry, swapI, frame_table, used_slots, free, mem, disk,
                   pageLock, job, todo, kpage, ghosts>>

\* The eight sectors are written.
WriteOut(p) ==
    /\ At(p, "write")
    /\ disk' = [disk EXCEPT ![slot[p]] = mem[victim[p].frame]]
    /\ Goto(p, "mark")
    /\ UNCHANGED <<scenario, pte, tables, free, mem, pageLock, locals, ghosts>>

\* The slot is taken, the entry remembers it, the frame leaves the table.
MarkSlot_NotSet(p) ==
    /\ At(p, "mark")
    /\ swapI' = [swapI EXCEPT ![victim[p].page] = slot[p]]
    /\ frame_table' = RemoveFirst(frame_table, victim[p])
    /\ Goto(p, "clear")
    /\ UNCHANGED <<scenario, pte, entry, pad, used_slots, free, mem, disk, pageLock, locals, ghosts>>
MarkSlot(p) ==
    /\ At(p, "mark")
    /\ used_slots' = IF slot[p] = NoSlot THEN used_slots ELSE used_slots \union {slot[p]}
    /\ swapI' = [swapI EXCEPT ![victim[p].page] = slot[p]]
    /\ frame_table' = RemoveFirst(frame_table, victim[p])
    /\ Goto(p, "clear")
    /\ UNCHANGED <<scenario, pte, entry, pad, free, mem, disk, pageLock, locals, ghosts>>

\* clearFrame: the page is no longer present, its frame is free.
ClearFrame_StillPresent(p) ==
    /\ At(p, "clear")
    /\ free' = free \union {victim[p].frame}
    /\ mem' = [mem EXCEPT ![victim[p].frame] = Junk]
    /\ victim' = [victim EXCEPT ![p] = NULL]
    /\ slot' = [slot EXCEPT ![p] = NoSlot]
    /\ Goto(p, "again")
    /\ UNCHANGED <<scenario, pte, tables, disk, pageLock, job, todo, kpage, ghosts>>
ClearFrame(p) ==
    /\ At(p, "clear")
    /\ pte' = [pte EXCEPT ![victim[p].page] = NULL]
    /\ IF victim[p].frame \in free
       THEN Goto(p, "panic") /\ UNCHANGED <<free, mem>>
       ELSE /\ free' = free \union {victim[p].frame}
            /\ mem' = [mem EXCEPT ![victim[p].frame] = Junk]
            /\ Goto(p, "again")
    /\ victim' = [victim EXCEPT ![p] = NULL]
    /\ slot' = [slot EXCEPT ![p] = NoSlot]
    /\ UNCHANGED <<scenario, tables, disk, pageLock, job, todo, kpage, ghosts>>

\* The second attempt; nobody looks at whether it failed but load().
GetPageAgain(p) ==
    /\ At(p, "again")
    /\ IF free # {} THEN Take(p) ELSE Goto(p, "failed") /\ UNCHANGED <<free, kpage>>
    /\ UNCHANGED <<scenario, pte, tables, mem, disk, pageLock, job, todo, victim, slot, ghosts>>

----------------------------------------------------------------------------
(* What the frame is for.                                                  *)

NewFrame(p) == [page |-> Current(p), frame |-> kpage[p]]

\* load_segment lists the frame before it reads the page from the file; then
\* install_page makes the entry and maps it.
LoadLists(p) ==
    /\ At(p, "got") /\ job[p] = "load" /\ Head(todo[p]) # Stack
    /\ frame_table' = Append(frame_table, NewFrame(p))
    /\ Goto(p, "read")
    /\ UNCHANGED <<scenario, pte, entry, pad, swapI, used_slots, free, mem, disk, pageLock,
                   locals, ghosts>>

Install(p, content) ==
    /\ mem' = [mem EXCEPT ![kpage[p]] = content]
    /\ latest' = [latest EXCEPT ![Current(p)] = content]
    /\ entry' = entry \union {Current(p)}
    /\ pad' = [pad EXCEPT ![Current(p)] = kpage[p]]
    /\ swapI' = [swapI EXCEPT ![Current(p)] = NoSlot]
    /\ pte' = [pte EXCEPT ![Current(p)] = kpage[p]]
    /\ kpage' = [kpage EXCEPT ![p] = NULL]
    /\ UNCHANGED lost

LoadReads(p) ==
    /\ At(p, "read")
    /\ Install(p, Version(Current(p), 0))
    /\ todo' = [todo EXCEPT ![p] = Tail(@)]
    /\ Goto(p, "get")
    /\ UNCHANGED <<scenario, frame_table, used_slots, free, disk, pageLock, job, victim, slot>>

\* setup_stack maps a page of zeros and then lists it; load() puts the
\* arguments there, and the parent goes on.
SetupStack(p) ==
    /\ At(p, "got") /\ job[p] = "load" /\ Head(todo[p]) = Stack
    /\ Install(p, Version(Current(p), 0))
    /\ frame_table' = Append(frame_table, NewFrame(p))
    /\ job' = [job EXCEPT ![p] = "none"]
    /\ todo' = [todo EXCEPT ![p] = <<>>]
    /\ pc' = [q \in Proc |-> IF q = p \/ pc[q] = "exec" THEN "run" ELSE pc[q]]
    /\ UNCHANGED <<scenario, used_slots, free, disk, pageLock, victim, slot>>

\* stackGrowth maps a page of zeros, makes no entry and lists nothing; it does
\* not look whether the page has an entry, and its content in a slot.
\* pagedir_set_page asserts that the page was not present.
GrowthMaps(p) ==
    /\ At(p, "got") /\ job[p] = "grow"
    /\ pte' = [pte EXCEPT ![Current(p)] = kpage[p]]
    /\ mem' = [mem EXCEPT ![kpage[p]] = Zeros]
    /\ kpage' = [kpage EXCEPT ![p] = NULL]
    /\ todo' = [todo EXCEPT ![p] = Tail(@)]
    /\ IF pte[Current(p)] # NULL THEN Goto(p, "panic") /\ UNCHANGED job
       ELSE IF Len(todo[p]) = 1
       THEN Goto(p, "run") /\ job' = [job EXCEPT ![p] = "none"]
       ELSE Goto(p, "get") /\ UNCHANGED job
    /\ lost' = IF Current(p) \in entry THEN lost \union {Current(p)} ELSE lost
    /\ UNCHANGED <<scenario, tables, free, disk, pageLock, victim, slot, latest>>

\* handleMMFault: frameAllocation lists the frame; then, for a page without a
\* frame, swapIn reads the slot, which there must be, into it.
FaultLists(p) ==
    /\ At(p, "got") /\ job[p] = "fault"
    /\ frame_table' = Append(frame_table, NewFrame(p))
    /\ Goto(p, IF pad[Current(p)] = NULL THEN "swap_in" ELSE "unlock")
    /\ UNCHANGED <<scenario, pte, entry, pad, swapI, used_slots, free, mem, disk, pageLock,
                   locals, ghosts>>

SwapIn(p) ==
    /\ At(p, "swap_in")
    /\ IF swapI[Current(p)] = NoSlot
       THEN Goto(p, "panic") /\ UNCHANGED mem
       ELSE mem' = [mem EXCEPT ![kpage[p]] = disk[swapI[Current(p)]]] /\ Goto(p, "map")
    /\ UNCHANGED <<scenario, pte, tables, free, disk, pageLock, locals, ghosts>>

\* The slot is free again, the page present, its entry complete.  Nothing may
\* depend on what a free slot, like a free frame, contains: it becomes Junk.
MapsIn_SlotKept(p) ==
    /\ At(p, "map")
    /\ swapI' = [swapI EXCEPT ![Current(p)] = NoSlot]
    /\ pte' = [pte EXCEPT ![Current(p)] = kpage[p]]
    /\ pad' = [pad EXCEPT ![Current(p)] = kpage[p]]
    /\ Goto(p, "unlock")
    /\ UNCHANGED <<scenario, entry, frame_table, used_slots, free, mem, disk, pageLock, locals, ghosts>>
MapsIn(p) ==
    /\ At(p, "map")
    /\ used_slots' = used_slots \ {swapI[Current(p)]}
    /\ disk' = [disk EXCEPT ![swapI[Current(p)]] = Junk]
    /\ swapI' = [swapI EXCEPT ![Current(p)] = NoSlot]
    /\ pte' = [pte EXCEPT ![Current(p)] = kpage[p]]
    /\ pad' = [pad EXCEPT ![Current(p)] = kpage[p]]
    /\ Goto(p, "unlock")
    /\ UNCHANGED <<scenario, entry, frame_table, free, mem, pageLock, locals, ghosts>>

Unlock_NoWake(p) ==
    /\ At(p, "unlock")
    /\ pageLock' = Raised_NoWake(pageLock)
    /\ job' = [job EXCEPT ![p] = "none"]
    /\ todo' = [todo EXCEPT ![p] = <<>>]
    /\ kpage' = [kpage EXCEPT ![p] = NULL]
    /\ Goto(p, "run")
    /\ UNCHANGED <<scenario, pte, tables, free, mem, disk, victim, slot, ghosts>>
Unlock(p) ==
    /\ At(p, "unlock")
    /\ pageLock' = Raised(pageLock)
    /\ job' = [job EXCEPT ![p] = "none"]
    /\ todo' = [todo EXCEPT ![p] = <<>>]
    /\ kpage' = [kpage EXCEPT ![p] = NULL]
    /\ Goto(p, "run")
    /\ UNCHANGED <<scenario, pte, tables, free, mem, disk, victim, slot, ghosts>>

----------------------------------------------------------------------------
\* The first process is about to load; memory and swap are empty.
Init ==
    /\ scenario \in Scenarios
    /\ pte = [pg \in Page |-> NULL]
    /\ entry = {}
    /\ pad = [pg \in Page |-> NULL]
    /\ swapI = [pg \in Page |-> NoSlot]
    /\ frame_table = <<>>
    /\ free = scenario.frames
    /\ used_slots = {}
    /\ mem = [f \in Frame |-> Junk]
    /\ disk = [s \in Slot |-> Junk]
    /\ pageLock = NewSema(1)
    /\ pc = [p \in Proc |-> IF p = First THEN "get" ELSE "new"]
    /\ job = [p \in Proc |-> IF p = First THEN "load" ELSE "none"]
    /\ todo = [p \in Proc |-> IF p = First THEN Program(scenario) ELSE <<>>]
    /\ kpage = [p \in Proc |-> NULL]
    /\ victim = [p \in Proc |-> NULL]
    /\ slot = [p \in Proc |-> NoSlot]
    /\ latest = [pg \in Page |-> Zeros]
    /\ lost = {}

\* What the kernel does for a process once it has entered it.
InKernel(p) ==
    \/ Lock(p) \/ GetPage(p) \/ PickVictim(p) \/ WriteOut(p) \/ MarkSlot(p) \/ ClearFrame(p)
    \/ GetPageAgain(p) \/ LoadLists(p) \/ LoadReads(p) \/ SetupStack(p) \/ GrowthMaps(p)
    \/ FaultLists(p) \/ SwapIn(p) \/ MapsIn(p) \/ Unlock(p)

UserCode(p) ==
    \/ \E v \in Growth..MaxSegments : Write(p, v) \/ Fault(p, v)
    \/ \E q \in Proc : Execute(p, q)
    \/ StackGrowth(p)

Next == \E p \in Proc : UserCode(p) \/ InKernel(p)

Spec == Init /\ [][Next]_vars

\* Disk operations complete, and a thread that is ready gets the CPU.
FairSpec == Spec /\ \A p \in Proc : WF_vars(InKernel(p))

----------------------------------------------------------------------------
(* Properties.                                                             *)

\* Scenarios in which one eviction is over before another starts: only one
\* process runs, or no stack grows and only one process is ever created, so
\* that whoever might evict without pageLock has the others asleep.
EvictsAlone(scen) ==
    \/ scen.runs = {First}
    \/ scen.grows = {} /\ \E child \in Proc : scen.runs \subseteq {First, child}

\* Memory and swap together hold every page of every process; the two more are
\* for a stack that grows: its new page, and the slot that its top page keeps
\* when it is mapped again.
EnoughSwap(scen) ==
    Cardinality(scen.frames) + Cardinality(scen.slots) >
        Cardinality(scen.runs \X (Stack..scen.segments)) + (IF scen.grows = {} THEN 0 ELSE 2)

\* Instances in which no eviction meets another, or a full swap space.
EvictionsSafe == \A scen \in Scenarios : EvictsAlone(scen) /\ EnoughSwap(scen)

\* More frames than pages that can never be evicted: stackGrowth lists neither
\* of the two frames it may map.
EnoughFrames(scen) == Cardinality(scen.frames) > IF scen.grows = {} THEN 0 ELSE 2

TypeOK ==
    /\ scenario \in Scenarios
    /\ pte \in [Page -> Frame \union {NULL}]
    /\ entry \subseteq Page
    /\ pad \in [Page -> Frame \union {NULL}]
    /\ swapI \in [Page -> Slot \union {NoSlot}]
    /\ frame_table \in Seq([page : Page, frame : Frame])
    /\ free \subseteq Frame /\ used_slots \subseteq Slot
    /\ mem \in [Frame -> Contents] /\ disk \in [Slot -> Contents]
    /\ pageLock \in Semaphores(Proc)
    /\ pc \in [Proc -> Labels] /\ job \in [Proc -> Jobs]
    /\ todo \in [Proc -> Seq(Growth..MaxSegments)]
    /\ kpage \in [Proc -> Frame \union {NULL}]
    /\ victim \in [Proc -> [page : Page, frame : Frame] \union {NULL}]
    /\ slot \in [Proc -> Slot \union {NoSlot}]
    /\ latest \in [Page -> Contents] /\ lost \subseteq Page

\* A frame has one owner: one page is mapped to it, or a process is about to
\* map it, or it is free; and the frame table lists, once, exactly the frames
\* that have a page with an entry, but for the moment between the two, and for
\* the top of a stack that grew while it was in swap: it has an entry, and the
\* frame that stackGrowth maps it to is not listed (frame.c:29-64, 87-99;
\* palloc.c:140; exception.c:245-258).
FramesOwned ==
    /\ \A x, y \in Page : pte[x] # NULL /\ pte[x] = pte[y] => x = y
    /\ \A pg \in Page : pte[pg] \notin free
    /\ \A p \in Proc :
          kpage[p] # NULL =>
              /\ kpage[p] \notin free
              /\ \A pg \in Page : pte[pg] = kpage[p] => pc[p] = "unlock" /\ pg = Current(p)
    /\ \A i, j \in DOMAIN frame_table :
          frame_table[i].frame = frame_table[j].frame => i = j
    /\ \A i \in DOMAIN frame_table :
          LET e == frame_table[i] IN
          \/ pte[e.page] = e.frame
          \/ \E p \in Proc : pc[p] \in {"read", "swap_in", "map"} /\ NewFrame(p) = e
    /\ \A pg \in entry :
          pte[pg] # NULL =>
              \/ \E i \in DOMAIN frame_table : frame_table[i] = [page |-> pg, frame |-> pte[pg]]
              \/ \E p \in Proc : pc[p] = "clear" /\ victim[p].page = pg
              \/ pg[2] = Stack /\ scenario.grows # {}

\* A page that is not in memory has a slot of its own, which the bitmap keeps
\* for it, until it is back (frame.c:88, swap.c:39-90).
SlotsOwned ==
    /\ \A x, y \in Page : swapI[x] # NoSlot /\ swapI[x] = swapI[y] => x = y
    /\ \A pg \in Page : swapI[pg] # NoSlot => swapI[pg] \in used_slots /\ pad[pg] = NULL
    /\ \A pg \in entry : pte[pg] = NULL => swapI[pg] # NoSlot

\* Where a page is, in memory or in its slot, is what its process wrote there
\* last.  Two things alone can lose a write, until the next one: it comes after
\* swapOut has copied the page and before clearFrame (frame.c:87-99), or the page
\* is the swapped-out top of a stack that grows (exception.c:245-258).
Stored(pg) == IF pte[pg] # NULL THEN mem[pte[pg]] ELSE disk[swapI[pg]]
DataKept ==
    \A pg \in entry :
        pg \notin lost /\ (pte[pg] # NULL \/ swapI[pg] # NoSlot)
            => Stored(pg) = latest[pg]

\* No exception: what a process writes it finds again
\* (tests/vm/child-linear.c:2-3, which page-parallel runs four times at once).
NoLostWrite ==
    \A pg \in entry :
        (pte[pg] # NULL \/ swapI[pg] # NoSlot) => Stored(pg) = latest[pg]

\* What a process keeps on its stack it finds there again: child-qsort reads a
\* file onto its stack, sorts it there and writes it back
\* (tests/vm/child-qsort.c:1-3; page-merge-stk runs eight of them at once).
StackKept ==
    \A p \in Proc :
        LET top == <<p, Stack>> IN
        top \in entry /\ pte[top] # NULL => mem[pte[top]] = latest[top]

\* No assertion fails and no PANIC is reached: a frame that is freed was in use
\* (palloc.c:140), a page that is not present has a slot (swap.c:75), the second
\* attempt at a frame succeeds (frame.c:49); and an eviction finds a victim,
\* since frameEvict takes the list's first element without asking whether there
\* is one (frame.c:74-75).
AlwaysProvides ==
    \A p \in Proc :
        /\ pc[p] \notin {"panic", "failed"}
        /\ pc[p] = "pick" => frame_table # <<>>

\* Every page fault gets to its lock_release, with the page present, unless another
\* process faults for ever: nobody keeps pageLock, and a slot or a frame is always
\* found (exception.c:200-219).  lock_release hands pageLock to nobody, so the thread
\* it wakes may find it taken, each time, by one that faults again and again.
FaultReturns ==
    \A p \in Proc :
        (\A q \in Proc \ {p} : <>[](pc[q] # "unlock"))
        => (job[p] = "fault" ~> (pc[p] = "unlock" /\ pte[Current(p)] # NULL))
============================================================================
