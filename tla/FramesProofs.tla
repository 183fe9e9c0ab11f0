---------------------------- MODULE FramesProofs ----------------------------
(***************************************************************************)
(* Proofs about Frames, for any number of pages, frames and slots, in      *)
(* scenarios where one eviction ends before another starts: one process,   *)
(* or a parent and its child.                                              *)
(* Frames, pages, slots and frame_table hold pointers to each other, and   *)
(* the tables are not consistent while a page is on its way: the invariant *)
(* says for each of these stretches which process is in it, what it has    *)
(* changed already and what it has not.  That swap is never full when a    *)
(* page is evicted is counted: every slot in use is a page's, and pages in *)
(* slots and pages in frames are different ones (SlotFound).               *)
(***************************************************************************)
EXTENDS Frames, ListLemmas

----------------------------------------------------------------------------
(* The inductive invariant.                                                *)

\* Where a process stands while it obtains a frame, and while it has one that
\* is not yet a page's alone.
Busy == {"get", "pick", "write", "mark", "clear", "again",
         "got", "read", "swap_in", "map", "unlock"}
Holding == {"got", "read", "swap_in", "map", "unlock"}

\* One process at a time: under pageLock, or with all others asleep or not
\* created.
Turns ==
    /\ \A p, q \in Proc : pc[p] \in Busy /\ pc[q] \in Busy => p = q
    /\ \A p, q \in Proc :
          pc[p] \in Busy /\ job[p] # "fault" /\ q # p => pc[q] \in {"new", "exec"}
    /\ \A p \in Proc : pc[p] \in Busy /\ job[p] = "fault" => pageLock.value = 0
    /\ pageLock.value \in 0..1

\* Which function a process is in, and which label belongs to which.
Calls ==
    /\ pc[First] # "new"
    /\ \A p \in Proc :
          /\ pc[p] # "new" => p \in scenario.runs
          /\ pc[p] \notin {"panic", "failed"}
          /\ job[p] = "none" <=> pc[p] \in {"new", "exec", "run"}
          /\ pc[p] \in {"lock", "swap_in", "map", "unlock"} => job[p] = "fault"
          /\ pc[p] = "read" => job[p] = "load"
          /\ job[p] = "grow" => p \in scenario.grows

\* What load() has yet to provide once it has provided k segments.
Rest(scen, k) == [i \in 1..(scen.segments + 1 - k) |-> Program(scen)[i + k]]

\* load() has made the entries of the segments before the one it is at.
Loading(p) ==
    \E k \in 0..scenario.segments :
        /\ todo[p] = Rest(scenario, k)
        /\ pc[p] = "read" => k < scenario.segments
        /\ \A v \in Growth..MaxSegments : <<p, v>> \in entry <=> v \in 1..k

\* A fault is about one page, with an entry; stackGrowth about pages that are
\* not there.
Todos ==
    \A p \in Proc :
        /\ pc[p] = "new" => \A v \in Growth..MaxSegments : <<p, v>> \notin entry
        /\ job[p] = "load" => Loading(p)
        /\ job[p] # "load" /\ pc[p] # "new" => <<p, Stack>> \in entry
        /\ job[p] = "fault" =>
              \E v \in Growth..MaxSegments :
                  /\ todo[p] = <<v>> /\ <<p, v>> \in entry
                  /\ pc[p] # "unlock" => pte[<<p, v>>] = NULL
        /\ job[p] = "grow" =>
              \/ /\ todo[p] = <<Growth, Stack>>
                 /\ pte[<<p, Growth>>] = NULL /\ pte[<<p, Stack>>] = NULL
              \/ todo[p] = <<Growth>> /\ pte[<<p, Growth>>] = NULL
              \/ todo[p] = <<Stack>> /\ pte[<<p, Stack>>] = NULL

\* The frame a process holds is nobody else's.
Holds ==
    \A p \in Proc :
        /\ kpage[p] # NULL <=> pc[p] \in Holding
        /\ kpage[p] # NULL =>
              /\ kpage[p] \in scenario.frames /\ kpage[p] \notin free
              /\ pc[p] # "unlock" => \A pg \in Page : pte[pg] # kpage[p]
        /\ pc[p] = "unlock" => pte[Current(p)] = kpage[p]
        /\ pc[p] = "pick" => free = {}
        /\ pc[p] = "again" => free # {}

\* Page directories, page tables and the pool.
Pages ==
    /\ free \subseteq scenario.frames
    /\ \A pg \in entry : pg[1] \in scenario.runs /\ pg[2] \in Stack..scenario.segments
    /\ \A pg \in Page :
          /\ pte[pg] # NULL =>
                /\ pg \in entry \/ (pg[2] = Growth /\ pg[1] \in scenario.grows)
                /\ pte[pg] \in scenario.frames /\ pte[pg] \notin free
          /\ pad[pg] # NULL => pad[pg] = pte[pg]
    /\ \A x, y \in Page : pte[x] # NULL /\ pte[x] = pte[y] => x = y
    /\ \A f \in scenario.frames :
          f \in free \/ (\E pg \in Page : pte[pg] = f) \/ (\E p \in Proc : kpage[p] = f)

\* Swap.
Slots ==
    /\ used_slots \subseteq scenario.slots
    /\ \A s \in used_slots : \E pg \in Page : swapI[pg] = s
    /\ \A x, y \in Page : swapI[x] # NoSlot /\ swapI[x] = swapI[y] => x = y
    /\ \A pg \in Page :
          swapI[pg] # NoSlot =>
              /\ pg \in entry /\ swapI[pg] \in used_slots /\ pad[pg] = NULL
              /\ pte[pg] # NULL =>
                    \/ \E p \in Proc : pc[p] = "clear" /\ victim[p].page = pg
                    \/ pg[2] = Stack /\ pg[1] \in scenario.grows
    /\ \A pg \in entry : pte[pg] = NULL => swapI[pg] # NoSlot

\* The frame table.
Listed == ToSet(frame_table)
InFlight(e) == \E p \in Proc : pc[p] \in {"read", "swap_in", "map"} /\ NewFrame(p) = e
Table ==
    /\ IsInjective(frame_table)
    /\ \A d, e \in Listed : d.frame = e.frame => d = e
    /\ \A e \in Listed :
          \/ e.page \in entry /\ pte[e.page] = e.frame /\ swapI[e.page] = NoSlot
          \/ InFlight(e)
    /\ \A p \in Proc : pc[p] \in {"read", "swap_in", "map"} => NewFrame(p) \in Listed
    /\ \A pg \in entry :
          pte[pg] # NULL =>
              \/ [page |-> pg, frame |-> pte[pg]] \in Listed
              \/ \E p \in Proc : pc[p] = "clear" /\ victim[p].page = pg
              \/ pg[2] = Stack /\ pg[1] \in scenario.grows

\* The page that is being evicted.
Victims ==
    \A p \in Proc :
        /\ pc[p] \in {"write", "mark", "clear"} =>
              /\ victim[p] \in [page : Page, frame : Frame]
              /\ victim[p].page \in entry
              /\ pte[victim[p].page] = victim[p].frame
              /\ pad[victim[p].page] = NULL
        /\ pc[p] \in {"write", "mark"} =>
              /\ victim[p] \in Listed
              /\ swapI[victim[p].page] = NoSlot
              /\ slot[p] \in scenario.slots \ used_slots
        /\ pc[p] = "clear" => slot[p] # NoSlot /\ swapI[victim[p].page] = slot[p]

\* Contents.
Data ==
    /\ \A pg \in entry :
          pg \notin lost =>
              /\ pte[pg] # NULL => mem[pte[pg]] = latest[pg]
              /\ pte[pg] = NULL => disk[swapI[pg]] = latest[pg]
    /\ \A p \in Proc :
          /\ pc[p] \in {"mark", "clear"} /\ victim[p].page \notin lost =>
                disk[slot[p]] = mem[victim[p].frame]
          /\ pc[p] = "map" => mem[kpage[p]] = disk[swapI[Current(p)]]

IInv ==
    /\ TypeOK /\ Turns /\ Calls /\ Todos /\ Holds
    /\ Pages /\ Slots /\ Table /\ Victims /\ Data
----------------------------------------------------------------------------
(* What the invariant says of the process that takes a step.               *)

LEMMA ScenarioFacts ==
    ASSUME TypeOK
    PROVE  /\ First \in scenario.runs /\ scenario.runs \subseteq Proc
           /\ scenario.grows \subseteq scenario.runs
           /\ scenario.segments \in 1..MaxSegments
           /\ scenario.frames \subseteq Frame /\ IsFiniteSet(scenario.frames)
           /\ scenario.slots \subseteq Slot /\ IsFiniteSet(scenario.slots)
           /\ MaxSegments \in Nat \ {0} /\ NoSlot \notin Slot /\ NULL \notin Frame
           /\ Frame \subseteq Nat /\ Slot \subseteq Nat
BY FramesAssumption DEF TypeOK, NoSlot

LEMMA FunctionIsSeq ==
    ASSUME NEW S, NEW m \in Nat, NEW f \in [1..m -> S]
    PROVE  f \in Seq(S) /\ Len(f) = m
OBVIOUS

LEMMA TailIs ==
    ASSUME NEW S, NEW s \in Seq(S), s # <<>>
    PROVE  Tail(s) = [i \in 1..(Len(s) - 1) |-> s[i + 1]]
<1> DEFINE t == Tail(s)
<1>1. t \in Seq(S) /\ Len(t) = Len(s) - 1 /\ \A i \in 1..Len(t) : t[i] = s[i + 1]
  BY HeadTailProperties
<1> HIDE DEF t
<1>2. t = [i \in 1..Len(t) |-> t[i]]
  BY <1>1
<1> QED BY <1>1, <1>2 DEF t

LEMMA RestFacts ==
    ASSUME TypeOK, NEW k \in 0..scenario.segments
    PROVE  /\ Rest(scenario, k) \in Seq(Growth..MaxSegments)
           /\ Rest(scenario, k) # <<>>
           /\ Head(Rest(scenario, k)) = IF k < scenario.segments THEN k + 1 ELSE Stack
           /\ k < scenario.segments => Tail(Rest(scenario, k)) = Rest(scenario, k + 1)
           /\ Rest(scenario, 0) = Program(scenario)
<1> DEFINE n == scenario.segments
           rest == Rest(scenario, k)
<1>1. n \in Nat /\ n <= MaxSegments /\ MaxSegments \in Nat
  BY ScenarioFacts
<1>2. \A i \in 1..(n + 1) : Program(scenario)[i] = IF i <= n THEN i ELSE Stack
  BY DEF Program
<1> HIDE DEF n
<1>3. rest = [i \in 1..(n + 1 - k) |-> IF i + k <= n THEN i + k ELSE Stack]
  <2>1. \A i \in 1..(n + 1 - k) : i + k \in 1..(n + 1)
    BY <1>1 DEF n
  <2> QED BY <2>1, <1>2 DEF Rest, n
<1>4. \A i \in 1..(n + 1 - k) : (IF i + k <= n THEN i + k ELSE Stack) \in Growth..MaxSegments
  BY <1>1 DEF Growth, Stack, n
<1>5. n + 1 - k \in Nat \ {0}
  BY <1>1 DEF n
<1> HIDE DEF rest
<1>6. rest \in Seq(Growth..MaxSegments) /\ Len(rest) = n + 1 - k
  <2> DEFINE m == n + 1 - k
  <2>1. rest \in [1..m -> Growth..MaxSegments]
    BY <1>3, <1>4
  <2>2. m \in Nat
    BY <1>5
  <2> HIDE DEF m
  <2>3. rest \in Seq(Growth..MaxSegments) /\ Len(rest) = m
    BY <2>1, <2>2, FunctionIsSeq
  <2> QED BY <2>3 DEF m
<1>7. rest # <<>> /\ Head(rest) = rest[1]
  BY <1>6, <1>5
<1>8. rest[1] = IF k < n THEN k + 1 ELSE Stack
  BY <1>3, <1>5, <1>1 DEF n
<1>9. ASSUME k < n PROVE Tail(rest) = Rest(scenario, k + 1)
  <2>1. Tail(rest) = [i \in 1..(n - k) |-> rest[i + 1]]
    <3> DEFINE S == Growth..MaxSegments
    <3>1. rest \in Seq(S) /\ Len(rest) = n + 1 - k /\ rest # <<>>
      BY <1>6, <1>7
    <3> HIDE DEF S
    <3>2. Tail(rest) = [i \in 1..(Len(rest) - 1) |-> rest[i + 1]]
      BY <3>1, TailIs
    <3> QED BY <3>1, <3>2, <1>1 DEF n
  <2>2. \A i \in 1..(n - k) : i + 1 \in 1..(n + 1 - k) /\ i + 1 + k \in 1..(n + 1)
    BY <1>1 DEF n
  <2>3. \A i \in 1..(n - k) : rest[i + 1] = Program(scenario)[i + (k + 1)]
    BY <2>2, <1>3, <1>2, <1>1 DEF n
  <2>4. scenario.segments + 1 - (k + 1) = n - k
    BY <1>1 DEF n
  <2> QED BY <2>1, <2>3, <2>4 DEF Rest
<1>10. Rest(scenario, 0) = Program(scenario)
  BY <1>1 DEF Rest, Program, n
<1> QED BY <1>6, <1>7, <1>8, <1>9, <1>10 DEF rest, n

LEMMA CurrentFacts ==
    ASSUME IInv, NEW p \in Proc, job[p] # "none"
    PROVE  /\ todo[p] # <<>> /\ Head(todo[p]) \in Growth..MaxSegments
           /\ Current(p) = <<p, Head(todo[p])>> /\ Current(p) \in Page
<1>1. job[p] \in {"load", "fault", "grow"}
  BY DEF IInv, TypeOK, Jobs
<1>2. -1 \in Growth..MaxSegments /\ 0 \in Growth..MaxSegments
  BY ScenarioFacts DEF IInv, Growth
<1>3. CASE job[p] = "load"
  <2>1. PICK k \in 0..scenario.segments : todo[p] = Rest(scenario, k)
    BY <1>3 DEF IInv, Todos, Loading
  <2>2. todo[p] # <<>> /\ todo[p] \in Seq(Growth..MaxSegments)
    BY <2>1, RestFacts DEF IInv
  <2>3. Head(todo[p]) \in Growth..MaxSegments
    BY <2>2, HeadTailProperties
  <2> QED BY <2>2, <2>3 DEF Current, Page
<1>4. CASE job[p] = "fault"
  <2>1. PICK v \in Growth..MaxSegments : todo[p] = <<v>>
    BY <1>4 DEF IInv, Todos
  <2>2. todo[p] # <<>> /\ Head(todo[p]) = v
    BY <2>1
  <2> QED BY <2>2 DEF Current, Page
<1>5. CASE job[p] = "grow"
  <2>1. todo[p] \in {<<Growth, Stack>>, <<Growth>>, <<Stack>>}
    BY <1>5 DEF IInv, Todos
  <2> QED BY <2>1, <1>2 DEF Current, Page, Growth, Stack
<1> QED BY <1>1, <1>3, <1>4, <1>5

\* Where the process that handles a fault, or provides a page, stands with it.
LEMMA LoadFacts ==
    ASSUME IInv, NEW p \in Proc, job[p] = "load"
    PROVE  \E k \in 0..scenario.segments :
              /\ todo[p] = Rest(scenario, k)
              /\ pc[p] = "read" => k < scenario.segments
              /\ Head(todo[p]) = IF k < scenario.segments THEN k + 1 ELSE Stack
              /\ \A v \in Growth..MaxSegments : <<p, v>> \in entry <=> v \in 1..k
              /\ Current(p) \notin entry
<1>1. PICK k \in 0..scenario.segments :
          /\ todo[p] = Rest(scenario, k)
          /\ pc[p] = "read" => k < scenario.segments
          /\ \A v \in Growth..MaxSegments : <<p, v>> \in entry <=> v \in 1..k
  BY DEF IInv, Todos, Loading
<1>2. Head(todo[p]) = IF k < scenario.segments THEN k + 1 ELSE Stack
  BY <1>1, RestFacts DEF IInv
<1>3. Head(todo[p]) \notin 1..k
  BY <1>2, ScenarioFacts DEF IInv, Stack
<1>4. Current(p) \notin entry
  BY <1>1, <1>3, CurrentFacts
<1> QED BY <1>1, <1>2, <1>4

LEMMA FaultFacts ==
    ASSUME IInv, NEW p \in Proc, job[p] = "fault"
    PROVE  /\ Current(p) \in entry
           /\ pc[p] # "unlock" =>
                 pte[Current(p)] = NULL /\ pad[Current(p)] = NULL /\ swapI[Current(p)] # NoSlot
<1>1. Current(p) \in entry /\ (pc[p] # "unlock" => pte[Current(p)] = NULL)
  <2>1. PICK v \in Growth..MaxSegments :
            /\ todo[p] = <<v>> /\ <<p, v>> \in entry
            /\ pc[p] # "unlock" => pte[<<p, v>>] = NULL
    BY DEF IInv, Todos
  <2>2. Head(todo[p]) = v
    BY <2>1
  <2> QED BY <2>1, <2>2 DEF Current
<1> QED BY <1>1, CurrentFacts DEF IInv, Pages, Slots

----------------------------------------------------------------------------
(* User code.                                                              *)

LEMMA WriteStep ==
    ASSUME IInv, NEW p \in Proc, NEW v \in Growth..MaxSegments, Write(p, v)
    PROVE  IInv'
<1> DEFINE pg == <<p, v>>
<1>1. /\ pg \in Page /\ pte[pg] # NULL /\ pte[pg] \in Frame
      /\ latest'[pg] = Rewritten(pg, latest[pg])
      /\ latest' = [latest EXCEPT ![pg] = latest'[pg]]
      /\ mem' = [mem EXCEPT ![pte[pg]] = latest'[pg]]
      /\ lost' \in {lost \cup {pg}, lost \ {pg}}
      /\ (\E q \in Proc : pc[q] \in {"mark", "clear"} /\ victim[q].page = pg) => pg \in lost'
  BY DEF IInv, TypeOK, Write, Page
<1>2. UNCHANGED <<scenario, pte, tables, free, disk, pageLock, pc, locals>>
  BY DEF Write
<1>3. latest'[pg] \in Contents
  BY <1>1 DEF Rewritten, Contents
<1> HIDE DEF pg
<1>4. TypeOK'
  <2>1. latest' \in [Page -> Contents] /\ mem' \in [Frame -> Contents] /\ lost' \subseteq Page
    BY <1>1, <1>3 DEF IInv, TypeOK
  <2> QED BY <2>1, <1>2 DEF IInv, TypeOK, tables, locals
<1>5. Turns' /\ Calls' /\ Todos' /\ Holds'
  BY <1>2 DEF IInv, Turns, Calls, Todos, Loading, Holds, Current, tables, locals
<1>6. Pages' /\ Slots' /\ Table' /\ Victims'
  BY <1>2 DEF IInv, Pages, Slots, Table, Listed, InFlight, NewFrame, Current, Victims, tables, locals
<1>7. Data'
  <2>1. ASSUME NEW x \in entry, x \notin lost'
        PROVE  /\ pte[x] # NULL => mem'[pte[x]] = latest'[x]
               /\ pte[x] = NULL => disk[swapI[x]] = latest'[x]
    <3>1. x \in Page
      BY DEF IInv, TypeOK
    <3>2. CASE x = pg
      BY <3>2, <1>1 DEF IInv, TypeOK
    <3>3. CASE x # pg
      <4>1. x \notin lost /\ latest'[x] = latest[x]
        BY <3>1, <3>3, <2>1, <1>1 DEF IInv, TypeOK
      <4>2. pte[x] # NULL => pte[x] # pte[pg] /\ pte[x] \in Frame
        BY <3>1, <3>3, <1>1 DEF IInv, TypeOK, Pages
      <4> QED BY <4>1, <4>2, <2>1, <1>1 DEF IInv, TypeOK, Data
    <3> QED BY <3>2, <3>3
  <2>2. ASSUME NEW q \in Proc, pc[q] \in {"mark", "clear"}, victim[q].page \notin lost'
        PROVE  disk[slot[q]] = mem'[victim[q].frame]
    <3>1. victim[q].page # pg /\ victim[q].page \notin lost
      BY <2>2, <1>1
    <3>2. /\ victim[q] \in [page : Page, frame : Frame]
          /\ pte[victim[q].page] = victim[q].frame
      BY <2>2 DEF IInv, Victims
    <3>3. victim[q].frame # pte[pg] /\ victim[q].frame \in Frame
      BY <3>1, <3>2, <1>1 DEF IInv, Pages
    <3> QED BY <3>1, <3>3, <2>2, <1>1 DEF IInv, TypeOK, Data
  <2>3. ASSUME NEW q \in Proc, pc[q] = "map"
        PROVE  mem'[kpage[q]] = disk[swapI[Current(q)]]
    <3>1. kpage[q] # pte[pg] /\ kpage[q] \in Frame
      BY <2>3, <1>1 DEF IInv, TypeOK, Holds, Holding
    <3> QED BY <3>1, <2>3, <1>1 DEF IInv, TypeOK, Data
  <2> QED BY <2>1, <2>2, <2>3, <1>2 DEF Data, Current, tables, locals
<1> QED BY <1>4, <1>5, <1>6, <1>7 DEF IInv

\* Who runs when a child is created: its parent, and nobody else.
LEMMA OnlyTwo ==
    ASSUME IInv, EvictsAlone(scenario), NEW p \in Proc, NEW q \in Proc,
           pc[p] # "new", q \in scenario.runs, pc[q] = "new"
    PROVE  \A r \in Proc : r # p => pc[r] = "new"
BY ScenarioFacts DEF IInv, Calls, EvictsAlone

LEMMA ExecuteStep ==
    ASSUME IInv, EvictsAlone(scenario), NEW p \in Proc, NEW q \in Proc, Execute(p, q)
    PROVE  IInv'
<1>1. /\ p # q /\ pc[p] = "run" /\ pc[q] = "new" /\ q \in scenario.runs
  BY DEF Execute, At
<1>0. /\ pc' = [pc EXCEPT ![p] = "exec", ![q] = "get"]
      /\ job' = [job EXCEPT ![q] = "load"]
      /\ todo' = [todo EXCEPT ![q] = Program(scenario)]
  BY DEF Execute
<1>2. UNCHANGED <<scenario, pte, tables, free, mem, disk, pageLock, kpage, victim, slot, ghosts>>
  BY DEF Execute
<1>3. \A r \in Proc : r # p => pc[r] = "new"
  BY <1>1, OnlyTwo
<1>4. \A r \in Proc : pc'[r] = IF r = p THEN "exec" ELSE IF r = q THEN "get" ELSE "new"
  BY <1>0, <1>1, <1>3 DEF IInv, TypeOK
<1>5. \A r \in Proc : job'[r] = IF r = q THEN "load" ELSE job[r]
  BY <1>0 DEF IInv, TypeOK
<1>6. \A r \in Proc : todo'[r] = IF r = q THEN Program(scenario) ELSE todo[r]
  BY <1>0 DEF IInv, TypeOK
<1>7. Program(scenario) = Rest(scenario, 0) /\ Program(scenario) \in Seq(Growth..MaxSegments)
  <2>1. 0 \in 0..scenario.segments
    BY ScenarioFacts DEF IInv
  <2> QED BY <2>1, RestFacts DEF IInv
<1>8. TypeOK'
  <2>1. pc' \in [Proc -> Labels] /\ job' \in [Proc -> Jobs] /\ todo' \in [Proc -> Seq(Growth..MaxSegments)]
    BY <1>0, <1>7 DEF IInv, TypeOK, Labels, Jobs
  <2> QED BY <2>1, <1>2 DEF IInv, TypeOK, tables, ghosts
<1>9. Turns'
  <2>1. pageLock.value \in 0..1
    BY DEF IInv, Turns
  <2> QED BY <2>1, <1>2, <1>4, <1>5 DEF Turns, Busy
<1>13. Calls'
  <2>1. ASSUME NEW r \in Proc
        PROVE  /\ pc'[r] # "new" => r \in scenario.runs
               /\ pc'[r] \notin {"panic", "failed"}
               /\ job'[r] = "none" <=> pc'[r] \in {"new", "exec", "run"}
               /\ pc'[r] \notin {"lock", "swap_in", "map", "unlock", "read"}
               /\ job'[r] # "grow"
    BY <1>1, <1>3, <1>4, <1>5 DEF IInv, Calls
  <2>2. pc'[First] # "new"
    BY <1>1, <1>3, <1>4, FramesAssumption DEF IInv, Calls
  <2> QED BY <2>1, <2>2, <1>2 DEF Calls
<1>10. Todos'
  <2>1. Loading(q)'
    <3>1. 0 \in 0..scenario.segments
      BY ScenarioFacts DEF IInv
    <3>2. \A v \in Growth..MaxSegments : <<q, v>> \notin entry'
      BY <1>1, <1>2 DEF IInv, Todos, tables
    <3>3. todo'[q] = Rest(scenario, 0)
      BY <1>6, <1>7
    <3>4. pc'[q] # "read"
      BY <1>1, <1>4
    <3>5. \A v \in Growth..MaxSegments : v \notin 1..0
      OBVIOUS
    <3> QED BY <3>1, <3>2, <3>3, <3>4, <3>5, <1>2 DEF Loading
  <2>2. job[p] = "none" /\ <<p, Stack>> \in entry
    BY <1>1 DEF IInv, Todos, Calls
  <2>3. ASSUME NEW r \in Proc, r # p, r # q
        PROVE  job[r] = "none" /\ pc'[r] = "new" /\ \A v \in Growth..MaxSegments : <<r, v>> \notin entry
    BY <2>3, <1>3, <1>4 DEF IInv, Calls, Todos
  <2>4. ASSUME NEW r \in Proc
        PROVE  /\ pc'[r] = "new" => \A v \in Growth..MaxSegments : <<r, v>> \notin entry
               /\ job'[r] = "load" => r = q
               /\ job'[r] # "load" /\ pc'[r] # "new" => <<r, Stack>> \in entry
               /\ job'[r] \notin {"fault", "grow"}
    BY <2>2, <2>3, <1>1, <1>4, <1>5
  <2> QED BY <2>1, <2>4, <1>2 DEF Todos, tables
<1>11. Holds' /\ Pages'
  <2>1. \A r \in Proc : pc[r] \notin Holding /\ pc'[r] \notin Holding \cup {"unlock", "pick", "again"}
    BY <1>1, <1>3, <1>4 DEF Holding
  <2> QED BY <2>1, <1>2 DEF IInv, Holds, Pages, tables
<1>12. Slots' /\ Table' /\ Victims' /\ Data'
  <2>1. \A r \in Proc : pc[r] \notin {"write", "mark", "clear", "read", "swap_in", "map"}
    BY <1>1, <1>3
  <2>2. \A r \in Proc : pc'[r] \notin {"write", "mark", "clear", "read", "swap_in", "map"}
    BY <1>4
  <2> QED BY <2>1, <2>2, <1>2 DEF IInv, Slots, Table, Listed, InFlight, Victims, Data, tables, ghosts
<1> QED BY <1>8, <1>9, <1>10, <1>11, <1>12, <1>13 DEF IInv

LEMMA FaultStep ==
    ASSUME IInv, NEW p \in Proc, NEW v \in Growth..MaxSegments, Fault(p, v)
    PROVE  IInv'
<1>1. pc[p] = "run" /\ pte[<<p, v>>] = NULL /\ <<p, v>> \in entry
  BY DEF Fault, At
<1>2. /\ pc' = [pc EXCEPT ![p] = "lock"]
      /\ job' = [job EXCEPT ![p] = "fault"]
      /\ todo' = [todo EXCEPT ![p] = <<v>>]
  BY DEF Fault, Goto
<1>3. UNCHANGED <<scenario, pte, tables, free, mem, disk, pageLock, kpage, victim, slot, ghosts>>
  BY DEF Fault
<1>4. \A r \in Proc : /\ pc'[r] = IF r = p THEN "lock" ELSE pc[r]
                      /\ job'[r] = IF r = p THEN "fault" ELSE job[r]
                      /\ todo'[r] = IF r = p THEN <<v>> ELSE todo[r]
  BY <1>2 DEF IInv, TypeOK
<1>5. TypeOK'
  <2>1. pc' \in [Proc -> Labels] /\ job' \in [Proc -> Jobs] /\ todo' \in [Proc -> Seq(Growth..MaxSegments)]
    BY <1>2 DEF IInv, TypeOK, Labels, Jobs
  <2> QED BY <2>1, <1>3 DEF IInv, TypeOK, tables, ghosts
<1>6. Turns'
  <2>1. p \notin {r \in Proc : pc[r] \in Busy} /\ p \notin {r \in Proc : pc'[r] \in Busy}
    BY <1>1, <1>4 DEF Busy
  <2>2. \A r \in Proc : pc[r] \in Busy => job[r] = "fault"
    BY <2>1, <1>1 DEF IInv, Turns
  <2>3. \A r \in Proc : pc'[r] \in Busy => r # p /\ pc[r] \in Busy /\ job'[r] = job[r]
    BY <2>1, <1>4
  <2> QED BY <2>2, <2>3, <1>3 DEF IInv, Turns
<1>12. Calls'
  BY <1>1, <1>3, <1>4, FramesAssumption DEF IInv, Calls
<1>7. Todos'
  <2>1. ASSUME NEW r \in Proc, r # p PROVE Loading(r) => Loading(r)'
    BY <2>1, <1>3, <1>4 DEF Loading, tables
  <2>2. <<p, Stack>> \in entry
    BY <1>1 DEF IInv, Todos, Calls
  <2>3. ASSUME NEW r \in Proc, r # p
        PROVE  pc'[r] = pc[r] /\ job'[r] = job[r] /\ todo'[r] = todo[r]
    BY <2>3, <1>4
  <2>4. /\ pc'[p] = "lock" /\ job'[p] = "fault" /\ todo'[p] = <<v>>
        /\ <<p, v>> \in entry /\ pte[<<p, v>>] = NULL
    BY <1>1, <1>4
  <2> QED BY <2>1, <2>2, <2>3, <2>4, <1>3 DEF IInv, Todos, tables
<1>8. \A r \in Proc : /\ pc'[r] # "lock" => pc'[r] = pc[r] /\ Current(r)' = Current(r)
                      /\ pc[r] # "run" => pc'[r] = pc[r] /\ Current(r)' = Current(r)
  BY <1>1, <1>4 DEF Current
<1>9. Holds' /\ Pages'
  BY <1>3, <1>8 DEF IInv, Holds, Holding, Pages, tables
<1>10. Slots' /\ Table'
  BY <1>3, <1>8 DEF IInv, Slots, Table, Listed, InFlight, NewFrame, tables
<1>11. Victims' /\ Data'
  BY <1>3, <1>8 DEF IInv, Victims, Listed, Data, tables, ghosts
<1> QED BY <1>5, <1>6, <1>7, <1>9, <1>10, <1>11, <1>12 DEF IInv

\* Nobody is in the kernel but asleep when the stack of the only process grows.
LEMMA StackGrowthStep ==
    ASSUME IInv, EvictsAlone(scenario), NEW p \in Proc, StackGrowth(p)
    PROVE  IInv'
<1>1. pc[p] = "run" /\ pte[<<p, Growth>>] = NULL /\ p \in scenario.grows
  BY DEF StackGrowth, At
<1> DEFINE pages == IF pte[<<p, Stack>>] = NULL THEN <<Growth, Stack>> ELSE <<Growth>>
<1>2. /\ pc' = [pc EXCEPT ![p] = "get"]
      /\ job' = [job EXCEPT ![p] = "grow"]
      /\ todo' = [todo EXCEPT ![p] = pages]
  BY DEF StackGrowth, Goto
<1>3. UNCHANGED <<scenario, pte, tables, free, mem, disk, pageLock, kpage, victim, slot, ghosts>>
  BY DEF StackGrowth
<1>4. \A r \in Proc : /\ pc'[r] = IF r = p THEN "get" ELSE pc[r]
                      /\ job'[r] = IF r = p THEN "grow" ELSE job[r]
                      /\ todo'[r] = IF r = p THEN pages ELSE todo[r]
  BY <1>2 DEF IInv, TypeOK
<1>5. \A r \in Proc : r # p => pc[r] = "new"
  BY <1>1, ScenarioFacts DEF IInv, Calls, EvictsAlone
<1>6. TypeOK'
  <2>1. pages \in Seq(Growth..MaxSegments)
    <3>1. Growth \in Growth..MaxSegments /\ Stack \in Growth..MaxSegments
      BY ScenarioFacts DEF IInv, Growth, Stack
    <3> DEFINE S == Growth..MaxSegments
    <3> HIDE DEF S
    <3>2. Growth \in S /\ Stack \in S
      BY <3>1 DEF S
    <3>3. <<Growth>> \in Seq(S) /\ <<Growth, Stack>> \in Seq(S)
      BY <3>2
    <3> QED BY <3>3 DEF S
  <2> HIDE DEF pages
  <2>2. pc' \in [Proc -> Labels] /\ job' \in [Proc -> Jobs] /\ todo' \in [Proc -> Seq(Growth..MaxSegments)]
    BY <1>2, <2>1 DEF IInv, TypeOK, Labels, Jobs
  <2> QED BY <2>2, <1>3 DEF IInv, TypeOK, tables, ghosts
<1>7. Turns' /\ Calls'
  <2> HIDE DEF pages
  <2>1. \A r \in Proc : r # p => pc'[r] = "new" /\ pc'[r] \notin Busy
    BY <1>4, <1>5 DEF Busy
  <2>2. Turns'
    BY <2>1, <1>3, <1>4 DEF IInv, Turns
  <2>3. Calls'
    BY <1>1, <1>3, <1>4, FramesAssumption DEF IInv, Calls
  <2> QED BY <2>2, <2>3
<1>8. Todos'
  <2>1. \A r \in Proc : r # p => job[r] = "none"
    BY <1>5 DEF IInv, Calls
  <2>2. <<p, Stack>> \in entry
    BY <1>1 DEF IInv, Todos, Calls
  <2> QED BY <2>1, <2>2, <1>1, <1>3, <1>4, <1>5 DEF IInv, Todos, tables
<1>9. \A r \in Proc : /\ pc[r] \notin Holding \cup {"pick", "again", "write", "mark", "clear"}
                      /\ pc'[r] \notin Holding \cup {"pick", "again", "write", "mark", "clear"}
  BY <1>1, <1>4, <1>5 DEF Holding
<1>10. Holds' /\ Pages'
  BY <1>3, <1>9 DEF IInv, Holds, Holding, Pages, tables
<1>11. Slots' /\ Table'
  BY <1>3, <1>9 DEF IInv, Slots, Table, Holding, Listed, InFlight, tables
<1>12. Victims' /\ Data'
  BY <1>3, <1>9 DEF IInv, Victims, Holding, Data, tables, ghosts
<1> QED BY <1>6, <1>7, <1>8, <1>10, <1>11, <1>12 DEF IInv

LEMMA LockStep ==
    ASSUME IInv, NEW p \in Proc, Lock(p)
    PROVE  IInv'
<1>1. pc[p] = "lock" /\ job[p] = "fault"
  BY DEF Lock, At, IInv, Calls
<1>2. UNCHANGED <<scenario, pte, tables, free, mem, disk, locals, ghosts>>
  BY DEF Lock
<1>3. pageLock \in Semaphores(Proc)
  BY DEF IInv, TypeOK
<1>4. CASE IsZero(pageLock)
  <2>1. pageLock' = Enqueued(pageLock, p) /\ UNCHANGED pc
    BY <1>4 DEF Lock
  <2>2. pageLock' \in Semaphores(Proc) /\ pageLock'.value = pageLock.value
    BY <2>1, <1>3 DEF Semaphores, Enqueued
  <2>3. TypeOK' /\ Turns' /\ Calls'
    BY <2>1, <2>2, <1>2 DEF IInv, TypeOK, Turns, Calls, tables, locals, ghosts
  <2>4. Todos' /\ Holds' /\ Pages'
    BY <2>1, <1>2 DEF IInv, Todos, Loading, Holds, Current, Pages, tables, locals
  <2>5. Slots' /\ Table' /\ Victims' /\ Data'
    BY <2>1, <1>2 DEF IInv, Slots, Table, Listed, InFlight, NewFrame, Current, Victims, Data, tables, locals, ghosts
  <2> QED BY <2>3, <2>4, <2>5 DEF IInv
<1>5. CASE ~ IsZero(pageLock)
  <2>1. pageLock' = Lowered(pageLock) /\ pc' = [pc EXCEPT ![p] = "get"]
    BY <1>5 DEF Lock, Goto
  <2>2. \A r \in Proc : pc'[r] = IF r = p THEN "get" ELSE pc[r]
    BY <2>1 DEF IInv, TypeOK
  <2>3. pageLock' \in Semaphores(Proc) /\ pageLock.value # 0 /\ pageLock'.value = pageLock.value - 1
    BY <2>1, <1>3, <1>5 DEF Semaphores, Lowered, IsZero
  <2>4. \A r \in Proc : pc[r] \notin Busy
    BY <2>3, <1>1 DEF IInv, Turns
  <2>5. TypeOK'
    <3>1. pc' \in [Proc -> Labels]
      BY <2>1 DEF IInv, TypeOK, Labels
    <3> QED BY <3>1, <2>3, <1>2 DEF IInv, TypeOK, tables, locals, ghosts
  <2>6. Turns' /\ Calls'
    <3>1. \A r \in Proc : pc'[r] \in Busy => r = p
      BY <2>2, <2>4
    <3>2. pageLock'.value = 0
      <4>1. pageLock.value = 1
        BY <2>3 DEF IInv, Turns
      <4> QED BY <4>1, <2>3
    <3>3. Turns'
      BY <3>1, <3>2, <1>1, <1>2 DEF Turns, locals
    <3>4. Calls'
      BY <2>2, <1>1, <1>2, FramesAssumption DEF IInv, Calls, locals
    <3> QED BY <3>3, <3>4
  <2>7. Todos'
    BY <2>2, <1>1, <1>2 DEF IInv, Todos, Loading, tables, locals
  <2>8. \A r \in Proc : /\ pc'[r] # "get" => pc'[r] = pc[r]
                        /\ pc[r] # "lock" => pc'[r] = pc[r]
    BY <1>1, <2>2
  <2>9. Holds' /\ Pages'
    BY <2>8, <1>2 DEF IInv, Holds, Holding, Current, Pages, tables, locals
  <2>10. Slots' /\ Table'
    BY <2>8, <1>2 DEF IInv, Slots, Table, Listed, InFlight, NewFrame, Current, tables, locals
  <2>11. Victims' /\ Data'
    BY <2>8, <1>2 DEF IInv, Victims, Listed, Current, Data, tables, locals, ghosts
  <2> QED BY <2>5, <2>6, <2>7, <2>9, <2>10, <2>11 DEF IInv
<1> QED BY <1>4, <1>5

----------------------------------------------------------------------------
(* palloc_get_page and frameEvict.                                         *)

\* The others are where they were, and not on these paths.
LEMMA Alone ==
    ASSUME IInv, NEW p \in Proc, pc[p] \in Busy
    PROVE  \A r \in Proc : r # p => pc[r] \notin Busy
BY DEF IInv, Turns

\* A step to l on these paths that provides no page.
LEMMA KernelStep ==
    ASSUME IInv, NEW p \in Proc, NEW l \in Busy \ {"unlock"},
           pc[p] \in Busy \ {"unlock"}, pc' = [pc EXCEPT ![p] = l],
           l \in {"swap_in", "map"} => job[p] = "fault",
           l = "read" => job[p] = "load" /\ Head(todo[p]) # Stack,
           UNCHANGED <<scenario, entry, job, todo, pageLock>>,
           \A pg \in Page : pte[pg] = NULL => pte'[pg] = NULL
    PROVE  /\ Turns' /\ Calls' /\ Todos' /\ pc' \in [Proc -> Labels]
           /\ \A r \in Proc : pc'[r] = IF r = p THEN l ELSE pc[r]
           /\ \A r \in Proc : Current(r)' = Current(r)
           /\ \A r \in Proc : r # p => pc[r] \notin Busy /\ pc'[r] \notin Busy
<1>1. \A r \in Proc : pc'[r] = IF r = p THEN l ELSE pc[r]
  BY DEF IInv, TypeOK
<1>2. \A r \in Proc : r # p => pc[r] \notin Busy /\ pc'[r] = pc[r]
  BY <1>1, Alone
<1>3. Turns'
  <2>1. \A r \in Proc : pc'[r] \in Busy => r = p
    BY <1>1, <1>2
  <2>2. pageLock.value \in 0..1 /\ (job[p] = "fault" => pageLock.value = 0)
    BY DEF IInv, Turns
  <2>3. job[p] # "fault" => \A q \in Proc : q # p => pc'[q] \in {"new", "exec"}
    BY <1>2 DEF IInv, Turns
  <2> QED BY <2>1, <2>2, <2>3 DEF Turns
<1>4. job[p] # "none" /\ pc[p] # "new"
  BY DEF IInv, Calls, Busy
<1>5. Calls'
  <2>1. l \notin {"new", "exec", "run", "lock", "unlock", "panic", "failed"}
    BY DEF Busy
  <2> QED BY <2>1, <1>1, <1>4, FramesAssumption DEF IInv, Calls
<1>6. Todos'
  <2>1. ASSUME NEW r \in Proc, job[r] = "load" PROVE Loading(r)'
    <3>1. PICK k \in 0..scenario.segments :
              /\ todo[r] = Rest(scenario, k)
              /\ pc[r] = "read" => k < scenario.segments
              /\ Head(todo[r]) = IF k < scenario.segments THEN k + 1 ELSE Stack
              /\ \A v \in Growth..MaxSegments : <<r, v>> \in entry <=> v \in 1..k
      BY <2>1, LoadFacts
    <3>2. pc'[r] = "read" => k < scenario.segments
      BY <3>1, <1>1
    <3> QED BY <3>1, <3>2 DEF Loading
  <2>2. ASSUME NEW r \in Proc, job[r] = "fault"
        PROVE  \E v \in Growth..MaxSegments :
                  /\ todo[r] = <<v>> /\ <<r, v>> \in entry
                  /\ pc'[r] # "unlock" => pte'[<<r, v>>] = NULL
    <3>1. PICK v \in Growth..MaxSegments :
              /\ todo[r] = <<v>> /\ <<r, v>> \in entry
              /\ pc[r] # "unlock" => pte[<<r, v>>] = NULL
      BY <2>2 DEF IInv, Todos
    <3>2. <<r, v>> \in Page
      BY DEF Page
    <3> QED BY <3>1, <3>2, <1>1
  <2>3. ASSUME NEW r \in Proc, job[r] = "grow"
        PROVE  \/ /\ todo[r] = <<Growth, Stack>>
                  /\ pte'[<<r, Growth>>] = NULL /\ pte'[<<r, Stack>>] = NULL
               \/ todo[r] = <<Growth>> /\ pte'[<<r, Growth>>] = NULL
               \/ todo[r] = <<Stack>> /\ pte'[<<r, Stack>>] = NULL
    <3>1. <<r, Growth>> \in Page /\ <<r, Stack>> \in Page
      BY ScenarioFacts DEF IInv, Page, Growth, Stack
    <3> QED BY <3>1, <2>3 DEF IInv, Todos
  <2>4. ASSUME NEW r \in Proc
        PROVE  /\ pc'[r] = "new" => \A v \in Growth..MaxSegments : <<r, v>> \notin entry
               /\ job[r] # "load" /\ pc'[r] # "new" => <<r, Stack>> \in entry
    BY <1>1, <1>2, <1>4 DEF IInv, Todos, Busy
  <2> QED BY <2>1, <2>2, <2>3, <2>4 DEF Todos
<1>7. pc' \in [Proc -> Labels]
  BY DEF IInv, TypeOK, Labels, Busy
<1> QED BY <1>1, <1>2, <1>3, <1>5, <1>6, <1>7 DEF Current

\* palloc_get_page: the frame leaves the pool for the process.
LEMMA TakeStep ==
    ASSUME IInv, NEW p \in Proc, pc[p] \in {"get", "again"}, free # {}, Take(p),
           UNCHANGED <<scenario, pte, tables, mem, disk, pageLock, job, todo, victim, slot, ghosts>>
    PROVE  IInv'
<1>1. PICK f \in free : free' = free \ {f} /\ kpage' = [kpage EXCEPT ![p] = f]
  <2>1. \E f \in free : \A g \in free : f <= g
    BY ScenarioFacts, LeastExists DEF IInv, TypeOK
  <2> QED BY <2>1 DEF Take
<1>2. f \in scenario.frames /\ f \in Frame /\ f # NULL
  BY <1>1, ScenarioFacts DEF IInv, Pages
<1>3. /\ pc' \in [Proc -> Labels] /\ Turns' /\ Calls' /\ Todos'
      /\ \A r \in Proc : pc'[r] = IF r = p THEN "got" ELSE pc[r]
      /\ \A r \in Proc : Current(r)' = Current(r)
      /\ \A r \in Proc : r # p => pc[r] \notin Busy /\ pc'[r] \notin Busy
  <2>1. pc' = [pc EXCEPT ![p] = "got"] /\ UNCHANGED entry
    BY DEF Take, Goto, tables
  <2> QED BY <2>1, KernelStep DEF Busy
<1>4. TypeOK'
  <2>1. free' \subseteq Frame /\ kpage' \in [Proc -> Frame \union {NULL}]
    BY <1>1, <1>2 DEF IInv, TypeOK
  <2> QED BY <2>1, <1>3 DEF IInv, TypeOK, tables, ghosts
<1>5. \A r \in Proc : kpage'[r] = IF r = p THEN f ELSE kpage[r]
  BY <1>1 DEF IInv, TypeOK
<1>6. \A pg \in Page : pte[pg] # f
  BY <1>1, <1>2 DEF IInv, Pages
<1>7. Holds'
  BY <1>1, <1>2, <1>3, <1>5, <1>6 DEF IInv, Holds, Busy, Holding
<1>8. Pages'
  <2>1. kpage[p] = NULL
    BY DEF IInv, Holds, Holding
  <2>2. ASSUME NEW g \in scenario.frames
        PROVE  g \in free' \/ (\E pg \in Page : pte[pg] = g) \/ (\E r \in Proc : kpage'[r] = g)
    <3>1. NULL # g
      BY ScenarioFacts DEF IInv
    <3>2. g \in free \/ (\E pg \in Page : pte[pg] = g) \/ (\E r \in Proc : kpage[r] = g)
      BY DEF IInv, Pages
    <3> QED BY <3>1, <3>2, <2>1, <1>1, <1>5
  <2> QED BY <2>2, <1>1 DEF IInv, Pages, tables
<1>9. Slots'
  BY <1>3 DEF IInv, Slots, Busy, tables
<1>10. Table'
  <2>1. ASSUME NEW e PROVE InFlight(e)' <=> InFlight(e)
    BY <1>3, <1>5 DEF InFlight, Busy
  <2>2. \A r \in Proc : pc[r] \notin {"read", "swap_in", "map", "clear"}
                        /\ pc'[r] \notin {"read", "swap_in", "map", "clear"}
    BY <1>3 DEF Busy
  <2> QED BY <2>1, <2>2 DEF IInv, Table, Listed, tables
<1>11. Victims' /\ Data'
  BY <1>3 DEF IInv, Victims, Listed, Data, Busy, tables, ghosts
<1> QED BY <1>3, <1>4, <1>7, <1>8, <1>9, <1>10, <1>11 DEF IInv

LEMMA GetPageStep ==
    ASSUME IInv, NEW p \in Proc, GetPage(p)
    PROVE  IInv'
<1>1. pc[p] = "get"
  BY DEF GetPage, At
<1>2. UNCHANGED <<scenario, pte, tables, mem, disk, pageLock, job, todo, victim, slot, ghosts>>
  BY DEF GetPage
<1>3. ~ (job[p] = "fault" /\ pad[Current(p)] # NULL)
  BY <1>1, FaultFacts
<1>4. CASE free # {}
  BY <1>1, <1>2, <1>3, <1>4, TakeStep DEF GetPage
<1>5. CASE free = {}
  <2>1. pc' = [pc EXCEPT ![p] = "pick"] /\ UNCHANGED <<free, kpage>>
    BY <1>3, <1>5 DEF GetPage, Goto
  <2>2. /\ pc' \in [Proc -> Labels] /\ Turns' /\ Calls' /\ Todos'
        /\ \A r \in Proc : pc'[r] = IF r = p THEN "pick" ELSE pc[r]
        /\ \A r \in Proc : Current(r)' = Current(r)
        /\ \A r \in Proc : r # p => pc[r] \notin Busy /\ pc'[r] \notin Busy
    BY <1>1, <1>2, <2>1, KernelStep DEF Busy, tables
  <2>3. TypeOK'
    BY <2>1, <2>2, <1>2 DEF IInv, TypeOK, tables, ghosts
  <2>4. Holds' /\ Pages'
    BY <2>1, <2>2, <1>1, <1>2, <1>5 DEF IInv, Holds, Pages, Busy, Holding, tables
  <2>5. Slots' /\ Table'
    BY <2>1, <2>2, <1>1, <1>2 DEF IInv, Slots, Table, Listed, InFlight, NewFrame, Busy, tables
  <2>6. Victims' /\ Data'
    BY <2>1, <2>2, <1>1, <1>2 DEF IInv, Victims, Listed, Data, Busy, tables, ghosts
  <2> QED BY <2>2, <2>3, <2>4, <2>5, <2>6 DEF IInv
<1> QED BY <1>4, <1>5

LEMMA GetPageAgainStep ==
    ASSUME IInv, NEW p \in Proc, GetPageAgain(p)
    PROVE  IInv'
<1>1. pc[p] = "again" /\ free # {}
  BY DEF GetPageAgain, At, IInv, Holds
<1> QED BY <1>1, TakeStep DEF GetPageAgain

\* The oldest frame has a page with an entry, which is in memory.
LEMMA OldestFrame ==
    ASSUME IInv, NEW p \in Proc, pc[p] = "pick", frame_table # <<>>
    PROVE  LET v == Head(frame_table)
           IN  /\ v \in Listed /\ v \in [page : Page, frame : Frame]
               /\ v.page \in entry /\ pte[v.page] = v.frame /\ swapI[v.page] = NoSlot
<1>1. frame_table \in Seq([page : Page, frame : Frame]) /\ IsInjective(frame_table)
  BY DEF IInv, TypeOK, Table
<1>2. Head(frame_table) \in Listed /\ Head(frame_table) \in [page : Page, frame : Frame]
  BY <1>1, TailSet, HeadTailProperties DEF Listed
<1>3. ~ InFlight(Head(frame_table))
  <2>1. \A r \in Proc : r # p => pc[r] \notin Busy
    BY Alone DEF Busy
  <2> QED BY <2>1 DEF InFlight, Busy
<1> QED BY <1>2, <1>3 DEF IInv, Table

LEMMA PickVictimStep ==
    ASSUME IInv, NEW p \in Proc, PickVictim(p), scenario.slots \ used_slots # {}
    PROVE  IInv'
<1> DEFINE v == Head(frame_table)
<1>1. pc[p] = "pick" /\ frame_table # <<>>
  BY DEF PickVictim, At
<1>2. /\ v \in Listed /\ v \in [page : Page, frame : Frame]
      /\ v.page \in entry /\ v.page \in Page
      /\ pte[v.page] = v.frame /\ swapI[v.page] = NoSlot
  BY <1>1, OldestFrame
<1>3. PICK s \in scenario.slots \ used_slots :
          /\ victim' = [victim EXCEPT ![p] = v]
          /\ pad' = [pad EXCEPT ![v.page] = NULL]
          /\ slot' = [slot EXCEPT ![p] = s]
          /\ pc' = [pc EXCEPT ![p] = "write"]
  <2>1. \E s \in scenario.slots \ used_slots : \A r \in scenario.slots \ used_slots : s <= r
    BY ScenarioFacts, LeastExists DEF IInv
  <2> QED BY <2>1, <1>2 DEF PickVictim, Goto
<1>4. UNCHANGED <<scenario, pte, entry, swapI, frame_table, used_slots, free, mem, disk,
                  pageLock, job, todo, kpage, ghosts>>
  BY DEF PickVictim
<1>5. s \in Slot
  BY <1>3, ScenarioFacts DEF IInv
<1> HIDE DEF v
<1>6. /\ pc' \in [Proc -> Labels] /\ Turns' /\ Calls' /\ Todos'
      /\ \A r \in Proc : pc'[r] = IF r = p THEN "write" ELSE pc[r]
      /\ \A r \in Proc : Current(r)' = Current(r)
      /\ \A r \in Proc : r # p => pc[r] \notin Busy /\ pc'[r] \notin Busy
  BY <1>1, <1>3, <1>4, KernelStep DEF Busy
<1>7. /\ victim' \in [Proc -> [page : Page, frame : Frame] \union {NULL}] /\ victim'[p] = v
      /\ slot' \in [Proc -> Slot \union {NoSlot}] /\ slot'[p] = s
      /\ pad' \in [Page -> Frame \union {NULL}]
      /\ \A pg \in Page : pad'[pg] = IF pg = v.page THEN NULL ELSE pad[pg]
  BY <1>2, <1>3, <1>5 DEF IInv, TypeOK
<1>8. TypeOK'
  BY <1>4, <1>6, <1>7 DEF IInv, TypeOK, ghosts
<1>9. Holds'
  BY <1>1, <1>4, <1>6 DEF IInv, Holds, Busy, Holding
<1>10. Pages'
  BY <1>4, <1>7 DEF IInv, Pages
<1>11. Slots'
  <2>1. \A r \in Proc : pc[r] # "clear" /\ pc'[r] # "clear"
    BY <1>1, <1>6 DEF Busy
  <2> QED BY <2>1, <1>4, <1>7 DEF IInv, Slots
<1>12. \A r \in Proc : /\ pc[r] \notin {"read", "swap_in", "map", "clear", "mark"}
                       /\ pc'[r] \notin {"read", "swap_in", "map", "clear", "mark"}
                       /\ pc'[r] = "write" => r = p
  BY <1>1, <1>6 DEF Busy
<1>13. Table'
  BY <1>4, <1>12 DEF IInv, Table, Listed, InFlight
<1>14. Victims'
  <2>1. s \in scenario.slots \ used_slots
    BY <1>3
  <2> QED BY <2>1, <1>2, <1>4, <1>7, <1>12 DEF Victims, Listed
<1>15. Data'
  BY <1>4, <1>12 DEF IInv, Data, ghosts
<1> QED BY <1>6, <1>8, <1>9, <1>10, <1>11, <1>13, <1>14, <1>15 DEF IInv

LEMMA WriteOutStep ==
    ASSUME IInv, NEW p \in Proc, WriteOut(p)
    PROVE  IInv'
<1>1. pc[p] = "write"
  BY DEF WriteOut, At
<1>2. /\ victim[p] \in [page : Page, frame : Frame]
      /\ slot[p] \in scenario.slots \ used_slots /\ slot[p] \in Slot
      /\ disk' = [disk EXCEPT ![slot[p]] = mem[victim[p].frame]]
  BY <1>1, ScenarioFacts DEF WriteOut, IInv, Victims
<1>3. UNCHANGED <<scenario, pte, tables, free, mem, pageLock, locals, ghosts>>
  BY DEF WriteOut
<1>4. /\ pc' \in [Proc -> Labels] /\ Turns' /\ Calls' /\ Todos'
      /\ \A r \in Proc : pc'[r] = IF r = p THEN "mark" ELSE pc[r]
      /\ \A r \in Proc : Current(r)' = Current(r)
      /\ \A r \in Proc : r # p => pc[r] \notin Busy /\ pc'[r] \notin Busy
  <2>1. pc' = [pc EXCEPT ![p] = "mark"]
    BY DEF WriteOut, Goto
  <2> QED BY <2>1, <1>1, <1>3, KernelStep DEF Busy, tables, locals
<1>5. disk' \in [Slot -> Contents] /\ disk'[slot[p]] = mem[victim[p].frame]
  BY <1>2 DEF IInv, TypeOK
<1>6. TypeOK'
  BY <1>3, <1>4, <1>5 DEF IInv, TypeOK, tables, locals, ghosts
<1>7. Holds' /\ Pages'
  BY <1>1, <1>3, <1>4 DEF IInv, Holds, Pages, Busy, Holding, tables, locals
<1>8. \A r \in Proc : /\ pc[r] \notin {"read", "swap_in", "map", "clear"}
                      /\ pc'[r] \notin {"read", "swap_in", "map", "clear", "write"}
                      /\ pc'[r] = "mark" => r = p
  BY <1>1, <1>4 DEF Busy
<1>9. Slots' /\ Table'
  BY <1>3, <1>8 DEF IInv, Slots, Table, Listed, InFlight, tables, locals
<1>10. Victims'
  BY <1>1, <1>3, <1>8 DEF IInv, Victims, Listed, tables, locals
<1>11. Data'
  <2>1. ASSUME NEW pg \in entry, pte[pg] = NULL PROVE disk'[swapI[pg]] = disk[swapI[pg]]
    <3>1. swapI[pg] \in used_slots /\ swapI[pg] \in Slot /\ pg \in Page
      BY <2>1, ScenarioFacts DEF IInv, TypeOK, Slots
    <3> QED BY <3>1, <1>2 DEF IInv, TypeOK
  <2> QED BY <2>1, <1>3, <1>5, <1>8 DEF IInv, Data, tables, locals, ghosts
<1> QED BY <1>4, <1>6, <1>7, <1>9, <1>10, <1>11 DEF IInv

LEMMA MarkSlotStep ==
    ASSUME IInv, NEW p \in Proc, MarkSlot(p)
    PROVE  IInv'
<1> DEFINE v == victim[p]
           s == slot[p]
<1>1. pc[p] = "mark"
  BY DEF MarkSlot, At
<1>2. /\ v \in [page : Page, frame : Frame] /\ v.page \in Page /\ v.frame \in Frame
      /\ v \in Listed /\ v.page \in entry /\ pte[v.page] = v.frame /\ pad[v.page] = NULL
      /\ swapI[v.page] = NoSlot
      /\ s \in scenario.slots /\ s \notin used_slots /\ s \in Slot /\ s # NoSlot
  BY <1>1, ScenarioFacts DEF IInv, Victims
<1>3. /\ used_slots' = used_slots \cup {s}
      /\ swapI' = [swapI EXCEPT ![v.page] = s]
      /\ frame_table' = RemoveFirst(frame_table, v)
      /\ pc' = [pc EXCEPT ![p] = "clear"]
  BY <1>2 DEF MarkSlot, Goto
<1>4. UNCHANGED <<scenario, pte, entry, pad, free, mem, disk, pageLock, locals, ghosts>>
  BY DEF MarkSlot
<1>5. /\ frame_table' \in Seq([page : Page, frame : Frame])
      /\ Listed' = Listed \ {v} /\ IsInjective(frame_table')
  <2>1. frame_table \in Seq([page : Page, frame : Frame]) /\ IsInjective(frame_table)
    BY DEF IInv, TypeOK, Table
  <2> QED BY <2>1, <1>2, <1>3, RemoveFirstSet DEF Listed
<1>6. /\ pc' \in [Proc -> Labels] /\ Turns' /\ Calls' /\ Todos'
      /\ \A r \in Proc : pc'[r] = IF r = p THEN "clear" ELSE pc[r]
      /\ \A r \in Proc : Current(r)' = Current(r)
      /\ \A r \in Proc : r # p => pc[r] \notin Busy /\ pc'[r] \notin Busy
  BY <1>1, <1>3, <1>4, KernelStep DEF Busy, locals
<1>7. /\ swapI' \in [Page -> Slot \union {NoSlot}]
      /\ \A pg \in Page : swapI'[pg] = IF pg = v.page THEN s ELSE swapI[pg]
  BY <1>2, <1>3 DEF IInv, TypeOK
<1>8. TypeOK'
  <2>1. used_slots' \subseteq Slot
    BY <1>2, <1>3 DEF IInv, TypeOK
  <2> QED BY <2>1, <1>4, <1>5, <1>6, <1>7 DEF IInv, TypeOK, locals, ghosts
<1>9. Holds' /\ Pages'
  BY <1>1, <1>4, <1>6 DEF IInv, Holds, Pages, Busy, Holding, locals
<1>10. \A r \in Proc : /\ pc[r] \notin {"read", "swap_in", "map", "clear"}
                       /\ pc'[r] \notin {"read", "swap_in", "map", "write", "mark"}
                       /\ pc'[r] = "clear" <=> r = p
  BY <1>1, <1>6 DEF Busy
<1> HIDE DEF v, s
<1>11. victim'[p] = v /\ slot'[p] = s
  BY <1>4 DEF v, s, locals
<1>12. Slots'
  <2>1. \A pg \in Page : swapI[pg] # s
    BY <1>2 DEF IInv, Slots
  <2>2. \A t \in used_slots' : \E pg \in Page : swapI'[pg] = t
    <3>1. ASSUME NEW t \in used_slots PROVE \E pg \in Page : swapI'[pg] = t
      <4>1. PICK pg \in Page : swapI[pg] = t
        BY DEF IInv, Slots
      <4>2. t # NoSlot
        BY ScenarioFacts DEF IInv, TypeOK
      <4> QED BY <4>1, <4>2, <1>2, <1>7
    <3> QED BY <3>1, <1>2, <1>3, <1>7
  <2>3. \A x, y \in Page : swapI'[x] # NoSlot /\ swapI'[x] = swapI'[y] => x = y
    BY <2>1, <1>7 DEF IInv, Slots
  <2>4. ASSUME NEW pg \in Page, swapI'[pg] # NoSlot
        PROVE  /\ pg \in entry /\ swapI'[pg] \in used_slots' /\ pad[pg] = NULL
               /\ pte[pg] # NULL =>
                    \/ \E r \in Proc : pc'[r] = "clear" /\ victim'[r].page = pg
                    \/ pg[2] = Stack /\ pg[1] \in scenario.grows
    <3>1. CASE pg = v.page
      BY <3>1, <1>2, <1>3, <1>7, <1>10, <1>11
    <3>2. CASE pg # v.page
      BY <3>2, <2>4, <1>3, <1>7, <1>10 DEF IInv, Slots
    <3> QED BY <3>1, <3>2
  <2>5. used_slots' \subseteq scenario.slots /\ \A pg \in entry : pte[pg] = NULL => swapI'[pg] # NoSlot
    BY <1>2, <1>3, <1>7 DEF IInv, TypeOK, Slots
  <2> QED BY <2>2, <2>3, <2>4, <2>5, <1>4 DEF Slots
<1>13. Table'
  <2>1. \A d \in Listed : d.page = v.page => d = v
    BY <1>2, <1>10 DEF IInv, Table, InFlight
  <2>2. ASSUME NEW e \in Listed'
        PROVE  e.page \in entry /\ pte[e.page] = e.frame /\ swapI'[e.page] = NoSlot
    <3>1. /\ e \in Listed /\ e.page # v.page
          /\ e.page \in entry /\ pte[e.page] = e.frame /\ swapI[e.page] = NoSlot
      BY <2>1, <1>5, <1>10 DEF IInv, Table, InFlight
    <3> QED BY <3>1, <1>7 DEF IInv, TypeOK
  <2>3. ASSUME NEW pg \in entry, pte[pg] # NULL
        PROVE  \/ [page |-> pg, frame |-> pte[pg]] \in Listed'
               \/ \E r \in Proc : pc'[r] = "clear" /\ victim'[r].page = pg
               \/ pg[2] = Stack /\ pg[1] \in scenario.grows
    <3>1. CASE pg = v.page
      BY <3>1, <1>10, <1>11
    <3>2. CASE pg # v.page
      BY <3>2, <2>3, <1>5, <1>10 DEF IInv, Table
    <3> QED BY <3>1, <3>2
  <2> QED BY <2>2, <2>3, <1>4, <1>5, <1>10 DEF IInv, Table
<1>14. Victims'
  BY <1>2, <1>4, <1>7, <1>10, <1>11 DEF Victims
<1>15. Data'
  <2>1. ASSUME NEW pg \in entry, pte[pg] = NULL PROVE swapI'[pg] = swapI[pg]
    <3>1. pg # v.page /\ pg \in Page
      BY <2>1, <1>2, ScenarioFacts DEF IInv, TypeOK
    <3> QED BY <3>1, <1>7
  <2>2. v.page \notin lost => disk[s] = mem[v.frame]
    BY <1>1 DEF IInv, Data, v, s
  <2> QED BY <2>1, <2>2, <1>4, <1>10, <1>11 DEF IInv, Data, ghosts
<1> QED BY <1>6, <1>8, <1>9, <1>12, <1>13, <1>14, <1>15 DEF IInv

LEMMA ClearFrameStep ==
    ASSUME IInv, NEW p \in Proc, ClearFrame(p)
    PROVE  IInv'
<1> DEFINE v == victim[p]
<1>1. pc[p] = "clear"
  BY DEF ClearFrame, At
<1>2. /\ v \in [page : Page, frame : Frame] /\ v.page \in Page /\ v.frame \in Frame
      /\ v.page \in entry /\ pte[v.page] = v.frame /\ pad[v.page] = NULL
      /\ slot[p] # NoSlot /\ swapI[v.page] = slot[p]
  BY <1>1 DEF IInv, Victims
<1>3. v.frame \notin free /\ v.frame \in scenario.frames /\ v.frame # NULL
  BY <1>2, ScenarioFacts DEF IInv, Pages
<1>4. /\ pte' = [pte EXCEPT ![v.page] = NULL]
      /\ free' = free \cup {v.frame}
      /\ mem' = [mem EXCEPT ![v.frame] = Junk]
      /\ victim' = [victim EXCEPT ![p] = NULL]
      /\ slot' = [slot EXCEPT ![p] = NoSlot]
      /\ pc' = [pc EXCEPT ![p] = "again"]
  BY <1>3 DEF ClearFrame, Goto
<1>5. UNCHANGED <<scenario, tables, disk, pageLock, job, todo, kpage, ghosts>>
  BY DEF ClearFrame
<1> HIDE DEF v
<1>6. /\ pte' \in [Page -> Frame \union {NULL}]
      /\ \A pg \in Page : pte'[pg] = IF pg = v.page THEN NULL ELSE pte[pg]
  BY <1>2, <1>4 DEF IInv, TypeOK
<1>7. /\ pc' \in [Proc -> Labels] /\ Turns' /\ Calls' /\ Todos'
      /\ \A r \in Proc : pc'[r] = IF r = p THEN "again" ELSE pc[r]
      /\ \A r \in Proc : Current(r)' = Current(r)
      /\ \A r \in Proc : r # p => pc[r] \notin Busy /\ pc'[r] \notin Busy
  BY <1>1, <1>4, <1>5, <1>6, KernelStep DEF Busy, tables
<1>8. TypeOK'
  <2>1. /\ free' \subseteq Frame /\ mem' \in [Frame -> Contents]
        /\ victim' \in [Proc -> [page : Page, frame : Frame] \union {NULL}]
        /\ slot' \in [Proc -> Slot \union {NoSlot}]
    BY <1>2, <1>4 DEF IInv, TypeOK, Contents
  <2> QED BY <2>1, <1>5, <1>6, <1>7 DEF IInv, TypeOK, tables, ghosts
<1>9. \A r \in Proc : /\ r # p => pc[r] \notin Busy
                      /\ pc'[r] \notin {"pick", "write", "mark", "clear", "read", "swap_in", "map"} \cup Holding
                      /\ pc[r] \notin {"write", "mark", "read", "swap_in", "map"} \cup Holding
                      /\ pc'[r] = "again" => r = p
  BY <1>1, <1>7 DEF Busy, Holding
<1>10. Holds'
  BY <1>2, <1>3, <1>4, <1>5, <1>6, <1>9 DEF IInv, Holds, Holding
<1>11. Pages'
  <2>1. \A pg \in Page : pg # v.page => pte[pg] # v.frame
    BY <1>2, <1>3 DEF IInv, Pages
  <2>2. ASSUME NEW f \in scenario.frames
        PROVE  f \in free' \/ (\E pg \in Page : pte'[pg] = f) \/ (\E r \in Proc : kpage[r] = f)
    <3>1. f \in free \/ (\E pg \in Page : pte[pg] = f) \/ (\E r \in Proc : kpage[r] = f)
      BY DEF IInv, Pages
    <3> QED BY <3>1, <1>2, <1>4, <1>6
  <2>3. ASSUME NEW pg \in Page
        PROVE  /\ pte'[pg] # NULL =>
                     /\ pg \in entry \/ (pg[2] = Growth /\ pg[1] \in scenario.grows)
                     /\ pte'[pg] \in scenario.frames /\ pte'[pg] \notin free'
               /\ pad[pg] # NULL => pad[pg] = pte'[pg]
    BY <2>1, <1>2, <1>4, <1>6 DEF IInv, Pages
  <2>4. \A x, y \in Page : pte'[x] # NULL /\ pte'[x] = pte'[y] => x = y
    BY <1>6 DEF IInv, Pages
  <2>5. free' \subseteq scenario.frames
    BY <1>3, <1>4 DEF IInv, Pages
  <2> QED BY <2>2, <2>3, <2>4, <2>5, <1>5 DEF IInv, Pages, tables
<1>12. \A pg \in Page : (\E r \in Proc : pc[r] = "clear" /\ victim[r].page = pg) => pg = v.page
  BY <1>1, <1>9 DEF Busy, v
<1>13. Slots'
  <2>1. ASSUME NEW pg \in Page, swapI[pg] # NoSlot, pte'[pg] # NULL
        PROVE  pg[2] = Stack /\ pg[1] \in scenario.grows
    BY <2>1, <1>6, <1>12 DEF IInv, Slots
  <2>2. \A pg \in entry : pte'[pg] = NULL => swapI[pg] # NoSlot
    BY <1>2, <1>6 DEF IInv, TypeOK, Slots
  <2> QED BY <2>1, <2>2, <1>5 DEF IInv, Slots, tables
<1>14. Table'
  <2>1. ASSUME NEW e \in Listed
        PROVE  e.page \in entry /\ pte'[e.page] = e.frame /\ swapI[e.page] = NoSlot
    <3>1. e.page \in entry /\ pte[e.page] = e.frame /\ swapI[e.page] = NoSlot
      BY <1>9 DEF IInv, Table, InFlight
    <3>2. e.page \in Page /\ e.page # v.page
      BY <3>1, <1>2 DEF IInv, TypeOK
    <3> QED BY <3>1, <3>2, <1>6
  <2>2. ASSUME NEW pg \in entry, pte'[pg] # NULL
        PROVE  \/ [page |-> pg, frame |-> pte'[pg]] \in Listed
               \/ pg[2] = Stack /\ pg[1] \in scenario.grows
    <3>1. pg \in Page
      BY DEF IInv, TypeOK
    <3>2. pg # v.page /\ pte'[pg] = pte[pg]
      BY <2>2, <3>1, <1>6
    <3> QED BY <2>2, <3>1, <3>2, <1>12 DEF IInv, Table
  <2> QED BY <2>1, <2>2, <1>5, <1>9 DEF IInv, Table, Listed, tables
<1>15. Victims'
  BY <1>9 DEF Victims
<1>16. Data'
  <2>1. ASSUME NEW pg \in entry, pg \notin lost
        PROVE  /\ pte'[pg] # NULL => mem'[pte'[pg]] = latest[pg]
               /\ pte'[pg] = NULL => disk[swapI[pg]] = latest[pg]
    <3>1. pg \in Page
      BY DEF IInv, TypeOK
    <3>2. CASE pg = v.page
      <4>1. disk[slot[p]] = mem[v.frame]
        BY <3>2, <2>1, <1>1 DEF IInv, Data, v
      <4>2. mem[v.frame] = latest[pg]
        BY <3>2, <2>1, <1>2, <1>3 DEF IInv, Data
      <4> QED BY <4>1, <4>2, <3>1, <3>2, <1>2, <1>6
    <3>3. CASE pg # v.page
      <4>1. pte[pg] # NULL => pte[pg] # v.frame /\ pte[pg] \in Frame
        BY <3>1, <3>3, <1>2, <1>3 DEF IInv, TypeOK, Pages
      <4> QED BY <4>1, <3>1, <3>3, <2>1, <1>2, <1>4, <1>6 DEF IInv, TypeOK, Data
    <3> QED BY <3>2, <3>3
  <2> QED BY <2>1, <1>5, <1>9 DEF Data, tables, ghosts
<1> QED BY <1>7, <1>8, <1>10, <1>11, <1>13, <1>14, <1>15, <1>16 DEF IInv

----------------------------------------------------------------------------
(* What the frame is for.                                                  *)

\* What a process that has obtained a frame has: nobody's frame, in no entry
\* of the frame table, and a page that it is not yet mapped to.
LEMMA GotFacts ==
    ASSUME IInv, NEW p \in Proc, pc[p] = "got"
    PROVE  /\ kpage[p] \in scenario.frames /\ kpage[p] \in Frame /\ kpage[p] # NULL
           /\ kpage[p] \notin free
           /\ \A pg \in Page : pte[pg] # kpage[p]
           /\ \A e \in Listed : e.page \in entry /\ pte[e.page] = e.frame /\ swapI[e.page] = NoSlot
           /\ \A e \in Listed : e.frame # kpage[p]
           /\ Current(p) \in Page /\ job[p] # "none"
           /\ NewFrame(p) \in [page : Page, frame : Frame]
           /\ NewFrame(p).page = Current(p) /\ NewFrame(p).frame = kpage[p]
<1>1. /\ kpage[p] \in scenario.frames /\ kpage[p] \in Frame /\ kpage[p] # NULL
      /\ kpage[p] \notin free
      /\ \A pg \in Page : pte[pg] # kpage[p]
  BY ScenarioFacts DEF IInv, Holds, Holding
<1>2. \A r \in Proc : pc[r] \notin {"read", "swap_in", "map"}
  BY Alone DEF Busy
<1>3. \A e \in Listed : e.page \in entry /\ pte[e.page] = e.frame /\ swapI[e.page] = NoSlot
  BY <1>2 DEF IInv, Table, InFlight
<1>4. \A e \in Listed : e.frame # kpage[p]
  BY <1>1, <1>3 DEF IInv, TypeOK
<1>5. Current(p) \in Page /\ job[p] # "none"
  BY CurrentFacts DEF IInv, Calls
<1> QED BY <1>1, <1>3, <1>4, <1>5 DEF NewFrame

\* A new frame at the end of the frame table.
LEMMA ListsFrame ==
    ASSUME IInv, NEW p \in Proc, pc[p] = "got", frame_table' = Append(frame_table, NewFrame(p))
    PROVE  /\ frame_table' \in Seq([page : Page, frame : Frame])
           /\ Listed' = Listed \cup {NewFrame(p)} /\ IsInjective(frame_table')
           /\ \A d, e \in Listed' : d.frame = e.frame => d = e
<1>1. frame_table \in Seq([page : Page, frame : Frame]) /\ IsInjective(frame_table)
  BY DEF IInv, TypeOK, Table
<1>2. NewFrame(p) \in [page : Page, frame : Frame] /\ NewFrame(p) \notin Listed
  BY GotFacts
<1>3. /\ frame_table' \in Seq([page : Page, frame : Frame])
      /\ Listed' = Listed \cup {NewFrame(p)} /\ IsInjective(frame_table')
  <2> DEFINE S == [page : Page, frame : Frame]
             e == NewFrame(p)
  <2>1. frame_table \in Seq(S) /\ IsInjective(frame_table) /\ e \in S /\ e \notin ToSet(frame_table)
    BY <1>1, <1>2 DEF Listed
  <2> HIDE DEF S, e
  <2>2. /\ Append(frame_table, e) \in Seq(S)
        /\ ToSet(Append(frame_table, e)) = ToSet(frame_table) \cup {e}
        /\ IsInjective(Append(frame_table, e))
    BY <2>1, AppendSet
  <2> QED BY <2>2 DEF Listed, S, e
<1>4. \A d, e \in Listed : d.frame = e.frame => d = e
  BY DEF IInv, Table
<1> QED BY <1>3, <1>4, GotFacts

\* The step of load_segment and of frameAllocation that lists a frame that is
\* not mapped yet.
LEMMA ListsStep ==
    ASSUME IInv, NEW p \in Proc, NEW l \in {"read", "swap_in"}, pc[p] = "got",
           l = "swap_in" => job[p] = "fault",
           l = "read" => job[p] = "load" /\ Head(todo[p]) # Stack,
           frame_table' = Append(frame_table, NewFrame(p)),
           pc' = [pc EXCEPT ![p] = l],
           UNCHANGED <<scenario, pte, entry, pad, swapI, used_slots, free, mem, disk, pageLock,
                       locals, ghosts>>
    PROVE  IInv'
<1>1. /\ pc' \in [Proc -> Labels] /\ Turns' /\ Calls' /\ Todos'
      /\ \A r \in Proc : pc'[r] = IF r = p THEN l ELSE pc[r]
      /\ \A r \in Proc : Current(r)' = Current(r)
      /\ \A r \in Proc : r # p => pc[r] \notin Busy /\ pc'[r] \notin Busy
  BY KernelStep DEF Busy, locals
<1>2. /\ frame_table' \in Seq([page : Page, frame : Frame])
      /\ Listed' = Listed \cup {NewFrame(p)} /\ IsInjective(frame_table')
      /\ \A d, e \in Listed' : d.frame = e.frame => d = e
  BY ListsFrame
<1>3. TypeOK'
  BY <1>1, <1>2 DEF IInv, TypeOK, locals, ghosts
<1>4. Holds' /\ Pages'
  BY <1>1 DEF IInv, Holds, Pages, Busy, Holding, locals
<1>5. \A r \in Proc : /\ pc[r] \notin {"write", "mark", "clear", "map"}
                      /\ pc'[r] \notin {"write", "mark", "clear", "map"}
                      /\ pc'[r] \in {"read", "swap_in", "map"} <=> r = p
  BY <1>1 DEF Busy
<1>6. Slots'
  BY <1>5 DEF IInv, Slots
<1>7. Table'
  <2>1. NewFrame(p)' = NewFrame(p)
    BY <1>1 DEF NewFrame, locals
  <2>2. ASSUME NEW e \in Listed'
        PROVE  \/ e.page \in entry /\ pte[e.page] = e.frame /\ swapI[e.page] = NoSlot
               \/ InFlight(e)'
    BY <2>1, <1>2, <1>5, GotFacts DEF InFlight
  <2>3. ASSUME NEW pg \in entry, pte[pg] # NULL
        PROVE  \/ [page |-> pg, frame |-> pte[pg]] \in Listed
               \/ pg[2] = Stack /\ pg[1] \in scenario.grows
    BY <2>3, <1>5 DEF IInv, Table
  <2> QED BY <2>1, <2>2, <2>3, <1>2, <1>5 DEF Table
<1>8. Victims' /\ Data'
  BY <1>5 DEF IInv, Victims, Data, ghosts
<1> QED BY <1>1, <1>3, <1>4, <1>6, <1>7, <1>8 DEF IInv

LEMMA LoadListsStep ==
    ASSUME IInv, NEW p \in Proc, LoadLists(p)
    PROVE  IInv'
BY ListsStep DEF LoadLists, At, Goto

LEMMA FaultListsStep ==
    ASSUME IInv, NEW p \in Proc, FaultLists(p)
    PROVE  IInv'
<1>1. pc[p] = "got" /\ job[p] = "fault" /\ pad[Current(p)] = NULL
  BY FaultFacts DEF FaultLists, At
<1> QED BY <1>1, ListsStep DEF FaultLists, At, Goto

\* swapIn reads the slot; there is one.
LEMMA SwapInStep ==
    ASSUME IInv, NEW p \in Proc, SwapIn(p)
    PROVE  IInv'
<1> DEFINE c == Current(p)
<1>1. pc[p] = "swap_in" /\ job[p] = "fault"
  BY DEF SwapIn, At, IInv, Calls
<1>2. swapI[c] # NoSlot /\ c \in Page /\ swapI[c] \in Slot
  BY <1>1, FaultFacts, CurrentFacts DEF IInv, TypeOK
<1>3. mem' = [mem EXCEPT ![kpage[p]] = disk[swapI[c]]] /\ pc' = [pc EXCEPT ![p] = "map"]
  BY <1>2 DEF SwapIn, Goto
<1>4. UNCHANGED <<scenario, pte, tables, free, disk, pageLock, locals, ghosts>>
  BY DEF SwapIn
<1>5. /\ kpage[p] \in Frame /\ \A pg \in Page : pte[pg] # kpage[p]
  BY <1>1, ScenarioFacts DEF IInv, Holds, Holding
<1>6. /\ pc' \in [Proc -> Labels] /\ Turns' /\ Calls' /\ Todos'
      /\ \A r \in Proc : pc'[r] = IF r = p THEN "map" ELSE pc[r]
      /\ \A r \in Proc : Current(r)' = Current(r)
      /\ \A r \in Proc : r # p => pc[r] \notin Busy /\ pc'[r] \notin Busy
  BY <1>1, <1>3, <1>4, KernelStep DEF Busy, tables, locals
<1> HIDE DEF c
<1>7. mem' \in [Frame -> Contents] /\ mem'[kpage[p]] = disk[swapI[c]]
  BY <1>2, <1>3, <1>5 DEF IInv, TypeOK
<1>8. TypeOK'
  BY <1>4, <1>6, <1>7 DEF IInv, TypeOK, tables, locals, ghosts
<1>9. Holds' /\ Pages'
  BY <1>1, <1>4, <1>6 DEF IInv, Holds, Pages, Busy, Holding, tables, locals
<1>10. \A r \in Proc : /\ pc[r] \notin {"write", "mark", "clear", "read", "map"}
                       /\ pc'[r] \notin {"write", "mark", "clear", "read", "swap_in"}
                       /\ pc[r] = "swap_in" <=> r = p
                       /\ pc'[r] = "map" <=> r = p
  BY <1>1, <1>6 DEF Busy
<1>11. Slots'
  BY <1>4, <1>10 DEF IInv, Slots, tables
<1>12. Table'
  <2>1. ASSUME NEW e PROVE InFlight(e)' <=> InFlight(e)
    BY <1>4, <1>6, <1>10 DEF InFlight, NewFrame, locals
  <2>2. NewFrame(p)' = NewFrame(p)
    BY <1>4, <1>6 DEF NewFrame, locals
  <2> QED BY <2>1, <2>2, <1>4, <1>10 DEF IInv, Table, Listed, tables
<1>13. Victims'
  BY <1>10 DEF Victims
<1>14. Data'
  <2>1. ASSUME NEW pg \in entry, pte[pg] # NULL PROVE mem'[pte[pg]] = mem[pte[pg]]
    BY <2>1, <1>3, <1>5 DEF IInv, TypeOK
  <2>2. mem'[kpage'[p]] = disk'[swapI'[Current(p)']]
    BY <1>4, <1>6, <1>7 DEF tables, locals, c
  <2> QED BY <2>1, <2>2, <1>4, <1>10 DEF IInv, Data, tables, ghosts
<1> QED BY <1>6, <1>8, <1>9, <1>11, <1>12, <1>13, <1>14 DEF IInv

\* load() has mapped its page, made the entry, and the frame is listed.
LEMMA InstallStep ==
    ASSUME IInv, NEW p \in Proc, job[p] = "load", pc[p] \in {"got", "read"},
           Install(p, Version(Current(p), 0)),
           UNCHANGED <<scenario, used_slots, free, disk, victim, slot>>,
           \A r \in Proc : pc'[r] \in {"new", "exec", "run"} \/ (r = p /\ pc'[r] = "get"),
           IsInjective(frame_table'), Listed' = Listed \cup {NewFrame(p)},
           \A d, e \in Listed' : d.frame = e.frame => d = e
    PROVE  /\ Holds' /\ Pages' /\ Slots' /\ Table' /\ Victims' /\ Data'
           /\ mem' \in [Frame -> Contents] /\ latest' \in [Page -> Contents]
           /\ entry' \subseteq Page /\ kpage' \in [Proc -> Frame \union {NULL}]
           /\ pad' \in [Page -> Frame \union {NULL}] /\ pte' \in [Page -> Frame \union {NULL}]
           /\ swapI' \in [Page -> Slot \union {NoSlot}]
<1> DEFINE c == Current(p)
           f == kpage[p]
<1>1. /\ c \notin entry /\ c \in Page /\ c[1] \in scenario.runs /\ c[2] \in Stack..scenario.segments
      /\ c[2] # Growth
  <2>1. PICK k \in 0..scenario.segments :
            /\ Head(todo[p]) = IF k < scenario.segments THEN k + 1 ELSE Stack
            /\ c \notin entry
    BY LoadFacts
  <2>2. c \in Page /\ c = <<p, Head(todo[p])>>
    BY CurrentFacts
  <2>3. Head(todo[p]) \in Stack..scenario.segments /\ Head(todo[p]) # Growth
    BY <2>1, ScenarioFacts DEF IInv, Stack, Growth
  <2>4. p \in scenario.runs
    BY DEF IInv, Calls
  <2> QED BY <2>1, <2>2, <2>3, <2>4
<1>3. pte[c] = NULL /\ pad[c] = NULL /\ swapI[c] = NoSlot
  BY <1>1 DEF IInv, Pages, Slots
<1>4. /\ f \in scenario.frames /\ f \in Frame /\ f # NULL /\ f \notin free
      /\ \A pg \in Page : pte[pg] # f
  BY ScenarioFacts DEF IInv, Holds, Holding
<1>5. /\ mem' = [mem EXCEPT ![f] = Version(c, 0)]
      /\ latest' = [latest EXCEPT ![c] = Version(c, 0)]
      /\ entry' = entry \cup {c}
      /\ pad' = [pad EXCEPT ![c] = f]
      /\ swapI' = [swapI EXCEPT ![c] = NoSlot]
      /\ pte' = [pte EXCEPT ![c] = f]
      /\ kpage' = [kpage EXCEPT ![p] = NULL]
      /\ lost' = lost
  BY DEF Install
<1>7. NewFrame(p).page = c /\ NewFrame(p).frame = f /\ NewFrame(p) = [page |-> c, frame |-> f]
  BY DEF NewFrame
<1>8. \A r \in Proc : r # p => pc[r] \in {"new", "exec"}
  BY DEF IInv, Turns, Busy
<1>17. \A r \in Proc : /\ pc[r] \notin {"clear", "write", "mark"}
                       /\ pc'[r] \notin {"clear", "write", "mark", "read", "swap_in", "map", "again"} \cup Holding
  BY <1>8 DEF Holding
<1> HIDE DEF c, f
<1>9. /\ \A pg \in Page : /\ pte'[pg] = IF pg = c THEN f ELSE pte[pg]
                          /\ pad'[pg] = IF pg = c THEN f ELSE pad[pg]
                          /\ swapI'[pg] = swapI[pg]
                          /\ latest'[pg] = IF pg = c THEN Version(c, 0) ELSE latest[pg]
      /\ \A g \in Frame : mem'[g] = IF g = f THEN Version(c, 0) ELSE mem[g]
  BY <1>1, <1>3, <1>4, <1>5 DEF IInv, TypeOK
<1>10. \A r \in Proc : kpage'[r] = NULL
  <2>1. \A r \in Proc : r # p => kpage[r] = NULL
    BY <1>8 DEF IInv, Holds, Holding
  <2> QED BY <2>1, <1>5 DEF IInv, TypeOK
<1>12. /\ mem' \in [Frame -> Contents] /\ latest' \in [Page -> Contents] /\ entry' \subseteq Page
       /\ pad' \in [Page -> Frame \union {NULL}] /\ pte' \in [Page -> Frame \union {NULL}]
       /\ swapI' \in [Page -> Slot \union {NoSlot}] /\ kpage' \in [Proc -> Frame \union {NULL}]
  <2>1. Version(c, 0) \in Contents
    BY <1>1 DEF Contents
  <2> QED BY <2>1, <1>1, <1>4, <1>5 DEF IInv, TypeOK
<1>15. Holds'
  BY <1>10, <1>17 DEF Holds, Holding
<1>16. Pages'
  <2>2. ASSUME NEW g \in scenario.frames
        PROVE  g \in free \/ (\E pg \in Page : pte'[pg] = g) \/ (\E r \in Proc : kpage'[r] = g)
    <3>1. g \in free \/ (\E pg \in Page : pte[pg] = g) \/ (\E r \in Proc : kpage[r] = g)
      BY DEF IInv, Pages
    <3>2. g # NULL
      BY ScenarioFacts DEF IInv
    <3>3. \A r \in Proc : kpage[r] = g => r = p
      BY <3>2, <1>8 DEF IInv, Holds, Holding
    <3> QED BY <3>1, <3>2, <3>3, <1>1, <1>3, <1>9 DEF f
  <2>3. ASSUME NEW pg \in Page
        PROVE  /\ pte'[pg] # NULL =>
                     /\ pg \in entry' \/ (pg[2] = Growth /\ pg[1] \in scenario.grows)
                     /\ pte'[pg] \in scenario.frames /\ pte'[pg] \notin free
               /\ pad'[pg] # NULL => pad'[pg] = pte'[pg]
    BY <1>4, <1>5, <1>9 DEF IInv, Pages
  <2>4. \A x, y \in Page : pte'[x] # NULL /\ pte'[x] = pte'[y] => x = y
    BY <1>4, <1>9 DEF IInv, Pages
  <2> QED BY <2>2, <2>3, <2>4, <1>1, <1>5 DEF IInv, Pages
<1>18. Slots'
  <2>1. ASSUME NEW pg \in Page, swapI'[pg] # NoSlot
        PROVE  /\ pg \in entry' /\ swapI'[pg] \in used_slots /\ pad'[pg] = NULL
               /\ pte'[pg] # NULL => pg[2] = Stack /\ pg[1] \in scenario.grows
    BY <2>1, <1>3, <1>5, <1>9, <1>17 DEF IInv, Slots
  <2>2. ASSUME NEW pg \in entry', pte'[pg] = NULL PROVE swapI'[pg] # NoSlot
    <3>1. pg \in Page /\ pg # c
      BY <2>2, <1>1, <1>4, <1>5, <1>9 DEF IInv, TypeOK
    <3> QED BY <3>1, <2>2, <1>5, <1>9 DEF IInv, Slots
  <2>3. \A s \in used_slots : \E pg \in Page : swapI'[pg] = s
    BY <1>9 DEF IInv, Slots
  <2>4. \A x, y \in Page : swapI'[x] # NoSlot /\ swapI'[x] = swapI'[y] => x = y
    BY <1>9 DEF IInv, Slots
  <2> QED BY <2>1, <2>2, <2>3, <2>4, <1>17 DEF IInv, Slots
<1>19. Table'
  <2>1. ASSUME NEW e \in Listed'
        PROVE  e.page \in entry' /\ pte'[e.page] = e.frame /\ swapI'[e.page] = NoSlot
    <3>1. CASE e \in Listed /\ e.page \in entry /\ pte[e.page] = e.frame /\ swapI[e.page] = NoSlot
      <4>1. e.page \in Page /\ e.page # c
        BY <3>1, <1>1 DEF IInv, TypeOK
      <4> QED BY <4>1, <3>1, <1>5, <1>9
    <3>2. CASE e = NewFrame(p)
      BY <3>2, <1>1, <1>3, <1>5, <1>7, <1>9
    <3>3. InFlight(e) => e = NewFrame(p)
      BY <1>8 DEF InFlight
    <3> QED BY <3>1, <3>2, <3>3 DEF IInv, Table
  <2>2. ASSUME NEW pg \in entry', pte'[pg] # NULL
        PROVE  \/ [page |-> pg, frame |-> pte'[pg]] \in Listed'
               \/ pg[2] = Stack /\ pg[1] \in scenario.grows
    <3>1. CASE pg = c
      BY <3>1, <1>1, <1>7, <1>9
    <3>2. CASE pg # c
      <4>1. pg \in entry /\ pg \in Page /\ pte'[pg] = pte[pg]
        BY <3>2, <1>5, <1>9 DEF IInv, TypeOK
      <4> QED BY <4>1, <2>2, <1>17 DEF IInv, Table
    <3> QED BY <3>1, <3>2
  <2> QED BY <2>1, <2>2, <1>17 DEF IInv, Table
<1>20. Victims'
  BY <1>17 DEF Victims
<1>21. Data'
  <2>1. ASSUME NEW pg \in entry', pg \notin lost
        PROVE  /\ pte'[pg] # NULL => mem'[pte'[pg]] = latest'[pg]
               /\ pte'[pg] = NULL => disk[swapI'[pg]] = latest'[pg]
    <3>1. CASE pg = c
      BY <3>1, <1>1, <1>4, <1>9
    <3>2. CASE pg # c
      <4>1. pg \in entry /\ pg \in Page
        BY <3>2, <1>5 DEF IInv, TypeOK
      <4>2. pte[pg] # NULL => pte[pg] # f /\ pte[pg] \in Frame
        BY <4>1, <1>4 DEF IInv, TypeOK
      <4> QED BY <4>1, <4>2, <3>2, <2>1, <1>9 DEF IInv, Data
    <3> QED BY <3>1, <3>2
  <2> QED BY <2>1, <1>5, <1>17 DEF Data
<1> QED BY <1>12, <1>15, <1>16, <1>18, <1>19, <1>20, <1>21

LEMMA LoadReadsStep ==
    ASSUME IInv, NEW p \in Proc, LoadReads(p)
    PROVE  IInv'
<1>1. pc[p] = "read" /\ job[p] = "load"
  BY DEF LoadReads, At, IInv, Calls
<1>2. PICK k \in 0..scenario.segments :
          /\ todo[p] = Rest(scenario, k) /\ k < scenario.segments
          /\ Head(todo[p]) = k + 1
          /\ \A v \in Growth..MaxSegments : <<p, v>> \in entry <=> v \in 1..k
  BY <1>1, LoadFacts
<1>3. Current(p) = <<p, k + 1>>
  BY <1>1, <1>2, CurrentFacts
<1>4. /\ entry' = entry \cup {<<p, k + 1>>}
      /\ todo' = [todo EXCEPT ![p] = Tail(@)]
      /\ pc' = [pc EXCEPT ![p] = "get"]
  BY <1>3 DEF LoadReads, Install, Goto
<1>5. UNCHANGED <<scenario, frame_table, used_slots, free, disk, pageLock, job, victim, slot, lost>>
  BY DEF LoadReads, Install
<1>6. Tail(todo[p]) = Rest(scenario, k + 1) /\ Tail(todo[p]) \in Seq(Growth..MaxSegments)
      /\ k + 1 \in 0..scenario.segments
  <2>1. k + 1 \in 0..scenario.segments
    BY <1>2, ScenarioFacts DEF IInv
  <2> QED BY <2>1, <1>2, RestFacts DEF IInv
<1>7. \A r \in Proc : /\ pc'[r] = IF r = p THEN "get" ELSE pc[r]
                      /\ todo'[r] = IF r = p THEN Tail(todo[p]) ELSE todo[r]
  BY <1>4 DEF IInv, TypeOK
<1>8. \A r \in Proc : r # p => pc[r] \in {"new", "exec"} /\ pc'[r] \in {"new", "exec"}
  BY <1>1, <1>7 DEF IInv, Turns, Busy
<1>9. /\ Holds' /\ Pages' /\ Slots' /\ Table' /\ Victims' /\ Data'
      /\ mem' \in [Frame -> Contents] /\ latest' \in [Page -> Contents]
      /\ entry' \subseteq Page /\ kpage' \in [Proc -> Frame \union {NULL}]
      /\ pad' \in [Page -> Frame \union {NULL}] /\ pte' \in [Page -> Frame \union {NULL}]
      /\ swapI' \in [Page -> Slot \union {NoSlot}]
  <2>1. Listed' = Listed \cup {NewFrame(p)} /\ IsInjective(frame_table')
        /\ \A d, e \in Listed' : d.frame = e.frame => d = e
    BY <1>1, <1>5 DEF IInv, Table, Listed
  <2>2. Install(p, Version(Current(p), 0))
    BY DEF LoadReads
  <2> QED BY <2>1, <2>2, <1>1, <1>5, <1>7, <1>8, InstallStep
<1>10. TypeOK'
  <2>1. pc' \in [Proc -> Labels] /\ todo' \in [Proc -> Seq(Growth..MaxSegments)]
    BY <1>4, <1>6 DEF IInv, TypeOK, Labels
  <2> QED BY <2>1, <1>5, <1>9 DEF IInv, TypeOK
<1>11. Turns'
  BY <1>1, <1>5, <1>7, <1>8 DEF IInv, Turns, Busy
<1>12. Calls'
  BY <1>1, <1>5, <1>7, <1>8, FramesAssumption DEF IInv, Calls
<1>13. Todos'
  <2>1. Loading(p)'
    <3>1. ASSUME NEW v \in Growth..MaxSegments
          PROVE  <<p, v>> \in entry' <=> v \in 1..(k + 1)
      <4>1. v \in 1..(k + 1) <=> v \in 1..k \/ v = k + 1
        BY ScenarioFacts DEF IInv, Growth
      <4> QED BY <4>1, <1>2, <1>4
    <3> QED BY <3>1, <1>5, <1>6, <1>7 DEF Loading
  <2>2. \A r \in Proc, v \in Growth..MaxSegments : r # p => (<<r, v>> \in entry' <=> <<r, v>> \in entry)
    BY <1>4
  <2>3. \A r \in Proc : r # p => job[r] = "none"
    BY <1>8 DEF IInv, Calls
  <2>4. Stack \in Growth..MaxSegments
    BY ScenarioFacts DEF IInv, Stack, Growth
  <2> QED BY <2>1, <2>2, <2>3, <2>4, <1>1, <1>5, <1>7, <1>8 DEF IInv, Todos
<1> QED BY <1>9, <1>10, <1>11, <1>12, <1>13 DEF IInv

\* The page of arguments is the last that load() provides; whoever waited for
\* the child goes on.
LEMMA SetupStackStep ==
    ASSUME IInv, NEW p \in Proc, SetupStack(p)
    PROVE  IInv'
<1>1. pc[p] = "got" /\ job[p] = "load" /\ Current(p) = <<p, Stack>>
  BY CurrentFacts DEF SetupStack, At
<1>2. /\ entry' = entry \cup {<<p, Stack>>}
      /\ frame_table' = Append(frame_table, NewFrame(p))
      /\ job' = [job EXCEPT ![p] = "none"]
      /\ todo' = [todo EXCEPT ![p] = <<>>]
      /\ pc' = [q \in Proc |-> IF q = p \/ pc[q] = "exec" THEN "run" ELSE pc[q]]
  BY <1>1 DEF SetupStack, Install
<1>3. UNCHANGED <<scenario, used_slots, free, disk, pageLock, victim, slot, lost>>
  BY DEF SetupStack, Install
<1>4. \A r \in Proc : /\ pc'[r] = IF r = p \/ pc[r] = "exec" THEN "run" ELSE pc[r]
                      /\ job'[r] = IF r = p THEN "none" ELSE job[r]
  BY <1>2 DEF IInv, TypeOK
<1>5. \A r \in Proc : /\ r # p => pc[r] \in {"new", "exec"} /\ job[r] = "none"
                      /\ pc'[r] \in {"new", "run"} /\ job'[r] = "none"
  BY <1>1, <1>4 DEF IInv, Turns, Calls, Busy
<1>6. /\ frame_table' \in Seq([page : Page, frame : Frame])
      /\ Listed' = Listed \cup {NewFrame(p)} /\ IsInjective(frame_table')
      /\ \A d, e \in Listed' : d.frame = e.frame => d = e
  BY <1>1, <1>2, ListsFrame
<1>7. /\ Holds' /\ Pages' /\ Slots' /\ Table' /\ Victims' /\ Data'
      /\ mem' \in [Frame -> Contents] /\ latest' \in [Page -> Contents]
      /\ entry' \subseteq Page /\ kpage' \in [Proc -> Frame \union {NULL}]
      /\ pad' \in [Page -> Frame \union {NULL}] /\ pte' \in [Page -> Frame \union {NULL}]
      /\ swapI' \in [Page -> Slot \union {NoSlot}]
  <2>1. Install(p, Version(Current(p), 0))
    BY DEF SetupStack
  <2> QED BY <2>1, <1>1, <1>3, <1>5, <1>6, InstallStep
<1>8. TypeOK'
  <2>1. /\ pc' \in [Proc -> Labels] /\ job' \in [Proc -> Jobs]
        /\ todo' \in [Proc -> Seq(Growth..MaxSegments)]
    BY <1>2 DEF IInv, TypeOK, Labels, Jobs
  <2> QED BY <2>1, <1>3, <1>6, <1>7 DEF IInv, TypeOK
<1>9. Turns'
  BY <1>3, <1>5 DEF IInv, Turns, Busy
<1>10. Calls'
  BY <1>1, <1>3, <1>4, <1>5, FramesAssumption DEF IInv, Calls
<1>11. Todos'
  <2>1. ASSUME NEW r \in Proc, pc'[r] = "new", NEW v \in Growth..MaxSegments PROVE <<r, v>> \notin entry'
    <3>1. r # p /\ pc[r] = "new"
      BY <2>1, <1>4
    <3> QED BY <3>1, <1>2 DEF IInv, Todos
  <2>2. ASSUME NEW r \in Proc, pc'[r] # "new" PROVE <<r, Stack>> \in entry'
    BY <2>2, <1>2, <1>4, <1>5 DEF IInv, Todos
  <2> QED BY <2>1, <2>2, <1>5 DEF Todos
<1> QED BY <1>7, <1>8, <1>9, <1>10, <1>11 DEF IInv

\* stackGrowth maps a page that was not present and lists it nowhere.
LEMMA GrowthMapsStep ==
    ASSUME IInv, NEW p \in Proc, GrowthMaps(p)
    PROVE  IInv'
<1> DEFINE c == Current(p)
           f == kpage[p]
           last == Len(todo[p]) = 1
<1>1. pc[p] = "got" /\ job[p] = "grow" /\ p \in scenario.grows
  BY DEF GrowthMaps, At, IInv, Calls
<1>2. /\ c \in Page /\ c[1] = p /\ pte[c] = NULL
      /\ c[2] = Growth \/ (c[2] = Stack /\ c \in entry)
      /\ Tail(todo[p]) \in Seq(Growth..MaxSegments)
      /\ ~ last => Tail(todo[p]) = <<Stack>> /\ pte[<<p, Stack>>] = NULL /\ c = <<p, Growth>>
  <2>1. \/ /\ todo[p] = <<Growth, Stack>>
           /\ pte[<<p, Growth>>] = NULL /\ pte[<<p, Stack>>] = NULL
        \/ todo[p] = <<Growth>> /\ pte[<<p, Growth>>] = NULL
        \/ todo[p] = <<Stack>> /\ pte[<<p, Stack>>] = NULL
    BY <1>1 DEF IInv, Todos
  <2>2. <<p, Stack>> \in entry
    BY <1>1 DEF IInv, Todos
  <2>3. c \in Page /\ c = <<p, Head(todo[p])>>
    BY <1>1, CurrentFacts
  <2>4. todo[p] \in Seq(Growth..MaxSegments) /\ todo[p] # <<>>
    BY <1>1, CurrentFacts DEF IInv, TypeOK
  <2>5. Tail(todo[p]) \in Seq(Growth..MaxSegments)
    BY <2>4, HeadTailProperties
  <2>6. Head(todo[p]) = Growth \/ Head(todo[p]) = Stack
    BY <2>1
  <2>7. pte[<<p, Head(todo[p])>>] = NULL
    BY <2>1
  <2>8. ASSUME ~ last
        PROVE  Tail(todo[p]) = <<Stack>> /\ pte[<<p, Stack>>] = NULL /\ Head(todo[p]) = Growth
    <3>1. todo[p] # <<Growth>> /\ todo[p] # <<Stack>>
      BY <2>8
    <3>2. todo[p] = <<Growth, Stack>> /\ pte[<<p, Stack>>] = NULL
      BY <3>1, <2>1
    <3>3. Head(<<Growth, Stack>>) = Growth /\ Tail(<<Growth, Stack>>) = <<Stack>>
      OBVIOUS
    <3> QED BY <3>2, <3>3
  <2> QED BY <2>2, <2>3, <2>5, <2>6, <2>7, <2>8
<1>3. /\ f \in scenario.frames /\ f \in Frame /\ f # NULL /\ f \notin free
      /\ \A pg \in Page : pte[pg] # f
      /\ \A e \in Listed : e.page \in entry /\ pte[e.page] = e.frame /\ swapI[e.page] = NoSlot
  BY <1>1, GotFacts
<1>4. /\ pte' = [pte EXCEPT ![c] = f]
      /\ mem' = [mem EXCEPT ![f] = Zeros]
      /\ kpage' = [kpage EXCEPT ![p] = NULL]
      /\ todo' = [todo EXCEPT ![p] = Tail(@)]
      /\ pc' = [pc EXCEPT ![p] = IF last THEN "run" ELSE "get"]
      /\ job' = [job EXCEPT ![p] = IF last THEN "none" ELSE "grow"]
  <2>1. CASE last
    BY <2>1, <1>2 DEF GrowthMaps, Goto
  <2>2. CASE ~ last
    <3>1. job' = job /\ job = [job EXCEPT ![p] = "grow"]
      BY <2>2, <1>1, <1>2 DEF GrowthMaps, IInv, TypeOK
    <3> QED BY <3>1, <2>2, <1>2 DEF GrowthMaps, Goto
  <2> QED BY <2>1, <2>2
<1>5. /\ UNCHANGED <<scenario, tables, free, disk, pageLock, victim, slot, latest>>
      /\ lost' = IF c \in entry THEN lost \union {c} ELSE lost
  BY DEF GrowthMaps
<1> HIDE DEF c, f, last
<1>6. /\ \A pg \in Page : pte'[pg] = IF pg = c THEN f ELSE pte[pg]
      /\ \A g \in Frame : mem'[g] = IF g = f THEN Zeros ELSE mem[g]
      /\ pte' \in [Page -> Frame \union {NULL}] /\ mem' \in [Frame -> Contents]
  <2>1. Zeros \in Contents
    BY DEF Contents
  <2> QED BY <2>1, <1>2, <1>3, <1>4 DEF IInv, TypeOK
<1>7. \A r \in Proc : r # p => pc[r] \in {"new", "exec"} /\ job[r] = "none"
  BY <1>1 DEF IInv, Turns, Calls, Busy
<1>8. /\ \A r \in Proc : r # p => pc'[r] = pc[r] /\ job'[r] = job[r] /\ todo'[r] = todo[r]
      /\ pc'[p] = IF last THEN "run" ELSE "get"
      /\ job'[p] = IF last THEN "none" ELSE "grow"
      /\ todo'[p] = Tail(todo[p])
      /\ \A r \in Proc : kpage'[r] = IF r = p THEN NULL ELSE kpage[r]
  BY <1>4 DEF IInv, TypeOK
<1>9. \A r \in Proc : kpage'[r] = NULL
  BY <1>7, <1>8 DEF IInv, Holds, Holding
<1>10. TypeOK'
  <2>1. /\ pc' \in [Proc -> Labels] /\ job' \in [Proc -> Jobs]
        /\ kpage' \in [Proc -> Frame \union {NULL}]
        /\ todo' \in [Proc -> Seq(Growth..MaxSegments)]
    BY <1>2, <1>4 DEF IInv, TypeOK, Labels, Jobs
  <2>2. lost' \subseteq Page
    BY <1>2, <1>5 DEF IInv, TypeOK
  <2> QED BY <2>1, <2>2, <1>5, <1>6 DEF IInv, TypeOK, tables
<1>11. Turns'
  <2>1. pageLock'.value \in 0..1
    BY <1>5 DEF IInv, Turns
  <2>2. \A r \in Proc : r # p => pc'[r] \in {"new", "exec"}
    BY <1>7, <1>8
  <2>3. job'[p] # "fault"
    BY <1>8
  <2> QED BY <2>1, <2>2, <2>3 DEF Turns, Busy
<1>12. Calls'
  BY <1>1, <1>5, <1>7, <1>8, FramesAssumption DEF IInv, Calls
<1>13. Todos'
  <2>1. ASSUME ~ last PROVE todo'[p] = <<Stack>> /\ pte'[<<p, Stack>>] = NULL
    <3>1. <<p, Stack>> \in Page /\ <<p, Stack>> # c
      BY <2>1, <1>2, ScenarioFacts DEF IInv, Page, Stack, Growth
    <3> QED BY <3>1, <2>1, <1>2, <1>6, <1>8
  <2>2. job[p] # "load" /\ <<p, Stack>> \in entry
    BY <1>1 DEF IInv, Todos
  <2>3. ASSUME NEW r \in Proc
        PROVE  /\ pc'[r] = "new" => \A v \in Growth..MaxSegments : <<r, v>> \notin entry
               /\ pc'[r] # "new" => <<r, Stack>> \in entry
               /\ job'[r] \notin {"load", "fault"}
               /\ job'[r] = "grow" => r = p /\ ~ last
    BY <2>2, <1>1, <1>7, <1>8 DEF IInv, Todos
  <2> QED BY <2>1, <2>3, <1>5 DEF Todos, tables
<1>14. \A r \in Proc : /\ pc[r] \notin {"write", "mark", "clear", "read", "swap_in", "map"}
                       /\ pc'[r] \notin {"pick", "write", "mark", "clear", "again"} \cup Holding
  BY <1>1, <1>7, <1>8 DEF Holding
<1>15. Holds'
  BY <1>9, <1>14 DEF Holds, Holding
<1>16. Pages'
  <2>1. ASSUME NEW g \in scenario.frames
        PROVE  g \in free \/ (\E pg \in Page : pte'[pg] = g) \/ (\E r \in Proc : kpage'[r] = g)
    <3>1. g \in free \/ (\E pg \in Page : pte[pg] = g) \/ (\E r \in Proc : kpage[r] = g)
      BY DEF IInv, Pages
    <3>2. g # NULL
      BY ScenarioFacts DEF IInv
    <3>3. \A r \in Proc : kpage[r] = g => r = p
      BY <3>2, <1>7 DEF IInv, Holds, Holding
    <3> QED BY <3>1, <3>2, <3>3, <1>2, <1>6 DEF f
  <2>2. ASSUME NEW pg \in Page
        PROVE  /\ pte'[pg] # NULL =>
                     /\ pg \in entry \/ (pg[2] = Growth /\ pg[1] \in scenario.grows)
                     /\ pte'[pg] \in scenario.frames /\ pte'[pg] \notin free
               /\ pad[pg] # NULL => pad[pg] = pte'[pg]
    BY <1>1, <1>2, <1>3, <1>6 DEF IInv, Pages
  <2>3. \A x, y \in Page : pte'[x] # NULL /\ pte'[x] = pte'[y] => x = y
    BY <1>3, <1>6 DEF IInv, Pages
  <2> QED BY <2>1, <2>2, <2>3, <1>5 DEF IInv, Pages, tables
<1>17. \A pg \in entry : pg[2] # Growth /\ pg \in Page
  BY DEF IInv, TypeOK, Pages, Stack, Growth
<1>18. Slots'
  <2>1. ASSUME NEW pg \in Page, swapI[pg] # NoSlot, pte'[pg] # NULL
        PROVE  pg[2] = Stack /\ pg[1] \in scenario.grows
    <3>1. pg \in entry
      BY <2>1 DEF IInv, Slots
    <3>2. CASE pg = c
      BY <3>1, <3>2, <1>1, <1>2, <1>17
    <3>3. CASE pg # c
      BY <3>3, <2>1, <1>6, <1>14 DEF IInv, Slots
    <3> QED BY <3>2, <3>3
  <2>2. \A pg \in entry : pte'[pg] = NULL => swapI[pg] # NoSlot
    BY <1>3, <1>6, <1>17 DEF IInv, Slots
  <2> QED BY <2>1, <2>2, <1>5 DEF IInv, Slots, tables
<1>19. Table'
  <2>1. ASSUME NEW e \in Listed
        PROVE  e.page \in entry /\ pte'[e.page] = e.frame /\ swapI[e.page] = NoSlot
    <3>1. e.page \in entry /\ pte[e.page] = e.frame /\ swapI[e.page] = NoSlot /\ e.frame \in Frame
      <4>1. frame_table \in Seq([page : Page, frame : Frame])
        BY DEF IInv, TypeOK
      <4>2. PICK i \in DOMAIN frame_table : e = frame_table[i]
        BY DEF Listed, ToSet
      <4> DEFINE S == [page : Page, frame : Frame]
      <4>3. e \in S => e.frame \in Frame
        OBVIOUS
      <4>4. frame_table \in Seq(S)
        BY <4>1
      <4> HIDE DEF S
      <4>5. e \in S
        BY <4>2, <4>4
      <4> QED BY <4>3, <4>5, <1>3
    <3>2. e.page \in Page /\ e.page # c
      BY <3>1, <1>2, <1>17, ScenarioFacts DEF IInv
    <3> QED BY <3>1, <3>2, <1>6
  <2>2. ASSUME NEW pg \in entry, pte'[pg] # NULL
        PROVE  \/ [page |-> pg, frame |-> pte'[pg]] \in Listed
               \/ pg[2] = Stack /\ pg[1] \in scenario.grows
    <3>1. CASE pg = c
      BY <3>1, <1>1, <1>2, <1>17
    <3>2. CASE pg # c
      <4>1. pg \in Page /\ pte'[pg] = pte[pg]
        BY <3>2, <1>6, <1>17
      <4> QED BY <4>1, <2>2, <1>14 DEF IInv, Table
    <3> QED BY <3>1, <3>2
  <2> QED BY <2>1, <2>2, <1>5, <1>14 DEF IInv, Table, Listed, Holding, tables
<1>20. Victims'
  BY <1>14 DEF Victims
<1>21. Data'
  <2>1. ASSUME NEW pg \in entry, pg \notin lost'
        PROVE  /\ pte'[pg] # NULL => mem'[pte'[pg]] = latest[pg]
               /\ pte'[pg] = NULL => disk[swapI[pg]] = latest[pg]
    <3>1. /\ pg \in Page /\ pg # c /\ pg \notin lost
          /\ pte'[pg] = pte[pg]
      BY <2>1, <1>5, <1>6, <1>17
    <3>2. pte[pg] # NULL => pte[pg] # f /\ pte[pg] \in Frame
      BY <3>1, <1>3 DEF IInv, TypeOK
    <3> QED BY <3>1, <3>2, <2>1, <1>6 DEF IInv, Data
  <2> QED BY <2>1, <1>5, <1>14 DEF Data, Holding, tables
<1> QED BY <1>10, <1>11, <1>12, <1>13, <1>15, <1>16, <1>18, <1>19, <1>20, <1>21 DEF IInv

\* swapIn frees the slot and handleMMFault maps the page.
LEMMA MapsInStep ==
    ASSUME IInv, NEW p \in Proc, MapsIn(p)
    PROVE  IInv'
<1> DEFINE c == Current(p)
           f == kpage[p]
           s == swapI[c]
<1>1. pc[p] = "map" /\ job[p] = "fault"
  BY DEF MapsIn, At, IInv, Calls
<1>2. /\ c \in Page /\ c \in entry /\ pte[c] = NULL /\ pad[c] = NULL
      /\ s # NoSlot /\ s \in used_slots /\ s \in Slot
  BY <1>1, FaultFacts, CurrentFacts DEF IInv, TypeOK, Slots
<1>3. /\ f \in scenario.frames /\ f \in Frame /\ f # NULL /\ f \notin free
      /\ \A pg \in Page : pte[pg] # f
      /\ mem[f] = disk[s]
  BY <1>1, ScenarioFacts DEF IInv, Holds, Holding, Data
<1>4. /\ used_slots' = used_slots \ {s}
      /\ disk' = [disk EXCEPT ![s] = Junk]
      /\ swapI' = [swapI EXCEPT ![c] = NoSlot]
      /\ pte' = [pte EXCEPT ![c] = f]
      /\ pad' = [pad EXCEPT ![c] = f]
      /\ pc' = [pc EXCEPT ![p] = "unlock"]
  BY DEF MapsIn, Goto
<1>5. UNCHANGED <<scenario, entry, frame_table, free, mem, pageLock, locals, ghosts>>
  BY DEF MapsIn
<1>6. \A r \in Proc : pc'[r] = IF r = p THEN "unlock" ELSE pc[r]
  BY <1>4 DEF IInv, TypeOK
<1>7. \A r \in Proc : r # p => pc[r] \notin Busy /\ pc'[r] \notin Busy
  BY <1>1, <1>6, Alone DEF Busy
<1>8. NewFrame(p) \in Listed /\ NewFrame(p) = [page |-> c, frame |-> f] /\ Current(p)' = c
  BY <1>1, <1>5 DEF IInv, Table, NewFrame, Current, locals
<1> HIDE DEF c, f, s
<1>9. /\ \A pg \in Page : /\ pte'[pg] = IF pg = c THEN f ELSE pte[pg]
                          /\ pad'[pg] = IF pg = c THEN f ELSE pad[pg]
                          /\ swapI'[pg] = IF pg = c THEN NoSlot ELSE swapI[pg]
      /\ \A t \in Slot : t # s => disk'[t] = disk[t]
  BY <1>2, <1>4 DEF IInv, TypeOK
<1>10. \A pg \in Page : swapI[pg] = s => pg = c
  BY <1>2 DEF IInv, Slots, s
<1>11. TypeOK'
  <2>1. /\ disk' \in [Slot -> Contents] /\ pte' \in [Page -> Frame \union {NULL}]
        /\ pad' \in [Page -> Frame \union {NULL}] /\ swapI' \in [Page -> Slot \union {NoSlot}]
        /\ used_slots' \subseteq Slot /\ pc' \in [Proc -> Labels]
    BY <1>2, <1>3, <1>4 DEF IInv, TypeOK, Contents, Labels
  <2> QED BY <2>1, <1>5 DEF IInv, TypeOK, locals, ghosts
<1>12. Turns'
  BY <1>1, <1>5, <1>6, <1>7 DEF IInv, Turns, Busy, locals
<1>13. Calls'
  BY <1>1, <1>5, <1>6, FramesAssumption DEF IInv, Calls, locals
<1>14. \A r \in Proc : r # p => job[r] \in {"none", "fault"}
  BY <1>7 DEF IInv, TypeOK, Jobs, Labels, Calls, Busy
<1>15. Todos'
  <2>1. PICK v \in Growth..MaxSegments : todo[p] = <<v>> /\ <<p, v>> \in entry
    BY <1>1 DEF IInv, Todos
  <2>2. ASSUME NEW r \in Proc, r # p, job[r] = "fault"
        PROVE  \E w \in Growth..MaxSegments :
                  /\ todo[r] = <<w>> /\ <<r, w>> \in entry
                  /\ pc'[r] # "unlock" => pte'[<<r, w>>] = NULL
    <3>1. PICK w \in Growth..MaxSegments :
              /\ todo[r] = <<w>> /\ <<r, w>> \in entry
              /\ pc[r] # "unlock" => pte[<<r, w>>] = NULL
      BY <2>2 DEF IInv, Todos
    <3>2. <<r, w>> \in Page /\ <<r, w>> # c /\ pc[r] # "unlock"
      BY <2>2, <1>7 DEF Page, Current, c, Busy
    <3> QED BY <3>1, <3>2, <1>6, <1>9
  <2>3. ASSUME NEW r \in Proc
        PROVE  /\ pc'[r] = "new" => \A w \in Growth..MaxSegments : <<r, w>> \notin entry
               /\ job[r] # "load" /\ pc'[r] # "new" => <<r, Stack>> \in entry
    BY <1>1, <1>6 DEF IInv, Todos
  <2> QED BY <2>1, <2>2, <2>3, <1>1, <1>5, <1>6, <1>14 DEF Todos, locals
<1>16. Holds'
  <2>1. pte'[c] = f
    BY <1>2, <1>9
  <2>2. kpage'[p] = f /\ pte'[Current(p)'] = kpage'[p]
    BY <2>1, <1>5, <1>8 DEF f, locals
  <2>3. ASSUME NEW r \in Proc
        PROVE  /\ kpage[r] # NULL <=> pc'[r] \in Holding
               /\ kpage[r] # NULL => r = p /\ kpage[r] \in scenario.frames /\ kpage[r] \notin free
               /\ pc'[r] \in {"unlock", "pick", "again"} => r = p
               /\ pc'[p] = "unlock"
    BY <1>1, <1>3, <1>6, <1>7 DEF IInv, Holds, Holding, Busy, f
  <2> QED BY <2>2, <2>3, <1>5 DEF Holds, locals
<1>17. Pages'
  <2>1. ASSUME NEW g \in scenario.frames
        PROVE  g \in free \/ (\E pg \in Page : pte'[pg] = g) \/ (\E r \in Proc : kpage[r] = g)
    <3>1. g \in free \/ (\E pg \in Page : pte[pg] = g) \/ (\E r \in Proc : kpage[r] = g)
      BY DEF IInv, Pages
    <3>2. g # NULL
      BY ScenarioFacts DEF IInv
    <3> QED BY <3>1, <3>2, <1>2, <1>9
  <2>2. ASSUME NEW pg \in Page
        PROVE  /\ pte'[pg] # NULL =>
                     /\ pg \in entry \/ (pg[2] = Growth /\ pg[1] \in scenario.grows)
                     /\ pte'[pg] \in scenario.frames /\ pte'[pg] \notin free
               /\ pad'[pg] # NULL => pad'[pg] = pte'[pg]
    BY <1>2, <1>3, <1>9 DEF IInv, Pages
  <2>3. \A x, y \in Page : pte'[x] # NULL /\ pte'[x] = pte'[y] => x = y
    BY <1>3, <1>9 DEF IInv, Pages
  <2> QED BY <2>1, <2>2, <2>3, <1>5 DEF IInv, Pages, locals
<1>18. \A r \in Proc : /\ pc[r] \notin {"write", "mark", "clear"}
                       /\ pc'[r] \notin {"write", "mark", "clear", "read", "swap_in", "map"}
                       /\ pc[r] \in {"read", "swap_in", "map"} => r = p
  BY <1>1, <1>6, <1>7 DEF Busy
<1>19. Slots'
  <2>1. ASSUME NEW pg \in Page, swapI'[pg] # NoSlot
        PROVE  /\ pg \in entry /\ swapI'[pg] \in used_slots' /\ pad'[pg] = NULL
               /\ pte'[pg] # NULL => pg[2] = Stack /\ pg[1] \in scenario.grows
    <3>1. pg # c /\ swapI'[pg] = swapI[pg] /\ pad'[pg] = pad[pg] /\ pte'[pg] = pte[pg]
      BY <2>1, <1>9
    <3> QED BY <3>1, <2>1, <1>4, <1>10, <1>18 DEF IInv, Slots
  <2>2. ASSUME NEW pg \in entry, pte'[pg] = NULL PROVE swapI'[pg] # NoSlot
    <3>1. pg \in Page /\ pg # c
      BY <2>2, <1>3, <1>9 DEF IInv, TypeOK
    <3> QED BY <3>1, <2>2, <1>9 DEF IInv, Slots
  <2>3. ASSUME NEW t \in used_slots' PROVE \E pg \in Page : swapI'[pg] = t
    <3>1. PICK pg \in Page : swapI[pg] = t
      BY <1>4 DEF IInv, Slots
    <3>2. pg # c
      BY <3>1, <1>4 DEF s
    <3> QED BY <3>1, <3>2, <1>9
  <2>4. \A x, y \in Page : swapI'[x] # NoSlot /\ swapI'[x] = swapI'[y] => x = y
    BY <1>9 DEF IInv, Slots
  <2>5. used_slots' \subseteq scenario.slots
    BY <1>4 DEF IInv, Slots
  <2> QED BY <2>1, <2>2, <2>3, <2>4, <2>5, <1>5 DEF Slots
<1>20. Table'
  <2>1. ASSUME NEW e \in Listed
        PROVE  e.page \in entry /\ pte'[e.page] = e.frame /\ swapI'[e.page] = NoSlot
    <3>1. CASE e.page \in entry /\ pte[e.page] = e.frame /\ swapI[e.page] = NoSlot
      <4>1. e.page \in Page /\ e.page # c
        BY <3>1, <1>2 DEF IInv, TypeOK, s
      <4> QED BY <4>1, <3>1, <1>9
    <3>2. CASE InFlight(e)
      <4>1. e = NewFrame(p)
        BY <3>2, <1>18 DEF InFlight
      <4> QED BY <4>1, <1>2, <1>8, <1>9
    <3> QED BY <3>1, <3>2 DEF IInv, Table
  <2>2. ASSUME NEW pg \in entry, pte'[pg] # NULL
        PROVE  \/ [page |-> pg, frame |-> pte'[pg]] \in Listed
               \/ pg[2] = Stack /\ pg[1] \in scenario.grows
    <3>1. CASE pg = c
      BY <3>1, <1>2, <1>8, <1>9
    <3>2. CASE pg # c
      <4>1. pg \in Page /\ pte'[pg] = pte[pg]
        BY <3>2, <1>9 DEF IInv, TypeOK
      <4> QED BY <4>1, <2>2, <1>18 DEF IInv, Table
    <3> QED BY <3>1, <3>2
  <2> QED BY <2>1, <2>2, <1>5, <1>18 DEF IInv, Table, Listed
<1>21. Victims'
  BY <1>18 DEF Victims
<1>22. Data'
  <2>1. ASSUME NEW pg \in entry, pg \notin lost
        PROVE  /\ pte'[pg] # NULL => mem[pte'[pg]] = latest[pg]
               /\ pte'[pg] = NULL => disk'[swapI'[pg]] = latest[pg]
    <3>1. pg \in Page
      BY DEF IInv, TypeOK
    <3>2. CASE pg = c
      <4>1. disk[s] = latest[pg]
        BY <3>2, <2>1, <1>2 DEF IInv, Data, s
      <4> QED BY <4>1, <3>1, <3>2, <1>3, <1>9
    <3>3. CASE pg # c
      <4>1. pte'[pg] = pte[pg] /\ swapI'[pg] = swapI[pg] /\ swapI[pg] # s
        BY <3>1, <3>3, <1>9, <1>10
      <4>2. pte[pg] = NULL => swapI[pg] \in Slot
        BY <3>1 DEF IInv, TypeOK, Slots
      <4> QED BY <4>1, <4>2, <2>1, <1>9 DEF IInv, Data
    <3> QED BY <3>2, <3>3
  <2> QED BY <2>1, <1>5, <1>18 DEF Data, ghosts
<1> QED BY <1>11, <1>12, <1>13, <1>15, <1>16, <1>17, <1>19, <1>20, <1>21, <1>22 DEF IInv

LEMMA UnlockStep ==
    ASSUME IInv, NEW p \in Proc, Unlock(p)
    PROVE  IInv'
<1>1. pc[p] = "unlock" /\ job[p] = "fault"
  BY DEF Unlock, At, IInv, Calls
<1>2. /\ pageLock' = Raised(pageLock)
      /\ job' = [job EXCEPT ![p] = "none"]
      /\ todo' = [todo EXCEPT ![p] = <<>>]
      /\ kpage' = [kpage EXCEPT ![p] = NULL]
      /\ pc' = [pc EXCEPT ![p] = "run"]
  BY DEF Unlock, Goto
<1>3. UNCHANGED <<scenario, pte, tables, free, mem, disk, victim, slot, ghosts>>
  BY DEF Unlock
<1>4. \A r \in Proc : /\ pc'[r] = IF r = p THEN "run" ELSE pc[r]
                      /\ job'[r] = IF r = p THEN "none" ELSE job[r]
                      /\ todo'[r] = IF r = p THEN <<>> ELSE todo[r]
                      /\ kpage'[r] = IF r = p THEN NULL ELSE kpage[r]
  BY <1>2 DEF IInv, TypeOK
<1>5. \A r \in Proc : r # p => pc[r] \notin Busy
  BY <1>1, Alone DEF Busy
<1>6. pageLock' \in Semaphores(Proc) /\ pageLock'.value = 1
  <2>1. pageLock \in Semaphores(Proc) /\ pageLock.value = 0
    BY <1>1 DEF IInv, TypeOK, Turns, Busy
  <2>2. pageLock.waiters \in Seq(Proc)
    BY <2>1 DEF Semaphores
  <2>3. pageLock.waiters # <<>> => Tail(pageLock.waiters) \in Seq(Proc)
    BY <2>2, HeadTailProperties
  <2> QED BY <2>1, <2>2, <2>3, <1>2 DEF Semaphores, Raised
<1>7. TypeOK'
  <2>1. /\ pc' \in [Proc -> Labels] /\ job' \in [Proc -> Jobs]
        /\ todo' \in [Proc -> Seq(Growth..MaxSegments)]
        /\ kpage' \in [Proc -> Frame \union {NULL}]
    BY <1>2 DEF IInv, TypeOK, Labels, Jobs
  <2> QED BY <2>1, <1>3, <1>6 DEF IInv, TypeOK, tables, ghosts
<1>8. Turns'
  <2>1. \A r \in Proc : pc'[r] \notin Busy
    BY <1>4, <1>5 DEF Busy
  <2> QED BY <2>1, <1>6 DEF Turns
<1>9. Calls'
  BY <1>1, <1>3, <1>4, FramesAssumption DEF IInv, Calls
<1>10. Todos'
  <2>1. \A r \in Proc : r # p /\ Loading(r) => Loading(r)'
    BY <1>3, <1>4 DEF Loading, tables
  <2>2. <<p, Stack>> \in entry
    BY <1>1 DEF IInv, Todos
  <2> QED BY <2>1, <2>2, <1>3, <1>4 DEF IInv, Todos, tables
<1>11. \A r \in Proc : /\ pc[r] \notin {"write", "mark", "clear", "read", "swap_in", "map"}
                       /\ pc'[r] \notin {"pick", "write", "mark", "clear", "again"} \cup Holding
                       /\ kpage'[r] = NULL
  <2>1. \A r \in Proc : r # p => kpage[r] = NULL /\ pc[r] \notin Holding
    BY <1>5 DEF IInv, Holds, Holding, Busy
  <2> QED BY <2>1, <1>1, <1>4, <1>5 DEF Busy, Holding
<1>12. Holds'
  BY <1>11 DEF Holds, Holding
<1>13. Pages'
  <2>1. ASSUME NEW g \in scenario.frames
        PROVE  g \in free \/ (\E pg \in Page : pte[pg] = g)
    <3>1. g \in free \/ (\E pg \in Page : pte[pg] = g) \/ (\E r \in Proc : kpage[r] = g)
      BY DEF IInv, Pages
    <3>2. g # NULL
      BY ScenarioFacts DEF IInv
    <3>3. \A r \in Proc : kpage[r] = g => r = p
      BY <3>2, <1>5 DEF IInv, Holds, Holding, Busy
    <3>4. Current(p) \in Page /\ pte[Current(p)] = kpage[p]
      BY <1>1, CurrentFacts DEF IInv, Holds
    <3> QED BY <3>1, <3>3, <3>4
  <2> QED BY <2>1, <1>3 DEF IInv, Pages, tables
<1>14. Slots'
  BY <1>3, <1>11 DEF IInv, Slots, tables
<1>15. Table'
  <2>1. \A e : ~ InFlight(e) /\ ~ InFlight(e)'
    BY <1>11 DEF InFlight, Holding
  <2> QED BY <2>1, <1>3, <1>11 DEF IInv, Table, Listed, Holding, tables
<1>16. Victims' /\ Data'
  BY <1>3, <1>11 DEF IInv, Victims, Data, Holding, tables, ghosts
<1> QED BY <1>7, <1>8, <1>9, <1>10, <1>12, <1>13, <1>14, <1>15, <1>16 DEF IInv

----------------------------------------------------------------------------
(* swapOut finds a slot.                                                   *)

\* What has an owner each is no more than there are owners.
LEMMA OwnersCount ==
    ASSUME NEW S, NEW T, IsFiniteSet(T), NEW own, \A s \in S : \E t \in T : own[t] = s
    PROVE  IsFiniteSet(S) /\ Cardinality(S) <= Cardinality(T)
<1> DEFINE g == [s \in S |-> CHOOSE t \in T : own[t] = s]
<1>1. \A s \in S : g[s] \in T /\ own[g[s]] = s
  OBVIOUS
<1>2. g \in [S -> T]
  BY <1>1
<1>3. \A a, b \in S : g[a] = g[b] => a = b
  BY <1>1
<1> HIDE DEF g
<1>4. g \in Injection(S, T)
  BY <1>2, <1>3 DEF Injection, IsInjective
<1> QED BY <1>4, FS_Injection

\* While a victim is picked no frame is free, so every frame is mapped; the
\* slots in use are those of pages with an entry, and a page is both mapped and
\* has a slot only where stackGrowth has mapped the top of the stack again.
LEMMA SlotFound ==
    ASSUME IInv, EvictsAlone(scenario), EnoughSwap(scenario), NEW p \in Proc, pc[p] = "pick"
    PROVE  scenario.slots \ used_slots # {}
<1> DEFINE A == scenario.runs \X (Stack..scenario.segments)
           U == {pg \in Page : swapI[pg] # NoSlot}
           M == {pg \in Page : pte[pg] # NULL}
           grow == scenario.grows # {}
           G == IF grow THEN {<<First, Growth>>} ELSE {}
           D == IF grow THEN {<<First, Stack>>} ELSE {}
<1>1. IsFiniteSet(A)
  <2>1. PICK c \in Proc : scenario.runs \subseteq {First} \cup {c}
    BY FramesAssumption DEF EvictsAlone
  <2>2. IsFiniteSet({First} \cup {c})
    BY FS_Singleton, FS_AddElement
  <2>3. IsFiniteSet(scenario.runs)
    BY <2>1, <2>2, FS_Subset
  <2>4. IsFiniteSet(Stack..scenario.segments)
    BY ScenarioFacts, FS_Interval DEF IInv, Stack
  <2> QED BY <2>3, <2>4, FS_Product
<1>2. IsFiniteSet(G) /\ IsFiniteSet(D)
      /\ Cardinality(G) = (IF grow THEN 1 ELSE 0) /\ Cardinality(D) = (IF grow THEN 1 ELSE 0)
  BY FS_Singleton, FS_EmptySet
<1>3. \A q \in scenario.grows : q = First
  BY ScenarioFacts DEF IInv, EvictsAlone
<1>4. entry \subseteq A
  BY DEF IInv, TypeOK, Pages, Page
<1>5. U \subseteq A
  BY <1>4 DEF IInv, Slots
<1>6. M \subseteq A \cup G
  <2> SUFFICES ASSUME NEW pg \in M, pg \notin entry PROVE pg \in G
    BY <1>4
  <2>1. pg[2] = Growth /\ pg[1] \in scenario.grows
    BY DEF IInv, Pages
  <2>2. pg = <<pg[1], pg[2]>>
    BY DEF Page
  <2> QED BY <2>1, <2>2, <1>3
<1>7. U \cap M \subseteq D
  <2> SUFFICES ASSUME NEW pg \in U \cap M PROVE pg \in D
    OBVIOUS
  <2>1. \A r \in Proc : pc[r] # "clear"
    BY Alone DEF Busy
  <2>2. pg[2] = Stack /\ pg[1] \in scenario.grows
    BY <2>1 DEF IInv, Slots
  <2>3. pg = <<pg[1], pg[2]>>
    BY DEF Page
  <2> QED BY <2>2, <2>3, <1>3
<1>8. \A f \in scenario.frames : \E pg \in M : pte[pg] = f
  <2> SUFFICES ASSUME NEW f \in scenario.frames PROVE \E pg \in M : pte[pg] = f
    OBVIOUS
  <2>1. f # NULL /\ f \notin free
    BY ScenarioFacts DEF IInv, Holds
  <2>2. \A r \in Proc : kpage[r] = NULL
    BY Alone DEF IInv, Holds, Holding, Busy
  <2>3. \E pg \in Page : pte[pg] = f
    BY <2>1, <2>2 DEF IInv, Pages
  <2> QED BY <2>1, <2>3
<1>9. \A s \in used_slots : \E pg \in U : swapI[pg] = s
  BY ScenarioFacts DEF IInv, TypeOK, Slots
<1> HIDE DEF A, U, M, G, D, grow
<1>10. IsFiniteSet(U) /\ IsFiniteSet(A \cup G) /\ Cardinality(A \cup G) <= Cardinality(A) + Cardinality(G)
  <2>1. IsFiniteSet(A \cup G) /\ Cardinality(A \cup G) = Cardinality(A) + Cardinality(G) - Cardinality(A \cap G)
    BY <1>1, <1>2, FS_Union
  <2>2. IsFiniteSet(A \cap G)
    BY <1>1, FS_Intersection
  <2>3. Cardinality(A) \in Nat /\ Cardinality(G) \in Nat /\ Cardinality(A \cap G) \in Nat
    BY <1>1, <1>2, <2>2, FS_CardinalityType
  <2> QED BY <2>1, <2>3, <1>1, <1>5, FS_Subset
<1>11. IsFiniteSet(M)
  BY <1>6, <1>10, FS_Subset
<1>12. Cardinality(U) + Cardinality(M) <= Cardinality(A) + Cardinality(G) + Cardinality(D)
  <2>1. IsFiniteSet(U \cup M)
        /\ Cardinality(U \cup M) = Cardinality(U) + Cardinality(M) - Cardinality(U \cap M)
    BY <1>10, <1>11, FS_Union
  <2>2. Cardinality(U \cap M) <= Cardinality(D) /\ IsFiniteSet(U \cap M)
    BY <1>2, <1>7, FS_Subset
  <2>3. Cardinality(U \cup M) <= Cardinality(A \cup G)
    BY <1>5, <1>6, <1>10, FS_Subset
  <2>4. /\ Cardinality(U) \in Nat /\ Cardinality(M) \in Nat /\ Cardinality(U \cap M) \in Nat
        /\ Cardinality(U \cup M) \in Nat /\ Cardinality(A \cup G) \in Nat
        /\ Cardinality(A) \in Nat /\ Cardinality(G) \in Nat /\ Cardinality(D) \in Nat
    BY <2>1, <2>2, <1>1, <1>2, <1>10, <1>11, FS_CardinalityType
  <2> QED BY <2>1, <2>2, <2>3, <2>4, <1>10
<1>13. Cardinality(scenario.frames) <= Cardinality(M)
  BY <1>8, <1>11, OwnersCount
<1>14. IsFiniteSet(used_slots) /\ Cardinality(used_slots) <= Cardinality(U)
  BY <1>9, <1>10, OwnersCount
<1>15. /\ IsFiniteSet(scenario.slots) /\ Cardinality(scenario.slots) \in Nat
       /\ Cardinality(scenario.frames) \in Nat /\ Cardinality(used_slots) \in Nat
       /\ Cardinality(U) \in Nat /\ Cardinality(M) \in Nat /\ Cardinality(A) \in Nat
  BY ScenarioFacts, <1>1, <1>10, <1>11, <1>14, FS_CardinalityType DEF IInv
<1>16. Cardinality(scenario.frames) + Cardinality(scenario.slots) > Cardinality(A) + (IF grow THEN 2 ELSE 0)
  BY <1>15 DEF EnoughSwap, A, grow
<1>17. Cardinality(used_slots) < Cardinality(scenario.slots)
  BY <1>2, <1>12, <1>13, <1>14, <1>15, <1>16
<1>18. ASSUME scenario.slots \subseteq used_slots PROVE FALSE
  <2>1. Cardinality(scenario.slots) <= Cardinality(used_slots)
    BY <1>18, <1>14, FS_Subset
  <2> QED BY <2>1, <1>15, <1>17
<1> QED BY <1>18

----------------------------------------------------------------------------
(* The theorems.                                                           *)

LEMMA InitInvariant ==
    ASSUME Init
    PROVE  IInv
<1>1. scenario \in Scenarios
  BY DEF Init
<1>2. /\ First \in Proc /\ First \in scenario.runs /\ scenario.segments \in 1..MaxSegments
      /\ MaxSegments \in Nat \ {0} /\ NoSlot \notin Slot /\ NULL \notin Frame
      /\ scenario.frames \subseteq Frame
  BY <1>1, FramesAssumption DEF NoSlot
<1>3. Program(scenario) \in Seq(Growth..MaxSegments)
  <2>1. \A i \in 1..(scenario.segments + 1) :
            (IF i <= scenario.segments THEN i ELSE Stack) \in Growth..MaxSegments
    BY <1>2 DEF Growth, Stack
  <2>2. Program(scenario) \in [1..(scenario.segments + 1) -> Growth..MaxSegments]
    BY <2>1 DEF Program
  <2>3. scenario.segments + 1 \in Nat
    BY <1>2
  <2> QED BY <2>2, <2>3, FunctionIsSeq
<1>4. TypeOK
  <2>1. pc \in [Proc -> Labels] /\ job \in [Proc -> Jobs]
    BY DEF Init, Labels, Jobs
  <2>3. todo \in [Proc -> Seq(Growth..MaxSegments)]
    <3> DEFINE S == Growth..MaxSegments
    <3>1. Program(scenario) \in Seq(S)
      BY <1>3
    <3> HIDE DEF S
    <3>2. todo \in [Proc -> Seq(S)]
      BY <3>1 DEF Init
    <3> QED BY <3>2 DEF S
  <2>2. pageLock \in Semaphores(Proc)
    BY DEF Init, NewSema, Semaphores
  <2> QED BY <2>1, <2>2, <2>3, <1>2 DEF Init, TypeOK, Contents
<1>5. Turns /\ Calls
  BY <1>2 DEF Init, Turns, Calls, Busy, NewSema
<1>6. Todos
  <2>1. Loading(First)
    <3>1. 0 \in 0..scenario.segments /\ Program(scenario) = Rest(scenario, 0)
      BY <1>2, <1>4, RestFacts
    <3>2. todo[First] = Program(scenario) /\ pc[First] = "get"
      BY <1>2 DEF Init
    <3>3. \A v : v \notin 1..0
      OBVIOUS
    <3> QED BY <3>1, <3>2, <3>3 DEF Init, Loading
  <2> QED BY <2>1 DEF Init, Todos
<1>7. Holds /\ Pages /\ Slots /\ Victims /\ Data
  BY <1>2 DEF Init, Holds, Holding, Pages, Slots, Victims, Data
<1>8. Table
  BY DEF Init, Table, Listed, ToSet, IsInjective
<1> QED BY <1>4, <1>5, <1>6, <1>7, <1>8 DEF IInv

LEMMA NextInvariant ==
    ASSUME IInv, EvictsAlone(scenario), EnoughSwap(scenario), [Next]_vars
    PROVE  IInv'
<1>1. CASE UNCHANGED vars
  <2>1. TypeOK' /\ Turns' /\ Calls' /\ Todos' /\ Holds'
    BY <1>1 DEF IInv, TypeOK, Turns, Calls, Todos, Loading, Holds, Current, vars, tables, locals, ghosts
  <2>2. Pages' /\ Slots' /\ Table' /\ Victims' /\ Data'
    BY <1>1 DEF IInv, Pages, Slots, Table, Listed, InFlight, NewFrame, Current, Victims, Data,
                vars, tables, locals, ghosts
  <2> QED BY <2>1, <2>2 DEF IInv
<1>2. ASSUME NEW p \in Proc, UserCode(p) PROVE IInv'
  BY <1>2, WriteStep, FaultStep, ExecuteStep, StackGrowthStep DEF UserCode
<1>3. ASSUME NEW p \in Proc, InKernel(p) PROVE IInv'
  <2>1. CASE Lock(p) \/ GetPage(p) \/ WriteOut(p) \/ MarkSlot(p) \/ ClearFrame(p) \/ GetPageAgain(p)
    BY <2>1, LockStep, GetPageStep, WriteOutStep, MarkSlotStep, ClearFrameStep, GetPageAgainStep
  <2>2. CASE PickVictim(p)
    BY <2>2, SlotFound, PickVictimStep DEF PickVictim, At
  <2>3. CASE LoadLists(p) \/ LoadReads(p) \/ SetupStack(p) \/ GrowthMaps(p)
    BY <2>3, LoadListsStep, LoadReadsStep, SetupStackStep, GrowthMapsStep
  <2>4. CASE FaultLists(p) \/ SwapIn(p) \/ MapsIn(p) \/ Unlock(p)
    BY <2>4, FaultListsStep, SwapInStep, MapsInStep, UnlockStep
  <2> QED BY <2>1, <2>2, <2>3, <2>4, <1>3 DEF InKernel
<1> QED BY <1>1, <1>2, <1>3 DEF Next

\* IInv is inductive, in every instance whose scenarios are EvictionsSafe:
\* whatever the programs, stores, frames and slots (exception.c:165-219,
\* frame.c:29-99, swap.c:39-90, process.c:515-595).
THEOREM Inductive ==
    ASSUME EvictionsSafe
    PROVE  Spec => []IInv
<1>1. Init => IInv
  BY InitInvariant
<1>2. IInv /\ [Next]_vars => IInv'
  <2>1. IInv => EvictsAlone(scenario) /\ EnoughSwap(scenario)
    BY DEF EvictionsSafe, IInv, TypeOK
  <2> QED BY <2>1, NextInvariant
<1> QED BY <1>1, <1>2, PTL DEF Spec

\* Every variable keeps its type.
THEOREM TypeCorrect ==
    ASSUME EvictionsSafe
    PROVE  Spec => []TypeOK
<1>1. IInv => TypeOK
  BY DEF IInv
<1> QED BY <1>1, Inductive, PTL

\* A frame has one owner, and the frame table lists exactly the frames of pages
\* with an entry (frame.c:29-64, 87-99).
THEOREM FramesAreOwned ==
    ASSUME EvictionsSafe
    PROVE  Spec => []FramesOwned
<1>1. ASSUME IInv PROVE FramesOwned
  <2>1. /\ \A x, y \in Page : pte[x] # NULL /\ pte[x] = pte[y] => x = y
        /\ \A pg \in Page : pte[pg] \notin free
    BY <1>1, ScenarioFacts DEF IInv, TypeOK, Pages
  <2>2. ASSUME NEW p \in Proc, kpage[p] # NULL, NEW pg \in Page, pte[pg] = kpage[p]
        PROVE  pc[p] = "unlock" /\ pg = Current(p)
    <3>1. pc[p] = "unlock" /\ pte[Current(p)] = kpage[p]
      BY <1>1, <2>2 DEF IInv, Holds
    <3>2. Current(p) \in Page
      BY <1>1, <3>1, CurrentFacts DEF IInv, Calls
    <3> QED BY <2>1, <2>2, <3>1, <3>2
  <2>3. \A p \in Proc : kpage[p] # NULL => kpage[p] \notin free
    BY <1>1 DEF IInv, Holds
  <2>4. \A i \in DOMAIN frame_table : frame_table[i] \in Listed
    BY DEF Listed, ToSet
  <2>5. \A i, j \in DOMAIN frame_table : frame_table[i].frame = frame_table[j].frame => i = j
    BY <1>1, <2>4 DEF IInv, Table, IsInjective
  <2>6. \A i \in DOMAIN frame_table :
            LET e == frame_table[i] IN
            \/ pte[e.page] = e.frame
            \/ \E p \in Proc : pc[p] \in {"read", "swap_in", "map"} /\ NewFrame(p) = e
    BY <1>1, <2>4 DEF IInv, Table, InFlight
  <2>7. ASSUME NEW pg \in entry, pte[pg] # NULL
        PROVE  \/ \E i \in DOMAIN frame_table : frame_table[i] = [page |-> pg, frame |-> pte[pg]]
               \/ \E p \in Proc : pc[p] = "clear" /\ victim[p].page = pg
               \/ pg[2] = Stack /\ scenario.grows # {}
    BY <1>1, <2>7 DEF IInv, Table, Listed, ToSet
  <2> QED BY <2>1, <2>2, <2>3, <2>5, <2>6, <2>7 DEF FramesOwned
<1> QED BY <1>1, Inductive, PTL

\* A page that is not in memory has a slot of its own (frame.c:88, swap.c:39-90).
THEOREM SlotsAreOwned ==
    ASSUME EvictionsSafe
    PROVE  Spec => []SlotsOwned
<1>1. IInv => SlotsOwned
  BY DEF IInv, Slots, SlotsOwned
<1> QED BY <1>1, Inductive, PTL

\* What a process wrote last is where its page is, on its stack or elsewhere.
\* Two things alone can lose it, until it writes there again: it wrote after
\* swapOut had copied the page and before clearFrame (frame.c:87-99), or the page
\* was the swapped-out top of its stack, and the stack grew (exception.c:245-258).
THEOREM DataIsKept ==
    ASSUME EvictionsSafe
    PROVE  Spec => []DataKept
<1>1. IInv => DataKept
  BY DEF IInv, Data, DataKept, Stored
<1> QED BY <1>1, Inductive, PTL

\* A process always gets its frame: no assertion fails, no PANIC is reached, and
\* frameEvict finds a victim.  When there is none, all frames are mapped by pages
\* that the frame table does not list, and those are the two of a stack that has
\* grown (frame.c:45-57, 74-83; palloc.c:140; swap.c:75).
THEOREM NeverFails ==
    ASSUME EvictionsSafe, \A scen \in Scenarios : EnoughFrames(scen)
    PROVE  Spec => []AlwaysProvides
<1>1. ASSUME IInv PROVE AlwaysProvides
  <2>1. \A p \in Proc : pc[p] \notin {"panic", "failed"}
    BY <1>1 DEF IInv, Calls
  <2>2. ASSUME NEW p \in Proc, pc[p] = "pick", frame_table = <<>> PROVE FALSE
    <3>1. free = {} /\ Listed = {}
      BY <1>1, <2>2 DEF IInv, Holds, Listed, ToSet
    <3>2. \A q \in Proc : pc[q] \in Busy => q = p
      BY <1>1, <2>2 DEF IInv, Turns, Busy
    <3>3. \A q \in Proc : kpage[q] = NULL /\ pc[q] # "clear"
      BY <1>1, <2>2, <3>2 DEF IInv, Holds, Holding, Busy
    <3>4. \A pg \in entry : pte[pg] # NULL => pg[2] = Stack /\ pg[1] \in scenario.grows
      BY <1>1, <3>1, <3>3 DEF IInv, Table
    <3>5. \A pg \in Page : pte[pg] # NULL => pg[2] \in {Stack, Growth} /\ pg[1] \in scenario.grows
      BY <1>1, <3>4 DEF IInv, Pages
    <3>6. NULL \notin scenario.frames /\ scenario.grows \subseteq scenario.runs /\ First \in Proc
      BY <1>1, ScenarioFacts DEF IInv
    <3>7. \A f \in scenario.frames : \E pg \in Page : pte[pg] = f
      BY <1>1, <3>1, <3>3, <3>6 DEF IInv, Pages
    <3>8. scenario.grows # {} => scenario.grows \subseteq {First}
      BY <1>1, <3>6 DEF IInv, TypeOK, EvictionsSafe, EvictsAlone
    <3>9. CASE scenario.grows = {}
      <4>1. scenario.frames = {}
        BY <3>5, <3>6, <3>7, <3>9
      <4>2. Cardinality(scenario.frames) = 0
        BY <4>1, FS_EmptySet
      <4>3. EnoughFrames(scenario)
        BY <1>1 DEF IInv, TypeOK
      <4>4. Cardinality(scenario.frames) > 0
        BY <4>3, <3>9 DEF EnoughFrames
      <4> QED BY <4>2, <4>4
    <3>10. CASE scenario.grows # {}
      <4> DEFINE two == {pte[<<First, Stack>>], pte[<<First, Growth>>]}
      <4>1. scenario.frames \subseteq two
        <5>1. ASSUME NEW f \in scenario.frames PROVE f \in two
          <6>1. PICK pg \in Page : pte[pg] = f
            BY <3>7
          <6>2. pg[1] = First /\ pg[2] \in {Stack, Growth}
            BY <6>1, <3>5, <3>6, <3>8, <3>10
          <6>3. pg = <<pg[1], pg[2]>>
            BY DEF Page
          <6> QED BY <6>1, <6>2, <6>3
        <5> QED BY <5>1
      <4> HIDE DEF two
      <4>2. IsFiniteSet(two) /\ Cardinality(two) <= 2
        <5>1. \A a, b : IsFiniteSet({a, b}) /\ Cardinality({a, b}) <= 2
          <6>1. SUFFICES ASSUME NEW a, NEW b PROVE IsFiniteSet({a, b}) /\ Cardinality({a, b}) <= 2
            OBVIOUS
          <6>2. IsFiniteSet({a}) /\ Cardinality({a}) = 1
            BY FS_Singleton
          <6>3. {a, b} = {a} \cup {b}
            OBVIOUS
          <6> QED BY <6>2, <6>3, FS_AddElement
        <5> QED BY <5>1 DEF two
      <4>3. Cardinality(scenario.frames) <= Cardinality(two)
        BY <4>1, <4>2, FS_Subset
      <4>4. Cardinality(scenario.frames) > 2
        BY <1>1, <3>10 DEF IInv, TypeOK, EnoughFrames
      <4>5. Cardinality(scenario.frames) \in Nat /\ Cardinality(two) \in Nat
        BY <4>1, <4>2, FS_Subset, FS_CardinalityType
      <4> QED BY <4>2, <4>3, <4>4, <4>5
    <3> QED BY <3>9, <3>10
  <2> QED BY <2>1, <2>2 DEF AlwaysProvides
<1> QED BY <1>1, Inductive, PTL
=============================================================================
