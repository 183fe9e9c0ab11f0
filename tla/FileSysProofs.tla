--------------------------- MODULE FileSysProofs ---------------------------
(***************************************************************************)
(* Proofs about FileSys as one process uses it, for any number of names,   *)
(* slots, sectors and descriptors, any sizes of files, and crashes between *)
(* any two disk operations: its types, that the directory and the free map *)
(* on disk agree, that an inode counts those who have it open, that no     *)
(* sectors are lost but those of failed creations and of crashes, and that *)
(* the calls implement FileStore.                                          *)
(***************************************************************************)
EXTENDS FileSys, Sequences, FiniteSetTheorems, TLAPS

Lists == INSTANCE ListLemmas

\* Two processes in the list of open inodes at once is undefined behaviour.
OneProcess == \E p \in Proc : Proc = {p}

----------------------------------------------------------------------------
(* The inductive invariant.                                                *)

\* A call's locals, and what they are at each point of the call.
Ops == {"none", "create", "remove", "open", "exec", "close", "exit"}
CallRecords ==
    [op : Ops, name : Name \union {NULL}, size : Nat, fd : Fd \union {NULL},
     sector : Sector \union {0}, start : Sector \union {0}, slot : Slot \union {NULL},
     bounce : [Slot -> Entries \union {NULL}] \union {NULL}, next : Labels]

Typed == TypeOK /\ call \in [Proc -> CallRecords]

\* Where a call goes on when the free map has been written.
Place(l, c) == IF l = "write_map" THEN c.next ELSE l

ClosingPlaces == {"release_inode", "release_data", "closed"}
MakingPlaces == {"alloc_data", "write_inode", "zero", "lookup", "find_slot", "fetch", "store", "undo"}
Making(l, c) == c.op = "create" /\ Place(l, c) \in MakingPlaces

\* Creations and releases hold sectors that belong to no file (any more): the
\* inode's own and those of its data.
HoldsInode(l, c) == Making(l, c) \/ Place(l, c) = "release_inode"
Rest(c) == IF c.start = 0 THEN {} ELSE Extent(Inode(c.start, c.size))
Held(l, c) ==
    IF HoldsInode(l, c) THEN {c.sector} \union Rest(c)
    ELSE IF Place(l, c) = "release_data" THEN Rest(c) ELSE {}

Shape(l, c) ==
    LET at == Place(l, c) IN
    /\ l = "write_map" => c.next \in {"alloc_data", "write_inode", "idle", "release_data", "closed"}
    /\ at \in {"alloc_inode", "alloc_data", "write_inode", "zero", "find_slot", "undo"} => c.op = "create"
    /\ c.op = "create" => c.name \in Name
    /\ at = "lookup" => c.op \in {"create", "remove", "open", "exec"}
    /\ at \in {"open_inode", "load"} => c.op \in {"remove", "open", "exec"}
    /\ at = "install" => c.op \in {"open", "exec"}
    /\ at \in {"fetch", "store"} => c.op \in {"create", "remove"} /\ c.slot \in Slot
    /\ at = "remove_inode" => c.op = "remove"
    /\ at \in ClosingPlaces => c.op \in {"remove", "close", "exit"}
    /\ c.fd # NULL => at \in ClosingPlaces
    /\ at \in {"alloc_inode", "alloc_data"} => c.start = 0
    /\ at \notin {"alloc_inode", "alloc_data", "undo", "idle"} /\ c.start = 0 => c.size = 0
    /\ Making(l, c) /\ at \notin {"alloc_data", "undo"} => Inode(c.start, c.size) \in Inodes

Used == {i \in Slot : root[i] # NULL}
Opened == {s \in Sector : open_inodes[s] # NULL}
Live == Named \union Opened

\* Files: one that has a name or is open has an inode on disk, and its sectors are
\* allocated, and its own.
FilesOK ==
    /\ \A s \in Live : /\ disk[s] \in Inodes /\ s \notin Extent(disk[s])
                       /\ Blocks(s) \subseteq free_map
    /\ \A s, t \in Live : s # t => Blocks(s) \intersect Blocks(t) = {}

\* Names: no name twice, no file twice, and the free map on disk knows.
NamesOK ==
    /\ \A i, j \in Used : i # j => /\ root[i].name # root[j].name
                                   /\ root[i].sector # root[j].sector
    /\ \A s \in Named : Blocks(s) \subseteq disk_map

\* Open inodes: what is in memory is what is on disk, once it has been read, and
\* an inode is marked removed exactly if it has no name, up to the last step of
\* remove.
OpensOK ==
    \A s \in Opened :
        /\ \/ open_inodes[s].data = disk[s]
           \/ \E p \in Proc : pc[p] = "load" /\ call[p].sector = s
        /\ open_inodes[s].removed => s \notin Named
        /\ \/ open_inodes[s].removed \/ s \in Named
           \/ \E p \in Proc : pc[p] = "remove_inode" /\ call[p].sector = s

\* What a call holds is allocated, and no file's.
HeldOK(p) ==
    /\ Held(pc[p], call[p]) \subseteq free_map
    /\ \A s \in Live : Held(pc[p], call[p]) \intersect Blocks(s) = {}
    /\ HoldsInode(pc[p], call[p]) =>
         call[p].sector \in Sector /\ call[p].sector \notin Rest(call[p])

\* What is allocated is a file's, held by the call, or known to be lost.
Covered(p) ==
    \A x \in free_map : \/ x \in lost \/ x \in Held(pc[p], call[p])
                        \/ \E s \in Live : x \in Blocks(s)

\* What the call has seen is still so.
Unnamed(n) == \A i \in Used : root[i].name # n
Knows(p) ==
    LET l == pc[p]
        c == call[p]
    IN  /\ l # "write_map" => disk_map = free_map
        /\ c.op = "create" /\ l \in {"zero", "lookup", "find_slot", "fetch", "store"} =>
             disk[c.sector] = Inode(c.start, c.size)
        /\ c.op = "create" /\ l \in {"find_slot", "fetch", "store"} => Unnamed(c.name)
        /\ c.op = "create" /\ l \in {"fetch", "store"} => root[c.slot] = NULL
        /\ l = "store" => c.bounce = root
        /\ l \in {"open_inode", "load", "install"} => c.sector \in Named
        /\ c.op = "remove" /\ l \in {"open_inode", "load", "fetch", "store"} =>
             c.slot \in Used /\ root[c.slot].sector = c.sector
        /\ l = "remove_inode" =>
             c.sector \in Opened \ Named /\ ~open_inodes[c.sector].removed

CallOK(p) == Shape(pc[p], call[p]) /\ HeldOK(p) /\ Covered(p) /\ Knows(p)

IInv ==
    /\ Typed /\ FilesOK /\ NamesOK /\ OpensOK /\ OpensCounted
    /\ \A p \in Proc : CallOK(p)

----------------------------------------------------------------------------
(* Lemmas about the operators.                                             *)

LEMMA MinOf == \A S \in SUBSET Nat : S # {} => Min(S) \in S
<1> SUFFICES ASSUME NEW S \in SUBSET Nat, S # {} PROVE Min(S) \in S
  OBVIOUS
<1>1. \E x \in S : \A y \in S : x <= y
  BY Lists!LeastExists
<1> QED BY <1>1 DEF Min

LEMMA NoCallRecord ==
    /\ NoCall \in CallRecords
    /\ NoCall.op = "none" /\ NoCall.fd = NULL /\ NoCall.start = 0 /\ NoCall.sector = 0 /\ NoCall.size = 0
  BY DEF NoCall, CallRecords, Labels, Ops

\* What bitmap_scan finds is free, and fits.
LEMMA ScanFound ==
    ASSUME free_map \subseteq Sector, NEW cnt \in Nat, Scan(cnt) # NULL
    PROVE  /\ Scan(cnt) \in Sector \union {0}
           /\ Inode(Scan(cnt), cnt) \in Inodes
           /\ Extent(Inode(Scan(cnt), cnt)) \subseteq Sector \ free_map
           /\ Scan(cnt) = 0 => cnt = 0
           /\ cnt = 1 => Scan(cnt) \in Sector \ free_map
<1> DEFINE runs == {s \in Sector : s..(s + cnt - 1) \subseteq Sector \ free_map}
<1>1. Sector \subseteq Nat \ {0, 1} /\ IsFiniteSet(Sector) /\ Cardinality(Sector) \in Nat
  BY FileSysAssumption, FS_CardinalityType
<1>2. CASE cnt = 0
  <2>1. Scan(cnt) = 0 /\ 0..(0 + 0 - 1) = {}
    BY <1>2 DEF Scan
  <2> QED BY <1>1, <1>2, <2>1 DEF Inodes, Inode, Extent
<1>3. CASE cnt # 0
  <2>1. Scan(cnt) = IF runs = {} THEN NULL ELSE Min(runs)
    BY <1>3 DEF Scan
  <2>2. runs # {} /\ runs \in SUBSET Nat
    BY <2>1, <1>1
  <2>3. Min(runs) \in runs
    BY <2>2, MinOf
  <2> HIDE DEF runs
  <2>4. PICK s \in Sector : s = Scan(cnt) /\ s..(s + cnt - 1) \subseteq Sector \ free_map
    BY <2>1, <2>2, <2>3 DEF runs
  <2>5. cnt <= Cardinality(Sector)
    <3>1. s \in Int /\ s + cnt - 1 \in Int /\ s <= s + cnt - 1
      BY <1>1, <1>3, <2>4
    <3>2. Cardinality(s..(s + cnt - 1)) = cnt
      BY <1>1, <1>3, <3>1, FS_Interval
    <3>3. Cardinality(s..(s + cnt - 1)) <= Cardinality(Sector)
      BY <1>1, <2>4, FS_Subset
    <3> QED BY <3>2, <3>3
  <2>6. cnt = 1 => s \in Sector \ free_map
    BY <1>1, <2>4
  <2>7. Extent(Inode(s, cnt)) = s..(s + cnt - 1)
    BY DEF Extent, Inode
  <2> QED BY <1>1, <1>3, <2>4, <2>5, <2>6, <2>7 DEF Inodes, Inode
<1> QED BY <1>2, <1>3

\* A file of no sectors has none.
LEMMA NoExtent == \A n \in Nat : Extent(Inode(n, 0)) = {}
  BY DEF Extent, Inode

\* A call that says where its sectors are holds exactly those.
LEMMA RestIs ==
    ASSUME NEW c \in CallRecords, c.start = 0 => c.size = 0
    PROVE  Rest(c) = Extent(Inode(c.start, c.size))
  BY NoExtent DEF Rest, CallRecords

----------------------------------------------------------------------------
(* Counting.                                                               *)

Denying(s) == {x \in OpenFiles(s) : fd[x[1]][x[2]].deny}
CountOK(p, s) ==
    LET count == Cardinality(OpenFiles(s)) + leaked[s] + IF Using(p, s) THEN 1 ELSE 0
    IN  IF open_inodes[s] = NULL THEN count = 0
        ELSE /\ open_inodes[s].open_cnt = count
             /\ open_inodes[s].deny_write_cnt = Cardinality(Denying(s))

\* The calls that have s open are the one call there is, or none.
LEMMA CountOne ==
    ASSUME NEW p \in Proc, Proc = {p}
    PROVE  OpensCounted <=> \A s \in Sector : CountOK(p, s)
<1>1. \A s \in Sector : Cardinality({q \in Proc : Using(q, s)}) = IF Using(p, s) THEN 1 ELSE 0
  <2> TAKE s \in Sector
  <2>1. {q \in Proc : Using(q, s)} = IF Using(p, s) THEN {p} ELSE {}
    OBVIOUS
  <2> QED BY <2>1, FS_Singleton, FS_EmptySet
<1> QED BY <1>1 DEF OpensCounted, CountOK, Denying

LEMMA CountLater ==
    ASSUME NEW p \in Proc, Proc = {p}
    PROVE  (\A s \in Sector : CountOK(p, s)') => OpensCounted'
<1>1. OpensCounted <=> \A s \in Sector : CountOK(p, s)
  BY CountOne
<1>2. OpensCounted' <=> (\A s \in Sector : CountOK(p, s))'
  BY <1>1, PTL
<1> QED BY <1>2

\* Sets of descriptors are finite.
LEMMA CountTypes ==
    ASSUME Typed, NEW p \in Proc, Proc = {p}, NEW s \in Sector
    PROVE  /\ IsFiniteSet(OpenFiles(s)) /\ Cardinality(OpenFiles(s)) \in Nat
           /\ IsFiniteSet(Denying(s)) /\ Cardinality(Denying(s)) \in Nat
           /\ Cardinality(OpenFiles(s)) = 0 => OpenFiles(s) = {}
           /\ leaked[s] \in Nat
<1>1. IsFiniteSet(Proc) /\ IsFiniteSet(Fd)
  BY FS_Singleton, FileSysAssumption
<1>2. IsFiniteSet(Proc \X Fd)
  BY <1>1, FS_Product
<1>3. OpenFiles(s) \subseteq Proc \X Fd /\ Denying(s) \subseteq OpenFiles(s)
  BY DEF OpenFiles, Denying
<1>4. IsFiniteSet(OpenFiles(s)) /\ IsFiniteSet(Denying(s))
  BY <1>2, <1>3, FS_Subset
<1> QED BY <1>4, FS_CardinalityType, FS_EmptySet DEF Typed, TypeOK

\* A step that has nothing to do with who has s open.
SameOpens(p, s) ==
    /\ OpenFiles(s)' = OpenFiles(s) /\ Denying(s)' = Denying(s)
    /\ leaked'[s] = leaked[s] /\ open_inodes'[s] = open_inodes[s]
    /\ Using(p, s)' = Using(p, s)

LEMMA CountKept ==
    ASSUME NEW p \in Proc, Proc = {p}, OpensCounted, \A s \in Sector : SameOpens(p, s)
    PROVE  OpensCounted'
<1>1. \A s \in Sector : CountOK(p, s)
  BY CountOne
<1>2. \A s \in Sector : CountOK(p, s)'
  BY <1>1 DEF SameOpens, CountOK
<1> QED BY <1>2, CountLater

LEMMA CountChanged ==
    ASSUME NEW p \in Proc, Proc = {p}, OpensCounted, NEW s \in Sector,
           \A r \in Sector \ {s} : SameOpens(p, r), CountOK(p, s)'
    PROVE  OpensCounted'
<1>1. \A r \in Sector : CountOK(p, r)
  BY CountOne
<1>2. \A r \in Sector : CountOK(p, r)'
  BY <1>1 DEF SameOpens, CountOK
<1> QED BY <1>2, CountLater

----------------------------------------------------------------------------
(* Steps that leave the directory, the open inodes and the descriptors     *)
(* alone.                                                                  *)

\* The process moves on, with other locals; it may take or release fileLock.
Moved(p, l, c) ==
    /\ pc' = [pc EXCEPT ![p] = l] /\ call' = [call EXCEPT ![p] = c]
    /\ fileLock' \in {fileLock, p, NULL}

StoreTypes ==
    /\ root \in [Slot -> Entries \union {NULL}]
    /\ disk_map \subseteq Sector /\ free_map \subseteq Sector /\ lost \subseteq Sector
    /\ disk \in [Sector -> Inodes \union Data \union {Zeros, NULL}]
    /\ open_inodes \in [Sector -> OpenedInodes \union {NULL}]
    /\ fd \in [Proc -> [Fd -> OpenedFiles \union {NULL}]]
    /\ leaked \in [Sector -> Nat]

LEMMA TypedIs ==
    Typed <=> /\ StoreTypes /\ fileLock \in Proc \union {NULL}
              /\ pc \in [Proc -> Labels] /\ call \in [Proc -> CallRecords]
  BY DEF Typed, TypeOK, StoreTypes, CallRecords

LEMMA TypedLater ==
    Typed' <=> /\ StoreTypes' /\ fileLock' \in Proc \union {NULL}
               /\ pc' \in [Proc -> Labels] /\ call' \in [Proc -> CallRecords]
<1>1. (Typed <=> /\ StoreTypes /\ fileLock \in Proc \union {NULL}
                 /\ pc \in [Proc -> Labels] /\ call \in [Proc -> CallRecords])'
  BY TypedIs, PTL
<1> QED BY <1>1

LEMMA TypedMoved ==
    ASSUME Typed, NEW p \in Proc, NEW l \in Labels, NEW c \in CallRecords, Moved(p, l, c), StoreTypes'
    PROVE  Typed' /\ pc'[p] = l /\ call'[p] = c
<1>1. fileLock' \in Proc \union {NULL}
  BY TypedIs DEF Moved
<1>2. pc' \in [Proc -> Labels] /\ pc'[p] = l
  BY TypedIs DEF Moved
<1>3. call' \in [Proc -> CallRecords] /\ call'[p] = c
  BY TypedIs DEF Moved
<1> QED BY <1>1, <1>2, <1>3, TypedLater

LEMMA SameLive ==
    ASSUME root' = root, Opened' = Opened
    PROVE  Named' = Named /\ Used' = Used /\ Live' = Live
  BY DEF Named, Used, Live

LEMMA FilesKept ==
    ASSUME FilesOK, Live' \subseteq Live,
           \A s \in Live' : disk'[s] = disk[s] /\ Blocks(s) \subseteq free_map'
    PROVE  FilesOK'
<1>1. \A s \in Live' : Blocks(s)' = Blocks(s)
  BY DEF Blocks
<1> QED BY <1>1 DEF FilesOK

LEMMA NamesKept ==
    ASSUME NamesOK, root' = root,
           \A s \in Named : disk'[s] = disk[s] /\ Blocks(s) \subseteq disk_map'
    PROVE  NamesOK'
<1>1. Named' = Named /\ Used' = Used
  BY DEF Named, Used
<1>2. \A s \in Named : Blocks(s)' = Blocks(s)
  BY DEF Blocks
<1> QED BY <1>1, <1>2 DEF NamesOK

LEMMA OpensKept ==
    ASSUME OpensOK, NEW p \in Proc, Proc = {p}, pc[p] \notin {"load", "remove_inode"},
           root' = root, open_inodes' = open_inodes, \A s \in Opened : disk'[s] = disk[s]
    PROVE  OpensOK'
<1>1. Named' = Named /\ Opened' = Opened
  BY DEF Named, Opened
<1> QED BY <1>1 DEF OpensOK

LEMMA SameOpenFiles ==
    ASSUME NEW p \in Proc, Proc = {p}, fd' = fd, call'[p].fd = call[p].fd, NEW s
    PROVE  OpenFiles(s)' = OpenFiles(s) /\ Denying(s)' = Denying(s)
<1>1. OpenFiles(s)' = OpenFiles(s)
  BY DEF OpenFiles, Closing
<1> QED BY <1>1 DEF Denying

\* The parts that such a step has to see to.
LEMMA QuietStep ==
    ASSUME IInv, NEW p \in Proc, Proc = {p}, NEW l \in Labels, NEW c \in CallRecords, Moved(p, l, c),
           UNCHANGED <<root, open_inodes, fd, leaked>>, pc[p] \notin {"load", "remove_inode"},
           disk_map' \subseteq Sector, free_map' \subseteq Sector, lost' \subseteq Sector,
           disk' \in [Sector -> Inodes \union Data \union {Zeros, NULL}],
           \A s \in Live : disk'[s] = disk[s] /\ Blocks(s) \subseteq free_map',
           \A s \in Named : Blocks(s) \subseteq disk_map',
           c.fd = call[p].fd, \A s \in Sector : Using(p, s)' = Using(p, s),
           Shape(l, c), HeldOK(p)', Covered(p)', Knows(p)'
    PROVE  IInv'
<1>1. StoreTypes'
  BY TypedIs DEF IInv, StoreTypes
<1>2. Typed' /\ pc'[p] = l /\ call'[p] = c
  BY <1>1, TypedMoved DEF IInv
<1>3. Opened' = Opened /\ Live' = Live /\ Named \subseteq Live /\ Opened \subseteq Live
  BY SameLive DEF Opened, Live
<1>4. FilesOK'
  BY <1>3, FilesKept DEF IInv
<1>5. NamesOK'
  BY <1>3, NamesKept DEF IInv
<1>6. OpensOK'
  BY <1>3, OpensKept DEF IInv
<1>7. OpensCounted'
  <2>1. \A s \in Sector : SameOpens(p, s)
    BY <1>2, SameOpenFiles DEF SameOpens
  <2> QED BY <2>1, CountKept DEF IInv
<1>8. CallOK(p)'
  BY <1>2 DEF CallOK
<1> QED BY <1>2, <1>4, <1>5, <1>6, <1>7, <1>8 DEF IInv

\* A step that only moves on holds what it held.
LEMMA ControlStep ==
    ASSUME IInv, NEW p \in Proc, Proc = {p}, NEW l \in Labels, NEW c \in CallRecords, Moved(p, l, c),
           UNCHANGED <<onDisk, free_map, open_inodes, fd, ghosts>>,
           pc[p] \notin {"load", "remove_inode"},
           c.fd = call[p].fd, \A s \in Sector : Using(p, s)' = Using(p, s),
           Held(l, c) = Held(pc[p], call[p]),
           HoldsInode(l, c) => HoldsInode(pc[p], call[p]) /\ c.sector = call[p].sector /\ Rest(c) = Rest(call[p]),
           Shape(l, c), Knows(p)'
    PROVE  IInv'
<1>1. /\ UNCHANGED <<root, disk_map, disk, leaked, lost>>
      /\ CallOK(p) /\ Typed /\ FilesOK /\ NamesOK
  BY DEF onDisk, ghosts, IInv
<1>2. pc'[p] = l /\ call'[p] = c
  BY <1>1, TypedIs DEF Moved
<1>3. Live' = Live /\ \A s : Blocks(s)' = Blocks(s)
  BY <1>1, SameLive DEF Opened, Blocks
<1>4. HeldOK(p)' /\ Covered(p)'
  BY <1>1, <1>2, <1>3 DEF CallOK, HeldOK, Covered
<1>5. /\ disk_map \subseteq Sector /\ free_map \subseteq Sector /\ lost \subseteq Sector
      /\ disk \in [Sector -> Inodes \union Data \union {Zeros, NULL}]
  BY <1>1, TypedIs DEF StoreTypes
<1>6. /\ \A s \in Live : Blocks(s) \subseteq free_map
      /\ \A s \in Named : Blocks(s) \subseteq disk_map
  BY <1>1 DEF FilesOK, NamesOK
<1> QED BY <1>1, <1>4, <1>5, <1>6, QuietStep

----------------------------------------------------------------------------
(* Calls begin and end.                                                    *)

\* At the beginning of a call, and at its end, nothing is held.
LEMMA NothingHeld ==
    \A c \in CallRecords : \A l \in {"idle", "exit", "alloc_inode"} :
        Held(l, c) = {} /\ ~HoldsInode(l, c)
  BY DEF Held, HoldsInode, Making, MakingPlaces, Place

\* A call returns to the program, or to mySysExit's loop over the descriptors.
LEMMA Returned ==
    ASSUME Typed, NEW p \in Proc, Returns(p)
    PROVE  \E l \in {"idle", "exit"} : \E c \in CallRecords :
              /\ Moved(p, l, c) /\ c.fd = NULL /\ c.start = 0 /\ c.op \in {"none", "exit"}
              /\ Shape(l, c) /\ l \in Labels
<1> DEFINE exits == call[p].op = "exit"
           l == IF exits THEN "exit" ELSE "idle"
           c == IF exits THEN [NoCall EXCEPT !.op = "exit"] ELSE NoCall
<1>1. [NoCall EXCEPT !.op = "exit"] \in CallRecords /\ NoCall \in CallRecords
  BY NoCallRecord DEF CallRecords, Ops
<1>2. c \in CallRecords /\ c.fd = NULL /\ c.start = 0 /\ c.op \in {"none", "exit"} /\ c.size = 0
  BY <1>1, NoCallRecord DEF NoCall
<1>3. Moved(p, l, c)
  BY DEF Returns, Moved, Goto, With, Unlocked
<1>4. l \in {"idle", "exit"} /\ l \in Labels
  BY DEF Labels
<1> HIDE DEF l, c
<1>5. Shape(l, c)
  BY <1>2, <1>4 DEF Shape, Place, Making, MakingPlaces, ClosingPlaces
<1> QED BY <1>2, <1>3, <1>4, <1>5

\* What the call knows when it has returned, or does not rely on anything.
LEMMA NothingKnownLater ==
    ASSUME NEW p \in Proc, pc'[p] \in {"idle", "exit", "alloc_inode", "alloc_data", "write_inode",
                                       "undo", "release_inode", "release_data", "closed"},
           disk_map' = free_map'
    PROVE  Knows(p)'
  BY DEF Knows

\* A call that returns with nothing in its hands.
LEMMA ReturnStep ==
    ASSUME IInv, NEW p \in Proc, Proc = {p}, Returns(p),
           UNCHANGED <<onDisk, free_map, open_inodes, fd, ghosts>>,
           pc[p] \notin {"load", "install", "fetch", "store", "remove_inode", "write_map"},
           call[p].fd = NULL, Held(pc[p], call[p]) = {}
    PROVE  IInv'
<1>1. PICK l \in {"idle", "exit"}, c \in CallRecords :
          /\ Moved(p, l, c) /\ c.fd = NULL /\ c.start = 0 /\ c.op \in {"none", "exit"}
          /\ Shape(l, c) /\ l \in Labels
  BY Returned DEF IInv
<1>2. pc'[p] = l /\ call'[p] = c
  BY <1>1, TypedIs DEF Moved, IInv
<1>3. \A s \in Sector : Using(p, s)' = Using(p, s)
  BY <1>1, <1>2 DEF Using
<1>4. Held(l, c) = {} /\ ~HoldsInode(l, c)
  BY <1>1, NothingHeld
<1>5. disk_map' = free_map'
  BY DEF onDisk, IInv, CallOK, Knows
<1>6. Knows(p)'
  BY <1>1, <1>2, <1>5, NothingKnownLater
<1> QED BY <1>1, <1>3, <1>4, <1>6, ControlStep

\* A call that begins: filesys_create looks for a sector, the others look up
\* the name.
LEMMA StartStep ==
    ASSUME IInv, NEW p \in Proc, Proc = {p}, pc[p] = "idle", NEW l \in Labels, NEW c \in CallRecords,
           Moved(p, l, c), UNCHANGED <<onDisk, free_map, open_inodes, fd, ghosts>>,
           c.fd = NULL, c.start = 0, c.op \in {"create", "remove", "open", "exec", "exit"},
           c.op = "create" => l = "alloc_inode",
           c.op \in {"remove", "open", "exec"} => l = "lookup" /\ c.size = 0,
           c.op = "exit" => l = "exit" /\ c.size = 0,
           c.op # "exit" => c.name \in Name
    PROVE  IInv'
<1>1. pc'[p] = l /\ call'[p] = c /\ call[p] \in CallRecords
  BY TypedIs DEF Moved, IInv
<1>2. call[p].fd = NULL
  BY DEF IInv, CallOK, Shape, Place, ClosingPlaces
<1>3. \A s \in Sector : Using(p, s)' = Using(p, s)
  BY <1>1 DEF Using
<1>4. Held(l, c) = {} /\ ~HoldsInode(l, c) /\ Held(pc[p], call[p]) = {}
  BY <1>1, NothingHeld DEF Held, HoldsInode, Making, MakingPlaces, Place
<1>5. disk_map' = free_map'
  BY DEF onDisk, IInv, CallOK, Knows
<1>6. Knows(p)'
  BY <1>1, <1>5 DEF Knows
<1>7. Shape(l, c)
  BY DEF Shape, Place, Making, MakingPlaces, ClosingPlaces
<1> QED BY <1>1, <1>2, <1>3, <1>4, <1>6, <1>7, ControlStep

LEMMA Starts ==
    ASSUME IInv, NEW p \in Proc, Proc = {p},
           \/ \E n \in Name : Remove(p, n) \/ Open(p, n) \/ Execute(p, n)
           \/ \E n \in Name, size \in Size : Create(p, n, size)
           \/ Exit(p)
    PROVE  IInv'
<1>1. Size \subseteq Nat /\ {"alloc_inode", "lookup", "exit"} \subseteq Labels
  BY FileSysAssumption DEF Labels
<1>2. ASSUME NEW n \in Name, Remove(p, n) PROVE IInv'
  <2>1. PICK c : c = [NoCall EXCEPT !.op = "remove", !.name = n]
    OBVIOUS
  <2>2. c \in CallRecords /\ c.fd = NULL /\ c.start = 0 /\ c.size = 0 /\ c.op = "remove" /\ c.name = n
    BY <2>1, NoCallRecord DEF NoCall, CallRecords, Ops
  <2>3. Moved(p, "lookup", c)
    BY <1>2, <2>1 DEF Remove, Moved, Goto, With, memory
  <2> QED BY <1>1, <1>2, <2>2, <2>3, StartStep DEF Remove, memory
<1>3. ASSUME NEW n \in Name, Open(p, n) PROVE IInv'
  <2>1. PICK c : c = [NoCall EXCEPT !.op = "open", !.name = n]
    OBVIOUS
  <2>2. c \in CallRecords /\ c.fd = NULL /\ c.start = 0 /\ c.size = 0 /\ c.op = "open" /\ c.name = n
    BY <2>1, NoCallRecord DEF NoCall, CallRecords, Ops
  <2>3. Moved(p, "lookup", c)
    BY <1>3, <2>1 DEF Open, Moved, Goto, With
  <2> QED BY <1>1, <1>3, <2>2, <2>3, StartStep DEF Open
<1>4. ASSUME NEW n \in Name, Execute(p, n) PROVE IInv'
  <2>1. PICK c : c = [NoCall EXCEPT !.op = "exec", !.name = n]
    OBVIOUS
  <2>2. c \in CallRecords /\ c.fd = NULL /\ c.start = 0 /\ c.size = 0 /\ c.op = "exec" /\ c.name = n
    BY <2>1, NoCallRecord DEF NoCall, CallRecords, Ops
  <2>3. Moved(p, "lookup", c)
    BY <1>4, <2>1 DEF Execute, Moved, Goto, With, memory
  <2> QED BY <1>1, <1>4, <2>2, <2>3, StartStep DEF Execute, memory
<1>5. ASSUME NEW n \in Name, NEW size \in Size, Create(p, n, size) PROVE IInv'
  <2>1. PICK c : c = [NoCall EXCEPT !.op = "create", !.name = n, !.size = size]
    OBVIOUS
  <2>2. c \in CallRecords /\ c.fd = NULL /\ c.start = 0 /\ c.op = "create" /\ c.name = n
    BY <1>1, <2>1, NoCallRecord DEF NoCall, CallRecords, Ops
  <2>3. Moved(p, "alloc_inode", c)
    BY <1>5, <2>1 DEF Create, Moved, Goto, With, memory
  <2> QED BY <1>1, <1>5, <2>2, <2>3, StartStep DEF Create, memory
<1>6. ASSUME Exit(p) PROVE IInv'
  <2>1. PICK c : c = [NoCall EXCEPT !.op = "exit"]
    OBVIOUS
  <2>2. c \in CallRecords /\ c.fd = NULL /\ c.start = 0 /\ c.size = 0 /\ c.op = "exit"
    BY <2>1, NoCallRecord DEF NoCall, CallRecords, Ops
  <2>3. Moved(p, "exit", c)
    BY <1>6, <2>1 DEF Exit, Moved, Goto, With, memory
  <2> QED BY <1>1, <1>6, <2>2, <2>3, StartStep DEF Exit, memory
<1> QED BY <1>2, <1>3, <1>4, <1>5, <1>6

----------------------------------------------------------------------------
(* Looking up, and the slot of the directory.                              *)

\* Where a call is, from the invariant.
LEMMA AtPoint ==
    ASSUME IInv, NEW p \in Proc
    PROVE  /\ call[p] \in CallRecords /\ pc[p] \in Labels
           /\ call \in [Proc -> CallRecords] /\ pc \in [Proc -> Labels]
           /\ Shape(pc[p], call[p]) /\ HeldOK(p) /\ Covered(p) /\ Knows(p)
           /\ pc[p] # "write_map" => disk_map = free_map
           /\ root \in [Slot -> Entries \union {NULL}]
           /\ free_map \subseteq Sector /\ disk_map \subseteq Sector /\ lost \subseteq Sector
  BY TypedIs DEF IInv, CallOK, StoreTypes, Knows

LEMMA Entry ==
    ASSUME IInv, NEW i \in Used
    PROVE  /\ i \in Slot /\ root[i] \in Entries /\ root[i].name \in Name
           /\ root[i].sector \in Named /\ root[i].sector \in Sector
  BY TypedIs DEF IInv, StoreTypes, Used, Named, Entries

LEMMA LookupStep ==
    ASSUME IInv, NEW p \in Proc, Proc = {p}, Lookup(p)
    PROVE  IInv'
<1> DEFINE c == call[p]
           found == {i \in Slot : root[i] # NULL /\ root[i].name = c.name}
<1>1. /\ pc[p] = "lookup" /\ c \in CallRecords /\ Shape("lookup", c) /\ Knows(p) /\ disk_map = free_map
      /\ c.op \in {"create", "remove", "open", "exec"} /\ c.fd = NULL
      /\ {"find_slot", "undo", "open_inode"} \subseteq Labels
  BY AtPoint DEF Lookup, Shape, Place, ClosingPlaces, Labels
<1>2. UNCHANGED <<onDisk, free_map, open_inodes, fd, ghosts>> /\ UNCHANGED <<root, disk, disk_map>>
  BY DEF Lookup, onDisk
<1>3. CASE c.op = "create"
  <2>1. PICK l : l = IF found = {} THEN "find_slot" ELSE "undo"
    OBVIOUS
  <2>2. Moved(p, l, c) /\ l \in {"find_slot", "undo"} /\ pc'[p] = l /\ call'[p] = c
    BY <1>1, <1>3, <2>1, AtPoint DEF Lookup, Moved, Goto
  <2>3. Held(l, c) = Held("lookup", c) /\ HoldsInode("lookup", c)
    BY <1>3, <2>2 DEF Held, HoldsInode, Making, MakingPlaces, Place
  <2>4. Shape(l, c)
    BY <1>1, <1>3, <2>2 DEF Shape, Place, Making, MakingPlaces, ClosingPlaces
  <2>5. l = "find_slot" => Unnamed(c.name)
    BY <2>1 DEF Unnamed, Used
  <2>6. Knows(p)'
    <3>1. \A n : Unnamed(n)' <=> Unnamed(n)
      BY <1>2 DEF Unnamed, Used
    <3> QED BY <1>1, <1>2, <1>3, <2>2, <2>5, <3>1 DEF Knows
  <2>7. \A s \in Sector : Using(p, s)' = Using(p, s)
    BY <1>1, <2>2 DEF Using
  <2> QED BY <1>1, <1>2, <2>2, <2>3, <2>4, <2>6, <2>7, ControlStep
<1>4. CASE c.op # "create" /\ found = {}
  <2>1. Returns(p)
    BY <1>4 DEF Lookup
  <2>2. Held("lookup", c) = {}
    BY <1>4 DEF Held, HoldsInode, Making, Place
  <2> QED BY <1>1, <1>2, <2>1, <2>2, ReturnStep
<1>5. CASE c.op # "create" /\ found # {}
  <2>1. Slot \subseteq Nat
    BY FileSysAssumption
  <2>2. PICK i \in Used : i = Min(found)
    BY <1>5, <2>1, MinOf DEF Used
  <2>3. PICK d : d = [c EXCEPT !.slot = i, !.sector = root[i].sector]
    OBVIOUS
  <2>4. i \in Slot /\ root[i].sector \in Named /\ root[i].sector \in Sector
    BY <2>2, Entry
  <2>5. /\ d \in CallRecords /\ d.op = c.op /\ d.name = c.name /\ d.size = c.size /\ d.fd = c.fd
        /\ d.start = c.start /\ d.slot = i /\ d.sector = root[i].sector
    BY <1>1, <2>3, <2>4 DEF CallRecords
  <2>6. Moved(p, "open_inode", d) /\ pc'[p] = "open_inode" /\ call'[p] = d
    BY <1>5, <2>2, <2>3, AtPoint DEF Lookup, Moved, Goto, With
  <2>7. Held("open_inode", d) = {} /\ ~HoldsInode("open_inode", d) /\ Held("lookup", c) = {}
    BY <1>5, <2>5 DEF Held, HoldsInode, Making, Place
  <2>8. Shape("open_inode", d)
    BY <1>1, <1>5, <2>5 DEF Shape, Place, Making, MakingPlaces, ClosingPlaces
  <2>9. Knows(p)'
    <3>1. Named' = Named /\ Used' = Used
      BY <1>2 DEF Named, Used
    <3> QED BY <1>1, <1>2, <1>5, <2>4, <2>5, <2>6, <3>1 DEF Knows
  <2>10. \A s \in Sector : Using(p, s)' = Using(p, s)
    BY <1>1, <2>6 DEF Using
  <2> QED BY <1>1, <1>2, <2>5, <2>6, <2>7, <2>8, <2>9, <2>10, ControlStep
<1> QED BY <1>3, <1>4, <1>5

LEMMA FindSlotStep ==
    ASSUME IInv, NEW p \in Proc, Proc = {p}, FindSlot(p)
    PROVE  IInv'
<1> DEFINE c == call[p]
           free == {i \in Slot : root[i] = NULL}
<1>1. /\ pc[p] = "find_slot" /\ c \in CallRecords /\ Shape("find_slot", c) /\ Knows(p) /\ disk_map = free_map
      /\ c.op = "create" /\ c.name \in Name /\ c.fd = NULL
      /\ {"fetch", "undo"} \subseteq Labels /\ Slot \subseteq Nat
  BY AtPoint, FileSysAssumption DEF FindSlot, Shape, Place, ClosingPlaces, Labels
<1>2. UNCHANGED <<onDisk, free_map, open_inodes, fd, ghosts>> /\ UNCHANGED <<root, disk, disk_map>>
  BY DEF FindSlot, onDisk, memory
<1>3. ASSUME NEW l \in {"fetch", "undo"}, NEW d \in CallRecords, Moved(p, l, d),
             d.op = c.op, d.name = c.name, d.size = c.size, d.fd = c.fd, d.start = c.start, d.sector = c.sector,
             l = "fetch" => d.slot \in Slot /\ root[d.slot] = NULL
      PROVE  IInv'
  <2>1. pc'[p] = l /\ call'[p] = d
    BY <1>3, AtPoint DEF Moved
  <2>2. Rest(d) = Rest(c)
    BY <1>3 DEF Rest
  <2>3. Held(l, d) = Held("find_slot", c) /\ HoldsInode("find_slot", c)
    BY <1>1, <1>3, <2>2 DEF Held, HoldsInode, Making, MakingPlaces, Place
  <2>4. Shape(l, d)
    BY <1>1, <1>3 DEF Shape, Place, Making, MakingPlaces, ClosingPlaces
  <2>5. Knows(p)'
    <3>1. \A n : Unnamed(n)' <=> Unnamed(n)
      BY <1>2 DEF Unnamed, Used
    <3> QED BY <1>1, <1>2, <1>3, <2>1, <3>1 DEF Knows
  <2>6. \A s \in Sector : Using(p, s)' = Using(p, s)
    BY <1>1, <1>3, <2>1 DEF Using
  <2> QED BY <1>1, <1>2, <1>3, <2>2, <2>3, <2>4, <2>5, <2>6, ControlStep
<1>4. CASE free = {}
  <2>1. Moved(p, "undo", c)
    BY <1>4, AtPoint DEF FindSlot, Moved, Goto, memory
  <2> QED BY <1>1, <1>3, <2>1
<1>5. CASE free # {}
  <2>1. PICK i \in Slot : i = Min(free) /\ root[i] = NULL
    BY <1>1, <1>5, MinOf
  <2>2. PICK d : d = [c EXCEPT !.slot = i]
    OBVIOUS
  <2>3. /\ d \in CallRecords /\ d.op = c.op /\ d.name = c.name /\ d.size = c.size /\ d.fd = c.fd
        /\ d.start = c.start /\ d.slot = i /\ d.sector = c.sector
    BY <1>1, <2>1, <2>2 DEF CallRecords
  <2>4. Moved(p, "fetch", d)
    BY <1>5, <2>1, <2>2 DEF FindSlot, Moved, Goto, With, memory
  <2> QED BY <1>3, <2>1, <2>3, <2>4
<1> QED BY <1>4, <1>5

LEMMA FetchStep ==
    ASSUME IInv, NEW p \in Proc, Proc = {p}, Fetch(p)
    PROVE  IInv'
<1> DEFINE c == call[p]
<1>1. /\ pc[p] = "fetch" /\ c \in CallRecords /\ Shape("fetch", c) /\ Knows(p) /\ disk_map = free_map
      /\ c.op \in {"create", "remove"} /\ c.fd = NULL /\ "store" \in Labels
      /\ root \in [Slot -> Entries \union {NULL}]
  BY AtPoint DEF Fetch, Shape, Place, ClosingPlaces, Labels
<1>2. UNCHANGED <<onDisk, free_map, open_inodes, fd, ghosts>> /\ UNCHANGED <<root, disk, disk_map>>
  BY DEF Fetch, onDisk, memory
<1>3. PICK d : d = [c EXCEPT !.bounce = root]
  OBVIOUS
<1>4. /\ d \in CallRecords /\ d.op = c.op /\ d.name = c.name /\ d.size = c.size /\ d.fd = c.fd
      /\ d.start = c.start /\ d.slot = c.slot /\ d.sector = c.sector /\ d.bounce = root
  BY <1>1, <1>3 DEF CallRecords
<1>5. Moved(p, "store", d) /\ pc'[p] = "store" /\ call'[p] = d
  BY <1>3, AtPoint DEF Fetch, Moved, Goto, With, memory
<1>6. Rest(d) = Rest(c)
  BY <1>4 DEF Rest
<1>7. Held("store", d) = Held("fetch", c) /\ (HoldsInode("store", d) <=> HoldsInode("fetch", c))
  BY <1>1, <1>4, <1>6 DEF Held, HoldsInode, Making, MakingPlaces, Place
<1>8. Shape("store", d)
  BY <1>1, <1>4 DEF Shape, Place, Making, MakingPlaces, ClosingPlaces
<1>9. Knows(p)'
  <2>1. (\A n : Unnamed(n)' <=> Unnamed(n)) /\ Used' = Used
    BY <1>2 DEF Unnamed, Used
  <2> QED BY <1>1, <1>2, <1>4, <1>5, <2>1 DEF Knows
<1>10. \A s \in Sector : Using(p, s)' = Using(p, s)
  BY <1>1, <1>4, <1>5 DEF Using
<1> QED BY <1>1, <1>2, <1>4, <1>5, <1>6, <1>7, <1>8, <1>9, <1>10, ControlStep

----------------------------------------------------------------------------
(* Sectors are allocated, written and released.                            *)

\* While such a step is taken no file changes its sectors.
LEMMA SameBlocks ==
    ASSUME UNCHANGED <<root, open_inodes>>, \A s \in Live : disk'[s] = disk[s]
    PROVE  Live' = Live /\ Named \subseteq Live /\ \A s \in Live : Blocks(s)' = Blocks(s) /\ s \in Blocks(s)
  BY SameLive DEF Opened, Blocks, Live

\* What a call holds is not part of a file.
LEMMA HeldApart ==
    ASSUME IInv, NEW p \in Proc
    PROVE  /\ \A s \in Live : \A x \in Held(pc[p], call[p]) : x # s /\ x \notin Blocks(s)
           /\ \A s \in Live : Blocks(s) \subseteq free_map
           /\ \A s \in Named : Blocks(s) \subseteq disk_map /\ s \in Live
           /\ Held(pc[p], call[p]) \subseteq Sector
<1>1. \A s : s \in Blocks(s)
  BY DEF Blocks
<1>2. HeldOK(p) /\ FilesOK /\ NamesOK /\ free_map \subseteq Sector
  BY AtPoint DEF IInv
<1> QED BY <1>1, <1>2 DEF HeldOK, FilesOK, NamesOK, Live

LEMMA AllocateInodeStep ==
    ASSUME IInv, NEW p \in Proc, Proc = {p}, AllocateInode(p)
    PROVE  IInv'
<1> DEFINE c == call[p]
           s == Scan(1)
<1>1. /\ pc[p] = "alloc_inode" /\ c \in CallRecords /\ Shape("alloc_inode", c) /\ disk_map = free_map
      /\ c.op = "create" /\ c.name \in Name /\ c.fd = NULL /\ c.start = 0 /\ "write_map" \in Labels
      /\ free_map \subseteq Sector /\ lost \subseteq Sector /\ "alloc_data" \in Labels
  BY AtPoint DEF AllocateInode, Shape, Place, ClosingPlaces, Labels
<1>2. UNCHANGED <<onDisk, open_inodes, fd, ghosts>> /\ UNCHANGED <<root, disk, disk_map, leaked, lost>>
  BY DEF AllocateInode, onDisk, ghosts
<1>3. Held(pc[p], c) = {}
  BY <1>1, NothingHeld
<1>4. CASE s = NULL
  BY <1>1, <1>2, <1>3, <1>4, ReturnStep DEF AllocateInode
<1>5. CASE s # NULL
  <2>1. s \in Sector \ free_map
    BY <1>1, <1>5, ScanFound
  <2>2. PICK d : d = [[c EXCEPT !.sector = s] EXCEPT !.next = "alloc_data"]
    OBVIOUS
  <2>3. /\ d \in CallRecords /\ d.op = "create" /\ d.name = c.name /\ d.size = c.size /\ d.fd = NULL
        /\ d.start = 0 /\ d.sector = s /\ d.next = "alloc_data"
    BY <1>1, <2>1, <2>2 DEF CallRecords
  <2>4. /\ Moved(p, "write_map", d) /\ pc'[p] = "write_map" /\ call'[p] = d
        /\ free_map' = free_map \union {s}
    BY <1>5, <2>2, AtPoint DEF AllocateInode, ThenWrites, Moved, Goto, With
  <2>5. Held("write_map", d) = {s} /\ Rest(d) = {}
    BY <2>3 DEF Held, HoldsInode, Making, MakingPlaces, Place, Rest
  <2>6. /\ Live' = Live /\ \A t \in Live : Blocks(t)' = Blocks(t)
        /\ \A t \in Live : Blocks(t) \subseteq free_map
        /\ \A t \in Named : Blocks(t) \subseteq disk_map /\ t \in Live
    BY <1>2, SameBlocks, HeldApart
  <2>7. HeldOK(p)'
    BY <2>1, <2>3, <2>4, <2>5, <2>6 DEF HeldOK
  <2>8. Covered(p)'
    BY <1>2, <1>3, <2>4, <2>5, <2>6, AtPoint DEF Covered
  <2>9. Shape("write_map", d)
    BY <1>1, <2>3 DEF Shape, Place, Making, MakingPlaces, ClosingPlaces
  <2>10. Knows(p)'
    BY <2>4 DEF Knows
  <2>11. \A t \in Sector : Using(p, t)' = Using(p, t)
    BY <1>1, <2>4 DEF Using
  <2>12. disk_map \subseteq Sector /\ disk \in [Sector -> Inodes \union Data \union {Zeros, NULL}]
    BY TypedIs DEF IInv, StoreTypes
  <2>13. free_map' \subseteq Sector
    BY <1>1, <2>1, <2>4
  <2> QED BY <1>1, <1>2, <2>3, <2>4, <2>6, <2>7, <2>8, <2>9, <2>10, <2>11, <2>12, <2>13, QuietStep
<1> QED BY <1>4, <1>5

LEMMA AllocateDataStep ==
    ASSUME IInv, NEW p \in Proc, Proc = {p}, AllocateData(p)
    PROVE  IInv'
<1> DEFINE c == call[p]
           s == Scan(c.size)
<1>1. /\ pc[p] = "alloc_data" /\ c \in CallRecords /\ Shape("alloc_data", c) /\ disk_map = free_map
      /\ c.op = "create" /\ c.name \in Name /\ c.fd = NULL /\ c.start = 0 /\ "write_map" \in Labels
      /\ free_map \subseteq Sector /\ lost \subseteq Sector /\ {"write_inode", "undo"} \subseteq Labels
      /\ c.size \in Nat
  BY AtPoint DEF AllocateData, Shape, Place, ClosingPlaces, Labels, CallRecords
<1>2. UNCHANGED <<onDisk, open_inodes, fd, ghosts>> /\ UNCHANGED <<root, disk, disk_map, leaked, lost>>
  BY DEF AllocateData, onDisk, ghosts
<1>3. HoldsInode("alloc_data", c) /\ Held("alloc_data", c) = {c.sector} /\ Rest(c) = {}
  BY <1>1 DEF Held, HoldsInode, Making, MakingPlaces, Place, Rest
<1>4. CASE s = NULL
  <2>1. Moved(p, "undo", c) /\ pc'[p] = "undo" /\ UNCHANGED free_map
    BY <1>4, AtPoint DEF AllocateData, Moved, Goto
  <2>2. Held("undo", c) = {c.sector}
    BY <1>1 DEF Held, HoldsInode, Making, MakingPlaces, Place, Rest
  <2>3. Shape("undo", c)
    BY <1>1 DEF Shape, Place, Making, MakingPlaces, ClosingPlaces
  <2>4. Knows(p)'
    BY <1>1, <1>2, <2>1, NothingKnownLater
  <2>5. \A t \in Sector : Using(p, t)' = Using(p, t)
    BY <1>1, <2>1 DEF Using
  <2> QED BY <1>1, <1>2, <1>3, <2>1, <2>2, <2>3, <2>4, <2>5, ControlStep
<1>5. CASE s # NULL
  <2>1. PICK e : e = Extent(Inode(s, c.size))
    OBVIOUS
  <2>2. /\ s \in Sector \union {0} /\ Inode(s, c.size) \in Inodes /\ e \subseteq Sector \ free_map
        /\ s = 0 => c.size = 0
    BY <1>1, <1>5, <2>1, ScanFound
  <2>3. PICK d : d = [[c EXCEPT !.start = s] EXCEPT !.next = "write_inode"]
    OBVIOUS
  <2>4. /\ d \in CallRecords /\ d.op = "create" /\ d.name = c.name /\ d.size = c.size /\ d.fd = NULL
        /\ d.start = s /\ d.sector = c.sector /\ d.next = "write_inode"
    BY <1>1, <2>2, <2>3 DEF CallRecords
  <2>5. /\ Moved(p, "write_map", d) /\ pc'[p] = "write_map" /\ call'[p] = d
        /\ free_map' = free_map \union e
    BY <1>5, <2>1, <2>3, AtPoint DEF AllocateData, ThenWrites, Moved, Goto, With
  <2>6. Rest(d) = e
    BY <2>1, <2>2, <2>4, RestIs
  <2>7. Held("write_map", d) = {c.sector} \union e
    BY <2>4, <2>6 DEF Held, HoldsInode, Making, MakingPlaces, Place
  <2>8. /\ Live' = Live /\ \A t \in Live : Blocks(t)' = Blocks(t)
        /\ \A t \in Live : Blocks(t) \subseteq free_map
        /\ \A t \in Named : Blocks(t) \subseteq disk_map /\ t \in Live
    BY <1>2, SameBlocks, HeldApart
  <2>9. /\ c.sector \in Sector /\ c.sector \in free_map /\ \A t \in Live : c.sector \notin Blocks(t)
    BY <1>1, <1>3, AtPoint, HeldApart DEF HeldOK
  <2>10. HeldOK(p)'
    BY <2>2, <2>4, <2>5, <2>6, <2>7, <2>8, <2>9 DEF HeldOK
  <2>11. Covered(p)'
    BY <1>1, <1>2, <1>3, <2>5, <2>7, <2>8, AtPoint DEF Covered
  <2>12. Shape("write_map", d)
    BY <1>1, <2>2, <2>4 DEF Shape, Place, Making, MakingPlaces, ClosingPlaces
  <2>13. Knows(p)'
    BY <2>5 DEF Knows
  <2>14. \A t \in Sector : Using(p, t)' = Using(p, t)
    BY <1>1, <2>5 DEF Using
  <2>15. disk_map \subseteq Sector /\ disk \in [Sector -> Inodes \union Data \union {Zeros, NULL}]
    BY TypedIs DEF IInv, StoreTypes
  <2>16. free_map' \subseteq Sector
    BY <1>1, <2>2, <2>5
  <2> QED BY <1>1, <1>2, <2>4, <2>5, <2>8, <2>10, <2>11, <2>12, <2>13, <2>14, <2>15, <2>16, QuietStep
<1> QED BY <1>4, <1>5

\* The inode, and zeros, go to sectors that no file has yet.
LEMMA WriteInodeStep ==
    ASSUME IInv, NEW p \in Proc, Proc = {p}, WriteInode(p)
    PROVE  IInv'
<1> DEFINE c == call[p]
<1>1. /\ pc[p] = "write_inode" /\ c \in CallRecords /\ Shape("write_inode", c) /\ disk_map = free_map
      /\ c.op = "create" /\ c.name \in Name /\ c.fd = NULL /\ Inode(c.start, c.size) \in Inodes
      /\ free_map \subseteq Sector /\ lost \subseteq Sector /\ disk_map \subseteq Sector
  BY AtPoint DEF WriteInode, Shape, Place, ClosingPlaces, Making, MakingPlaces
<1>2. /\ UNCHANGED <<root, disk_map, free_map, open_inodes, fd, fileLock, call, leaked, lost>>
      /\ disk' = [disk EXCEPT ![c.sector] = Inode(c.start, c.size)]
  BY DEF WriteInode, memory, ghosts
<1>3. PICK l \in {"zero", "lookup"} : l = IF c.size > 0 THEN "zero" ELSE "lookup"
  OBVIOUS
<1>4. Moved(p, l, c) /\ pc'[p] = l /\ call'[p] = c /\ l \in Labels
  BY <1>3, AtPoint DEF WriteInode, Moved, Goto, memory, Labels
<1>5. HoldsInode("write_inode", c) /\ HoldsInode(l, c) /\ Held(l, c) = Held("write_inode", c) /\ c.sector \in Held(l, c)
  BY <1>1, <1>3 DEF Held, HoldsInode, Making, MakingPlaces, Place
<1>6. c.sector \in Sector /\ \A s \in Live : c.sector # s
  BY <1>1, <1>5, AtPoint, HeldApart DEF HeldOK
<1>7. disk \in [Sector -> Inodes \union Data \union {Zeros, NULL}]
  BY TypedIs DEF IInv, StoreTypes
<1>8. /\ disk' \in [Sector -> Inodes \union Data \union {Zeros, NULL}]
      /\ disk'[c.sector] = Inode(c.start, c.size) /\ \A s \in Sector \ {c.sector} : disk'[s] = disk[s]
  BY <1>1, <1>2, <1>6, <1>7
<1>9. Live \subseteq Sector
  BY Entry DEF Live, Named, Opened, Used
<1>10. \A s \in Live : disk'[s] = disk[s]
  BY <1>6, <1>8, <1>9
<1>11. /\ Live' = Live /\ \A s \in Live : Blocks(s)' = Blocks(s)
       /\ \A s \in Live : Blocks(s) \subseteq free_map
       /\ \A s \in Named : Blocks(s) \subseteq disk_map /\ s \in Live
  BY <1>2, <1>10, SameBlocks, HeldApart
<1>12. HeldOK(p)' /\ Covered(p)'
  BY <1>1, <1>2, <1>4, <1>5, <1>11, AtPoint DEF HeldOK, Covered
<1>13. Shape(l, c)
  BY <1>1, <1>3 DEF Shape, Place, Making, MakingPlaces, ClosingPlaces
<1>14. Knows(p)'
  BY <1>1, <1>2, <1>3, <1>4, <1>8 DEF Knows
<1>15. \A s \in Sector : Using(p, s)' = Using(p, s)
  BY <1>1, <1>3, <1>4 DEF Using
<1> QED BY <1>1, <1>2, <1>4, <1>8, <1>10, <1>11, <1>12, <1>13, <1>14, <1>15, QuietStep

LEMMA WriteZerosStep ==
    ASSUME IInv, NEW p \in Proc, Proc = {p}, WriteZeros(p)
    PROVE  IInv'
<1> DEFINE c == call[p]
<1>1. /\ pc[p] = "zero" /\ c \in CallRecords /\ Shape("zero", c) /\ disk_map = free_map
      /\ c.op = "create" /\ c.name \in Name /\ c.fd = NULL /\ Inode(c.start, c.size) \in Inodes
      /\ free_map \subseteq Sector /\ lost \subseteq Sector /\ disk_map \subseteq Sector
      /\ (c.start = 0 => c.size = 0) /\ disk[c.sector] = Inode(c.start, c.size)
  BY AtPoint DEF WriteZeros, Shape, Place, ClosingPlaces, Making, MakingPlaces, Knows
<1>2. PICK e : e = Extent(Inode(c.start, c.size)) /\ Rest(c) = e
  BY <1>1, RestIs
<1>3. /\ UNCHANGED <<root, disk_map, free_map, open_inodes, fd, fileLock, call, leaked, lost>>
      /\ disk' = [s \in Sector |-> IF s \in e THEN Zeros ELSE disk[s]]
  BY <1>2 DEF WriteZeros, memory, ghosts
<1>4. Moved(p, "lookup", c) /\ pc'[p] = "lookup" /\ call'[p] = c /\ "lookup" \in Labels
  BY AtPoint DEF WriteZeros, Moved, Goto, memory, Labels
<1>5. HoldsInode("zero", c) /\ HoldsInode("lookup", c) /\ Held("lookup", c) = Held("zero", c)
      /\ Held("zero", c) = {c.sector} \union e
  BY <1>1, <1>2 DEF Held, HoldsInode, Making, MakingPlaces, Place
<1>6. /\ c.sector \in Sector /\ c.sector \notin e /\ \A s \in Live : s \notin e
  BY <1>1, <1>2, <1>5, AtPoint, HeldApart DEF HeldOK
<1>7. disk \in [Sector -> Inodes \union Data \union {Zeros, NULL}]
  BY TypedIs DEF IInv, StoreTypes
<1>8. disk' \in [Sector -> Inodes \union Data \union {Zeros, NULL}]
  BY <1>3, <1>7
<1>9. Live \subseteq Sector
  BY Entry DEF Live, Named, Opened, Used
<1>10. disk'[c.sector] = disk[c.sector] /\ \A s \in Live : disk'[s] = disk[s]
  BY <1>3, <1>6, <1>9
<1>11. /\ Live' = Live /\ \A s \in Live : Blocks(s)' = Blocks(s)
       /\ \A s \in Live : Blocks(s) \subseteq free_map
       /\ \A s \in Named : Blocks(s) \subseteq disk_map /\ s \in Live
  BY <1>3, <1>10, SameBlocks, HeldApart
<1>12. HeldOK(p)' /\ Covered(p)'
  BY <1>1, <1>3, <1>4, <1>5, <1>11, AtPoint DEF HeldOK, Covered
<1>13. Shape("lookup", c)
  BY <1>1 DEF Shape, Place, Making, MakingPlaces, ClosingPlaces
<1>14. Knows(p)'
  BY <1>1, <1>3, <1>4, <1>10 DEF Knows
<1>15. \A s \in Sector : Using(p, s)' = Using(p, s)
  BY <1>1, <1>4 DEF Using
<1> QED BY <1>1, <1>3, <1>4, <1>8, <1>10, <1>11, <1>12, <1>13, <1>14, <1>15, QuietStep

\* A step that takes some of what the call holds off the free map in memory; the
\* rest it keeps or gives up for lost.
LEMMA ReleaseStep ==
    ASSUME IInv, NEW p \in Proc, Proc = {p}, pc[p] \in {"undo", "release_inode", "release_data"},
           UNCHANGED <<onDisk, open_inodes, fd, fileLock, leaked>>,
           NEW next \in {"idle", "release_data", "closed"},
           next = "release_data" <=> pc[p] = "release_inode", next = "idle" <=> pc[p] = "undo",
           ThenWrites(p, call[p], next),
           NEW free, free \subseteq Held(pc[p], call[p]), free_map' = free_map \ free,
           next = "release_data" => Rest(call[p]) \intersect free = {},
           lost' = lost \union
             (Held(pc[p], call[p]) \ (free \union IF next = "release_data" THEN Rest(call[p]) ELSE {}))
    PROVE  IInv'
<1> DEFINE c == call[p]
           l == pc[p]
           kept == IF next = "release_data" THEN Rest(c) ELSE {}
<1>1. /\ c \in CallRecords /\ Shape(l, c) /\ disk_map = free_map /\ HeldOK(p) /\ Covered(p)
      /\ free_map \subseteq Sector /\ lost \subseteq Sector /\ disk_map \subseteq Sector
      /\ {"write_map", next} \subseteq Labels
  BY AtPoint DEF Labels
<1>2. UNCHANGED <<root, disk_map, disk, leaked>>
  BY DEF onDisk
<1>3. PICK d : d = [c EXCEPT !.next = next]
  OBVIOUS
<1>4. /\ d \in CallRecords /\ d.op = c.op /\ d.name = c.name /\ d.size = c.size /\ d.fd = c.fd
      /\ d.start = c.start /\ d.sector = c.sector /\ d.next = next
  BY <1>1, <1>3 DEF CallRecords
<1>5. Moved(p, "write_map", d) /\ pc'[p] = "write_map" /\ call'[p] = d
  BY <1>3, AtPoint DEF ThenWrites, Moved, Goto, With
<1>6. Rest(d) = Rest(c) /\ (next = "release_data" => Rest(c) \subseteq Held(l, c))
  BY <1>4 DEF Rest, Held, HoldsInode, Place
<1>7. Held("write_map", d) = kept /\ ~HoldsInode("write_map", d)
  BY <1>4, <1>6 DEF Held, HoldsInode, Making, MakingPlaces, Place
<1>8. kept \subseteq Held(l, c) \ free /\ lost' = lost \union (Held(l, c) \ (free \union kept))
  BY <1>6
<1> HIDE DEF kept
<1>9. /\ Live' = Live /\ \A s \in Live : Blocks(s)' = Blocks(s)
      /\ \A s \in Live : Blocks(s) \subseteq free_map /\ \A x \in Held(l, c) : x \notin Blocks(s)
      /\ \A s \in Named : Blocks(s) \subseteq disk_map /\ s \in Live
      /\ Held(l, c) \subseteq Sector
  BY <1>2, SameBlocks, HeldApart
<1>10. HeldOK(p)'
  BY <1>1, <1>5, <1>7, <1>8, <1>9 DEF HeldOK
<1>11. Covered(p)'
  <2>1. ASSUME NEW x \in free_map'
        PROVE  x \in lost' \/ x \in kept \/ \E s \in Live : x \in Blocks(s)
    BY <1>1, <1>8, <2>1 DEF Covered
  <2> QED BY <1>5, <1>7, <1>9, <2>1 DEF Covered
<1>12. Shape("write_map", d)
  <2>1. c.op = "create" <=> l = "undo"
    BY <1>1 DEF Shape, Place, ClosingPlaces
  <2>2. c.fd # NULL => l # "undo"
    BY <1>1 DEF Shape, Place, ClosingPlaces
  <2>3. l # "undo" => (c.start = 0 => c.size = 0) /\ c.op \in {"remove", "close", "exit"}
    BY <1>1 DEF Shape, Place, ClosingPlaces
  <2>4. c.op = "create" => c.name \in Name
    BY <1>1 DEF Shape
  <2> QED BY <1>4, <2>1, <2>2, <2>3, <2>4 DEF Shape, Place, Making, MakingPlaces, ClosingPlaces
<1>13. Knows(p)'
  BY <1>5 DEF Knows
<1>14. \A s \in Sector : Using(p, s)' = Using(p, s)
  BY <1>5 DEF Using
<1>15. /\ disk \in [Sector -> Inodes \union Data \union {Zeros, NULL}]
       /\ free_map' \subseteq Sector /\ lost' \subseteq Sector
  BY <1>1, <1>8, <1>9, TypedIs DEF IInv, StoreTypes
<1>16. \A s \in Live : Blocks(s) \subseteq free_map'
  BY <1>9
<1> QED BY <1>1, <1>2, <1>4, <1>5, <1>9, <1>10, <1>11, <1>12, <1>13, <1>14, <1>15, <1>16, QuietStep

LEMMA UndoStep ==
    ASSUME IInv, NEW p \in Proc, Proc = {p}, Undo(p)
    PROVE  IInv'
<1> DEFINE c == call[p]
<1>1. /\ pc[p] = "undo" /\ c.op = "create" /\ c \in CallRecords /\ HeldOK(p)
      /\ UNCHANGED <<onDisk, open_inodes, fd, fileLock, leaked>> /\ ThenWrites(p, c, "idle")
      /\ free_map' = free_map \ {c.sector}
      /\ lost' = IF c.start = 0 THEN lost ELSE lost \union Extent(Inode(c.start, c.size))
  BY AtPoint DEF Undo, Shape, Place
<1>2. HoldsInode("undo", c) /\ Held("undo", c) = {c.sector} \union Rest(c) /\ c.sector \notin Rest(c)
  BY <1>1 DEF Held, HoldsInode, Making, MakingPlaces, Place, HeldOK
<1>3. lost' = lost \union Rest(c)
  BY <1>1 DEF Rest
<1>4. lost' = lost \union (Held("undo", c) \ {c.sector})
  BY <1>2, <1>3
<1> QED BY <1>1, <1>2, <1>4, ReleaseStep

LEMMA ReleaseInodeStep ==
    ASSUME IInv, NEW p \in Proc, Proc = {p}, ReleaseInode(p)
    PROVE  IInv'
<1> DEFINE c == call[p]
<1>1. /\ pc[p] = "release_inode" /\ c \in CallRecords /\ HeldOK(p)
      /\ UNCHANGED <<onDisk, open_inodes, fd, fileLock, leaked, lost>> /\ ThenWrites(p, c, "release_data")
      /\ free_map' = free_map \ {c.sector}
  BY AtPoint DEF ReleaseInode, ghosts
<1>2. Held("release_inode", c) = {c.sector} \union Rest(c) /\ c.sector \notin Rest(c)
  BY <1>1 DEF Held, HoldsInode, Making, MakingPlaces, Place, HeldOK
<1>3. lost' = lost \union (Held("release_inode", c) \ ({c.sector} \union Rest(c)))
  BY <1>1, <1>2
<1> QED BY <1>1, <1>2, <1>3, ReleaseStep

LEMMA ReleaseDataStep ==
    ASSUME IInv, NEW p \in Proc, Proc = {p}, ReleaseData(p)
    PROVE  IInv'
<1> DEFINE c == call[p]
<1>1. /\ pc[p] = "release_data" /\ c \in CallRecords /\ (c.start = 0 => c.size = 0)
      /\ c.op \in {"remove", "close", "exit"}
      /\ UNCHANGED <<onDisk, open_inodes, fd, fileLock, leaked, lost>> /\ ThenWrites(p, c, "closed")
      /\ free_map' = free_map \ Extent(Inode(c.start, c.size))
  BY AtPoint DEF ReleaseData, ghosts, Shape, Place, ClosingPlaces
<1>2. Held("release_data", c) = Rest(c) /\ Rest(c) = Extent(Inode(c.start, c.size))
  BY <1>1, RestIs DEF Held, HoldsInode, Making, MakingPlaces, Place
<1>3. lost' = lost \union (Held("release_data", c) \ Rest(c)) /\ free_map' = free_map \ Rest(c)
  BY <1>1, <1>2
<1> QED BY <1>1, <1>2, <1>3, ReleaseStep

\* The free map on disk follows the one in memory.
LEMMA WriteMapStep ==
    ASSUME IInv, NEW p \in Proc, Proc = {p}, WriteMap(p)
    PROVE  IInv'
<1> DEFINE c == call[p]
<1>1. /\ pc[p] = "write_map" /\ c \in CallRecords /\ Shape("write_map", c) /\ HeldOK(p) /\ Covered(p)
      /\ free_map \subseteq Sector /\ lost \subseteq Sector
      /\ c.next \in {"alloc_data", "write_inode", "idle", "release_data", "closed"}
  BY AtPoint DEF WriteMap, Shape
<1>2. UNCHANGED <<root, disk, free_map, open_inodes, fd, leaked, lost>> /\ disk_map' = free_map
  BY DEF WriteMap, ghosts
<1>3. /\ Live' = Live /\ \A s \in Live : Blocks(s)' = Blocks(s) /\ Blocks(s) \subseteq free_map
      /\ \A s \in Named : Blocks(s) \subseteq disk_map' /\ s \in Live
      /\ disk \in [Sector -> Inodes \union Data \union {Zeros, NULL}]
  <2>1. \A s \in Named : s \in Live
    BY DEF Live
  <2> QED BY <1>2, <2>1, SameBlocks, HeldApart, TypedIs DEF IInv, StoreTypes
<1>4. ASSUME NEW l \in {"alloc_data", "write_inode", "idle", "release_data", "closed", "exit"},
             NEW d \in CallRecords, Moved(p, l, d), l \in Labels, Shape(l, d), d.fd = c.fd,
             Held(l, d) = Held("write_map", c),
             HoldsInode(l, d) => HoldsInode("write_map", c) /\ d.sector = c.sector /\ Rest(d) = Rest(c)
      PROVE  IInv'
  <2>1. pc'[p] = l /\ call'[p] = d
    BY <1>4, AtPoint DEF Moved
  <2>2. HeldOK(p)' /\ Covered(p)'
    BY <1>1, <1>2, <1>3, <1>4, <2>1 DEF HeldOK, Covered
  <2>3. Knows(p)'
    BY <1>2, <1>4, <2>1, NothingKnownLater
  <2>4. \A s \in Sector : Using(p, s)' = Using(p, s)
    BY <1>1, <1>4, <2>1 DEF Using
  <2> QED BY <1>1, <1>2, <1>3, <1>4, <2>2, <2>3, <2>4, QuietStep
<1>5. CASE c.next = "idle"
  <2>1. PICK l \in {"idle", "exit"}, d \in CallRecords :
            /\ Moved(p, l, d) /\ d.fd = NULL /\ Shape(l, d) /\ l \in Labels
    BY <1>5, Returned DEF WriteMap, IInv
  <2>2. Held(l, d) = {} /\ ~HoldsInode(l, d) /\ Held("write_map", c) = {} /\ c.fd = NULL
    BY <1>1, <1>5, <2>1, NothingHeld DEF Held, HoldsInode, Making, MakingPlaces, Place, Shape, ClosingPlaces
  <2> QED BY <1>4, <2>1, <2>2
<1>6. CASE c.next # "idle"
  <2>1. PICK l \in {"alloc_data", "write_inode", "release_data", "closed"} : l = c.next
    BY <1>1, <1>6
  <2>2. Moved(p, l, c) /\ l \in Labels
    BY <1>6, <2>1, AtPoint DEF WriteMap, Moved, Goto, Labels
  <2>3. Place(l, c) = l /\ Place("write_map", c) = l
    BY <2>1 DEF Place
  <2>4. Held(l, c) = Held("write_map", c) /\ (HoldsInode(l, c) <=> HoldsInode("write_map", c))
    BY <2>3 DEF Held, HoldsInode, Making
  <2>5. Shape(l, c)
    BY <1>1, <2>1, <2>3 DEF Shape, Making
  <2> QED BY <1>1, <1>4, <2>1, <2>2, <2>4, <2>5
<1> QED BY <1>5, <1>6

----------------------------------------------------------------------------
(* The directory gets an entry or loses one.                               *)

LEMMA Together ==
    ASSUME NEW p \in Proc, Proc = {p}, Typed', FilesOK', NamesOK', OpensOK', OpensCounted',
           Shape(pc'[p], call'[p]), HeldOK(p)', Covered(p)', Knows(p)'
    PROVE  IInv'
  BY DEF IInv, CallOK

\* An inode that a call has open is listed.
LEMMA InUseOpened ==
    ASSUME IInv, NEW p \in Proc, Proc = {p}, NEW s \in Sector, Using(p, s)
    PROVE  open_inodes[s] # NULL
<1>1. CountOK(p, s) /\ Cardinality(OpenFiles(s)) \in Nat /\ leaked[s] \in Nat
  BY CountOne, CountTypes DEF IInv
<1> QED BY <1>1 DEF CountOK

LEMMA StoreCreate ==
    ASSUME IInv, NEW p \in Proc, Proc = {p}, Store(p), call[p].op = "create",
           NEW c, c = call[p]
    PROVE  /\ IInv' /\ UNCHANGED <<disk, fd>> /\ c.fd = NULL /\ call'[p].fd = NULL
           /\ c.name \in Name /\ Unnamed(c.name) /\ c.sector \in Sector \ Live
           /\ Inode(c.start, c.size) \in Inodes /\ disk[c.sector] = Inode(c.start, c.size)
           /\ Named' = Named \union {c.sector} /\ Used' = Used \union {c.slot}
           /\ root'[c.slot].name = c.name /\ root'[c.slot].sector = c.sector
           /\ \A j \in Used : root'[j] = root[j]
<1> DEFINE i == c.slot
           s == c.sector
           entry == [name |-> c.name, sector |-> s]
<1>1. /\ pc[p] = "store" /\ c \in CallRecords /\ c.op = "create" /\ c.name \in Name /\ i \in Slot
      /\ disk_map = free_map /\ c.fd = NULL /\ (c.start = 0 => c.size = 0)
      /\ Inode(c.start, c.size) \in Inodes
      /\ disk[s] = Inode(c.start, c.size) /\ Unnamed(c.name) /\ root[i] = NULL /\ c.bounce = root
      /\ HeldOK(p) /\ Covered(p) /\ root \in [Slot -> Entries \union {NULL}]
  BY AtPoint DEF Store, Shape, Place, ClosingPlaces, Making, MakingPlaces, Knows
<1>2. /\ UNCHANGED <<disk_map, disk, free_map, open_inodes, fd, leaked, lost>> /\ Returns(p)
      /\ root' = [root EXCEPT ![i] = entry]
  BY <1>1 DEF Store, ghosts
<1>3. /\ HoldsInode("store", c) /\ Rest(c) = Extent(disk[s])
      /\ Held("store", c) = {s} \union Extent(disk[s])
  BY <1>1, RestIs DEF Held, HoldsInode, Making, MakingPlaces, Place
<1>4. /\ s \in Sector /\ s \notin Extent(disk[s]) /\ Held("store", c) = Blocks(s) /\ Blocks(s) \subseteq free_map
      /\ \A t \in Live : Blocks(s) \intersect Blocks(t) = {} /\ t # s
  <2>1. \A t : t \in Blocks(t)
    BY DEF Blocks
  <2>2. Held("store", c) = Blocks(s)
    BY <1>3 DEF Blocks
  <2> QED BY <1>1, <1>3, <2>1, <2>2 DEF HeldOK
<1>5. entry \in Entries /\ entry # NULL /\ entry.name = c.name /\ entry.sector = s
  BY <1>1, <1>4, FileSysAssumption DEF Entries
<1>6. root'[i] = entry /\ \A j \in Slot \ {i} : root'[j] = root[j]
  BY <1>1, <1>2
<1> HIDE DEF entry
<1>7. Used' = Used \union {i} /\ i \notin Used /\ root' \in [Slot -> Entries \union {NULL}]
  BY <1>1, <1>2, <1>5, <1>6 DEF Used
<1>8. Named' = Named \union {s}
  <2>1. Named = {root[j].sector : j \in Used} /\ Named' = {root'[j].sector : j \in Used'}
    BY DEF Named, Used
  <2>2. \A j \in Used : root'[j] = root[j]
    BY <1>6, <1>7 DEF Used
  <2> QED BY <1>5, <1>6, <1>7, <2>1, <2>2
<1>9. Opened' = Opened /\ Live' = Live \union {s} /\ \A t : Blocks(t)' = Blocks(t)
  BY <1>2, <1>8 DEF Opened, Live, Blocks
<1>10. PICK l \in {"idle", "exit"}, d \in CallRecords :
          /\ Moved(p, l, d) /\ d.fd = NULL /\ d.op \in {"none", "exit"} /\ Shape(l, d) /\ l \in Labels
  BY <1>2, Returned DEF IInv
<1>11. Typed' /\ pc'[p] = l /\ call'[p] = d
  <2>1. StoreTypes'
    BY <1>2, <1>7, TypedIs DEF IInv, StoreTypes
  <2> QED BY <1>10, <2>1, TypedMoved DEF IInv
<1>12. FilesOK'
  <2>1. FilesOK
    BY DEF IInv
  <2>2. \A t \in Live : /\ disk[t] \in Inodes /\ t \notin Extent(disk[t])
                        /\ Blocks(t) \subseteq free_map
    BY <2>1 DEF FilesOK
  <2>3. \A t, u \in Live' : t # u => Blocks(t) \intersect Blocks(u) = {}
    BY <1>4, <1>9, <2>1 DEF FilesOK
  <2>4. disk[s] \in Inodes
    BY <1>1
  <2> QED BY <1>2, <1>4, <1>9, <2>2, <2>3, <2>4 DEF FilesOK
<1>13. NamesOK'
  <2>1. NamesOK /\ \A j \in Used : root[j].sector # s /\ root[j].name # c.name /\ root'[j] = root[j]
    BY <1>1, <1>4, <1>6, <1>7, Entry DEF Unnamed, Live, Used, IInv
  <2>2. ASSUME NEW j \in Used', NEW k \in Used', j # k
        PROVE  root'[j].name # root'[k].name /\ root'[j].sector # root'[k].sector
    BY <1>5, <1>6, <1>7, <2>1, <2>2 DEF NamesOK
  <2>3. \A t \in Named' : Blocks(t) \subseteq disk_map
    BY <1>1, <1>4, <1>8, <2>1 DEF NamesOK
  <2> QED BY <1>2, <1>9, <2>2, <2>3 DEF NamesOK
<1>14. OpensOK'
  <2>1. \A t \in Opened : t # s
    BY <1>4 DEF Live
  <2> QED BY <1>1, <1>2, <1>8, <1>9, <2>1 DEF OpensOK, IInv
<1>15. OpensCounted'
  <2>1. \A t \in Sector : Using(p, t)' = Using(p, t)
    BY <1>1, <1>10, <1>11 DEF Using
  <2>2. \A t \in Sector : SameOpens(p, t)
    BY <1>1, <1>2, <1>10, <1>11, <2>1, SameOpenFiles DEF SameOpens
  <2> QED BY <2>2, CountKept DEF IInv
<1>16. Held(l, d) = {} /\ ~HoldsInode(l, d)
  BY <1>10, NothingHeld
<1>17. HeldOK(p)' /\ Covered(p)'
  BY <1>1, <1>2, <1>4, <1>9, <1>11, <1>16 DEF HeldOK, Covered
<1>18. Knows(p)'
  BY <1>1, <1>2, <1>10, <1>11, NothingKnownLater
<1>19. IInv'
  BY <1>10, <1>11, <1>12, <1>13, <1>14, <1>15, <1>17, <1>18, Together
<1>20. \A j \in Used : root'[j] = root[j]
  BY <1>6, <1>7 DEF Used
<1> QED BY <1>1, <1>2, <1>4, <1>5, <1>6, <1>7, <1>8, <1>10, <1>11, <1>19, <1>20

LEMMA StoreRemove ==
    ASSUME IInv, NEW p \in Proc, Proc = {p}, Store(p), call[p].op # "create",
           NEW c, c = call[p]
    PROVE  /\ IInv' /\ UNCHANGED <<disk, fd>> /\ c.fd = NULL /\ call'[p].fd = NULL
           /\ c.slot \in Used /\ Used' = Used \ {c.slot} /\ Named' \subseteq Named
           /\ \A j \in Used' : root'[j] = root[j]
<1> DEFINE i == c.slot
           s == c.sector
<1>1. /\ pc[p] = "store" /\ c \in CallRecords /\ c.op = "remove" /\ i \in Used
      /\ disk_map = free_map /\ c.fd = NULL /\ (c.start = 0 => c.size = 0)
      /\ root[i].sector = s /\ c.bounce = root
      /\ HeldOK(p) /\ Covered(p) /\ root \in [Slot -> Entries \union {NULL}] /\ "remove_inode" \in Labels
  BY AtPoint DEF Store, Shape, Place, ClosingPlaces, Knows, Labels
<1>2. /\ UNCHANGED <<disk_map, disk, free_map, open_inodes, fd, fileLock, leaked, lost>>
      /\ root' = [root EXCEPT ![i] = NULL]
  BY <1>1 DEF Store, ghosts
<1>3. PICK d : d = [c EXCEPT !.bounce = NULL]
  OBVIOUS
<1>4. /\ d \in CallRecords /\ d.op = c.op /\ d.name = c.name /\ d.size = c.size /\ d.fd = c.fd
      /\ d.start = c.start /\ d.slot = c.slot /\ d.sector = c.sector
  BY <1>1, <1>3 DEF CallRecords
<1>5. Moved(p, "remove_inode", d)
  BY <1>1, <1>3, AtPoint DEF Store, Moved, Goto, With
<1>6. i \in Slot /\ s \in Sector /\ s \in Named
  BY <1>1, Entry
<1>7. root'[i] = NULL /\ (\A j \in Slot \ {i} : root'[j] = root[j]) /\ root' \in [Slot -> Entries \union {NULL}]
  BY <1>1, <1>2, <1>6
<1>8. Used' = Used \ {i}
  BY <1>7 DEF Used
<1>9. Named' = Named \ {s}
  <2>1. Named = {root[j].sector : j \in Used} /\ Named' = {root'[j].sector : j \in Used'}
    BY DEF Named, Used
  <2>2. \A j \in Used' : root'[j] = root[j] /\ j \in Used
    BY <1>7, <1>8 DEF Used
  <2>3. \A j \in Used : j # i => root[j].sector # s
    BY <1>1 DEF IInv, NamesOK
  <2> QED BY <1>1, <1>8, <2>1, <2>2, <2>3
<1>10. Using(p, s) /\ s \in Opened
  <2>1. Using(p, s)
    BY <1>1 DEF Using
  <2> QED BY <1>6, <2>1, InUseOpened DEF Opened
<1>11. Opened' = Opened /\ Live' = Live /\ \A t : Blocks(t)' = Blocks(t)
  BY <1>2, <1>9, <1>10 DEF Opened, Live, Blocks
<1>12. Typed' /\ pc'[p] = "remove_inode" /\ call'[p] = d
  <2>1. StoreTypes'
    BY <1>2, <1>7, TypedIs DEF IInv, StoreTypes
  <2> QED BY <1>1, <1>4, <1>5, <2>1, TypedMoved DEF IInv
<1>13. FilesOK'
  BY <1>2, <1>11 DEF FilesOK, IInv
<1>14. NamesOK'
  <2>1. \A j \in Used' : root'[j] = root[j] /\ j \in Used
    BY <1>7, <1>8 DEF Used
  <2> QED BY <1>2, <1>9, <1>11, <2>1 DEF NamesOK, IInv
<1>15. OpensOK'
  BY <1>1, <1>2, <1>4, <1>9, <1>11, <1>12 DEF OpensOK, IInv
<1>16. OpensCounted'
  <2>1. \A t \in Sector : Using(p, t)' = Using(p, t)
    BY <1>1, <1>4, <1>12 DEF Using
  <2>2. \A t \in Sector : SameOpens(p, t)
    BY <1>2, <1>4, <1>12, <2>1, SameOpenFiles DEF SameOpens
  <2> QED BY <2>2, CountKept DEF IInv
<1>17. Held("remove_inode", d) = {} /\ ~HoldsInode("remove_inode", d) /\ Held("store", c) = {}
  BY <1>1, <1>4 DEF Held, HoldsInode, Making, MakingPlaces, Place
<1>18. HeldOK(p)' /\ Covered(p)'
  BY <1>1, <1>2, <1>11, <1>12, <1>17 DEF HeldOK, Covered
<1>19. Knows(p)'
  <2>1. ~open_inodes[s].removed
    BY <1>6, <1>10 DEF OpensOK, IInv
  <2> QED BY <1>1, <1>2, <1>4, <1>9, <1>10, <1>11, <1>12, <2>1 DEF Knows
<1>20. Shape("remove_inode", d)
  BY <1>1, <1>4, AtPoint DEF Shape, Place, Making, MakingPlaces, ClosingPlaces
<1>21. IInv'
  BY <1>12, <1>13, <1>14, <1>15, <1>16, <1>18, <1>19, <1>20, Together
<1>22. \A j \in Used' : root'[j] = root[j]
  BY <1>7, <1>8 DEF Used
<1> QED BY <1>1, <1>2, <1>4, <1>8, <1>9, <1>12, <1>21, <1>22

----------------------------------------------------------------------------
(* Inodes in memory.                                                       *)

\* Steps that change only what is in memory, and no sector's owner.
LEMMA MemoryStep ==
    ASSUME IInv, NEW p \in Proc, Proc = {p}, NEW l \in Labels, NEW c \in CallRecords, Moved(p, l, c),
           UNCHANGED <<onDisk, free_map, lost>>, pc[p] # "write_map",
           open_inodes' \in [Sector -> OpenedInodes \union {NULL}],
           fd' \in [Proc -> [Fd -> OpenedFiles \union {NULL}]],
           leaked' \in [Sector -> Nat],
           Live' \subseteq Live, \A x \in UNION {Blocks(s) : s \in Live \ Live'} : x \in Held(l, c),
           Held(pc[p], call[p]) \subseteq Held(l, c), Shape(l, c), HeldOK(p)', OpensOK', OpensCounted',
           Knows(p)'
    PROVE  IInv'
<1>1. UNCHANGED <<root, disk_map, disk>> /\ FilesOK /\ NamesOK /\ Covered(p)
  BY AtPoint DEF onDisk, IInv
<1>2. StoreTypes'
  BY <1>1, TypedIs DEF IInv, StoreTypes
<1>3. Typed' /\ pc'[p] = l /\ call'[p] = c
  BY <1>2, TypedMoved DEF IInv
<1>4. \A s \in Live : Blocks(s)' = Blocks(s) /\ Blocks(s) \subseteq free_map
  BY <1>1 DEF Blocks, FilesOK
<1>5. FilesOK'
  BY <1>1, <1>4, FilesKept
<1>6. NamesOK'
  BY <1>1, NamesKept DEF NamesOK
<1>7. Covered(p)'
  <2>1. ASSUME NEW x \in free_map
        PROVE  x \in lost \/ x \in Held(l, c) \/ \E s \in Live' : x \in Blocks(s)
    <3>1. CASE x \in lost \/ x \in Held(pc[p], call[p])
      BY <3>1
    <3>2. CASE \E s \in Live : x \in Blocks(s)
      BY <3>2
    <3> QED BY <1>1, <3>1, <3>2 DEF Covered
  <2> QED BY <1>3, <1>4, <2>1 DEF Covered
<1> QED BY <1>3, <1>5, <1>6, <1>7, Together

LEMMA ChangeInode ==
    ASSUME Typed, NEW s \in Sector, NEW v \in OpenedInodes \union {NULL},
           open_inodes' = [open_inodes EXCEPT ![s] = v]
    PROVE  /\ open_inodes' \in [Sector -> OpenedInodes \union {NULL}]
           /\ open_inodes'[s] = v /\ \A r \in Sector \ {s} : open_inodes'[r] = open_inodes[r]
           /\ Opened' = IF v = NULL THEN Opened \ {s} ELSE Opened \union {s}
<1>1. open_inodes \in [Sector -> OpenedInodes \union {NULL}]
  BY TypedIs DEF StoreTypes
<1>2. /\ open_inodes' \in [Sector -> OpenedInodes \union {NULL}]
      /\ open_inodes'[s] = v /\ \A r \in Sector \ {s} : open_inodes'[r] = open_inodes[r]
  BY <1>1
<1> QED BY <1>2 DEF Opened

\* The fields of an inode in memory, and one that counts more or fewer openers.
LEMMA InodeFields ==
    ASSUME Typed, NEW s \in Sector, open_inodes[s] # NULL
    PROVE  /\ open_inodes[s] \in OpenedInodes
           /\ open_inodes[s].open_cnt \in Nat \ {0} /\ open_inodes[s].deny_write_cnt \in Nat
           /\ open_inodes[s].removed \in BOOLEAN
           /\ open_inodes[s].data \in Inodes \union {NULL}
<1>1. open_inodes[s] \in OpenedInodes
  BY TypedIs DEF StoreTypes
<1> QED BY <1>1 DEF OpenedInodes

\* Between OpenInode and the end of the call nothing is held.
LEMMA OpenerHolds ==
    \A c \in CallRecords : \A l \in {"open_inode", "load", "install", "fetch", "store", "remove_inode"} :
        c.op \in {"remove", "open", "exec"} => Held(l, c) = {} /\ ~HoldsInode(l, c)
  BY DEF Held, HoldsInode, Making, MakingPlaces, Place

LEMMA OpenInodeStep ==
    ASSUME IInv, NEW p \in Proc, Proc = {p}, OpenInode(p)
    PROVE  IInv'
<1> DEFINE c == call[p]
<1>0. PICK s : s = c.sector
  OBVIOUS
<1> DEFINE o == open_inodes[s]
<1>1. /\ pc[p] = "open_inode" /\ c \in CallRecords /\ c.op \in {"remove", "open", "exec"} /\ c.fd = NULL
      /\ Shape("open_inode", c) /\ Knows(p) /\ s \in Named
      /\ disk_map = free_map /\ {"load", "fetch", "install"} \subseteq Labels
  BY <1>0, AtPoint DEF OpenInode, Shape, Place, ClosingPlaces, Knows, Labels
<1>2. /\ UNCHANGED <<onDisk, free_map, fd, fileLock, call, leaked, lost>>
      /\ UNCHANGED <<root, disk, disk_map>>
  BY DEF OpenInode, onDisk, ghosts
<1>3. s \in Sector /\ s \in Live
  BY <1>1, Entry DEF Named, Used, Live
<1>4. PICK l : l = IF o = NULL THEN "load" ELSE IF c.op = "remove" THEN "fetch" ELSE "install"
  OBVIOUS
<1>5. Moved(p, l, c) /\ pc'[p] = l /\ call'[p] = c /\ l \in Labels /\ l \in {"load", "fetch", "install"}
  BY <1>0, <1>1, <1>2, <1>4, AtPoint DEF OpenInode, Moved, Goto
<1>6. PICK v : v = IF o # NULL THEN [o EXCEPT !.open_cnt = o.open_cnt + 1]
                   ELSE [open_cnt |-> 1, removed |-> FALSE, deny_write_cnt |-> 0, data |-> NULL]
  OBVIOUS
<1>7. open_inodes' = [open_inodes EXCEPT ![s] = v]
  <2>1. open_inodes' = [open_inodes EXCEPT ![s] = IF o # NULL THEN [o EXCEPT !.open_cnt = o.open_cnt + 1]
                   ELSE [open_cnt |-> 1, removed |-> FALSE, deny_write_cnt |-> 0, data |-> NULL]]
    BY <1>0 DEF OpenInode
  <2> QED BY <1>6, <2>1
<1>8. /\ v \in OpenedInodes /\ v # NULL
      /\ o # NULL => /\ v.open_cnt = o.open_cnt + 1 /\ v.removed = o.removed
                     /\ v.deny_write_cnt = o.deny_write_cnt /\ v.data = o.data
      /\ o = NULL => v.open_cnt = 1 /\ v.removed = FALSE /\ v.deny_write_cnt = 0
  <2>1. CASE o = NULL
    <3>1. v = [open_cnt |-> 1, removed |-> FALSE, deny_write_cnt |-> 0, data |-> NULL]
      BY <1>6, <2>1
    <3>2. v \in OpenedInodes
      BY <3>1 DEF OpenedInodes
    <3> QED BY <2>1, <3>1, <3>2, FileSysAssumption
  <2>2. CASE o # NULL
    <3>1. PICK n \in Nat \ {0} : n = o.open_cnt
      BY <1>3, <2>2, InodeFields DEF IInv
    <3>2. o \in OpenedInodes /\ n + 1 \in Nat \ {0} /\ v = [o EXCEPT !.open_cnt = n + 1]
      BY <1>3, <1>6, <2>2, <3>1, InodeFields DEF IInv
    <3>3. v \in OpenedInodes
      BY <3>2 DEF OpenedInodes
    <3> QED BY <2>2, <3>1, <3>2, <3>3, FileSysAssumption DEF OpenedInodes
  <2> QED BY <2>1, <2>2
<1>9. /\ open_inodes' \in [Sector -> OpenedInodes \union {NULL}]
      /\ open_inodes'[s] = v /\ \A r \in Sector \ {s} : open_inodes'[r] = open_inodes[r]
      /\ Opened' = Opened \union {s}
  BY <1>3, <1>7, <1>8, ChangeInode DEF IInv
<1>10. Named' = Named /\ Used' = Used /\ Live' = Live
  BY <1>1, <1>2, <1>9 DEF Named, Used, Live
<1>11. OpensOK'
  <2>1. \A r \in Opened : /\ open_inodes[r].data = disk[r]
                          /\ open_inodes[r].removed => r \notin Named
                          /\ open_inodes[r].removed \/ r \in Named
    BY <1>1 DEF OpensOK, IInv
  <2>2. o # NULL => s \in Opened
    BY <1>3 DEF Opened
  <2>3. \/ v.data = disk[s] \/ (pc'[p] = "load" /\ call'[p].sector = s)
    BY <1>0, <1>4, <1>5, <1>8, <2>1, <2>2
  <2>4. ~v.removed
    BY <1>1, <1>8, <2>1, <2>2
  <2>5. ASSUME NEW r \in Opened'
        PROVE  /\ open_inodes'[r].data = disk[r] \/ (pc'[p] = "load" /\ call'[p].sector = r)
               /\ open_inodes'[r].removed => r \notin Named
               /\ open_inodes'[r].removed \/ r \in Named
    <3>1. CASE r = s
      BY <1>0, <1>1, <1>9, <2>3, <2>4, <3>1
    <3>2. CASE r # s
      BY <1>9, <2>1, <3>2 DEF Opened
    <3> QED BY <3>1, <3>2
  <2> QED BY <1>2, <1>10, <2>5 DEF OpensOK
<1>12. OpensCounted'
  <2>1. OpenFiles(s)' = OpenFiles(s) /\ Denying(s)' = Denying(s)
    BY <1>2, <1>5, SameOpenFiles
  <2>2. ~Using(p, s) /\ Using(p, s)'
    BY <1>0, <1>1, <1>5 DEF Using
  <2>3. \A r \in Sector \ {s} : SameOpens(p, r)
    <3>1. \A r \in Sector \ {s} : Using(p, r)' = Using(p, r)
      BY <1>0, <1>1, <1>5 DEF Using
    <3> QED BY <1>2, <1>5, <1>9, <3>1, SameOpenFiles DEF SameOpens
  <2>4. CountOK(p, s) /\ Cardinality(OpenFiles(s)) \in Nat /\ leaked[s] \in Nat
    BY <1>3, CountOne, CountTypes DEF IInv
  <2>5. o = NULL => Cardinality(OpenFiles(s)) = 0 /\ leaked[s] = 0 /\ Cardinality(Denying(s)) = 0
    <3>1. o = NULL => Cardinality(OpenFiles(s)) = 0 /\ leaked[s] = 0
      BY <2>2, <2>4 DEF CountOK
    <3>2. o = NULL => Denying(s) = {}
      BY <1>3, <3>1, CountTypes DEF Denying, IInv
    <3> QED BY <3>1, <3>2, FS_EmptySet
  <2>6. CountOK(p, s)'
    BY <1>2, <1>8, <1>9, <2>1, <2>2, <2>4, <2>5 DEF CountOK
  <2> QED BY <1>3, <2>3, <2>6, CountChanged DEF IInv
<1>13. Held(l, c) = {} /\ ~HoldsInode(l, c) /\ Held(pc[p], c) = {}
  BY <1>1, <1>5, OpenerHolds
<1>14. HeldOK(p)'
  BY <1>5, <1>13 DEF HeldOK
<1>15. Knows(p)'
  BY <1>0, <1>1, <1>2, <1>4, <1>5, <1>10 DEF Knows
<1>16. Shape(l, c)
  BY <1>1, <1>4, <1>5, AtPoint DEF Shape, Place, Making, MakingPlaces, ClosingPlaces, Knows, Used
<1>17. leaked \in [Sector -> Nat] /\ fd \in [Proc -> [Fd -> OpenedFiles \union {NULL}]]
  BY TypedIs DEF IInv, StoreTypes
<1> QED BY <1>1, <1>2, <1>5, <1>9, <1>10, <1>11, <1>12, <1>13, <1>14, <1>15, <1>16, <1>17, MemoryStep

LEMMA LoadInodeStep ==
    ASSUME IInv, NEW p \in Proc, Proc = {p}, LoadInode(p)
    PROVE  IInv'
<1> DEFINE c == call[p]
<1>0. PICK s : s = c.sector
  OBVIOUS
<1> DEFINE o == open_inodes[s]
<1>1. /\ pc[p] = "load" /\ c \in CallRecords /\ c.op \in {"remove", "open", "exec"} /\ c.fd = NULL
      /\ Shape("load", c) /\ Knows(p) /\ s \in Named
      /\ disk_map = free_map /\ {"fetch", "install"} \subseteq Labels
  BY <1>0, AtPoint DEF LoadInode, Shape, Place, ClosingPlaces, Knows, Labels
<1>2. /\ UNCHANGED <<onDisk, free_map, fd, fileLock, call, leaked, lost>>
      /\ UNCHANGED <<root, disk, disk_map>>
  BY DEF LoadInode, onDisk, ghosts
<1>3. s \in Sector /\ s \in Live /\ Using(p, s) /\ o # NULL
  <2>1. s \in Sector /\ s \in Live
    BY <1>1, Entry DEF Named, Used, Live
  <2>2. Using(p, s)
    BY <1>0, <1>1 DEF Using
  <2> QED BY <2>1, <2>2, InUseOpened
<1>4. PICK l : l = IF c.op = "remove" THEN "fetch" ELSE "install"
  OBVIOUS
<1>5. Moved(p, l, c) /\ pc'[p] = l /\ call'[p] = c /\ l \in Labels /\ l \in {"fetch", "install"}
  BY <1>1, <1>2, <1>4, AtPoint DEF LoadInode, Moved, Goto
<1>6. disk[s] \in Inodes
  BY <1>3 DEF FilesOK, IInv
<1>7. PICK v : v = [o EXCEPT !.data = disk[s]]
  OBVIOUS
<1>8. open_inodes' = [open_inodes EXCEPT ![s] = v]
  BY <1>0, <1>7 DEF LoadInode
<1>9. /\ v \in OpenedInodes /\ v # NULL /\ v.open_cnt = o.open_cnt /\ v.removed = o.removed
      /\ v.deny_write_cnt = o.deny_write_cnt /\ v.data = disk[s]
  <2>1. o \in OpenedInodes
    BY <1>3, InodeFields DEF IInv
  <2>2. v \in OpenedInodes
    BY <1>6, <1>7, <2>1 DEF OpenedInodes
  <2> QED BY <1>7, <2>1, <2>2, FileSysAssumption DEF OpenedInodes
<1>10. /\ open_inodes' \in [Sector -> OpenedInodes \union {NULL}]
       /\ open_inodes'[s] = v /\ \A r \in Sector \ {s} : open_inodes'[r] = open_inodes[r]
       /\ Opened' = Opened \union {s} /\ s \in Opened
  BY <1>3, <1>8, <1>9, ChangeInode DEF IInv, Opened
<1>11. Named' = Named /\ Used' = Used /\ Live' = Live /\ Opened' = Opened
  BY <1>2, <1>10 DEF Named, Used, Live
<1>12. OpensOK'
  <2>1. \A r \in Opened : /\ r # s => open_inodes[r].data = disk[r]
                          /\ open_inodes[r].removed => r \notin Named
                          /\ open_inodes[r].removed \/ r \in Named
    BY <1>0, <1>1 DEF OpensOK, IInv
  <2>2. \A r \in Opened : /\ open_inodes'[r].data = disk[r]
                          /\ open_inodes'[r].removed => r \notin Named
                          /\ open_inodes'[r].removed \/ r \in Named
    BY <1>3, <1>9, <1>10, <2>1 DEF Opened
  <2> QED BY <1>2, <1>11, <2>2 DEF OpensOK
<1>13. OpensCounted'
  <2>1. \A r \in Sector : /\ Using(p, r)' = Using(p, r) /\ OpenFiles(r)' = OpenFiles(r)
                          /\ Denying(r)' = Denying(r)
    <3>1. \A r \in Sector : Using(p, r)' = Using(p, r)
      BY <1>0, <1>1, <1>5 DEF Using
    <3> QED BY <1>2, <1>5, <3>1, SameOpenFiles
  <2>2. \A r \in Sector \ {s} : SameOpens(p, r)
    BY <1>2, <1>10, <2>1 DEF SameOpens
  <2>3. CountOK(p, s)
    BY <1>3, CountOne DEF IInv
  <2>4. CountOK(p, s)'
    BY <1>2, <1>3, <1>9, <1>10, <2>1, <2>3 DEF CountOK
  <2> QED BY <1>3, <2>2, <2>4, CountChanged DEF IInv
<1>14. Held(l, c) = {} /\ ~HoldsInode(l, c) /\ Held(pc[p], c) = {}
  BY <1>1, <1>5, OpenerHolds
<1>15. HeldOK(p)'
  BY <1>5, <1>14 DEF HeldOK
<1>16. Knows(p)'
  BY <1>0, <1>1, <1>2, <1>4, <1>5, <1>11 DEF Knows
<1>17. Shape(l, c)
  BY <1>1, <1>4, <1>5, AtPoint DEF Shape, Place, Making, MakingPlaces, ClosingPlaces, Knows, Used
<1>18. leaked \in [Sector -> Nat] /\ fd \in [Proc -> [Fd -> OpenedFiles \union {NULL}]]
  BY TypedIs DEF IInv, StoreTypes
<1> QED BY <1>1, <1>2, <1>5, <1>10, <1>11, <1>12, <1>13, <1>14, <1>15, <1>16, <1>17, <1>18, MemoryStep

----------------------------------------------------------------------------
(* Descriptors.                                                            *)

OpenAt(p, d, s) == fd[p][d] # NULL /\ fd[p][d].inode = s /\ ~Closing(p, d)

\* The pairs that are counted are those of the one process.
LEMMA OpensAre ==
    ASSUME NEW p \in Proc, Proc = {p}, NEW s
    PROVE  /\ \A x : x \in OpenFiles(s) <=> \E d \in Fd : x = <<p, d>> /\ OpenAt(p, d, s)
           /\ \A x : x \in Denying(s) <=> \E d \in Fd : x = <<p, d>> /\ OpenAt(p, d, s) /\ fd[p][d].deny
<1>1. \A x : x \in OpenFiles(s) <=> \E d \in Fd : x = <<p, d>> /\ OpenAt(p, d, s)
  <2>1. ASSUME NEW d \in Fd, OpenAt(p, d, s) PROVE <<p, d>> \in OpenFiles(s)
    BY <2>1 DEF OpenFiles, OpenAt
  <2>2. ASSUME NEW x \in OpenFiles(s) PROVE \E d \in Fd : x = <<p, d>> /\ OpenAt(p, d, s)
    <3>1. PICK d \in Fd : x = <<p, d>>
      BY DEF OpenFiles
    <3> QED BY <3>1 DEF OpenFiles, OpenAt
  <2> QED BY <2>1, <2>2
<1> QED BY <1>1 DEF Denying

LEMMA OpensAreLater ==
    ASSUME NEW p \in Proc, Proc = {p}, NEW s
    PROVE  /\ \A x : x \in OpenFiles(s)' <=> \E d \in Fd : x = <<p, d>> /\ OpenAt(p, d, s)'
           /\ \A x : x \in Denying(s)' <=> \E d \in Fd : x = <<p, d>> /\ OpenAt(p, d, s)' /\ fd'[p][d].deny
<1>1. /\ \A x : x \in OpenFiles(s) <=> \E d \in Fd : x = <<p, d>> /\ OpenAt(p, d, s)
      /\ \A x : x \in Denying(s) <=> \E d \in Fd : x = <<p, d>> /\ OpenAt(p, d, s) /\ fd[p][d].deny
  BY OpensAre
<1>2. (/\ \A x : x \in OpenFiles(s) <=> \E d \in Fd : x = <<p, d>> /\ OpenAt(p, d, s)
       /\ \A x : x \in Denying(s) <=> \E d \in Fd : x = <<p, d>> /\ OpenAt(p, d, s) /\ fd[p][d].deny)'
  BY <1>1, PTL
<1> QED BY <1>2

\* A descriptor a step leaves alone.
SameAt(p, d, s) ==
    /\ OpenAt(p, d, s)' <=> OpenAt(p, d, s)
    /\ OpenAt(p, d, s) => (fd'[p][d].deny <=> fd[p][d].deny)

LEMMA OpensSame ==
    ASSUME NEW p \in Proc, Proc = {p}, NEW s, \A d \in Fd : SameAt(p, d, s)
    PROVE  OpenFiles(s)' = OpenFiles(s) /\ Denying(s)' = Denying(s)
<1>1. \A x : x \in OpenFiles(s)' <=> x \in OpenFiles(s)
  BY OpensAre, OpensAreLater DEF SameAt
<1>2. \A x : x \in Denying(s)' <=> x \in Denying(s)
  BY OpensAre, OpensAreLater DEF SameAt
<1> QED BY <1>1, <1>2

LEMMA OpensMore ==
    ASSUME Typed, NEW p \in Proc, Proc = {p}, NEW s \in Sector, NEW d \in Fd,
           \A e \in Fd \ {d} : SameAt(p, e, s), ~OpenAt(p, d, s), OpenAt(p, d, s)'
    PROVE  /\ Cardinality(OpenFiles(s)') = Cardinality(OpenFiles(s)) + 1
           /\ Cardinality(Denying(s)') = Cardinality(Denying(s)) + IF fd'[p][d].deny THEN 1 ELSE 0
<1>1. \A x : x \in OpenFiles(s)' <=> x \in OpenFiles(s) \/ x = <<p, d>>
  BY OpensAre, OpensAreLater DEF SameAt
<1>2. \A x : x \in Denying(s)' <=> x \in Denying(s) \/ (x = <<p, d>> /\ fd'[p][d].deny)
  BY OpensAre, OpensAreLater DEF SameAt
<1>3. <<p, d>> \notin OpenFiles(s) /\ <<p, d>> \notin Denying(s)
  BY OpensAre
<1>4. OpenFiles(s)' = OpenFiles(s) \union {<<p, d>>}
  BY <1>1
<1>5. Denying(s)' = IF fd'[p][d].deny THEN Denying(s) \union {<<p, d>>} ELSE Denying(s)
  BY <1>2
<1>6. /\ IsFiniteSet(OpenFiles(s)) /\ IsFiniteSet(Denying(s))
      /\ Cardinality(OpenFiles(s)) \in Nat /\ Cardinality(Denying(s)) \in Nat
  BY CountTypes
<1>7. Cardinality(OpenFiles(s) \union {<<p, d>>}) = Cardinality(OpenFiles(s)) + 1
  BY <1>3, <1>6, FS_AddElement
<1>8. Cardinality(Denying(s) \union {<<p, d>>}) = Cardinality(Denying(s)) + 1
  BY <1>3, <1>6, FS_AddElement
<1> QED BY <1>4, <1>5, <1>6, <1>7, <1>8

LEMMA OpensFewer ==
    ASSUME Typed, NEW p \in Proc, Proc = {p}, NEW s \in Sector, NEW d \in Fd,
           \A e \in Fd \ {d} : SameAt(p, e, s), OpenAt(p, d, s), ~OpenAt(p, d, s)'
    PROVE  /\ Cardinality(OpenFiles(s)') = Cardinality(OpenFiles(s)) - 1
           /\ Cardinality(Denying(s)') = Cardinality(Denying(s)) - IF fd[p][d].deny THEN 1 ELSE 0
<1>1. \A x : x \in OpenFiles(s)' <=> x \in OpenFiles(s) /\ x # <<p, d>>
  BY OpensAre, OpensAreLater DEF SameAt
<1>2. \A x : x \in Denying(s)' <=> x \in Denying(s) /\ x # <<p, d>>
  BY OpensAre, OpensAreLater DEF SameAt
<1>3. <<p, d>> \in OpenFiles(s) /\ (<<p, d>> \in Denying(s) <=> fd[p][d].deny)
  BY OpensAre
<1>4. OpenFiles(s)' = OpenFiles(s) \ {<<p, d>>}
  BY <1>1
<1>5. Denying(s)' = IF fd[p][d].deny THEN Denying(s) \ {<<p, d>>} ELSE Denying(s)
  BY <1>2, <1>3
<1>6. /\ IsFiniteSet(OpenFiles(s)) /\ IsFiniteSet(Denying(s))
      /\ Cardinality(OpenFiles(s)) \in Nat /\ Cardinality(Denying(s)) \in Nat
  BY CountTypes
<1>7. Cardinality(OpenFiles(s) \ {<<p, d>>}) = Cardinality(OpenFiles(s)) - 1
  BY <1>3, <1>6, FS_RemoveElement
<1>8. fd[p][d].deny => Cardinality(Denying(s) \ {<<p, d>>}) = Cardinality(Denying(s)) - 1
  BY <1>3, <1>6, FS_RemoveElement
<1> QED BY <1>4, <1>5, <1>6, <1>7, <1>8

LEMMA ChangeFd ==
    ASSUME Typed, NEW p \in Proc, NEW d \in Fd, NEW v \in OpenedFiles \union {NULL},
           fd' = [fd EXCEPT ![p][d] = v]
    PROVE  /\ fd' \in [Proc -> [Fd -> OpenedFiles \union {NULL}]]
           /\ fd'[p][d] = v /\ \A e \in Fd \ {d} : fd'[p][e] = fd[p][e]
<1>1. fd \in [Proc -> [Fd -> OpenedFiles \union {NULL}]]
  BY TypedIs DEF StoreTypes
<1>2. fd' = [fd EXCEPT ![p] = [fd[p] EXCEPT ![d] = v]]
  OBVIOUS
<1>3. [fd[p] EXCEPT ![d] = v] \in [Fd -> OpenedFiles \union {NULL}]
  BY <1>1
<1> QED BY <1>1, <1>2, <1>3

LEMMA FdTypes ==
    ASSUME Typed, NEW p \in Proc, NEW d \in Fd, fd[p][d] # NULL
    PROVE  /\ fd[p][d] \in OpenedFiles /\ fd[p][d].inode \in Sector
           /\ fd[p][d].pos \in Nat /\ fd[p][d].deny \in BOOLEAN
<1>1. fd[p][d] \in OpenedFiles
  BY TypedIs DEF StoreTypes
<1> QED BY <1>1 DEF OpenedFiles

LEMMA FreeFd == \A p \in Proc : FreeFds(p) # {} => Min(FreeFds(p)) \in Fd /\ fd[p][Min(FreeFds(p))] = NULL
<1> TAKE p \in Proc
<1>1. FreeFds(p) \in SUBSET Nat
  BY FileSysAssumption DEF FreeFds
<1> QED BY <1>1, MinOf DEF FreeFds

\* What is common to the two ways install ends.
LEMMA InstallEnds ==
    ASSUME IInv, NEW p \in Proc, Proc = {p}, pc[p] = "install", Returns(p),
           UNCHANGED <<onDisk, free_map, lost>>,
           open_inodes' \in [Sector -> OpenedInodes \union {NULL}],
           fd' \in [Proc -> [Fd -> OpenedFiles \union {NULL}]], leaked' \in [Sector -> Nat],
           NEW s \in Sector, s = call[p].sector,
           \A r \in Sector \ {s} : open_inodes'[r] = open_inodes[r] /\ leaked'[r] = leaked[r],
           \A d \in Fd : \A r \in Sector \ {s} :
              call'[p].fd = NULL => SameAt(p, d, r),
           open_inodes'[s] # NULL, open_inodes'[s].data = open_inodes[s].data,
           open_inodes'[s].removed = open_inodes[s].removed,
           open_inodes[s] # NULL /\ call'[p].fd = NULL /\ ~Using(p, s)' /\ CountOK(p, s) => CountOK(p, s)'
    PROVE  IInv'
<1> DEFINE c == call[p]
<1>1. /\ c \in CallRecords /\ c.op \in {"open", "exec"} /\ c.fd = NULL /\ disk_map = free_map /\ s \in Named
      /\ UNCHANGED <<root, disk, disk_map>>
  BY AtPoint DEF Shape, Place, ClosingPlaces, Knows, onDisk
<1>2. Using(p, s) /\ s \in Opened
  <2>1. Using(p, s)
    BY <1>1 DEF Using
  <2> QED BY <2>1, InUseOpened DEF Opened
<1>3. PICK l \in {"idle", "exit"}, d \in CallRecords :
          /\ Moved(p, l, d) /\ d.fd = NULL /\ d.op \in {"none", "exit"} /\ Shape(l, d) /\ l \in Labels
  BY Returned DEF IInv
<1>4. pc'[p] = l /\ call'[p] = d
  BY <1>3, AtPoint DEF Moved
<1>5. Opened' = Opened /\ Named' = Named /\ Live' = Live
  BY <1>1, <1>2 DEF Opened, Named, Live
<1>6. OpensOK'
  <2>1. \A r \in Opened : /\ open_inodes[r].data = disk[r]
                          /\ open_inodes[r].removed => r \notin Named
                          /\ open_inodes[r].removed \/ r \in Named
    BY DEF OpensOK, IInv
  <2>2. \A r \in Opened : /\ open_inodes'[r].data = open_inodes[r].data
                          /\ open_inodes'[r].removed = open_inodes[r].removed
    BY DEF Opened
  <2> QED BY <1>1, <1>5, <2>1, <2>2 DEF OpensOK
<1>7. OpensCounted'
  <2>1. ~Using(p, s)' /\ \A r \in Sector \ {s} : Using(p, r)' = Using(p, r)
    BY <1>3, <1>4 DEF Using
  <2>2. \A r \in Sector \ {s} : OpenFiles(r)' = OpenFiles(r) /\ Denying(r)' = Denying(r)
    BY <1>3, <1>4, OpensSame
  <2>3. \A r \in Sector \ {s} : SameOpens(p, r)
    BY <2>1, <2>2 DEF SameOpens
  <2>4. CountOK(p, s)'
    BY <1>2, <1>3, <1>4, <2>1, CountOne DEF Opened, IInv
  <2> QED BY <2>3, <2>4, CountChanged DEF IInv
<1>8. Held(l, d) = {} /\ ~HoldsInode(l, d) /\ Held(pc[p], c) = {}
  BY <1>1, <1>3, OpenerHolds, NothingHeld
<1>9. HeldOK(p)'
  BY <1>4, <1>8 DEF HeldOK
<1>10. Knows(p)'
  BY <1>1, <1>3, <1>4, NothingKnownLater
<1> QED BY <1>3, <1>5, <1>6, <1>7, <1>8, <1>9, <1>10, MemoryStep

LEMMA InstallStep ==
    ASSUME IInv, NEW p \in Proc, Proc = {p}, Install(p)
    PROVE  IInv'
<1> DEFINE c == call[p]
           deny == c.name = Program
<1>0. PICK s : s = c.sector
  OBVIOUS
<1> DEFINE o == open_inodes[s]
<1>1. /\ pc[p] = "install" /\ c \in CallRecords /\ c.op \in {"open", "exec"} /\ c.fd = NULL /\ s \in Sector
      /\ Using(p, s)
  <2>1. /\ pc[p] = "install" /\ c \in CallRecords /\ c.op \in {"open", "exec"} /\ c.fd = NULL /\ s \in Named
    BY <1>0, AtPoint DEF Install, Shape, Place, ClosingPlaces, Knows
  <2> QED BY <1>0, <2>1, Entry DEF Named, Used, Using
<1>2. o # NULL /\ o \in OpenedInodes /\ o.deny_write_cnt \in Nat /\ o.open_cnt \in Nat
  BY <1>1, InUseOpened, InodeFields DEF IInv
<1>3. /\ CountOK(p, s) /\ Cardinality(OpenFiles(s)) \in Nat /\ leaked[s] \in Nat
      /\ Cardinality(Denying(s)) \in Nat
  BY <1>1, CountOne, CountTypes DEF IInv
<1>4. UNCHANGED <<onDisk, free_map, lost>> /\ Returns(p)
  BY DEF Install
<1>5. Typed
  BY DEF IInv
<1>6. CASE c.op = "open" /\ FreeFds(p) # {}
  <2>1. PICK d \in Fd : d = Min(FreeFds(p)) /\ fd[p][d] = NULL
    BY <1>6, FreeFd
  <2>2. PICK h : h = [inode |-> s, pos |-> 0, deny |-> deny]
    OBVIOUS
  <2>3. h \in OpenedFiles /\ h # NULL /\ h.inode = s /\ h.deny = deny
    <3>1. deny \in BOOLEAN
      OBVIOUS
    <3> HIDE DEF deny
    <3>2. h \in OpenedFiles
      BY <1>1, <2>2, <3>1 DEF OpenedFiles
    <3> QED BY <2>2, <3>2, FileSysAssumption
  <2>4. PICK v : v = [o EXCEPT !.deny_write_cnt = IF deny THEN o.deny_write_cnt + 1 ELSE o.deny_write_cnt]
    OBVIOUS
  <2>5. /\ v \in OpenedInodes /\ v # NULL /\ v.open_cnt = o.open_cnt /\ v.removed = o.removed
        /\ v.data = o.data /\ v.deny_write_cnt = o.deny_write_cnt + IF deny THEN 1 ELSE 0
    <3>1. PICK n \in Nat : n = IF deny THEN o.deny_write_cnt + 1 ELSE o.deny_write_cnt
      BY <1>2
    <3>2. v = [o EXCEPT !.deny_write_cnt = n]
      BY <2>4, <3>1
    <3>3. v \in OpenedInodes
      BY <1>2, <3>2 DEF OpenedInodes
    <3> QED BY <1>2, <3>1, <3>2, <3>3, FileSysAssumption DEF OpenedInodes
  <2>6. /\ fd' = [fd EXCEPT ![p][d] = h] /\ leaked' = leaked
        /\ open_inodes' = [open_inodes EXCEPT ![s] = v]
    BY <1>0, <1>6, <2>1, <2>2, <2>4 DEF Install
  <2>7. /\ fd' \in [Proc -> [Fd -> OpenedFiles \union {NULL}]]
        /\ fd'[p][d] = h /\ \A e \in Fd \ {d} : fd'[p][e] = fd[p][e]
    BY <1>5, <2>3, <2>6, ChangeFd
  <2>8. /\ open_inodes' \in [Sector -> OpenedInodes \union {NULL}]
        /\ open_inodes'[s] = v /\ \A r \in Sector \ {s} : open_inodes'[r] = open_inodes[r]
    BY <1>1, <1>5, <2>5, <2>6, ChangeInode
  <2>9. \A e \in Fd : e # NULL
    BY FileSysAssumption
  <2>10. ASSUME call'[p].fd = NULL, NEW r \in Sector
         PROVE  /\ \A e \in Fd \ {d} : SameAt(p, e, r)
                /\ r # s => SameAt(p, d, r)
                /\ ~OpenAt(p, d, r) /\ (r = s => OpenAt(p, d, r)')
    BY <1>1, <2>1, <2>3, <2>7, <2>9, <2>10 DEF SameAt, OpenAt, Closing
  <2>11. ASSUME call'[p].fd = NULL, ~Using(p, s)' PROVE CountOK(p, s)'
    <3>1. /\ Cardinality(OpenFiles(s)') = Cardinality(OpenFiles(s)) + 1
          /\ Cardinality(Denying(s)') = Cardinality(Denying(s)) + IF deny THEN 1 ELSE 0
      BY <1>1, <1>5, <2>3, <2>7, <2>10, <2>11, OpensMore
    <3> QED BY <1>1, <1>2, <1>3, <2>5, <2>6, <2>8, <2>11, <3>1 DEF CountOK
  <2>12. leaked' \in [Sector -> Nat]
    BY <1>5, <2>6, TypedIs DEF StoreTypes
  <2>13. \A e \in Fd : \A r \in Sector \ {s} : call'[p].fd = NULL => SameAt(p, e, r)
    BY <2>10
  <2> QED BY <1>0, <1>1, <1>4, <2>5, <2>6, <2>7, <2>8, <2>11, <2>12, <2>13, InstallEnds
<1>7. CASE ~(c.op = "open" /\ FreeFds(p) # {})
  <2>1. leaked' = [leaked EXCEPT ![s] = leaked[s] + 1] /\ UNCHANGED <<fd, open_inodes>>
    BY <1>0, <1>7 DEF Install
  <2>2. /\ leaked \in [Sector -> Nat] /\ fd \in [Proc -> [Fd -> OpenedFiles \union {NULL}]]
        /\ open_inodes \in [Sector -> OpenedInodes \union {NULL}]
    BY <1>5, TypedIs DEF StoreTypes
  <2>3. /\ leaked' \in [Sector -> Nat] /\ leaked'[s] = leaked[s] + 1
        /\ \A r \in Sector \ {s} : leaked'[r] = leaked[r]
    BY <1>1, <1>3, <2>1, <2>2
  <2>4. \A e \in Fd : \A r \in Sector : call'[p].fd = NULL => SameAt(p, e, r)
    BY <1>1, <2>1 DEF SameAt, OpenAt, Closing
  <2>5. ASSUME call'[p].fd = NULL, ~Using(p, s)' PROVE CountOK(p, s)'
    <3>1. OpenFiles(s)' = OpenFiles(s) /\ Denying(s)' = Denying(s)
      BY <1>1, <2>4, <2>5, OpensSame
    <3> QED BY <1>1, <1>2, <1>3, <2>1, <2>3, <2>5, <3>1 DEF CountOK
  <2> QED BY <1>0, <1>1, <1>2, <1>4, <2>1, <2>2, <2>3, <2>4, <2>5, InstallEnds
<1> QED BY <1>6, <1>7
----------------------------------------------------------------------------
(* The last opener of a file without a name releases its sectors.          *)

\* What is in memory leads to the file's sectors.
LEMMA Orphan ==
    ASSUME IInv, NEW p \in Proc, Proc = {p}, NEW s \in Opened, pc[p] # "load",
           NEW start, NEW size, start = Releasing(s).start, size = Releasing(s).size
    PROVE  /\ s \in Sector /\ start \in Sector \union {0} /\ size \in Nat /\ (start = 0 => size = 0)
           /\ s \notin Extent(Inode(start, size)) /\ Blocks(s) = {s} \union Extent(Inode(start, size))
<1>1. s \in Live /\ s \in Sector
  BY DEF Live, Opened
<1>2. disk[s] \in Inodes /\ s \notin Extent(disk[s]) /\ Blocks(s) \subseteq free_map
  BY <1>1 DEF FilesOK, IInv
<1>3. open_inodes[s].data = disk[s]
  BY DEF OpensOK, IInv
<1>4. start = disk[s].start /\ size = disk[s].length /\ Cardinality(Sector) \in Nat
  BY <1>3, FileSysAssumption, FS_CardinalityType DEF Releasing
<1>5. start \in Sector \union {0} /\ size \in Nat
  BY <1>2, <1>4 DEF Inodes
<1>6. Extent(disk[s]) = Extent(Inode(start, size))
  BY <1>4 DEF Extent, Inode
<1>7. 0 \notin Extent(Inode(start, size))
  <2>1. Extent(Inode(start, size)) \subseteq Sector
    BY <1>2, <1>6, AtPoint DEF Blocks
  <2> QED BY <2>1, FileSysAssumption
<1>8. start = 0 => size = 0
  <2>1. Extent(Inode(start, size)) = start .. (start + size - 1)
    BY DEF Extent, Inode
  <2> QED BY <1>5, <1>7, <2>1
<1> QED BY <1>1, <1>2, <1>5, <1>6, <1>8 DEF Blocks

LEMMA LastCloses ==
    ASSUME IInv, NEW p \in Proc, Proc = {p}, NEW s \in Opened \ Named, NEW c \in CallRecords,
           Moved(p, "release_inode", c), pc[p] \notin {"load", "write_map"},
           pc[p] = "remove_inode" => call[p].sector = s,
           c.op \in {"remove", "close", "exit"}, c.sector = s,
           c.start = Releasing(s).start, c.size = Releasing(s).size,
           UNCHANGED <<onDisk, free_map, fd, ghosts>>,
           open_inodes' = [open_inodes EXCEPT ![s] = NULL],
           Held(pc[p], call[p]) = {}, OpensCounted'
    PROVE  IInv'
<1>1. /\ s \in Sector /\ (c.start = 0 => c.size = 0) /\ s \notin Extent(Inode(c.start, c.size))
      /\ Blocks(s) = {s} \union Extent(Inode(c.start, c.size))
  BY Orphan
<1>2. Rest(c) = Extent(Inode(c.start, c.size))
  BY <1>1, RestIs
<1>3. Held("release_inode", c) = Blocks(s) /\ HoldsInode("release_inode", c)
  BY <1>1, <1>2 DEF Held, HoldsInode, Place
<1>4. "release_inode" \in Labels
  BY DEF Labels
<1>5. /\ UNCHANGED <<root, disk_map, disk, leaked, lost>> /\ disk_map = free_map
      /\ leaked \in [Sector -> Nat] /\ fd \in [Proc -> [Fd -> OpenedFiles \union {NULL}]]
  BY AtPoint, TypedIs DEF onDisk, ghosts, IInv, StoreTypes
<1>6. pc'[p] = "release_inode" /\ call'[p] = c
  BY AtPoint DEF Moved
<1>7. /\ open_inodes' \in [Sector -> OpenedInodes \union {NULL}]
      /\ \A r \in Sector \ {s} : open_inodes'[r] = open_inodes[r]
      /\ Opened' = Opened \ {s}
  BY <1>1, ChangeInode DEF IInv
<1>8. Named' = Named /\ Live' = Live \ {s} /\ \A r : Blocks(r)' = Blocks(r)
  BY <1>5, <1>7 DEF Named, Live, Blocks
<1>9. s \in Live /\ FilesOK
  BY DEF Live, IInv
<1>10. HeldOK(p)'
  <2>1. Blocks(s) \subseteq free_map /\ \A r \in Live \ {s} : Blocks(s) \intersect Blocks(r) = {}
    BY <1>9 DEF FilesOK
  <2> QED BY <1>1, <1>2, <1>3, <1>6, <1>8, <2>1 DEF HeldOK
<1>11. OpensOK'
  <2>1. \A r \in Opened \ {s} : /\ open_inodes[r].data = disk[r]
                                /\ open_inodes[r].removed => r \notin Named
                                /\ open_inodes[r].removed \/ r \in Named
    BY DEF OpensOK, IInv
  <2>2. \A r \in Opened \ {s} : open_inodes'[r] = open_inodes[r]
    BY <1>7 DEF Opened
  <2> QED BY <1>5, <1>7, <1>8, <2>1, <2>2 DEF OpensOK
<1>12. Shape("release_inode", c)
  BY <1>1 DEF Shape, Place, Making, MakingPlaces, ClosingPlaces
<1>13. Knows(p)'
  BY <1>5, <1>6, NothingKnownLater
<1>14. \A x \in UNION {Blocks(r) : r \in Live \ Live'} : x \in Held("release_inode", c)
  BY <1>3, <1>8
<1> QED BY <1>3, <1>4, <1>5, <1>7, <1>8, <1>10, <1>11, <1>12, <1>13, <1>14, MemoryStep

\* filesys_remove marks the inode and closes it.
LEMMA RemoveInodeStep ==
    ASSUME IInv, NEW p \in Proc, Proc = {p}, RemoveInode(p)
    PROVE  IInv'
<1> DEFINE c == call[p]
<1>0. PICK s : s = c.sector
  OBVIOUS
<1> DEFINE o == open_inodes[s]
<1>1. /\ pc[p] = "remove_inode" /\ c \in CallRecords /\ c.op = "remove" /\ c.fd = NULL
      /\ disk_map = free_map /\ s \in Opened \ Named /\ s \in Sector
      /\ UNCHANGED <<onDisk, free_map, fd, ghosts>> /\ UNCHANGED <<root, disk_map, disk, leaked, lost>>
  BY <1>0, AtPoint DEF RemoveInode, Shape, Place, ClosingPlaces, Knows, Opened, onDisk, ghosts
<1>2. o # NULL /\ o \in OpenedInodes /\ o.open_cnt \in Nat \ {0}
  BY <1>1, InodeFields DEF IInv, Opened
<1>3. Using(p, s) /\ \A r \in Sector \ {s} : ~Using(p, r)
  BY <1>0, <1>1 DEF Using
<1>4. /\ CountOK(p, s) /\ Cardinality(OpenFiles(s)) \in Nat /\ leaked[s] \in Nat
  BY <1>1, CountOne, CountTypes DEF IInv
<1>5. o.open_cnt = Cardinality(OpenFiles(s)) + leaked[s] + 1 /\ o.deny_write_cnt = Cardinality(Denying(s))
  BY <1>2, <1>3, <1>4 DEF CountOK
<1>6. Held("remove_inode", c) = {}
  BY <1>1, OpenerHolds
<1>7. ASSUME NEW l, NEW d, pc'[p] = l, call'[p] = d, l \in {"idle", "exit", "release_inode"}, d.fd = NULL,
             \A r \in Sector \ {s} : open_inodes'[r] = open_inodes[r],
             (IF open_inodes'[s] = NULL THEN o.open_cnt = 1
              ELSE /\ open_inodes'[s].open_cnt = o.open_cnt - 1
                   /\ open_inodes'[s].deny_write_cnt = o.deny_write_cnt)
      PROVE  OpensCounted'
  <2>1. \A r \in Sector : OpenFiles(r)' = OpenFiles(r) /\ Denying(r)' = Denying(r)
    BY <1>1, <1>7, SameOpenFiles
  <2>2. \A r \in Sector : ~Using(p, r)'
    BY <1>7 DEF Using
  <2>3. \A r \in Sector \ {s} : Using(p, r)' = Using(p, r)
    BY <1>0, <1>1, <1>7 DEF Using
  <2>4. \A r \in Sector \ {s} : SameOpens(p, r)
    BY <1>1, <1>7, <2>1, <2>3 DEF SameOpens
  <2>5. CountOK(p, s)'
    BY <1>1, <1>4, <1>5, <1>7, <2>1, <2>2 DEF CountOK
  <2> QED BY <1>1, <2>4, <2>5, CountChanged DEF IInv
<1>8. CASE o.open_cnt = 1
  <2>1. PICK d : d = [c EXCEPT !.start = Releasing(s).start, !.size = Releasing(s).size]
    OBVIOUS
  <2>2. Releasing(s).start \in Sector \union {0} /\ Releasing(s).size \in Nat
    BY <1>1, Orphan
  <2>3. /\ d \in CallRecords /\ d.op = "remove" /\ d.sector = s /\ d.fd = NULL
        /\ d.start = Releasing(s).start /\ d.size = Releasing(s).size
    BY <1>0, <1>1, <2>1, <2>2 DEF CallRecords
  <2>4. /\ open_inodes' = [open_inodes EXCEPT ![s] = NULL]
        /\ Moved(p, "release_inode", d)
    BY <1>0, <1>8, <2>1 DEF RemoveInode, Moved, Goto, With
  <2>5. pc'[p] = "release_inode" /\ call'[p] = d
    BY <2>4, AtPoint DEF Moved
  <2>6. open_inodes'[s] = NULL /\ \A r \in Sector \ {s} : open_inodes'[r] = open_inodes[r]
    BY <1>1, <2>4, ChangeInode DEF IInv
  <2>7. OpensCounted'
    BY <1>7, <1>8, <2>3, <2>5, <2>6
  <2> QED BY <1>0, <1>1, <1>6, <2>3, <2>4, <2>7, LastCloses
<1>9. CASE o.open_cnt # 1
  <2>1. PICK v : v = [o EXCEPT !.open_cnt = o.open_cnt - 1, !.removed = TRUE]
    OBVIOUS
  <2>2. /\ v \in OpenedInodes /\ v # NULL /\ v.open_cnt = o.open_cnt - 1 /\ v.removed
        /\ v.deny_write_cnt = o.deny_write_cnt /\ v.data = o.data
    <3>1. PICK n \in Nat \ {0} : n = o.open_cnt - 1
      BY <1>2, <1>9
    <3>2. v = [o EXCEPT !.open_cnt = n, !.removed = TRUE]
      BY <2>1, <3>1
    <3>3. v \in OpenedInodes
      BY <1>2, <3>2 DEF OpenedInodes
    <3> QED BY <1>2, <3>1, <3>2, <3>3, FileSysAssumption DEF OpenedInodes
  <2>3. open_inodes' = [open_inodes EXCEPT ![s] = v] /\ Returns(p)
    <3>1. open_inodes \in [Sector -> OpenedInodes \union {NULL}]
      BY TypedIs DEF IInv, StoreTypes
    <3>2. open_inodes' = [InodeClosed(s, FALSE) EXCEPT ![s].removed = TRUE] /\ Returns(p)
      BY <1>0, <1>9 DEF RemoveInode
    <3>3. PICK u : u = [o EXCEPT !.open_cnt = o.open_cnt - 1, !.deny_write_cnt = o.deny_write_cnt]
      OBVIOUS
    <3>4. InodeClosed(s, FALSE) = [open_inodes EXCEPT ![s] = u]
      BY <1>9, <3>3 DEF InodeClosed
    <3>5. v = [u EXCEPT !.removed = TRUE]
      BY <1>2, <2>1, <3>3 DEF OpenedInodes
    <3> QED BY <1>1, <3>1, <3>2, <3>4, <3>5
  <2>4. /\ open_inodes' \in [Sector -> OpenedInodes \union {NULL}]
        /\ open_inodes'[s] = v /\ \A r \in Sector \ {s} : open_inodes'[r] = open_inodes[r]
        /\ Opened' = Opened
    <3>1. v \in OpenedInodes \union {NULL} /\ v # NULL /\ s \in Sector /\ s \in Opened /\ Typed
      BY <1>1, <2>2 DEF IInv
    <3>2. /\ open_inodes' \in [Sector -> OpenedInodes \union {NULL}]
          /\ open_inodes'[s] = v /\ \A r \in Sector \ {s} : open_inodes'[r] = open_inodes[r]
          /\ Opened' = IF v = NULL THEN Opened \ {s} ELSE Opened \union {s}
      BY <2>3, <3>1, ChangeInode
    <3>3. Opened \union {s} = Opened
      BY <3>1
    <3> QED BY <3>1, <3>2, <3>3
  <2>5. PICK l \in {"idle", "exit"}, d \in CallRecords :
            /\ Moved(p, l, d) /\ d.fd = NULL /\ Shape(l, d) /\ l \in Labels
    BY <2>3, Returned DEF IInv
  <2>6. pc'[p] = l /\ call'[p] = d
    BY <2>5, AtPoint DEF Moved
  <2>7. OpensCounted'
    BY <1>7, <2>2, <2>4, <2>5, <2>6
  <2>8. Named' = Named /\ Live' = Live
    BY <1>1, <2>4 DEF Named, Live
  <2>9. OpensOK'
    <3>1. \A r \in Opened : /\ open_inodes[r].data = disk[r]
                            /\ open_inodes[r].removed => r \notin Named
                            /\ r # s => open_inodes[r].removed \/ r \in Named
      BY <1>0, <1>1 DEF OpensOK, IInv
    <3>2. \A r \in Opened : /\ open_inodes'[r].data = disk[r]
                            /\ open_inodes'[r].removed => r \notin Named
                            /\ open_inodes'[r].removed \/ r \in Named
      BY <1>1, <2>2, <2>4, <3>1 DEF Opened
    <3> QED BY <1>1, <2>4, <2>8, <3>2 DEF OpensOK
  <2>10. Held(l, d) = {} /\ ~HoldsInode(l, d)
    BY <2>5, NothingHeld
  <2>11. HeldOK(p)'
    BY <2>6, <2>10 DEF HeldOK
  <2>12. Knows(p)'
    BY <1>1, <2>5, <2>6, NothingKnownLater
  <2>13. leaked \in [Sector -> Nat] /\ fd \in [Proc -> [Fd -> OpenedFiles \union {NULL}]]
    BY TypedIs DEF IInv, StoreTypes
  <2> QED BY <1>1, <1>6, <2>4, <2>5, <2>7, <2>8, <2>9, <2>10, <2>11, <2>12, <2>13, MemoryStep
<1> QED BY <1>8, <1>9

----------------------------------------------------------------------------
(* Closing a file.                                                         *)

LEMMA CloseFileStep ==
    ASSUME IInv, NEW p \in Proc, Proc = {p}, NEW op \in {"close", "exit"}, NEW d \in Fd,
           pc[p] \in {"idle", "exit"}, fd[p][d] # NULL, CloseFile(p, op, d)
    PROVE  IInv'
<1> DEFINE c == call[p]
           deny == fd[p][d].deny
<1>0. PICK s : s = fd[p][d].inode
  OBVIOUS
<1> DEFINE o == open_inodes[s]
<1>1. /\ c \in CallRecords /\ c.fd = NULL /\ disk_map = free_map /\ Shape(pc[p], c)
      /\ d # NULL /\ pc[p] \in Labels
      /\ UNCHANGED <<onDisk, free_map, fileLock, ghosts>>
      /\ UNCHANGED <<root, disk_map, disk, leaked, lost>>
  BY AtPoint, FileSysAssumption DEF CloseFile, Shape, Place, ClosingPlaces, onDisk, ghosts
<1>2. s \in Sector /\ deny \in BOOLEAN /\ OpenAt(p, d, s)
  BY <1>0, <1>1, FdTypes DEF IInv, OpenAt, Closing
<1>3. /\ CountOK(p, s) /\ Cardinality(OpenFiles(s)) \in Nat /\ leaked[s] \in Nat
      /\ Cardinality(Denying(s)) \in Nat
      /\ \A r \in Sector : ~Using(p, r)
  BY <1>2, CountOne, CountTypes DEF IInv, Using
<1>4. <<p, d>> \in OpenFiles(s) /\ (deny => <<p, d>> \in Denying(s))
  BY <1>2, OpensAre
<1>5. Cardinality(OpenFiles(s)) > 0 /\ (deny => Cardinality(Denying(s)) > 0)
  <2>1. IsFiniteSet(OpenFiles(s)) /\ IsFiniteSet(Denying(s))
    BY <1>2, CountTypes DEF IInv
  <2> QED BY <1>3, <1>4, <2>1, FS_EmptySet
<1>6. /\ o # NULL /\ o.open_cnt = Cardinality(OpenFiles(s)) + leaked[s]
      /\ o.deny_write_cnt = Cardinality(Denying(s)) /\ s \in Opened
  BY <1>2, <1>3, <1>5 DEF CountOK, Opened
<1>7. o \in OpenedInodes
  BY <1>2, <1>6, InodeFields DEF IInv
\* The descriptor is not counted any more; the others are.
<1>8. ASSUME NEW l \in {"idle", "exit", "release_inode"}, pc'[p] = l,
             \A e \in Fd \ {d} : fd'[p][e] = fd[p][e] /\ ~Closing(p, e)',
             fd'[p][d] = NULL \/ Closing(p, d)', fd'[p][d] # NULL => fd'[p][d] = fd[p][d],
             \A r \in Sector \ {s} : open_inodes'[r] = open_inodes[r],
             (IF open_inodes'[s] = NULL THEN o.open_cnt = 1
              ELSE /\ open_inodes'[s].open_cnt = o.open_cnt - 1
                   /\ open_inodes'[s].deny_write_cnt = o.deny_write_cnt - IF deny THEN 1 ELSE 0)
      PROVE  OpensCounted'
  <2>1. \A r \in Sector : \A e \in Fd \ {d} : SameAt(p, e, r)
    <3>1. \A e \in Fd : ~Closing(p, e)
      BY <1>1, FileSysAssumption DEF Closing
    <3> QED BY <1>8, <3>1 DEF SameAt, OpenAt
  <2>2. \A r \in Sector \ {s} : SameAt(p, d, r)
    BY <1>0, <1>8 DEF SameAt, OpenAt
  <2>3. ~OpenAt(p, d, s)'
    BY <1>8 DEF OpenAt
  <2>4. /\ Cardinality(OpenFiles(s)') = Cardinality(OpenFiles(s)) - 1
        /\ Cardinality(Denying(s)') = Cardinality(Denying(s)) - IF deny THEN 1 ELSE 0
    BY <1>2, <2>1, <2>3, OpensFewer DEF IInv
  <2>5. \A r \in Sector \ {s} : OpenFiles(r)' = OpenFiles(r) /\ Denying(r)' = Denying(r)
    BY <2>1, <2>2, OpensSame
  <2>6. ~Using(p, s)' /\ \A r \in Sector \ {s} : Using(p, r)' = Using(p, r)
    BY <1>8 DEF Using
  <2>7. \A r \in Sector \ {s} : SameOpens(p, r)
    BY <1>1, <1>8, <2>5, <2>6 DEF SameOpens
  <2>8. CountOK(p, s)'
    BY <1>1, <1>3, <1>6, <1>8, <2>4, <2>6 DEF CountOK
  <2> QED BY <1>2, <2>7, <2>8, CountChanged DEF IInv
<1>9. Held(pc[p], c) = {} /\ ~HoldsInode(pc[p], c)
  BY <1>1, NothingHeld
<1>10. CASE MustRelease(s)
  <2>1. o.open_cnt = 1 /\ o.removed /\ s \in Opened \ Named
    BY <1>6, <1>10 DEF MustRelease, OpensOK, IInv
  <2>2. PICK c1 : c1 = [NoCall EXCEPT !.op = op, !.fd = d, !.sector = s,
                                      !.start = Releasing(s).start, !.size = Releasing(s).size]
    OBVIOUS
  <2>3. Releasing(s).start \in Sector \union {0} /\ Releasing(s).size \in Nat
    BY <1>6, Orphan
  <2>4. /\ c1 \in CallRecords /\ c1.op = op /\ c1.fd = d /\ c1.sector = s
        /\ c1.start = Releasing(s).start /\ c1.size = Releasing(s).size
    BY <1>2, <2>2, <2>3, NoCallRecord DEF CallRecords, NoCall, Ops
  <2>5. /\ open_inodes' = [open_inodes EXCEPT ![s] = NULL] /\ UNCHANGED fd
        /\ Moved(p, "release_inode", c1)
    BY <1>0, <1>1, <1>10, <2>1, <2>2 DEF CloseFile, InodeClosed, Moved, Goto, With
  <2>6. pc'[p] = "release_inode" /\ call'[p] = c1
    BY <2>5, AtPoint DEF Moved
  <2>7. open_inodes'[s] = NULL /\ \A r \in Sector \ {s} : open_inodes'[r] = open_inodes[r]
    BY <1>2, <2>5, ChangeInode DEF IInv
  <2>8. Closing(p, d)' /\ \A e \in Fd \ {d} : ~Closing(p, e)'
    BY <2>4, <2>6 DEF Closing
  <2>9. OpensCounted'
    BY <1>8, <2>1, <2>5, <2>6, <2>7, <2>8
  <2> QED BY <1>1, <1>9, <2>1, <2>4, <2>5, <2>9, LastCloses
<1>11. CASE ~MustRelease(s)
  <2>1. /\ open_inodes' = InodeClosed(s, deny) /\ UNCHANGED <<pc, call>>
        /\ fd' = [fd EXCEPT ![p][d] = NULL]
    BY <1>0, <1>11 DEF CloseFile
  <2>2. /\ fd' \in [Proc -> [Fd -> OpenedFiles \union {NULL}]]
        /\ fd'[p][d] = NULL /\ \A e \in Fd \ {d} : fd'[p][e] = fd[p][e]
    BY <2>1, ChangeFd DEF IInv
  <2>3. Moved(p, pc[p], c) /\ pc'[p] = pc[p] /\ call'[p] = c
    BY <1>1, <2>1, AtPoint DEF Moved
  <2>4. PICK v : v = IF o.open_cnt = 1 THEN NULL
                     ELSE [o EXCEPT !.open_cnt = o.open_cnt - 1,
                                    !.deny_write_cnt = IF deny THEN o.deny_write_cnt - 1
                                                       ELSE o.deny_write_cnt]
    OBVIOUS
  <2>5. open_inodes' = [open_inodes EXCEPT ![s] = v]
    BY <2>1, <2>4 DEF InodeClosed
  <2>6. /\ v \in OpenedInodes \union {NULL} /\ (v = NULL <=> o.open_cnt = 1)
        /\ v # NULL => /\ v.open_cnt = o.open_cnt - 1 /\ v.removed = o.removed /\ v.data = o.data
                       /\ v.deny_write_cnt = o.deny_write_cnt - IF deny THEN 1 ELSE 0
    <3>1. CASE o.open_cnt = 1
      BY <2>4, <3>1
    <3>2. CASE o.open_cnt # 1
      <4>1. PICK n \in Nat \ {0} : n = o.open_cnt - 1
        BY <1>3, <1>5, <1>6, <3>2
      <4>2. PICK k \in Nat : k = IF deny THEN o.deny_write_cnt - 1 ELSE o.deny_write_cnt
        BY <1>3, <1>5, <1>6
      <4>3. v = [o EXCEPT !.open_cnt = n, !.deny_write_cnt = k]
        BY <2>4, <3>2, <4>1, <4>2
      <4>4. v \in OpenedInodes
        BY <1>7, <4>3 DEF OpenedInodes
      <4>5. k = o.deny_write_cnt - IF deny THEN 1 ELSE 0
        BY <1>3, <1>6, <4>2
      <4> QED BY <1>7, <3>2, <4>1, <4>3, <4>4, <4>5, FileSysAssumption DEF OpenedInodes
    <3> QED BY <3>1, <3>2
  <2>7. /\ open_inodes' \in [Sector -> OpenedInodes \union {NULL}]
        /\ open_inodes'[s] = v /\ \A r \in Sector \ {s} : open_inodes'[r] = open_inodes[r]
        /\ Opened' = IF v = NULL THEN Opened \ {s} ELSE Opened \union {s}
    BY <1>2, <2>5, <2>6, ChangeInode DEF IInv
  <2>8. \A e \in Fd : ~Closing(p, e)'
    BY <1>1, <2>3, FileSysAssumption DEF Closing
  <2>9. OpensCounted'
    BY <1>8, <2>2, <2>3, <2>6, <2>7, <2>8
  <2>10. Named' = Named /\ Live' = Live
    <3>1. Named' = Named
      BY <1>1 DEF Named
    <3>2. v = NULL => s \in Named
      BY <1>6, <1>11, <2>6 DEF MustRelease, OpensOK, IInv
    <3> QED BY <1>6, <2>7, <3>1, <3>2 DEF Live
  <2>11. OpensOK'
    <3>1. \A r \in Opened : /\ open_inodes[r].data = disk[r]
                            /\ open_inodes[r].removed => r \notin Named
                            /\ open_inodes[r].removed \/ r \in Named
      BY DEF OpensOK, IInv
    <3>2. Opened' \subseteq Opened /\ \A r \in Opened' : r \in Sector /\ open_inodes'[r] # NULL
      BY <1>6, <2>7 DEF Opened
    <3>3. \A r \in Opened' : /\ open_inodes'[r].data = open_inodes[r].data
                             /\ open_inodes'[r].removed = open_inodes[r].removed
      BY <2>6, <2>7, <3>2
    <3> QED BY <1>1, <2>10, <3>1, <3>2, <3>3 DEF OpensOK
  <2>12. HeldOK(p)'
    BY <1>9, <2>3 DEF HeldOK
  <2>13. Knows(p)'
    BY <1>1, <2>3, NothingKnownLater
  <2>14. leaked' \in [Sector -> Nat]
    BY <1>1, TypedIs DEF IInv, StoreTypes
  <2> QED BY <1>1, <2>2, <2>3, <2>7, <2>9, <2>10, <2>11, <2>12, <2>13, <2>14, MemoryStep
<1> QED BY <1>10, <1>11

----------------------------------------------------------------------------
(* Steps that change a descriptor, or what a file contains.                *)

LEMMA DescriptorStep ==
    ASSUME IInv, NEW p \in Proc, Proc = {p}, pc[p] \in {"idle", "exit", "closed"},
           NEW l \in {"idle", "exit"}, NEW c \in CallRecords, Moved(p, l, c), Shape(l, c),
           UNCHANGED <<root, disk_map, free_map, open_inodes, ghosts>>,
           disk' \in [Sector -> Inodes \union Data \union {Zeros, NULL}],
           \A s \in Live : disk'[s] = disk[s],
           fd' \in [Proc -> [Fd -> OpenedFiles \union {NULL}]],
           \A d \in Fd : \A s \in Sector : SameAt(p, d, s)
    PROVE  IInv'
<1>1. /\ UNCHANGED <<leaked, lost>> /\ l \in Labels /\ call[p] \in CallRecords /\ disk_map = free_map
      /\ Shape(pc[p], call[p]) /\ Covered(p) /\ FilesOK /\ NamesOK /\ OpensOK
  BY AtPoint DEF ghosts, Labels, IInv
<1>2. Typed' /\ pc'[p] = l /\ call'[p] = c
  <2>1. StoreTypes'
    BY <1>1, TypedIs DEF IInv, StoreTypes
  <2> QED BY <1>1, <2>1, TypedMoved DEF IInv
<1>3. /\ Live' = Live /\ Opened \subseteq Live
      /\ \A s \in Live : Blocks(s)' = Blocks(s) /\ Blocks(s) \subseteq free_map
      /\ \A s \in Named : s \in Live /\ Blocks(s) \subseteq disk_map
  BY <1>1, SameBlocks DEF Live, FilesOK, NamesOK
<1>4. FilesOK' /\ NamesOK' /\ OpensOK'
  BY <1>1, <1>3, FilesKept, NamesKept, OpensKept
<1>5. OpensCounted'
  <2>1. \A s \in Sector : Using(p, s)' = Using(p, s)
    BY <1>2 DEF Using
  <2>2. \A s \in Sector : SameOpens(p, s)
    BY <1>1, <2>1, OpensSame DEF SameOpens
  <2> QED BY <2>2, CountKept DEF IInv
<1>6. Held(pc[p], call[p]) = {} /\ Held(l, c) = {} /\ ~HoldsInode(l, c)
  BY <1>1 DEF Held, HoldsInode, Making, MakingPlaces, Place
<1>7. HeldOK(p)' /\ Covered(p)'
  BY <1>1, <1>2, <1>3, <1>6 DEF HeldOK, Covered
<1>8. Knows(p)'
  BY <1>1, <1>2, NothingKnownLater
<1> QED BY <1>2, <1>4, <1>5, <1>7, <1>8, Together

\* A call that is not on its way stays where it is.
LEMMA StaysIdle ==
    ASSUME IInv, NEW p \in Proc, UNCHANGED <<pc, call, fileLock>>
    PROVE  Moved(p, pc[p], call[p]) /\ Shape(pc[p], call[p]) /\ call[p] \in CallRecords
  BY AtPoint DEF Moved

LEMMA ClosedStep ==
    ASSUME IInv, NEW p \in Proc, Proc = {p}, Closed(p)
    PROVE  IInv'
<1>1. PICK c \in CallRecords : c = call[p]
  BY AtPoint
<1>2. /\ pc[p] = "closed" /\ Returns(p) /\ UNCHANGED <<onDisk, free_map, open_inodes, ghosts>>
      /\ UNCHANGED <<root, disk_map, disk>>
      /\ fd' = IF c.fd = NULL THEN fd ELSE [fd EXCEPT ![p][c.fd] = NULL]
  BY <1>1 DEF Closed, onDisk
<1>3. PICK l \in {"idle", "exit"}, e \in CallRecords : Moved(p, l, e) /\ e.fd = NULL /\ Shape(l, e)
  BY <1>2, Returned DEF IInv
<1>4. call'[p] = e
  BY <1>3, AtPoint DEF Moved
<1>5. /\ fd \in [Proc -> [Fd -> OpenedFiles \union {NULL}]]
      /\ disk \in [Sector -> Inodes \union Data \union {Zeros, NULL}]
  BY TypedIs DEF IInv, StoreTypes
<1>6. CASE c.fd = NULL
  <2>1. \A d \in Fd : \A s \in Sector : SameAt(p, d, s)
    BY <1>1, <1>2, <1>3, <1>4, <1>6 DEF SameAt, OpenAt, Closing
  <2> QED BY <1>2, <1>3, <1>5, <1>6, <2>1, DescriptorStep
<1>7. CASE c.fd # NULL
  <2>1. PICK d \in Fd : d = c.fd
    BY <1>1, <1>7 DEF CallRecords
  <2>2. /\ fd' \in [Proc -> [Fd -> OpenedFiles \union {NULL}]]
        /\ fd'[p][d] = NULL /\ \A r \in Fd \ {d} : fd'[p][r] = fd[p][r]
    BY <1>2, <1>7, <2>1, ChangeFd DEF IInv
  <2>3. \A r \in Fd \ {d} : ~Closing(p, r) /\ ~Closing(p, r)'
    BY <1>1, <1>3, <1>4, <2>1, FileSysAssumption DEF Closing
  <2>4. \A r \in Fd : \A s \in Sector : SameAt(p, r, s)
    BY <1>1, <2>1, <2>2, <2>3 DEF SameAt, OpenAt, Closing
  <2> QED BY <1>2, <1>3, <1>5, <2>2, <2>4, DescriptorStep
<1> QED BY <1>6, <1>7

\* The position in an open file moves.
LEMMA PositionMoves ==
    ASSUME IInv, NEW p \in Proc, Proc = {p}, pc[p] = "idle", NEW d \in Fd, fd[p][d] # NULL,
           NEW n \in Nat, fd' = [fd EXCEPT ![p][d] = [fd[p][d] EXCEPT !.pos = n]],
           UNCHANGED <<root, disk_map, free_map, open_inodes, fileLock, pc, call, ghosts>>,
           disk' \in [Sector -> Inodes \union Data \union {Zeros, NULL}],
           \A s \in Live : disk'[s] = disk[s]
    PROVE  IInv'
<1>1. PICK h : h = [fd[p][d] EXCEPT !.pos = n]
  OBVIOUS
<1>2. fd[p][d] \in OpenedFiles
  BY FdTypes DEF IInv
<1>3. h \in OpenedFiles
  BY <1>1, <1>2 DEF OpenedFiles
<1>4. h # NULL /\ h.inode = fd[p][d].inode /\ h.deny = fd[p][d].deny
  BY <1>1, <1>2, <1>3, FileSysAssumption DEF OpenedFiles
<1>5. /\ fd' \in [Proc -> [Fd -> OpenedFiles \union {NULL}]]
      /\ fd'[p][d] = h /\ \A e \in Fd \ {d} : fd'[p][e] = fd[p][e]
  BY <1>1, <1>3, ChangeFd DEF IInv
<1>6. \A e \in Fd : \A s \in Sector : SameAt(p, e, s)
  BY <1>4, <1>5 DEF SameAt, OpenAt, Closing
<1> QED BY <1>5, <1>6, StaysIdle, DescriptorStep

\* A sector of an open file is no file's inode.
LEMMA WriteStep ==
    ASSUME IInv, NEW p \in Proc, Proc = {p}, NEW d \in Fd, NEW v \in Data, Write(p, d, v),
           NEW h, h = fd[p][d], NEW s, s = h.inode
    PROVE  /\ IInv' /\ h # NULL /\ h.pos \in Nat /\ s \in Live /\ disk[s] \in Inodes
           /\ h.pos < disk[s].length /\ disk[s].start + h.pos \in Extent(disk[s])
           /\ disk' = [disk EXCEPT ![disk[s].start + h.pos] = v]
           /\ fd' = [fd EXCEPT ![p][d] = [fd[p][d] EXCEPT !.pos = h.pos + 1]]
           /\ UNCHANGED <<root, call>> /\ call[p].fd = NULL
           /\ open_inodes[s] # NULL /\ open_inodes[s].deny_write_cnt = 0
<1>1. h = fd[p][d]
  OBVIOUS
<1>2. s = h.inode
  OBVIOUS
<1>3. PICK x : x = open_inodes[s].data.start + h.pos
  OBVIOUS
<1>4. /\ pc[p] = "idle" /\ h # NULL /\ h.pos < open_inodes[s].data.length
      /\ disk' = [disk EXCEPT ![x] = v]
      /\ UNCHANGED <<root, disk_map, free_map, open_inodes, fileLock, pc, call, ghosts>>
  BY <1>1, <1>2, <1>3 DEF Write
<1>5. s \in Sector /\ h.pos \in Nat
  BY <1>1, <1>2, <1>4, FdTypes DEF IInv
<1>6. fd' = [fd EXCEPT ![p][d] = [fd[p][d] EXCEPT !.pos = h.pos + 1]]
  BY <1>1 DEF Write
<1>7. s \in Opened
  <2>1. \A e \in Fd : ~Closing(p, e)
    BY <1>4, AtPoint, FileSysAssumption DEF Closing, Shape, Place, ClosingPlaces
  <2>2. <<p, d>> \in OpenFiles(s)
    BY <1>1, <1>2, <1>4, <2>1, OpensAre DEF OpenAt
  <2>3. CountOK(p, s) /\ Cardinality(OpenFiles(s)) \in Nat \ {0} /\ leaked[s] \in Nat
    BY <1>5, <2>2, CountOne, CountTypes DEF IInv
  <2>4. open_inodes[s] # NULL
    BY <2>3 DEF CountOK
  <2> QED BY <1>5, <2>4 DEF Opened
<1>8. s \in Live /\ open_inodes[s].data = disk[s]
  BY <1>4, <1>7 DEF Live, OpensOK, IInv
<1>9. disk[s] \in Inodes /\ s \notin Extent(disk[s]) /\ Blocks(s) \subseteq free_map
  BY <1>8 DEF FilesOK, IInv
<1>10. x \in Extent(disk[s])
  <2>1. PICK a \in Nat, n \in Nat : a = disk[s].start /\ n = disk[s].length
    <3>1. disk[s].start \in Sector \union {0} /\ disk[s].length \in 0..Cardinality(Sector)
      BY <1>9 DEF Inodes
    <3>2. (\A a \in Sector \union {0} : a \in Nat) /\ Cardinality(Sector) \in Nat
      BY FileSysAssumption, FS_CardinalityType
    <3>3. disk[s].start \in Nat
      BY <3>1, <3>2
    <3>4. disk[s].length \in Nat
      BY <3>1, <3>2
    <3> QED BY <3>3, <3>4
  <2>2. x = a + h.pos /\ h.pos < n
    BY <1>3, <1>4, <1>8, <2>1
  <2>3. a + h.pos \in a .. (a + n - 1)
    BY <1>5, <2>1, <2>2
  <2> QED BY <2>1, <2>2, <2>3 DEF Extent
<1>11. \A t \in Live : x # t
  <2>1. x \in Blocks(s) /\ \A t : t \in Blocks(t)
    BY <1>10 DEF Blocks
  <2> QED BY <1>8, <1>9, <1>10, <2>1 DEF FilesOK, IInv
<1>12. disk \in [Sector -> Inodes \union Data \union {Zeros, NULL}]
  BY TypedIs DEF IInv, StoreTypes
<1>13. /\ disk' \in [Sector -> Inodes \union Data \union {Zeros, NULL}]
       /\ \A t \in Live : disk'[t] = disk[t]
  <2>1. \A t \in Live : t \in Sector
    BY Entry DEF Live, Named, Used, Opened
  <2> QED BY <1>4, <1>11, <1>12, <2>1
<1>14. PICK n \in Nat : n = h.pos + 1
  BY <1>5
<1>15. IInv'
  BY <1>1, <1>4, <1>6, <1>13, <1>14, PositionMoves
<1>16. open_inodes[s] # NULL /\ open_inodes[s].deny_write_cnt = 0
  BY <1>1, <1>2, <1>7 DEF Opened, Write
<1>17. call[p].fd = NULL
  BY <1>4, AtPoint DEF Shape, Place, ClosingPlaces
<1> QED BY <1>1, <1>3, <1>4, <1>5, <1>6, <1>8, <1>9, <1>10, <1>15, <1>16, <1>17

LEMMA ReadStep ==
    ASSUME IInv, NEW p \in Proc, Proc = {p}, NEW d \in Fd,
           Read(p, d) \/ \E n \in Size : Seek(p, d, n)
    PROVE  IInv'
<1>1. disk \in [Sector -> Inodes \union Data \union {Zeros, NULL}]
  BY TypedIs DEF IInv, StoreTypes
<1>2. CASE Read(p, d)
  <2>1. PICK n \in Nat : n = fd[p][d].pos + 1
    BY <1>2, FdTypes DEF Read, IInv
  <2>2. fd' = [fd EXCEPT ![p][d] = [fd[p][d] EXCEPT !.pos = n]]
    BY <1>2, <2>1 DEF Read
  <2> QED BY <1>1, <1>2, <2>1, <2>2, PositionMoves DEF Read, onDisk
<1>3. ASSUME NEW n \in Size, Seek(p, d, n) PROVE IInv'
  <2>1. n \in Nat
    BY FileSysAssumption
  <2>2. fd' = [fd EXCEPT ![p][d] = [fd[p][d] EXCEPT !.pos = n]]
    BY <1>3 DEF Seek
  <2> QED BY <1>1, <1>3, <2>1, <2>2, PositionMoves DEF Seek, onDisk
<1> QED BY <1>2, <1>3

\* mySysExit closes the files that are left, and is done.
LEMMA ExitClosesStep ==
    ASSUME IInv, NEW p \in Proc, Proc = {p}, ExitCloses(p)
    PROVE  IInv'
<1>1. CASE FreeFds(p) # Fd
  <2>1. Fd \ FreeFds(p) # {} /\ Fd \ FreeFds(p) \in SUBSET Nat
    BY <1>1, FileSysAssumption DEF FreeFds
  <2>2. PICK d \in Fd : d = Min(Fd \ FreeFds(p)) /\ fd[p][d] # NULL
    BY <2>1, MinOf DEF FreeFds
  <2> QED BY <1>1, <2>2, CloseFileStep DEF ExitCloses
<1>2. CASE FreeFds(p) = Fd
  <2>1. /\ pc[p] = "exit" /\ Goto(p, "idle") /\ With(p, NoCall)
        /\ UNCHANGED <<onDisk, memory, ghosts>>
        /\ UNCHANGED <<root, disk_map, disk, free_map, open_inodes, fd, fileLock, leaked>>
    BY <1>2 DEF ExitCloses, onDisk, memory, ghosts
  <2>2. Moved(p, "idle", NoCall)
    BY <2>1 DEF Moved, Goto, With
  <2>3. Shape("idle", NoCall) /\ NoCall \in CallRecords
    BY NoCallRecord DEF Shape, Place, Making, MakingPlaces, ClosingPlaces
  <2>4. call'[p] = NoCall /\ call[p].fd = NULL /\ NoCall.fd = NULL
    BY <2>1, <2>2, AtPoint, NoCallRecord DEF Moved, Shape, Place, ClosingPlaces
  <2>5. \A d \in Fd : \A s \in Sector : SameAt(p, d, s)
    BY <2>1, <2>4 DEF SameAt, OpenAt, Closing
  <2>6. /\ disk \in [Sector -> Inodes \union Data \union {Zeros, NULL}]
        /\ fd \in [Proc -> [Fd -> OpenedFiles \union {NULL}]]
    BY TypedIs DEF IInv, StoreTypes
  <2> QED BY <2>1, <2>2, <2>3, <2>5, <2>6, DescriptorStep
<1> QED BY <1>1, <1>2

----------------------------------------------------------------------------
(* Starting, and starting again after a crash.                             *)

\* In memory there is nothing, and no call.
NothingInMemory ==
    /\ open_inodes = [s \in Sector |-> NULL]
    /\ fd = [p \in Proc |-> [d \in Fd |-> NULL]]
    /\ fileLock = NULL
    /\ pc = [p \in Proc |-> "idle"]
    /\ call = [p \in Proc |-> NoCall]
    /\ leaked = [s \in Sector |-> 0]

\* The disk agrees with itself, and what is allocated is a file's or lost.
Fresh ==
    /\ NothingInMemory /\ NamesOK
    /\ root \in [Slot -> Entries \union {NULL}]
    /\ free_map \subseteq Sector /\ disk_map = free_map /\ lost \subseteq Sector
    /\ disk \in [Sector -> Inodes \union Data \union {Zeros, NULL}]
    /\ \A s \in Named : disk[s] \in Inodes /\ s \notin Extent(disk[s]) /\ Blocks(s) \subseteq free_map
    /\ \A s, t \in Named : s # t => Blocks(s) \intersect Blocks(t) = {}
    /\ \A x \in free_map : x \in lost \/ \E s \in Named : x \in Blocks(s)

LEMMA Started ==
    ASSUME NEW p \in Proc, Proc = {p}, Fresh
    PROVE  IInv
<1> USE DEF Fresh
<1>1. pc[p] = "idle" /\ call[p] = NoCall /\ NoCall \in CallRecords /\ NoCall.fd = NULL /\ NoCall.op = "none"
  BY NoCallRecord DEF NothingInMemory
<1>2. Opened = {} /\ Live = Named
  BY DEF NothingInMemory, Opened, Live
<1>3. Typed
  <2>1. StoreTypes
    BY DEF StoreTypes, NothingInMemory
  <2>2. pc \in [Proc -> Labels] /\ call \in [Proc -> CallRecords] /\ fileLock \in Proc \union {NULL}
    BY NoCallRecord DEF NothingInMemory, Labels
  <2> QED BY <2>1, <2>2, TypedIs
<1>4. FilesOK /\ OpensOK
  BY <1>2 DEF FilesOK, OpensOK
<1>5. OpensCounted
  <2>1. ASSUME NEW s \in Sector PROVE CountOK(p, s)
    <3>1. \A d \in Fd : ~OpenAt(p, d, s)
      BY DEF OpenAt, NothingInMemory
    <3>2. OpenFiles(s) = {}
      BY <3>1, OpensAre
    <3>3. ~Using(p, s)
      BY <1>1 DEF Using
    <3>4. leaked[s] = 0 /\ open_inodes[s] = NULL
      BY DEF NothingInMemory
    <3> QED BY <3>2, <3>3, <3>4, FS_EmptySet DEF CountOK
  <2> QED BY <2>1, CountOne
<1>6. Held(pc[p], call[p]) = {} /\ ~HoldsInode(pc[p], call[p])
  BY <1>1, NothingHeld
<1>7. HeldOK(p) /\ Covered(p)
  BY <1>2, <1>6 DEF HeldOK, Covered
<1>8. Knows(p)
  BY <1>1 DEF Knows
<1>9. Shape(pc[p], call[p])
  BY <1>1, NoCallRecord DEF Shape, Place, Making, MakingPlaces, ClosingPlaces
<1> QED BY <1>3, <1>4, <1>5, <1>7, <1>8, <1>9 DEF IInv, CallOK

LEMMA StartedLater ==
    ASSUME NEW p \in Proc, Proc = {p}
    PROVE  Fresh' => IInv'
<1>1. Fresh => IInv
  BY Started
<1>2. (Fresh => IInv)'
  BY <1>1, PTL
<1> QED BY <1>2

LEMMA InitIInv == OneProcess /\ Init => IInv
<1> SUFFICES ASSUME OneProcess, Init PROVE IInv
  OBVIOUS
<1>1. PICK p \in Proc : Proc = {p}
  BY DEF OneProcess
<1>2. Named = {} /\ Used = {} /\ NothingInMemory
  BY DEF Init, Named, Used, NothingInMemory
<1>3. /\ root \in [Slot -> Entries \union {NULL}]
      /\ free_map = {} /\ disk_map = free_map /\ lost = {}
      /\ disk \in [Sector -> Inodes \union Data \union {Zeros, NULL}]
  BY DEF Init
<1>4. NamesOK
  BY <1>2 DEF NamesOK
<1> QED BY <1>1, <1>2, <1>3, <1>4, Started DEF Fresh

\* After a crash the disk says which sectors are whose.
LEMMA CrashStep ==
    ASSUME IInv, NEW p \in Proc, Proc = {p}, Crash
    PROVE  IInv'
<1>1. /\ UNCHANGED <<root, disk_map, disk>> /\ free_map' = disk_map
      /\ lost' = disk_map \ UNION {Blocks(s) : s \in Named}
  BY DEF Crash, onDisk
<1>2. NothingInMemory'
  BY DEF Crash, NothingInMemory
<1>3. Named' = Named /\ Used' = Used /\ \A s : Blocks(s)' = Blocks(s)
  BY <1>1 DEF Named, Used, Blocks
<1>4. /\ root \in [Slot -> Entries \union {NULL}] /\ disk_map \subseteq Sector
      /\ disk \in [Sector -> Inodes \union Data \union {Zeros, NULL}]
      /\ FilesOK /\ NamesOK
  BY TypedIs DEF IInv, StoreTypes
<1>5. \A s \in Named : /\ s \in Live /\ disk[s] \in Inodes /\ s \notin Extent(disk[s])
                       /\ Blocks(s) \subseteq disk_map
  BY <1>4 DEF FilesOK, NamesOK, Live
<1>6. \A s, t \in Named : s # t => Blocks(s) \intersect Blocks(t) = {}
  BY <1>4, <1>5 DEF FilesOK
<1>7. NamesOK'
  BY <1>1, <1>3, <1>4 DEF NamesOK
<1>8. \A x \in disk_map : x \in lost' \/ \E s \in Named : x \in Blocks(s)
  BY <1>1
<1>9. lost' \subseteq Sector
  BY <1>1, <1>4
<1>10. Fresh'
  BY <1>1, <1>2, <1>3, <1>4, <1>5, <1>6, <1>7, <1>8, <1>9 DEF Fresh
<1> QED BY <1>10, StartedLater

----------------------------------------------------------------------------
(* Every step.                                                             *)

LEMMA StoreStep ==
    ASSUME IInv, NEW p \in Proc, Proc = {p}, Store(p)
    PROVE  IInv'
  BY StoreCreate, StoreRemove

\* The steps inside a call.
LEMMA InsideACall ==
    ASSUME IInv, NEW p \in Proc, Proc = {p}, Steps(p)
    PROVE  IInv'
<1>1. CASE AllocateInode(p) \/ AllocateData(p) \/ WriteInode(p) \/ WriteZeros(p) \/ Undo(p)
  BY <1>1, AllocateInodeStep, AllocateDataStep, WriteInodeStep, WriteZerosStep, UndoStep
<1>2. CASE Lookup(p) \/ FindSlot(p) \/ Fetch(p) \/ Store(p) \/ WriteMap(p)
  BY <1>2, LookupStep, FindSlotStep, FetchStep, StoreStep, WriteMapStep
<1>3. CASE OpenInode(p) \/ LoadInode(p) \/ Install(p) \/ RemoveInode(p)
  BY <1>3, OpenInodeStep, LoadInodeStep, InstallStep, RemoveInodeStep
<1>4. CASE ReleaseInode(p) \/ ReleaseData(p) \/ Closed(p) \/ ExitCloses(p)
  BY <1>4, ReleaseInodeStep, ReleaseDataStep, ClosedStep, ExitClosesStep
<1> QED BY <1>1, <1>2, <1>3, <1>4 DEF Steps

\* The calls a program makes.
LEMMA CallsBegin ==
    ASSUME IInv, NEW p \in Proc, Proc = {p}, Calls(p)
    PROVE  IInv'
<1>1. CASE \/ \E n \in Name : Remove(p, n) \/ Open(p, n) \/ Execute(p, n)
           \/ \E n \in Name, size \in Size : Create(p, n, size)
           \/ Exit(p)
  BY <1>1, Starts
<1>2. ASSUME NEW d \in Fd, Read(p, d) \/ \E n \in Size : Seek(p, d, n)
      PROVE  IInv'
  BY <1>2, ReadStep
<1>3. ASSUME NEW d \in Fd, NEW v \in Data, Write(p, d, v)
      PROVE  IInv'
  BY <1>3, WriteStep
<1>4. ASSUME NEW d \in Fd, Close(p, d)
      PROVE  IInv'
  BY <1>4, CloseFileStep DEF Close
<1> QED BY <1>1, <1>2, <1>3, <1>4 DEF Calls

LEMMA Stutters == IInv /\ UNCHANGED vars => IInv'
<1> SUFFICES ASSUME IInv, UNCHANGED vars PROVE IInv'
  OBVIOUS
<1> USE DEF vars, onDisk, memory, ghosts
<1>1. Named' = Named /\ Used' = Used /\ Opened' = Opened /\ Live' = Live /\ \A s : Blocks(s)' = Blocks(s)
  BY DEF Named, Used, Opened, Live, Blocks
<1>2. Typed'
  BY TypedIs, TypedLater DEF IInv, StoreTypes
<1>3. FilesOK' /\ NamesOK' /\ OpensOK'
  BY <1>1 DEF IInv, FilesOK, NamesOK, OpensOK
<1>4. OpensCounted'
  <2>1. \A s : OpenFiles(s)' = OpenFiles(s)
    BY DEF OpenFiles, Closing
  <2>2. \A s : {p \in Proc : Using(p, s)}' = {p \in Proc : Using(p, s)}
    BY DEF Using
  <2>3. \A s : {x \in OpenFiles(s) : fd[x[1]][x[2]].deny}' = {x \in OpenFiles(s) : fd[x[1]][x[2]].deny}
    BY <2>1
  <2> QED BY <2>1, <2>2, <2>3 DEF IInv, OpensCounted
<1>5. ASSUME NEW p \in Proc PROVE CallOK(p)'
  <2>1. Shape(pc[p], call[p])' /\ HeldOK(p)' /\ Covered(p)'
    BY <1>1 DEF IInv, CallOK, HeldOK, Covered
  <2>2. Knows(p)'
    BY <1>1 DEF IInv, CallOK, Knows, Unnamed
  <2> QED BY <2>1, <2>2 DEF CallOK
<1> QED BY <1>2, <1>3, <1>4, <1>5 DEF IInv

LEMMA NextIInv == OneProcess /\ IInv /\ [Next]_vars => IInv'
<1> SUFFICES ASSUME OneProcess, IInv, [Next]_vars PROVE IInv'
  OBVIOUS
<1>1. PICK p \in Proc : Proc = {p}
  BY DEF OneProcess
<1>2. CASE Crash
  BY <1>1, <1>2, CrashStep
<1>3. CASE Calls(p)
  BY <1>1, <1>3, CallsBegin
<1>4. CASE Steps(p)
  BY <1>1, <1>4, InsideACall
<1>5. CASE UNCHANGED vars
  BY <1>5, Stutters
<1> QED BY <1>1, <1>2, <1>3, <1>4, <1>5 DEF Next

----------------------------------------------------------------------------
(* The refinement: what a step is to FileStore.                            *)

\* Nobody writes to the sectors of a file that is being made, once they have
\* been filled with zeros.
Zeroed(p) ==
    call[p].op = "create" /\ pc[p] \in {"lookup", "find_slot", "fetch", "store"} =>
        \A x \in Extent(Inode(call[p].start, call[p].size)) : disk[x] = Zeros

LEMMA ZeroedStep ==
    ASSUME IInv, NEW p \in Proc, Proc = {p}, Zeroed(p), Next
    PROVE  Zeroed(p)'
<1> DEFINE c == call[p]
           makes == {"lookup", "find_slot", "fetch", "store"}
<1>1. /\ c \in CallRecords /\ pc \in [Proc -> Labels] /\ call \in [Proc -> CallRecords] /\ Shape(pc[p], c)
      /\ HeldOK(p) /\ free_map \subseteq Sector
      /\ disk \in [Sector -> Inodes \union Data \union {Zeros, NULL}]
  BY AtPoint, TypedIs DEF IInv, StoreTypes
<1>2. ASSUME pc'[p] \notin makes \/ call'[p].op # "create" PROVE Zeroed(p)'
  BY <1>2 DEF Zeroed
<1>3. ASSUME pc[p] \in makes, call'[p].op = c.op, call'[p].start = c.start, call'[p].size = c.size, disk' = disk
      PROVE  Zeroed(p)'
  BY <1>3 DEF Zeroed
<1>4. Returns(p) => pc'[p] \notin makes
  BY <1>1 DEF Returns, Goto
<1>5. CASE Crash
  BY <1>2, <1>5 DEF Crash
<1>6. CASE Calls(p)
  <2>1. NoCall \in CallRecords
    BY NoCallRecord
  <2>2. ASSUME NEW n \in Name, Remove(p, n) PROVE Zeroed(p)'
    BY <1>1, <1>2, <2>1, <2>2 DEF Remove, Goto, With, NoCall
  <2>3. ASSUME NEW n \in Name, Open(p, n) PROVE Zeroed(p)'
    BY <1>1, <1>2, <2>1, <2>3 DEF Open, Goto, With, NoCall
  <2>4. ASSUME NEW n \in Name, Execute(p, n) PROVE Zeroed(p)'
    BY <1>1, <1>2, <2>1, <2>4 DEF Execute, Goto, With, NoCall
  <2>5. ASSUME NEW n \in Name, NEW size \in Size, Create(p, n, size) PROVE Zeroed(p)'
    BY <1>1, <1>2, <2>5 DEF Create, Goto
  <2>6. ASSUME NEW d \in Fd, \/ Read(p, d) \/ (\E v \in Data : Write(p, d, v)) \/ (\E n \in Size : Seek(p, d, n))
        PROVE  Zeroed(p)'
    BY <1>1, <1>2, <2>6 DEF Read, Write, Seek
  <2>7. ASSUME NEW d \in Fd, Close(p, d) PROVE Zeroed(p)'
    BY <1>1, <1>2, <2>7 DEF Close, CloseFile, Goto
  <2>8. CASE Exit(p)
    BY <1>1, <1>2, <2>8 DEF Exit, Goto
  <2> QED BY <1>6, <2>2, <2>3, <2>4, <2>5, <2>6, <2>7, <2>8 DEF Calls
<1>7. CASE AllocateInode(p) \/ AllocateData(p) \/ Undo(p)
  BY <1>1, <1>2, <1>4, <1>7 DEF AllocateInode, AllocateData, Undo, ThenWrites, Goto
<1>8. CASE WriteInode(p)
  <2>1. c.size = 0 \/ pc'[p] = "zero"
    BY <1>1, <1>8 DEF WriteInode, Goto, CallRecords
  <2>2. call' = call /\ (c.size = 0 => Extent(Inode(c.start, c.size)) = {})
    BY <1>1, <1>8, NoExtent, FileSysAssumption DEF WriteInode, CallRecords
  <2> QED BY <1>2, <2>1, <2>2 DEF Zeroed
<1>9. CASE WriteZeros(p)
  <2>1. /\ call' = call /\ pc[p] = "zero" /\ c.op = "create" /\ (c.start = 0 => c.size = 0)
        /\ disk' = [s \in Sector |-> IF s \in Extent(Inode(c.start, c.size)) THEN Zeros ELSE disk[s]]
    BY <1>1, <1>9 DEF WriteZeros, Shape, Place
  <2>2. Extent(Inode(c.start, c.size)) \subseteq Sector
    <3>1. Rest(c) = Extent(Inode(c.start, c.size))
      BY <1>1, <2>1, RestIs
    <3> QED BY <1>1, <2>1, <3>1 DEF HeldOK, Held, HoldsInode, Making, MakingPlaces, Place
  <2> QED BY <2>1, <2>2 DEF Zeroed
<1>10. CASE Lookup(p)
  BY <1>1, <1>2, <1>3, <1>4, <1>10 DEF Lookup, Goto, With, onDisk
<1>11. CASE FindSlot(p)
  <2>1. /\ call' = call \/ \E i : call' = [call EXCEPT ![p] = [c EXCEPT !.slot = i]]
        /\ pc[p] = "find_slot" /\ disk' = disk
    BY <1>11 DEF FindSlot, With, onDisk
  <2>2. call'[p].op = c.op /\ call'[p].start = c.start /\ call'[p].size = c.size
    BY <1>1, <2>1 DEF CallRecords
  <2> QED BY <1>3, <2>1, <2>2
<1>12. CASE Fetch(p)
  <2>1. call' = [call EXCEPT ![p] = [c EXCEPT !.bounce = root]] /\ pc[p] = "fetch" /\ disk' = disk
    BY <1>12 DEF Fetch, With, onDisk
  <2>2. call'[p].op = c.op /\ call'[p].start = c.start /\ call'[p].size = c.size
    BY <1>1, <2>1 DEF CallRecords
  <2> QED BY <1>3, <2>1, <2>2
<1>13. CASE Store(p) \/ WriteMap(p)
  BY <1>1, <1>2, <1>4, <1>13 DEF Store, WriteMap, Goto, Shape
<1>14. CASE OpenInode(p) \/ LoadInode(p)
  BY <1>1, <1>2, <1>14 DEF OpenInode, LoadInode, Shape, Place
<1>15. CASE Install(p) \/ RemoveInode(p) \/ Closed(p)
  BY <1>1, <1>2, <1>4, <1>15 DEF Install, RemoveInode, Closed, Goto
<1>16. CASE ReleaseInode(p) \/ ReleaseData(p)
  BY <1>1, <1>2, <1>16 DEF ReleaseInode, ReleaseData, ThenWrites, Goto
<1>17. CASE ExitCloses(p)
  BY <1>1, <1>2, <1>17 DEF ExitCloses, CloseFile, Goto
<1> QED BY <1>5, <1>6, <1>7, <1>8, <1>9, <1>10, <1>11, <1>12, <1>13, <1>14, <1>15, <1>16, <1>17 DEF Next, Steps

\* What FileStore sees of a name, of a descriptor and of a file.
Visible(s) == s \in Named \/ OpenFiles(s) # {}

LEMMA NamesAre ==
    IInv => /\ \A i \in Used : FileByName[root[i].name] = root[i].sector
            /\ \A n \in Name : Unnamed(n) => FileByName[n] = NULL
<1> SUFFICES ASSUME IInv
             PROVE  /\ \A i \in Used : FileByName[root[i].name] = root[i].sector
                    /\ \A n \in Name : Unnamed(n) => FileByName[n] = NULL
  OBVIOUS
<1>1. ASSUME NEW i \in Used PROVE FileByName[root[i].name] = root[i].sector
  <2>1. PICK n \in Name : n = root[i].name
    BY Entry
  <2>2. PICK at : at = {j \in Slot : root[j] # NULL /\ root[j].name = n}
    OBVIOUS
  <2>3. at # {} /\ at \in SUBSET Nat /\ \A j \in at : j = i
    BY <2>1, <2>2, FileSysAssumption DEF Used, NamesOK, IInv
  <2>4. Min(at) = i
    BY <2>3, MinOf
  <2> QED BY <2>1, <2>2, <2>3, <2>4 DEF FileByName
<1>2. ASSUME NEW n \in Name, Unnamed(n) PROVE FileByName[n] = NULL
  <2>1. {j \in Slot : root[j] # NULL /\ root[j].name = n} = {}
    BY <1>2 DEF Unnamed, Used
  <2> QED BY <2>1 DEF FileByName
<1> QED BY <1>1, <1>2

LEMMA NamesAreLater ==
    IInv' => /\ \A i \in Used' : FileByName'[root'[i].name] = root'[i].sector
             /\ \A n \in Name : Unnamed(n)' => FileByName'[n] = NULL
<1>1. (IInv => /\ \A i \in Used : FileByName[root[i].name] = root[i].sector
               /\ \A n \in Name : Unnamed(n) => FileByName[n] = NULL)'
  BY NamesAre, PTL
<1> QED BY <1>1

\* A name whose slot a step leaves alone.
LEMMA NameKept ==
    ASSUME IInv, IInv', NEW n \in Name,
           \A i \in Used : root[i].name = n => i \in Used' /\ root'[i] = root[i],
           Unnamed(n) => Unnamed(n)'
    PROVE  FileByName'[n] = FileByName[n]
<1>1. CASE Unnamed(n)
  BY <1>1, NamesAre, NamesAreLater
<1>2. CASE ~Unnamed(n)
  <2>1. PICK i \in Used : root[i].name = n
    BY <1>2 DEF Unnamed
  <2> QED BY <2>1, NamesAre, NamesAreLater
<1> QED BY <1>1, <1>2

LEMMA SameNames ==
    ASSUME root' = root
    PROVE  FileByName' = FileByName
  BY DEF FileByName

LEMMA HandleIs ==
    ASSUME IInv, NEW p \in Proc, NEW d \in Fd
    PROVE  /\ HandleByFd[p][d] = Handle(p, d)
           /\ Handle(p, d) # NULL <=> fd[p][d] # NULL /\ ~Closing(p, d)
           /\ Handle(p, d) # NULL => /\ Handle(p, d).file = fd[p][d].inode /\ Handle(p, d).pos = fd[p][d].pos
                                     /\ Handle(p, d).deny = fd[p][d].deny
                                     /\ Handle(p, d) = [file |-> fd[p][d].inode, pos |-> fd[p][d].pos,
                                                        deny |-> fd[p][d].deny]
                                     /\ Handle(p, d).pos \in Nat
<1>1. HandleByFd[p][d] = Handle(p, d)
  BY DEF HandleByFd
<1>2. CASE fd[p][d] = NULL \/ Closing(p, d)
  BY <1>1, <1>2 DEF Handle
<1>3. CASE fd[p][d] # NULL /\ ~Closing(p, d)
  <2>1. fd[p][d].inode \in Sector /\ fd[p][d].pos \in Nat /\ fd[p][d].deny \in BOOLEAN
    BY <1>3, FdTypes DEF IInv
  <2>2. PICK h : h = [file |-> fd[p][d].inode, pos |-> fd[p][d].pos, deny |-> fd[p][d].deny]
    OBVIOUS
  <2>3. h \in [file : Sector, pos : Nat, deny : BOOLEAN]
    BY <2>1, <2>2
  <2>4. Handle(p, d) = h /\ h # NULL
    BY <1>3, <2>2, <2>3, FileSysAssumption DEF Handle
  <2> QED BY <1>1, <1>3, <2>1, <2>2, <2>4
<1> QED BY <1>2, <1>3

LEMMA HandleChanged ==
    ASSUME NEW p \in Proc, Proc = {p}, NEW d \in Fd, NEW v, Handle(p, d)' = v,
           \A e \in Fd \ {d} : Handle(p, e)' = Handle(p, e)
    PROVE  HandleByFd' = [HandleByFd EXCEPT ![p][d] = v]
<1>1. HandleByFd' = [q \in Proc |-> [e \in Fd |-> Handle(q, e)']]
  BY DEF HandleByFd
<1>2. [HandleByFd EXCEPT ![p][d] = v] = [q \in Proc |-> [e \in Fd |-> IF q = p /\ e = d THEN v ELSE Handle(q, e)]]
  BY DEF HandleByFd
<1>3. \A q \in Proc : [e \in Fd |-> Handle(q, e)'] = [e \in Fd |-> IF q = p /\ e = d THEN v ELSE Handle(q, e)]
  OBVIOUS
<1> QED BY <1>1, <1>2, <1>3

LEMMA SameHandles ==
    ASSUME NEW p \in Proc, Proc = {p}, \A d \in Fd : Handle(p, d)' = Handle(p, d)
    PROVE  HandleByFd' = HandleByFd
<1>1. \A q \in Proc : [e \in Fd |-> Handle(q, e)'] = [e \in Fd |-> Handle(q, e)]
  OBVIOUS
<1> QED BY <1>1 DEF HandleByFd

\* Who has a file open, by handles.
LEMMA OpenIs ==
    ASSUME IInv, NEW p \in Proc, Proc = {p}, NEW s
    PROVE  OpenFiles(s) # {} <=> \E d \in Fd : Handle(p, d) # NULL /\ Handle(p, d).file = s
<1>1. \A d \in Fd : OpenAt(p, d, s) <=> Handle(p, d) # NULL /\ Handle(p, d).file = s
  BY HandleIs DEF OpenAt
<1> QED BY <1>1, OpensAre

LEMMA ReferredIs ==
    OneProcess /\ IInv => \A s \in Sector :
       Visible(s) <=> \/ \E n \in Name : FileByName[n] = s
                      \/ \E p \in Proc, d \in Fd : HandleByFd[p][d] # NULL /\ HandleByFd[p][d].file = s
<1> SUFFICES ASSUME OneProcess, IInv, NEW s \in Sector
             PROVE Visible(s) <=> \/ \E n \in Name : FileByName[n] = s
                                  \/ \E p \in Proc, d \in Fd : HandleByFd[p][d] # NULL /\ HandleByFd[p][d].file = s
  OBVIOUS
<1>1. PICK p \in Proc : Proc = {p}
  BY DEF OneProcess
<1>2. s \in Named <=> \E n \in Name : FileByName[n] = s
  <2>1. ASSUME s \in Named PROVE \E n \in Name : FileByName[n] = s
    <3>1. PICK i \in Used : root[i].sector = s
      BY <2>1 DEF Named, Used
    <3> QED BY <3>1, NamesAre, Entry
  <2>2. ASSUME NEW n \in Name, FileByName[n] = s PROVE s \in Named
    <3>1. s # NULL
      BY FileSysAssumption
    <3>2. PICK i \in Used : root[i].name = n
      BY <2>2, <3>1, NamesAre DEF Unnamed
    <3> QED BY <2>2, <3>2, NamesAre, Entry
  <2> QED BY <2>1, <2>2
<1>3. OpenFiles(s) # {} <=> \E q \in Proc, d \in Fd : HandleByFd[q][d] # NULL /\ HandleByFd[q][d].file = s
  BY <1>1, OpenIs, HandleIs
<1> QED BY <1>2, <1>3 DEF Visible

LEMMA ReferredLater ==
    OneProcess /\ IInv' => \A s \in Sector :
       Visible(s)' <=> \/ \E n \in Name : FileByName'[n] = s
                       \/ \E p \in Proc, d \in Fd : HandleByFd'[p][d] # NULL /\ HandleByFd'[p][d].file = s
<1>1. (OneProcess /\ IInv => \A s \in Sector :
         Visible(s) <=> \/ \E n \in Name : FileByName[n] = s
                        \/ \E p \in Proc, d \in Fd : HandleByFd[p][d] # NULL /\ HandleByFd[p][d].file = s)'
  BY ReferredIs, PTL
<1> QED BY <1>1 DEF OneProcess

LEMMA VisibleLive ==
    ASSUME IInv, NEW p \in Proc, Proc = {p}, NEW s \in Sector, Visible(s)
    PROVE  s \in Live
<1>1. CASE s \in Named
  BY <1>1 DEF Live
<1>2. CASE OpenFiles(s) # {}
  <2>1. CountOK(p, s) /\ Cardinality(OpenFiles(s)) \in Nat \ {0} /\ leaked[s] \in Nat
    BY <1>2, CountOne, CountTypes DEF IInv
  <2> QED BY <2>1 DEF CountOK, Opened, Live
<1> QED BY <1>1, <1>2 DEF Visible

\* What is in a file changes only if one of its sectors does.
LEMMA TextKept ==
    ASSUME IInv, NEW s \in Live, disk'[s] = disk[s], \A x \in Extent(disk[s]) : disk'[x] = disk[x]
    PROVE  Text(s)' = Text(s)
<1>1. PICK a \in Nat, n \in Nat : a = disk[s].start /\ n = disk[s].length
  <2>1. disk[s].start \in Sector \union {0} /\ disk[s].length \in 0..Cardinality(Sector)
    BY DEF FilesOK, IInv, Inodes
  <2>2. (\A x \in Sector \union {0} : x \in Nat) /\ Cardinality(Sector) \in Nat
    BY FileSysAssumption, FS_CardinalityType
  <2>3. disk[s].start \in Nat
    BY <2>1, <2>2
  <2>4. disk[s].length \in Nat
    BY <2>1, <2>2
  <2> QED BY <2>3, <2>4
<1>2. Extent(disk[s]) = a .. (a + n - 1)
  BY <1>1 DEF Extent
<1>3. \A i \in 1..n : disk'[a + i - 1] = disk[a + i - 1]
  <2>1. \A i \in 1..n : a + i - 1 \in a .. (a + n - 1)
    BY <1>1
  <2> QED BY <1>2, <2>1
<1>4. Text(s)' = [i \in 1..n |-> disk'[a + i - 1]] /\ Text(s) = [i \in 1..n |-> disk[a + i - 1]]
  BY <1>1 DEF Text
<1> QED BY <1>3, <1>4

LEMMA TextsKept ==
    ASSUME IInv, IInv', NEW p \in Proc, Proc = {p}, \A s \in Sector : Visible(s)' <=> Visible(s),
           \A s \in Sector : Visible(s) => Text(s)' = Text(s)
    PROVE  TextByFile' = TextByFile
<1>1. TextByFile = [s \in Sector |-> IF Visible(s) THEN Text(s) ELSE NULL]
  BY DEF TextByFile, Visible
<1>2. TextByFile' = [s \in Sector |-> IF Visible(s)' THEN Text(s)' ELSE NULL]
  BY DEF TextByFile, Visible
<1> QED BY <1>1, <1>2

LEMMA KeptIs ==
    ASSUME OneProcess, IInv, IInv', \A s \in Sector : Visible(s)' => Visible(s) /\ Text(s)' = Text(s)
    PROVE  TextByFile' = Files!Kept
<1>1. TextByFile = [s \in Sector |-> IF Visible(s) THEN Text(s) ELSE NULL]
  BY DEF TextByFile, Visible
<1>2. TextByFile' = [s \in Sector |-> IF Visible(s)' THEN Text(s)' ELSE NULL]
  BY DEF TextByFile, Visible
<1>3. \A s \in Sector : Files!Referred(s, FileByName', HandleByFd') <=> Visible(s)'
  BY ReferredLater DEF Files!Referred
<1>4. Files!Kept = [s \in Sector |-> IF Visible(s)' THEN TextByFile[s] ELSE NULL]
  BY <1>3 DEF Files!Kept
<1> QED BY <1>1, <1>2, <1>4

LEMMA OpenIsLater ==
    ASSUME NEW p \in Proc, Proc = {p}
    PROVE  IInv' => \A s : OpenFiles(s)' # {} <=> \E d \in Fd : Handle(p, d)' # NULL /\ Handle(p, d)'.file = s
<1>1. IInv => \A s : OpenFiles(s) # {} <=> \E d \in Fd : Handle(p, d) # NULL /\ Handle(p, d).file = s
  BY OpenIs
<1>2. (IInv => \A s : OpenFiles(s) # {} <=> \E d \in Fd : Handle(p, d) # NULL /\ Handle(p, d).file = s)'
  BY <1>1, PTL
<1> QED BY <1>2

Unseen == UNCHANGED <<FileByName, TextByFile, HandleByFd>>

\* A step that FileStore does not see.
LEMMA UnseenStep ==
    ASSUME IInv, IInv', NEW p \in Proc, Proc = {p}, root' = root,
           \A d \in Fd : Handle(p, d)' = Handle(p, d),
           \A s \in Live : disk'[s] = disk[s] /\ \A x \in Extent(disk[s]) : disk'[x] = disk[x]
    PROVE  Unseen
<1>1. \A s \in Sector : Visible(s)' <=> Visible(s)
  <2>1. Named' = Named
    BY DEF Named
  <2> QED BY <2>1, OpenIs, OpenIsLater DEF Visible
<1>2. \A s \in Sector : Visible(s) => Text(s)' = Text(s)
  BY VisibleLive, TextKept
<1> QED BY <1>1, <1>2, TextsKept, SameNames, SameHandles DEF Unseen

LEMMA SameHandle ==
    ASSUME NEW p \in Proc, fd' = fd, call'[p].fd = call[p].fd
    PROVE  \A d \in Fd : Handle(p, d)' = Handle(p, d)
  BY DEF Handle, Closing

\* Everything up to the write of the directory, and everything after it.
LEMMA UnseenSteps ==
    ASSUME IInv, IInv', NEW p \in Proc, Proc = {p},
           \/ \E n \in Name : Remove(p, n) \/ Open(p, n) \/ Execute(p, n)
           \/ \E n \in Name, size \in Size : Create(p, n, size)
           \/ Exit(p)
           \/ AllocateInode(p) \/ AllocateData(p) \/ Undo(p) \/ Lookup(p) \/ FindSlot(p) \/ Fetch(p)
           \/ WriteMap(p) \/ OpenInode(p) \/ LoadInode(p) \/ RemoveInode(p)
           \/ ReleaseInode(p) \/ ReleaseData(p)
    PROVE  Unseen
<1> DEFINE c == call[p]
<1>1. /\ c \in CallRecords /\ call \in [Proc -> CallRecords] /\ Shape(pc[p], c)
  BY AtPoint
<1>2. pc[p] \notin ClosingPlaces \union {"write_map"} => c.fd = NULL
  BY <1>1 DEF Shape, Place
<1>3. Returns(p) => call'[p].fd = NULL
  BY <1>1, NoCallRecord DEF Returns, With, CallRecords
<1>4. ASSUME root' = root, disk' = disk, fd' = fd, call'[p].fd = c.fd PROVE Unseen
  BY <1>4, UnseenStep, SameHandle
<1> USE DEF onDisk, memory, ghosts
<1>5. ASSUME NEW n \in Name, Remove(p, n) \/ Open(p, n) \/ Execute(p, n) PROVE Unseen
  <2>1. c.fd = NULL
    BY <1>2, <1>5 DEF Remove, Open, Execute, ClosingPlaces
  <2>2. call'[p].fd = NULL
    <3>1. ASSUME Remove(p, n) PROVE call'[p].fd = NULL
      BY <1>1, <3>1 DEF Remove, With, NoCall
    <3>2. ASSUME Open(p, n) PROVE call'[p].fd = NULL
      BY <1>1, <3>2 DEF Open, With, NoCall
    <3>3. ASSUME Execute(p, n) PROVE call'[p].fd = NULL
      BY <1>1, <3>3 DEF Execute, With, NoCall
    <3> QED BY <1>5, <3>1, <3>2, <3>3
  <2> QED BY <1>4, <1>5, <2>1, <2>2 DEF Remove, Open, Execute
<1>6. ASSUME NEW n \in Name, NEW size \in Size, Create(p, n, size) PROVE Unseen
  <2>1. c.fd = NULL
    BY <1>2, <1>6 DEF Create, ClosingPlaces
  <2>2. call'[p].fd = NULL
    BY <1>1, <1>6, NoCallRecord DEF Create, With, CallRecords
  <2> QED BY <1>4, <1>6, <2>1, <2>2 DEF Create
<1>7. CASE Exit(p)
  <2>1. c.fd = NULL
    BY <1>2, <1>7 DEF Exit, ClosingPlaces
  <2>2. call'[p].fd = NULL
    BY <1>1, <1>7, NoCallRecord DEF Exit, With, CallRecords
  <2> QED BY <1>4, <1>7, <2>1, <2>2 DEF Exit
<1>8. CASE AllocateInode(p)
  <2>1. c.fd = NULL
    BY <1>2, <1>8 DEF AllocateInode, ClosingPlaces
  <2>2. call'[p].fd = NULL
    <3>1. CASE Scan(1) = NULL
      BY <1>3, <1>8, <3>1 DEF AllocateInode
    <3>2. CASE Scan(1) # NULL
      <4>1. PICK k : k = [c EXCEPT !.sector = Scan(1)]
        OBVIOUS
      <4>2. call' = [call EXCEPT ![p] = [k EXCEPT !.next = "alloc_data"]]
        BY <1>8, <3>2, <4>1 DEF AllocateInode, ThenWrites, With
      <4> QED BY <1>1, <2>1, <4>1, <4>2 DEF CallRecords
    <3> QED BY <3>1, <3>2
  <2> QED BY <1>4, <1>8, <2>1, <2>2 DEF AllocateInode
<1>9. CASE AllocateData(p)
  <2>1. call'[p].fd = c.fd
    BY <1>1, <1>9 DEF AllocateData, ThenWrites, With, CallRecords
  <2> QED BY <1>4, <1>9, <2>1 DEF AllocateData
<1>10. CASE Undo(p) \/ ReleaseInode(p) \/ ReleaseData(p)
  <2>1. call'[p].fd = c.fd
    BY <1>1, <1>10 DEF Undo, ReleaseInode, ReleaseData, ThenWrites, With, CallRecords
  <2> QED BY <1>4, <1>10, <2>1 DEF Undo, ReleaseInode, ReleaseData
<1>11. CASE Lookup(p)
  <2>1. c.fd = NULL
    BY <1>2, <1>11 DEF Lookup, ClosingPlaces
  <2>2. call'[p].fd = NULL
    BY <1>1, <1>3, <1>11, <2>1 DEF Lookup, With, CallRecords
  <2> QED BY <1>4, <1>11, <2>1, <2>2 DEF Lookup
<1>12. CASE FindSlot(p) \/ Fetch(p)
  <2>1. call'[p].fd = c.fd
    BY <1>1, <1>12 DEF FindSlot, Fetch, With, CallRecords
  <2> QED BY <1>4, <1>12, <2>1 DEF FindSlot, Fetch
<1>13. CASE WriteMap(p)
  <2>1. c.next = "idle" => c.fd = NULL
    BY <1>1, <1>13 DEF WriteMap, Shape, Place, ClosingPlaces
  <2>2. call'[p].fd = c.fd
    BY <1>1, <1>3, <1>13, <2>1 DEF WriteMap
  <2> QED BY <1>4, <1>13, <2>2 DEF WriteMap
<1>14. CASE OpenInode(p) \/ LoadInode(p)
  BY <1>4, <1>14 DEF OpenInode, LoadInode
<1>15. CASE RemoveInode(p)
  <2>1. c.fd = NULL
    BY <1>2, <1>15 DEF RemoveInode, ClosingPlaces
  <2>2. call'[p].fd = NULL
    <3>1. Returns(p) \/ \E a, n : call' = [call EXCEPT ![p] = [c EXCEPT !.start = a, !.size = n]]
      BY <1>15 DEF RemoveInode, With
    <3> QED BY <1>1, <1>3, <2>1, <3>1 DEF CallRecords
  <2> QED BY <1>4, <1>15, <2>1, <2>2 DEF RemoveInode
<1> QED BY <1>5, <1>6, <1>7, <1>8, <1>9, <1>10, <1>11, <1>12, <1>13, <1>14, <1>15

\* What a creation writes before its file has a name is no file's.
LEMMA UnseenWrites ==
    ASSUME IInv, IInv', NEW p \in Proc, Proc = {p}, WriteInode(p) \/ WriteZeros(p)
    PROVE  Unseen
<1> DEFINE c == call[p]
<1>1. /\ c \in CallRecords /\ c.op = "create" /\ (c.start = 0 => c.size = 0) /\ pc[p] \in {"write_inode", "zero"}
      /\ root' = root /\ fd' = fd /\ call' = call
      /\ disk \in [Sector -> Inodes \union Data \union {Zeros, NULL}] /\ free_map \subseteq Sector
  BY AtPoint, TypedIs DEF WriteInode, WriteZeros, Shape, Place, IInv, StoreTypes, memory
<1>2. Held(pc[p], c) = {c.sector} \union Extent(Inode(c.start, c.size))
  BY <1>1, RestIs DEF Held, HoldsInode, Making, MakingPlaces, Place
<1>3. \A x \in Sector : x \notin Held(pc[p], c) => disk'[x] = disk[x]
  BY <1>1, <1>2 DEF WriteInode, WriteZeros
<1>4. \A s \in Live : s \notin Held(pc[p], c) /\ \A x \in Extent(disk[s]) : x \in Sector /\ x \notin Held(pc[p], c)
  BY <1>1, HeldApart DEF Blocks
<1>5. \A s \in Live : s \in Sector
  BY Entry DEF Live, Named, Used, Opened
<1> QED BY <1>1, <1>3, <1>4, <1>5, UnseenStep, SameHandle

\* A descriptor is free when the release has been done; the file was closed
\* before.
LEMMA UnseenEnds ==
    ASSUME IInv, IInv', NEW p \in Proc, Proc = {p},
           Closed(p) \/ (ExitCloses(p) /\ FreeFds(p) = Fd) \/ UNCHANGED vars
    PROVE  Unseen
<1> DEFINE c == call[p]
<1>1. c \in CallRecords /\ call \in [Proc -> CallRecords] /\ Shape(pc[p], c)
  BY AtPoint
<1>2. CASE Closed(p)
  <2>1. root' = root /\ disk' = disk /\ fd' = IF c.fd = NULL THEN fd ELSE [fd EXCEPT ![p][c.fd] = NULL]
    BY <1>2 DEF Closed, onDisk
  <2>2. call'[p].fd = NULL
    BY <1>1, <1>2, NoCallRecord DEF Closed, Returns, With, CallRecords
  <2>3. CASE c.fd = NULL
    BY <2>1, <2>2, <2>3, UnseenStep, SameHandle
  <2>4. CASE c.fd # NULL
    <3>1. PICK d \in Fd : d = c.fd
      BY <1>1, <2>4 DEF CallRecords
    <3>2. fd'[p][d] = NULL /\ \A e \in Fd \ {d} : fd'[p][e] = fd[p][e]
      BY <2>1, <2>4, <3>1, ChangeFd DEF IInv
    <3>3. Handle(p, d) = NULL /\ Handle(p, d)' = NULL
      BY <3>1, <3>2 DEF Handle, Closing
    <3>4. \A e \in Fd \ {d} : ~Closing(p, e) /\ ~Closing(p, e)'
      BY <2>2, <3>1, FileSysAssumption DEF Closing
    <3>5. \A e \in Fd \ {d} : Handle(p, e)' = Handle(p, e)
      BY <3>2, <3>4 DEF Handle
    <3> QED BY <2>1, <3>3, <3>5, UnseenStep
  <2> QED BY <2>3, <2>4
<1>3. CASE ExitCloses(p) /\ FreeFds(p) = Fd
  <2>1. root' = root /\ disk' = disk /\ fd' = fd /\ c.fd = NULL /\ With(p, NoCall)
    BY <1>1, <1>3 DEF ExitCloses, onDisk, memory, Shape, Place, ClosingPlaces
  <2>2. call'[p].fd = NULL
    BY <1>1, <2>1, NoCallRecord DEF With
  <2> QED BY <2>1, <2>2, UnseenStep, SameHandle
<1>4. CASE UNCHANGED vars
  BY <1>4, UnseenStep, SameHandle DEF vars, onDisk, memory
<1> QED BY <1>2, <1>3, <1>4

----------------------------------------------------------------------------
(* The steps that FileStore sees.                                          *)

\* A step after which fewer descriptors refer to files, and files are as before.
LEMMA HandlesGo ==
    ASSUME OneProcess, IInv, IInv', NEW p \in Proc, Proc = {p}, UNCHANGED <<root, disk>>,
           \A d \in Fd : Handle(p, d)' = NULL \/ Handle(p, d)' = Handle(p, d)
    PROVE  FileByName' = FileByName /\ TextByFile' = Files!Kept
<1>1. \A s : OpenFiles(s)' # {} => OpenFiles(s) # {}
  BY OpenIs, OpenIsLater
<1>2. \A s \in Sector : Visible(s)' => Visible(s) /\ Text(s)' = Text(s)
  BY <1>1, VisibleLive DEF Visible, Named, Text
<1> QED BY <1>2, KeptIs, SameNames

LEMMA CrashSeen ==
    ASSUME OneProcess, IInv, IInv', NEW p \in Proc, Proc = {p}, Crash
    PROVE  Files!Crash
<1>1. \A d \in Fd : Handle(p, d)' = NULL
  BY DEF Crash, Handle
<1>2. FileByName' = FileByName /\ TextByFile' = Files!Kept
  BY <1>1, HandlesGo DEF Crash, onDisk
<1>3. HandleByFd' = [q \in Proc |-> [d \in Fd |-> NULL]]
  <2>1. HandleByFd' = [q \in Proc |-> [d \in Fd |-> Handle(q, d)']]
    BY DEF HandleByFd
  <2>2. \A q \in Proc : [d \in Fd |-> Handle(q, d)'] = [d \in Fd |-> NULL]
    BY <1>1
  <2> QED BY <2>1, <2>2
<1> QED BY <1>2, <1>3 DEF Files!Crash

LEMMA CloseSeen ==
    ASSUME OneProcess, IInv, IInv', NEW p \in Proc, Proc = {p}, NEW op \in {"close", "exit"}, NEW d \in Fd,
           pc[p] \in {"idle", "exit"}, fd[p][d] # NULL, CloseFile(p, op, d)
    PROVE  Files!Close(p, d)
<1> DEFINE c == call[p]
<1>1. /\ call \in [Proc -> CallRecords] /\ c.fd = NULL /\ d # NULL /\ UNCHANGED <<root, disk>>
  BY AtPoint, FileSysAssumption DEF CloseFile, Shape, Place, ClosingPlaces, onDisk
<1>2. Handle(p, d) # NULL /\ HandleByFd[p][d] = Handle(p, d)
  BY <1>1, HandleIs DEF Closing
<1>3. Handle(p, d)' = NULL /\ \A e \in Fd \ {d} : Handle(p, e)' = Handle(p, e)
  <2>1. CASE MustRelease(fd[p][d].inode)
    <3>1. PICK s : s = fd[p][d].inode
      OBVIOUS
    <3>2. PICK k : k = [NoCall EXCEPT !.op = op, !.fd = d, !.sector = s,
                                      !.start = Releasing(s).start, !.size = Releasing(s).size]
      OBVIOUS
    <3>3. fd' = fd /\ call' = [call EXCEPT ![p] = k]
      BY <2>1, <3>1, <3>2 DEF CloseFile, With
    <3>4. k.fd = d
      BY <3>2 DEF NoCall
    <3>5. call'[p].fd = d
      BY <1>1, <3>3, <3>4
    <3> QED BY <1>1, <3>3, <3>5, FileSysAssumption DEF Handle, Closing
  <2>2. CASE ~MustRelease(fd[p][d].inode)
    <3>1. fd' = [fd EXCEPT ![p][d] = NULL] /\ call' = call
      BY <2>2 DEF CloseFile
    <3>2. fd'[p][d] = NULL /\ \A e \in Fd \ {d} : fd'[p][e] = fd[p][e]
      BY <3>1, ChangeFd DEF IInv
    <3> QED BY <3>1, <3>2 DEF Handle, Closing
  <2> QED BY <2>1, <2>2
<1>4. FileByName' = FileByName /\ TextByFile' = Files!Kept
  BY <1>1, <1>3, HandlesGo
<1>5. HandleByFd' = [HandleByFd EXCEPT ![p][d] = NULL]
  BY <1>3, HandleChanged
<1> QED BY <1>2, <1>4, <1>5 DEF Files!Close

\* A handle whose position a step moves.
LEMMA PositionSeen ==
    ASSUME IInv, NEW p \in Proc, Proc = {p}, NEW d \in Fd, fd[p][d] # NULL, call' = call, call[p].fd = NULL,
           NEW n \in Nat, fd' = [fd EXCEPT ![p][d] = [fd[p][d] EXCEPT !.pos = n]]
    PROVE  /\ HandleByFd[p][d] = Handle(p, d) /\ Handle(p, d) # NULL /\ Handle(p, d)' # NULL
           /\ Handle(p, d)' = [Handle(p, d) EXCEPT !.pos = n] /\ HandleByFd'[p][d].pos = n
           /\ HandleByFd'[p][d] # NULL
           /\ HandleByFd' = [HandleByFd EXCEPT ![p][d].pos = n]
           /\ \A e \in Fd : /\ Handle(p, e)' # NULL <=> Handle(p, e) # NULL
                            /\ Handle(p, e) # NULL => Handle(p, e)'.file = Handle(p, e).file
<1>1. PICK h : h = [fd[p][d] EXCEPT !.pos = n]
  OBVIOUS
<1>2. /\ fd[p][d] \in OpenedFiles /\ fd[p][d].inode \in Sector /\ fd[p][d].pos \in Nat
      /\ fd[p][d].deny \in BOOLEAN
  BY FdTypes DEF IInv
<1>3. h \in OpenedFiles /\ h # NULL /\ h.inode = fd[p][d].inode /\ h.deny = fd[p][d].deny /\ h.pos = n
  <2>1. h \in OpenedFiles
    BY <1>1, <1>2 DEF OpenedFiles
  <2> QED BY <1>1, <1>2, <2>1, FileSysAssumption DEF OpenedFiles
<1>4. fd'[p][d] = h /\ \A e \in Fd \ {d} : fd'[p][e] = fd[p][e]
  BY <1>1, <1>3, ChangeFd DEF IInv
<1>5. \A e \in Fd : ~Closing(p, e) /\ ~Closing(p, e)'
  BY FileSysAssumption DEF Closing
<1>6. PICK v : v = [file |-> h.inode, pos |-> n, deny |-> h.deny]
  OBVIOUS
<1>7. v # NULL /\ v.pos = n /\ v.file = h.inode
  <2>1. v \in [file : Sector, pos : Nat, deny : BOOLEAN]
    BY <1>2, <1>3, <1>6
  <2> QED BY <1>6, <2>1, FileSysAssumption
<1>8. Handle(p, d)' = v
  BY <1>3, <1>4, <1>5, <1>6 DEF Handle
<1>9. /\ Handle(p, d) = [file |-> fd[p][d].inode, pos |-> fd[p][d].pos, deny |-> fd[p][d].deny]
      /\ HandleByFd[p][d] = Handle(p, d) /\ Handle(p, d) # NULL
  BY <1>5, HandleIs
<1>10. v = [Handle(p, d) EXCEPT !.pos = n]
  BY <1>3, <1>6, <1>9
<1>11. \A e \in Fd \ {d} : Handle(p, e)' = Handle(p, e)
  BY <1>4, <1>5 DEF Handle
<1>12. HandleByFd' = [HandleByFd EXCEPT ![p][d] = v]
  BY <1>8, <1>11, HandleChanged
<1>13. HandleByFd'[p][d] = v
  BY <1>8 DEF HandleByFd
<1>14. HandleByFd' = [HandleByFd EXCEPT ![p][d].pos = n]
  BY <1>9, <1>10, <1>12
<1>15. Handle(p, d).file = h.inode
  BY <1>3, <1>9
<1> QED BY <1>7, <1>8, <1>9, <1>10, <1>11, <1>13, <1>14, <1>15

LEMMA MoveSeen ==
    ASSUME IInv, IInv', NEW p \in Proc, Proc = {p}, NEW d \in Fd,
           Read(p, d) \/ \E n \in Size : Seek(p, d, n)
    PROVE  Files!Move(p, d)
<1>1. /\ pc[p] = "idle" /\ fd[p][d] # NULL /\ UNCHANGED <<root, disk, call>>
  BY DEF Read, Seek, onDisk
<1>2. PICK n \in Nat : fd' = [fd EXCEPT ![p][d] = [fd[p][d] EXCEPT !.pos = n]]
  <2>1. CASE Read(p, d)
    <3>1. PICK n \in Nat : n = fd[p][d].pos + 1
      BY <1>1, FdTypes DEF IInv
    <3> QED BY <2>1, <3>1 DEF Read
  <2>2. ASSUME NEW n \in Size, Seek(p, d, n)
        PROVE  n \in Nat /\ fd' = [fd EXCEPT ![p][d] = [fd[p][d] EXCEPT !.pos = n]]
    BY <2>2, FileSysAssumption DEF Seek
  <2> QED BY <2>1, <2>2
<1>3. call[p].fd = NULL
  BY <1>1, AtPoint DEF Shape, Place, ClosingPlaces
<1>4. /\ HandleByFd[p][d] # NULL /\ HandleByFd'[p][d] # NULL /\ HandleByFd'[p][d].pos = n
      /\ HandleByFd' = [HandleByFd EXCEPT ![p][d].pos = n]
      /\ \A e \in Fd : /\ Handle(p, e)' # NULL <=> Handle(p, e) # NULL
                       /\ Handle(p, e) # NULL => Handle(p, e)'.file = Handle(p, e).file
  BY <1>1, <1>2, <1>3, PositionSeen
<1>5. \A s \in Sector : Visible(s)' <=> Visible(s)
  BY <1>1, <1>4, OpenIs, OpenIsLater DEF Visible, Named
<1>6. \A s \in Sector : Text(s)' = Text(s)
  BY <1>1 DEF Text
<1>7. TextByFile' = TextByFile /\ FileByName' = FileByName
  BY <1>1, <1>5, <1>6, TextsKept, SameNames
<1> QED BY <1>4, <1>7 DEF Files!Move

\* A sector is in one file, and at one place in it.
LEMMA WriteSeen ==
    ASSUME OneProcess, IInv, IInv', NEW p \in Proc, Proc = {p}, NEW d \in Fd, NEW v \in Data, Write(p, d, v)
    PROVE  Files!Write(p, d, v)
<1>1. PICK h : h = fd[p][d]
  OBVIOUS
<1>2. PICK s : s = h.inode
  OBVIOUS
<1>3. PICK n \in Nat : n = h.pos
  BY <1>1, <1>2, WriteStep
<1>4. /\ h # NULL /\ s \in Live /\ disk[s] \in Inodes
      /\ n < disk[s].length /\ disk[s].start + n \in Extent(disk[s])
      /\ disk' = [disk EXCEPT ![disk[s].start + n] = v]
      /\ fd' = [fd EXCEPT ![p][d] = [fd[p][d] EXCEPT !.pos = n + 1]]
      /\ UNCHANGED <<root, call>> /\ call[p].fd = NULL
      /\ open_inodes[s] # NULL /\ open_inodes[s].deny_write_cnt = 0
  BY <1>1, <1>2, <1>3, WriteStep
<1>5. PICK m \in Nat : m = n + 1
  OBVIOUS
<1>6. /\ HandleByFd[p][d] = Handle(p, d) /\ Handle(p, d) # NULL
      /\ HandleByFd' = [HandleByFd EXCEPT ![p][d].pos = m]
      /\ \A e \in Fd : /\ Handle(p, e)' # NULL <=> Handle(p, e) # NULL
                       /\ Handle(p, e) # NULL => Handle(p, e)'.file = Handle(p, e).file
  <2>1. fd[p][d] # NULL /\ call' = call /\ call[p].fd = NULL
    BY <1>1, <1>4
  <2>2. fd' = [fd EXCEPT ![p][d] = [fd[p][d] EXCEPT !.pos = m]]
    BY <1>4, <1>5
  <2> QED BY <2>1, <2>2, PositionSeen
<1>7. Handle(p, d).file = s /\ Handle(p, d).pos = n
  BY <1>1, <1>2, <1>3, <1>6, HandleIs
<1>8. PICK a \in Nat, k \in Nat : a = disk[s].start /\ k = disk[s].length
  <2>1. disk[s].start \in Sector \union {0} /\ disk[s].length \in 0..Cardinality(Sector)
    BY <1>4 DEF Inodes
  <2>2. (\A r \in Sector \union {0} : r \in Nat) /\ Cardinality(Sector) \in Nat
    BY FileSysAssumption, FS_CardinalityType
  <2>3. disk[s].start \in Nat
    BY <2>1, <2>2
  <2>4. disk[s].length \in Nat
    BY <2>1, <2>2
  <2> QED BY <2>3, <2>4
<1>9. /\ disk \in [Sector -> Inodes \union Data \union {Zeros, NULL}] /\ free_map \subseteq Sector
      /\ FilesOK /\ s \in Sector /\ \A r \in Live : r \in Sector
  <2>1. \A r \in Live : r \in Sector
    BY Entry DEF Live, Named, Used, Opened
  <2> QED BY <1>4, <2>1, TypedIs DEF IInv, StoreTypes
<1>10. a + n \in Sector /\ \A r \in Sector : disk'[r] = IF r = a + n THEN v ELSE disk[r]
  <2>1. a + n \in Sector
    BY <1>4, <1>8, <1>9 DEF FilesOK, Blocks
  <2> QED BY <1>4, <1>8, <1>9, <2>1
\* Nobody denies writing to it.
<1>11. ~Files!Denied(s)
  <2>1. CountOK(p, s) /\ IsFiniteSet(Denying(s))
    BY <1>9, CountOne, CountTypes DEF IInv
  <2>2. Denying(s) = {}
    BY <1>4, <2>1, FS_EmptySet DEF CountOK
  <2>3. \A e \in Fd : ~(OpenAt(p, e, s) /\ fd[p][e].deny)
    BY <2>2, OpensAre
  <2>4. \A e \in Fd : Handle(p, e) # NULL /\ Handle(p, e).file = s => ~Handle(p, e).deny
    BY <2>3, HandleIs DEF OpenAt
  <2>5. \A e \in Fd : HandleByFd[p][e] = Handle(p, e)
    BY HandleIs
  <2> QED BY <2>4, <2>5 DEF Files!Denied
\* No other file changes.
<1>12. \A r \in Live \ {s} : Text(r)' = Text(r)
  <2> TAKE r \in Live \ {s}
  <2>1. a + n \in Blocks(s) /\ Blocks(r) \intersect Blocks(s) = {}
    BY <1>4, <1>8, <1>9 DEF FilesOK, Blocks
  <2>2. Blocks(r) \subseteq Sector /\ r \in Blocks(r) /\ Extent(disk[r]) \subseteq Blocks(r)
    BY <1>9 DEF FilesOK, Blocks
  <2>3. \A x \in Blocks(r) : disk'[x] = disk[x]
    BY <1>10, <2>1, <2>2
  <2> QED BY <2>2, <2>3, TextKept
<1>13. /\ Text(s) = [i \in 1..k |-> disk[a + i - 1]] /\ Text(s)' = [Text(s) EXCEPT ![n + 1] = v]
  <2>1. Text(s) = [i \in 1..k |-> disk[a + i - 1]]
    BY <1>8 DEF Text
  <2>2. disk'[s] = disk[s]
    BY <1>4, <1>8, <1>9, <1>10 DEF FilesOK
  <2>3. Text(s)' = [i \in 1..k |-> disk'[a + i - 1]]
    BY <1>8, <2>2 DEF Text
  <2>4. \A i \in 1..k : a + i - 1 \in a..(a + k - 1) /\ (a + i - 1 = a + n <=> i = n + 1)
    OBVIOUS
  <2>5. a..(a + k - 1) \subseteq Sector
    BY <1>4, <1>8, <1>9 DEF FilesOK, Blocks, Extent
  <2>6. \A i \in 1..k : disk'[a + i - 1] = IF i = n + 1 THEN v ELSE disk[a + i - 1]
    BY <1>10, <2>4, <2>5
  <2>7. [Text(s) EXCEPT ![n + 1] = v] = [i \in 1..k |-> IF i = n + 1 THEN v ELSE disk[a + i - 1]]
    BY <2>1
  <2> QED BY <2>1, <2>3, <2>6, <2>7
<1>14. Visible(s) /\ \A r \in Sector : Visible(r)' <=> Visible(r)
  <2>1. OpenFiles(s) # {}
    BY <1>6, <1>7, OpenIs
  <2> QED BY <1>4, <1>6, <2>1, OpenIs, OpenIsLater DEF Visible, Named
<1>15. TextByFile = [r \in Sector |-> IF Visible(r) THEN Text(r) ELSE NULL]
  BY DEF TextByFile, Visible
<1>16. TextByFile' = [r \in Sector |-> IF Visible(r)' THEN Text(r)' ELSE NULL]
  BY DEF TextByFile, Visible
<1>17. TextByFile[s] = Text(s) /\ n < Len(TextByFile[s])
  <2>1. Len(Text(s)) = k
    <3>1. PICK S : S = {disk[a + i - 1] : i \in 1..k}
      OBVIOUS
    <3>2. Text(s) \in [1..k -> S]
      BY <1>13, <3>1
    <3>3. Text(s) \in Seq(S)
      BY <3>2
    <3> QED BY <3>2, <3>3
  <2> QED BY <1>4, <1>8, <1>9, <1>14, <1>15, <2>1
<1>18. TextByFile' = [TextByFile EXCEPT ![s] = [TextByFile[s] EXCEPT ![n + 1] = v]]
  <2>1. \A r \in Sector : Visible(r) => r \in Live
    BY VisibleLive
  <2>2. \A r \in Sector : (IF Visible(r)' THEN Text(r)' ELSE NULL)
            = IF r = s THEN [Text(s) EXCEPT ![n + 1] = v] ELSE IF Visible(r) THEN Text(r) ELSE NULL
    BY <1>12, <1>13, <1>14, <2>1
  <2> QED BY <1>9, <1>15, <1>16, <1>17, <2>2
<1>19. FileByName' = FileByName
  BY <1>4, SameNames
<1>20. /\ HandleByFd[p][d] # NULL /\ HandleByFd[p][d].file = s /\ HandleByFd[p][d].pos = n
       /\ HandleByFd' = [HandleByFd EXCEPT ![p][d].pos = HandleByFd[p][d].pos + 1]
  BY <1>5, <1>6, <1>7
<1> QED BY <1>11, <1>17, <1>18, <1>19, <1>20 DEF Files!Write

\* A file is made when the directory has been written: until then nobody has
\* written to its sectors but the call, which filled them with zeros.
LEMMA CreateSeen ==
    ASSUME OneProcess, IInv, NEW p \in Proc, Proc = {p}, Zeroed(p), Store(p), call[p].op = "create"
    PROVE  \E n \in Name, f \in Sector, size \in 0..Cardinality(Sector) : Files!Create(n, f, size)
<1>1. PICK c : c = call[p]
  OBVIOUS
<1>2. PICK n, f, size : n = c.name /\ f = c.sector /\ size = c.size
  OBVIOUS
<1>3. /\ IInv' /\ UNCHANGED <<disk, fd>> /\ c.fd = NULL /\ call'[p].fd = NULL
      /\ n \in Name /\ Unnamed(n) /\ f \in Sector \ Live
      /\ Inode(c.start, size) \in Inodes /\ disk[f] = Inode(c.start, size)
      /\ Named' = Named \union {f} /\ Used' = Used \union {c.slot}
      /\ root'[c.slot].name = n /\ root'[c.slot].sector = f
      /\ \A j \in Used : root'[j] = root[j]
  BY <1>1, <1>2, StoreCreate
<1>4. PICK a \in Nat : a = c.start
  <2>1. Inode(c.start, size).start \in Sector \union {0} /\ \A r \in Sector \union {0} : r \in Nat
    BY <1>3, FileSysAssumption DEF Inodes
  <2> QED BY <2>1 DEF Inode
<1>5. size \in 0..Cardinality(Sector) /\ size \in Nat
  <2>1. Inode(c.start, size).length \in 0..Cardinality(Sector)
    BY <1>3 DEF Inodes
  <2>2. Cardinality(Sector) \in Nat
    BY FileSysAssumption, FS_CardinalityType
  <2> QED BY <2>1, <2>2 DEF Inode
<1>6. FileByName' = [FileByName EXCEPT ![n] = f] /\ FileByName[n] = NULL
  <2>1. FileByName[n] = NULL /\ FileByName'[n] = f
    BY <1>3, NamesAre, NamesAreLater
  <2>2. ASSUME NEW m \in Name, m # n PROVE FileByName'[m] = FileByName[m]
    <3>1. Unnamed(m) => Unnamed(m)'
      BY <1>3, <2>2 DEF Unnamed
    <3> QED BY <1>3, <3>1, NameKept
  <2>3. FileByName = [m \in Name |-> FileByName[m]] /\ FileByName' = [m \in Name |-> FileByName'[m]]
    BY DEF FileByName
  <2> QED BY <2>1, <2>2, <2>3
<1>7. \A d \in Fd : Handle(p, d)' = Handle(p, d)
  BY <1>1, <1>3, SameHandle
<1>8. ~Visible(f) /\ \A r \in Sector : Visible(r)' <=> Visible(r) \/ r = f
  <2>1. \A r : OpenFiles(r)' # {} <=> OpenFiles(r) # {}
    BY <1>3, <1>7, OpenIs, OpenIsLater
  <2> QED BY <1>3, <2>1, VisibleLive DEF Visible
<1>9. Text(f) = [i \in 1..size |-> Zeros]
  <2>1. \A x \in Extent(Inode(c.start, size)) : disk[x] = Zeros
    BY <1>1, <1>2 DEF Zeroed, Store
  <2>2. \A x \in a..(a + size - 1) : disk[x] = Zeros
    BY <1>4, <2>1 DEF Extent, Inode
  <2>3. Text(f) = [i \in 1..size |-> disk[a + i - 1]]
    BY <1>3, <1>4 DEF Text, Inode
  <2>4. \A i \in 1..size : a + i - 1 \in a..(a + size - 1)
    BY <1>5
  <2> QED BY <2>2, <2>3, <2>4
<1>10. TextByFile' = [TextByFile EXCEPT ![f] = [i \in 1..size |-> Zeros]] /\ TextByFile[f] = NULL
  <2>1. TextByFile = [r \in Sector |-> IF Visible(r) THEN Text(r) ELSE NULL]
    BY DEF TextByFile, Visible
  <2>2. TextByFile' = [r \in Sector |-> IF Visible(r)' THEN Text(r)' ELSE NULL]
    BY DEF TextByFile, Visible
  <2>3. \A r : Text(r)' = Text(r)
    BY <1>3 DEF Text
  <2>4. \A r \in Sector : (IF Visible(r)' THEN Text(r)' ELSE NULL)
            = IF r = f THEN [i \in 1..size |-> Zeros] ELSE IF Visible(r) THEN Text(r) ELSE NULL
    BY <1>8, <1>9, <2>3
  <2> QED BY <1>3, <1>8, <2>1, <2>2, <2>4
<1>11. HandleByFd' = HandleByFd
  BY <1>7, SameHandles
<1>12. Files!Create(n, f, size)
  BY <1>6, <1>10, <1>11 DEF Files!Create
<1> QED BY <1>3, <1>5, <1>12

\* And it loses its name when the directory has been written again.
LEMMA RemoveSeen ==
    ASSUME OneProcess, IInv, NEW p \in Proc, Proc = {p}, Store(p), call[p].op # "create"
    PROVE  \E n \in Name : Files!Remove(n)
<1>1. PICK c : c = call[p]
  OBVIOUS
<1>2. /\ IInv' /\ UNCHANGED <<disk, fd>> /\ c.fd = NULL /\ call'[p].fd = NULL
      /\ c.slot \in Used /\ Used' = Used \ {c.slot} /\ Named' \subseteq Named
      /\ \A j \in Used' : root'[j] = root[j]
  BY <1>1, StoreRemove
<1>3. PICK n \in Name : n = root[c.slot].name
  BY <1>2, Entry
<1>4. \A j \in Used' : root'[j].name # n
  BY <1>2, <1>3 DEF NamesOK, IInv
<1>5. FileByName' = [FileByName EXCEPT ![n] = NULL] /\ FileByName[n] # NULL
  <2>1. FileByName'[n] = NULL
    BY <1>2, <1>4, NamesAreLater DEF Unnamed
  <2>2. FileByName[n] \in Sector
    BY <1>2, <1>3, NamesAre, Entry
  <2>3. ASSUME NEW m \in Name, m # n PROVE FileByName'[m] = FileByName[m]
    <3>1. Unnamed(m) => Unnamed(m)'
      BY <1>2 DEF Unnamed
    <3>2. \A i \in Used : root[i].name = m => i \in Used' /\ root'[i] = root[i]
      BY <1>2, <1>3, <2>3
    <3> QED BY <1>2, <3>1, <3>2, NameKept
  <2>4. FileByName = [m \in Name |-> FileByName[m]] /\ FileByName' = [m \in Name |-> FileByName'[m]]
    BY DEF FileByName
  <2> QED BY <2>1, <2>2, <2>3, <2>4, FileSysAssumption
<1>6. \A d \in Fd : Handle(p, d)' = Handle(p, d)
  BY <1>1, <1>2, SameHandle
<1>7. \A r \in Sector : Visible(r)' => Visible(r) /\ Text(r)' = Text(r)
  <2>1. \A r : OpenFiles(r)' # {} <=> OpenFiles(r) # {}
    BY <1>2, <1>6, OpenIs, OpenIsLater
  <2>2. \A r : Text(r)' = Text(r)
    BY <1>2 DEF Text
  <2> QED BY <1>2, <2>1, <2>2 DEF Visible
<1>8. HandleByFd' = HandleByFd /\ TextByFile' = Files!Kept
  BY <1>2, <1>6, <1>7, SameHandles, KeptIs
<1> QED BY <1>5, <1>8 DEF Files!Remove

\* A file is open when a descriptor is filled.
LEMMA OpenSeen ==
    ASSUME OneProcess, IInv, IInv', NEW p \in Proc, Proc = {p}, Install(p)
    PROVE  Unseen \/ \E n \in Name, d \in Fd, deny \in BOOLEAN : Files!Open(p, n, d, deny)
<1> DEFINE c == call[p]
<1>1. /\ c \in CallRecords /\ c.fd = NULL /\ c.sector \in Named /\ UNCHANGED <<root, disk>>
      /\ call \in [Proc -> CallRecords]
  BY AtPoint DEF Install, Shape, Place, ClosingPlaces, Knows, onDisk
<1>2. call'[p].fd = NULL
  BY <1>1, NoCallRecord DEF Install, Returns, With, CallRecords
<1>3. CASE c.op = "open" /\ FreeFds(p) # {}
  <2>1. PICK d \in Fd : d = Min(FreeFds(p)) /\ fd[p][d] = NULL
    BY <1>3, FreeFd
  <2>2. PICK s \in Sector : s = c.sector /\ s \in Named
    BY <1>1, Entry DEF Named, Used
  <2>3. PICK deny \in BOOLEAN : deny = (c.name = Program)
    OBVIOUS
  <2>4. PICK h : h = [inode |-> s, pos |-> 0, deny |-> deny]
    OBVIOUS
  <2>5. h \in OpenedFiles /\ h # NULL
    <3>1. h \in OpenedFiles
      BY <2>4 DEF OpenedFiles
    <3> QED BY <3>1, FileSysAssumption
  <2>6. fd' = [fd EXCEPT ![p][d] = h]
    BY <1>3, <2>1, <2>2, <2>3, <2>4 DEF Install
  <2>7. fd'[p][d] = h /\ \A e \in Fd \ {d} : fd'[p][e] = fd[p][e]
    BY <2>5, <2>6, ChangeFd DEF IInv
  <2>8. PICK v : v = [file |-> s, pos |-> 0, deny |-> deny]
    OBVIOUS
  <2>9. \A e \in Fd : ~Closing(p, e) /\ ~Closing(p, e)'
    BY <1>1, <1>2, FileSysAssumption DEF Closing
  <2>10. /\ Handle(p, d) = NULL /\ HandleByFd[p][d] = Handle(p, d) /\ Handle(p, d)' = v
         /\ \A e \in Fd \ {d} : Handle(p, e)' = Handle(p, e)
    <3>1. Handle(p, d) = NULL /\ HandleByFd[p][d] = Handle(p, d)
      BY <2>1, HandleIs DEF Handle
    <3>2. Handle(p, d)' = [file |-> h.inode, pos |-> h.pos, deny |-> h.deny]
      BY <2>5, <2>7, <2>9 DEF Handle
    <3>3. h.inode = s /\ h.pos = 0 /\ h.deny = deny
      BY <2>4
    <3>4. \A e \in Fd \ {d} : Handle(p, e)' = Handle(p, e)
      BY <2>7, <2>9 DEF Handle
    <3> QED BY <2>8, <3>1, <3>2, <3>3, <3>4
  <2>11. HandleByFd' = [HandleByFd EXCEPT ![p][d] = v]
    BY <2>10, HandleChanged
  <2>12. \A r \in Sector : Visible(r)' <=> Visible(r)
    <3>1. \A r \in Sector \ {s} : OpenFiles(r)' # {} <=> OpenFiles(r) # {}
      BY <2>8, <2>10, OpenIs, OpenIsLater
    <3> QED BY <1>1, <2>2, <3>1 DEF Visible, Named
  <2>13. TextByFile' = TextByFile /\ FileByName' = FileByName
    <3>1. \A r : Text(r)' = Text(r)
      BY <1>1 DEF Text
    <3> QED BY <1>1, <2>12, <3>1, TextsKept, SameNames
  <2>14. PICK n \in Name : FileByName[n] = s
    <3>1. PICK i \in Used : root[i].sector = s
      BY <2>2 DEF Named, Used
    <3> QED BY <3>1, NamesAre, Entry
  <2>15. Files!Open(p, n, d, deny)
    BY <2>2, <2>8, <2>10, <2>11, <2>13, <2>14, FileSysAssumption DEF Files!Open
  <2> QED BY <2>15
<1>4. CASE ~(c.op = "open" /\ FreeFds(p) # {})
  <2>1. fd' = fd
    BY <1>4 DEF Install
  <2> QED BY <1>1, <1>2, <2>1, UnseenStep, SameHandle
<1> QED BY <1>3, <1>4

\* Every step of the calls is a call on FileStore taking effect, or is not seen.
AllZeroed == \A p \in Proc : Zeroed(p)

LEMMA AllZeroedStep == OneProcess /\ IInv /\ AllZeroed /\ [Next]_vars => AllZeroed'
<1> SUFFICES ASSUME OneProcess, IInv, AllZeroed, [Next]_vars PROVE AllZeroed'
  OBVIOUS
<1>1. PICK p \in Proc : Proc = {p}
  BY DEF OneProcess
<1>2. CASE Next
  <2>1. Zeroed(p)
    BY DEF AllZeroed
  <2>2. Zeroed(p)'
    BY <1>1, <1>2, <2>1, ZeroedStep
  <2> QED BY <1>1, <2>2 DEF AllZeroed
<1>3. CASE UNCHANGED vars
  BY <1>3 DEF AllZeroed, Zeroed, vars, onDisk
<1> QED BY <1>2, <1>3

StoreNext == Files!Next \/ Unseen

LEMMA StepsSeen ==
    ASSUME OneProcess, IInv, IInv', NEW p \in Proc, Proc = {p}, Zeroed(p), Steps(p)
    PROVE  StoreNext
<1>1. CASE AllocateInode(p) \/ AllocateData(p) \/ Undo(p) \/ Lookup(p) \/ FindSlot(p) \/ Fetch(p)
           \/ WriteMap(p) \/ OpenInode(p) \/ LoadInode(p) \/ RemoveInode(p)
           \/ ReleaseInode(p) \/ ReleaseData(p)
  BY <1>1, UnseenSteps DEF StoreNext
<1>2. CASE WriteInode(p) \/ WriteZeros(p)
  BY <1>2, UnseenWrites DEF StoreNext
<1>3. CASE Closed(p) \/ (ExitCloses(p) /\ FreeFds(p) = Fd)
  BY <1>3, UnseenEnds DEF StoreNext
<1>4. CASE Store(p)
  <2>1. CASE call[p].op = "create"
    BY <1>4, <2>1, CreateSeen DEF StoreNext, Files!Next
  <2>2. CASE call[p].op # "create"
    BY <1>4, <2>2, RemoveSeen DEF StoreNext, Files!Next
  <2> QED BY <2>1, <2>2
<1>5. CASE Install(p)
  BY <1>5, OpenSeen DEF StoreNext, Files!Next
<1>6. CASE ExitCloses(p) /\ FreeFds(p) # Fd
  <2>1. Fd \ FreeFds(p) # {} /\ Fd \ FreeFds(p) \in SUBSET Nat
    BY <1>6, FileSysAssumption DEF FreeFds
  <2>2. PICK d \in Fd : d = Min(Fd \ FreeFds(p)) /\ fd[p][d] # NULL
    BY <2>1, MinOf DEF FreeFds
  <2>3. Files!Close(p, d)
    BY <1>6, <2>2, CloseSeen DEF ExitCloses
  <2> QED BY <2>3 DEF StoreNext, Files!Next
<1> QED BY <1>1, <1>2, <1>3, <1>4, <1>5, <1>6 DEF Steps

LEMMA CallsSeen ==
    ASSUME OneProcess, IInv, IInv', NEW p \in Proc, Proc = {p}, Calls(p)
    PROVE  StoreNext
<1>1. CASE \/ \E n \in Name : Remove(p, n) \/ Open(p, n) \/ Execute(p, n)
           \/ \E n \in Name, size \in Size : Create(p, n, size)
           \/ Exit(p)
  BY <1>1, UnseenSteps DEF StoreNext
<1>2. ASSUME NEW d \in Fd, Read(p, d) \/ \E n \in Size : Seek(p, d, n)
      PROVE  StoreNext
  <2>1. Files!Move(p, d)
    BY <1>2, MoveSeen
  <2> QED BY <2>1 DEF StoreNext, Files!Next
<1>3. ASSUME NEW d \in Fd, NEW v \in Data, Write(p, d, v)
      PROVE  StoreNext
  <2>1. Files!Write(p, d, v)
    BY <1>3, WriteSeen
  <2> QED BY <2>1 DEF StoreNext, Files!Next
<1>4. ASSUME NEW d \in Fd, Close(p, d)
      PROVE  StoreNext
  <2>1. Files!Close(p, d)
    BY <1>4, CloseSeen DEF Close
  <2> QED BY <2>1 DEF StoreNext, Files!Next
<1> QED BY <1>1, <1>2, <1>3, <1>4 DEF Calls

LEMMA StepSeen ==
    OneProcess /\ IInv /\ AllZeroed /\ [Next]_vars
        => [Files!Next]_<<FileByName, TextByFile, HandleByFd>>
<1> SUFFICES ASSUME OneProcess, IInv, AllZeroed, [Next]_vars PROVE StoreNext
  BY DEF StoreNext, Unseen
<1>1. PICK p \in Proc : Proc = {p}
  BY DEF OneProcess
<1>2. IInv' /\ Zeroed(p)
  BY NextIInv DEF AllZeroed
<1>3. CASE Crash
  BY <1>1, <1>2, <1>3, CrashSeen DEF StoreNext, Files!Next
<1>4. CASE Calls(p)
  BY <1>1, <1>2, <1>4, CallsSeen
<1>5. CASE Steps(p)
  BY <1>1, <1>2, <1>5, StepsSeen
<1>6. CASE UNCHANGED vars
  BY <1>1, <1>2, <1>6, UnseenEnds DEF StoreNext
<1> QED BY <1>1, <1>3, <1>4, <1>5, <1>6 DEF Next

LEMMA InitSeen == Init => Files!Init /\ AllZeroed
<1> SUFFICES ASSUME Init PROVE Files!Init /\ AllZeroed
  OBVIOUS
<1>1. \A n \in Name : FileByName[n] = NULL
  BY DEF Init, FileByName
<1>2. \A s \in Sector : TextByFile[s] = NULL
  <2>1. Named = {} /\ \A s : OpenFiles(s) = {}
    BY DEF Init, Named, OpenFiles
  <2> QED BY <2>1 DEF TextByFile
<1>3. \A p \in Proc : HandleByFd[p] = [d \in Fd |-> NULL]
  <2> TAKE p \in Proc
  <2>1. \A d \in Fd : Handle(p, d) = NULL
    BY DEF Init, Handle
  <2> QED BY <2>1 DEF HandleByFd
<1>4. Files!Init
  BY <1>1, <1>2, <1>3 DEF Files!Init, FileByName, TextByFile, HandleByFd
<1>5. AllZeroed
  BY DEF Init, AllZeroed, Zeroed, NoCall
<1> QED BY <1>4, <1>5

----------------------------------------------------------------------------
(* The theorems.                                                           *)

\* The invariant holds in every state a process brings about with file calls,
\* and every state in which the machine starts again.
THEOREM Inductive ==
    ASSUME OneProcess
    PROVE  Spec => []IInv
<1>1. Init => IInv
  BY InitIInv
<1>2. IInv /\ [Next]_vars => IInv'
  BY NextIInv
<1> QED BY <1>1, <1>2, PTL DEF Spec

\* The variables keep their types: in particular, no free sector is handed out
\* that the device does not have, no count goes below zero and no slot beyond
\* the directory's is written (free-map.c:22-37, inode.c:149-181, 323-338).
THEOREM TypeCorrect ==
    ASSUME OneProcess
    PROVE  Spec => []TypeOK
<1>1. IInv => TypeOK
  BY DEF IInv, Typed
<1> QED BY <1>1, Inductive, PTL

\* Whenever the machine stops, between any two writes of any call, each entry of
\* the directory on disk leads to an inode whose sectors the free map on disk
\* gives to that file alone: filesys_create and filesys_remove order their writes
\* so (filesys.c:45-59, directory.c:184-216, free-map.c:22-50).
THEOREM DiskAgrees ==
    ASSUME OneProcess
    PROVE  Spec => []DiskConsistent
<1>1. ASSUME IInv PROVE DiskConsistent
  <2>1. FilesOK /\ NamesOK
    BY <1>1 DEF IInv
  <2>2. \A s \in Named : s \in Live
    BY DEF Live
  <2>3. \A s \in Named : disk[s] \in Inodes /\ Blocks(s) \subseteq disk_map
    BY <2>1, <2>2 DEF FilesOK, NamesOK
  <2>4. ASSUME NEW i \in Slot, NEW j \in Slot, root[i] # NULL, root[j] # NULL, i # j
        PROVE  /\ root[i].name # root[j].name
               /\ Blocks(root[i].sector) \intersect Blocks(root[j].sector) = {}
    <3>1. i \in Used /\ j \in Used
      BY <2>4 DEF Used
    <3>2. root[i].name # root[j].name /\ root[i].sector # root[j].sector
      BY <2>1, <2>4, <3>1 DEF NamesOK
    <3>3. root[i].sector \in Live /\ root[j].sector \in Live
      BY <1>1, <2>2, <3>1, Entry
    <3> QED BY <2>1, <3>2, <3>3 DEF FilesOK
  <2> QED BY <2>3, <2>4 DEF DiskConsistent
<1>2. IInv => DiskConsistent
  BY <1>1
<1> QED BY <1>2, Inductive, PTL

\* open_cnt is the number of those who have the inode open, deny_write_cnt of
\* those among them that deny writes; an inode with no opener is not listed
\* (inode.c:111-186, 323-338, file.c:22-53).
THEOREM OpensAreCounted ==
    ASSUME OneProcess
    PROVE  Spec => []OpensCounted
<1>1. IInv => OpensCounted
  BY DEF IInv
<1> QED BY <1>1, Inductive, PTL

\* Every allocated sector is a file's or a call's, except those that a failed
\* creation or a crash has left behind; and a call releases only what is
\* allocated (filesys.c:55-57, inode.c:175-181, free-map.c:45-50).
THEOREM NothingIsLost ==
    ASSUME OneProcess
    PROVE  Spec => []NothingElseLost
<1>1. ASSUME OneProcess, IInv PROVE NothingElseLost
  <2>1. PICK p \in Proc : Proc = {p}
    BY <1>1 DEF OneProcess
  <2>2. PICK c \in CallRecords : c = call[p]
    BY <1>1, AtPoint
  <2>3. PICK l \in Labels : l = pc[p]
    BY <1>1, AtPoint
  <2>4. Shape(l, c) /\ HeldOK(p) /\ Covered(p)
    BY <1>1, <2>2, <2>3, AtPoint
  <2>5. Rest(c) \subseteq Extent(Inode(c.start, c.size))
    BY DEF Rest
  <2>6. Held(l, c) \subseteq InUse(p)
    BY <2>2, <2>3, <2>4, <2>5 DEF Held, HoldsInode, Making, MakingPlaces, ClosingPlaces, Place, Shape, InUse
  <2> DEFINE named == UNION {Blocks(s) : s \in Named}
             open == UNION {Blocks(s) : s \in {q \in Sector : open_inodes[q] # NULL}}
             held == UNION {InUse(q) : q \in Proc}
  <2>7. free_map \subseteq lost \union named \union open \union held
    <3>1. \A x \in InUse(p) : x \in held
      OBVIOUS
    <3>2. \A s \in Named : \A x \in Blocks(s) : x \in named
      OBVIOUS
    <3>3. \A s \in Opened : \A x \in Blocks(s) : x \in open
      BY DEF Opened
    <3> HIDE DEF named, open, held
    <3> SUFFICES ASSUME NEW x \in free_map, x \notin lost PROVE x \in named \union open \union held
      OBVIOUS
    <3>4. x \in InUse(p) \/ \E s \in Named \union Opened : x \in Blocks(s)
      BY <2>2, <2>3, <2>4, <2>6 DEF Covered, Live
    <3> QED BY <3>1, <3>2, <3>3, <3>4
  <2>8. l \in {"undo", "release_inode"} => c.sector \in free_map
    BY <2>2, <2>3, <2>4 DEF Held, HoldsInode, HeldOK, Making, MakingPlaces, Place, Shape
  <2>9. l \in {"release_inode", "release_data"} => Extent(Inode(c.start, c.size)) \subseteq free_map
    <3>1. l \in {"release_inode", "release_data"} => Rest(c) = Extent(Inode(c.start, c.size))
      BY <2>4, RestIs DEF Shape, Place
    <3>2. l \in {"release_inode", "release_data"} => Rest(c) \subseteq Held(l, c)
      BY <2>4 DEF Held, HoldsInode, Making, MakingPlaces, Place
    <3> QED BY <2>2, <2>3, <2>4, <3>1, <3>2 DEF HeldOK
  <2>10. \A q \in Proc :
            /\ pc[q] \in {"undo", "release_inode"} => call[q].sector \in free_map
            /\ pc[q] \in {"release_inode", "release_data"} =>
                   Extent(Inode(call[q].start, call[q].size)) \subseteq free_map
    BY <2>1, <2>2, <2>3, <2>8, <2>9
  <2> QED BY <2>7, <2>10 DEF NothingElseLost
<1>2. IInv => NothingElseLost
  BY <1>1
<1> QED BY <1>2, Inductive, PTL

\* The calls keep what FileStore promises, at any sizes and wherever the machine
\* stops: a file that is removed lives until it is closed, no two files share a
\* sector, and no failure half way and no crash changes a file that is not the
\* call's (inode.c:72-186, 254-310, filesys.c:41-82, directory.c:136-216).
THEOREM Refinement ==
    ASSUME OneProcess
    PROVE  Spec => ImplementsFileStore
<1>1. Init => Files!Init /\ AllZeroed
  BY InitSeen
<1>2. IInv /\ AllZeroed /\ [Next]_vars => AllZeroed'
  BY AllZeroedStep
<1>3. IInv /\ AllZeroed /\ [Next]_vars => [Files!Next]_<<FileByName, TextByFile, HandleByFd>>
  BY StepSeen
<1> QED BY <1>1, <1>2, <1>3, Inductive, PTL DEF Spec, ImplementsFileStore, Files!Spec
============================================================================
