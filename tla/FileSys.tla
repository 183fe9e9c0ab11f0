------------------------------ MODULE FileSys -------------------------------
(***************************************************************************)
(* The file system of project 4 (os_prj4_20191599/src): the file calls of  *)
(* userprog/syscall.c over filesys/filesys.c, directory.c, inode.c, file.c *)
(* and free-map.c.                                                         *)
(*                                                                         *)
(* The unit is the sector: files are a number of consecutive sectors, and  *)
(* reads and writes are of one whole sector.  A call is a series of disk   *)
(* operations, each a step, with the memory it touches in between; at any  *)
(* of them another process may run (only open, read and write take         *)
(* fileLock) or the machine stop.  The disk keeps the root directory, all  *)
(* of whose slots are in one sector, the free map, and the sectors of      *)
(* files.  A scan of the directory is one step, though the code reads its  *)
(* sector once per slot.  Memory allocation does not fail here.            *)
(*                                                                         *)
(* An inode is on the list of open inodes before its data has been read    *)
(* (inode.c:135-140); what a second process does that finds it there, and  *)
(* uses the data, is undefined.  So a run of this module with more than    *)
(* one process lets them create files only.                                *)
(***************************************************************************)
EXTENDS Integers, FiniteSets, FiniteSetsExt

CONSTANTS
    Proc,      \* processes
    Name,      \* file names
    Program,   \* the name of the program the processes run
    Slot,      \* slots of the root directory, numbered
    Sector,    \* sectors of the device that are there for files, numbered
    Fd,        \* file descriptors, numbered
    Size,      \* sizes of files, in sectors
    Data,      \* what a program writes to a sector
    MaxLeaks,  \* bound: files left open for good, between two starts
    Zeros, NULL

\* What the disk and memory hold: struct inode_disk, dir_entry, inode and file.
Inodes == [start : Sector \union {0}, length : 0..Cardinality(Sector)]
Entries == [name : Name, sector : Sector]
OpenedInodes == [open_cnt : Nat \ {0}, removed : BOOLEAN, deny_write_cnt : Nat,
                 data : Inodes \union {NULL}]
OpenedFiles == [inode : Sector, pos : Nat, deny : BOOLEAN]

ASSUME FileSysAssumption ==
    /\ Slot \subseteq Nat /\ Fd \subseteq Nat /\ Size \subseteq Nat
    /\ Sector \subseteq Nat \ {0, 1}    \* FREE_MAP_SECTOR, ROOT_DIR_SECTOR
    /\ MaxLeaks \in Nat
    /\ IsFiniteSet(Sector) /\ IsFiniteSet(Fd)
    /\ NULL \notin Nat /\ NULL \notin Name \union Data /\ Zeros \notin Data
    /\ NULL \notin Entries /\ NULL \notin OpenedInodes /\ NULL \notin OpenedFiles
    /\ NULL \notin [file : Sector, pos : Nat, deny : BOOLEAN]

VARIABLES
    root,         \* disk: a slot's entry, or NULL when it is not in use
    disk_map,     \* disk: the sectors allocated, in the free map's file
    disk,         \* disk: the sectors of files
    free_map,     \* the sectors allocated, in memory
    open_inodes,  \* struct inode, by sector
    fd,           \* struct file, by process and descriptor
    fileLock,     \* who holds it
    pc, call,     \* how far a process is in which call
    leaked,       \* opens of an inode that nobody can close
    lost          \* allocated sectors that nothing refers to any more

onDisk == <<root, disk_map, disk>>
memory == <<free_map, open_inodes, fd, fileLock>>
ghosts == <<leaked, lost>>
vars == <<onDisk, memory, pc, call, ghosts>>

NoCall == [op |-> "none", name |-> NULL, size |-> 0, fd |-> NULL, sector |-> 0,
           start |-> 0, slot |-> NULL, bounce |-> NULL, next |-> "idle"]

Goto(p, l) == pc' = [pc EXCEPT ![p] = l]
With(p, c) == call' = [call EXCEPT ![p] = c]

\* The call returns; open releases fileLock.
Unlocked(p) == IF fileLock = p THEN NULL ELSE fileLock
Returns(p) ==
    /\ Goto(p, IF call[p].op = "exit" THEN "exit" ELSE "idle")
    /\ With(p, IF call[p].op = "exit" THEN [NoCall EXCEPT !.op = "exit"] ELSE NoCall)
    /\ fileLock' = Unlocked(p)

Inode(start, length) == [start |-> start, length |-> length]
Extent(inode) == inode.start .. (inode.start + inode.length - 1)

\* bitmap_scan: the first cnt consecutive sectors that are free, or NULL.  No
\* sectors at all are found at once, at 0.
Scan(cnt) ==
    LET runs == {s \in Sector : s..(s + cnt - 1) \subseteq Sector \ free_map}
    IN  IF cnt = 0 THEN 0 ELSE IF runs = {} THEN NULL ELSE Min(runs)

----------------------------------------------------------------------------
(* free-map.c: what is allocated or released in memory is written next.    *)

\* The free map is written to its file, and the call goes on.
WriteMap(p) ==
    /\ pc[p] = "write_map"
    /\ disk_map' = free_map
    /\ IF call[p].next = "idle" THEN Returns(p)
       ELSE Goto(p, call[p].next) /\ UNCHANGED <<call, fileLock>>
    /\ UNCHANGED <<root, disk, free_map, open_inodes, fd, ghosts>>

ThenWrites(p, c, next) ==
    /\ Goto(p, "write_map")
    /\ With(p, [c EXCEPT !.next = next])

----------------------------------------------------------------------------
(* filesys_create, inode_create and dir_add.                               *)

Create(p, n, size) ==
    /\ pc[p] = "idle"
    /\ With(p, [NoCall EXCEPT !.op = "create", !.name = n, !.size = size])
    /\ Goto(p, "alloc_inode")
    /\ UNCHANGED <<onDisk, memory, ghosts>>

AllocateInode(p) ==
    /\ pc[p] = "alloc_inode"
    /\ LET s == Scan(1) IN
       IF s = NULL THEN Returns(p) /\ UNCHANGED free_map
       ELSE /\ free_map' = free_map \union {s}
            /\ ThenWrites(p, [call[p] EXCEPT !.sector = s], "alloc_data")
            /\ UNCHANGED fileLock
    /\ UNCHANGED <<onDisk, open_inodes, fd, ghosts>>

AllocateData_NotWritten(p) ==
    /\ pc[p] = "alloc_data"
    /\ LET s == Scan(call[p].size) IN
       IF s = NULL THEN Goto(p, "undo") /\ UNCHANGED <<free_map, call>>
       ELSE /\ free_map' = free_map \union Extent(Inode(s, call[p].size))
            /\ Goto(p, "write_inode")
            /\ With(p, [call[p] EXCEPT !.start = s])
    /\ UNCHANGED <<onDisk, open_inodes, fd, fileLock, ghosts>>
AllocateData(p) ==
    /\ pc[p] = "alloc_data"
    /\ LET s == Scan(call[p].size) IN
       IF s = NULL THEN Goto(p, "undo") /\ UNCHANGED <<free_map, call>>
       ELSE /\ free_map' = free_map \union Extent(Inode(s, call[p].size))
            /\ ThenWrites(p, [call[p] EXCEPT !.start = s], "write_inode")
    /\ UNCHANGED <<onDisk, open_inodes, fd, fileLock, ghosts>>

WriteInode(p) ==
    /\ pc[p] = "write_inode"
    /\ disk' = [disk EXCEPT ![call[p].sector] = Inode(call[p].start, call[p].size)]
    /\ Goto(p, IF call[p].size > 0 THEN "zero" ELSE "lookup")
    /\ UNCHANGED <<root, disk_map, memory, call, ghosts>>

WriteZeros(p) ==
    /\ pc[p] = "zero"
    /\ disk' = [s \in Sector |-> IF s \in Extent(Inode(call[p].start, call[p].size))
                                 THEN Zeros ELSE disk[s]]
    /\ Goto(p, "lookup")
    /\ UNCHANGED <<root, disk_map, memory, call, ghosts>>

\* dir_add takes the first slot that is free; the directory cannot grow.
FindSlot(p) ==
    LET open == {i \in Slot : root[i] = NULL} IN
    /\ pc[p] = "find_slot"
    /\ IF open = {} THEN Goto(p, "undo") /\ UNCHANGED call
       ELSE Goto(p, "fetch") /\ With(p, [call[p] EXCEPT !.slot = Min(open)])
    /\ UNCHANGED <<onDisk, memory, ghosts>>

\* filesys_create gives the inode's sector back; those of its data are lost.
Undo(p) ==
    /\ pc[p] = "undo"
    /\ free_map' = free_map \ {call[p].sector}
    /\ lost' = IF call[p].start = 0 THEN lost
               ELSE lost \union Extent(Inode(call[p].start, call[p].size))
    /\ ThenWrites(p, call[p], "idle")
    /\ UNCHANGED <<onDisk, open_inodes, fd, fileLock, leaked>>

----------------------------------------------------------------------------
(* directory.c: looking up a name, and writing a slot.                     *)

Lookup(p) ==
    LET found == {i \in Slot : root[i] # NULL /\ root[i].name = call[p].name} IN
    /\ pc[p] = "lookup"
    /\ IF call[p].op = "create"
       THEN Goto(p, IF found = {} THEN "find_slot" ELSE "undo") /\ UNCHANGED <<call, fileLock>>
       ELSE IF found = {} THEN Returns(p)
       ELSE /\ Goto(p, "open_inode")
            /\ With(p, [call[p] EXCEPT !.slot = Min(found), !.sector = root[Min(found)].sector])
            /\ UNCHANGED fileLock
    /\ UNCHANGED <<onDisk, free_map, open_inodes, fd, ghosts>>

\* inode_write_at reads the directory's sector before it changes a slot.
Fetch(p) ==
    /\ pc[p] = "fetch"
    /\ With(p, [call[p] EXCEPT !.bounce = root])
    /\ Goto(p, "store")
    /\ UNCHANGED <<onDisk, memory, ghosts>>

Store(p) ==
    /\ pc[p] = "store"
    /\ root' = [call[p].bounce EXCEPT ![call[p].slot] =
                   IF call[p].op = "create"
                   THEN [name |-> call[p].name, sector |-> call[p].sector] ELSE NULL]
    /\ IF call[p].op = "create" THEN Returns(p)
       ELSE Goto(p, "remove_inode") /\ With(p, [call[p] EXCEPT !.bounce = NULL])
            /\ UNCHANGED fileLock
    /\ UNCHANGED <<disk_map, disk, free_map, open_inodes, fd, ghosts>>

----------------------------------------------------------------------------
(* inode_open and inode_close.                                             *)

\* The inode goes on the list of open inodes before it is read.
OpenInode(p) ==
    LET s == call[p].sector
        inode == open_inodes[s]
        known == inode # NULL
        opened == IF call[p].op = "remove" THEN "fetch" ELSE "install"
    IN  /\ pc[p] = "open_inode"
        /\ open_inodes' = [open_inodes EXCEPT ![s] =
               IF known THEN [inode EXCEPT !.open_cnt = inode.open_cnt + 1]
               ELSE [open_cnt |-> 1, removed |-> FALSE, deny_write_cnt |-> 0, data |-> NULL]]
        /\ Goto(p, IF known THEN opened ELSE "load")
        /\ UNCHANGED <<onDisk, free_map, fd, fileLock, call, ghosts>>

LoadInode(p) ==
    /\ pc[p] = "load"
    /\ open_inodes' = [open_inodes EXCEPT ![call[p].sector].data = disk[call[p].sector]]
    /\ Goto(p, IF call[p].op = "remove" THEN "fetch" ELSE "install")
    /\ UNCHANGED <<onDisk, free_map, fd, fileLock, call, ghosts>>

\* The list of open inodes when one has been closed, by an opener who denied
\* writes or did not.
InodeClosed_StillDenied(s, denied) ==
    LET inode == open_inodes[s] IN
    [open_inodes EXCEPT ![s] =
        IF inode.open_cnt = 1 THEN NULL ELSE [inode EXCEPT !.open_cnt = inode.open_cnt - 1]]
InodeClosed_Listed(s, denied) ==
    [open_inodes EXCEPT ![s].open_cnt = @ - 1]
InodeClosed(s, denied) ==
    LET inode == open_inodes[s] IN
    [open_inodes EXCEPT ![s] =
        IF inode.open_cnt = 1 THEN NULL
        ELSE [inode EXCEPT !.open_cnt = inode.open_cnt - 1,
                           !.deny_write_cnt = IF denied THEN inode.deny_write_cnt - 1
                                              ELSE inode.deny_write_cnt]]

\* The last opener of a removed inode releases its sectors.
MustRelease_Always(s) == open_inodes[s].removed
MustRelease(s) == open_inodes[s].removed /\ open_inodes[s].open_cnt = 1

Releasing(s) == [start |-> open_inodes[s].data.start, size |-> open_inodes[s].data.length]

ReleaseInode(p) ==
    /\ pc[p] = "release_inode"
    /\ free_map' = free_map \ {call[p].sector}
    /\ ThenWrites(p, call[p], "release_data")
    /\ UNCHANGED <<onDisk, open_inodes, fd, fileLock, ghosts>>

ReleaseData_None(p) ==
    /\ pc[p] = "release_data"
    /\ ThenWrites(p, call[p], "closed")
    /\ UNCHANGED <<onDisk, memory, ghosts>>
ReleaseData(p) ==
    /\ pc[p] = "release_data"
    /\ free_map' = free_map \ Extent(Inode(call[p].start, call[p].size))
    /\ ThenWrites(p, call[p], "closed")
    /\ UNCHANGED <<onDisk, open_inodes, fd, fileLock, ghosts>>

----------------------------------------------------------------------------
(* filesys_remove.                                                         *)

Remove(p, n) ==
    /\ pc[p] = "idle"
    /\ With(p, [NoCall EXCEPT !.op = "remove", !.name = n])
    /\ Goto(p, "lookup")
    /\ UNCHANGED <<onDisk, memory, ghosts>>

\* The inode is marked removed, and closed.
RemoveInode(p) ==
    LET s == call[p].sector IN
    /\ pc[p] = "remove_inode"
    /\ IF open_inodes[s].open_cnt = 1
       THEN /\ open_inodes' = [open_inodes EXCEPT ![s] = NULL]
            /\ Goto(p, "release_inode")
            /\ With(p, [call[p] EXCEPT !.start = Releasing(s).start, !.size = Releasing(s).size])
            /\ UNCHANGED fileLock
       ELSE /\ open_inodes' = [InodeClosed(s, FALSE) EXCEPT ![s].removed = TRUE]
            /\ Returns(p)
    /\ UNCHANGED <<onDisk, free_map, fd, ghosts>>

----------------------------------------------------------------------------
(* Open files.                                                             *)

Leaks == MapThenSumSet(LAMBDA s : leaked[s], Sector)
FreeFds(p) == {d \in Fd : fd[p][d] = NULL}

\* mySysOpen: lookup, inode_open, and a descriptor under fileLock.
Open(p, n) ==
    /\ pc[p] = "idle" /\ fileLock = NULL
    /\ FreeFds(p) # {} \/ Leaks < MaxLeaks
    /\ fileLock' = p
    /\ With(p, [NoCall EXCEPT !.op = "open", !.name = n])
    /\ Goto(p, "lookup")
    /\ UNCHANGED <<onDisk, free_map, open_inodes, fd, ghosts>>

\* process_execute opens the program to see whether it exists, without the
\* lock, and never closes it.
Execute(p, n) ==
    /\ pc[p] = "idle" /\ Leaks < MaxLeaks
    /\ With(p, [NoCall EXCEPT !.op = "exec", !.name = n])
    /\ Goto(p, "lookup")
    /\ UNCHANGED <<onDisk, memory, ghosts>>

\* The first free descriptor; without one nobody closes the file that has
\* just been opened.  A process may not write to its own program.
Install(p) ==
    LET s == call[p].sector
        d == Min(FreeFds(p))
        deny == call[p].name = Program
    IN  /\ pc[p] = "install"
        /\ IF call[p].op = "open" /\ FreeFds(p) # {}
           THEN /\ fd' = [fd EXCEPT ![p][d] = [inode |-> s, pos |-> 0, deny |-> deny]]
                /\ open_inodes' = [open_inodes EXCEPT ![s].deny_write_cnt = IF deny THEN @ + 1 ELSE @]
                /\ UNCHANGED leaked
           ELSE leaked' = [leaked EXCEPT ![s] = @ + 1] /\ UNCHANGED <<fd, open_inodes>>
        /\ Returns(p)
        /\ UNCHANGED <<onDisk, free_map, lost>>

\* file_read, file_write and file_seek.  There is nothing past the end of a
\* file, and a write that is denied writes nothing.
Read(p, d) ==
    /\ pc[p] = "idle" /\ fileLock = NULL /\ fd[p][d] # NULL
    /\ fd[p][d].pos < open_inodes[fd[p][d].inode].data.length
    /\ fd' = [fd EXCEPT ![p][d].pos = @ + 1]
    /\ UNCHANGED <<onDisk, free_map, open_inodes, fileLock, pc, call, ghosts>>

Write(p, d, v) ==
    /\ pc[p] = "idle" /\ fileLock = NULL /\ fd[p][d] # NULL
    /\ LET h == fd[p][d]
           inode == open_inodes[h.inode]
       IN  /\ inode.deny_write_cnt = 0 /\ h.pos < inode.data.length
           /\ disk' = [disk EXCEPT ![inode.data.start + h.pos] = v]
    /\ fd' = [fd EXCEPT ![p][d].pos = @ + 1]
    /\ UNCHANGED <<root, disk_map, free_map, open_inodes, fileLock, pc, call, ghosts>>

Seek(p, d, n) ==
    /\ pc[p] = "idle" /\ fd[p][d] # NULL
    /\ fd' = [fd EXCEPT ![p][d].pos = n]
    /\ UNCHANGED <<onDisk, free_map, open_inodes, fileLock, pc, call, ghosts>>

\* file_close, up to the release of a removed inode's sectors; the descriptor
\* is free when it returns.
CloseFile(p, op, d) ==
    LET h == fd[p][d]
        s == h.inode
    IN  /\ open_inodes' = InodeClosed(s, h.deny)
        /\ IF MustRelease(s)
           THEN /\ Goto(p, "release_inode")
                /\ With(p, [NoCall EXCEPT !.op = op, !.fd = d, !.sector = s,
                                          !.start = Releasing(s).start, !.size = Releasing(s).size])
                /\ UNCHANGED fd
           ELSE fd' = [fd EXCEPT ![p][d] = NULL] /\ UNCHANGED <<pc, call>>
        /\ UNCHANGED <<onDisk, free_map, fileLock, ghosts>>

Close(p, d) ==
    /\ pc[p] = "idle" /\ fd[p][d] # NULL
    /\ CloseFile(p, "close", d)

Closed(p) ==
    /\ pc[p] = "closed"
    /\ fd' = IF call[p].fd = NULL THEN fd ELSE [fd EXCEPT ![p][call[p].fd] = NULL]
    /\ Returns(p)
    /\ UNCHANGED <<onDisk, free_map, open_inodes, ghosts>>

\* mySysExit closes all files; another process takes over.
Exit(p) ==
    /\ pc[p] = "idle" /\ FreeFds(p) # Fd
    /\ Goto(p, "exit")
    /\ With(p, [NoCall EXCEPT !.op = "exit"])
    /\ UNCHANGED <<onDisk, memory, ghosts>>

ExitCloses(p) ==
    /\ pc[p] = "exit"
    /\ IF FreeFds(p) # Fd THEN CloseFile(p, "exit", Min(Fd \ FreeFds(p)))
       ELSE /\ Goto(p, "idle") /\ With(p, NoCall)
            /\ UNCHANGED <<onDisk, memory, ghosts>>

----------------------------------------------------------------------------
\* What belongs to the file whose inode is in sector s.
Blocks(s) == {s} \union Extent(disk[s])
Named == {root[i].sector : i \in {j \in Slot : root[j] # NULL}}

\* The machine stops at any time, mySysHalt or a power failure, and starts
\* again: filesys_init without formatting, free_map_open.
Crash ==
    /\ free_map' = disk_map
    /\ open_inodes' = [s \in Sector |-> NULL]
    /\ fd' = [p \in Proc |-> [d \in Fd |-> NULL]]
    /\ fileLock' = NULL
    /\ pc' = [p \in Proc |-> "idle"]
    /\ call' = [p \in Proc |-> NoCall]
    /\ leaked' = [s \in Sector |-> 0]
    /\ lost' = disk_map \ UNION {Blocks(s) : s \in Named}
    /\ UNCHANGED onDisk

\* A file system that has just been formatted.
Init ==
    /\ root = [i \in Slot |-> NULL]
    /\ disk_map = {} /\ free_map = {}
    /\ disk = [s \in Sector |-> NULL]
    /\ open_inodes = [s \in Sector |-> NULL]
    /\ fd = [p \in Proc |-> [d \in Fd |-> NULL]]
    /\ fileLock = NULL
    /\ pc = [p \in Proc |-> "idle"]
    /\ call = [p \in Proc |-> NoCall]
    /\ leaked = [s \in Sector |-> 0]
    /\ lost = {}

Calls(p) ==
    \/ \E n \in Name : Remove(p, n) \/ Open(p, n) \/ Execute(p, n)
    \/ \E n \in Name, size \in Size : Create(p, n, size)
    \/ \E d \in Fd :
          \/ Read(p, d) \/ Close(p, d)
          \/ \E v \in Data : Write(p, d, v)
          \/ \E n \in Size : Seek(p, d, n)
    \/ Exit(p)

Steps(p) ==
    \/ AllocateInode(p) \/ AllocateData(p) \/ WriteInode(p) \/ WriteZeros(p) \/ Undo(p)
    \/ Lookup(p) \/ FindSlot(p) \/ Fetch(p) \/ Store(p) \/ WriteMap(p)
    \/ OpenInode(p) \/ LoadInode(p) \/ Install(p) \/ RemoveInode(p)
    \/ ReleaseInode(p) \/ ReleaseData(p) \/ Closed(p) \/ ExitCloses(p)

Next == Crash \/ \E p \in Proc : Calls(p) \/ Steps(p)

Spec == Init /\ [][Next]_vars

----------------------------------------------------------------------------
(* Properties.                                                             *)

Labels == {"idle", "alloc_inode", "alloc_data", "write_inode", "zero", "lookup", "find_slot",
           "fetch", "store", "undo", "write_map", "open_inode", "load", "install",
           "remove_inode", "release_inode", "release_data", "closed", "exit"}

TypeOK ==
    /\ root \in [Slot -> Entries \union {NULL}]
    /\ disk_map \subseteq Sector /\ free_map \subseteq Sector /\ lost \subseteq Sector
    /\ disk \in [Sector -> Inodes \union Data \union {Zeros, NULL}]
    /\ open_inodes \in [Sector -> OpenedInodes \union {NULL}]
    /\ fd \in [Proc -> [Fd -> OpenedFiles \union {NULL}]]
    /\ fileLock \in Proc \union {NULL}
    /\ pc \in [Proc -> Labels]
    /\ \A p \in Proc :
          /\ call[p].sector \in Sector \union {0} /\ call[p].start \in Sector \union {0}
          /\ call[p].fd \in Fd \union {NULL} /\ call[p].slot \in Slot \union {NULL}
          /\ call[p].next \in Labels
    /\ leaked \in [Sector -> Nat]

\* Whatever has happened, and whenever the machine stops, every entry of the
\* directory on disk leads to an inode, and the free map on disk gives the
\* inode's sector and its data to that file alone (filesys.c:45-59,
\* inode.c:72-106, directory.c:184-216, free-map.c:22-50).
DiskConsistent ==
    /\ \A s \in Named : disk[s] \in Inodes /\ Blocks(s) \subseteq disk_map
    /\ \A i, j \in Slot : root[i] # NULL /\ root[j] # NULL /\ i # j =>
          /\ root[i].name # root[j].name
          /\ Blocks(root[i].sector) \intersect Blocks(root[j].sector) = {}

\* An inode counts the files open on it: those of the descriptors, those that
\* calls have open just now, and those that nobody can close; and of the
\* first, those that deny writes.  An inode nobody has open is not listed
\* (inode.c:111-186, 323-338).
Using(p, s) ==
    /\ call[p].sector = s /\ call[p].op \in {"open", "exec", "remove"}
    /\ pc[p] \in {"load", "install", "fetch", "store", "remove_inode"}
Closing(p, d) == call[p].fd = d
OpenFiles(s) ==
    {x \in Proc \X Fd : LET h == fd[x[1]][x[2]]
                       IN  h # NULL /\ h.inode = s /\ ~Closing(x[1], x[2])}
OpensCounted ==
    \A s \in Sector :
        LET count == Cardinality(OpenFiles(s)) + leaked[s]
                     + Cardinality({p \in Proc : Using(p, s)})
            denying == Cardinality({x \in OpenFiles(s) : fd[x[1]][x[2]].deny})
        IN  IF open_inodes[s] = NULL THEN count = 0
            ELSE open_inodes[s].open_cnt = count /\ open_inodes[s].deny_write_cnt = denying

\* A sector that is allocated belongs to a file that has a name or is open, or
\* to a call that is making or deleting one: no other sectors are lost than
\* those of a creation that failed half way and of a crash.  What is released
\* is allocated (free-map.c:47).
InUse(p) ==
    IF call[p].op = "create"
    THEN {call[p].sector} \union Extent(Inode(call[p].start, call[p].size))
    ELSE IF pc[p] \in {"release_inode", "release_data", "write_map"}
    THEN {call[p].sector} \union Extent(Inode(call[p].start, call[p].size))
    ELSE {}
NothingElseLost ==
    /\ free_map \subseteq lost
                 \union (UNION {Blocks(s) : s \in Named})
                 \union (UNION {Blocks(s) : s \in {q \in Sector : open_inodes[q] # NULL}})
                 \union (UNION {InUse(p) : p \in Proc})
    /\ \A p \in Proc :
          /\ pc[p] \in {"undo", "release_inode"} => call[p].sector \in free_map
          /\ pc[p] \in {"release_inode", "release_data"} =>
                 Extent(Inode(call[p].start, call[p].size)) \subseteq free_map

\* The calls keep what FileStore promises: a file that is removed lives until
\* it is closed, two files never share a sector, no failure half way and no
\* crash changes a file that is not the call's.
Text(s) == [i \in 1..disk[s].length |-> disk[disk[s].start + i - 1]]
Handle(p, d) ==
    IF fd[p][d] = NULL \/ Closing(p, d) THEN NULL
    ELSE [file |-> fd[p][d].inode, pos |-> fd[p][d].pos, deny |-> fd[p][d].deny]

FileByName == [n \in Name |-> LET at == {i \in Slot : root[i] # NULL /\ root[i].name = n}
                              IN  IF at = {} THEN NULL ELSE root[Min(at)].sector]
TextByFile == [s \in Sector |-> IF s \in Named \/ OpenFiles(s) # {} THEN Text(s) ELSE NULL]
HandleByFd == [p \in Proc |-> [d \in Fd |-> Handle(p, d)]]

Files == INSTANCE FileStore WITH
    File <- Sector, MaxSize <- Cardinality(Sector),
    names <- FileByName, content <- TextByFile, handles <- HandleByFd
ImplementsFileStore == Files!Spec

\* "Fails if a file named NAME already exists" (filesys.c:43).
NamesDistinct ==
    \A i, j \in Slot : root[i] # NULL /\ root[j] # NULL /\ root[i].name = root[j].name => i = j
============================================================================
