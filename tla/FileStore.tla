----------------------------- MODULE FileStore ------------------------------
(***************************************************************************)
(* What the file system calls of project 4 promise: files of a fixed size, *)
(* each with at most one name, which live until they have neither a name   *)
(* nor a handle (filesys/filesys.c:41-82, inode.c:160-195, file.c:110-135  *)
(* in os_prj4_20191599/src).  No sectors, no directory slots, no counts:   *)
(* every call takes effect at once, and a crash costs nothing but handles. *)
(***************************************************************************)
EXTENDS Naturals, Sequences

CONSTANTS File, Name, Proc, Fd, Data, MaxSize, Zeros, NULL

VARIABLES
    names,    \* the file a name stands for, or NULL
    content,  \* the sectors of a file, or NULL if it does not exist
    handles   \* what a process's descriptor refers to: file, position, deny

Init ==
    /\ names = [n \in Name |-> NULL]
    /\ content = [f \in File |-> NULL]
    /\ handles = [p \in Proc |-> [d \in Fd |-> NULL]]

Referred(f, nms, hs) ==
    \/ \E n \in Name : nms[n] = f
    \/ \E p \in Proc, d \in Fd : hs[p][d] # NULL /\ hs[p][d].file = f

\* Files that neither a name nor a handle refers to cease to exist.
Kept == [f \in File |-> IF Referred(f, names', handles') THEN content[f] ELSE NULL]

Create(n, f, size) ==
    /\ names[n] = NULL /\ content[f] = NULL
    /\ names' = [names EXCEPT ![n] = f]
    /\ content' = [content EXCEPT ![f] = [i \in 1..size |-> Zeros]]
    /\ UNCHANGED handles

Remove(n) ==
    /\ names[n] # NULL
    /\ names' = [names EXCEPT ![n] = NULL]
    /\ UNCHANGED handles
    /\ content' = Kept

Open(p, n, d, deny) ==
    /\ names[n] # NULL /\ handles[p][d] = NULL
    /\ handles' = [handles EXCEPT ![p][d] = [file |-> names[n], pos |-> 0, deny |-> deny]]
    /\ UNCHANGED <<names, content>>

Close(p, d) ==
    /\ handles[p][d] # NULL
    /\ handles' = [handles EXCEPT ![p][d] = NULL]
    /\ UNCHANGED names
    /\ content' = Kept

Denied(f) == \E p \in Proc, d \in Fd : handles[p][d] # NULL /\ handles[p][d].file = f /\ handles[p][d].deny

\* A write changes the sector at the handle's position and moves past it,
\* unless some handle denies writing or the file ends there.
Write(p, d, v) ==
    LET h == handles[p][d] IN
    /\ h # NULL
    /\ ~Denied(h.file) /\ h.pos < Len(content[h.file])
    /\ content' = [content EXCEPT ![h.file][h.pos + 1] = v]
    /\ handles' = [handles EXCEPT ![p][d].pos = @ + 1]
    /\ UNCHANGED names

\* Reading and seeking move a handle, which may end up anywhere.
Move(p, d) ==
    /\ handles[p][d] # NULL /\ handles'[p][d] # NULL
    /\ handles'[p][d].pos \in Nat
    /\ handles' = [handles EXCEPT ![p][d].pos = handles'[p][d].pos]
    /\ UNCHANGED <<names, content>>

Crash ==
    /\ handles' = [p \in Proc |-> [d \in Fd |-> NULL]]
    /\ UNCHANGED names
    /\ content' = Kept

Next ==
    \/ \E n \in Name : Remove(n) \/ \E f \in File, size \in 0..MaxSize : Create(n, f, size)
    \/ \E p \in Proc, d \in Fd :
          \/ Close(p, d) \/ Move(p, d)
          \/ \E n \in Name, deny \in BOOLEAN : Open(p, n, d, deny)
          \/ \E v \in Data : Write(p, d, v)
    \/ Crash

Spec == Init /\ [][Next]_<<names, content, handles>>
============================================================================
