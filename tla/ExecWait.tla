------------------------------ MODULE ExecWait ------------------------------
(***************************************************************************)
(* What the comments over process_execute and process_wait promise (prj4   *)
(* userprog/process.c:30-33 and 153-158), by thread identifier: execute    *)
(* returns the identifier of a process that has loaded, or -1; wait        *)
(* returns, for a child, the status it has exited with or the one that     *)
(* stands for being killed, after it has ended and once, and -1 for what   *)
(* is not a child; a process that may still be waited for does not         *)
(* disappear.                                                              *)
(***************************************************************************)
EXTENDS Integers

CONSTANTS
    Tid,
    ExitStatus,     \* statuses that processes exit with
    KilledStatus    \* what wait returns for one that an exception killed: the comment
                    \* promises -1

VARIABLES
    life,       \* of a tid: "unborn", "alive", "ended", "failed" (to load), "gone"
    code,       \* the status an ended process left
    children,   \* of a tid: the tids it may wait for
    answer      \* the last answer anybody got: the caller, the argument of its wait
                \* or 0 for an execute, and what it returned

vars == <<life, code, children, answer>>

Return(p, arg, value) == answer' = <<p, arg, value>>

\* A thread is created; it is nobody's child until execute says so.
Create(c) ==
    /\ life[c] = "unborn"
    /\ life' = [life EXCEPT ![c] = "alive"]
    /\ UNCHANGED <<code, children, answer>>

ExecuteSucceeds(p, c) ==
    /\ life[p] = "alive" /\ life[c] \in {"alive", "ended"}
    /\ \A q \in Tid : c \notin children[q]
    /\ children' = [children EXCEPT ![p] = @ \union {c}]
    /\ Return(p, 0, c)
    /\ UNCHANGED <<life, code>>

ExecuteFails(p) ==
    /\ life[p] = "alive"
    /\ Return(p, 0, -1)
    /\ UNCHANGED <<life, code, children>>

\* A new process cannot be loaded: nobody gets its identifier.
LoadFails(c) ==
    /\ life[c] = "alive"
    /\ \A q \in Tid : c \notin children[q]
    /\ life' = [life EXCEPT ![c] = "failed"]
    /\ UNCHANGED <<code, children, answer>>

End(p, status) ==
    /\ life[p] = "alive"
    /\ life' = [life EXCEPT ![p] = "ended"]
    /\ code' = [code EXCEPT ![p] = status]
    /\ UNCHANGED <<children, answer>>

Exits(p) == \E status \in ExitStatus : End(p, status)

\* "If it was terminated by the kernel (i.e. killed due to an exception)"
Killed(p) == p # 1 /\ End(p, KilledStatus)

\* initial_thread has run its tasks.
TasksDone == End(1, 0)

WaitSucceeds(p, c) ==
    /\ life[p] = "alive" /\ life[c] = "ended"
    /\ c \in children[p]
    /\ children' = [children EXCEPT ![p] = @ \ {c}]
    /\ Return(p, c, code[c])
    /\ UNCHANGED <<life, code>>

\* "If TID is invalid or if it was not a child of the calling process, or if
\* process_wait() has already been successfully called for the given TID"
WaitFails(p, arg) ==
    /\ life[p] = "alive"
    /\ arg \notin children[p]
    /\ Return(p, arg, -1)
    /\ UNCHANGED <<life, code, children>>

\* The page of an ended process is freed, and what it held with it.
Disappear(c) ==
    /\ life[c] \in {"ended", "failed"}
    /\ \A q \in Tid : c \notin children[q]
    /\ life' = [life EXCEPT ![c] = "gone"]
    /\ code' = [code EXCEPT ![c] = 0]
    /\ children' = [children EXCEPT ![c] = {}]
    /\ UNCHANGED answer

Next ==
    \/ \E c \in Tid : Create(c) \/ LoadFails(c) \/ Disappear(c)
    \/ \E p \in Tid : ExecuteFails(p) \/ Exits(p) \/ Killed(p)
    \/ \E p \in Tid : \E arg \in Tid \union {-1} : WaitFails(p, arg)
    \/ \E p, c \in Tid : ExecuteSucceeds(p, c) \/ WaitSucceeds(p, c)
    \/ TasksDone

\* initial_thread and the idle thread (tids 1 and 2) are there from the start,
\* on the list of the first.
Init ==
    /\ life = [t \in Tid |-> IF t \in {1, 2} THEN "alive" ELSE "unborn"]
    /\ code = [t \in Tid |-> 0]
    /\ children = [t \in Tid |-> IF t = 1 THEN {1, 2} ELSE {}]
    /\ answer = <<0, 0, 0>>

Spec == Init /\ [][Next]_vars
============================================================================
