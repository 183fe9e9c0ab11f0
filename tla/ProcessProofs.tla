--------------------------- MODULE ProcessProofs ---------------------------
(***************************************************************************)
(* Proofs about Process, for any number of pages and processes: its types, *)
(* that no process holds a pointer to a page that was freed, that the two  *)
(* messages of one semaphore are not confused, and that execute and wait   *)
(* implement ExecWait.                                                     *)
(***************************************************************************)
EXTENDS Process, ListLemmas

----------------------------------------------------------------------------
(* The inductive invariant.                                                *)

\* Where execute and wait have a child in their local variable.
InCall == {"exec_down", "exec_flag", "wait_down", "wait_read", "wait_up"}
InWait == {"wait_down", "wait_read"}

\* Tids: a page has one while a thread lives in it, no two the same.
Tids ==
    \A p, q \in Page :
        /\ tid[p] = 0 <=> pc[p] = "free"
        /\ tid[p] < next_tid
        /\ tid[p] = tid[q] /\ tid[p] # 0 => p = q

Children(p) == ToSet(childList[p])

\* A child nobody has waited for yet: it is still there, and nobody has let it
\* go.
Unreaped(u) == pc[u] \notin {"free", "dying"} /\ memSema[u].value = 0

\* Pointers: a child is on one list, once; in the local variable of one call,
\* a wait's while it is on the caller's list, an execute's while it is on none.
Pointers ==
    /\ \A p \in Page :
          /\ IsInjective(childList[p])
          /\ child[p] = NULL <=> pc[p] \notin InCall
          /\ pc[p] \in InWait => child[p] \in Children(p)
          /\ child[p] # NULL => Unreaped(child[p])
          /\ \A u \in Children(p) : Unreaped(u)
    /\ \A p, q \in Page :
          /\ p # q => Children(p) \intersect Children(q) = {}
          /\ child[p] = child[q] /\ child[p] # NULL => p = q
          /\ child[p] \in Children(q) => p = q /\ pc[p] \in InWait

\* Messages: how often u has raised its childSema, how often its parent has
\* lowered it, and that the rest is what the semaphore holds.
Told(u) == CASE pc[u] \in {"load", "loaded"} -> 0
             [] pc[u] \in {"exit_down", "dying"} -> 2
             [] OTHER -> 1
Heard(p) == CASE pc[p] = "exec_down" -> 0
              [] pc[p] \in {"wait_read", "wait_up"} -> 2
              [] OTHER -> 1
Messages ==
    /\ \A u \in Page : pc[u] # "free" => childSema[u].value <= Told(u)
    /\ \A p \in Page :
          /\ child[p] # NULL => childSema[child[p]].value = Told(child[p]) - Heard(p)
          /\ \A u \in Children(p) : child[p] # u => childSema[u].value = Told(u) - 1

IInv == TypeOK /\ Tids /\ Pointers /\ Messages

----------------------------------------------------------------------------
(* Lemmas.                                                                 *)

\* Semaphores: what the operations of FifoSema keep and change.
LEMMA SemaOps ==
    ASSUME NEW S, NEW sema \in Semaphores(S), NEW t \in S
    PROVE  /\ sema.value \in Nat
           /\ Enqueued(sema, t) \in Semaphores(S)
           /\ Enqueued(sema, t).value = sema.value
           /\ sema.value # 0 => Lowered(sema) \in Semaphores(S)
           /\ Lowered(sema).value = sema.value - 1
           /\ Raised(sema) \in Semaphores(S)
           /\ Raised(sema).value = sema.value + 1
<1>1. sema.value \in Nat /\ sema.waiters \in Seq(S)
  BY DEF Semaphores
<1>2. Append(sema.waiters, t) \in Seq(S)
  BY <1>1
<1>3. sema.waiters # <<>> => Tail(sema.waiters) \in Seq(S)
  BY <1>1
<1> QED
  BY <1>1, <1>2, <1>3 DEF Semaphores, Enqueued, Lowered, Raised

LEMMA NewSemaType == NewSema(0) \in Semaphores(Page) /\ NewSema(0).value = 0
  BY DEF NewSema, Semaphores

LEMMA ToldRange == \A u \in Page : Told(u) \in 0..2 /\ Heard(u) \in 0..2
  BY DEF Told, Heard

LEMMA InitIInv == Init => IInv
<1> SUFFICES ASSUME Init PROVE IInv
  OBVIOUS
<1>1. /\ childList = [p \in Page |-> IF p = Main THEN <<Main, Idle>> ELSE <<>>]
      /\ pc = [p \in Page |-> CASE p = Main -> "run" [] p = Idle -> "idle" [] OTHER -> "free"]
      /\ tid = [p \in Page |-> CASE p = Main -> 1 [] p = Idle -> 2 [] OTHER -> 0]
      /\ childSema = [p \in Page |-> NewSema(0)] /\ memSema = [p \in Page |-> NewSema(0)]
      /\ child = [p \in Page |-> NULL] /\ next_tid = 3
  BY DEF Init
<1>2. Main \in Page /\ Idle \in Page /\ Main # Idle /\ NULL \notin Page
  BY ProcessAssumption
<1>3. \A p \in Page : childList[p] \in Seq(Page) /\ IsInjective(childList[p])
  BY <1>1, <1>2 DEF IsInjective
<1>4. \A p \in Page : Children(p) = IF p = Main THEN {Main, Idle} ELSE {}
  BY <1>1, <1>2 DEF Children, ToSet
<1>5. \A p \in Page : childSema[p].value = 0 /\ memSema[p].value = 0
  BY <1>1, NewSemaType
<1>6. TypeOK
  <2>1. childSema \in [Page -> Semaphores(Page)] /\ memSema \in [Page -> Semaphores(Page)]
    BY <1>1, NewSemaType
  <2>2. tid \in [Page -> Tid \union {0}] /\ next_tid \in 3..(MaxTid + 1)
    BY <1>1, <1>2, ProcessAssumption DEF Tid
  <2>3. pc \in [Page -> Label] /\ child \in [Page -> Page \union {NULL}]
    BY <1>1, <1>2 DEF Label
  <2>4. childList \in [Page -> Seq(Page)]
    BY <1>1, <1>3
  <2>5. answer \in Answers /\ task \in Tid \union {0, -1}
    BY DEF Init, Answers
  <2>6. flag \in [Page -> BOOLEAN] /\ exit_status \in [Page -> ExitStatus \union {0}]
    BY DEF Init
  <2> QED
    BY <1>5, <2>1, <2>2, <2>3, <2>4, <2>5, <2>6 DEF TypeOK
<1>7. Tids
  BY <1>1, <1>2 DEF Tids
<1>8. Pointers
  BY <1>1, <1>2, <1>3, <1>4, <1>5 DEF Pointers, InCall, InWait, Unreaped
<1>9. Messages
  <2>1. Told(Main) = 1 /\ Told(Idle) = 1
    BY <1>1, <1>2 DEF Told
  <2> QED
    BY <1>1, <1>2, <1>4, <1>5, <2>1, ToldRange DEF Messages
<1> QED
  BY <1>6, <1>7, <1>8, <1>9 DEF IInv

\* A step that moves one thread, but neither into nor out of a call, nor out
\* of its page, and leaves the lists alone.
LEMMA InPlace ==
    ASSUME TypeOK, Tids, Pointers, NEW p \in Page, NEW l,
           {pc[p], l} \intersect {"free", "dying"} = {},
           pc[p] \in InCall <=> l \in InCall, pc[p] \in InWait <=> l \in InWait,
           Goto(p, l), UNCHANGED <<tid, childList, memSema, child, next_tid>>
    PROVE  Tids' /\ Pointers'
<1>1. \A q \in Page : pc'[q] = IF q = p THEN l ELSE pc[q]
  BY DEF TypeOK, Goto
<1>2. \A q \in Page : /\ pc'[q] = "free" <=> pc[q] = "free"
                      /\ pc'[q] \in InCall <=> pc[q] \in InCall
                      /\ pc'[q] \in InWait <=> pc[q] \in InWait
  BY <1>1
<1>3. Tids'
  BY <1>2 DEF Tids
<1>4. \A u \in Page : Unreaped(u)' <=> Unreaped(u)
  BY <1>1 DEF Unreaped
<1>5. \A q \in Page : Children(q)' = Children(q) /\ Children(q) \subseteq Page
  BY DEF Children, TypeOK, ToSet
<1>6. \A q \in Page : child[q] # NULL => child[q] \in Page
  BY DEF TypeOK
<1>7. Pointers'
  BY <1>2, <1>4, <1>5, <1>6 DEF Pointers
<1> QED
  BY <1>3, <1>7

\* A step that tells and hears nothing.
LEMMA NoMessage ==
    ASSUME TypeOK, Messages, NEW p \in Page, NEW l, Goto(p, l),
           pc[p] = "free" <=> l = "free", Told(p)' = Told(p), Heard(p)' = Heard(p),
           UNCHANGED <<childList, childSema, child>>
    PROVE  Messages'
<1>1. \A q \in Page : pc'[q] = IF q = p THEN l ELSE pc[q]
  BY DEF TypeOK, Goto
<1>2. \A q \in Page : Told(q)' = Told(q) /\ Heard(q)' = Heard(q) /\ (pc'[q] = "free" <=> pc[q] = "free")
  BY <1>1 DEF Told, Heard
<1>3. \A q \in Page : Children(q)' = Children(q) /\ Children(q) \subseteq Page
  BY DEF Children, TypeOK, ToSet
<1>4. \A q \in Page : child[q] # NULL => child[q] \in Page
  BY DEF TypeOK
<1> QED
  BY <1>2, <1>3, <1>4 DEF Messages

\* A thread raises its own childSema and goes on.
LEMMA Tell ==
    ASSUME TypeOK, Messages, NEW u \in Page, NEW l, Goto(u, l),
           pc[u] # "free", Told(u)' = Told(u) + 1, Heard(u)' = Heard(u),
           childSema' = [childSema EXCEPT ![u] = Raised(@)],
           UNCHANGED <<childList, child>>
    PROVE  /\ Messages'
           /\ childSema' \in [Page -> Semaphores(Page)]
           /\ \A p \in Page : childSema'[p].value <= 2
<1>1. \A q \in Page : pc'[q] = IF q = u THEN l ELSE pc[q]
  BY DEF TypeOK, Goto
<1>2. childSema[u] \in Semaphores(Page)
  BY DEF TypeOK
<1>3. Raised(childSema[u]) \in Semaphores(Page) /\ Raised(childSema[u]).value = childSema[u].value + 1
  BY <1>2, SemaOps
<1>4. \A q \in Page : childSema'[q].value = IF q = u THEN childSema[u].value + 1 ELSE childSema[q].value
  BY <1>3 DEF TypeOK
<1>5. \A q \in Page : /\ Told(q)' = IF q = u THEN Told(q) + 1 ELSE Told(q)
                      /\ Heard(q)' = Heard(q)
                      /\ q # u => (pc'[q] = "free" <=> pc[q] = "free")
  BY <1>1 DEF Told, Heard
<1>6. \A q \in Page : Children(q)' = Children(q) /\ Children(q) \subseteq Page
  BY DEF Children, TypeOK, ToSet
<1>7. \A q \in Page : child[q] # NULL => child[q] \in Page
  BY DEF TypeOK
<1>8. \A q \in Page : childSema[q].value \in Nat
  BY SemaOps DEF TypeOK
<1>9. Messages'
  BY <1>4, <1>5, <1>6, <1>7, <1>8, ToldRange DEF Messages
<1>10. Told(u) + 1 <= 2
  BY <1>5, ToldRange DEF Told
<1>11. childSema[u].value <= Told(u)
  BY DEF Messages
<1>12. \A q \in Page : childSema'[q].value <= 2
  <2>1. \A q \in Page : childSema[q].value <= 2
    BY DEF TypeOK
  <2>2. childSema[u].value + 1 <= 2
    BY <1>8, <1>10, <1>11, ToldRange
  <2> QED
    BY <1>4, <2>1, <2>2
<1>13. childSema' \in [Page -> Semaphores(Page)]
  BY <1>3 DEF TypeOK
<1> QED
  BY <1>9, <1>12, <1>13

\* A parent's down on its child's semaphore: it goes to sleep, or hears.
LEMMA Hear ==
    ASSUME IInv, NEW p \in Page, NEW from \in {"exec_down", "wait_down"},
           NEW to \in {"exec_flag", "wait_read"},
           from = "exec_down" <=> to = "exec_flag",
           DownChildSema(p, from, to)
    PROVE  IInv'
<1>0. TypeOK /\ Tids /\ Pointers /\ Messages
  BY DEF IInv
<1>1. /\ pc[p] = from /\ pc[p] \in InCall
      /\ UNCHANGED <<tid, childList, memSema, flag, exit_status, child, answer, task, next_tid>>
  BY DEF DownChildSema, At, InCall
<1>2. PICK u \in Page : u = child[p]
  BY <1>0, <1>1 DEF Pointers, TypeOK
<1>5. u # NULL /\ childSema[u] \in Semaphores(Page)
  BY <1>0, <1>2, ProcessAssumption DEF TypeOK
<1>6. CASE IsZero(childSema[u])
  <2>1. childSema' = [childSema EXCEPT ![u] = Enqueued(childSema[u], p)] /\ pc' = pc
    BY <1>2, <1>6 DEF DownChildSema
  <2>2. Enqueued(childSema[u], p) \in Semaphores(Page) /\ Enqueued(childSema[u], p).value = childSema[u].value
    BY <1>5, SemaOps
  <2>3. \A q \in Page : childSema'[q].value = childSema[q].value
    BY <1>0, <2>1, <2>2 DEF TypeOK
  <2>4. TypeOK'
    BY <1>0, <1>1, <2>1, <2>2, <2>3 DEF TypeOK
  <2>5. Tids'
    BY <1>0, <1>1, <2>1 DEF Tids
  <2>6. Pointers'
    BY <1>0, <1>1, <2>1 DEF Pointers, Unreaped, Children
  <2>7. \A q \in Page : child[q] # NULL => child[q] \in Page
    BY <1>0 DEF TypeOK
  <2>8. \A q \in Page : Children(q)' = Children(q) /\ Children(q) \subseteq Page
    BY <1>0, <1>1 DEF Children, TypeOK, ToSet
  <2>9. \A q \in Page : Told(q)' = Told(q) /\ Heard(q)' = Heard(q)
    BY <2>1 DEF Told, Heard
  <2>10. Messages'
    BY <1>0, <1>1, <2>1, <2>3, <2>7, <2>8, <2>9 DEF Messages
  <2> QED
    BY <2>4, <2>5, <2>6, <2>10 DEF IInv
<1>7. CASE ~IsZero(childSema[u])
  <2>1. childSema' = [childSema EXCEPT ![u] = Lowered(childSema[u])] /\ Goto(p, to)
    BY <1>2, <1>7 DEF DownChildSema
  <2>2. childSema[u].value # 0
    BY <1>7 DEF IsZero
  <2>3. /\ Lowered(childSema[u]) \in Semaphores(Page)
        /\ Lowered(childSema[u]).value = childSema[u].value - 1
        /\ childSema[u].value \in Nat
    BY <1>5, <2>2, SemaOps
  <2>4. \A q \in Page : childSema'[q].value = IF q = u THEN childSema[u].value - 1 ELSE childSema[q].value
    BY <1>0, <2>1, <2>3 DEF TypeOK
  <2>5. pc' = [pc EXCEPT ![p] = to] /\ to \in Label
    BY <2>1 DEF Goto, Label
  <2>6. childSema' \in [Page -> Semaphores(Page)] /\ \A q \in Page : childSema'[q].value <= 2
    BY <1>0, <1>2, <2>1, <2>3, <2>4 DEF TypeOK
  <2>7. TypeOK'
    BY <1>0, <1>1, <2>5, <2>6 DEF TypeOK
  <2>8. Tids' /\ Pointers'
    BY <1>0, <1>1, <2>1, InPlace DEF InCall, InWait
  <2>9. \A q \in Page : /\ pc'[q] = "free" <=> pc[q] = "free"
                        /\ Told(q)' = Told(q)
                        /\ Heard(q)' = IF q = p THEN Heard(q) + 1 ELSE Heard(q)
    BY <1>0, <1>1, <2>5 DEF TypeOK, Told, Heard
  <2>10. \A q \in Page : child[q] # NULL => child[q] \in Page /\ (child[q] = u <=> q = p)
    BY <1>0, <1>2, <1>5 DEF TypeOK, Pointers
  <2>11. \A q \in Page : /\ Children(q)' = Children(q) /\ Children(q) \subseteq Page
                         /\ u \in Children(q) => q = p
    BY <1>0, <1>1, <1>2 DEF Children, TypeOK, ToSet, Pointers
  <2>12. \A q \in Page : q # u => childSema'[q].value = childSema[q].value
    BY <2>4
  <2>13. childSema'[u].value = childSema[u].value - 1
    BY <1>2, <2>4
  <2>14. \A q \in Page : pc'[q] # "free" => childSema'[q].value <= Told(q)'
    BY <1>0, <1>2, <2>3, <2>9, <2>12, <2>13, ToldRange DEF Messages
  <2>15. \A q, v \in Page : child[q] = v => childSema'[v].value = Told(v)' - Heard(q)'
    <3>1. childSema[u].value = Told(u) - Heard(p)
      BY <1>0, <1>2, <1>5 DEF Messages
    <3>2. childSema'[u].value = Told(u)' - Heard(p)'
      BY <1>2, <2>3, <2>9, <2>13, <3>1, ToldRange
    <3>3. ASSUME NEW q \in Page, NEW v \in Page, child[q] = v, q # p
          PROVE  childSema'[v].value = Told(v)' - Heard(q)'
      <4>1. childSema[v].value = Told(v) - Heard(q) /\ v # u
        BY <1>0, <1>2, <2>10, <3>3, ProcessAssumption DEF Messages
      <4> QED
        BY <2>9, <2>12, <3>3, <4>1
    <3> QED
      BY <1>2, <3>2, <3>3
  <2>16. \A q \in Page : \A v \in Children(q) : child[q] # v => childSema'[v].value = Told(v)' - 1
    BY <1>0, <1>2, <2>9, <2>11, <2>12 DEF Messages
  <2>17. Messages'
    BY <1>1, <2>10, <2>11, <2>14, <2>15, <2>16 DEF Messages
  <2> QED
    BY <2>7, <2>8, <2>17 DEF IInv
<1> QED
  BY <1>6, <1>7

\* thread_create takes a free page, to which nobody points.
LEMMA ExecuteIInv == ASSUME IInv, NEW p \in Page, NEW u \in Page, Execute(p, u) PROVE IInv'
<1>0. TypeOK /\ Tids /\ Pointers /\ Messages
  BY DEF IInv
<1>1. /\ pc[p] = "run" /\ pc[u] = "free" /\ next_tid <= MaxTid /\ p # u
      /\ tid' = [tid EXCEPT ![u] = next_tid] /\ next_tid' = next_tid + 1
      /\ childList' = [childList EXCEPT ![u] = <<>>]
      /\ childSema' = [childSema EXCEPT ![u] = NewSema(0)]
      /\ memSema' = [memSema EXCEPT ![u] = NewSema(0)]
      /\ child' = [child EXCEPT ![p] = u, ![u] = NULL]
      /\ pc' = [pc EXCEPT ![p] = "exec_down", ![u] = "load"]
  BY DEF Execute, At
<1>2. next_tid \in 3..MaxTid /\ MaxTid \in Nat
  BY <1>0, <1>1, ProcessAssumption DEF TypeOK
<1>3. TypeOK'
  <2>1. tid' \in [Page -> Tid \union {0}] /\ next_tid' \in 3..(MaxTid + 1)
    BY <1>0, <1>1, <1>2 DEF TypeOK, Tid
  <2>2. childList' \in [Page -> Seq(Page)]
    BY <1>0, <1>1 DEF TypeOK
  <2>5. child' \in [Page -> Page \union {NULL}]
    BY <1>0, <1>1 DEF TypeOK
  <2>3. /\ childSema' \in [Page -> Semaphores(Page)] /\ memSema' \in [Page -> Semaphores(Page)]
        /\ \A q \in Page : childSema'[q].value <= 2 /\ memSema'[q].value <= 1
    BY <1>0, <1>1, NewSemaType DEF TypeOK
  <2>4. pc' \in [Page -> Label]
    BY <1>0, <1>1 DEF TypeOK, Label
  <2> QED
    BY <1>0, <2>1, <2>2, <2>3, <2>4, <2>5 DEF TypeOK, Execute
<1>13. p # u /\ pc[p] = "run" /\ pc[u] = "free" /\ next_tid' = next_tid + 1
  BY <1>1
<1>4. \A q \in Page : /\ pc'[q] = IF q = p THEN "exec_down" ELSE IF q = u THEN "load" ELSE pc[q]
                      /\ child'[q] = IF q = p THEN u ELSE IF q = u THEN NULL ELSE child[q]
                      /\ tid'[q] = IF q = u THEN next_tid ELSE tid[q]
  BY <1>0, <1>1 DEF TypeOK
<1>5. Tids'
  <2>1. \A q \in Page : tid[q] \in Nat /\ tid[q] < next_tid /\ (tid[q] = 0 <=> pc[q] = "free")
    BY <1>0 DEF Tids, TypeOK, Tid
  <2>2. \A q, r \in Page : tid[q] = tid[r] /\ tid[q] # 0 => q = r
    BY <1>0 DEF Tids
  <2> QED
    BY <1>2, <1>4, <1>13, <2>1, <2>2 DEF Tids
<1>6. \A q \in Page : /\ Children(q)' = IF q = u THEN {} ELSE Children(q)
                      /\ Children(q) \subseteq Page \ {u}
                      /\ child[q] # u
                      /\ child[q] # NULL => child[q] \in Page
  BY <1>0, <1>1, ProcessAssumption DEF TypeOK, Children, ToSet, Pointers, Unreaped
<1>7. \A q \in Page : IsInjective(childList[q]) => IsInjective(childList'[q])
  <2>1. \A q \in Page : childList'[q] = IF q = u THEN <<>> ELSE childList[q]
    BY <1>0, <1>1 DEF TypeOK
  <2> QED
    BY <2>1 DEF IsInjective
<1>14. child[p] = NULL /\ child[u] = NULL
  BY <1>0, <1>13 DEF Pointers, InCall
<1>8. \A q \in Page : memSema'[q].value = (IF q = u THEN 0 ELSE memSema[q].value)
                      /\ childSema'[q].value = (IF q = u THEN 0 ELSE childSema[q].value)
  BY <1>0, <1>1, NewSemaType DEF TypeOK
<1>9. \A q \in Page : Unreaped(q) \/ q = u => Unreaped(q)'
  BY <1>4, <1>8, <1>13 DEF Unreaped
<1>10. Pointers'
  BY <1>0, <1>4, <1>6, <1>7, <1>9, <1>13, <1>14, ProcessAssumption DEF Pointers, InCall, InWait
<1>11. \A q \in Page : /\ Told(q)' = IF q = u THEN 0 ELSE Told(q)
                       /\ q # p => Heard(q)' = Heard(q) \/ q = u
                       /\ Heard(p)' = 0
  BY <1>4, <1>13 DEF Told, Heard
<1>12. Messages'
  <2>1. \A v \in Page : pc'[v] # "free" => childSema'[v].value <= Told(v)'
    BY <1>0, <1>4, <1>8, <1>11, <1>13 DEF Messages
  <2>2. \A q, v \in Page : child'[q] = v => childSema'[v].value = Told(v)' - Heard(q)'
    <3>1. ASSUME NEW q \in Page, NEW v \in Page, child'[q] = v, q # p, q # u
          PROVE  childSema'[v].value = Told(v)' - Heard(q)'
      BY <1>0, <1>4, <1>6, <1>8, <1>11, <3>1, ProcessAssumption DEF Messages
    <3>2. child'[p] = u /\ child'[u] = NULL
      BY <1>4, <1>13
    <3> QED
      BY <1>8, <1>11, <3>1, <3>2, ProcessAssumption
  <2>3. \A q \in Page : \A v \in Children(q)' : child'[q] # v => childSema'[v].value = Told(v)' - 1
    BY <1>0, <1>4, <1>6, <1>8, <1>11, <1>14, ProcessAssumption DEF Messages
  <2>4. \A q \in Page : child'[q] # NULL => child'[q] \in Page
    BY <1>4, <1>6
  <2> QED
    BY <2>1, <2>2, <2>3, <2>4 DEF Messages
<1> QED
  BY <1>3, <1>5, <1>10, <1>12 DEF IInv

\* The child leaves execute's local variable, for its caller's list if it has
\* loaded.
LEMMA ExecuteReturnsIInv == ASSUME IInv, NEW p \in Page, ExecuteReturns(p) PROVE IInv'
<1>0. TypeOK /\ Tids /\ Pointers /\ Messages
  BY DEF IInv
<1>1. /\ pc[p] = "exec_flag"
      /\ child' = [child EXCEPT ![p] = NULL] /\ pc' = [pc EXCEPT ![p] = Caller(p)]
      /\ UNCHANGED <<tid, childSema, memSema, flag, exit_status, next_tid>>
  BY DEF ExecuteReturns, At, Goto
<1>2. PICK u \in Page : u = child[p]
  BY <1>0, <1>1 DEF Pointers, TypeOK, InCall
<1>3. /\ childList' = [childList EXCEPT ![p] = IF flag[u] THEN Append(@, u) ELSE @]
      /\ answer' = <<tid[p], 0, IF flag[u] THEN tid[u] ELSE -1>>
      /\ task' \in {task, IF flag[u] THEN tid[u] ELSE -1}
  BY <1>2 DEF ExecuteReturns, ExecuteAnswer, Return
<1>4. u # NULL /\ Unreaped(u) /\ u \notin Children(p)
  BY <1>0, <1>1, <1>2, ProcessAssumption DEF Pointers, InWait
<1>5. /\ childList'[p] \in Seq(Page) /\ IsInjective(childList'[p])
      /\ Children(p)' = IF flag[u] THEN Children(p) \union {u} ELSE Children(p)
  <2>1. childList[p] \in Seq(Page) /\ IsInjective(childList[p])
    BY <1>0 DEF TypeOK, Pointers
  <2>2. childList'[p] = IF flag[u] THEN Append(childList[p], u) ELSE childList[p]
    BY <1>0, <1>3 DEF TypeOK
  <2>3. /\ Append(childList[p], u) \in Seq(Page)
        /\ ToSet(Append(childList[p], u)) = Children(p) \union {u}
        /\ IsInjective(Append(childList[p], u))
    BY <1>4, <2>1, AppendSet DEF Children
  <2> QED
    BY <2>1, <2>2, <2>3 DEF Children
<1>6. \A q \in Page : q # p => childList'[q] = childList[q] /\ Children(q)' = Children(q)
  BY <1>0, <1>3 DEF TypeOK, Children
<1>7. TypeOK'
  <2>1. childList' \in [Page -> Seq(Page)]
    BY <1>0, <1>3, <1>5, <1>6 DEF TypeOK
  <2>2. answer' \in Answers /\ task' \in Tid \union {0, -1}
    BY <1>0, <1>3 DEF TypeOK, Answers
  <2>3. pc' \in [Page -> Label] /\ child' \in [Page -> Page \union {NULL}]
    BY <1>0, <1>1 DEF TypeOK, Label, Caller
  <2> QED
    BY <1>0, <1>1, <2>1, <2>2, <2>3 DEF TypeOK
<1>8. \A q \in Page : /\ pc'[q] = IF q = p THEN Caller(p) ELSE pc[q]
                      /\ child'[q] = IF q = p THEN NULL ELSE child[q]
                      /\ child[q] # NULL => child[q] \in Page
                      /\ Children(q) \subseteq Page
  BY <1>0, <1>1 DEF TypeOK, Children, ToSet
<1>9. Caller(p) \in {"run", "run_task"} /\ pc[p] = "exec_flag"
  BY <1>1 DEF Caller
<1>10. Tids'
  BY <1>0, <1>1, <1>8, <1>9 DEF Tids
<1>11. \A q \in Page : Unreaped(q)' <=> Unreaped(q)
  BY <1>1, <1>8, <1>9 DEF Unreaped
<1>12. \A q \in Page : u \notin Children(q) /\ (child[q] = u => q = p)
  BY <1>0, <1>2, <1>4, <1>9 DEF Pointers, InWait
<1>13. Pointers'
  <2>1. \A q \in Page :
          /\ IsInjective(childList'[q])
          /\ child'[q] = NULL <=> pc'[q] \notin InCall
          /\ pc'[q] \in InWait => child'[q] \in Children(q)'
    BY <1>0, <1>5, <1>6, <1>8, <1>9 DEF Pointers, InCall, InWait
  <2>2. \A q \in Page :
          /\ child'[q] # NULL => Unreaped(child[q])'
          /\ \A v \in Children(q)' : Unreaped(v)'
    <3>1. \A q \in Page : child'[q] # NULL => child[q] # NULL /\ child'[q] = child[q] /\ Unreaped(child[q])
      BY <1>0, <1>8 DEF Pointers
    <3>2. \A q \in Page : child'[q] # NULL => Unreaped(child[q])'
      BY <1>1, <1>8, <1>9, <3>1 DEF Unreaped
    <3>3. \A q \in Page : \A v \in Children(q)' : Unreaped(v)'
      BY <1>0, <1>4, <1>5, <1>6, <1>8, <1>11 DEF Pointers
    <3> QED
      BY <3>2, <3>3
  <2>3. \A q, r \in Page :
          /\ q # r => Children(q)' \intersect Children(r)' = {}
          /\ child'[q] = child'[r] /\ child'[q] # NULL => q = r
          /\ child'[q] \in Children(r)' => q = r /\ pc'[q] \in InWait
    BY <1>0, <1>2, <1>5, <1>6, <1>8, <1>9, <1>12, ProcessAssumption DEF Pointers
  <2> QED
    BY <1>8, <2>1, <2>2, <2>3 DEF Pointers
<1>14. \A q \in Page : Told(q)' = Told(q) /\ (q # p => Heard(q)' = Heard(q))
  BY <1>8, <1>9 DEF Told, Heard
<1>15. Messages'
  <2>1. \A v \in Page : pc'[v] # "free" => childSema'[v].value <= Told(v)'
    BY <1>0, <1>1, <1>8, <1>9, <1>14 DEF Messages
  <2>2. \A q, v \in Page : child'[q] = v => childSema'[v].value = Told(v)' - Heard(q)'
    BY <1>0, <1>1, <1>8, <1>14, ProcessAssumption DEF Messages
  <2>3. childSema[u].value = Told(u) - 1
    BY <1>0, <1>2, <1>4, <1>9 DEF Messages, Heard
  <2>4. \A q \in Page : \A v \in Children(q)' : child'[q] # v => childSema'[v].value = Told(v)' - 1
    BY <1>0, <1>1, <1>2, <1>5, <1>6, <1>8, <1>12, <1>14, <2>3 DEF Messages
  <2> QED
    BY <1>8, <2>1, <2>2, <2>4 DEF Messages
<1> QED
  BY <1>7, <1>10, <1>13, <1>15 DEF IInv

\* Wait's scan has found a child on the caller's list.
LEMMA WaitFindsIInv ==
    ASSUME IInv, NEW p \in Page, NEW arg, WaitFinds(p, arg), task' \in Tid \union {0, -1}
    PROVE  IInv'
<1>0. TypeOK /\ Tids /\ Pointers /\ Messages
  BY DEF IInv
<1>1. /\ pc[p] \in {"run", "run_task"} /\ pc' = [pc EXCEPT ![p] = "wait_down"]
      /\ UNCHANGED <<tid, childList, childSema, memSema, flag, exit_status, answer, next_tid>>
  BY DEF WaitFinds, At, Goto
<1>2. PICK u \in ChildrenWithTid(p, arg) : child' = [child EXCEPT ![p] = u]
  BY DEF WaitFinds
<1>3. u \in Page /\ u \in Children(p) /\ u # NULL
  <2>1. childList[p] \in Seq(Page)
    BY <1>0 DEF TypeOK
  <2> QED
    BY <1>2, <2>1, ProcessAssumption DEF ChildrenWithTid, Contains, Children, ToSet
<1>4. \A q \in Page : /\ pc'[q] = IF q = p THEN "wait_down" ELSE pc[q]
                      /\ child'[q] = IF q = p THEN u ELSE child[q]
                      /\ child[q] # NULL => child[q] \in Page
                      /\ Children(q)' = Children(q)
                      /\ Children(q) \subseteq Page
  BY <1>0, <1>1, <1>2 DEF TypeOK, Children, ToSet
<1>5. TypeOK'
  <2>1. pc' \in [Page -> Label] /\ child' \in [Page -> Page \union {NULL}]
    BY <1>0, <1>1, <1>2, <1>3 DEF TypeOK, Label
  <2> QED
    BY <1>0, <1>1, <2>1 DEF TypeOK
<1>6. pc[p] \in {"run", "run_task"}
  BY <1>1
<1>7. Tids'
  BY <1>0, <1>1, <1>4, <1>6 DEF Tids
<1>8. child[p] = NULL /\ \A q \in Page : child[q] # u
  <2>1. child[p] = NULL
    BY <1>0, <1>6 DEF Pointers, InCall
  <2>2. ASSUME NEW q \in Page, child[q] = u PROVE FALSE
    <3>1. q = p
      BY <1>0, <1>3, <2>2 DEF Pointers
    <3> QED
      BY <1>3, <2>1, <2>2, <3>1
  <2> QED
    BY <2>1, <2>2
<1>9. \A v \in Page : Unreaped(v)' <=> Unreaped(v)
  BY <1>1, <1>4, <1>6 DEF Unreaped
<1>10. Pointers'
  <2>1. \A q \in Page :
          /\ IsInjective(childList'[q])
          /\ child'[q] = NULL <=> pc'[q] \notin InCall
          /\ pc'[q] \in InWait => child'[q] \in Children(q)'
    BY <1>0, <1>1, <1>3, <1>4, <1>6 DEF Pointers, InCall, InWait
  <2>2. Unreaped(u)
    BY <1>0, <1>3 DEF Pointers
  <2>3. \A q, v \in Page : child'[q] = v \/ v \in Children(q)' => Unreaped(v)'
    BY <1>0, <1>4, <1>9, <2>2, ProcessAssumption DEF Pointers
  <2>4. \A q, r \in Page :
          /\ q # r => Children(q)' \intersect Children(r)' = {}
          /\ child'[q] = child'[r] /\ child'[q] # NULL => q = r
          /\ child'[q] \in Children(r)' => q = r /\ pc'[q] \in InWait
    BY <1>0, <1>3, <1>4, <1>6, <1>8, ProcessAssumption DEF Pointers, InWait
  <2>5. \A q \in Page : child'[q] # NULL => child'[q] \in Page
    BY <1>3, <1>4
  <2> QED
    BY <1>4, <2>1, <2>3, <2>4, <2>5 DEF Pointers
<1>11. \A q \in Page : Told(q)' = Told(q) /\ (q # p => Heard(q)' = Heard(q))
  BY <1>4, <1>6 DEF Told, Heard
<1>12. Heard(p)' = 1
  BY <1>4 DEF Heard
<1>13. Messages'
  <2>1. \A v \in Page : pc'[v] # "free" => childSema'[v].value <= Told(v)'
    BY <1>0, <1>1, <1>4, <1>6, <1>11 DEF Messages
  <2>2. childSema[u].value = Told(u) - 1
    BY <1>0, <1>3, <1>8 DEF Messages
  <2>3. \A q, v \in Page : child'[q] = v => childSema'[v].value = Told(v)' - Heard(q)'
    BY <1>0, <1>1, <1>4, <1>11, <1>12, <2>2, ProcessAssumption DEF Messages
  <2>4. \A q \in Page : \A v \in Children(q)' : child'[q] # v => childSema'[v].value = Told(v)' - 1
    BY <1>0, <1>1, <1>4, <1>8, <1>11, ProcessAssumption DEF Messages
  <2>5. \A q \in Page : child'[q] # NULL => child'[q] \in Page
    BY <1>3, <1>4
  <2> QED
    BY <2>1, <2>3, <2>4, <2>5 DEF Messages
<1> QED
  BY <1>5, <1>7, <1>10, <1>13 DEF IInv

\* The child leaves its parent's list; the parent still has it.
LEMMA WaitReadIInv == ASSUME IInv, NEW p \in Page, WaitRead(p) PROVE IInv'
<1>0. TypeOK /\ Tids /\ Pointers /\ Messages
  BY DEF IInv
<1>1. /\ pc[p] = "wait_read" /\ pc' = [pc EXCEPT ![p] = "wait_up"]
      /\ UNCHANGED <<tid, childSema, memSema, flag, exit_status, child, next_tid>>
  BY DEF WaitRead, At, Goto
<1>2. PICK u \in Page : u = child[p]
  BY <1>0, <1>1 DEF Pointers, TypeOK, InCall
<1>3. PICK i \in DOMAIN childList[p] :
         childList[p][i] = u /\ childList' = [childList EXCEPT ![p] = RemoveAt(@, i)]
  BY <1>2 DEF WaitRead
<1>4. u # NULL /\ answer' = <<tid[p], tid[u], exit_status[u]>> /\ task' = task
  BY <1>2, ProcessAssumption DEF WaitRead, Return
<1>5. /\ childList'[p] \in Seq(Page) /\ IsInjective(childList'[p])
      /\ Children(p)' = Children(p) \ {u}
  <2>1. childList[p] \in Seq(Page) /\ IsInjective(childList[p]) /\ i \in 1..Len(childList[p])
    BY <1>0, <1>3 DEF TypeOK, Pointers
  <2>2. childList'[p] = RemoveAt(childList[p], i)
    BY <1>0, <1>3 DEF TypeOK
  <2> QED
    BY <1>3, <2>1, <2>2, RemoveAtFacts, RemoveAtSet DEF Children
<1>6. \A q \in Page : /\ q # p => childList'[q] = childList[q] /\ Children(q)' = Children(q)
                      /\ Children(q)' \subseteq Children(q)
                      /\ IsInjective(childList'[q])
  BY <1>0, <1>3, <1>5 DEF TypeOK, Children, Pointers
<1>7. TypeOK'
  <2>1. childList' \in [Page -> Seq(Page)]
    BY <1>0, <1>3, <1>5, <1>6 DEF TypeOK
  <2>2. answer' \in Answers
    BY <1>0, <1>4 DEF TypeOK, Answers
  <2>3. pc' \in [Page -> Label]
    BY <1>0, <1>1 DEF TypeOK, Label
  <2> QED
    BY <1>0, <1>1, <1>4, <2>1, <2>2, <2>3 DEF TypeOK
<1>8. \A q \in Page : /\ pc'[q] = IF q = p THEN "wait_up" ELSE pc[q]
                      /\ child[q] # NULL => child[q] \in Page
                      /\ Children(q) \subseteq Page
  BY <1>0, <1>1 DEF TypeOK, Children, ToSet
<1>9. pc[p] = "wait_read" /\ child' = child
  BY <1>1
<1>10. Tids'
  BY <1>0, <1>1, <1>8, <1>9 DEF Tids
<1>11. \A v \in Page : Unreaped(v)' <=> Unreaped(v)
  BY <1>1, <1>8, <1>9 DEF Unreaped
<1>12. Pointers'
  <2>1. \A q \in Page :
          /\ child'[q] = NULL <=> pc'[q] \notin InCall
          /\ pc'[q] \in InWait => child'[q] \in Children(q)'
    BY <1>0, <1>6, <1>8, <1>9 DEF Pointers, InCall, InWait
  <2>2. \A q, v \in Page : child'[q] = v \/ v \in Children(q)' => Unreaped(v)'
    BY <1>0, <1>6, <1>9, <1>11, ProcessAssumption DEF Pointers
  <2>3. \A q, r \in Page :
          /\ q # r => Children(q)' \intersect Children(r)' = {}
          /\ child'[q] = child'[r] /\ child'[q] # NULL => q = r
    BY <1>0, <1>6, <1>9 DEF Pointers
  <2>4. \A q, r \in Page : child'[q] \in Children(r)' => q = r /\ pc'[q] \in InWait
    BY <1>0, <1>2, <1>5, <1>6, <1>8, <1>9 DEF Pointers
  <2>5. \A q \in Page : Children(q)' \subseteq Page
    BY <1>6, <1>8
  <2> QED
    BY <1>6, <1>8, <1>9, <2>1, <2>2, <2>3, <2>4, <2>5 DEF Pointers
<1>13. \A q \in Page : Told(q)' = Told(q) /\ Heard(q)' = Heard(q)
  BY <1>8, <1>9 DEF Told, Heard
<1>14. Messages'
  <2>1. \A v \in Page : pc'[v] # "free" => childSema'[v].value <= Told(v)'
    BY <1>0, <1>1, <1>8, <1>9, <1>13 DEF Messages
  <2>2. \A q, v \in Page : child'[q] = v => childSema'[v].value = Told(v)' - Heard(q)'
    BY <1>0, <1>1, <1>13, ProcessAssumption DEF Messages
  <2>3. \A q \in Page : \A v \in Children(q)' : child'[q] # v => childSema'[v].value = Told(v)' - 1
    BY <1>0, <1>1, <1>6, <1>8, <1>13 DEF Messages
  <2> QED
    BY <1>8, <1>9, <2>1, <2>2, <2>3 DEF Messages
<1> QED
  BY <1>7, <1>10, <1>12, <1>14 DEF IInv

\* The parent lets its child go.
LEMMA WaitUpIInv == ASSUME IInv, NEW p \in Page, WaitUp(p) PROVE IInv'
<1>0. TypeOK /\ Tids /\ Pointers /\ Messages
  BY DEF IInv
<1>1. /\ pc[p] = "wait_up" /\ pc' = [pc EXCEPT ![p] = "run"]
      /\ child' = [child EXCEPT ![p] = NULL]
      /\ UNCHANGED <<tid, childList, childSema, flag, exit_status, answer, task, next_tid>>
  BY DEF WaitUp, At, Goto
<1>2. PICK u \in Page : u = child[p]
  BY <1>0, <1>1 DEF Pointers, TypeOK, InCall
<1>3. u # NULL /\ memSema' = [memSema EXCEPT ![u] = Raised(memSema[u])]
  BY <1>2, ProcessAssumption DEF WaitUp
<1>4. \A q \in Page : u \notin Children(q) /\ (child[q] = u => q = p)
  BY <1>0, <1>1, <1>2, <1>3 DEF Pointers, InWait
<1>5. memSema[u].value = 0 /\ memSema[u] \in Semaphores(Page)
  BY <1>0, <1>2, <1>3 DEF Pointers, Unreaped, TypeOK
<1>6. Raised(memSema[u]) \in Semaphores(Page) /\ Raised(memSema[u]).value = 1
  BY <1>5, SemaOps
<1>7. TypeOK'
  <2>1. /\ memSema' \in [Page -> Semaphores(Page)]
        /\ \A q \in Page : memSema'[q].value <= 1
    BY <1>0, <1>3, <1>6 DEF TypeOK
  <2>2. pc' \in [Page -> Label] /\ child' \in [Page -> Page \union {NULL}]
    BY <1>0, <1>1 DEF TypeOK, Label
  <2> QED
    BY <1>0, <1>1, <2>1, <2>2 DEF TypeOK
<1>8. \A q \in Page : /\ pc'[q] = IF q = p THEN "run" ELSE pc[q]
                      /\ child'[q] = IF q = p THEN NULL ELSE child[q]
                      /\ child[q] # NULL => child[q] \in Page
                      /\ Children(q)' = Children(q)
                      /\ Children(q) \subseteq Page
                      /\ q # u => memSema'[q].value = memSema[q].value
  BY <1>0, <1>1, <1>3 DEF TypeOK, Children, ToSet
<1>9. pc[p] = "wait_up"
  BY <1>1
<1>10. Tids'
  BY <1>0, <1>1, <1>8, <1>9 DEF Tids
<1>11. \A v \in Page : v # u => (Unreaped(v)' <=> Unreaped(v))
  BY <1>8, <1>9 DEF Unreaped
<1>12. Pointers'
  <2>1. \A q \in Page :
          /\ IsInjective(childList'[q])
          /\ child'[q] = NULL <=> pc'[q] \notin InCall
          /\ pc'[q] \in InWait => child'[q] \in Children(q)'
    BY <1>0, <1>1, <1>8, <1>9 DEF Pointers, InCall, InWait
  <2>2. \A q, v \in Page : child'[q] = v \/ v \in Children(q)' => Unreaped(v)'
    BY <1>0, <1>4, <1>8, <1>11, ProcessAssumption DEF Pointers
  <2>3. \A q, r \in Page :
          /\ q # r => Children(q)' \intersect Children(r)' = {}
          /\ child'[q] = child'[r] /\ child'[q] # NULL => q = r
          /\ child'[q] \in Children(r)' => q = r /\ pc'[q] \in InWait
    BY <1>0, <1>8, ProcessAssumption DEF Pointers
  <2> QED
    BY <1>8, <2>1, <2>2, <2>3 DEF Pointers
<1>13. \A q \in Page : Told(q)' = Told(q) /\ (q # p => Heard(q)' = Heard(q))
  BY <1>8, <1>9 DEF Told, Heard
<1>14. Messages'
  <2>1. \A v \in Page : pc'[v] # "free" => childSema'[v].value <= Told(v)'
    BY <1>0, <1>1, <1>8, <1>9, <1>13 DEF Messages
  <2>2. \A q, v \in Page : child'[q] = v => childSema'[v].value = Told(v)' - Heard(q)'
    BY <1>0, <1>1, <1>8, <1>13, ProcessAssumption DEF Messages
  <2>3. \A q \in Page : \A v \in Children(q)' : child'[q] # v => childSema'[v].value = Told(v)' - 1
    BY <1>0, <1>1, <1>2, <1>4, <1>8, <1>13 DEF Messages
  <2> QED
    BY <1>8, <2>1, <2>2, <2>3 DEF Messages
<1> QED
  BY <1>7, <1>10, <1>12, <1>14 DEF IInv

\* A process goes, or sleeps until its parent lets it go.
LEMMA ExitDownIInv == ASSUME IInv, NEW p \in Page, ExitDown(p) PROVE IInv'
<1>0. TypeOK /\ Tids /\ Pointers /\ Messages
  BY DEF IInv
<1>1. /\ pc[p] = "exit_down"
      /\ UNCHANGED <<tid, childList, childSema, flag, exit_status, child, answer, task, next_tid>>
  BY DEF ExitDown, At
<1>2. memSema[p] \in Semaphores(Page) /\ memSema[p].value \in Nat /\ memSema[p].value <= 1
  BY <1>0, SemaOps DEF TypeOK
<1>3. \A q \in Page : /\ child[q] # NULL => child[q] \in Page
                      /\ Children(q)' = Children(q)
                      /\ Children(q) \subseteq Page
  BY <1>0, <1>1 DEF TypeOK, Children, ToSet
<1>4. CASE IsZero(memSema[p])
  <2>1. memSema' = [memSema EXCEPT ![p] = Enqueued(memSema[p], p)] /\ pc' = pc
    BY <1>4 DEF ExitDown
  <2>2. Enqueued(memSema[p], p) \in Semaphores(Page) /\ Enqueued(memSema[p], p).value = memSema[p].value
    BY <1>2, SemaOps
  <2>3. \A q \in Page : memSema'[q].value = memSema[q].value
    BY <1>0, <2>1, <2>2 DEF TypeOK
  <2>4. TypeOK'
    BY <1>0, <1>1, <2>1, <2>2, <2>3 DEF TypeOK
  <2>5. Tids'
    BY <1>0, <1>1, <2>1 DEF Tids
  <2>6. \A v \in Page : Unreaped(v)' <=> Unreaped(v)
    BY <2>1, <2>3 DEF Unreaped
  <2>7. Pointers'
    BY <1>0, <1>1, <1>3, <2>1, <2>6 DEF Pointers
  <2>8. \A q \in Page : Told(q)' = Told(q) /\ Heard(q)' = Heard(q)
    BY <2>1 DEF Told, Heard
  <2>9. Messages'
    BY <1>0, <1>1, <1>3, <2>1, <2>8 DEF Messages
  <2> QED
    BY <2>4, <2>5, <2>7, <2>9 DEF IInv
<1>5. CASE ~IsZero(memSema[p])
  <2>1. memSema' = [memSema EXCEPT ![p] = Lowered(memSema[p])] /\ Goto(p, "dying")
    BY <1>5 DEF ExitDown
  <2>2. memSema[p].value # 0
    BY <1>5 DEF IsZero
  <2>3. Lowered(memSema[p]) \in Semaphores(Page) /\ Lowered(memSema[p]).value = memSema[p].value - 1
    BY <1>2, <2>2, SemaOps
  <2>4. \A q \in Page : /\ memSema'[q].value = IF q = p THEN memSema[p].value - 1 ELSE memSema[q].value
                        /\ pc'[q] = IF q = p THEN "dying" ELSE pc[q]
    BY <1>0, <2>1, <2>3 DEF TypeOK, Goto
  <2>5. TypeOK'
    <3>1. /\ memSema' \in [Page -> Semaphores(Page)]
          /\ \A q \in Page : memSema'[q].value <= 1
      BY <1>0, <1>2, <2>1, <2>3, <2>4 DEF TypeOK
    <3>2. pc' \in [Page -> Label]
      BY <1>0, <2>1 DEF TypeOK, Goto, Label
    <3> QED
      BY <1>0, <1>1, <3>1, <3>2 DEF TypeOK
  <2>6. Tids'
    BY <1>0, <1>1, <2>4 DEF Tids
  <2>7. \A q \in Page : child[q] # p /\ p \notin Children(q)
    BY <1>0, <2>2, ProcessAssumption DEF Pointers, Unreaped
  <2>8. \A v \in Page : v # p => (Unreaped(v)' <=> Unreaped(v))
    BY <2>4 DEF Unreaped
  <2>9. \A q \in Page : /\ pc'[q] \in InCall <=> pc[q] \in InCall
                        /\ pc'[q] \in InWait <=> pc[q] \in InWait
                        /\ pc'[q] = "free" <=> pc[q] = "free"
    BY <1>1, <2>4 DEF InCall, InWait
  <2>10. Pointers'
    BY <1>0, <1>1, <1>3, <2>7, <2>8, <2>9 DEF Pointers
  <2>11. Told(p)' = Told(p) /\ Heard(p)' = Heard(p)
    BY <1>1, <2>4 DEF Told, Heard
  <2>12. Messages'
    BY <1>0, <1>1, <2>1, <2>11, NoMessage
  <2> QED
    BY <2>5, <2>6, <2>10, <2>12 DEF IInv
<1> QED
  BY <1>4, <1>5

\* The page of a dying thread, to which nobody points, is freed.
LEMMA DieIInv == ASSUME IInv, NEW p \in Page, Die(p) PROVE IInv'
<1>0. TypeOK /\ Tids /\ Pointers /\ Messages
  BY DEF IInv
<1>1. /\ pc[p] = "dying" /\ pc' = [pc EXCEPT ![p] = "free"]
      /\ tid' = [tid EXCEPT ![p] = 0]
      /\ childList' = [childList EXCEPT ![p] = <<>>]
      /\ UNCHANGED <<childSema, memSema, child, next_tid>>
  BY DEF Die, At, Goto
<1>2. \A q \in Page : /\ pc'[q] = IF q = p THEN "free" ELSE pc[q]
                      /\ tid'[q] = IF q = p THEN 0 ELSE tid[q]
                      /\ childList'[q] = IF q = p THEN <<>> ELSE childList[q]
                      /\ Children(q)' = IF q = p THEN {} ELSE Children(q)
                      /\ Children(q) \subseteq Page
                      /\ child[q] # NULL => child[q] \in Page
  BY <1>0, <1>1 DEF TypeOK, Children, ToSet
<1>3. TypeOK'
  <2>1. tid' \in [Page -> Tid \union {0}] /\ pc' \in [Page -> Label]
    BY <1>0, <1>1 DEF TypeOK, Label
  <2>2. childList' \in [Page -> Seq(Page)]
    BY <1>0, <1>1 DEF TypeOK
  <2>3. flag' \in [Page -> BOOLEAN] /\ exit_status' \in [Page -> ExitStatus \union {0}]
        /\ answer' = answer /\ task' = task
    BY <1>0 DEF TypeOK, Die
  <2> QED
    BY <1>0, <1>1, <2>1, <2>2, <2>3 DEF TypeOK
<1>4. 0 < next_tid
  BY <1>0 DEF TypeOK
<1>5. pc[p] = "dying" /\ childSema' = childSema /\ child' = child /\ next_tid' = next_tid
  BY <1>1
<1>6. Tids'
  BY <1>0, <1>2, <1>4, <1>5 DEF Tids
<1>7. \A q \in Page : child[q] # p /\ p \notin Children(q)
  BY <1>0, <1>5, ProcessAssumption DEF Pointers, Unreaped
<1>8. \A v \in Page : v # p => (Unreaped(v)' <=> Unreaped(v))
  BY <1>1, <1>2 DEF Unreaped
<1>9. \A q \in Page : IsInjective(childList'[q])
  BY <1>0, <1>2 DEF Pointers, IsInjective
<1>10. \A q \in Page : /\ pc'[q] \in InCall <=> pc[q] \in InCall
                       /\ pc'[q] \in InWait <=> pc[q] \in InWait
  BY <1>2, <1>5 DEF InCall, InWait
<1>11. child[p] = NULL
  BY <1>0, <1>5 DEF Pointers, InCall
<1>12. Pointers'
  <2>1. \A q \in Page :
          /\ child'[q] = NULL <=> pc'[q] \notin InCall
          /\ pc'[q] \in InWait => child'[q] \in Children(q)'
    BY <1>0, <1>2, <1>5, <1>10 DEF Pointers, InWait
  <2>2. \A q, v \in Page : child'[q] = v \/ v \in Children(q)' => Unreaped(v)'
    BY <1>0, <1>2, <1>5, <1>7, <1>8, ProcessAssumption DEF Pointers
  <2>3. \A q, r \in Page :
          /\ q # r => Children(q)' \intersect Children(r)' = {}
          /\ child'[q] = child'[r] /\ child'[q] # NULL => q = r
          /\ child'[q] \in Children(r)' => q = r /\ pc'[q] \in InWait
    BY <1>0, <1>2, <1>5, <1>10 DEF Pointers
  <2> QED
    BY <1>2, <1>5, <1>9, <2>1, <2>2, <2>3 DEF Pointers
<1>13. \A q \in Page : q # p => Told(q)' = Told(q) /\ Heard(q)' = Heard(q)
  BY <1>2 DEF Told, Heard
<1>14. Messages'
  <2>1. \A v \in Page : pc'[v] # "free" => childSema'[v].value <= Told(v)'
    BY <1>0, <1>2, <1>5, <1>13 DEF Messages
  <2>2. \A q, v \in Page : child'[q] = v => childSema'[v].value = Told(v)' - Heard(q)'
    BY <1>0, <1>5, <1>7, <1>11, <1>13, ProcessAssumption DEF Messages
  <2>3. \A q \in Page : \A v \in Children(q)' : child'[q] # v => childSema'[v].value = Told(v)' - 1
    BY <1>0, <1>2, <1>5, <1>7, <1>13 DEF Messages
  <2> QED
    BY <1>2, <1>5, <2>1, <2>2, <2>3 DEF Messages
<1> QED
  BY <1>3, <1>6, <1>12, <1>14 DEF IInv

\* Every step keeps IInv: one step of the proof for each action.
LEMMA NextIInv == IInv /\ [Next]_vars => IInv'
<1> SUFFICES ASSUME IInv, [Next]_vars PROVE IInv'
  OBVIOUS
<1>0. TypeOK /\ Tids /\ Pointers /\ Messages
  BY DEF IInv
\* The steps that move a thread inside user code, load() or exit.
<1>1. ASSUME NEW p \in Page, NEW l \in {"run", "run_task", "loaded", "exit_up"},
             pc[p] \in {"run", "run_task", "load"}, Goto(p, l),
             pc[p] = "load" <=> l = "loaded",
             UNCHANGED <<tid, childList, childSema, memSema, child, next_tid>>,
             flag' \in [Page -> BOOLEAN],
             exit_status' \in [Page -> ExitStatus \union {0}],
             answer' \in Answers, task' \in Tid \union {0, -1}
      PROVE  IInv'
  <2>1. pc' \in [Page -> Label]
    BY <1>0, <1>1 DEF TypeOK, Goto, Label
  <2>2. TypeOK'
    BY <1>0, <1>1, <2>1 DEF TypeOK
  <2>3. Tids' /\ Pointers'
    BY <1>0, <1>1, InPlace DEF InCall, InWait
  <2>4. pc'[p] = l
    BY <1>0, <1>1 DEF TypeOK, Goto
  <2>5. Told(p)' = Told(p) /\ Heard(p)' = Heard(p)
    BY <1>1, <2>4 DEF Told, Heard
  <2>6. Messages'
    BY <1>0, <1>1, <2>5, NoMessage
  <2> QED
    BY <2>2, <2>3, <2>6 DEF IInv
\* The steps that raise childSema.
<1>2. ASSUME NEW p \in Page, NEW l \in {"run", "exit_up", "exit_down"},
             pc[p] \in {"loaded", "exit_up"}, Goto(p, l), pc[p] = "exit_up" <=> l = "exit_down",
             childSema' = [childSema EXCEPT ![p] = Raised(@)],
             UNCHANGED <<tid, childList, memSema, flag, exit_status, child, answer, task, next_tid>>
      PROVE  IInv'
  <2>1. Tids' /\ Pointers'
    BY <1>0, <1>2, InPlace DEF InCall, InWait
  <2>2. pc'[p] = l
    BY <1>0, <1>2 DEF TypeOK, Goto
  <2>3. Told(p)' = Told(p) + 1 /\ Heard(p)' = Heard(p)
    BY <1>2, <2>2 DEF Told, Heard
  <2>4. /\ Messages' /\ childSema' \in [Page -> Semaphores(Page)]
        /\ \A q \in Page : childSema'[q].value <= 2
    BY <1>0, <1>2, <2>3, Tell
  <2>5. pc' \in [Page -> Label]
    BY <1>0, <1>2 DEF TypeOK, Goto, Label
  <2>6. TypeOK'
    BY <1>0, <1>2, <2>4, <2>5 DEF TypeOK
  <2> QED
    BY <2>1, <2>4, <2>6 DEF IInv
<1>3. /\ flag \in [Page -> BOOLEAN] /\ exit_status \in [Page -> ExitStatus \union {0}]
      /\ answer \in Answers /\ task \in Tid \union {0, -1}
  BY <1>0 DEF TypeOK
<1>4. ASSUME NEW p \in Page, ExecuteFails(p) PROVE IInv'
  <2>1. answer' \in Answers /\ task' \in Tid \union {0, -1}
    BY <1>0, <1>4 DEF ExecuteFails, ExecuteAnswer, Return, Answers, TypeOK
  <2> QED
    BY <1>1, <1>3, <1>4, <2>1 DEF ExecuteFails, At, Caller
<1>5. ASSUME NEW p \in Page, Load(p) PROVE IInv'
  BY <1>1, <1>3, <1>5 DEF Load, At
<1>6. ASSUME NEW p \in Page, Loaded(p) PROVE IInv'
  BY <1>2, <1>6 DEF Loaded, At
<1>7. ASSUME NEW p \in Page, ExecuteDown(p) \/ WaitDown(p) PROVE IInv'
  BY <1>7, Hear DEF ExecuteDown, WaitDown
<1>8. ASSUME NEW p \in Page, NEW arg \in Tid \union {0, -1}, ProcessWait(p, arg),
             task' \in Tid \union {0, -1}
      PROVE  IInv'
  <2>1. CASE WaitFindsNobody(p, arg)
    <3>1. answer' \in Answers
      BY <1>0, <2>1 DEF WaitFindsNobody, Return, Answers, TypeOK
    <3> QED
      BY <1>1, <1>3, <1>8, <2>1, <3>1 DEF WaitFindsNobody, At
  <2> QED
    BY <1>8, <2>1, WaitFindsIInv DEF ProcessWait
<1>9. ASSUME NEW p \in Page, NEW status \in ExitStatus, Exit(p, status) PROVE IInv'
  BY <1>1, <1>3, <1>9 DEF Exit, At
<1>10. ASSUME NEW p \in Page, ExitWithoutStatus(p) PROVE IInv'
  BY <1>1, <1>3, <1>10 DEF ExitWithoutStatus, At
<1>11. ASSUME NEW p \in Page, ExitUp(p) PROVE IInv'
  BY <1>2, <1>11 DEF ExitUp, At
<1>12. CASE UNCHANGED vars
  BY <1>0, <1>12 DEF vars, IInv, TypeOK, Tids, Pointers, Messages, Unreaped, Children, Told, Heard
<1>13. ASSUME NEW p \in Page, Calls(p) PROVE IInv'
  BY <1>3, <1>4, <1>8, <1>9, <1>10, <1>13, ExecuteIInv DEF Calls, UserWait
<1>14. ASSUME NEW p \in Page, InKernel(p) PROVE IInv'
  BY <1>3, <1>5, <1>6, <1>7, <1>8, <1>11, <1>14, ExecuteReturnsIInv, WaitReadIInv, WaitUpIInv, ExitDownIInv, DieIInv
     DEF InKernel, TaskWait
<1> QED
  BY <1>12, <1>13, <1>14 DEF Next

----------------------------------------------------------------------------
(* A second invariant, on top of IInv: which threads have run a program.   *)

\* Who runs has loaded, or is initial_thread; so has every child on a list, but
\* initial_thread and the idle thread; who has not come to its end has no status.
Ran ==
    /\ tid[Main] = 1 /\ pc[Main] \notin {"free", "load", "loaded"} /\ pc[Idle] = "idle"
    /\ pc[Main] = "run_task" => task \in Tid \union {-1}
    /\ \A p \in Page :
          /\ pc[p] = "run_task" => p = Main
          /\ pc[p] \in {"run", "run_task"} \union InCall => p = Main \/ flag[p]
          /\ pc[p] \notin Exiting => exit_status[p] = 0
          /\ \A u \in Children(p) : u \in {Main, Idle} \/ flag[u]

LEMMA InitRan == Init => Ran
<1> SUFFICES ASSUME Init PROVE Ran
  OBVIOUS
<1>1. Main \in Page /\ Idle \in Page /\ Main # Idle
  BY ProcessAssumption
<1>2. \A p \in Page : Children(p) = IF p = Main THEN {Main, Idle} ELSE {}
  BY <1>1 DEF Init, Children, ToSet
<1>3. \A p \in Page : pc[p] = IF p = Main THEN "run" ELSE IF p = Idle THEN "idle" ELSE "free"
  BY <1>1 DEF Init
<1>4. tid[Main] = 1 /\ \A p \in Page : exit_status[p] = 0
  BY <1>1 DEF Init
<1> QED
  BY <1>1, <1>2, <1>3, <1>4 DEF Ran, InCall

\* The child that execute waits for is on no list before it has told.
LEMMA NotYetAChild ==
    ASSUME IInv, NEW u \in Page, pc[u] \in {"load", "loaded"}
    PROVE  \A q \in Page : u \notin Children(q)
<1>0. TypeOK /\ Pointers /\ Messages
  BY DEF IInv
<1> SUFFICES ASSUME NEW q \in Page, u \in Children(q) PROVE FALSE
  OBVIOUS
<1>1. Told(u) = 0 /\ childSema[u].value \in Nat /\ u # NULL
  BY <1>0, SemaOps, ProcessAssumption DEF Told, TypeOK
<1>2. CASE child[q] = u
  <2>1. pc[q] \in InWait /\ childSema[u].value = Told(u) - Heard(q)
    BY <1>0, <1>1, <1>2 DEF Pointers, Messages
  <2>2. Heard(q) \in {1, 2}
    BY <2>1 DEF Heard, InWait
  <2> QED
    BY <1>1, <2>1, <2>2
<1>3. CASE child[q] # u
  <2>1. childSema[u].value = Told(u) - 1
    BY <1>0, <1>3 DEF Messages
  <2> QED
    BY <1>1, <2>1
<1> QED
  BY <1>2, <1>3

LEMMA NextRan == IInv /\ Ran /\ [Next]_vars => Ran'
<1> SUFFICES ASSUME IInv, Ran, [Next]_vars PROVE Ran'
  OBVIOUS
<1>0. TypeOK /\ Tids /\ Pointers /\ Main \in Page /\ Idle \in Page /\ Main # Idle
  BY ProcessAssumption DEF IInv
\* A step of one thread that leaves every flag alone.
<1>1. ASSUME NEW p \in Page, NEW l, Goto(p, l), pc[p] # "idle", UNCHANGED <<tid, flag>>,
             l \notin {"free", "load", "loaded"},
             p # Main => task' = task,
             l = "run_task" => p = Main /\ task' \in Tid \union {-1},
             l \in {"run", "run_task"} \union InCall => p = Main \/ flag[p],
             l \notin Exiting => exit_status'[p] = 0,
             \A q \in Page : q # p => exit_status'[q] = exit_status[q],
             \A q \in Page : \A u \in Children(q)' : u \in Children(q) \/ flag[u]
      PROVE  Ran'
  <2>1. \A q \in Page : pc'[q] = IF q = p THEN l ELSE pc[q]
    BY <1>0, <1>1 DEF TypeOK, Goto
  <2>2. tid'[Main] = 1 /\ pc'[Main] \notin {"free", "load", "loaded"} /\ pc'[Idle] = "idle"
    BY <1>0, <1>1, <2>1 DEF Ran
  <2>3. pc'[Main] = "run_task" => task' \in Tid \union {-1}
    BY <1>0, <1>1, <2>1 DEF Ran
  <2>4. ASSUME NEW q \in Page
        PROVE  /\ pc'[q] = "run_task" => q = Main
               /\ pc'[q] \in {"run", "run_task"} \union InCall => q = Main \/ flag'[q]
               /\ pc'[q] \notin Exiting => exit_status'[q] = 0
               /\ \A u \in Children(q)' : u \in {Main, Idle} \/ flag'[u]
    BY <1>1, <2>1 DEF Ran
  <2> QED
    BY <2>2, <2>3, <2>4 DEF Ran
<1>2. childList' = childList => \A q \in Page : Children(q)' = Children(q)
  BY DEF Children
<1>3. ASSUME NEW p \in Page, ExecuteFails(p) PROVE Ran'
  <2>1. /\ pc[p] = "run" /\ Goto(p, Caller(p)) /\ UNCHANGED <<tid, flag, exit_status, childList>>
        /\ task' = IF p = Main THEN -1 ELSE task
    BY <1>3 DEF ExecuteFails, ExecuteAnswer, At
  <2>2. /\ Caller(p) \in {"run", "run_task"} /\ (Caller(p) = "run_task" => p = Main)
        /\ (p = Main \/ flag[p]) /\ exit_status[p] = 0
    BY <2>1 DEF Caller, Ran, Exiting
  <2> QED
    BY <1>1, <1>2, <2>1, <2>2
<1>4. ASSUME NEW p \in Page, NEW u \in Page, Execute(p, u) PROVE Ran'
  <2>1. /\ pc[p] = "run" /\ pc[u] = "free" /\ p # u /\ task' = task
        /\ tid' = [tid EXCEPT ![u] = next_tid]
        /\ childList' = [childList EXCEPT ![u] = <<>>]
        /\ flag' = [flag EXCEPT ![u] = FALSE]
        /\ exit_status' = [exit_status EXCEPT ![u] = 0]
        /\ pc' = [pc EXCEPT ![p] = "exec_down", ![u] = "load"]
    BY <1>4 DEF Execute, At
  <2>2. u # Main /\ u # Idle /\ p # Idle
    BY <2>1 DEF Ran
  <2>3. \A q \in Page : /\ pc'[q] = IF q = p THEN "exec_down" ELSE IF q = u THEN "load" ELSE pc[q]
                        /\ exit_status'[q] = IF q = u THEN 0 ELSE exit_status[q]
                        /\ q # u => flag'[q] = flag[q] /\ tid'[q] = tid[q]
                        /\ Children(q)' = IF q = u THEN {} ELSE Children(q)
                        /\ Children(q) \subseteq Page
    <3>1. \A q \in Page : /\ pc'[q] = IF q = p THEN "exec_down" ELSE IF q = u THEN "load" ELSE pc[q]
                          /\ exit_status'[q] = IF q = u THEN 0 ELSE exit_status[q]
                          /\ q # u => flag'[q] = flag[q] /\ tid'[q] = tid[q]
      BY <1>0, <2>1 DEF TypeOK
    <3>2. \A q \in Page : childList[q] \in Seq(Page) /\ childList'[q] = IF q = u THEN <<>> ELSE childList[q]
      BY <1>0, <2>1 DEF TypeOK
    <3>3. \A q \in Page : Children(q)' = IF q = u THEN {} ELSE Children(q)
      BY <3>2 DEF Children, ToSet
    <3>4. \A q \in Page : Children(q) \subseteq Page
      BY <3>2 DEF Children, ToSet
    <3> QED
      BY <3>1, <3>3, <3>4
  <2>4. \A q \in Page : u \notin Children(q)
    BY <1>0, <2>1 DEF Pointers, Unreaped
  <2>5. p # u /\ pc[p] = "run" /\ task' = task
    BY <2>1
  <2>6. tid'[Main] = 1 /\ pc'[Main] \notin {"free", "load", "loaded"} /\ pc'[Idle] = "idle"
    BY <1>0, <2>2, <2>3, <2>5 DEF Ran
  <2>7. pc'[Main] = "run_task" => task' \in Tid \union {-1}
    BY <1>0, <2>2, <2>3, <2>5 DEF Ran
  <2>8. ASSUME NEW q \in Page
        PROVE  /\ pc'[q] = "run_task" => q = Main
               /\ pc'[q] \in {"run", "run_task"} \union InCall => q = Main \/ flag'[q]
               /\ pc'[q] \notin Exiting => exit_status'[q] = 0
               /\ \A v \in Children(q)' : v \in {Main, Idle} \/ flag'[v]
    BY <2>3, <2>4, <2>5 DEF Ran, InCall, Exiting
  <2> QED
    BY <2>6, <2>7, <2>8 DEF Ran
<1>5. ASSUME NEW u \in Page, Load(u) PROVE Ran'
  <2>1. /\ pc[u] = "load" /\ pc' = [pc EXCEPT ![u] = "loaded"]
        /\ UNCHANGED <<tid, childList, exit_status, task>>
    BY <1>5 DEF Load, At, Goto
  <2>2. \A q \in Page : u \notin Children(q)
    BY <2>1, NotYetAChild
  <2>3. u # Main /\ u # Idle /\ pc[u] = "load"
    BY <2>1 DEF Ran
  <2>4. \A q \in Page : /\ pc'[q] = IF q = u THEN "loaded" ELSE pc[q]
                        /\ q # u => flag'[q] = flag[q]
                        /\ Children(q)' = Children(q) /\ Children(q) \subseteq Page
    BY <1>0, <1>5, <2>1 DEF TypeOK, Load, Children, ToSet
  <2> QED
    BY <1>0, <2>1, <2>2, <2>3, <2>4 DEF Ran, InCall, Exiting
<1>6. ASSUME NEW u \in Page, Loaded(u) PROVE Ran'
  <2>1. /\ pc[u] = "loaded" /\ Goto(u, IF flag[u] THEN "run" ELSE "exit_up")
        /\ UNCHANGED <<tid, childList, flag, exit_status, task>>
    BY <1>6 DEF Loaded, At
  <2>2. exit_status[u] = 0
    BY <2>1 DEF Ran, Exiting
  <2> QED
    BY <1>1, <1>2, <2>1, <2>2 DEF InCall
<1>7. ASSUME NEW p \in Page, NEW from \in {"exec_down", "wait_down"},
             NEW to \in {"exec_flag", "wait_read"}, DownChildSema(p, from, to)
      PROVE  Ran'
  <2>1. pc[p] = from /\ UNCHANGED <<tid, childList, flag, exit_status, task>>
        /\ (pc' = pc \/ Goto(p, to))
    BY <1>7 DEF DownChildSema, At
  <2>2. (p = Main \/ flag[p]) /\ exit_status[p] = 0 /\ pc[p] # "idle"
    BY <2>1 DEF Ran, InCall, Exiting
  <2>3. CASE Goto(p, to)
    BY <1>1, <1>2, <2>1, <2>2, <2>3
  <2>4. CASE pc' = pc
    BY <1>2, <2>1, <2>4 DEF Ran
  <2> QED
    BY <2>1, <2>3, <2>4
<1>8. ASSUME NEW p \in Page, ExecuteReturns(p) PROVE Ran'
  <2>1. /\ pc[p] = "exec_flag" /\ Goto(p, Caller(p)) /\ UNCHANGED <<tid, flag, exit_status>>
    BY <1>8 DEF ExecuteReturns, At
  <2>2. PICK u \in Page : u = child[p]
    BY <1>0, <2>1 DEF Pointers, TypeOK, InCall
  <2>3. /\ childList' = [childList EXCEPT ![p] = IF flag[u] THEN Append(@, u) ELSE @]
        /\ task' = IF p = Main THEN (IF flag[u] THEN tid[u] ELSE -1) ELSE task
    BY <1>8, <2>2 DEF ExecuteReturns, ExecuteAnswer
  <2>4. tid[u] \in Tid
    BY <1>0, <2>2, ProcessAssumption DEF Pointers, Unreaped, Tids, TypeOK
  <2>5. /\ Caller(p) \in {"run", "run_task"} /\ (Caller(p) = "run_task" => p = Main)
        /\ (p = Main \/ flag[p]) /\ exit_status[p] = 0
    BY <2>1 DEF Caller, Ran, InCall, Exiting
  <2>6. \A q \in Page : \A v \in Children(q)' : v \in Children(q) \/ flag[v]
    <3>1. \A q \in Page : childList'[q] = IF q = p /\ flag[u] THEN Append(childList[q], u) ELSE childList[q]
      BY <1>0, <2>3 DEF TypeOK
    <3>2. \A q \in Page : childList[q] \in Seq(Page)
      BY <1>0 DEF TypeOK
    <3> QED
      BY <2>2, <3>1, <3>2, AppendSet DEF Children
  <2> QED
    BY <1>1, <2>1, <2>3, <2>4, <2>5, <2>6
<1>9. ASSUME NEW p \in Page, NEW arg, ProcessWait(p, arg), p # Main => task' = task PROVE Ran'
  <2>1. /\ pc[p] \in {"run", "run_task"} /\ UNCHANGED <<tid, childList, flag, exit_status>>
        /\ (Goto(p, "run") \/ Goto(p, "wait_down"))
    BY <1>9 DEF ProcessWait, WaitFindsNobody, WaitFinds, At
  <2>2. (p = Main \/ flag[p]) /\ exit_status[p] = 0 /\ pc[p] # "idle"
    BY <2>1 DEF Ran, Exiting
  <2> QED
    BY <1>1, <1>2, <1>9, <2>1, <2>2 DEF InCall
<1>10. ASSUME NEW p \in Page, WaitRead(p) PROVE Ran'
  <2>1. /\ pc[p] = "wait_read" /\ Goto(p, "wait_up") /\ UNCHANGED <<tid, flag, exit_status, task>>
    BY <1>10 DEF WaitRead, At
  <2>2. (p = Main \/ flag[p]) /\ exit_status[p] = 0
    BY <2>1 DEF Ran, InCall, Exiting
  <2>3. PICK i \in DOMAIN childList[p] : childList' = [childList EXCEPT ![p] = RemoveAt(@, i)]
    BY <1>10 DEF WaitRead
  <2>4. Children(p)' \subseteq Children(p)
    <3>1. childList[p] \in Seq(Page) /\ IsInjective(childList[p]) /\ i \in 1..Len(childList[p])
      BY <1>0, <2>3 DEF TypeOK, Pointers
    <3>2. childList'[p] = RemoveAt(childList[p], i)
      BY <1>0, <2>3 DEF TypeOK
    <3> QED
      BY <3>1, <3>2, RemoveAtSet DEF Children
  <2>5. \A q \in Page : Children(q)' \subseteq Children(q)
    BY <1>0, <2>3, <2>4 DEF TypeOK, Children
  <2> QED
    BY <1>1, <2>1, <2>2, <2>5
<1>11. ASSUME NEW p \in Page, WaitUp(p) PROVE Ran'
  <2>1. /\ pc[p] = "wait_up" /\ Goto(p, "run") /\ UNCHANGED <<tid, childList, flag, exit_status, task>>
    BY <1>11 DEF WaitUp, At
  <2>2. (p = Main \/ flag[p]) /\ exit_status[p] = 0
    BY <2>1 DEF Ran, InCall, Exiting
  <2> QED
    BY <1>1, <1>2, <2>1, <2>2
<1>12. ASSUME NEW p \in Page, NEW l \in Exiting, Goto(p, l), pc[p] # "idle",
              UNCHANGED <<tid, childList, flag, task>>,
              \A q \in Page : q # p => exit_status'[q] = exit_status[q]
       PROVE  Ran'
  BY <1>1, <1>2, <1>12 DEF Exiting, InCall
<1>13. ASSUME NEW p \in Page, NEW status \in ExitStatus, Exit(p, status) PROVE Ran'
  <2>1. \A q \in Page : q # p => exit_status'[q] = exit_status[q]
    BY <1>0, <1>13 DEF Exit, TypeOK
  <2> QED
    BY <1>12, <1>13, <2>1 DEF Exit, At, Exiting
<1>14. ASSUME NEW p \in Page, ExitWithoutStatus(p) \/ ExitUp(p) PROVE Ran'
  BY <1>12, <1>14 DEF ExitWithoutStatus, ExitUp, At, Exiting
<1>15. ASSUME NEW p \in Page, ExitDown(p) PROVE Ran'
  <2>1. /\ pc[p] = "exit_down" /\ UNCHANGED <<tid, childList, flag, exit_status, task>>
        /\ (pc' = pc \/ Goto(p, "dying"))
    BY <1>15 DEF ExitDown, At
  <2>2. CASE Goto(p, "dying")
    BY <1>12, <2>1, <2>2 DEF Exiting
  <2>3. CASE pc' = pc
    BY <1>2, <2>1, <2>3 DEF Ran
  <2> QED
    BY <2>1, <2>2, <2>3
<1>16. ASSUME NEW p \in Page, Die(p) PROVE Ran'
  <2>1. /\ pc[p] = "dying" /\ p # Main /\ pc' = [pc EXCEPT ![p] = "free"] /\ task' = task
        /\ tid' = [tid EXCEPT ![p] = 0]
        /\ childList' = [childList EXCEPT ![p] = <<>>]
        /\ exit_status' = [exit_status EXCEPT ![p] = 0]
        /\ flag' = [flag EXCEPT ![p] = FALSE]
    BY <1>16 DEF Die, At, Goto
  <2>2. p # Idle /\ p # Main /\ pc[p] = "dying"
    BY <2>1 DEF Ran
  <2>3. \A q \in Page : p \notin Children(q)
    BY <1>0, <2>1 DEF Pointers, Unreaped
  <2>4. \A q \in Page : /\ pc'[q] = IF q = p THEN "free" ELSE pc[q]
                        /\ exit_status'[q] = IF q = p THEN 0 ELSE exit_status[q]
                        /\ q # p => flag'[q] = flag[q] /\ tid'[q] = tid[q]
                        /\ Children(q)' = IF q = p THEN {} ELSE Children(q)
                        /\ Children(q) \subseteq Page
    <3>1. \A q \in Page : /\ pc'[q] = IF q = p THEN "free" ELSE pc[q]
                          /\ exit_status'[q] = IF q = p THEN 0 ELSE exit_status[q]
                          /\ q # p => flag'[q] = flag[q] /\ tid'[q] = tid[q]
      BY <1>0, <2>1 DEF TypeOK
    <3>2. \A q \in Page : childList[q] \in Seq(Page) /\ childList'[q] = IF q = p THEN <<>> ELSE childList[q]
      BY <1>0, <2>1 DEF TypeOK
    <3>3. \A q \in Page : Children(q)' = IF q = p THEN {} ELSE Children(q)
      BY <3>2 DEF Children, ToSet
    <3>4. \A q \in Page : Children(q) \subseteq Page
      BY <3>2 DEF Children, ToSet
    <3> QED
      BY <3>1, <3>3, <3>4
  <2>5. tid'[Main] = 1 /\ pc'[Main] \notin {"free", "load", "loaded"} /\ pc'[Idle] = "idle"
    BY <1>0, <2>2, <2>4 DEF Ran
  <2>6. pc'[Main] = "run_task" => task' \in Tid \union {-1}
    BY <1>0, <2>1, <2>2, <2>4 DEF Ran
  <2>7. ASSUME NEW q \in Page
        PROVE  /\ pc'[q] = "run_task" => q = Main
               /\ pc'[q] \in {"run", "run_task"} \union InCall => q = Main \/ flag'[q]
               /\ pc'[q] \notin Exiting => exit_status'[q] = 0
               /\ \A v \in Children(q)' : v \in {Main, Idle} \/ flag'[v]
    BY <2>3, <2>4 DEF Ran, InCall
  <2> QED
    BY <2>5, <2>6, <2>7 DEF Ran
<1>17. CASE UNCHANGED vars
  <2>1. UNCHANGED <<tid, childList, flag, exit_status, pc, task>>
    BY <1>17 DEF vars
  <2> QED
    BY <1>2, <2>1 DEF Ran
<1>18. ASSUME NEW p \in Page, Calls(p) PROVE Ran'
  BY <1>3, <1>4, <1>9, <1>13, <1>14, <1>18 DEF Calls, UserWait
<1>19. ASSUME NEW p \in Page, InKernel(p) PROVE Ran'
  <2>1. TaskWait(p) => p = Main
    BY DEF TaskWait, At, Ran
  <2> QED
    BY <1>5, <1>6, <1>7, <1>8, <1>9, <1>10, <1>11, <1>14, <1>15, <1>16, <1>19, <2>1
       DEF InKernel, ExecuteDown, WaitDown, TaskWait
<1> QED
  BY <1>17, <1>18, <1>19 DEF Next

----------------------------------------------------------------------------
(* The refinement: what a step of Process is to ExecWait.                  *)

\* What ExecWait sees of a tid is what the page that has it shows.
LEMMA ByTidHere ==
    ASSUME NEW t \in Tid, NEW u \in Page, tid[u] = t, \A v \in Page : tid[v] = t => v = u,
           NEW f, NEW default
    PROVE  ByTid(f, t, default) = f[u]
  BY DEF ByTid

LEMMA ByTidNowhere ==
    ASSUME NEW t \in Tid, \A v \in Page : tid[v] # t, NEW f, NEW default
    PROVE  ByTid(f, t, default) = default
  BY DEF ByTid

\* The three variables of ExecWait that are functions, at one tid.
SeenAt(t, u) ==
    /\ LifeByTid[t] = LifeOf[u] /\ CodeByTid[t] = CodeOf[u]
    /\ ChildrenByTid[t] = TidsOf[u]
SeenNowhere(t) ==
    /\ LifeByTid[t] = IF t < next_tid THEN "gone" ELSE "unborn"
    /\ CodeByTid[t] = 0 /\ ChildrenByTid[t] = {}
Seen ==
    \A t \in Tid :
        /\ \A u \in Page : tid[u] = t => SeenAt(t, u)
        /\ (\A u \in Page : tid[u] # t) => SeenNowhere(t)

LEMMA SeenHolds == TypeOK /\ Tids => Seen
<1> SUFFICES ASSUME TypeOK, Tids, NEW t \in Tid
             PROVE  /\ \A u \in Page : tid[u] = t => SeenAt(t, u)
                    /\ (\A u \in Page : tid[u] # t) => SeenNowhere(t)
  BY DEF Seen
<1>1. t # 0
  BY DEF Tid
<1>2. ASSUME NEW u \in Page, tid[u] = t PROVE SeenAt(t, u)
  <2>1. \A v \in Page : tid[v] = t => v = u
    BY <1>1, <1>2 DEF Tids
  <2> QED
    BY <1>2, <2>1, ByTidHere DEF SeenAt, LifeByTid, CodeByTid, ChildrenByTid
<1>3. ASSUME \A u \in Page : tid[u] # t PROVE SeenNowhere(t)
  BY <1>3, ByTidNowhere DEF SeenNowhere, LifeByTid, CodeByTid, ChildrenByTid
<1> QED
  BY <1>2, <1>3

LEMMA SeenLater == TypeOK' /\ Tids' => Seen'
<1>1. TypeOK /\ Tids => Seen
  BY SeenHolds
<1> QED
  BY <1>1, PTL

\* A child of p, as a tid.
LEMMA TidsOfChildren ==
    TypeOK => \A p \in Page : TidsOf[p] = {tid[u] : u \in Children(p)}
  BY DEF TidsOf, Children, ToSet

LEMMA ByTidFunctions ==
    /\ LifeByTid = [t \in Tid |-> LifeByTid[t]] /\ LifeByTid' = [t \in Tid |-> LifeByTid'[t]]
    /\ CodeByTid = [t \in Tid |-> CodeByTid[t]] /\ CodeByTid' = [t \in Tid |-> CodeByTid'[t]]
    /\ ChildrenByTid = [t \in Tid |-> ChildrenByTid[t]] /\ ChildrenByTid' = [t \in Tid |-> ChildrenByTid'[t]]
  BY DEF LifeByTid, CodeByTid, ChildrenByTid

\* If the tids stay, and one page changes in what it shows, the variables of
\* ExecWait change at that page's tid only.
LEMMA OnePage ==
    ASSUME TypeOK, Tids, Seen, TypeOK', Tids', Seen', UNCHANGED <<tid, next_tid>>,
           NEW p \in Page, tid[p] # 0,
           \A u \in Page : u # p =>
              /\ LifeOf'[u] = LifeOf[u] /\ CodeOf'[u] = CodeOf[u]
              /\ TidsOf'[u] = TidsOf[u]
    PROVE  /\ tid[p] \in Tid
           /\ LifeByTid' = [LifeByTid EXCEPT ![tid[p]] = LifeOf'[p]]
           /\ CodeByTid' = [CodeByTid EXCEPT ![tid[p]] = CodeOf'[p]]
           /\ ChildrenByTid' = [ChildrenByTid EXCEPT ![tid[p]] = TidsOf'[p]]
           /\ LifeOf'[p] = LifeOf[p] => LifeByTid' = LifeByTid
           /\ CodeOf'[p] = CodeOf[p] => CodeByTid' = CodeByTid
           /\ TidsOf'[p] = TidsOf[p] => ChildrenByTid' = ChildrenByTid
<1>1. tid[p] \in Tid
  BY DEF TypeOK
<1>2. ASSUME NEW t \in Tid
      PROVE  /\ LifeByTid'[t] = IF t = tid[p] THEN LifeOf'[p] ELSE LifeByTid[t]
             /\ CodeByTid'[t] = IF t = tid[p] THEN CodeOf'[p] ELSE CodeByTid[t]
             /\ ChildrenByTid'[t] = IF t = tid[p] THEN TidsOf'[p] ELSE ChildrenByTid[t]
  <2>1. CASE \A u \in Page : tid[u] # t
    <3>1. SeenNowhere(t) /\ SeenNowhere(t)'
      BY <2>1 DEF Seen
    <3> QED
      BY <2>1, <3>1 DEF SeenNowhere
  <2>2. ASSUME NEW u \in Page, tid[u] = t
        PROVE  /\ LifeByTid'[t] = IF t = tid[p] THEN LifeOf'[p] ELSE LifeByTid[t]
               /\ CodeByTid'[t] = IF t = tid[p] THEN CodeOf'[p] ELSE CodeByTid[t]
               /\ ChildrenByTid'[t] = IF t = tid[p] THEN TidsOf'[p] ELSE ChildrenByTid[t]
    <3>1. SeenAt(t, u) /\ SeenAt(t, u)'
      BY <2>2 DEF Seen
    <3>2. t = tid[p] <=> u = p
      BY <2>2 DEF Tids
    <3> QED
      BY <3>1, <3>2 DEF SeenAt
  <2> QED
    BY <2>1, <2>2
<1>4. LifeByTid' = [LifeByTid EXCEPT ![tid[p]] = LifeOf'[p]]
  BY <1>1, <1>2, ByTidFunctions
<1>5. CodeByTid' = [CodeByTid EXCEPT ![tid[p]] = CodeOf'[p]]
  BY <1>1, <1>2, ByTidFunctions
<1>6. ChildrenByTid' = [ChildrenByTid EXCEPT ![tid[p]] = TidsOf'[p]]
  BY <1>1, <1>2, ByTidFunctions
<1>7. /\ LifeByTid[tid[p]] = LifeOf[p] /\ CodeByTid[tid[p]] = CodeOf[p]
      /\ ChildrenByTid[tid[p]] = TidsOf[p]
  BY <1>1 DEF Seen, SeenAt
<1>8. /\ LifeOf'[p] = LifeOf[p] => LifeByTid' = LifeByTid
      /\ CodeOf'[p] = CodeOf[p] => CodeByTid' = CodeByTid
      /\ TidsOf'[p] = TidsOf[p] => ChildrenByTid' = ChildrenByTid
  BY <1>2, <1>7, ByTidFunctions
<1> QED
  BY <1>1, <1>4, <1>5, <1>6, <1>8

AbstractStep == [Abstract!Next]_(Abstract!vars)

\* What the pages show, page by page.
LEMMA ShownBy ==
    \A u \in Page : /\ LifeOf[u] = IF pc[u] \notin Exiting THEN "alive"
                                   ELSE IF flag[u] \/ u = Main THEN "ended" ELSE "failed"
                    /\ CodeOf[u] = IF LifeOf[u] = "ended" THEN exit_status[u] ELSE 0
  BY DEF LifeOf, CodeOf

\* A step of one thread that ExecWait sees in no tid.
LEMMA SameShown ==
    ASSUME TypeOK, NEW p \in Page, NEW l,
           pc' = [pc EXCEPT ![p] = l], pc[p] \in Exiting <=> l \in Exiting,
           \A u \in Page : pc[u] \in Exiting => flag'[u] = flag[u],
           UNCHANGED <<tid, next_tid, childList, exit_status>>
    PROVE  LifeByTid' = LifeByTid /\ CodeByTid' = CodeByTid /\ ChildrenByTid' = ChildrenByTid
<1>1. \A u \in Page : pc'[u] \in Exiting <=> pc[u] \in Exiting
  BY DEF TypeOK
<1>2. LifeOf' = LifeOf
  BY <1>1 DEF LifeOf
<1>3. CodeOf' = CodeOf /\ TidsOf' = TidsOf
  BY <1>2 DEF CodeOf, TidsOf
<1> QED
  BY <1>2, <1>3 DEF LifeByTid, CodeByTid, ChildrenByTid, ByTid

\* A step that answers nobody either.
LEMMA Unseen ==
    ASSUME TypeOK, NEW p \in Page, NEW l,
           pc' = [pc EXCEPT ![p] = l], pc[p] \in Exiting <=> l \in Exiting,
           \A u \in Page : pc[u] \in Exiting => flag'[u] = flag[u],
           UNCHANGED <<tid, next_tid, childList, exit_status, answer>>
    PROVE  AbstractStep
  BY SameShown DEF AbstractStep, Abstract!vars

\* Who has not come to its end is alive.
LEMMA SeenAlive ==
    ASSUME IInv, Seen, NEW p \in Page, pc[p] \notin Exiting \union {"free"}
    PROVE  /\ tid[p] \in Tid /\ tid[p] # 0
           /\ LifeByTid[tid[p]] = "alive" /\ ChildrenByTid[tid[p]] = TidsOf[p]
<1>1. tid[p] \in Tid /\ tid[p] # 0
  BY DEF IInv, Tids, TypeOK
<1> QED
  BY <1>1, ShownBy DEF Seen, SeenAt

\* An execute that returns -1.
LEMMA SeenExecuteFails ==
    ASSUME IInv, Seen, NEW p \in Page, NEW l,
           pc' = [pc EXCEPT ![p] = l], pc[p] # "free", {pc[p], l} \intersect Exiting = {},
           answer' = <<tid[p], 0, -1>>,
           UNCHANGED <<tid, next_tid, childList, exit_status, flag>>
    PROVE  AbstractStep
<1>1. LifeByTid' = LifeByTid /\ CodeByTid' = CodeByTid /\ ChildrenByTid' = ChildrenByTid
  BY SameShown DEF IInv
<1>2. tid[p] \in Tid /\ LifeByTid[tid[p]] = "alive"
  BY SeenAlive
<1>3. Abstract!ExecuteFails(tid[p])
  BY <1>1, <1>2 DEF Abstract!ExecuteFails, Abstract!Return
<1> QED
  BY <1>2, <1>3 DEF AbstractStep, Abstract!Next

\* A wait that finds no child with this tid on the caller's list.
LEMMA SeenWaitFails ==
    ASSUME IInv, Seen, NEW p \in Page, NEW arg \in Tid \union {-1}, WaitFindsNobody(p, arg)
    PROVE  AbstractStep
<1>0. TypeOK
  BY DEF IInv
<1>1. /\ pc[p] \in {"run", "run_task"} /\ pc' = [pc EXCEPT ![p] = "run"]
      /\ answer' = <<tid[p], arg, -1>> /\ ChildrenWithTid(p, arg) = {}
      /\ UNCHANGED <<tid, next_tid, childList, exit_status, flag>>
  BY DEF WaitFindsNobody, At, Goto, Return
<1>2. LifeByTid' = LifeByTid /\ CodeByTid' = CodeByTid /\ ChildrenByTid' = ChildrenByTid
  BY <1>0, <1>1, SameShown DEF Exiting
<1>3. /\ tid[p] \in Tid /\ LifeByTid[tid[p]] = "alive"
      /\ ChildrenByTid[tid[p]] = TidsOf[p]
  BY <1>1, SeenAlive DEF Exiting
<1>4. arg \notin TidsOf[p]
  <2>1. childList[p] \in Seq(Page)
    BY <1>0 DEF TypeOK
  <2> QED
    BY <1>1, <2>1 DEF TidsOf, ChildrenWithTid, Contains
<1>5. Abstract!WaitFails(tid[p], arg)
  BY <1>1, <1>2, <1>3, <1>4 DEF Abstract!WaitFails, Abstract!Return
<1> QED
  BY <1>3, <1>5 DEF AbstractStep, Abstract!Next

\* A thread that enters process_exit shows how it ends, and with which status.
LEMMA SeenEnding ==
    ASSUME IInv, IInv', Seen, Seen', NEW p \in Page,
           pc' = [pc EXCEPT ![p] = "exit_up"], pc[p] \notin Exiting \union {"free"},
           \A u \in Page : u # p => exit_status'[u] = exit_status[u],
           UNCHANGED <<tid, next_tid, childList, flag>>
    PROVE  /\ flag[p] \/ p = Main =>
                 /\ LifeByTid' = [LifeByTid EXCEPT ![tid[p]] = "ended"]
                 /\ CodeByTid' = [CodeByTid EXCEPT ![tid[p]] = exit_status'[p]]
           /\ ~(flag[p] \/ p = Main) =>
                 LifeByTid' = [LifeByTid EXCEPT ![tid[p]] = "failed"] /\ CodeByTid' = CodeByTid
           /\ ChildrenByTid' = ChildrenByTid
<1>0. TypeOK /\ Tids /\ TypeOK' /\ Tids'
  BY DEF IInv
<1>1. tid[p] # 0 /\ pc'[p] = "exit_up" /\ pc[p] \notin Exiting
  BY <1>0 DEF Tids, TypeOK
<1>2. \A u \in Page : u # p => pc'[u] = pc[u]
  BY <1>0 DEF TypeOK
<1>3. TidsOf' = TidsOf
  BY DEF TidsOf
<1>4. \A u \in Page : u # p => LifeOf'[u] = LifeOf[u]
  BY <1>2 DEF LifeOf
<1>5. \A u \in Page : u # p => CodeOf'[u] = CodeOf[u]
  BY <1>4 DEF CodeOf
<1>6. LifeOf'[p] = IF flag[p] \/ p = Main THEN "ended" ELSE "failed"
  BY <1>1 DEF LifeOf, Exiting
<1>7. CodeOf'[p] = IF flag[p] \/ p = Main THEN exit_status'[p] ELSE 0
  BY <1>6 DEF CodeOf
<1>8. CodeOf[p] = 0
  BY <1>1, ShownBy
<1> QED
  BY <1>0, <1>1, <1>3, <1>4, <1>5, <1>6, <1>7, <1>8, OnePage

\* Nobody's child is a child of nobody's tid.
LEMMA NotAChild ==
    ASSUME IInv, Seen, NEW c \in Page, tid[c] \in Tid, \A q \in Page : c \notin Children(q)
    PROVE  \A t \in Tid : tid[c] \notin ChildrenByTid[t]
<1>0. TypeOK /\ Tids
  BY DEF IInv
<1>1. SUFFICES ASSUME NEW t \in Tid, tid[c] \in ChildrenByTid[t] PROVE FALSE
  OBVIOUS
<1>2. tid[c] # 0
  BY DEF Tid
<1>3. PICK q \in Page : ChildrenByTid[t] = TidsOf[q]
  BY <1>1 DEF Seen, SeenAt, SeenNowhere
<1>4. PICK v \in Children(q) : tid[v] = tid[c]
  BY <1>0, <1>1, <1>3, TidsOfChildren
<1>5. v \in Page
  BY <1>0, <1>4 DEF Children, ToSet, TypeOK
<1>6. v = c
  BY <1>0, <1>2, <1>4, <1>5 DEF Tids
<1> QED
  BY <1>4, <1>6

\* Execute returns: with the tid of a child that is there and nobody's yet, or
\* with -1.
LEMMA SeenExecuteReturns ==
    ASSUME IInv, IInv', Ran, Seen, Seen', NEW p \in Page, ExecuteReturns(p)
    PROVE  AbstractStep
<1>0. TypeOK /\ Tids /\ Pointers /\ TypeOK' /\ Tids'
  BY DEF IInv
<1>1. /\ pc[p] = "exec_flag" /\ pc' = [pc EXCEPT ![p] = Caller(p)]
      /\ UNCHANGED <<tid, exit_status, flag, next_tid>>
      /\ Caller(p) \in {"run", "run_task"}
  BY DEF ExecuteReturns, At, Goto, Caller
<1>2. PICK u \in Page : u = child[p]
  BY <1>0, <1>1 DEF Pointers, TypeOK, InCall
<1>3. /\ childList' = [childList EXCEPT ![p] = IF flag[u] THEN Append(@, u) ELSE @]
      /\ answer' = <<tid[p], 0, IF flag[u] THEN tid[u] ELSE -1>>
  BY <1>2 DEF ExecuteReturns, ExecuteAnswer, Return
<1>4. CASE ~flag[u]
  <2>1. childList' = childList /\ answer' = <<tid[p], 0, -1>>
    BY <1>0, <1>3, <1>4 DEF TypeOK
  <2> QED
    BY <1>1, <2>1, SeenExecuteFails DEF Exiting
<1>5. CASE flag[u]
  <2>1. u # NULL /\ Unreaped(u) /\ \A q \in Page : u \notin Children(q)
    BY <1>0, <1>1, <1>2, ProcessAssumption DEF Pointers, InWait
  <2>2. tid[p] # 0 /\ tid[u] \in Tid /\ tid[u] # 0
    BY <1>0, <1>1, <2>1 DEF Tids, TypeOK, Unreaped
  <2>3. /\ childList'[p] = Append(childList[p], u) /\ answer' = <<tid[p], 0, tid[u]>>
        /\ \A q \in Page : q # p => childList'[q] = childList[q]
    BY <1>0, <1>3, <1>5 DEF TypeOK
  <2>4. Children(p)' = Children(p) \union {u} /\ \A q \in Page : q # p => Children(q)' = Children(q)
    BY <1>0, <2>3, AppendSet DEF Children, TypeOK
  <2>5. TidsOf'[p] = TidsOf[p] \union {tid[u]}
    <3>1. TidsOf'[p] = {tid'[v] : v \in Children(p)'}
      BY <1>0, <1>1 DEF TidsOf, Children, ToSet
    <3>2. TidsOf[p] = {tid[v] : v \in Children(p)}
      BY <1>0, TidsOfChildren
    <3> QED
      BY <1>1, <2>4, <3>1, <3>2
  <2>6. \A q \in Page : q # p => TidsOf'[q] = TidsOf[q]
    BY <1>1, <2>3 DEF TidsOf
  <2>7. \A q \in Page : pc'[q] \in Exiting <=> pc[q] \in Exiting
    BY <1>0, <1>1 DEF TypeOK, Exiting
  <2>8. LifeOf' = LifeOf /\ CodeOf' = CodeOf
    <3>1. LifeOf' = LifeOf
      BY <1>1, <2>7 DEF LifeOf
    <3> QED
      BY <1>1, <3>1 DEF CodeOf
  <2>9. /\ tid[p] \in Tid /\ LifeByTid' = LifeByTid /\ CodeByTid' = CodeByTid
        /\ ChildrenByTid' = [ChildrenByTid EXCEPT ![tid[p]] = TidsOf[p] \union {tid[u]}]
    BY <1>0, <1>1, <2>2, <2>3, <2>5, <2>6, <2>8, OnePage
  <2>10. ChildrenByTid[tid[p]] = TidsOf[p]
    BY <2>9 DEF Seen, SeenAt
  <2>11. LifeByTid[tid[p]] = "alive" /\ LifeByTid[tid[u]] \in {"alive", "ended"}
    BY <1>1, <1>5, <2>2, <2>9, ShownBy DEF Seen, SeenAt, Exiting
  <2>12. \A t \in Tid : tid[u] \notin ChildrenByTid[t]
    BY <2>1, <2>2, NotAChild
  <2>13. Abstract!ExecuteSucceeds(tid[p], tid[u])
    BY <2>3, <2>9, <2>10, <2>11, <2>12 DEF Abstract!ExecuteSucceeds, Abstract!Return
  <2> QED
    BY <2>2, <2>9, <2>13 DEF AbstractStep, Abstract!Next
<1> QED
  BY <1>4, <1>5

\* Wait reads the status of a child that has ended, and the child is on no list
\* any more.
LEMMA SeenWaitRead ==
    ASSUME IInv, IInv', Ran, MessagesNotConfused, Seen, Seen', NEW p \in Page, WaitRead(p)
    PROVE  AbstractStep
<1>0. TypeOK /\ Tids /\ Pointers /\ TypeOK' /\ Tids'
  BY DEF IInv
<1>1. /\ pc[p] = "wait_read" /\ pc' = [pc EXCEPT ![p] = "wait_up"]
      /\ UNCHANGED <<tid, exit_status, flag, next_tid>>
  BY DEF WaitRead, At, Goto
<1>2. PICK u \in Page : u = child[p]
  BY <1>0, <1>1 DEF Pointers, TypeOK, InCall
<1>3. PICK i \in DOMAIN childList[p] :
         childList[p][i] = u /\ childList' = [childList EXCEPT ![p] = RemoveAt(@, i)]
  BY <1>2 DEF WaitRead
<1>4. answer' = <<tid[p], tid[u], exit_status[u]>>
  BY <1>2 DEF WaitRead, Return
<1>5. u \in Children(p) /\ pc[u] \in {"exit_down", "dying"}
  BY <1>0, <1>1, <1>2 DEF Pointers, InWait, MessagesNotConfused
<1>6. tid[p] # 0 /\ tid[u] # 0 /\ tid[u] \in Tid
  BY <1>0, <1>1, <1>5 DEF Tids, TypeOK
<1>7. /\ childList'[p] = RemoveAt(childList[p], i)
      /\ \A q \in Page : q # p => childList'[q] = childList[q]
  BY <1>0, <1>3 DEF TypeOK
<1>8. Children(p)' = Children(p) \ {u} /\ Children(p) \subseteq Page
  <2>1. childList[p] \in Seq(Page) /\ IsInjective(childList[p]) /\ i \in 1..Len(childList[p])
    BY <1>0, <1>3 DEF TypeOK, Pointers
  <2>2. Children(p)' = Children(p) \ {u}
    BY <1>3, <1>7, <2>1, RemoveAtSet DEF Children
  <2>3. Children(p) \subseteq Page
    BY <2>1 DEF Children, ToSet
  <2> QED
    BY <2>2, <2>3
<1>9. TidsOf'[p] = TidsOf[p] \ {tid[u]}
  <2>1. TidsOf'[p] = {tid'[v] : v \in Children(p)'}
    BY <1>0, <1>1 DEF TidsOf, Children, ToSet
  <2>2. TidsOf[p] = {tid[v] : v \in Children(p)}
    BY <1>0, TidsOfChildren
  <2>3. \A v \in Children(p) : tid[v] = tid[u] => v = u
    BY <1>0, <1>6, <1>8 DEF Tids
  <2> QED
    BY <1>1, <1>8, <2>1, <2>2, <2>3
<1>10. \A q \in Page : q # p => TidsOf'[q] = TidsOf[q]
  BY <1>1, <1>7 DEF TidsOf
<1>11. \A q \in Page : pc'[q] \in Exiting <=> pc[q] \in Exiting
  BY <1>0, <1>1 DEF TypeOK, Exiting
<1>12. LifeOf' = LifeOf /\ CodeOf' = CodeOf
  <2>1. LifeOf' = LifeOf
    BY <1>1, <1>11 DEF LifeOf
  <2> QED
    BY <1>1, <2>1 DEF CodeOf
<1>13. /\ tid[p] \in Tid /\ LifeByTid' = LifeByTid /\ CodeByTid' = CodeByTid
       /\ ChildrenByTid' = [ChildrenByTid EXCEPT ![tid[p]] = TidsOf[p] \ {tid[u]}]
  BY <1>0, <1>1, <1>6, <1>7, <1>9, <1>10, <1>12, OnePage
<1>14. /\ ChildrenByTid[tid[p]] = TidsOf[p] /\ LifeByTid[tid[p]] = "alive"
       /\ LifeByTid[tid[u]] = "ended" /\ CodeByTid[tid[u]] = exit_status[u]
  <2>1. u = Main \/ flag[u]
    BY <1>5 DEF Ran
  <2> QED
    BY <1>1, <1>5, <1>6, <1>13, <2>1, ShownBy DEF Seen, SeenAt, Exiting
<1>15. tid[u] \in TidsOf[p]
  BY <1>0, <1>5, TidsOfChildren
<1>16. Abstract!WaitSucceeds(tid[p], tid[u])
  BY <1>4, <1>13, <1>14, <1>15 DEF Abstract!WaitSucceeds, Abstract!Return
<1> QED
  BY <1>6, <1>13, <1>16 DEF AbstractStep, Abstract!Next

\* A thread is created: the next tid, unborn so far, is alive.
LEMMA SeenExecute ==
    ASSUME IInv, IInv', Seen, Seen', NEW p \in Page, NEW u \in Page, Execute(p, u)
    PROVE  AbstractStep
<1>0. TypeOK /\ Tids /\ TypeOK' /\ Tids'
  BY DEF IInv
<1>1. /\ pc[p] = "run" /\ pc[u] = "free" /\ next_tid <= MaxTid /\ p # u
      /\ tid' = [tid EXCEPT ![u] = next_tid] /\ next_tid' = next_tid + 1
      /\ childList' = [childList EXCEPT ![u] = <<>>]
      /\ exit_status' = [exit_status EXCEPT ![u] = 0]
      /\ flag' = [flag EXCEPT ![u] = FALSE] /\ answer' = answer
      /\ pc' = [pc EXCEPT ![p] = "exec_down", ![u] = "load"]
  BY DEF Execute, At
<1>2. next_tid \in Tid /\ next_tid \in Nat
  BY <1>0, <1>1, ProcessAssumption DEF TypeOK, Tid
<1>3. \A q \in Page : /\ pc'[q] = IF q = p THEN "exec_down" ELSE IF q = u THEN "load" ELSE pc[q]
                      /\ tid'[q] = IF q = u THEN next_tid ELSE tid[q]
                      /\ childList'[q] = IF q = u THEN <<>> ELSE childList[q]
                      /\ exit_status'[q] = IF q = u THEN 0 ELSE exit_status[q]
                      /\ q # u => flag'[q] = flag[q]
  BY <1>0, <1>1 DEF TypeOK
<1>4. p # u /\ pc[p] = "run" /\ pc[u] = "free" /\ next_tid' = next_tid + 1 /\ answer' = answer
  BY <1>1
<1>5. \A q \in Page : tid[q] # next_tid
  BY <1>0, <1>2 DEF Tids, TypeOK
<1>6. \A q \in Page : \A v \in DOMAIN childList[q] : childList[q][v] \in Page /\ childList[q][v] # u
  <2>1. \A q \in Page : childList[q] \in Seq(Page)
    BY <1>0 DEF TypeOK
  <2>2. \A q \in Page : u \notin Children(q)
    BY <1>4 DEF IInv, Pointers, Unreaped
  <2> QED
    BY <2>1, <2>2 DEF Children, ToSet
<1>7. /\ LifeOf'[u] = "alive" /\ CodeOf'[u] = 0 /\ TidsOf'[u] = {}
  BY <1>3, <1>4 DEF LifeOf, CodeOf, TidsOf, Exiting
<1>8. \A q \in Page : q # u => LifeOf'[q] = LifeOf[q] /\ CodeOf'[q] = CodeOf[q]
  <2>1. \A q \in Page : q # u => LifeOf'[q] = LifeOf[q]
    BY <1>3, <1>4 DEF LifeOf, Exiting
  <2> QED
    BY <1>3, <2>1 DEF CodeOf
<1>9. \A q \in Page : q # u => TidsOf'[q] = TidsOf[q]
  BY <1>3, <1>6 DEF TidsOf
<1>10. ASSUME NEW t \in Tid
       PROVE  /\ LifeByTid'[t] = IF t = next_tid THEN "alive" ELSE LifeByTid[t]
              /\ CodeByTid'[t] = CodeByTid[t]
              /\ ChildrenByTid'[t] = ChildrenByTid[t]
              /\ t = next_tid => LifeByTid[t] = "unborn"
  <2>1. CASE t = next_tid
    <3>1. SeenNowhere(t) /\ tid'[u] = t
      BY <1>3, <1>5, <2>1 DEF Seen
    <3>2. SeenAt(t, u)'
      BY <3>1 DEF Seen
    <3> QED
      BY <1>2, <1>7, <2>1, <3>1, <3>2 DEF SeenNowhere, SeenAt
  <2>2. CASE t # next_tid /\ \E q \in Page : tid[q] = t
    <3>1. PICK q \in Page : tid[q] = t
      BY <2>2
    <3>2. q # u
      BY <1>0, <1>4, <3>1 DEF Tids, Tid
    <3>3. SeenAt(t, q) /\ tid'[q] = t
      BY <1>3, <3>1, <3>2 DEF Seen
    <3>4. SeenAt(t, q)'
      BY <3>3 DEF Seen
    <3> QED
      BY <1>8, <1>9, <2>2, <3>2, <3>3, <3>4 DEF SeenAt
  <2>3. CASE t # next_tid /\ \A q \in Page : tid[q] # t
    <3>1. SeenNowhere(t)
      BY <2>3 DEF Seen
    <3>2. \A q \in Page : tid'[q] # t
      BY <1>3, <2>3
    <3>3. SeenNowhere(t)'
      BY <3>2 DEF Seen
    <3>4. t < next_tid' <=> t < next_tid
      BY <1>2, <1>4, <2>3 DEF Tid
    <3> QED
      BY <2>3, <3>1, <3>3, <3>4 DEF SeenNowhere
  <2> QED
    BY <2>1, <2>2, <2>3
<1>11. /\ LifeByTid' = [LifeByTid EXCEPT ![next_tid] = "alive"]
       /\ CodeByTid' = CodeByTid /\ ChildrenByTid' = ChildrenByTid
       /\ LifeByTid[next_tid] = "unborn"
  BY <1>2, <1>10, ByTidFunctions
<1>12. Abstract!Create(next_tid)
  BY <1>4, <1>11 DEF Abstract!Create
<1> QED
  BY <1>2, <1>12 DEF AbstractStep, Abstract!Next

\* The page of an ended process that nobody waits for is freed: its tid is gone.
LEMMA SeenDie ==
    ASSUME IInv, IInv', Seen, Seen', NEW p \in Page, Die(p)
    PROVE  AbstractStep
<1>0. TypeOK /\ Tids /\ Pointers /\ TypeOK' /\ Tids'
  BY DEF IInv
<1>1. /\ pc[p] = "dying" /\ pc' = [pc EXCEPT ![p] = "free"]
      /\ tid' = [tid EXCEPT ![p] = 0]
      /\ childList' = [childList EXCEPT ![p] = <<>>]
      /\ exit_status' = [exit_status EXCEPT ![p] = 0]
      /\ flag' = [flag EXCEPT ![p] = FALSE] /\ answer' = answer
      /\ next_tid' = next_tid
  BY DEF Die, At, Goto
<1>2. \A q \in Page : q # p => /\ pc'[q] = pc[q] /\ childList'[q] = childList[q]
                               /\ exit_status'[q] = exit_status[q] /\ flag'[q] = flag[q]
                               /\ tid'[q] = tid[q]
  BY <1>0, <1>1 DEF TypeOK
<1>3. pc[p] = "dying" /\ tid'[p] = 0 /\ next_tid' = next_tid /\ answer' = answer
  BY <1>0, <1>1 DEF TypeOK
<1>4. tid[p] \in Tid /\ tid[p] # 0 /\ tid[p] < next_tid
  BY <1>0, <1>3 DEF Tids, TypeOK
<1>5. \A q \in Page : p \notin Children(q)
  BY <1>0, <1>3 DEF Pointers, Unreaped
<1>6. \A q \in Page : \A v \in DOMAIN childList[q] : childList[q][v] \in Page /\ childList[q][v] # p
  <2>1. \A q \in Page : childList[q] \in Seq(Page)
    BY <1>0 DEF TypeOK
  <2> QED
    BY <1>5, <2>1 DEF Children, ToSet
<1>7. \A q \in Page : q # p => LifeOf'[q] = LifeOf[q] /\ CodeOf'[q] = CodeOf[q]
  <2>1. \A q \in Page : q # p => LifeOf'[q] = LifeOf[q]
    BY <1>2 DEF LifeOf
  <2> QED
    BY <1>2, <2>1 DEF CodeOf
<1>8. \A q \in Page : q # p => TidsOf'[q] = TidsOf[q]
  BY <1>2, <1>6 DEF TidsOf
<1>9. ASSUME NEW t \in Tid
      PROVE  /\ LifeByTid'[t] = IF t = tid[p] THEN "gone" ELSE LifeByTid[t]
             /\ CodeByTid'[t] = IF t = tid[p] THEN 0 ELSE CodeByTid[t]
             /\ ChildrenByTid'[t] = IF t = tid[p] THEN {} ELSE ChildrenByTid[t]
  <2>1. CASE t = tid[p]
    <3>1. \A q \in Page : tid'[q] # t
      BY <1>0, <1>2, <1>3, <1>4, <2>1 DEF Tids
    <3>2. SeenNowhere(t)'
      BY <3>1 DEF Seen
    <3> QED
      BY <1>3, <1>4, <2>1, <3>2 DEF SeenNowhere
  <2>2. CASE t # tid[p] /\ \E q \in Page : tid[q] = t
    <3>1. PICK q \in Page : tid[q] = t /\ q # p
      BY <2>2
    <3>2. SeenAt(t, q) /\ tid'[q] = t
      BY <1>2, <3>1 DEF Seen
    <3>3. SeenAt(t, q)'
      BY <3>2 DEF Seen
    <3> QED
      BY <1>2, <1>7, <1>8, <2>2, <3>1, <3>2, <3>3 DEF SeenAt
  <2>3. CASE t # tid[p] /\ \A q \in Page : tid[q] # t
    <3>1. SeenNowhere(t)
      BY <2>3 DEF Seen
    <3>2. \A q \in Page : tid'[q] # t
      BY <1>2, <1>3, <2>3 DEF Tid
    <3>3. SeenNowhere(t)'
      BY <3>2 DEF Seen
    <3> QED
      BY <1>3, <2>3, <3>1, <3>3 DEF SeenNowhere
  <2> QED
    BY <2>1, <2>2, <2>3
<1>10. /\ LifeByTid' = [LifeByTid EXCEPT ![tid[p]] = "gone"]
       /\ CodeByTid' = [CodeByTid EXCEPT ![tid[p]] = 0]
       /\ ChildrenByTid' = [ChildrenByTid EXCEPT ![tid[p]] = {}]
  BY <1>4, <1>9, ByTidFunctions
<1>11. LifeByTid[tid[p]] \in {"ended", "failed"}
  BY <1>3, <1>4, ShownBy DEF Seen, SeenAt, Exiting
<1>12. \A t \in Tid : tid[p] \notin ChildrenByTid[t]
  BY <1>4, <1>5, NotAChild
<1>13. Abstract!Disappear(tid[p])
  BY <1>3, <1>10, <1>11, <1>12 DEF Abstract!Disappear
<1> QED
  BY <1>4, <1>13 DEF AbstractStep, Abstract!Next

\* Every step of Process is a step of ExecWait, or none.
LEMMA StepSimulates ==
    ASSUME IInv, IInv', Ran, MessagesNotConfused, [Next]_vars
    PROVE  AbstractStep
<1>0. TypeOK /\ Tids /\ Pointers /\ TypeOK' /\ Tids' /\ Main \in Page
  BY ProcessAssumption DEF IInv
<1>1. Seen /\ Seen'
  BY <1>0, SeenHolds, SeenLater
<1>2. ASSUME NEW p \in Page, ExecuteFails(p) PROVE AbstractStep
  BY <1>1, <1>2, SeenExecuteFails DEF ExecuteFails, ExecuteAnswer, At, Goto, Return, Caller, Exiting
<1>3. ASSUME NEW p \in Page, Load(p) PROVE AbstractStep
  <2>1. pc[p] = "load" /\ \A u \in Page : u # p => flag'[u] = flag[u]
    BY <1>0, <1>3 DEF Load, At, TypeOK
  <2>2. \A u \in Page : pc[u] \in Exiting => flag'[u] = flag[u]
    BY <2>1 DEF Exiting
  <2> QED
    BY <1>0, <1>3, <2>1, <2>2, Unseen DEF Load, Goto, Exiting
<1>4. ASSUME NEW p \in Page, Loaded(p) PROVE AbstractStep
  <2>1. CASE flag[p]
    BY <1>0, <1>4, <2>1, Unseen DEF Loaded, At, Goto, Exiting
  <2>2. CASE ~flag[p]
    <3>1. pc[p] = "loaded" /\ pc' = [pc EXCEPT ![p] = "exit_up"]
          /\ UNCHANGED <<tid, next_tid, childList, exit_status, flag, answer>>
      BY <1>4, <2>2 DEF Loaded, At, Goto
    <3>2. p # Main /\ \A q \in Page : p \notin Children(q)
      BY <3>1, NotYetAChild DEF Ran
    <3>3. /\ LifeByTid' = [LifeByTid EXCEPT ![tid[p]] = "failed"]
          /\ CodeByTid' = CodeByTid /\ ChildrenByTid' = ChildrenByTid
      BY <1>1, <2>2, <3>1, <3>2, SeenEnding DEF Exiting
    <3>4. tid[p] \in Tid /\ LifeByTid[tid[p]] = "alive"
      BY <1>1, <3>1, SeenAlive DEF Exiting
    <3>5. \A t \in Tid : tid[p] \notin ChildrenByTid[t]
      BY <1>1, <3>2, <3>4, NotAChild
    <3>6. Abstract!LoadFails(tid[p])
      BY <3>1, <3>3, <3>4, <3>5 DEF Abstract!LoadFails
    <3> QED
      BY <3>4, <3>6 DEF AbstractStep, Abstract!Next
  <2> QED
    BY <2>1, <2>2
<1>5. ASSUME NEW p \in Page, NEW from \in {"exec_down", "wait_down"},
             NEW to \in {"exec_flag", "wait_read"}, DownChildSema(p, from, to)
      PROVE  AbstractStep
  <2>1. pc[p] = from /\ UNCHANGED <<tid, next_tid, childList, exit_status, flag, answer>>
        /\ (pc' = pc \/ Goto(p, to))
    BY <1>5 DEF DownChildSema, At
  <2>2. CASE Goto(p, to)
    BY <1>0, <2>1, <2>2, Unseen DEF Goto, Exiting
  <2>3. CASE pc' = pc
    <3>1. pc' = [pc EXCEPT ![p] = pc[p]]
      BY <1>0, <2>3 DEF TypeOK
    <3> QED
      BY <1>0, <2>1, <3>1, Unseen
  <2> QED
    BY <2>1, <2>2, <2>3
<1>6. ASSUME NEW p \in Page, NEW arg \in Tid \union {-1}, ProcessWait(p, arg) PROVE AbstractStep
  <2>1. CASE WaitFindsNobody(p, arg)
    BY <1>1, <2>1, SeenWaitFails
  <2>2. CASE WaitFinds(p, arg)
    BY <1>0, <2>2, Unseen DEF WaitFinds, At, Goto, Exiting
  <2> QED
    BY <1>6, <2>1, <2>2 DEF ProcessWait
<1>7. ASSUME NEW p \in Page, WaitUp(p) PROVE AbstractStep
  BY <1>0, <1>7, Unseen DEF WaitUp, At, Goto, Exiting
<1>8. ASSUME NEW p \in Page, NEW status \in ExitStatus, Exit(p, status) PROVE AbstractStep
  <2>1. /\ pc[p] = "run" /\ pc' = [pc EXCEPT ![p] = "exit_up"] /\ p # Main
        /\ exit_status' = [exit_status EXCEPT ![p] = status]
        /\ UNCHANGED <<tid, next_tid, childList, flag, answer>>
    BY <1>8 DEF Exit, At, Goto
  <2>2. exit_status'[p] = status /\ \A u \in Page : u # p => exit_status'[u] = exit_status[u]
    BY <1>0, <2>1 DEF TypeOK
  <2>3. flag[p]
    BY <2>1 DEF Ran
  <2>4. /\ LifeByTid' = [LifeByTid EXCEPT ![tid[p]] = "ended"]
        /\ CodeByTid' = [CodeByTid EXCEPT ![tid[p]] = status] /\ ChildrenByTid' = ChildrenByTid
    BY <1>1, <2>1, <2>2, <2>3, SeenEnding DEF Exiting
  <2>5. tid[p] \in Tid /\ LifeByTid[tid[p]] = "alive"
    BY <1>1, <2>1, SeenAlive DEF Exiting
  <2>6. Abstract!Exits(tid[p])
    BY <1>8, <2>1, <2>4, <2>5 DEF Abstract!Exits, Abstract!End
  <2> QED
    BY <2>5, <2>6 DEF AbstractStep, Abstract!Next
<1>9. ASSUME NEW p \in Page, ExitWithoutStatus(p) PROVE AbstractStep
  <2>1. /\ pc[p] = "run" /\ pc' = [pc EXCEPT ![p] = "exit_up"]
        /\ UNCHANGED <<tid, next_tid, childList, exit_status, flag, answer>>
    BY <1>9 DEF ExitWithoutStatus, At, Goto
  <2>2. (flag[p] \/ p = Main) /\ exit_status[p] = 0 /\ tid[Main] = 1
    BY <2>1 DEF Ran, Exiting
  <2>3. /\ LifeByTid' = [LifeByTid EXCEPT ![tid[p]] = "ended"]
        /\ CodeByTid' = [CodeByTid EXCEPT ![tid[p]] = 0] /\ ChildrenByTid' = ChildrenByTid
    BY <1>1, <2>1, <2>2, SeenEnding DEF Exiting
  <2>4. tid[p] \in Tid /\ LifeByTid[tid[p]] = "alive"
    BY <1>1, <2>1, SeenAlive DEF Exiting
  <2>5. CASE p = Main
    <3>1. Abstract!TasksDone
      BY <2>1, <2>2, <2>3, <2>4, <2>5 DEF Abstract!TasksDone, Abstract!End
    <3> QED
      BY <3>1 DEF AbstractStep, Abstract!Next
  <2>6. CASE p # Main
    <3>1. tid[p] # 1
      BY <1>0, <2>2, <2>6 DEF Tids
    <3>2. Abstract!Killed(tid[p])
      BY <2>1, <2>3, <2>4, <3>1 DEF Abstract!Killed, Abstract!End
    <3> QED
      BY <2>4, <3>2 DEF AbstractStep, Abstract!Next
  <2> QED
    BY <2>5, <2>6
<1>10. ASSUME NEW p \in Page, ExitUp(p) PROVE AbstractStep
  BY <1>0, <1>10, Unseen DEF ExitUp, At, Goto, Exiting
<1>11. ASSUME NEW p \in Page, ExitDown(p) PROVE AbstractStep
  <2>1. pc[p] = "exit_down" /\ UNCHANGED <<tid, next_tid, childList, exit_status, flag, answer>>
        /\ (pc' = pc \/ Goto(p, "dying"))
    BY <1>11 DEF ExitDown, At
  <2>2. CASE Goto(p, "dying")
    BY <1>0, <2>1, <2>2, Unseen DEF Goto, Exiting
  <2>3. CASE pc' = pc
    <3>1. pc' = [pc EXCEPT ![p] = pc[p]]
      BY <1>0, <2>3 DEF TypeOK
    <3> QED
      BY <1>0, <2>1, <3>1, Unseen
  <2> QED
    BY <2>1, <2>2, <2>3
<1>12. CASE UNCHANGED vars
  <2>1. UNCHANGED <<tid, childList, exit_status, flag, pc, answer, next_tid>>
    BY <1>12 DEF vars
  <2> QED
    BY <2>1 DEF AbstractStep, Abstract!vars, LifeByTid, CodeByTid, ChildrenByTid, ByTid,
                LifeOf, CodeOf, TidsOf
<1>13. ASSUME NEW p \in Page, Calls(p) PROVE AbstractStep
  BY <1>1, <1>2, <1>6, <1>8, <1>9, <1>13, SeenExecute DEF Calls, UserWait
<1>14. ASSUME NEW p \in Page, TaskWait(p) PROVE AbstractStep
  <2>1. task \in Tid \union {-1} /\ ProcessWait(p, task)
    BY <1>14 DEF TaskWait, At, Ran
  <2> QED
    BY <1>6, <2>1
<1>15. ASSUME NEW p \in Page, InKernel(p) PROVE AbstractStep
  BY <1>1, <1>3, <1>4, <1>5, <1>7, <1>10, <1>11, <1>14, <1>15, SeenExecuteReturns, SeenWaitRead, SeenDie
     DEF InKernel, ExecuteDown, WaitDown
<1> QED
  BY <1>12, <1>13, <1>15 DEF Next

\* initial_thread and the idle thread are what ExecWait starts with.
LEMMA InitSimulates == Init => Abstract!Init
<1> SUFFICES ASSUME Init PROVE Abstract!Init
  OBVIOUS
<1>0. IInv /\ TypeOK /\ Tids
  BY InitIInv DEF IInv
<1>1. Seen
  BY <1>0, SeenHolds
<1>2. Main \in Page /\ Idle \in Page /\ Main # Idle
  BY ProcessAssumption
<1>3. /\ \A p \in Page : tid[p] = IF p = Main THEN 1 ELSE IF p = Idle THEN 2 ELSE 0
      /\ \A p \in Page : pc[p] \notin Exiting
      /\ \A p \in Page : childList[p] = IF p = Main THEN <<Main, Idle>> ELSE <<>>
      /\ next_tid = 3 /\ answer = <<0, 0, 0>>
  BY <1>2 DEF Init, Exiting
<1>4. /\ \A p \in Page : LifeOf[p] = "alive" /\ CodeOf[p] = 0
      /\ TidsOf[Main] = {1, 2} /\ TidsOf[Idle] = {}
  BY <1>2, <1>3 DEF LifeOf, CodeOf, TidsOf
<1>5. ASSUME NEW t \in Tid
      PROVE  /\ LifeByTid[t] = IF t \in {1, 2} THEN "alive" ELSE "unborn"
             /\ CodeByTid[t] = 0
             /\ ChildrenByTid[t] = IF t = 1 THEN {1, 2} ELSE {}
  <2>1. CASE t = 1
    BY <1>1, <1>2, <1>3, <1>4, <2>1 DEF Seen, SeenAt
  <2>2. CASE t = 2
    BY <1>1, <1>2, <1>3, <1>4, <2>2 DEF Seen, SeenAt
  <2>3. CASE t \notin {1, 2}
    <3>1. \A p \in Page : tid[p] # t
      BY <1>3, <2>3 DEF Tid
    <3>2. ~(t < next_tid)
      BY <1>3, <2>3 DEF Tid
    <3> QED
      BY <1>1, <2>3, <3>1, <3>2 DEF Seen, SeenNowhere
  <2> QED
    BY <2>1, <2>2, <2>3
<1> QED
  BY <1>3, <1>5, ByTidFunctions DEF Abstract!Init

----------------------------------------------------------------------------
(* Theorems.                                                               *)

\* The inductive invariant holds in every reachable state.
THEOREM Inductive == Spec => []IInv
<1>1. Init => IInv
  BY InitIInv
<1>2. IInv /\ [Next]_vars => IInv'
  BY NextIInv
<1> QED
  BY <1>1, <1>2, PTL DEF Spec

\* Every reachable state is type-correct; no childSema holds more than its
\* thread's two messages, no memSema more than one.
THEOREM TypeCorrect == Spec => []TypeOK
<1>1. IInv => TypeOK
  BY DEF IInv
<1> QED
  BY <1>1, Inductive, PTL

\* No process points to a child's page that has been freed, or freed and taken
\* again: the child waits for its parent's sema_up(&memSema), and an execute or
\* a wait drops its pointer before or with it.
THEOREM NoStalePointer == Spec => []NoDanglingChild
<1>1. IInv => NoDanglingChild
  <2> SUFFICES ASSUME IInv PROVE NoDanglingChild
    OBVIOUS
  <2>0. TypeOK /\ Pointers
    BY DEF IInv
  <2>1. \A p \in Page : \A i \in DOMAIN childList[p] : childList[p][i] \in Children(p)
    BY DEF Children, ToSet
  <2>2. \A p, u \in Page : Contains(childList[p], u) => u \in Children(p)
    BY <2>0 DEF Children, ToSet, Contains, TypeOK
  <2>3. \A p \in Page : child[p] # NULL => child[p] \in Page
    BY <2>0 DEF TypeOK
  <2>4. ASSUME NEW p \in Page, NEW q \in Page, NEW i \in DOMAIN childList[p]
        PROVE  /\ pc[childList[p][i]] # "free"
               /\ \A j \in DOMAIN childList[q] : childList[p][i] = childList[q][j] => p = q /\ i = j
    BY <2>0, <2>1 DEF Pointers, Unreaped, IsInjective
  <2>5. ASSUME NEW p \in Page, NEW q \in Page, child[p] # NULL
        PROVE  /\ pc[child[p]] # "free"
               /\ child[p] = child[q] => p = q
               /\ Contains(childList[q], child[p]) => q = p /\ pc[p] \in {"wait_down", "wait_read"}
    BY <2>0, <2>2, <2>3, <2>5 DEF Pointers, Unreaped, InWait
  <2> QED
    BY <2>4, <2>5 DEF NoDanglingChild
<1> QED
  BY <1>1, Inductive, PTL

\* Execute takes "I have loaded" and wait "I have exited" off the semaphore
\* that carries both.
THEOREM MessagesApart == Spec => []MessagesNotConfused
<1>1. IInv => MessagesNotConfused
  <2> SUFFICES ASSUME IInv, NEW p \in Page
               PROVE  /\ pc[p] = "exec_flag" => pc[child[p]] # "load"
                      /\ pc[p] \in {"wait_read", "wait_up"} => pc[child[p]] \in {"exit_down", "dying"}
    BY DEF MessagesNotConfused
  <2>0. TypeOK /\ Pointers /\ Messages
    BY DEF IInv
  <2>1. CASE pc[p] \in InCall
    <3>1. PICK u \in Page : u = child[p] /\ u # NULL
      BY <2>0, <2>1, ProcessAssumption DEF Pointers, TypeOK
    <3>2. childSema[u].value \in Nat /\ childSema[u].value = Told(u) - Heard(p)
      BY <2>0, <3>1, SemaOps DEF Messages, TypeOK
    <3>3. Heard(p) <= Told(u)
      BY <3>2, ToldRange
    <3> QED
      BY <3>1, <3>3 DEF Told, Heard
  <2> QED
    BY <2>1 DEF InCall
<1> QED
  BY <1>1, Inductive, PTL

\* Execute and wait, with two semaphores and pages that are taken again,
\* implement what their comments promise, killed processes apart: their parents
\* get 0.
THEOREM Refinement == Spec => ImplementsExecWait
<1>1. Init => Abstract!Init
  BY InitSimulates
<1>2. Init => Ran
  BY InitRan
<1>3. IInv /\ Ran /\ [Next]_vars => Ran'
  BY NextRan
<1>4. IInv /\ IInv' /\ Ran /\ MessagesNotConfused /\ [Next]_vars => [Abstract!Next]_(Abstract!vars)
  BY StepSimulates DEF AbstractStep
<1> QED
  BY <1>1, <1>2, <1>3, <1>4, Inductive, MessagesApart, PTL DEF Spec, ImplementsExecWait, Abstract!Spec
============================================================================
