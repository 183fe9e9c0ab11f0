---------------------------- MODULE SerialProofs ----------------------------
(***************************************************************************)
(* Proofs about Serial: its types, that the assertions of intq.c hold      *)
(* because callers take turns, and that bytes leave in the order they      *)
(* came, for any number of threads and any size of the queues.             *)
(***************************************************************************)
EXTENDS Serial, TLAPS

\* Semaphores: what the operations of FifoSema keep and change.
LEMMA SemaOps ==
    ASSUME NEW S, NEW sema \in Semaphores(S), NEW t \in S
    PROVE  /\ Enqueued(sema, t) \in Semaphores(S)
           /\ Enqueued(sema, t).value = sema.value
           /\ sema.value # 0 => Lowered(sema) \in Semaphores(S)
           /\ Lowered(sema).value = sema.value - 1
           /\ Raised(sema) \in Semaphores(S)
           /\ Raised(sema).value = sema.value + 1
<1>1. sema.value \in Nat /\ sema.waiters \in Seq(S)
  BY DEF Semaphores
<1>2. Append(sema.waiters, t) \in Seq(S)
  BY <1>1
<1>3. sema.waiters # <<>> => Tail(sema.waiters) \in Seq(S)
  BY <1>1
<1> QED
  BY <1>1, <1>2, <1>3 DEF Semaphores, Enqueued, Lowered, Raised

LEMMA NextInRange ==
    ASSUME NEW pos \in 0..(INTQ_BUFSIZE - 1)
    PROVE  next(pos) \in 0..(INTQ_BUFSIZE - 1)
  BY SerialAssumption, SMTT(30) DEF next

LEMMA NumberInRange ==
    ASSUME NEW n \in 0..(Numbers - 1)
    PROVE  (n + 1) % Numbers \in 0..(Numbers - 1)
  BY SerialAssumption, SMTT(30)

\* A queue after a byte has gone in or come out.
LEMMA QueueOps ==
    ASSUME NEW queue \in IntQueues, NEW byte \in 0..(Numbers - 1)
    PROVE  /\ Put(queue, byte) \in IntQueues
           /\ Put(queue, byte).lock = queue.lock
           /\ Got(queue) \in IntQueues
           /\ Got(queue).lock = queue.lock
           /\ Byte(queue) \in 0..(Numbers - 1)
<1>1. /\ queue.head \in 0..(INTQ_BUFSIZE - 1) /\ queue.tail \in 0..(INTQ_BUFSIZE - 1)
      /\ queue.buf \in [0..(INTQ_BUFSIZE - 1) -> 0..(Numbers - 1)]
  BY DEF IntQueues
<1>2. next(queue.head) \in 0..(INTQ_BUFSIZE - 1) /\ next(queue.tail) \in 0..(INTQ_BUFSIZE - 1)
  BY <1>1, NextInRange
<1>3. 0 \in 0..(Numbers - 1)
  BY SerialAssumption
<1>4. Put(queue, byte) \in IntQueues /\ Put(queue, byte).lock = queue.lock
  BY <1>1, <1>2 DEF Put, IntQueues
<1>5. Got(queue) \in IntQueues /\ Got(queue).lock = queue.lock
  BY <1>1, <1>2, <1>3 DEF Got, IntQueues
<1>6. Byte(queue) \in 0..(Numbers - 1)
  BY <1>1 DEF Byte
<1> QED
  BY <1>4, <1>5, <1>6

LEMMA EnabledType ==
    ASSUME NEW qs
    PROVE  Enabled(qs) \subseteq {"RECV", "XMIT"}
  BY DEF Enabled

\* Callers take turns.  A thread past its lock is alone in its queue and has
\* the lock; the lock inside the queue is taken exactly while that thread
\* waits, so that nobody is ever asleep for it.
InTurn ==
    /\ \A t \in Thread : pc[t] \in {"enter", "call", "wait", "leave"}
    /\ \A t, u \in Thread :
          QueueOf(t) = QueueOf(u) /\ pc[t] # "enter" /\ pc[u] # "enter" => t = u
    /\ \A t \in Thread : pc[t] # "enter" => outer[QueueOf(t)].value = 0
    /\ \A x \in Queues : outer[x].value \in {0, 1}
    /\ \A t \in Thread : pc[t] = "wait" => q[QueueOf(t)].lock.value = 0
    /\ \A x \in Queues :
          (\A t \in Thread : QueueOf(t) = x => pc[t] # "wait") => q[x].lock.value = 1

IInv == TypeOK /\ InTurn

LEMMA QueueOfType == \A t \in Thread : QueueOf(t) \in Queues
  BY DEF QueueOf, Queues

LEMMA InitIInv == Init => IInv
<1> SUFFICES ASSUME Init PROVE IInv
  OBVIOUS
<1>1. NewSema(1) \in Semaphores(Thread) /\ NewSema(1).value = 1
  BY DEF NewSema, Semaphores
<1>2. NewQueue \in IntQueues /\ NewQueue.lock.value = 1
  BY <1>1, SerialAssumption DEF NewQueue, IntQueues
<1>3. Enabled(q) \subseteq {"RECV", "XMIT"}
  BY EnabledType
<1>4. TypeOK
  <2>1. q \in [Queues -> IntQueues] /\ outer \in [Queues -> Semaphores(Thread)]
    BY <1>1, <1>2 DEF Init
  <2>2. ier \subseteq {"RECV", "XMIT"}
    BY <1>3 DEF Init
  <2>3. 0 \in 0..(Numbers - 1) /\ 0 \in 0..MaxPrints
    BY SerialAssumption
  <2> QED
    BY <2>1, <2>2, <2>3 DEF Init, TypeOK
<1>5. InTurn
  BY <1>1, <1>2, QueueOfType DEF Init, InTurn
<1> QED
  BY <1>4, <1>5 DEF IInv

\* A thread's attempt on a queue of its own whose lock is free: it gets
\* through, or waits with the lock; it never panics.
LEMMA AttemptEffect ==
    ASSUME IInv, NEW t \in Thread, pc[t] # "enter",
           NEW queue \in IntQueues, queue.lock.value = 1,
           Attempt(t, queue)
    PROVE  /\ q' = [q EXCEPT ![QueueOf(t)] = q'[QueueOf(t)]]
           /\ q'[QueueOf(t)] \in IntQueues
           /\ \/ pc' = [pc EXCEPT ![t] = "leave"] /\ q'[QueueOf(t)].lock.value = 1
              \/ pc' = [pc EXCEPT ![t] = "wait"] /\ q'[QueueOf(t)].lock.value = 0
           /\ ier' \subseteq {"RECV", "XMIT"}
           /\ next_in' \in [Queues -> 0..(Numbers - 1)]
           /\ next_out' \in [Queues -> 0..(Numbers - 1)]
<1> DEFINE x == QueueOf(t)
<1>1. x \in Queues /\ TypeOK
  BY QueueOfType DEF IInv
<1>2. q \in [Queues -> IntQueues] /\ next_in[x] \in 0..(Numbers - 1)
  BY <1>1 DEF TypeOK
<1>3. queue.lock \in Semaphores(Thread)
  BY DEF IntQueues
<1>4. CASE MustWait(t, queue)
  <2>1. ~IsZero(queue.lock)
    BY DEF IsZero
  <2> DEFINE waiting == [queue EXCEPT !.lock = Lowered(@), !.waiter = t]
  <2>2. q' = [q EXCEPT ![x] = waiting] /\ Goto(t, "wait") /\ UNCHANGED <<ier, next_in, next_out>>
    BY <1>4, <2>1 DEF Attempt, SleepsIn
  <2>3. Lowered(queue.lock) \in Semaphores(Thread) /\ Lowered(queue.lock).value = 0
    BY <1>3, SemaOps
  <2>4. waiting \in IntQueues /\ waiting.lock.value = 0
    BY <2>3 DEF IntQueues
  <2>5. q'[x] = waiting
    BY <1>1, <1>2, <2>2
  <2>6. q' = [q EXCEPT ![x] = q'[x]]
    BY <2>2, <2>5
  <2> QED
    BY <1>1, <2>2, <2>4, <2>5, <2>6 DEF Goto, TypeOK
<1>5. CASE ~MustWait(t, queue)
  <2> DEFINE moved == IF t \in Readers THEN Got(queue) ELSE Put(queue, next_in[x])
  <2>1. /\ q' = [q EXCEPT ![x] = moved] /\ ier' = Enabled(q') /\ Goto(t, "leave")
        /\ IF t \in Readers
           THEN next_out' = [next_out EXCEPT ![x] = (Byte(queue) + 1) % Numbers] /\ UNCHANGED next_in
           ELSE Number(x) /\ UNCHANGED next_out
    BY <1>5 DEF Attempt
  <2>2. moved \in IntQueues /\ moved.lock.value = 1
    BY <1>2, QueueOps
  <2>3. q'[x] = moved
    BY <1>1, <1>2, <2>1
  <2>4. q' = [q EXCEPT ![x] = q'[x]]
    BY <2>1, <2>3
  <2>5. ier' \subseteq {"RECV", "XMIT"}
    BY <2>1, EnabledType
  <2>6. (Byte(queue) + 1) % Numbers \in 0..(Numbers - 1) /\ (next_in[x] + 1) % Numbers \in 0..(Numbers - 1)
    BY <1>2, QueueOps, NumberInRange
  <2>7. next_in' \in [Queues -> 0..(Numbers - 1)] /\ next_out' \in [Queues -> 0..(Numbers - 1)]
    BY <1>1, <2>1, <2>6 DEF Number, TypeOK
  <2> QED
    BY <2>1, <2>2, <2>3, <2>4, <2>5, <2>7 DEF Goto
<1> QED
  BY <1>4, <1>5

\* Every step keeps IInv: one step of the proof for each action.
LEMMA NextIInv == IInv /\ [Next]_vars => IInv'
<1> SUFFICES ASSUME IInv, [Next]_vars PROVE IInv'
  OBVIOUS
<1>0. TypeOK /\ InTurn
  BY DEF IInv
<1>1. ASSUME NEW t \in Thread, Enter(t) PROVE IInv'
  <2> DEFINE x == QueueOf(t)
  <2>1. x \in Queues /\ outer[x] \in Semaphores(Thread) /\ pc[t] = "enter"
    BY <1>0, <1>1, QueueOfType DEF TypeOK, Enter, At
  <2>2. CASE IsZero(outer[x])
    <3>1. outer' = [outer EXCEPT ![x] = Enqueued(outer[x], t)] /\ UNCHANGED <<q, pc>>
      BY <1>1, <2>2 DEF Enter
    <3>2. Enqueued(outer[x], t) \in Semaphores(Thread) /\ Enqueued(outer[x], t).value = outer[x].value
      BY <2>1, SemaOps
    <3>3. TypeOK'
      BY <1>0, <1>1, <2>1, <3>1, <3>2 DEF TypeOK, Enter
    <3>4. \A y \in Queues : outer'[y].value = outer[y].value
      BY <1>0, <2>1, <3>1, <3>2 DEF TypeOK
    <3>5. InTurn'
      BY <1>0, <3>1, <3>4, QueueOfType DEF InTurn
    <3> QED
      BY <3>3, <3>5 DEF IInv
  <2>3. CASE ~IsZero(outer[x])
    <3>1. outer' = [outer EXCEPT ![x] = Lowered(outer[x])] /\ pc' = [pc EXCEPT ![t] = "call"] /\ UNCHANGED q
      BY <1>1, <2>3 DEF Enter, Goto
    <3>2. outer[x].value = 1
      BY <1>0, <2>1, <2>3 DEF InTurn, IsZero
    <3>3. Lowered(outer[x]) \in Semaphores(Thread) /\ Lowered(outer[x]).value = 0
      BY <2>1, <3>2, SemaOps
    <3>4. TypeOK'
      BY <1>0, <1>1, <2>1, <3>1, <3>3 DEF TypeOK, Enter
    <3>5. \A y \in Queues : outer'[y].value = IF y = x THEN 0 ELSE outer[y].value
      BY <1>0, <2>1, <3>1, <3>3 DEF TypeOK
    <3>6. \A u \in Thread : pc'[u] = IF u = t THEN "call" ELSE pc[u]
      BY <1>0, <3>1 DEF TypeOK
    <3>7. \A u \in Thread : QueueOf(u) = x => pc[u] = "enter"
      BY <1>0, <3>2 DEF InTurn
    <3>8. InTurn'
      BY <1>0, <2>1, <3>1, <3>5, <3>6, <3>7, QueueOfType DEF InTurn
    <3> QED
      BY <3>4, <3>8 DEF IInv
  <2> QED
    BY <2>2, <2>3
\* The attempt of a thread that is past its lock.
<1>2. ASSUME NEW t \in Thread, pc[t] # "enter", NEW queue \in IntQueues, queue.lock.value = 1,
             Attempt(t, queue), UNCHANGED <<thr_empty, dr, outer, prints>>
      PROVE  IInv'
  <2> DEFINE x == QueueOf(t)
  <2>1. /\ q' = [q EXCEPT ![x] = q'[x]] /\ q'[x] \in IntQueues
        /\ \/ pc' = [pc EXCEPT ![t] = "leave"] /\ q'[x].lock.value = 1
           \/ pc' = [pc EXCEPT ![t] = "wait"] /\ q'[x].lock.value = 0
        /\ ier' \subseteq {"RECV", "XMIT"}
        /\ next_in' \in [Queues -> 0..(Numbers - 1)] /\ next_out' \in [Queues -> 0..(Numbers - 1)]
    BY <1>2, AttemptEffect
  <2>2. x \in Queues
    BY QueueOfType
  <2>3. TypeOK'
    BY <1>0, <1>2, <2>1, <2>2 DEF TypeOK
  <2>4. \A y \in Queues : y # x => q'[y] = q[y]
    BY <1>0, <2>1 DEF TypeOK
  <2>5. \A u \in Thread : u # t => pc'[u] = pc[u]
    BY <1>0, <2>1 DEF TypeOK
  <2>6. \/ pc'[t] = "leave" /\ q'[x].lock.value = 1
        \/ pc'[t] = "wait" /\ q'[x].lock.value = 0
    BY <1>0, <2>1 DEF TypeOK
  <2>7. \A u \in Thread : u # t /\ QueueOf(u) = x => pc[u] = "enter"
    BY <1>0, <1>2 DEF InTurn
  <2>8. InTurn'
    BY <1>0, <1>2, <2>2, <2>4, <2>5, <2>6, <2>7, QueueOfType DEF InTurn
  <2> QED
    BY <2>3, <2>8 DEF IInv
<1>3. ASSUME NEW t \in Thread, Call(t) PROVE IInv'
  <2>1. QueueOf(t) \in Queues /\ pc[t] = "call" /\ q[QueueOf(t)] \in IntQueues
    BY <1>0, <1>3, QueueOfType DEF Call, At, TypeOK
  <2>2. \A u \in Thread : QueueOf(u) = QueueOf(t) => pc[u] # "wait"
    BY <1>0, <2>1 DEF InTurn
  <2>3. q[QueueOf(t)].lock.value = 1
    BY <1>0, <2>1, <2>2 DEF InTurn
  <2> QED
    BY <1>2, <1>3, <2>1, <2>3 DEF Call
<1>4. ASSUME NEW t \in Thread, Woken(t) PROVE IInv'
  <2> DEFINE queue == q[QueueOf(t)]
             released == [queue EXCEPT !.lock = Raised(@)]
  <2>1. QueueOf(t) \in Queues /\ queue \in IntQueues /\ pc[t] = "wait"
    BY <1>0, <1>4, QueueOfType DEF Woken, At, TypeOK, InTurn
  <2>2. queue.lock \in Semaphores(Thread) /\ queue.lock.value = 0
    BY <1>0, <2>1 DEF InTurn, IntQueues
  <2>3. Raised(queue.lock) \in Semaphores(Thread) /\ Raised(queue.lock).value = 1
    BY <2>2, SemaOps
  <2>4. released \in IntQueues /\ released.lock.value = 1
    BY <2>1, <2>3 DEF IntQueues
  <2>5. Attempt(t, released) /\ UNCHANGED <<thr_empty, dr, outer, prints>>
    BY <1>4, <2>1 DEF Woken
  <2> QED
    BY <1>2, <2>1, <2>4, <2>5
<1>5. ASSUME NEW t \in Thread, Leave(t) PROVE IInv'
  <2> DEFINE x == QueueOf(t)
  <2>1. x \in Queues /\ pc[t] = "leave" /\ outer[x] \in Semaphores(Thread)
        /\ UNCHANGED <<q, ier, thr_empty, dr, next_in, next_out, prints>>
    BY <1>0, <1>5, QueueOfType DEF Leave, At, TypeOK
  <2>2. CASE Goto(t, "call") /\ UNCHANGED outer
    <3>1. TypeOK'
      BY <1>0, <2>1, <2>2 DEF TypeOK, Goto
    <3>2. \A u \in Thread : pc'[u] = IF u = t THEN "call" ELSE pc[u]
      BY <1>0, <2>2 DEF TypeOK, Goto
    <3>3. InTurn'
      BY <1>0, <2>1, <2>2, <3>2, QueueOfType DEF InTurn
    <3> QED
      BY <3>1, <3>3 DEF IInv
  <2>3. CASE Goto(t, "enter") /\ outer' = [outer EXCEPT ![x] = Raised(outer[x])]
    <3>1. outer[x].value = 0
      BY <1>0, <2>1 DEF InTurn
    <3>2. Raised(outer[x]) \in Semaphores(Thread) /\ Raised(outer[x]).value = 1
      BY <2>1, <3>1, SemaOps
    <3>3. TypeOK'
      BY <1>0, <2>1, <2>3, <3>2 DEF TypeOK, Goto
    <3>4. \A u \in Thread : pc'[u] = IF u = t THEN "enter" ELSE pc[u]
      BY <1>0, <2>3 DEF TypeOK, Goto
    <3>5. \A y \in Queues : outer'[y].value = IF y = x THEN 1 ELSE outer[y].value
      BY <1>0, <2>1, <2>3, <3>2 DEF TypeOK
    <3>6. \A u \in Thread : u # t /\ QueueOf(u) = x => pc[u] = "enter"
      BY <1>0, <2>1 DEF InTurn
    <3>7. InTurn'
      BY <1>0, <2>1, <3>4, <3>5, <3>6, QueueOfType DEF InTurn
    <3> QED
      BY <3>3, <3>7 DEF IInv
  <2> QED
    BY <1>5, <2>2, <2>3 DEF Leave
\* A handler changes neither a lock nor where a thread stands.
<1>6. ASSUME TypeOK', UNCHANGED <<outer, pc>>, \A x \in Queues : q'[x].lock = q[x].lock
      PROVE  IInv'
  <2>1. InTurn'
    BY <1>0, <1>6, QueueOfType DEF InTurn
  <2> QED
    BY <1>6, <2>1 DEF IInv
<1>7. "rx" \in Queues /\ "tx" \in Queues
  BY DEF Queues
<1>8. \A x \in Queues : q[x] \in IntQueues /\ next_in[x] \in 0..(Numbers - 1)
  BY <1>0 DEF TypeOK
<1>9. \A x \in Queues :
          /\ (Byte(q[x]) + 1) % Numbers \in 0..(Numbers - 1)
          /\ (next_in[x] + 1) % Numbers \in 0..(Numbers - 1)
  BY <1>8, QueueOps, NumberInRange
<1>10. CASE SerialInterrupt
  <2> DEFINE receives == dr /\ ~IsFull(q["rx"])
             transmits == ~IsEmpty(q["tx"]) /\ thr_empty
             rx == IF receives THEN Put(q["rx"], next_in["rx"]) ELSE q["rx"]
             tx == IF transmits THEN Got(q["tx"]) ELSE q["tx"]
  <2>1. /\ q' = [q EXCEPT !["rx"] = rx, !["tx"] = tx]
        /\ IF receives THEN dr' = FALSE /\ Number("rx") ELSE UNCHANGED <<dr, next_in>>
        /\ IF transmits
           THEN thr_empty' = FALSE /\ next_out' = [next_out EXCEPT !["tx"] = (Byte(q["tx"]) + 1) % Numbers]
           ELSE UNCHANGED <<thr_empty, next_out>>
        /\ ier' = Enabled(q')
        /\ UNCHANGED <<outer, pc, prints>>
    BY <1>10 DEF SerialInterrupt
  <2>2. rx \in IntQueues /\ tx \in IntQueues /\ rx.lock = q["rx"].lock /\ tx.lock = q["tx"].lock
    BY <1>7, <1>8, QueueOps
  <2>3. next_in' \in [Queues -> 0..(Numbers - 1)] /\ dr' \in BOOLEAN
    BY <1>0, <1>7, <1>9, <2>1 DEF Number, TypeOK
  <2>4. next_out' \in [Queues -> 0..(Numbers - 1)] /\ thr_empty' \in BOOLEAN
    BY <1>0, <1>7, <1>9, <2>1 DEF TypeOK
  <2>5. ier' \subseteq {"RECV", "XMIT"}
    BY <2>1, EnabledType
  <2>6. q' \in [Queues -> IntQueues]
    BY <1>0, <2>1, <2>2 DEF TypeOK
  <2>7. TypeOK'
    BY <1>0, <2>1, <2>3, <2>4, <2>5, <2>6 DEF TypeOK
  <2>8. \A x \in Queues : q'[x].lock = q[x].lock
    BY <1>0, <2>1, <2>2 DEF TypeOK, Queues
  <2> QED
    BY <1>6, <2>1, <2>7, <2>8
<1>11. CASE KeyboardInterrupt
  <2> DEFINE rx == Put(q["rx"], next_in["rx"])
  <2>1. /\ q' = [q EXCEPT !["rx"] = rx] /\ Number("rx") /\ ier' = Enabled(q')
        /\ UNCHANGED <<thr_empty, dr, outer, pc, next_out, prints>>
    BY <1>11 DEF KeyboardInterrupt
  <2>2. rx \in IntQueues /\ rx.lock = q["rx"].lock
    BY <1>7, <1>8, QueueOps
  <2>3. next_in' \in [Queues -> 0..(Numbers - 1)]
    BY <1>0, <1>7, <1>9, <2>1 DEF Number, TypeOK
  <2>4. ier' \subseteq {"RECV", "XMIT"}
    BY <2>1, EnabledType
  <2>5. TypeOK'
    BY <1>0, <2>1, <2>2, <2>3, <2>4 DEF TypeOK
  <2>6. \A x \in Queues : q'[x].lock = q[x].lock
    BY <1>0, <2>1, <2>2 DEF TypeOK
  <2> QED
    BY <1>6, <2>1, <2>5, <2>6
<1>12. CASE PutcInterruptsOff
  <2> DEFINE full == IsFull(q["tx"])
             tx == IF full THEN Got(q["tx"]) ELSE q["tx"]
             put == Put(tx, next_in["tx"])
  <2>1. /\ prints < MaxPrints /\ prints' = prints + 1
        /\ q' = [q EXCEPT !["tx"] = put]
        /\ IF full
           THEN thr_empty' = FALSE /\ next_out' = [next_out EXCEPT !["tx"] = (Byte(q["tx"]) + 1) % Numbers]
           ELSE UNCHANGED <<thr_empty, next_out>>
        /\ Number("tx") /\ ier' = Enabled(q')
        /\ UNCHANGED <<dr, outer, pc>>
    BY <1>12 DEF PutcInterruptsOff
  <2>2. tx \in IntQueues /\ tx.lock = q["tx"].lock
    BY <1>7, <1>8, QueueOps
  <2>3. put \in IntQueues /\ put.lock = q["tx"].lock
    BY <1>7, <1>8, <2>2, QueueOps
  <2>4. next_in' \in [Queues -> 0..(Numbers - 1)]
    BY <1>0, <1>7, <1>9, <2>1 DEF Number, TypeOK
  <2>5. next_out' \in [Queues -> 0..(Numbers - 1)] /\ thr_empty' \in BOOLEAN
    BY <1>0, <1>7, <1>9, <2>1 DEF TypeOK
  <2>6. ier' \subseteq {"RECV", "XMIT"}
    BY <2>1, EnabledType
  <2>7. prints' \in 0..MaxPrints
    BY <1>0, <2>1, SerialAssumption DEF TypeOK
  <2>8. q' \in [Queues -> IntQueues]
    BY <1>0, <2>1, <2>3 DEF TypeOK
  <2>9. TypeOK'
    BY <1>0, <2>1, <2>4, <2>5, <2>6, <2>7, <2>8 DEF TypeOK
  <2>10. \A x \in Queues : q'[x].lock = q[x].lock
    BY <1>0, <2>1, <2>3 DEF TypeOK
  <2> QED
    BY <1>6, <2>1, <2>9, <2>10
<1>13. CASE Hardware
  <2>1. TypeOK' /\ UNCHANGED <<q, outer, pc>>
    BY <1>0, <1>13 DEF Hardware, Transmitted, Received, TypeOK
  <2> QED
    BY <1>6, <2>1
<1>14. CASE UNCHANGED vars
  <2>1. TypeOK' /\ UNCHANGED <<q, outer, pc>>
    BY <1>0, <1>14 DEF vars, TypeOK
  <2> QED
    BY <1>6, <2>1
<1> QED
  BY <1>1, <1>3, <1>4, <1>5, <1>10, <1>11, <1>12, <1>13, <1>14 DEF Next, Step, Handlers

----------------------------------------------------------------------------
(* The bytes in a queue.                                                   *)

\* In a ring of B places: i places on from a, and how far t is behind h.
Turn(a, i, B) == IF a + i < B THEN a + i ELSE a + i - B
Gap(h, t, B) == IF t <= h THEN h - t ELSE h - t + B

\* Remainders of what is at most one turn too far.
LEMMA ModTurn ==
    ASSUME NEW B \in Nat \ {0, 1}, NEW a \in 0..(B - 1), NEW i \in 0..B
    PROVE  (a + i) % B = Turn(a, i, B)
  BY SMTT(30) DEF Turn

LEMMA ModGap ==
    ASSUME NEW B \in Nat \ {0, 1}, NEW h \in 0..(B - 1), NEW t \in 0..(B - 1)
    PROVE  (h - t + B) % B = Gap(h, t, B)
  BY SMTT(30) DEF Gap

\* The head moves on one place, to one that is not the tail's ...
LEMMA HeadTurns ==
    ASSUME NEW B \in Nat \ {0, 1}, NEW h \in 0..(B - 1), NEW t \in 0..(B - 1), Turn(h, 1, B) # t
    PROVE  /\ Gap(h, t, B) \in 0..(B - 2)
           /\ Gap(Turn(h, 1, B), t, B) = Gap(h, t, B) + 1
           /\ \A i \in 0..Gap(h, t, B) :
                 Turn(t, i, B) \in 0..(B - 1) /\ (Turn(t, i, B) = h <=> i = Gap(h, t, B))
  BY DEF Gap, Turn

\* ... and the tail one, that was not the head's.
LEMMA TailTurns ==
    ASSUME NEW B \in Nat \ {0, 1}, NEW h \in 0..(B - 1), NEW t \in 0..(B - 1), h # t
    PROVE  /\ Gap(h, t, B) \in 1..(B - 1)
           /\ Gap(h, Turn(t, 1, B), B) = Gap(h, t, B) - 1
           /\ \A i \in 0..(Gap(h, t, B) - 2) :
                 /\ Turn(Turn(t, 1, B), i, B) = Turn(t, i + 1, B)
                 /\ Turn(t, i + 1, B) \in 0..(B - 1) \ {t}
  BY DEF Gap, Turn

LEMMA TurnTwice ==
    ASSUME NEW B \in Nat \ {0, 1}, NEW a \in 0..(B - 1), NEW i \in 0..(B - 2)
    PROVE  /\ Turn(a, i, B) \in 0..(B - 1) /\ Turn(a, 1, B) \in 0..(B - 1)
           /\ Turn(Turn(a, i, B), 1, B) = Turn(a, i + 1, B)
           /\ Turn(Turn(a, 1, B), i, B) = Turn(a, i + 1, B)
  BY DEF Turn

\* BytesInOrder of one queue, whose bytes are numbered from first up to last.
Place(a, i) == Turn(a, i, INTQ_BUFSIZE)
Nth(first, i) == Turn(first, i, Numbers)
HeldIn(queue) == Gap(queue.head, queue.tail, INTQ_BUFSIZE)
InOrder(queue, first, last) ==
    /\ Nth(first, HeldIn(queue)) = last
    /\ \A i \in 0..(HeldIn(queue) - 1) : queue.buf[Place(queue.tail, i)] = Nth(first, i)

LEMMA Sizes ==
    /\ INTQ_BUFSIZE \in Nat \ {0, 1} /\ Numbers \in Nat \ {0, 1} /\ INTQ_BUFSIZE <= Numbers - 1
  BY SerialAssumption

LEMMA NextIsTurn ==
    /\ \A a \in 0..(INTQ_BUFSIZE - 1) : next(a) = Place(a, 1)
    /\ \A n \in 0..(Numbers - 1) : (n + 1) % Numbers = Nth(n, 1)
<1>1. 1 \in 0..INTQ_BUFSIZE /\ 1 \in 0..Numbers
  BY Sizes
<1>2. \A a \in 0..(INTQ_BUFSIZE - 1) : next(a) = Place(a, 1)
  BY <1>1, Sizes, ModTurn DEF next, Place
<1>3. \A n \in 0..(Numbers - 1) : (n + 1) % Numbers = Nth(n, 1)
  BY <1>1, Sizes, ModTurn DEF Nth
<1> QED
  BY <1>2, <1>3

LEMMA OrderByQueue ==
    TypeOK => (BytesInOrder <=> \A x \in Queues : InOrder(q[x], next_out[x], next_in[x]))
<1> SUFFICES ASSUME TypeOK, NEW x \in Queues
             PROVE  (/\ (next_out[x] + Length(x)) % Numbers = next_in[x]
                     /\ \A i \in 0..(Length(x) - 1) :
                           q[x].buf[(q[x].tail + i) % INTQ_BUFSIZE] = (next_out[x] + i) % Numbers)
                    <=> InOrder(q[x], next_out[x], next_in[x])
  BY DEF BytesInOrder
<1>1. PICK h \in 0..(INTQ_BUFSIZE - 1), t \in 0..(INTQ_BUFSIZE - 1) : h = q[x].head /\ t = q[x].tail
  BY DEF TypeOK, IntQueues
<1>2. PICK first \in 0..(Numbers - 1) : first = next_out[x]
  BY DEF TypeOK
<1>3. Length(x) = HeldIn(q[x]) /\ HeldIn(q[x]) \in 0..(INTQ_BUFSIZE - 1)
  <2>1. (h - t + INTQ_BUFSIZE) % INTQ_BUFSIZE = Gap(h, t, INTQ_BUFSIZE)
    BY Sizes, ModGap
  <2>2. Gap(h, t, INTQ_BUFSIZE) \in 0..(INTQ_BUFSIZE - 1)
    BY Sizes DEF Gap
  <2> QED
    BY <1>1, <2>1, <2>2 DEF Length, HeldIn
<1>4. ASSUME NEW i \in 0..(INTQ_BUFSIZE - 1)
      PROVE  /\ (first + i) % Numbers = Nth(first, i)
             /\ (t + i) % INTQ_BUFSIZE = Place(t, i)
  <2>1. i \in 0..Numbers /\ i \in 0..INTQ_BUFSIZE
    BY Sizes
  <2>2. (first + i) % Numbers = Nth(first, i)
    BY <2>1, Sizes, ModTurn DEF Nth
  <2>3. (t + i) % INTQ_BUFSIZE = Place(t, i)
    BY <2>1, Sizes, ModTurn DEF Place
  <2> QED
    BY <2>2, <2>3
<1>5. \A i \in 0..(HeldIn(q[x]) - 1) : i \in 0..(INTQ_BUFSIZE - 1)
  BY <1>3, Sizes
<1> QED
  BY <1>1, <1>2, <1>3, <1>4, <1>5 DEF InOrder

\* A byte that goes into a queue that is not full is its last.
LEMMA PutInOrder ==
    ASSUME NEW queue \in IntQueues, NEW first \in 0..(Numbers - 1), NEW last \in 0..(Numbers - 1),
           InOrder(queue, first, last), ~IsFull(queue)
    PROVE  InOrder(Put(queue, last), first, (last + 1) % Numbers)
<1> DEFINE put == Put(queue, last)
<1>1. PICK h \in 0..(INTQ_BUFSIZE - 1), t \in 0..(INTQ_BUFSIZE - 1) : h = queue.head /\ t = queue.tail
  BY DEF IntQueues
<1>2. PICK n : n = HeldIn(queue)
  OBVIOUS
<1>3. /\ put.head = Place(h, 1) /\ put.tail = t
      /\ \A j \in 0..(INTQ_BUFSIZE - 1) : put.buf[j] = IF j = h THEN last ELSE queue.buf[j]
  BY <1>1, NextIsTurn DEF Put, IntQueues
<1>4. Place(h, 1) # t
  BY <1>1, NextIsTurn DEF IsFull
<1>5. /\ n \in 0..(INTQ_BUFSIZE - 2) /\ Gap(Place(h, 1), t, INTQ_BUFSIZE) = n + 1
      /\ \A i \in 0..n : Place(t, i) \in 0..(INTQ_BUFSIZE - 1) /\ (Place(t, i) = h <=> i = n)
  <2>1. Turn(h, 1, INTQ_BUFSIZE) # t /\ n = Gap(h, t, INTQ_BUFSIZE)
    BY <1>1, <1>2, <1>4 DEF Place, HeldIn
  <2>2. /\ n \in 0..(INTQ_BUFSIZE - 2) /\ Gap(Turn(h, 1, INTQ_BUFSIZE), t, INTQ_BUFSIZE) = n + 1
        /\ \A i \in 0..n : /\ Turn(t, i, INTQ_BUFSIZE) \in 0..(INTQ_BUFSIZE - 1)
                           /\ Turn(t, i, INTQ_BUFSIZE) = h <=> i = n
    BY <2>1, Sizes, HeadTurns
  <2> QED
    BY <2>2 DEF Place
<1>6. Nth(first, n) = last /\ \A i \in 0..(n - 1) : queue.buf[Place(t, i)] = Nth(first, i)
  BY <1>1, <1>2 DEF InOrder
<1>7. Nth(first, n + 1) = (last + 1) % Numbers
  <2>1. n \in 0..(Numbers - 2)
    BY <1>5, Sizes
  <2> QED
    BY <1>6, <2>1, Sizes, TurnTwice, NextIsTurn DEF Nth
<1>8. HeldIn(put) = n + 1
  BY <1>3, <1>5 DEF HeldIn
<1>9. ASSUME NEW i \in 0..((n + 1) - 1) PROVE put.buf[Place(put.tail, i)] = Nth(first, i)
  <2>1. i \in 0..n
    BY <1>5
  <2>2. CASE i = n
    BY <1>3, <1>5, <1>6, <2>1, <2>2
  <2>3. CASE i # n
    <3>1. i \in 0..(n - 1)
      BY <1>5, <2>1, <2>3
    <3> QED
      BY <1>3, <1>5, <1>6, <2>1, <2>3, <3>1
  <2> QED
    BY <2>2, <2>3
<1> QED
  BY <1>7, <1>8, <1>9 DEF InOrder

\* The byte that comes out of a queue that is not empty is its first.
LEMMA GotInOrder ==
    ASSUME NEW queue \in IntQueues, NEW first \in 0..(Numbers - 1), NEW last \in 0..(Numbers - 1),
           InOrder(queue, first, last), ~IsEmpty(queue)
    PROVE  InOrder(Got(queue), (Byte(queue) + 1) % Numbers, last)
<1> DEFINE got == Got(queue)
<1>1. PICK h \in 0..(INTQ_BUFSIZE - 1), t \in 0..(INTQ_BUFSIZE - 1) : h = queue.head /\ t = queue.tail
  BY DEF IntQueues
<1>2. PICK n : n = HeldIn(queue)
  OBVIOUS
<1>3. /\ got.head = h /\ got.tail = Place(t, 1)
      /\ \A j \in 0..(INTQ_BUFSIZE - 1) \ {t} : got.buf[j] = queue.buf[j]
  BY <1>1, NextIsTurn DEF Got, IntQueues
<1>4. h # t
  BY <1>1 DEF IsEmpty
<1>5. /\ n \in 1..(INTQ_BUFSIZE - 1) /\ Gap(h, Place(t, 1), INTQ_BUFSIZE) = n - 1
      /\ \A i \in 0..(n - 2) : /\ Place(Place(t, 1), i) = Place(t, i + 1)
                               /\ Place(t, i + 1) \in 0..(INTQ_BUFSIZE - 1) \ {t}
  <2>1. n = Gap(h, t, INTQ_BUFSIZE)
    BY <1>1, <1>2 DEF HeldIn
  <2>2. /\ n \in 1..(INTQ_BUFSIZE - 1) /\ Gap(h, Turn(t, 1, INTQ_BUFSIZE), INTQ_BUFSIZE) = n - 1
        /\ \A i \in 0..(n - 2) :
              /\ Turn(Turn(t, 1, INTQ_BUFSIZE), i, INTQ_BUFSIZE) = Turn(t, i + 1, INTQ_BUFSIZE)
              /\ Turn(t, i + 1, INTQ_BUFSIZE) \in 0..(INTQ_BUFSIZE - 1) \ {t}
    BY <1>4, <2>1, Sizes, TailTurns
  <2> QED
    BY <2>2 DEF Place
<1>6. Nth(first, n) = last /\ \A i \in 0..(n - 1) : queue.buf[Place(t, i)] = Nth(first, i)
  BY <1>1, <1>2 DEF InOrder
<1>7. Byte(queue) = first
  <2>1. Place(t, 0) = t /\ Nth(first, 0) = first
    BY Sizes DEF Place, Nth, Turn
  <2>2. 0 \in 0..(n - 1)
    BY <1>5
  <2> QED
    BY <1>1, <1>6, <2>1, <2>2 DEF Byte
<1>8. HeldIn(got) = n - 1
  BY <1>3, <1>5 DEF HeldIn
<1>9. Nth(Nth(first, 1), n - 1) = last
  <2>1. n - 1 \in 0..(Numbers - 2) /\ (n - 1) + 1 = n
    BY <1>5, Sizes
  <2> QED
    BY <1>6, <2>1, Sizes, TurnTwice DEF Nth
<1>10. ASSUME NEW i \in 0..((n - 1) - 1) PROVE got.buf[Place(got.tail, i)] = Nth(Nth(first, 1), i)
  <2>1. i \in 0..(n - 2) /\ i + 1 \in 0..(n - 1) /\ i \in 0..(Numbers - 2)
    BY <1>5, Sizes
  <2>2. got.buf[Place(got.tail, i)] = queue.buf[Place(t, i + 1)]
    BY <1>3, <1>5, <2>1
  <2>3. Nth(Nth(first, 1), i) = Nth(first, i + 1)
    BY <2>1, Sizes, TurnTwice DEF Nth
  <2> QED
    BY <1>6, <2>1, <2>2, <2>3
<1>11. InOrder(got, Nth(first, 1), last)
  BY <1>8, <1>9, <1>10 DEF InOrder
<1> QED
  BY <1>7, <1>11, NextIsTurn

\* Only head, tail and the buffer count.
LEMMA SameInOrder ==
    ASSUME NEW a, NEW b, a.head = b.head, a.tail = b.tail, a.buf = b.buf, NEW first, NEW last
    PROVE  InOrder(a, first, last) <=> InOrder(b, first, last)
  BY DEF InOrder, HeldIn

\* A byte that is sent by polling makes room.
LEMMA GotMakesRoom ==
    ASSUME NEW queue \in IntQueues, IsFull(queue)
    PROVE  ~IsEmpty(queue) /\ ~IsFull(Got(queue))
<1>1. PICK h \in 0..(INTQ_BUFSIZE - 1), t \in 0..(INTQ_BUFSIZE - 1) : h = queue.head /\ t = queue.tail
  BY DEF IntQueues
<1>2. Got(queue).head = h /\ Got(queue).tail = Place(t, 1)
  BY <1>1, NextIsTurn DEF Got, IntQueues
<1>3. Place(h, 1) = t
  BY <1>1, NextIsTurn DEF IsFull
<1>4. h # t /\ Place(h, 1) # Place(t, 1)
  BY <1>3, Sizes DEF Place, Turn
<1> QED
  BY <1>1, <1>2, <1>4, NextIsTurn DEF IsFull, IsEmpty

LEMMA InitOrder == Init => BytesInOrder
<1> SUFFICES ASSUME Init PROVE BytesInOrder
  OBVIOUS
<1>1. TypeOK
  BY InitIInv DEF IInv
<1>2. ASSUME NEW x \in Queues PROVE InOrder(q[x], next_out[x], next_in[x])
  <2>1. q[x].head = 0 /\ q[x].tail = 0 /\ next_out[x] = 0 /\ next_in[x] = 0
    BY <1>2 DEF Init, NewQueue
  <2>2. HeldIn(q[x]) = 0 /\ Nth(0, 0) = 0
    BY <2>1, Sizes DEF HeldIn, Gap, Nth, Turn
  <2> QED
    BY <2>1, <2>2 DEF InOrder
<1> QED
  BY <1>1, <1>2, OrderByQueue

Ordered(x) == InOrder(q[x], next_out[x], next_in[x])

\* One queue changes, and is in order.
LEMMA OtherQueues ==
    ASSUME TypeOK, \A y \in Queues : Ordered(y), NEW x \in Queues,
           NEW new, q' = [q EXCEPT ![x] = new],
           \A y \in Queues : y # x => next_in'[y] = next_in[y] /\ next_out'[y] = next_out[y],
           InOrder(new, next_out'[x], next_in'[x])
    PROVE  \A y \in Queues : Ordered(y)'
<1>1. \A y \in Queues : q'[y] = IF y = x THEN new ELSE q[y]
  BY DEF TypeOK
<1> QED
  BY <1>1 DEF Ordered

\* A thread goes to sleep, ...
LEMMA SleepOrder ==
    ASSUME TypeOK, NEW t \in Thread, NEW queue \in IntQueues,
           InOrder(queue, next_out[QueueOf(t)], next_in[QueueOf(t)]),
           \A x \in Queues : Ordered(x), SleepsIn(t, queue)
    PROVE  \A x \in Queues : Ordered(x)'
<1> DEFINE x == QueueOf(t)
           queued == [queue EXCEPT !.lock = Enqueued(@, t)]
           waiting == [queue EXCEPT !.lock = Lowered(@), !.waiter = t]
<1>1. x \in Queues /\ UNCHANGED <<next_in, next_out>>
  BY QueueOfType DEF SleepsIn
<1>2. q' = q \/ q' = [q EXCEPT ![x] = queued] \/ q' = [q EXCEPT ![x] = waiting]
  BY DEF SleepsIn
<1>3. /\ queued.head = queue.head /\ queued.tail = queue.tail /\ queued.buf = queue.buf
      /\ waiting.head = queue.head /\ waiting.tail = queue.tail /\ waiting.buf = queue.buf
  BY DEF IntQueues
<1> HIDE DEF queued, waiting
<1>4. InOrder(queued, next_out[x], next_in[x]) /\ InOrder(waiting, next_out[x], next_in[x])
  BY <1>3, SameInOrder
<1>5. CASE q' = q
  BY <1>1, <1>5 DEF Ordered
<1> QED
  BY <1>1, <1>2, <1>4, <1>5, OtherQueues

\* ... or moves a byte.
LEMMA AttemptOrder ==
    ASSUME TypeOK, NEW t \in Thread, NEW queue \in IntQueues,
           InOrder(queue, next_out[QueueOf(t)], next_in[QueueOf(t)]),
           \A x \in Queues : Ordered(x), Attempt(t, queue)
    PROVE  \A x \in Queues : Ordered(x)'
<1> DEFINE x == QueueOf(t)
<1>1. /\ x \in Queues /\ next_in[x] \in 0..(Numbers - 1) /\ next_out[x] \in 0..(Numbers - 1)
      /\ next_in \in [Queues -> 0..(Numbers - 1)] /\ next_out \in [Queues -> 0..(Numbers - 1)]
  BY QueueOfType DEF TypeOK
<1>2. CASE MustWait(t, queue)
  BY <1>2, SleepOrder DEF Attempt
<1>3. CASE ~MustWait(t, queue) /\ t \in Readers
  <2>1. /\ q' = [q EXCEPT ![x] = Got(queue)] /\ next_in' = next_in
        /\ next_out' = [next_out EXCEPT ![x] = (Byte(queue) + 1) % Numbers]
    BY <1>3 DEF Attempt
  <2>2. InOrder(Got(queue), (Byte(queue) + 1) % Numbers, next_in[x])
    BY <1>1, <1>3, GotInOrder DEF MustWait
  <2> QED
    BY <1>1, <2>1, <2>2, OtherQueues
<1>4. CASE ~MustWait(t, queue) /\ t \notin Readers
  <2>1. /\ q' = [q EXCEPT ![x] = Put(queue, next_in[x])] /\ next_out' = next_out
        /\ next_in' = [next_in EXCEPT ![x] = (next_in[x] + 1) % Numbers]
    BY <1>4 DEF Attempt, Number
  <2>2. InOrder(Put(queue, next_in[x]), next_out[x], (next_in[x] + 1) % Numbers)
    BY <1>1, <1>4, PutInOrder DEF MustWait
  <2> QED
    BY <1>1, <2>1, <2>2, OtherQueues
<1> QED
  BY <1>2, <1>3, <1>4

LEMMA OrderLater == TypeOK' /\ (\A x \in Queues : Ordered(x)') => BytesInOrder'
<1>1. TypeOK /\ (\A x \in Queues : Ordered(x)) => BytesInOrder
  BY OrderByQueue DEF Ordered
<1>2. TypeOK' /\ (\A x \in Queues : Ordered(x))' => BytesInOrder'
  BY <1>1, PTL
<1> QED
  BY <1>2

LEMMA NextOrder == TypeOK /\ TypeOK' /\ BytesInOrder /\ [Next]_vars => BytesInOrder'
<1> SUFFICES ASSUME TypeOK, TypeOK', BytesInOrder, [Next]_vars PROVE BytesInOrder'
  OBVIOUS
<1>1. \A x \in Queues : Ordered(x)
  BY OrderByQueue DEF Ordered
<1>2. /\ q \in [Queues -> IntQueues]
      /\ next_in \in [Queues -> 0..(Numbers - 1)] /\ next_out \in [Queues -> 0..(Numbers - 1)]
  BY DEF TypeOK
<1>3. (\A x \in Queues : Ordered(x)') => BytesInOrder'
  BY OrderLater
<1>4. Queues = {"rx", "tx"} /\ "rx" \in Queues /\ "tx" \in Queues
  BY DEF Queues
<1>5. /\ InOrder(q["rx"], next_out["rx"], next_in["rx"])
      /\ InOrder(q["tx"], next_out["tx"], next_in["tx"])
      /\ q["rx"] \in IntQueues /\ q["tx"] \in IntQueues
      /\ next_in["rx"] \in 0..(Numbers - 1) /\ next_out["rx"] \in 0..(Numbers - 1)
      /\ next_in["tx"] \in 0..(Numbers - 1) /\ next_out["tx"] \in 0..(Numbers - 1)
  BY <1>1, <1>2, <1>4 DEF Ordered
<1>6. ASSUME NEW t \in Thread, Call(t) PROVE BytesInOrder'
  <2>1. /\ q[QueueOf(t)] \in IntQueues
        /\ InOrder(q[QueueOf(t)], next_out[QueueOf(t)], next_in[QueueOf(t)])
    BY <1>1, <1>2, QueueOfType DEF Ordered
  <2> QED
    BY <1>1, <1>3, <1>6, <2>1, AttemptOrder DEF Call
<1>7. ASSUME NEW t \in Thread, Woken(t) PROVE BytesInOrder'
  <2> DEFINE queue == q[QueueOf(t)]
             released == [queue EXCEPT !.lock = Raised(@)]
  <2>1. queue \in IntQueues /\ InOrder(queue, next_out[QueueOf(t)], next_in[QueueOf(t)])
    BY <1>1, <1>2, QueueOfType DEF Ordered
  <2>2. /\ released \in IntQueues
        /\ released.head = queue.head /\ released.tail = queue.tail /\ released.buf = queue.buf
    <3>1. queue.lock \in Semaphores(Thread)
      BY <2>1 DEF IntQueues
    <3>2. Raised(queue.lock) \in Semaphores(Thread)
      BY <3>1, SemaOps
    <3> QED
      BY <2>1, <3>2 DEF IntQueues
  <2>3. InOrder(released, next_out[QueueOf(t)], next_in[QueueOf(t)])
    BY <2>1, <2>2, SameInOrder
  <2>4. CASE pc[t] = "lock"
    <3>1. SleepsIn(t, queue)
      BY <1>7, <2>4 DEF Woken
    <3> QED
      BY <1>1, <1>3, <2>1, <3>1, SleepOrder
  <2>5. CASE pc[t] # "lock"
    <3>1. Attempt(t, released)
      BY <1>7, <2>5 DEF Woken
    <3> QED
      BY <1>1, <1>3, <2>2, <2>3, <3>1, AttemptOrder
  <2> QED
    BY <2>4, <2>5
<1>8. CASE SerialInterrupt
  <2> DEFINE receives == dr /\ ~IsFull(q["rx"])
             transmits == ~IsEmpty(q["tx"]) /\ thr_empty
             rx == IF receives THEN Put(q["rx"], next_in["rx"]) ELSE q["rx"]
             tx == IF transmits THEN Got(q["tx"]) ELSE q["tx"]
  <2>1. /\ q' = [q EXCEPT !["rx"] = rx, !["tx"] = tx]
        /\ IF receives THEN Number("rx") ELSE next_in' = next_in
        /\ IF transmits THEN next_out' = [next_out EXCEPT !["tx"] = (Byte(q["tx"]) + 1) % Numbers]
                        ELSE next_out' = next_out
    BY <1>8 DEF SerialInterrupt
  <2>2. q'["rx"] = rx /\ q'["tx"] = tx
    BY <1>2, <1>4, <2>1
  <2>3. /\ next_in'["rx"] = IF receives THEN (next_in["rx"] + 1) % Numbers ELSE next_in["rx"]
        /\ next_in'["tx"] = next_in["tx"]
    BY <1>2, <1>4, <2>1 DEF Number
  <2>4. /\ next_out'["tx"] = IF transmits THEN (Byte(q["tx"]) + 1) % Numbers ELSE next_out["tx"]
        /\ next_out'["rx"] = next_out["rx"]
    BY <1>2, <1>4, <2>1
  <2>5. InOrder(rx, next_out["rx"], next_in'["rx"])
    BY <1>5, <2>3, PutInOrder
  <2>6. InOrder(tx, next_out'["tx"], next_in["tx"])
    BY <1>5, <2>4, GotInOrder
  <2> HIDE DEF rx, tx
  <2>7. \A x \in Queues : Ordered(x)'
    BY <1>4, <2>2, <2>3, <2>4, <2>5, <2>6 DEF Ordered
  <2> QED
    BY <1>3, <2>7
<1>9. CASE KeyboardInterrupt
  <2>1. /\ q' = [q EXCEPT !["rx"] = Put(q["rx"], next_in["rx"])] /\ next_out' = next_out
        /\ next_in' = [next_in EXCEPT !["rx"] = (next_in["rx"] + 1) % Numbers]
        /\ ~IsFull(q["rx"])
    BY <1>9 DEF KeyboardInterrupt, Number
  <2>2. InOrder(Put(q["rx"], next_in["rx"]), next_out["rx"], (next_in["rx"] + 1) % Numbers)
    BY <1>5, <2>1, PutInOrder
  <2>3. /\ q'["rx"] = Put(q["rx"], next_in["rx"]) /\ q'["tx"] = q["tx"]
        /\ next_in'["rx"] = (next_in["rx"] + 1) % Numbers /\ next_in'["tx"] = next_in["tx"]
    BY <1>2, <1>4, <2>1
  <2>4. \A x \in Queues : Ordered(x)'
    BY <1>4, <1>5, <2>1, <2>2, <2>3 DEF Ordered
  <2> QED
    BY <1>3, <2>4
<1>10. CASE PutcInterruptsOff
  <2> DEFINE full == IsFull(q["tx"])
             tx == IF full THEN Got(q["tx"]) ELSE q["tx"]
             first == IF full THEN (Byte(q["tx"]) + 1) % Numbers ELSE next_out["tx"]
  <2>1. /\ q' = [q EXCEPT !["tx"] = Put(tx, next_in["tx"])]
        /\ next_in' = [next_in EXCEPT !["tx"] = (next_in["tx"] + 1) % Numbers]
        /\ IF full THEN next_out' = [next_out EXCEPT !["tx"] = (Byte(q["tx"]) + 1) % Numbers]
                   ELSE next_out' = next_out
    BY <1>10 DEF PutcInterruptsOff, Number
  <2>2. /\ q'["tx"] = Put(tx, next_in["tx"]) /\ q'["rx"] = q["rx"]
        /\ next_in'["tx"] = (next_in["tx"] + 1) % Numbers /\ next_in'["rx"] = next_in["rx"]
        /\ next_out'["tx"] = first /\ next_out'["rx"] = next_out["rx"]
    BY <1>2, <1>4, <2>1
  <2>3. tx \in IntQueues /\ ~IsFull(tx)
    BY <1>5, QueueOps, GotMakesRoom
  <2>4. InOrder(tx, first, next_in["tx"]) /\ first \in 0..(Numbers - 1)
    BY <1>5, GotInOrder, GotMakesRoom, QueueOps, NumberInRange
  <2>5. InOrder(Put(tx, next_in["tx"]), first, (next_in["tx"] + 1) % Numbers)
    BY <1>5, <2>3, <2>4, PutInOrder
  <2> HIDE DEF tx, first
  <2>6. \A x \in Queues : Ordered(x)'
    BY <1>4, <1>5, <2>2, <2>5 DEF Ordered
  <2> QED
    BY <1>3, <2>6
\* Everything else leaves the queues alone.
<1>11. ASSUME UNCHANGED <<q, next_in, next_out>> PROVE BytesInOrder'
  BY <1>11 DEF BytesInOrder, Length
<1>12. CASE Hardware
  BY <1>11, <1>12 DEF Hardware, Transmitted, Received
<1>13. ASSUME NEW t \in Thread, Enter(t) \/ Leave(t) PROVE BytesInOrder'
  BY <1>11, <1>13 DEF Enter, Leave
<1>14. CASE UNCHANGED vars
  BY <1>11, <1>14 DEF vars
<1> QED
  BY <1>6, <1>7, <1>8, <1>9, <1>10, <1>12, <1>13, <1>14 DEF Next, Step, Handlers

----------------------------------------------------------------------------
(* Theorems.                                                               *)

\* The inductive invariant holds in every reachable state.
THEOREM Inductive == Spec => []IInv
  BY InitIInv, NextIInv, PTL DEF Spec

\* The serial port's data keep their types: neither end of a queue leaves its
\* buffer (intq.c:77-82).
THEOREM TypeCorrect == Spec => []TypeOK
<1>1. IInv => TypeOK
  BY DEF IInv
<1> QED
  BY <1>1, Inductive, PTL

\* wait's assertion never fails, however many threads print and read
\* (intq.c:91): they take turns with console_lock and fileLock.
THEOREM AssertionsHold == Spec => []NoPanic
<1>1. IInv => NoPanic
  BY DEF IInv, InTurn, NoPanic
<1> QED
  BY <1>1, Inductive, PTL

\* No byte is lost between a handler and a thread, none comes twice and none
\* overtakes another, whichever of them takes which turn (intq.c:38-82).
THEOREM FirstInFirstOut == Spec => []BytesInOrder
  BY InitOrder, NextOrder, TypeCorrect, PTL DEF Spec
============================================================================
