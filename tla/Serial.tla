------------------------------- MODULE Serial -------------------------------
(***************************************************************************)
(* The console's serial port and keyboard in project 4                     *)
(* (os_prj4_20191599/src/devices): the interrupt queues of intq.c between  *)
(* threads and interrupt handlers, serial.c, input.c and kbd.c.            *)
(*                                                                         *)
(* Threads that print hold console_lock (lib/kernel/console.c) and put     *)
(* bytes in txq, which the serial interrupt empties; threads that read the *)
(* keyboard hold fileLock (mySysRead) and take keys from the input buffer, *)
(* which the keyboard and the serial interrupts fill.  Interrupts are off  *)
(* inside the queues: what a thread or a handler does there is one step,   *)
(* until the thread sleeps.  Bytes are numbered, modulo Numbers, in the    *)
(* order in which they go into a queue.                                    *)
(***************************************************************************)
EXTENDS FifoSema, FiniteSets

CONSTANTS
    Readers,      \* threads that call input_getc
    Writers,      \* threads that call serial_putc
    INTQ_BUFSIZE,
    Numbers,      \* bound: bytes are numbered modulo this
    MaxPrints,    \* bound: bytes that interrupt handlers print
    NULL

Thread == Readers \union Writers

ASSUME SerialAssumption ==
    /\ Readers \intersect Writers = {} /\ NULL \notin Thread
    /\ INTQ_BUFSIZE \in Nat \ {0, 1}
    /\ MaxPrints \in Nat
    /\ Numbers \in Nat /\ Numbers > INTQ_BUFSIZE

VARIABLES
    q,         \* the queues: rx is the input buffer, tx is txq
    ier,       \* the interrupt enable register
    thr_empty, \* line status: the transmitter takes a byte
    dr,        \* line status: a byte has been received
    outer,     \* fileLock for rx, console_lock for tx
    pc,
    next_in,   \* the number of the next byte to go into each queue
    next_out,  \* the number of the next byte to come out of it
    prints     \* bytes that handlers have printed

vars == <<q, ier, thr_empty, dr, outer, pc, next_in, next_out, prints>>

Queues == {"rx", "tx"}
QueueOf(t) == IF t \in Readers THEN "rx" ELSE "tx"

\* struct intq.  Threads wait at one end of each queue only, so that of
\* not_full and not_empty one is always NULL; waiter is the other.
NewQueue == [lock |-> NewSema(1), waiter |-> NULL, head |-> 0, tail |-> 0,
             buf |-> [i \in 0..(INTQ_BUFSIZE - 1) |-> 0]]

next_NoWrap(pos) == pos + 1
next(pos) == (pos + 1) % INTQ_BUFSIZE
IsEmpty(queue) == queue.head = queue.tail
IsFull_Never(queue) == next(queue.head) = queue.head
IsFull(queue) == next(queue.head) = queue.tail

\* intq_putc and intq_getc when they need not wait: the byte, then signal.
\* Nothing reads a slot whose byte has left: it becomes 0.
Put_NoSignal(queue, byte) ==
    [queue EXCEPT !.buf[queue.head] = byte, !.head = next(@)]
Put(queue, byte) ==
    [queue EXCEPT !.buf[queue.head] = byte, !.head = next(@), !.waiter = NULL]
Got(queue) == [queue EXCEPT !.buf[queue.tail] = 0, !.tail = next(@), !.waiter = NULL]
Byte(queue) == queue.buf[queue.tail]

MustWait(t, queue) == IF t \in Readers THEN IsEmpty(queue) ELSE IsFull(queue)

\* write_ier
Enabled_NoTransmit(qs) == IF IsFull(qs["rx"]) THEN {} ELSE {"RECV"}
Enabled(qs) ==
    (IF IsEmpty(qs["tx"]) THEN {} ELSE {"XMIT"}) \union (IF IsFull(qs["rx"]) THEN {} ELSE {"RECV"})

Goto(t, l) == pc' = [pc EXCEPT ![t] = l]
Asleep(t) == Waits(t, outer[QueueOf(t)]) \/ Waits(t, q[QueueOf(t)].lock) \/ q[QueueOf(t)].waiter = t
At(t, l) == pc[t] = l /\ ~Asleep(t)

Number(x) == next_in' = [next_in EXCEPT ![x] = (@ + 1) % Numbers]

----------------------------------------------------------------------------
(* Threads.                                                                *)

\* The caller takes console_lock or fileLock.
Enter_Unlocked(t) ==
    /\ At(t, "enter")
    /\ Goto(t, "call")
    /\ UNCHANGED <<q, ier, thr_empty, dr, outer, next_in, next_out, prints>>
Enter(t) ==
    LET x == QueueOf(t) IN
    /\ At(t, "enter")
    /\ IF IsZero(outer[x])
       THEN outer' = [outer EXCEPT ![x] = Enqueued(@, t)] /\ UNCHANGED pc
       ELSE outer' = [outer EXCEPT ![x] = Lowered(@)] /\ Goto(t, "call")
    /\ UNCHANGED <<q, ier, thr_empty, dr, next_in, next_out, prints>>

\* lock_acquire and wait, in intq_getc and intq_putc: the thread sleeps for
\* the lock, or, once it has it, for the condition, which wait asserts is not
\* yet true.
SleepsIn(t, queue) ==
    LET x == QueueOf(t) IN
    /\ IF IsZero(queue.lock)
       THEN q' = [q EXCEPT ![x] = [queue EXCEPT !.lock = Enqueued(@, t)]] /\ Goto(t, "lock")
       ELSE IF MustWait(t, queue)
       THEN q' = [q EXCEPT ![x] = [queue EXCEPT !.lock = Lowered(@), !.waiter = t]] /\ Goto(t, "wait")
       ELSE q' = q /\ Goto(t, "panic")
    /\ UNCHANGED <<ier, next_in, next_out>>

\* The loop of intq_getc or intq_putc: the byte moves if it can, and
\* serial_notify or write_ier follows.
Attempt(t, queue) ==
    LET x == QueueOf(t) IN
    IF MustWait(t, queue) THEN SleepsIn(t, queue)
    ELSE /\ q' = [q EXCEPT ![x] = IF t \in Readers THEN Got(queue) ELSE Put(queue, next_in[x])]
         /\ ier' = Enabled(q')
         /\ Goto(t, "leave")
         /\ IF t \in Readers
            THEN next_out' = [next_out EXCEPT ![x] = (Byte(queue) + 1) % Numbers] /\ UNCHANGED next_in
            ELSE Number(x) /\ UNCHANGED next_out

Call(t) ==
    /\ At(t, "call")
    /\ Attempt(t, q[QueueOf(t)])
    /\ UNCHANGED <<thr_empty, dr, outer, prints>>

\* Woken up in lock_acquire it goes on from there; woken up in wait it
\* releases the lock and looks again.
Woken(t) ==
    LET queue == q[QueueOf(t)] IN
    /\ At(t, "lock") \/ At(t, "wait")
    /\ IF pc[t] = "lock" THEN SleepsIn(t, queue)
       ELSE Attempt(t, [queue EXCEPT !.lock = Raised(@)])
    /\ UNCHANGED <<thr_empty, dr, outer, prints>>

\* One more byte under the same lock, or back to the caller.
Leave(t) ==
    /\ At(t, "leave")
    /\ \/ Goto(t, "call") /\ UNCHANGED outer
       \/ Goto(t, "enter") /\ outer' = [outer EXCEPT ![QueueOf(t)] = Raised(@)]
    /\ UNCHANGED <<q, ier, thr_empty, dr, next_in, next_out, prints>>

----------------------------------------------------------------------------
(* Interrupt handlers.                                                     *)

\* serial_interrupt: receive as long as there is room, transmit as long as
\* the port takes a byte, which is once.
SerialInterrupt ==
    LET receives == dr /\ ~IsFull(q["rx"])
        transmits == ~IsEmpty(q["tx"]) /\ thr_empty
        rx == IF receives THEN Put(q["rx"], next_in["rx"]) ELSE q["rx"]
        tx == IF transmits THEN Got(q["tx"]) ELSE q["tx"]
    IN  /\ ("RECV" \in ier /\ dr) \/ ("XMIT" \in ier /\ thr_empty)
        /\ q' = [q EXCEPT !["rx"] = rx, !["tx"] = tx]
        /\ IF receives THEN dr' = FALSE /\ Number("rx") ELSE UNCHANGED <<dr, next_in>>
        /\ IF transmits
           THEN thr_empty' = FALSE /\ next_out' = [next_out EXCEPT !["tx"] = (Byte(q["tx"]) + 1) % Numbers]
           ELSE UNCHANGED <<thr_empty, next_out>>
        /\ ier' = Enabled(q')
        /\ UNCHANGED <<outer, pc, prints>>

\* keyboard_interrupt: a key that finds the buffer full is dropped.
KeyboardInterrupt ==
    /\ ~IsFull(q["rx"])
    /\ q' = [q EXCEPT !["rx"] = Put(@, next_in["rx"])]
    /\ Number("rx")
    /\ ier' = Enabled(q')
    /\ UNCHANGED <<thr_empty, dr, outer, pc, next_out, prints>>

\* serial_putc with interrupts off, as when a handler prints: if txq is full
\* its first byte is sent at once, by polling.
PutcInterruptsOff ==
    LET full == IsFull(q["tx"])
        tx == IF full THEN Got(q["tx"]) ELSE q["tx"]
    IN  /\ prints < MaxPrints /\ prints' = prints + 1
        /\ q' = [q EXCEPT !["tx"] = Put(tx, next_in["tx"])]
        /\ IF full
           THEN thr_empty' = FALSE /\ next_out' = [next_out EXCEPT !["tx"] = (Byte(q["tx"]) + 1) % Numbers]
           ELSE UNCHANGED <<thr_empty, next_out>>
        /\ Number("tx")
        /\ ier' = Enabled(q')
        /\ UNCHANGED <<dr, outer, pc>>

----------------------------------------------------------------------------
(* The UART.                                                               *)

\* The byte leaves on the line.
Transmitted ==
    /\ ~thr_empty
    /\ thr_empty' = TRUE
    /\ UNCHANGED <<q, ier, dr, outer, pc, next_in, next_out, prints>>

\* A byte arrives; what a sender does before the last has been taken is lost
\* in the hardware.
Received ==
    /\ ~dr
    /\ dr' = TRUE
    /\ UNCHANGED <<q, ier, thr_empty, outer, pc, next_in, next_out, prints>>

----------------------------------------------------------------------------
\* After serial_init_queue.
Init ==
    /\ q = [x \in Queues |-> NewQueue]
    /\ ier = Enabled(q)
    /\ thr_empty = TRUE /\ dr = FALSE
    /\ outer = [x \in Queues |-> NewSema(1)]
    /\ pc = [t \in Thread |-> "enter"]
    /\ next_in = [x \in Queues |-> 0]
    /\ next_out = [x \in Queues |-> 0]
    /\ prints = 0

Step(t) == Call(t) \/ Woken(t) \/ Leave(t)
Hardware == Transmitted \/ Received
Handlers == SerialInterrupt \/ KeyboardInterrupt \/ PutcInterruptsOff

Next == Hardware \/ Handlers \/ \E t \in Thread : Enter(t) \/ Step(t)

\* The line takes bytes, interrupts are delivered, and a thread that is ready
\* runs.
Fairness ==
    /\ WF_vars(Transmitted) /\ WF_vars(SerialInterrupt)
    /\ \A t \in Thread :
          /\ WF_vars(Enter(t)) /\ WF_vars(Call(t)) /\ WF_vars(Woken(t))

Spec == Init /\ [][Next]_vars /\ Fairness

----------------------------------------------------------------------------
(* Properties.                                                             *)

IntQueues == [lock : Semaphores(Thread), waiter : Thread \union {NULL},
              head : 0..(INTQ_BUFSIZE - 1), tail : 0..(INTQ_BUFSIZE - 1),
              buf : [0..(INTQ_BUFSIZE - 1) -> 0..(Numbers - 1)]]

TypeOK ==
    /\ q \in [Queues -> IntQueues]
    /\ ier \subseteq {"RECV", "XMIT"}
    /\ thr_empty \in BOOLEAN /\ dr \in BOOLEAN
    /\ outer \in [Queues -> Semaphores(Thread)]
    /\ pc \in [Thread -> {"enter", "call", "lock", "wait", "leave", "panic"}]
    /\ next_in \in [Queues -> 0..(Numbers - 1)] /\ next_out \in [Queues -> 0..(Numbers - 1)]
    /\ prints \in 0..MaxPrints

\* The assertions of wait hold: a thread that has the queue's lock finds that
\* it still has to wait (intq.c:91).  They would not if two threads were in
\* the same queue; console_lock and fileLock see to it that they are not.
NoPanic == \A t \in Thread : pc[t] # "panic"

\* Bytes leave a queue in the order they entered it, none twice and none
\* missing: the queue holds, from tail to head, those from next_out up to
\* next_in (intq.c:38-82; serial.c:115-125).
Length(x) == (q[x].head - q[x].tail + INTQ_BUFSIZE) % INTQ_BUFSIZE
BytesInOrder ==
    \A x \in Queues :
        /\ (next_out[x] + Length(x)) % Numbers = next_in[x]
        /\ \A i \in 0..(Length(x) - 1) :
              q[x].buf[(q[x].tail + i) % INTQ_BUFSIZE] = (next_out[x] + i) % Numbers

\* A thread that has to wait for room or for the lock gets its byte into txq:
\* the transmit interrupt is enabled while there is something to send, and
\* whoever makes room wakes the waiter (serial.c:177-194, intq.c:102-114).
PutcReturns == \A t \in Writers : pc[t] = "call" ~> pc[t] = "leave"

\* A thread that waits for a key gets one when there is one (intq.c:74).
GetcReturns ==
    \A t \in Readers : pc[t] = "wait" /\ ~IsEmpty(q["rx"]) ~> pc[t] = "leave"
============================================================================
