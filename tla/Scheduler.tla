------------------------------ MODULE Scheduler ------------------------------
(***************************************************************************)
(* The ready queues, the wait queues of notifications and the list of      *)
(* armed timers, as the links in memory that they are (kcore/src/ready.rs, *)
(* notification.rs, timer.rs), and the choice of the thread that runs at   *)
(* the end of every exception (kernel/src/thread.rs, exceptions.rs).  One  *)
(* link field of a thread serves both kinds of queue.  The kernel runs     *)
(* with interrupts masked: an action is one exception from EL0, up to and  *)
(* with the switch at its end.  x0 is the register a call returns its      *)
(* result in: on the kernel's stack for the running thread, in the saved   *)
(* frame for the others.                                                   *)
(***************************************************************************)
EXTENDS Integers, Sequences, SequencesExt, FiniteSets, FiniteSetsExt

CONSTANTS
    Threads, Idle, Notifs, Timers, Bits, None,
    Prios,      \* the levels threads other than Idle run at, above 0
    MaxDelta,   \* ticks a timer is armed for
    ExitNotif   \* the notification bound to the end of every thread

VARIABLE k

Levels == Prios \cup {0}

FreshTcb == [state |-> "inactive", prio |-> 0, qnext |-> None, wait |-> None, x0 |-> {},
             report |-> "running", live |-> TRUE]
FreshNotif == [word |-> {}, head |-> None, tail |-> None, refs |-> 1]
FreshTimer == [armed |-> FALSE, left |-> 0, notif |-> None, bits |-> {}, next |-> None]

EmptyQueues == [l \in Levels |-> None]

\* The nodes from h on; one more than there can be, if the links form a cycle.
Chain(next, h, size) ==
    LET from[i \in 0 .. size] ==
            IF i = 0 THEN <<h>>
            ELSE LET list == from[i - 1]
                 IN  IF Last(list) = None THEN list ELSE Append(list, next[Last(list)])
    IN  SelectSeq(from[size], LAMBDA x : x # None)

ChainOf(st, h) == Chain([t \in Threads |-> st.tcb[t].qnext], h, Cardinality(Threads))
ReadyQueue(st, p) == ChainOf(st, st.head[p])
WaitQueue(st, n) == ChainOf(st, st.notif[n].head)
Armed(st) == Chain([t \in Timers |-> st.timer[t].next], st.armed, Cardinality(Timers))

\* The node a walk over the list has just passed when it meets t.
Before(list, t) == LET i == SelectInSeq(list, LAMBDA x : x = t)
                   IN  IF i = 1 THEN None ELSE list[i - 1]

-----------------------------------------------------------------------------
(* The ready queues. *)

TopReady(st) == IF st.bitmap = {} THEN None ELSE Max(st.bitmap)

\* Mutant: a thread that becomes ready is put in front.
EnqueueFront(st, t) ==
    LET p == st.tcb[t].prio
        a == [st EXCEPT !.tcb[t].state = "runnable", !.tcb[t].qnext = st.head[p], !.head[p] = t]
    IN  [a EXCEPT !.tail[p] = IF @ = None THEN t ELSE @, !.bitmap = @ \cup {p}]

ReadyEnqueue(st, t) ==
    LET p == st.tcb[t].prio
        last == st.tail[p]
        a == [st EXCEPT !.tcb[t].state = "runnable", !.tcb[t].qnext = None]
        b == IF last = None THEN [a EXCEPT !.head[p] = t] ELSE [a EXCEPT !.tcb[last].qnext = t]
    IN  [b EXCEPT !.tail[p] = t, !.bitmap = @ \cup {p}]

ReadyDequeue(st, p) ==
    LET t == st.head[p]
        next == st.tcb[t].qnext
        a == [st EXCEPT !.head[p] = next, !.tcb[t].qnext = None]
    IN  IF next = None THEN [a EXCEPT !.tail[p] = None, !.bitmap = @ \ {p}] ELSE a

\* Mutant: the tail is not moved back when the last thread leaves.
UnqueueKeepTail(st, t) ==
    LET p == st.tcb[t].prio
        prev == Before(ReadyQueue(st, p), t)
        next == st.tcb[t].qnext
        a == IF prev = None THEN [st EXCEPT !.head[p] = next] ELSE [st EXCEPT !.tcb[prev].qnext = next]
    IN  [a EXCEPT !.tcb[t].qnext = None, !.bitmap = IF a.head[p] = None THEN @ \ {p} ELSE @]

ReadyUnqueue(st, t) ==
    LET p == st.tcb[t].prio
        prev == Before(ReadyQueue(st, p), t)
        next == st.tcb[t].qnext
        a == IF prev = None THEN [st EXCEPT !.head[p] = next] ELSE [st EXCEPT !.tcb[prev].qnext = next]
        b == IF st.tail[p] = t THEN [a EXCEPT !.tail[p] = prev] ELSE a
    IN  IF ~ Contains(ReadyQueue(st, p), t) THEN st
        ELSE [b EXCEPT !.tcb[t].qnext = None, !.bitmap = IF b.head[p] = None THEN @ \ {p} ELSE @]

\* What the objects call when they wake a thread or tear it down.
MakeRunnable(st, t) == ReadyEnqueue(st, t)
UnqueueReady(st, t) == ReadyUnqueue(st, t)

-----------------------------------------------------------------------------
(* Notifications.  pend and due are not in the code: the bits signalled and *)
(* not yet given to a thread, and the result every thread must see.         *)

\* Wakes the first thread that waits, with all bits set so far.
Signal(st, n, bits) ==
    LET word == st.notif[n].word \cup bits
        all == st.pend[n] \cup bits
        t == st.notif[n].head
        next == st.tcb[t].qnext
    IN  IF word = {} \/ t = None THEN [st EXCEPT !.notif[n].word = word, !.pend[n] = all]
        ELSE MakeRunnable([st EXCEPT
                 !.notif[n].head = next, !.notif[n].tail = IF next = None THEN None ELSE @,
                 !.notif[n].word = {}, !.notif[n].refs = @ - 1,
                 !.tcb[t].qnext = None, !.tcb[t].wait = None, !.tcb[t].x0 = word,
                 !.pend[n] = {}, !.due[t] = all], t)

\* Mutant: a thread blocks without a look at the bits.
WaitAlways(st, n) ==
    LET c == st.cur
        last == st.notif[n].tail
        a == [st EXCEPT !.tcb[c].state = "blocked", !.tcb[c].wait = n, !.tcb[c].qnext = None,
                        !.notif[n].tail = c, !.notif[n].refs = @ + 1]
    IN  IF last = None THEN [a EXCEPT !.notif[n].head = c] ELSE [a EXCEPT !.tcb[last].qnext = c]

\* Takes the bits that are set, or blocks the calling thread behind the others.
Wait(st, n) ==
    LET c == st.cur
        last == st.notif[n].tail
        a == [st EXCEPT !.tcb[c].state = "blocked", !.tcb[c].wait = n, !.tcb[c].qnext = None,
                        !.notif[n].tail = c, !.notif[n].refs = @ + 1]
    IN  IF st.notif[n].word # {}
        THEN [st EXCEPT !.notif[n].word = {}, !.x0 = st.notif[n].word,
                        !.pend[n] = {}, !.due[c] = st.pend[n]]
        ELSE IF last = None THEN [a EXCEPT !.notif[n].head = c]
             ELSE [a EXCEPT !.tcb[last].qnext = c]

RemoveWaiter(st, n, t) ==
    LET prev == Before(WaitQueue(st, n), t)
        next == st.tcb[t].qnext
        a == IF prev = None THEN [st EXCEPT !.notif[n].head = next] ELSE [st EXCEPT !.tcb[prev].qnext = next]
        b == IF st.notif[n].tail = t THEN [a EXCEPT !.notif[n].tail = prev] ELSE a
    IN  IF ~ Contains(WaitQueue(st, n), t) THEN st
        ELSE [b EXCEPT !.tcb[t].qnext = None, !.tcb[t].wait = None, !.notif[n].refs = @ - 1]

\* The first end of a thread is the one that is reported.
ReportTerminal(st, t, report) ==
    IF st.tcb[t].report # "running" THEN st
    ELSE Signal([st EXCEPT !.tcb[t].report = report], ExitNotif, Bits)

-----------------------------------------------------------------------------
(* Timers. *)

Disarm(st, t) ==
    LET prev == Before(Armed(st), t)
        next == st.timer[t].next
        a == IF prev = None THEN [st EXCEPT !.armed = next] ELSE [st EXCEPT !.timer[prev].next = next]
    IN  IF ~ st.timer[t].armed THEN st
        ELSE [a EXCEPT !.notif[st.timer[t].notif].refs = @ - 1,
                       !.timer[t] = [@ EXCEPT !.notif = None, !.armed = FALSE, !.next = None]]

\* Mutant: an armed timer is armed again without taking it off the list.
ArmTwice(st, t, n, bits, left) ==
    [st EXCEPT !.notif[n].refs = @ + 1, !.armed = t,
               !.timer[t] = [armed |-> TRUE, left |-> left, notif |-> n, bits |-> bits, next |-> st.armed]]

Arm(st, t, n, bits, left) ==
    LET a == Disarm(st, t)
    IN  [a EXCEPT !.notif[n].refs = @ + 1, !.armed = t,
                  !.timer[t] = [armed |-> TRUE, left |-> left, notif |-> n, bits |-> bits, next |-> a.armed]]

\* Mutant: the walk reads the next link of a timer that it has disarmed.
CheckFirst(st) ==
    LET due == SelectSeq(Armed(st), LAMBDA t : st.timer[t].left <= 0)
    IN  IF due = <<>> THEN st
        ELSE Signal(Disarm(st, due[1]), st.timer[due[1]].notif, st.timer[due[1]].bits)

\* The walk reads the next link of a timer before it disarms the timer.
CheckExpired(st) ==
    FoldLeft(LAMBDA s, t : IF s.timer[t].left > 0 THEN s
                           ELSE Signal(Disarm(s, t), st.timer[t].notif, st.timer[t].bits),
             st, Armed(st))

\* Deadlines are kept as the ticks that are left.
TickPasses(st) == [st EXCEPT !.timer = [t \in Timers |->
    [st.timer[t] EXCEPT !.left = IF st.timer[t].armed THEN @ - 1 ELSE 0]]]

-----------------------------------------------------------------------------
(* Threads and the switch at the end of an exception. *)

SetPriority(st, t, prio) == [st EXCEPT !.tcb[t].prio = prio]

DestroyTcb(st, t) ==
    LET off == IF st.tcb[t].state = "runnable" THEN UnqueueReady(st, t)
               ELSE IF st.tcb[t].state = "blocked" THEN RemoveWaiter(st, st.tcb[t].wait, t) ELSE st
    IN  [off EXCEPT !.tcb[t].qnext = None, !.tcb[t].wait = None, !.tcb[t].state = "halted",
                    !.tcb[t].live = FALSE]

\* The frame on the stack goes to the thread that stops, the frame of the first
\* thread of the highest level comes to the stack.
SwitchTo(st, p) ==
    LET next == st.head[p]
        a == ReadyDequeue(st, p)
    IN  [a EXCEPT !.tcb[next].state = "running", !.cur = next, !.x0 = a.tcb[next].x0]

\* Mutant: an equal level does not preempt on a tick.
SwitchOnlyUp(st, preemptEqual) ==
    LET top == TopReady(st)
        runs == st.tcb[st.cur].state = "running"
        saved == [st EXCEPT !.tcb[st.cur].x0 = st.x0]
    IN  IF top = None \/ (runs /\ top <= st.tcb[st.cur].prio) THEN st
        ELSE SwitchTo(IF runs THEN ReadyEnqueue(saved, st.cur) ELSE saved, top)

\* Mutant: a thread that still runs is never preempted.
SwitchIfStopped(st, preemptEqual) ==
    LET top == TopReady(st)
        saved == [st EXCEPT !.tcb[st.cur].x0 = st.x0]
    IN  IF top = None \/ st.tcb[st.cur].state = "running" THEN st ELSE SwitchTo(saved, top)

MaybeSwitch(st, preemptEqual) ==
    LET top == TopReady(st)
        runs == st.tcb[st.cur].state = "running"
        prio == st.tcb[st.cur].prio
        saved == [st EXCEPT !.tcb[st.cur].x0 = st.x0]
    IN  IF top = None \/ (runs /\ (top < prio \/ (top = prio /\ ~ preemptEqual))) THEN st
        ELSE SwitchTo(IF runs THEN ReadyEnqueue(saved, st.cur) ELSE saved, top)

-----------------------------------------------------------------------------
(* Exceptions.  A call returns 0, the empty set of bits, unless it waits. *)

Calls == k.cur # Idle
Returns(st) == [st EXCEPT !.x0 = {}, !.due[k.cur] = {}]
Svc(st) == k' = MaybeSwitch(st, FALSE)

NotifSignal(n, bits) == Calls /\ Svc(Returns(Signal(k, n, bits)))
NotifWait(n) == Calls /\ Svc(Wait(k, n))

\* Mutant: the result is written after the switch, over the other thread's.
YieldLate == Calls /\ Svc([MaybeSwitch(k, TRUE) EXCEPT !.x0 = {}, !.due[k.cur] = {}])

\* The call switches itself; its result is written before that.
Yield == Calls /\ Svc(MaybeSwitch(Returns(k), TRUE))

\* The level may be set although the start then fails for its entry point.
ThreadStart(t, prio, mapped) ==
    LET set == SetPriority(k, t, prio)
    IN  /\ Calls /\ k.tcb[t].live /\ k.tcb[t].state = "inactive"
        /\ Svc(Returns(IF mapped THEN [ReadyEnqueue(set, t) EXCEPT !.tcb[t].x0 = {}, !.due[t] = {}]
                       ELSE set))

Ends(state, report) ==
    /\ Calls
    /\ Svc(ReportTerminal([k EXCEPT !.tcb[k.cur].state = state], k.cur, report))
ThreadExit == Ends("halted", "exited")
Fault == Ends("faulted", "faulted")

\* The last capability to a thread goes, its own thread's included.
Kill(t) == Calls /\ t # Idle /\ k.tcb[t].live /\ Svc(Returns(DestroyTcb(k, t)))

\* Retype puts a new thread where the old one was.
Retype(t) ==
    /\ Calls /\ ~ k.tcb[t].live
    /\ Svc(Returns([k EXCEPT !.tcb[t] = FreshTcb]))

TimerArm(t, n, bits, delta) == Calls /\ Svc(Returns(Arm(k, t, n, bits, delta)))
DestroyTimer(t) == Calls /\ Svc(Returns(Disarm(k, t)))

Tick == k' = MaybeSwitch(CheckExpired(TickPasses(k)), TRUE)

\* A device line, bound to n or to nothing.
Irq(n) == k' = IF n = None THEN MaybeSwitch(k, FALSE) ELSE MaybeSwitch(Signal(k, n, Bits), TRUE)

Init ==
    \E first \in Threads \ {Idle}, p \in Prios :
        LET tcbs == [t \in Threads |-> IF t = first
                                       THEN [FreshTcb EXCEPT !.state = "running", !.prio = p]
                                       ELSE FreshTcb]
        IN  k = ReadyEnqueue([tcb |-> tcbs, cur |-> first, x0 |-> {},
                 head |-> EmptyQueues, tail |-> EmptyQueues, bitmap |-> {},
                 notif |-> [n \in Notifs |-> FreshNotif], timer |-> [t \in Timers |-> FreshTimer],
                 armed |-> None, pend |-> [n \in Notifs |-> {}], due |-> [t \in Threads |-> {}]], Idle)

Call ==
    \/ \E n \in Notifs : NotifWait(n) \/ \E bits \in SUBSET Bits : NotifSignal(n, bits)
    \/ Yield \/ ThreadExit \/ Fault
    \/ \E t \in Threads : Kill(t) \/ Retype(t)
    \/ \E t \in Threads, prio \in Prios, mapped \in BOOLEAN : ThreadStart(t, prio, mapped)
    \/ \E t \in Timers, n \in Notifs, bits \in SUBSET Bits, d \in 0 .. MaxDelta : TimerArm(t, n, bits, d)
    \/ \E t \in Timers : DestroyTimer(t)

Next == Call \/ Tick \/ \E n \in Notifs \cup {None} : Irq(n)

\* The tick is rearmed by its own handler and comes whatever the threads do.
Spec == Init /\ [][Next]_k /\ WF_k(Tick)

-----------------------------------------------------------------------------
(* Properties. *)

IsQueue(q, tail, members) ==
    /\ IsInjective(q) /\ Range(q) = members
    /\ tail = IF q = <<>> THEN None ELSE Last(q)

\* Every queue holds exactly the threads whose state says so, each once, ends
\* where its tail points, and the bitmap names the levels that are not empty;
\* the armed list holds exactly the armed timers.  So signal, wait, the unlinking
\* of a dying thread and the switch keep one link field for two kinds of queue.
QueuesExact ==
    /\ \A p \in Levels : IsQueue(ReadyQueue(k, p), k.tail[p],
                                 {t \in Threads : k.tcb[t].state = "runnable" /\ k.tcb[t].prio = p})
    /\ \A n \in Notifs : IsQueue(WaitQueue(k, n), k.notif[n].tail,
                                 {t \in Threads : k.tcb[t].state = "blocked" /\ k.tcb[t].wait = n})
    /\ k.bitmap = {p \in Levels : k.head[p] # None}
    /\ IsInjective(Armed(k)) /\ Range(Armed(k)) = {t \in Timers : k.timer[t].armed}

\* When an exception returns, the current thread is the one running thread, it
\* is not a dead one, and none that is ready has a higher level.
HighestRuns ==
    /\ {t \in Threads : k.tcb[t].state = "running"} = {k.cur} /\ k.tcb[k.cur].live
    /\ \A t \in Threads : k.tcb[t].state = "runnable" => k.tcb[t].prio <= k.tcb[k.cur].prio

\* No thread waits for a notification that has bits set.
NoLostWake == \A n \in Notifs : k.notif[n].word # {} => k.notif[n].head = None

\* The register a thread will find its result in holds the result of its last
\* call: no switch, wake or yield writes over it, and no bit signalled is lost.
ResultsArrive ==
    /\ \A t \in Threads : k.tcb[t].state \in {"running", "runnable"} =>
          (IF t = k.cur THEN k.x0 ELSE k.tcb[t].x0) = k.due[t]
    /\ \A n \in Notifs : k.notif[n].word = k.pend[n]

\* A notification is held once by its capability, by each thread that waits for
\* it and by each timer armed for it.
NotifHeld == \A n \in Notifs :
    k.notif[n].refs = 1 + Cardinality({t \in Threads : k.tcb[t].state = "blocked" /\ k.tcb[t].wait = n})
                        + Cardinality({t \in Timers : k.timer[t].armed /\ k.timer[t].notif = n})

\* No tick passes over a timer that is due, also when an earlier entry of the list
\* was taken off it in the same walk.
NoneOverdue == \A t \in Timers : k.timer[t].armed => k.timer[t].left >= 0

\* Threads that stay in a queue keep their order, and what comes is behind them.
Fifo(q, r) ==
    \E stay \in {SelectSeq(q, LAMBDA x : Contains(r, x))} : stay = SubSeq(r, 1, Len(stay))
InOrder ==
    /\ \A p \in Levels : \E q \in {ReadyQueue(k, p)}, r \in {ReadyQueue(k', p)} : Fifo(q, r)
    /\ \A n \in Notifs : \E q \in {WaitQueue(k, n)}, r \in {WaitQueue(k', n)} : Fifo(q, r)
FifoOrder == [][InOrder]_k

\* The tick gives every thread of the highest level its turn: a thread that is
\* ready does not stay ready for ever with no thread above it.
Starved(t) ==
    /\ k.tcb[t].state = "runnable"
    /\ \A u \in Threads : k.tcb[u].state \in {"running", "runnable"} => k.tcb[u].prio <= k.tcb[t].prio
TurnComes == \A t \in Threads : []<>~Starved(t)
=============================================================================
