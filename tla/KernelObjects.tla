---------------------------- MODULE KernelObjects ----------------------------
(***************************************************************************)
(* The kernel's objects (kcore/src): channels, notifications, timers,      *)
(* interrupt lines, threads, capability spaces and address spaces, with    *)
(* the reference counts and the teardown that deleting the last            *)
(* reference sets off.  The kernel runs one exception at a time with       *)
(* interrupts masked, so an operation is a function from the state k, a    *)
(* record of all slots and all objects, to the next one.                   *)
(*                                                                         *)
(* An object is known by its address.  Slot <<o, j>> is the j-th slot of   *)
(* the object at o: of a capability space, of the two rings of a channel,  *)
(* or the exit and fault bindings of a thread.                             *)
(***************************************************************************)
EXTENDS Integers, Sequences, SequencesExt, Cdt

CONSTANTS
    Depth,    \* messages per ring of a channel
    MsgCaps,  \* capabilities per message
    MaxRefs   \* u32::MAX

Ends   == {0, 1}
EventOrder == <<"readable", "writable", "closed">>
Events == Range(EventOrder)

SlotsOf(O) == CASE O.kind = "cspace" -> O.size
                [] O.kind = "chan"   -> 2 * Depth * MsgCaps
                [] O.kind = "thread" -> 2
                [] OTHER             -> 0

RingSlot(ch, ring, i, c) == <<ch, (ring * Depth + i) * MsgCaps + c>>

BindSlot(t, report) == <<t, IF report = "exited" THEN 0 ELSE 1>>

\* What retype writes at the address of a new object; size is the number of
\* slots of a capability space.
Fresh(kind, size) ==
    CASE kind = "cspace" -> [kind |-> kind, refs |-> 1, size |-> size]
      [] kind = "thread" -> [kind |-> kind, refs |-> 1, state |-> "inactive",
                             prio |-> 0, cspace |-> None, aspace |-> None,
                             wait |-> None, report |-> "running"]
      [] kind = "chan"   -> [kind |-> kind, refs |-> 1, caps |-> [e \in Ends |-> 0],
                             head |-> [e \in Ends |-> 0], count |-> [e \in Ends |-> 0],
                             bind |-> [e \in Ends |-> [ev \in Events |-> None]]]
      [] kind = "notif"  -> [kind |-> kind, refs |-> 1, word |-> FALSE, waiters |-> <<>>]
      [] kind = "timer"  -> [kind |-> kind, refs |-> 1, notif |-> None]
      [] kind = "irq"    -> [kind |-> kind, refs |-> 1, notif |-> None, masked |-> FALSE]
      [] kind = "aspace" -> [kind |-> kind, refs |-> 1, pages |-> {}, tables |-> 0, exposed |-> {}]
      [] OTHER           -> [kind |-> "memory", refs |-> 0]

AddRef(k, o) == [k EXCEPT !.obj[o].refs = @ + 1]
DecRef(k, o) == [k EXCEPT !.obj[o].refs = @ - 1]

Counted(cap) == cap.kind \notin {"empty", "untyped", "frame"}

ObjRef(k, cap) == IF Counted(cap) THEN AddRef(k, cap.obj) ELSE k

-----------------------------------------------------------------------------
(* Notifications.  Bits are one flag: what matters here is whether a signal *)
(* is held or wakes a waiter.                                               *)

Signal(k, n) ==
    LET t == Head(k.obj[n].waiters) IN
    IF k.obj[n].waiters = <<>> THEN [k EXCEPT !.obj[n].word = TRUE]
    ELSE [k EXCEPT !.obj[n].waiters = Tail(@), !.obj[n].word = FALSE,
                   !.obj[n].refs = @ - 1,
                   !.obj[t].wait = None, !.obj[t].state = "ready"]

Wait(k, n, t) ==
    IF k.obj[n].word THEN [k EXCEPT !.obj[n].word = FALSE]
    ELSE [k EXCEPT !.obj[t].state = "blocked", !.obj[t].wait = n,
                   !.obj[n].waiters = Append(@, t), !.obj[n].refs = @ + 1]

\* Mutant: a thread that dies while it waits stays in the queue.
StayInQueue(k, n, t) == DecRef(k, n)

RemoveWaiter(k, n, t) ==
    [k EXCEPT !.obj[n].waiters = SelectSeq(@, LAMBDA u : u # t),
              !.obj[n].refs = @ - 1]

SignalBound(k, n) == IF n = None THEN k ELSE Signal(k, n)
Released(k, n) == IF n = None THEN k ELSE DecRef(k, n)

\* A thread ends once; the report it leaves fires the binding for it.
ReportTerminal(k, t, report) ==
    LET cap == k.slot[BindSlot(t, report)].cap
        done == [k EXCEPT !.obj[t].report = report]
    IN  IF k.obj[t].report # "running" THEN k
        ELSE IF cap.kind = "notif" THEN Signal(done, cap.obj) ELSE done

-----------------------------------------------------------------------------
(* Timers and interrupt lines. *)

Disarm(k, t) == [Released(k, k.obj[t].notif) EXCEPT !.obj[t].notif = None]

\* Mutant: an armed timer or a bound line does not hold its notification.
ArmUnheld(k, t, n) == [Disarm(k, t) EXCEPT !.obj[t].notif = n]

Arm(k, t, n) == [AddRef(Disarm(k, t), n) EXCEPT !.obj[t].notif = n]

\* check_expired takes the timer off the list before it signals.
Expire(k, t) == Signal(Disarm(k, t), k.obj[t].notif)

Deliver(k, i) == Signal([k EXCEPT !.obj[i].masked = TRUE], k.obj[i].notif)

-----------------------------------------------------------------------------
(* Channels. *)

Fire(k, ch, e, ev) == SignalBound(k, k.obj[ch].bind[e][ev])

EndpointCapAdded(k, ch, e) == [k EXCEPT !.obj[ch].caps[e] = @ + 1]

\* Mutant: the other end is not told.
EndpointCapDroppedSilently(k, ch, e) == [k EXCEPT !.obj[ch].caps[e] = @ - 1]

EndpointCapDropped(k, ch, e) ==
    LET d == [k EXCEPT !.obj[ch].caps[e] = @ - 1]
    IN  IF d.obj[ch].caps[e] = 0 THEN Fire(d, ch, 1 - e, "closed") ELSE d

\* Mutant: a binding that is replaced is not released.
ChanRebind(k, ch, e, ev, n) == [AddRef(k, n) EXCEPT !.obj[ch].bind[e][ev] = n]
ChanBind(k, ch, e, ev, n) ==
    [AddRef(Released(k, k.obj[ch].bind[e][ev]), n) EXCEPT !.obj[ch].bind[e][ev] = n]

ReleaseBindings(k, ch) ==
    LET Release(st, e, ev) == [Released(st, st.obj[ch].bind[e][ev])
                                 EXCEPT !.obj[ch].bind[e][ev] = None]
        OfEnd(st, e) == FoldLeft(LAMBDA x, ev : Release(x, e, ev), st, EventOrder)
    IN  OfEnd(OfEnd(k, 0), 1)

\* End e sends on ring e.
SendError(k, ch, e) ==
    IF k.obj[ch].caps[1 - e] = 0 THEN "closed"
    ELSE IF k.obj[ch].count[e] = Depth THEN "full" ELSE None

\* srcs: a sequence of MsgCaps slots or None.
Send(k, ch, e, srcs) ==
    LET i == (k.obj[ch].head[e] + k.obj[ch].count[e]) % Depth
        Put(S, c) == IF srcs[c] = None THEN S
                     ELSE SlotMove(S, srcs[c], RingSlot(ch, e, i, c - 1))
    IN  Fire([k EXCEPT !.slot = FoldLeft(Put, @, [c \in 1 .. MsgCaps |-> c]),
                       !.obj[ch].count[e] = @ + 1], ch, 1 - e, "readable")

Queued(k, ch, ring, c) == RingSlot(ch, ring, k.obj[ch].head[ring], c - 1)

RecvError(k, ch, e, dests) ==
    IF k.obj[ch].count[1 - e] = 0 THEN "empty"
    ELSE IF \E c \in 1 .. MsgCaps :
               /\ Holds(k.slot, Queued(k, ch, 1 - e, c))
               /\ dests[c] = None \/ Holds(k.slot, dests[c])
         THEN "noslot" ELSE None

Recv(k, ch, e, dests) ==
    LET Take(S, c) == LET q == Queued(k, ch, 1 - e, c)
                      IN  IF Holds(S, q) THEN SlotMove(S, q, dests[c]) ELSE S
    IN  Fire([k EXCEPT !.slot = FoldLeft(Take, @, [c \in 1 .. MsgCaps |-> c]),
                       !.obj[ch].head[1 - e] = (@ + 1) % Depth,
                       !.obj[ch].count[1 - e] = @ - 1], ch, 1 - e, "writable")

-----------------------------------------------------------------------------
(* Deleting a capability, and what dropping the last reference destroys. *)

\* Mutant: a mapping does not hold its address space.
MapFrameUnheld(k, f, asp, va) ==
    [k EXCEPT !.obj[asp].pages = @ \cup {va}, !.slot[f].cap.map = [asp |-> asp, va |-> va]]

\* The capability to a frame holds the address space it is mapped in.
MapFrame(k, f, asp, va) ==
    [AddRef(k, asp) EXCEPT !.obj[asp].pages = @ \cup {va},
                           !.slot[f].cap.map = [asp |-> asp, va |-> va]]

\* Mutant: the page stays mapped when its capability goes.
UnmapNothing(k, m) == k

Unmap(k, m) == [k EXCEPT !.obj[m.asp].pages = @ \ {m.va}]

RECURSIVE Delete(_, _), Unref(_, _), DeleteFrom(_, _, _), Destroy(_, _)

\* Slots are deleted in index order; one may already be empty by then.
DeleteFrom(k, o, j) ==
    IF j = SlotsOf(k.obj[o]) THEN k
    ELSE DeleteFrom(IF Holds(k.slot, <<o, j>>) THEN Delete(k, <<o, j>>) ELSE k, o, j + 1)

\* A dying thread leaves its queue, then drops its bindings, its capability
\* space and its address space, in this order.
DestroyTcb(k, t) ==
    LET T == k.obj[t]
        off == IF T.state = "blocked" THEN RemoveWaiter(k, T.wait, t) ELSE k
        halted == [off EXCEPT !.obj[t].wait = None, !.obj[t].state = "halted"]
        unbound == DeleteFrom(halted, t, 0)
        nocs == [unbound EXCEPT !.obj[t].cspace = None]
        nospace == IF T.cspace = None THEN nocs ELSE Unref(nocs, T.cspace)
        noas == [nospace EXCEPT !.obj[t].aspace = None]
    IN  IF T.aspace = None THEN noas ELSE Unref(noas, T.aspace)

Destroy(k, o) ==
    CASE k.obj[o].kind = "cspace" -> DeleteFrom(k, o, 0)
      [] k.obj[o].kind = "thread" -> DestroyTcb(k, o)
      [] k.obj[o].kind = "chan"   -> ReleaseBindings(DeleteFrom(k, o, 0), o)
      [] k.obj[o].kind \in {"timer", "irq"} -> Disarm(k, o)
      [] OTHER -> k

Unref(k, o) == IF k.obj[o].refs = 1 THEN Destroy(DecRef(k, o), o) ELSE DecRef(k, o)

Delete(k, s) ==
    LET cap == k.slot[s].cap
        gone == [k EXCEPT !.slot = [Unlink(@, s) EXCEPT ![s] = EmptySlot]]
        ended == IF cap.kind = "chan" THEN EndpointCapDropped(gone, cap.obj, cap.end)
                 ELSE gone
        unmapped == IF cap.kind = "frame" /\ cap.map # None
                    THEN Unref(Unmap(ended, cap.map), cap.map.asp) ELSE ended
    IN  IF Counted(cap) THEN Unref(unmapped, cap.obj) ELSE unmapped

\* A thread holds the capability space and the address space it runs in.
Started(k, t, cs, as, prio) ==
    LET held == AddRef(k, cs)
    IN  [IF as = None THEN held ELSE AddRef(held, as)
           EXCEPT !.obj[t].cspace = cs, !.obj[t].aspace = as, !.obj[t].prio = prio,
                  !.obj[t].state = "ready"]

\* The old binding is deleted, the new capability moves into its slot.
ThreadBindTo(k, b, src) ==
    LET old == IF Holds(k.slot, b) THEN Delete(k, b) ELSE k
    IN  IF src = None THEN old ELSE [old EXCEPT !.slot = SlotMove(@, src, b)]

\* Mutant: the root goes with its last child.
RevokeWithRoot(k, root, n) ==
    IF k.slot[root].first # None THEN Delete(k, DescendToLeaf(k.slot, root))
    ELSE Delete(k, root)

\* At most n leaves, each the first one on the way down from the root; the root
\* stays marked while it has children.
RECURSIVE RevokeStep(_, _, _)
RevokeStep(k, root, n) ==
    IF n > 0 /\ k.slot[root].first # None
    THEN RevokeStep(Delete(k, DescendToLeaf(k.slot, root)), root, n - 1)
    ELSE [k EXCEPT !.slot[root].revoking = k.slot[root].first # None]
=============================================================================
