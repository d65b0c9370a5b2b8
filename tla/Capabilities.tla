----------------------------- MODULE Capabilities -----------------------------
(***************************************************************************)
(* The capability system calls of the kernel (kernel/src/syscall.rs over   *)
(* kcore/src/cspace.rs and untyped.rs).  Threads issue calls in any order; *)
(* each call runs to its end before the next one starts.  A revocation     *)
(* deletes at most Quantum leaves per call and is issued again by its      *)
(* caller while it returns ERR_AGAIN.                                      *)
(***************************************************************************)
EXTENDS KernelObjects

CONSTANTS
    Static,     \* the root capability space, which the kernel itself holds
    Scenarios,  \* start states, each with what the threads then do
    NewSize,    \* slots of a new capability space
    Quantum     \* REVOKE_QUANTUM

VARIABLES
    slot,   \* every capability slot
    obj,    \* every object
    reply,  \* of the last call if it was a revoke, else None
    load    \* the scenario: calls is a set of pairs of a call and the kind of
            \* capability it is applied to; types, masks, ceilings and vas are
            \* the arguments threads pass

vars == <<slot, obj, reply, load>>

Slots == DOMAIN slot
Objs == DOMAIN obj

K == [slot |-> slot, obj |-> obj]

AllRights == {"read", "write"}
ThreadAll == AllRights \cup {"bind", "report"}

-----------------------------------------------------------------------------
(* kcore::cspace::derive and kcore::untyped. *)

LeastOf(x, y) == IF x <= y THEN x ELSE y

\* Mutant: the copy has the ceiling that was asked for.
CeilingAsAsked(cap, mask, ceiling) ==
    LET c == [cap EXCEPT !.rights = @ \cap mask]
    IN  IF cap.kind = "thread" THEN [c EXCEPT !.ceiling = ceiling] ELSE c

\* A copy has no more rights; a frame copy is not mapped; the ceiling of a
\* thread capability can only go down.
Attenuated(cap, mask, ceiling) ==
    LET c == [cap EXCEPT !.rights = @ \cap mask] IN
    CASE cap.kind = "frame"  -> [c EXCEPT !.map = None]
      [] cap.kind = "thread" -> [c EXCEPT !.ceiling = LeastOf(@, ceiling)]
      [] OTHER -> c

CanDerive(k, src, dst) ==
    LET cap == k.slot[src].cap IN
    /\ ~AncestorOrSelfRevoking(k.slot, src)
    /\ cap.kind \notin {"empty", "untyped"}
    /\ ~Holds(k.slot, dst)
    /\ Counted(cap) => k.obj[cap.obj].refs < MaxRefs
    /\ cap.kind = "chan" => k.obj[cap.obj].caps[cap.end] < MaxRefs

\* Mutant: a copy does not count as a reference.
DeriveUncounted(k, src, dst, mask, ceiling) ==
    LET cap == Attenuated(k.slot[src].cap, mask, ceiling)
        put == [k EXCEPT !.slot = InsertChild([@ EXCEPT ![dst].cap = cap], src, dst)]
    IN  IF cap.kind = "chan" THEN EndpointCapAdded(put, cap.obj, cap.end) ELSE put

Derive(k, src, dst, mask, ceiling) ==
    LET cap == Attenuated(k.slot[src].cap, mask, ceiling)
        put == [k EXCEPT !.slot = InsertChild([@ EXCEPT ![dst].cap = cap], src, dst)]
        held == ObjRef(put, cap)
    IN  IF cap.kind = "chan" THEN EndpointCapAdded(held, cap.obj, cap.end) ELSE held

NewCap(ut, ty, at, prio) ==
    CASE ty = "frame"   -> [kind |-> ty, base |-> at, map |-> None, rights |-> ut.rights]
      [] ty = "untyped" -> [kind |-> ty, base |-> at, size |-> 1, mark |-> 0,
                            rights |-> ut.rights \cap AllRights]
      [] ty = "thread"  -> [kind |-> ty, obj |-> at, ceiling |-> prio, rights |-> ThreadAll]
      [] ty = "chan"    -> [kind |-> ty, obj |-> at, end |-> 0, rights |-> AllRights]
      [] OTHER          -> [kind |-> ty, obj |-> at, rights |-> AllRights]

\* Every object takes one unit of memory: the next one under the watermark.
CanRetype(k, us, ty, dst, dst2) ==
    LET ut == k.slot[us].cap IN
    /\ ut.kind = "untyped"
    /\ ~Holds(k.slot, dst)
    /\ ty = "chan" => dst2 # dst /\ ~Holds(k.slot, dst2)
    /\ ut.mark < ut.size

\* Mutant: an untyped capability is handed out without moving the watermark.
RetypeUnmarked(k, us, ty, size, dst, dst2, prio) ==
    LET ut == k.slot[us].cap
        at == ut.base + ut.mark
    IN  [k EXCEPT !.obj[at] = Fresh(ty, size),
                  !.slot = InsertChild([@ EXCEPT ![dst].cap = NewCap(ut, ty, at, prio)], us, dst)]

Retype(k, us, ty, size, dst, dst2, prio) ==
    LET ut == k.slot[us].cap
        at == ut.base + ut.mark
        cap == NewCap(ut, ty, at, prio)
        made == [k EXCEPT !.obj[at] = Fresh(ty, size),
                          !.slot = [s \in {u \in DOMAIN @ : u[1] = at} |-> EmptySlot]
                                   @@ [@ EXCEPT ![us].cap.mark = @ + 1, ![dst].cap = cap]]
        one == [made EXCEPT !.slot = InsertChild(@, us, dst)]
        endA == EndpointCapAdded(one, at, 0)
        endB == [AddRef(endA, at) EXCEPT
                   !.slot = InsertChild([@ EXCEPT ![dst2].cap = [cap EXCEPT !.end = 1]],
                                        us, dst2)]
    IN  IF ty = "chan" THEN EndpointCapAdded(endB, at, 1) ELSE one

-----------------------------------------------------------------------------
(* System calls.  A thread names slots of its own capability space. *)

Ready(t) == obj[t].kind = "thread" /\ obj[t].refs > 0 /\ obj[t].state = "ready"

\* The slots thread t can name, while it runs.
Mine(t) == IF ~Ready(t) \/ obj[t].cspace = None THEN {}
           ELSE {<<obj[t].cspace, j>> : j \in 0 .. obj[obj[t].cspace].size - 1}

MineOf(t, kind) == {s \in Mine(t) : slot[s].cap.kind = kind}

\* Those it passes to call op in this run.
Args(op, t) == {s \in Mine(t) : <<op, slot[s].cap.kind>> \in load.calls}

\* Where a caller puts a new capability: slots.rs hands out the lowest free one.
FreeSlot(t) == LET free == {s \in Mine(t) : ~Holds(slot, s)}
               IN  {s \in free : \A u \in free : s[2] <= u[2]}

Returns(k, r) == slot' = k.slot /\ obj' = k.obj /\ reply' = r /\ UNCHANGED load

Becomes(k) == Returns(k, None)

\* The destinations of a receive are pairwise distinct, as recv requires.
Distinct(dests) == \A i, j \in DOMAIN dests : i # j /\ dests[i] # None => dests[i] # dests[j]

\* A call that fails leaves everything alone and is no step.
CapCopy(t) ==
    \E src \in Args("copy", t), dst \in FreeSlot(t), mask \in load.masks, ceiling \in load.ceilings :
        /\ CanDerive(K, src, dst)
        /\ Becomes(Derive(K, src, dst, mask, ceiling))

CapDelete(t) == \E s \in Args("delete", t) : Becomes(Delete(K, s))

\* Mutant: a quantum that ends early reports success.
RevokeClaimsDone(s) == Returns(RevokeStep(K, s, Quantum), [root |-> s, done |-> TRUE])

\* One quantum of the walk.
RevokeAt(s) ==
    LET k == RevokeStep(K, s, Quantum)
    IN  Returns(k, [root |-> s, done |-> k.slot[s].first = None])

CapRevoke(t) == \E s \in Args("revoke", t) : RevokeAt(s)

\* cap_revoke_all: the caller issues it again while it is told to.
Reissue(t, s) == t \in Objs /\ s \in Args("revoke", t) /\ slot[s].revoking /\ RevokeAt(s)

CapInstall(t) ==
    \E src \in Args("install", t), c \in MineOf(t, "cspace") :
    \E j \in 0 .. obj[slot[c].cap.obj].size - 1 :
        LET dst == <<slot[c].cap.obj, j>> IN
        /\ ~Holds(slot, dst)
        /\ Becomes([K EXCEPT !.slot = SlotMove(@, src, dst)])

\* What a message carries: capabilities, or none.
Sent(t) == Args("send", t) \cup {x \in {None} : <<"send", "nothing">> \in load.calls}

ChanSend(t) ==
    \E c \in MineOf(t, "chan"), srcs \in [1 .. MsgCaps -> Sent(t)] :
        LET cap == slot[c].cap IN
        /\ "write" \in cap.rights
        /\ SendError(K, cap.obj, cap.end) = None
        /\ Becomes(Send(K, cap.obj, cap.end, srcs))

ChanRecv(t) ==
    \E c \in Args("recv", t),
       dests \in [1 .. MsgCaps -> {None} \cup {s \in Mine(t) : ~Holds(slot, s)}] :
        LET cap == slot[c].cap IN
        /\ "read" \in cap.rights
        /\ Distinct(dests)
        /\ RecvError(K, cap.obj, cap.end, dests) = None
        /\ Becomes(Recv(K, cap.obj, cap.end, dests))

BindChannel(t) ==
    \E c \in Args("chanbind", t), n \in MineOf(t, "notif"), ev \in Events :
        /\ "write" \in slot[n].cap.rights
        /\ Becomes(ChanBind(K, slot[c].cap.obj, slot[c].cap.end, ev, slot[n].cap.obj))

NotifSignal(t) ==
    \E n \in Args("signal", t) :
        /\ "write" \in slot[n].cap.rights
        /\ Becomes(Signal(K, slot[n].cap.obj))

NotifWait(t) ==
    \E n \in Args("wait", t) :
        /\ "read" \in slot[n].cap.rights
        /\ Becomes(Wait(K, slot[n].cap.obj, t))

\* thread_start, and thread_start_as with an address space.
ThreadStart(t) ==
    \E h \in Args("start", t), c \in MineOf(t, "cspace"),
       a \in {None} \cup MineOf(t, "aspace"), prio \in load.ceilings, entry \in load.vas :
        LET u  == slot[h].cap.obj
            cs == slot[c].cap.obj
            as == IF a = None THEN None ELSE slot[a].cap.obj
        IN  /\ obj[u].state = "inactive"
            /\ prio <= slot[h].cap.ceiling
            /\ as # None => entry \in obj[as].pages
            /\ Becomes(Started(K, u, cs, as, prio))

\* thread_start_as sets the priority before it finds the entry unmapped.
ThreadStartFails(t) ==
    \E h \in Args("start", t), c \in MineOf(t, "cspace"), a \in MineOf(t, "aspace"),
       prio \in load.ceilings, entry \in load.vas :
        LET u == slot[h].cap.obj IN
        /\ obj[u].state = "inactive"
        /\ prio <= slot[h].cap.ceiling
        /\ entry \notin obj[slot[a].cap.obj].pages
        /\ Becomes([K EXCEPT !.obj[u].prio = prio])

\* thread_exit, and a fault: the thread never runs again.
ThreadEnd(t, report) ==
    /\ Ready(t) /\ <<report, "thread">> \in load.calls
    /\ Becomes(ReportTerminal([K EXCEPT !.obj[t].state = "halted"], t, report))

ThreadBind(t) ==
    \E h \in Args("threadbind", t), report \in {"exited", "faulted"},
       n \in MineOf(t, "notif") \cup {None} :
        /\ "bind" \in slot[h].cap.rights
        /\ n # None => "write" \in slot[n].cap.rights
        /\ Becomes(ThreadBindTo(K, BindSlot(slot[h].cap.obj, report), n))

RetypeCall(t) ==
    \E us \in Args("retype", t), ty \in load.types, dst \in FreeSlot(t), dst2 \in Mine(t) :
        /\ ty # "chan" => dst2 = dst
        /\ CanRetype(K, us, ty, dst, dst2)
        /\ Becomes(Retype(K, us, ty, NewSize, dst, dst2, obj[t].prio))

\* History: the tables of live address spaces in a region that is reset, which only
\* puts back the watermark.
Exposing(k, ut) ==
    [k EXCEPT !.obj = [o \in DOMAIN @ |->
        IF @[o].kind # "aspace" THEN @[o]
        ELSE [@[o] EXCEPT !.exposed = @ \cup {at \in o + 1 .. o + k.obj[o].tables :
                                                 at \in ut.base .. ut.base + ut.size - 1}]]]

\* Mutant: the watermark goes back while children remain.
ResetAnyway(t) ==
    \E us \in Args("reset", t) : Becomes([K EXCEPT !.slot[us].cap.mark = 0])

UntypedReset(t) ==
    \E us \in Args("reset", t) :
        /\ slot[us].first = None
        /\ Becomes(Exposing([K EXCEPT !.slot[us].cap.mark = 0], slot[us].cap))

\* Mutant: the pool grows without moving the watermark.
TopUpUnmarked(t) ==
    \E us \in Args("topup", t), a \in MineOf(t, "aspace") :
        LET ut == slot[us].cap
            asp == slot[a].cap.obj
        IN  /\ "write" \in slot[a].cap.rights
            /\ ut.mark < ut.size /\ ut.base + ut.mark = asp + 1 + obj[asp].tables
            /\ Becomes([K EXCEPT !.obj[asp].tables = @ + 1])

\* One more table, which must be the memory right behind the pool.
AspaceTopUp(t) ==
    \E us \in Args("topup", t), a \in MineOf(t, "aspace") :
        LET ut == slot[us].cap
            asp == slot[a].cap.obj
        IN  /\ "write" \in slot[a].cap.rights
            /\ ut.mark < ut.size /\ ut.base + ut.mark = asp + 1 + obj[asp].tables
            /\ Becomes([K EXCEPT !.slot[us].cap.mark = @ + 1, !.obj[asp].tables = @ + 1])

\* A capability to a frame carries one mapping at most.
Map(t) ==
    \E f \in Args("map", t), a \in MineOf(t, "aspace"), va \in load.vas :
        LET asp == slot[a].cap.obj IN
        /\ "write" \in slot[a].cap.rights
        /\ slot[f].cap.map = None
        /\ va \notin obj[asp].pages
        /\ Becomes(MapFrame(K, f, asp, va))

TimerArm(t) ==
    \E h \in Args("arm", t), n \in MineOf(t, "notif") :
        /\ "write" \in slot[n].cap.rights
        /\ Becomes(Arm(K, slot[h].cap.obj, slot[n].cap.obj))

IrqBind(t) ==
    \E h \in Args("irqbind", t), n \in MineOf(t, "notif") :
        /\ "write" \in slot[n].cap.rights
        /\ Becomes(Arm(K, slot[h].cap.obj, slot[n].cap.obj))

IrqAck(t) ==
    \E h \in Args("ack", t) : Becomes([K EXCEPT !.obj[slot[h].cap.obj].masked = FALSE])

\* Interrupts, between two calls.
TimerExpires(o) ==
    /\ obj[o].kind = "timer" /\ obj[o].notif # None
    /\ Becomes(Expire(K, o))

IrqArrives(o) ==
    /\ obj[o].kind = "irq" /\ obj[o].notif # None /\ ~obj[o].masked
    /\ Becomes(Deliver(K, o))

-----------------------------------------------------------------------------

Init == \E sc \in Scenarios :
           slot = sc.boot.slot /\ obj = sc.boot.obj /\ reply = None /\ load = sc.load

Next == \/ \E t \in Objs :
              \/ CapCopy(t) \/ CapDelete(t) \/ CapRevoke(t) \/ CapInstall(t)
              \/ ChanSend(t) \/ ChanRecv(t) \/ BindChannel(t)
              \/ NotifSignal(t) \/ NotifWait(t)
              \/ ThreadStart(t) \/ ThreadStartFails(t) \/ ThreadBind(t)
              \/ ThreadEnd(t, "exited") \/ ThreadEnd(t, "faulted")
              \/ RetypeCall(t) \/ UntypedReset(t) \/ AspaceTopUp(t) \/ Map(t)
              \/ TimerArm(t) \/ IrqBind(t) \/ IrqAck(t)
        \/ \E o \in Objs : TimerExpires(o) \/ IrqArrives(o)

Spec == Init /\ [][Next]_vars

AllSlots == UNION {DOMAIN sc.boot.slot : sc \in Scenarios}
AllObjs == UNION {DOMAIN sc.boot.obj : sc \in Scenarios}

FairSpec == Spec /\ \A t \in AllObjs, s \in AllSlots : WF_vars(Reissue(t, s))

-----------------------------------------------------------------------------
(* Properties. *)

TypeOK ==
    /\ slot \in [Slots -> [cap : {slot[s].cap : s \in Slots}, parent : Slots \cup {None},
                           first : Slots \cup {None}, next : Slots \cup {None},
                           prev : Slots \cup {None}, revoking : BOOLEAN]]
    /\ \E sc \in Scenarios : /\ load = sc.load
                             /\ Slots = DOMAIN sc.boot.slot /\ Objs = DOMAIN sc.boot.obj
    /\ \A o \in Objs : obj[o].refs \in Nat
    /\ reply \in {None} \cup [root : Slots, done : BOOLEAN]

\* The links of the derivation tree agree after every call: cdt_insert_child,
\* cdt_unlink, slot_move and every teardown keep cspace_wf.
CdtWellFormed == WellFormed(slot)

Frames == {s \in Slots : slot[s].cap.kind = "frame" /\ slot[s].cap.map # None}
Bindings == {<<c, e, ev>> \in Objs \X Ends \X Events :
                obj[c].kind = "chan" /\ obj[c].bind[e][ev] # None}
Sources == {x \in Objs : obj[x].kind \in {"timer", "irq"} /\ obj[x].notif # None}
Threads == {x \in Objs : obj[x].kind = "thread" /\ obj[x].refs > 0}

\* Everything that holds object o: capabilities, mappings, channel bindings,
\* armed timers and lines, waiters, and threads that run in it.
Census(o) ==
      Cardinality({s \in Slots : Counted(slot[s].cap) /\ slot[s].cap.obj = o})
    + Cardinality({s \in Frames : slot[s].cap.map.asp = o})
    + Cardinality({b \in Bindings : obj[b[1]].bind[b[2]][b[3]] = o})
    + Cardinality({x \in Sources : obj[x].notif = o})
    + Cardinality({t \in Threads : obj[t].wait = o})
    + Cardinality({t \in Threads : obj[t].cspace = o})
    + Cardinality({t \in Threads : obj[t].aspace = o})
    + (IF o = Static THEN 1 ELSE 0)

\* Reference counts are exact, so an object is destroyed with its last holder
\* and never before (refcount_sound); so is the count of capabilities to each
\* end of a channel, from which peer-closed is read (end_caps_sound).
RefsExact ==
    /\ \A o \in Objs : obj[o].kind # "memory" => obj[o].refs = Census(o)
    /\ \A o \in Objs, e \in Ends : obj[o].kind = "chan" =>
          obj[o].caps[e] = Cardinality({s \in Slots : /\ slot[s].cap.kind = "chan"
                                                      /\ slot[s].cap.obj = o
                                                      /\ slot[s].cap.end = e})

LiveOf(o, kind) == obj[o].kind = kind /\ obj[o].refs > 0

\* Whatever names an object names a live one of its kind, and a capability is
\* stored in a live object: no teardown leaves a pointer behind, and no memory is
\* carved again while something points at it.
NoDangling ==
    /\ \A s \in Slots : /\ Counted(slot[s].cap) => LiveOf(slot[s].cap.obj, slot[s].cap.kind)
                        /\ Holds(slot, s) => obj[s[1]].refs > 0
    /\ \A s \in Frames : LiveOf(slot[s].cap.map.asp, "aspace")
    /\ \A b \in Bindings : LiveOf(obj[b[1]].bind[b[2]][b[3]], "notif")
    /\ \A x \in Sources : LiveOf(obj[x].notif, "notif")
    /\ \A t \in Threads : /\ obj[t].wait # None => LiveOf(obj[t].wait, "notif")
                          /\ obj[t].cspace # None => LiveOf(obj[t].cspace, "cspace")
                          /\ obj[t].aspace # None => LiveOf(obj[t].aspace, "aspace")

\* A derived capability names the object of its parent, with no more rights and
\* no higher ceiling, also after the capability in between was deleted or either
\* one moved.
RightsMonotone ==
    \A s \in Slots :
        LET p == slot[s].parent
            cap == slot[s].cap
            from == slot[p].cap
        IN  p = None \/ from.kind = "untyped"
            \/ /\ cap.kind = from.kind /\ cap.rights \subseteq from.rights
               /\ cap.kind = "frame" => cap.base = from.base
               /\ cap.kind # "frame" => cap.obj = from.obj
               /\ cap.kind = "chan" => cap.end = from.end
               /\ cap.kind = "thread" => cap.ceiling <= from.ceiling

\* A thread is blocked iff it stands in the queue of the notification it waits
\* for, once; a notification holds a signal only while nobody waits.
WaitQueues ==
    /\ \A t \in Threads :
          /\ (obj[t].state = "blocked") = (obj[t].wait # None)
          /\ obj[t].wait # None => t \in Range(obj[obj[t].wait].waiters)
    /\ \A n \in Objs : obj[n].kind = "notif" =>
          /\ \A t \in Range(obj[n].waiters) : t \in Threads /\ obj[t].wait = n
          /\ IsInjective(obj[n].waiters)
          /\ obj[n].word => obj[n].waiters = <<>>

\* The pages of an address space are those that frame capabilities say they
\* are mapped at, one capability per page.
MappingsExact ==
    /\ \A a \in Objs : LiveOf(a, "aspace") =>
          obj[a].pages = {slot[s].cap.map.va : s \in {f \in Frames : slot[f].cap.map.asp = a}}
    /\ \A s, u \in Frames : slot[s].cap.map = slot[u].cap.map => s = u

\* Memory that holds page tables of a live address space holds nothing else.
\* Excepted are tables that were topped up from a region which was reset since: a
\* table is no child in the derivation tree, so nothing refuses the reset.
TablesExclusive ==
    \A a \in Objs : LiveOf(a, "aspace") =>
        \A at \in (a + 1 .. a + obj[a].tables) \ obj[a].exposed :
            /\ obj[at].refs = 0
            /\ \A s \in Slots : slot[s].cap.kind = "frame" => slot[s].cap.base # at

\* Where the memory of a capability starts.
At(cap) == IF cap.kind \in {"untyped", "frame"} THEN cap.base ELSE cap.obj

\* Every capability into the memory of an untyped capability is its descendant,
\* or an untyped one above it: what the kernel reads from "no child" when it
\* resets a watermark.
RegionOwned ==
    \A u, s \in Slots :
        LET ut == slot[u].cap
            cap == slot[s].cap
        IN  /\ ut.kind = "untyped" /\ cap.kind # "empty" /\ s # u
            /\ At(cap) \in ut.base .. ut.base + ut.size - 1
            => s \in Descendants(slot, u) \/ (cap.kind = "untyped" /\ u \in Descendants(slot, s))

\* The derivation tree is a forest over the slots in use, with links that agree, and
\* no capability has a right that the one it was derived from has not.
TreeSound == TypeOK /\ CdtWellFormed /\ RightsMonotone

\* Every reference is counted once, and none leads to an object that was freed.
ObjectsSound == RefsExact /\ NoDangling

\* Frames are mapped where their capabilities say, page tables belong to one address
\* space as long as the memory they were topped up from is not reset, and no memory
\* has two owners.
MemorySound == MappingsExact /\ TablesExclusive /\ RegionOwned

\* A revoke that reports completion and has kept its root has emptied every
\* slot that held a descendant, in whatever object the slot is.
RevokeDone ==
    [][reply' # None /\ reply'.done /\ Holds(slot', reply'.root) =>
          \A d \in Descendants(slot, reply'.root) : ~Holds(slot', d)]_vars

\* As long as no object dies of it, a revoke takes nothing but descendants.
RevokeConfined ==
    [][reply' # None /\ (\A o \in Objs : obj[o].refs > 0 => obj'[o].refs > 0) =>
          \A s \in Slots : Holds(slot, s) /\ ~Holds(slot', s)
                           => s \in Descendants(slot, reply'.root)]_vars

\* A revoke takes exactly what was derived from its root.
RevokeExact == RevokeDone /\ RevokeConfined

\* The end of a channel that loses its last capability, in whatever cascade, is
\* announced to the other end: if that has bound the event, its notification holds
\* a signal or a thread that waited for it runs.
PeerTold ==
    [][\A c \in Objs, e \in Ends :
          LiveOf(c, "chan") /\ LiveOf(c, "chan")' /\ obj[c].caps[e] > 0 /\ obj'[c].caps[e] = 0 =>
              LET n == obj[c].bind[1 - e]["closed"]
              IN  n # None /\ LiveOf(n, "notif")' =>
                     obj'[n].word \/ \E t \in Range(obj[n].waiters) : obj'[t].state = "ready"]_vars

\* Deleting and revoking take what they should, no more, and tell who must know.
TeardownExact == RevokeExact /\ PeerTold

\* Between two quanta of a revoke no call adds to the subtree of its root.
RevokedNeverGrows ==
    [][\A s \in Slots : slot[s].revoking /\ slot'[s].revoking =>
          Cardinality(Descendants(slot', s)) <= Cardinality(Descendants(slot, s))]_vars

\* A revoke in progress comes to its end, whatever another thread copies and
\* deletes in its subtree meanwhile.  Not claimed where a thread retypes untyped
\* memory inside the subtree: RevokedNeverGrows fails there.
RevokeEnds == \A s \in AllSlots : []<>~(s \in Slots /\ slot[s].revoking)

-----------------------------------------------------------------------------
(* What all this is for: intervals of memory and shrinking authority. *)

Auth(c) == ({"may"} \X c.rights)
           \cup (IF c.kind = "thread" THEN {"prio"} \X (0 .. c.ceiling) ELSE {})
           \cup (IF c.kind = "chan" THEN {<<"end", c.end>>} ELSE {})

Region(c) == [kind |-> c.kind, base |-> At(c), auth |-> Auth(c),
              size |-> IF c.kind = "untyped" THEN c.size ELSE 1,
              mark |-> IF c.kind = "untyped" THEN c.mark ELSE 0]

InUse == {s \in Slots : Holds(slot, s)}

Tree == INSTANCE CapTree WITH
    Slots     <- AllSlots,
    Kinds     <- {"frame", "cspace", "thread", "chan", "notif", "timer", "irq", "aspace"},
    Authority <- ({"may"} \X ThreadAll) \cup ({"prio"} \X Nat) \cup ({"end"} \X Ends),
    cap       <- [s \in InUse |-> Region(slot[s].cap)],
    anc       <- LET A == Ancestors(slot) IN [s \in InUse |-> A[s]]

\* Every call is a step of CapTree: links, counts and cascades keep what the tree
\* of capabilities says about memory and authority.
TreeImplemented == Tree!Spec
=============================================================================
