------------------------------ MODULE Spawning ------------------------------
(***************************************************************************)
(* How the system comes up and how programs are started: init wires        *)
(* storaged, the console driver and the shell together and ends; the shell *)
(* then runs one child at a time out of one donation of memory, waits for  *)
(* it to end and takes everything back.  Both do it with lists of calls,   *)
(* any of which the kernel may refuse; every program finds its             *)
(* capabilities at slots it knows or that its startup block names.         *)
(***************************************************************************)
EXTENDS Integers, FiniteSets, Sequences, SequencesExt, TLC

CONSTANTS
    SPAWN_BASE,      \* first slot of the shell's window
    SPAWN_CAP,       \* slots in it
    BootSegments,    \* segments of the images init starts
    Segments,        \* how many segments the shell's programs may have
    WORKING_SLOTS,   \* slots a child's threads may use
    REVOKE_QUANTUM,  \* capabilities one revoke call deletes at most
    MaxRuns          \* bound on the programs the shell runs

VARIABLES
    cs,       \* program -> slot -> capability, for the slots that hold one
    maps,     \* program -> set of <<address, frame>>
    block,    \* program -> the grants its startup block names
    started,  \* programs that run
    extra,    \* capabilities the threads of the child carved out of its donation
    carved,   \* the donation has been carved since it was last reset
    bound,    \* bits by which the child's end is announced
    word,     \* bits pending in the shell's notification
    report,   \* how the child ended: "none", "exited" or "faulted"
    free,     \* slots of the window that the allocator holds free
    pc,       \* "boot", "boot storaged", ..., "shell", "idle", "waiting" or "down"
    held,     \* the slots taken for the child
    shown,    \* what the shell printed of the last run
    reaped,   \* capabilities the last child had when it was reaped (history)
    runs

vars == <<cs, maps, block, started, extra, carved, bound, word, report, free, pc, held, shown,
          reaped, runs>>

Programs == {"init", "storaged", "console", "shell", "child"}
Window == SPAWN_BASE .. SPAWN_BASE + SPAWN_CAP - 1

Cap(obj, of) == [obj |-> obj, of |-> of, don |-> FALSE]
Held(p) == DOMAIN cs[p]
NoSlots == [s \in {} |-> Cap("", "")]
Drop(f, S) == [s \in DOMAIN f \ S |-> f[s]]

-----------------------------------------------------------------------------
(* Calls.  a and b are slots of the caller, or a slot of the program named   *)
(* by what; must tells whether the caller gives up when the call fails.      *)

Call(op, obj, of, a, b) ==
    [op |-> op, obj |-> obj, of |-> of, a |-> a, b |-> b, scratch |-> 0, grants |-> {}, must |-> TRUE]
Retype(obj, of, slot) == Call("retype", obj, of, slot, 0)
Channel(obj, a, b) == Call("channel", obj, "", a, b)
Copy(src, dst) == Call("copy", "", "", src, dst)
Install(p, src, dst) == Call("install", "", p, src, dst)
Map(p, frame, va) == Call("map", "", p, frame, va)
Block(p, grants) == [Call("block", "", p, 0, 0) EXCEPT !.grants = grants]
Bind(src, bit) == Call("bind", "", "", src, bit)
Watch(chan, notif) == Call("watch", "", "", chan, notif)
Console(src, dst, scratch) ==
    [Call("console", "", "", src, dst) EXCEPT !.scratch = scratch, !.must = FALSE]
Start(p) == Call("start", "", p, 0, 0)
Unchecked(c) == [c EXCEPT !.must = FALSE]

Cap1(name, slot) == <<"cap", name, slot>>
Region(name, va) == <<"region", name, va>>
Seed == <<"seed", "seed", 0>>

MAX_GRANTS == 8

\* prepare: an address space, a thread and a cspace, one frame per segment, a
\* stack; addresses below 0 stand for where the image puts them.
Prepare(p, base, n) ==
    <<Retype("aspace", p, base), Retype("tcb", p, base + 1), Retype("cspace", p, base + 2)>>
    \o FlattenSeq([i \in 1..n |-> <<Retype("frame", p, base + 2 + i), Map(p, base + 2 + i, -i)>>])
    \o <<Retype("stack", p, base + 3 + n), Map(p, base + 3 + n, -(n + 1))>>

\* What the kernel insists on: a destination that is free, a source that is not.
Accepts(g, who, c) ==
    LET mine == DOMAIN g.cs[who]
    IN  CASE c.op = "retype"  -> c.a \notin mine
          [] c.op = "channel" -> {c.a, c.b} \cap mine = {}
          [] c.op = "copy"    -> c.a \in mine /\ c.b \notin mine
          [] c.op = "install" -> c.a \in mine /\ c.b \notin DOMAIN g.cs[c.of]
          [] c.op = "map"     -> c.a \in mine /\ \A m \in g.maps[c.of] : m[1] # c.b
          [] c.op = "block"   -> Cardinality(c.grants) <= MAX_GRANTS
          [] c.op = "bind"    -> c.a \in mine
          [] c.op = "watch"   -> {c.a, c.b} \subseteq mine
          [] c.op = "console" -> c.a \in mine /\ c.scratch \notin mine /\ c.b \notin DOMAIN g.cs["child"]
          [] OTHER            -> TRUE

\* Every call whose result the caller looks at may be refused besides.
MayFail(c) == c.must \/ c.op = "console"

\* What the shell makes comes out of the donation, and so do copies of it; only
\* its notification and the donation itself come out of its pool.
FromDonation(who, c) == who = "shell" /\ c.obj \notin {"event", "donation"}
Made(who, c, of) == [obj |-> c.obj, of |-> of, don |-> FromDonation(who, c)]

\* The console is passed on if that works; if not, the child does without, and
\* nothing of it is named.
ConsoleNames == {"stdin", "stdout"}
Named(g, who, c) ==
    {x \in c.grants : who # "shell" \/ x[2] \notin ConsoleNames \/ x[3] \in DOMAIN g.cs[c.of]}

Effect(g, who, c) ==
    LET mine == g.cs[who]
    IN  CASE c.op = "retype" ->
              [g EXCEPT !.cs[who] = @ @@ (c.a :> Made(who, c, c.of)), !.carved = @ \/ FromDonation(who, c)]
          [] c.op = "channel" ->
              [g EXCEPT !.cs[who] = @ @@ (c.a :> Made(who, c, "a")) @@ (c.b :> Made(who, c, "b")),
                        !.carved = @ \/ FromDonation(who, c)]
          [] c.op = "copy" -> [g EXCEPT !.cs[who] = @ @@ (c.b :> mine[c.a])]
          [] c.op = "install" ->
              [g EXCEPT !.cs[who] = Drop(@, {c.a}), !.cs[c.of] = @ @@ (c.b :> mine[c.a])]
          [] c.op = "map" -> [g EXCEPT !.maps[c.of] = @ \cup {<<c.b, mine[c.a].obj>>}]
          [] c.op = "console" -> [g EXCEPT !.cs["child"] = @ @@ (c.b :> mine[c.a])]
          [] c.op = "watch" -> g
          [] c.op = "block" -> [g EXCEPT !.block[c.of] = Named(g, who, c)]
          [] c.op = "bind" -> [g EXCEPT !.cs[who] = Drop(@, {c.a}), !.bound = @ \cup {c.b}]
          [] c.op = "start" -> [g EXCEPT !.started = @ \cup {c.of}]

\* Of the copies staged in scratch only those of arm and of the console are dropped
\* when what they were staged for is refused.
Refused(g, who, c) ==
    CASE c.op = "bind"    -> [g EXCEPT !.cs[who] = Drop(@, {c.a})]
      [] c.op = "console" -> [g EXCEPT !.cs[who] = Drop(@, {c.scratch})]
      [] OTHER            -> g

\* The calls in order, up to the first failure that counts; call number bad fails.
Perform(g0, who, calls, bad) ==
    FoldLeft(LAMBDA g, c :
                IF ~g.ok THEN g
                ELSE IF g.n # bad /\ Accepts(g, who, c)
                     THEN [Effect(g, who, c) EXCEPT !.n = @ + 1]
                     ELSE [Refused(g, who, c) EXCEPT !.ok = ~c.must, !.n = @ + 1],
             g0, calls)

Now == [cs |-> cs, maps |-> maps, block |-> block, started |-> started, carved |-> carved,
        bound |-> bound, ok |-> TRUE, n |-> 1]

Becomes(g) ==
    /\ cs' = g.cs /\ maps' = g.maps /\ block' = g.block
    /\ started' = g.started /\ carved' = g.carved /\ bound' = g.bound

Points(calls) == {0} \cup {i \in DOMAIN calls : MayFail(calls[i])}

-----------------------------------------------------------------------------
(* init.  Its own slots, and the first slots of its spawn ranges.            *)

MMIO == 160
DMA == 161
TIME == 163

InitSlots ==
    (0 :> Cap("untyped", "")) @@ (1 :> Cap("tcb", "init")) @@ (2 :> Cap("pool", "")) @@ (3 :> Cap("virtio", ""))
    @@ (4 :> Cap("rtc", "")) @@ (5 :> Cap("aspace", "init"))
    @@ (62 :> Cap("pl011", "")) @@ (63 :> Cap("irq", ""))

WiringCalls ==
    <<Channel("sdboot", 6, 7), Channel("shboot", 8, 9), Channel("session", 10, 11),
      Channel("session2", 19, 29), Channel("conboot", 30, 31), Channel("con", 32, 33),
      Map("init", 4, 162), Retype("time", "", 14)>>

StoragedBlock == {Region("virtio", MMIO), Region("dma", DMA), Region("time", TIME), Seed}
StoragedCalls(n) ==
    Prepare("storaged", 20, n)
    \o <<Copy(3, 12), Map("storaged", 12, MMIO), Retype("dma", "", 13), Map("storaged", 13, DMA),
         Copy(14, 15), Map("storaged", 15, TIME), Block("storaged", StoragedBlock),
         Retype("notif", "storaged", 17), Watch(10, 17), Watch(19, 17),
         Install("storaged", 7, 0), Install("storaged", 10, 1), Install("storaged", 17, 2),
         Install("storaged", 19, 3), Start("storaged")>>

ConsoleBlock == {Region("pl011", MMIO), Seed}
ConsoleCalls(n) ==
    Prepare("console", 50, n)
    \o <<Copy(62, 35), Map("console", 35, MMIO), Retype("notif", "console", 34),
         Block("console", ConsoleBlock),
         Install("console", 31, 0), Install("console", 32, 1), Install("console", 34, 2),
         Install("console", 63, 3), Start("console")>>

ShellBlock ==
    {Region("time", TIME), Seed, Cap1("storage", 1), <<"handle", "root", 0>>}
    \cup {Cap1(name, 6) : name \in {"stdin", "stdout", "stderr"}}
ShellCalls(n) ==
    Prepare("shell", 40, n)
    \o <<Copy(14, 16), Map("shell", 16, TIME), Copy(14, 18), Install("shell", 18, 5),
         Block("shell", ShellBlock), Install("shell", 9, 0), Install("shell", 11, 1),
         Install("shell", 29, 7), Install("shell", 2, 2), Install("shell", 33, 6), Start("shell")>>

\* init stops at the first call that fails; what it has started goes on.
Wire(from, to, calls) ==
    /\ pc = from
    /\ \E bad \in Points(calls) : \E g \in {Perform(Now, "init", calls, bad)} :
          Becomes(g) /\ pc' = IF g.ok THEN to ELSE "down"
    /\ UNCHANGED <<extra, word, report, free, held, shown, reaped, runs>>

Boot ==
    \/ Wire("boot", "boot storaged", WiringCalls)
    \/ Wire("boot storaged", "boot console", StoragedCalls(BootSegments))
    \/ Wire("boot console", "boot shell", ConsoleCalls(BootSegments))
    \/ Wire("boot shell", "shell", ShellCalls(BootSegments))

\* The shell first makes its notification and the donation for its children.
ShellStart ==
    /\ pc = "shell"
    /\ LET calls == <<Retype("event", "", 3), Retype("donation", "", 4)>>
       IN  \E bad \in Points(calls) : \E g \in {Perform(Now, "shell", calls, bad)} :
              /\ Becomes([g EXCEPT !.started = IF g.ok THEN @ ELSE @ \ {"shell"}])
              /\ pc' = IF g.ok THEN "idle" ELSE "down"
    /\ UNCHANGED <<extra, word, report, free, held, shown, reaped, runs>>

-----------------------------------------------------------------------------
(* The shell runs a program.                                                 *)

\* The first n free slots in a row.
AllocRange(F, n) ==
    LET starts == {s \in Window : s .. s + n - 1 \subseteq F}
    IN  IF starts = {} THEN {} ELSE LET s == CHOOSE x \in starts : \A y \in starts : x <= y
                                    IN  s .. s + n - 1
Alloc(F) == IF F = {} THEN {} ELSE {CHOOSE x \in F : \A y \in F : x <= y}

First(S) == CHOOSE x \in S : \A y \in S : x <= y

\* The slots in the order they are taken; no slot where one is not to be had.
Take(n) ==
    LET range == AllocRange(free, n + 4)
        a == Alloc(free \ range)
        b == Alloc(free \ (range \cup a))
        scratch == Alloc(free \ (range \cup a \cup b))
        time == Alloc(free \ (range \cup a \cup b \cup scratch))
    IN  [range |-> range, a |-> a, b |-> b, scratch |-> scratch, time |-> time]
Taken(t) == t.range \cup t.a \cup t.b \cup t.scratch \cup t.time
Enough(t) == t.range # {} /\ t.time # {}

Kinds == {"plain", "threads", "files"}
THREAD_SLOT_BASE == 4
\* Mutant: the last slot of the threads instead of the one behind it.
ConsoleSlotInside(kind) == IF kind = "threads" THEN THREAD_SLOT_BASE + WORKING_SLOTS - 1 ELSE 2

ConsoleSlot(kind) == IF kind = "threads" THEN THREAD_SLOT_BASE + WORKING_SLOTS ELSE 2

ThreadCalls(base, scratch) ==
    <<Copy(base, scratch), Install("child", scratch, 1), Copy(base + 2, scratch),
      Install("child", scratch, 2), Retype("untyped", "child", scratch),
      Install("child", scratch, 3)>>

FilesCalls(scratch) == <<Copy(7, scratch), Install("child", scratch, 1)>>

ThreadGrants ==
    {Cap1("self_aspace", 1), Cap1("self_cspace", 2), Cap1("thread_untyped", 3),
     Cap1("thread_slot_base", THREAD_SLOT_BASE)}
FilesGrants == {Cap1("storage", 1), <<"handle", "root", 0>>}
\* Mutant: the console under a third name.
ChildBlockStderr(kind) ==
    {Region("time", TIME), Seed}
    \cup (IF kind = "files" THEN FilesGrants ELSE {})
    \cup (IF kind = "threads" THEN ThreadGrants ELSE {})
    \cup {Cap1(name, ConsoleSlot(kind)) : name \in ConsoleNames \cup {"stderr"}}

ChildBlock(kind) ==
    {Region("time", TIME), Seed}
    \cup (IF kind = "files" THEN FilesGrants ELSE {})
    \cup (IF kind = "threads" THEN ThreadGrants ELSE {})
    \cup {Cap1(name, ConsoleSlot(kind)) : name \in ConsoleNames}

\* Mutant: a fault is not bound.
ArmCallsExit(scratch) == <<Copy(3, scratch), Bind(scratch, "exited")>>

ArmCalls(scratch) ==
    <<Copy(3, scratch), Bind(scratch, "exited"), Copy(3, scratch), Bind(scratch, "faulted")>>

ChildCalls(kind, n, t) ==
    LET base == First(t.range)
        scratch == First(t.scratch)
    IN  <<Channel("boot", First(t.a), First(t.b))>>
        \o Prepare("child", base, n)
        \o <<Copy(5, First(t.time)), Map("child", First(t.time), TIME),
             Unchecked(Install("child", First(t.b), 0))>>
        \o (IF kind = "threads" THEN ThreadCalls(base, scratch) ELSE <<>>)
        \o (IF kind = "files" THEN FilesCalls(scratch) ELSE <<>>)
        \o <<Console(6, ConsoleSlot(kind), scratch), Block("child", ChildBlock(kind))>>
        \o ArmCalls(scratch)
        \o <<Start("child")>>

Donated(g) ==
    UNION {{<<p, s>> : s \in {x \in DOMAIN g.cs[p] : g.cs[p][x].don}} : p \in {"shell", "child"}}

\* The capabilities in gone go, and with the last one to the child's thread and
\* cspace everything the child holds.
Without(g, gone) ==
    LET left  == [p \in Programs |-> Drop(g.cs[p], {s \in DOMAIN g.cs[p] : <<p, s>> \in gone})]
        lives == \E p \in {"shell", "child"} : \E s \in DOMAIN left[p] :
                    left[p][s].don /\ left[p][s].of = "child" /\ left[p][s].obj \in {"tcb", "cspace"}
    IN  IF lives THEN [g EXCEPT !.cs = left]
        ELSE [g EXCEPT !.cs = [left EXCEPT !["child"] = NoSlots], !.maps["child"] = {},
                       !.bound = {}, !.started = @ \ {"child"}]

\* Mutant: the time page stays where it is.
ScrubKeepsTime(g, time) == [Without(g, Donated(g)) EXCEPT !.carved = FALSE]

\* Giving up: the time page is dropped, then everything carved is revoked, in as
\* many calls as it takes, and the donation reset.
Scrub(g, time) ==
    LET dropped == [g EXCEPT !.cs["shell"] = Drop(@, time)]
    IN  [Without(dropped, Donated(dropped)) EXCEPT !.carved = FALSE]

Run(kind, n) ==
    /\ pc = "idle" /\ runs < MaxRuns
    /\ LET t == Take(n)
       IN  IF ~Enough(t)
           THEN /\ free' = free \ Taken(t)
                /\ shown' = "noslots"
                /\ UNCHANGED <<cs, maps, block, started, extra, carved, bound, report, pc, held, reaped>>
           ELSE LET calls == ChildCalls(kind, n, t)
                IN  \E bad \in Points(calls) : \E g \in {Perform(Now, "shell", calls, bad)} :
                      IF g.ok
                      THEN /\ Becomes(g)
                           /\ pc' = "waiting" /\ held' = t /\ free' = free \ Taken(t)
                           /\ report' = "none"
                           /\ UNCHANGED <<extra, shown, reaped>>
                      ELSE /\ Becomes(Scrub(g, t.time))
                           /\ extra' = 0 /\ reaped' = 0
                           /\ shown' = "failed"
                           /\ UNCHANGED <<pc, held, free, report>>
    /\ runs' = runs + 1
    /\ UNCHANGED word

\* An image that does not parse is refused before anything is taken.
BadImage ==
    /\ pc = "idle" /\ runs < MaxRuns
    /\ shown' = "badelf"
    /\ runs' = runs + 1
    /\ UNCHANGED <<cs, maps, block, started, extra, carved, bound, word, report, free, pc, held, reaped>>

\* The child's runtime carves what its threads need out of its part.
ChildThread ==
    /\ "child" \in started /\ 3 \in Held("child") /\ cs["child"][3].obj = "untyped"
    /\ extra < WORKING_SLOTS
    /\ extra' = extra + 1
    /\ UNCHANGED <<cs, maps, block, started, carved, bound, word, report, free, pc, held, shown, reaped, runs>>

ChildEnds(how) ==
    /\ "child" \in started /\ report = "none"
    /\ report' = how
    /\ word' = word \cup (bound \cap {how})
    /\ UNCHANGED <<cs, maps, block, started, extra, carved, bound, free, pc, held, shown, reaped, runs>>

\* Mutant: the donation is revoked first.
ReadReportLate(g, t) ==
    LET tcb == First(t.range) + 1
    IN  IF tcb \in DOMAIN Without(g, Donated(g)).cs["shell"] THEN report ELSE "lost"

ReadReport(g, t) ==
    LET tcb == First(t.range) + 1
    IN  IF tcb \in DOMAIN g.cs["shell"] /\ g.cs["shell"][tcb].obj = "tcb" THEN report ELSE "lost"

\* A revoke takes down the tree from what was derived last: what the threads carved,
\* their untyped memory, the stack, the frames, then each object after the copy made
\* of it.  What the child still holds by then goes with its thread.
DerivedOrder == <<"boot", "aspace", "tcb", "cspace", "frame", "stack", "untyped">>
Age(g, x) ==
    <<CHOOSE i \in DOMAIN DerivedOrder : DerivedOrder[i] = g.cs[x[1]][x[2]].obj,
      IF x[1] = "child" THEN 1 ELSE 0, x[2]>>
Later(s, t) == \E i \in DOMAIN s : s[i] > t[i] /\ \A j \in 1 .. i - 1 : s[j] = t[j]
Leaves(g) == {x \in Donated(g) : x[1] = "shell" \/ g.cs[x[1]][x[2]].obj \in {"cspace", "untyped"}}

\* One revoke call deletes at most REVOKE_QUANTUM capabilities; a donation that
\* still has any is not reset.
Reclaim(g) ==
    LET gone == {x \in Leaves(g) : extra + Cardinality({y \in Leaves(g) : Later(Age(g, y), Age(g, x))})
                                      < REVOKE_QUANTUM}
        left == Without(g, gone)
    IN  /\ Becomes([left EXCEPT !.carved = Donated(left) # {}])
        /\ extra' = 0
        /\ reaped' = Cardinality(Leaves(g)) + extra

\* The shell wakes, drops the time page, reads the report, takes back the rest.
Reap ==
    /\ pc = "waiting" /\ word # {}
    /\ word' = {}
    /\ LET g == [Now EXCEPT !.cs["shell"] = Drop(@, held.time)]
       IN  shown' = ReadReport(g, held) /\ Reclaim(g)
    /\ free' = free \cup Taken(held)
    /\ pc' = "idle"
    /\ UNCHANGED <<report, held, runs>>

-----------------------------------------------------------------------------
(* Where the programs look for capabilities without being told.             *)

StoragedSlots ==
    {<<0, "sdboot", "b">>, <<1, "session", "a">>, <<2, "notif", "storaged">>, <<3, "session2", "a">>}
ConsoleSlots ==
    {<<0, "conboot", "b">>, <<1, "con", "a">>, <<2, "notif", "console">>, <<3, "irq", "">>}
ShellSlots ==
    {<<0, "shboot", "b">>, <<2, "pool", "">>, <<5, "time", "">>, <<6, "con", "b">>, <<7, "session2", "b">>}
ChildSlots == {<<0, "boot", "b">>}

Fixed(p) ==
    CASE p = "storaged" -> StoragedSlots
      [] p = "console"  -> ConsoleSlots
      [] p = "shell"    -> ShellSlots
      [] p = "child"    -> ChildSlots
      [] OTHER          -> {}

NoHeld == [range |-> {}, a |-> {}, b |-> {}, scratch |-> {}, time |-> {}]

Init ==
    /\ cs = [p \in Programs |-> IF p = "init" THEN InitSlots ELSE NoSlots]
    /\ maps = [p \in Programs |-> {}]
    /\ block = [p \in Programs |-> {}]
    /\ started = {"init"}
    /\ extra = 0 /\ carved = FALSE /\ bound = {} /\ word = {}
    /\ report = "none" /\ shown = "none"
    /\ free = Window
    /\ pc = "boot" /\ held = NoHeld /\ reaped = 0 /\ runs = 0

Next ==
    \/ Boot
    \/ ShellStart
    \/ \E kind \in Kinds, n \in Segments : Run(kind, n)
    \/ BadImage
    \/ ChildThread
    \/ \E how \in {"exited", "faulted"} : ChildEnds(how)
    \/ Reap

Spec == Init /\ [][Next]_vars

-----------------------------------------------------------------------------
(* Properties. *)

\* What a name in a startup block stands for, in program p.
Means(p, name, c) ==
    CASE name = "storage" -> c.obj \in {"session", "session2"} /\ c.of = "b"
      [] name \in {"stdin", "stdout", "stderr"} -> c.obj = "con" /\ c.of = "b"
      [] name = "self_aspace" -> c.obj = "aspace" /\ c.of = p
      [] name = "self_cspace" -> c.obj = "cspace" /\ c.of = p
      [] name = "thread_untyped" -> c.obj = "untyped" /\ c.of = p
      [] OTHER -> FALSE

GrantHolds(p, x) ==
    CASE x[1] = "region" -> <<x[3], x[2]>> \in maps[p]
      [] x[1] = "cap" /\ x[2] = "thread_slot_base" ->
            x[3] .. x[3] + WORKING_SLOTS - 1 \cap Held(p) = {}
      [] x[1] = "cap" -> x[3] \in Held(p) /\ Means(p, x[2], cs[p][x[3]])
      [] OTHER -> TRUE

\* A program that init or the shell has started finds at every slot it relies on
\* what it takes to be there, behind every name in its startup block the object
\* or the memory that the name promises, and its threads' slots empty, whatever
\* call failed on the way.  For a child this is so until its main thread ends.
GrantsTrue ==
    \A p \in IF report = "none" THEN started ELSE started \ {"child"} :
        /\ \A f \in Fixed(p) : f[1] \in Held(p) /\ cs[p][f[1]].obj = f[2] /\ cs[p][f[1]].of = f[3]
        /\ \A x \in block[p] : GrantHolds(p, x)

\* A copy of the file session that run_once staged in scratch and could not install:
\* it does not come from the donation, so giving up does not take it back.
Staged == {s \in Held("shell") \cap Window : cs["shell"][s].obj = "session2"}

\* The last child had more capabilities than one revoke call deletes; reap calls
\* revoke once, without looking at its result.
Overrun == reaped > REVOKE_QUANTUM

\* Between two programs the shell holds none of the last one's capabilities, its
\* slots are all free again and the donation is whole: run_once leaves nothing
\* behind, however far it came.  Excepted are a staged copy of the file session
\* whose install was refused, and what is left of a child that had more
\* capabilities than one revoke call deletes, until the next run gives up.
NothingKept ==
    pc = "idle" =>
        /\ free = Window /\ extra = 0
        /\ ~Overrun => /\ Held("shell") \cap Window = Staged
                       /\ Held("child") = {} /\ ~carved

\* While the shell waits for a child that has ended, the notification holds a bit
\* for it: both ends are bound before the child starts, so none goes unnoticed.
DeathSeen == pc = "waiting" /\ report # "none" => word # {}

\* The end the shell prints is the one the child met: the report is read before
\* the revoke that destroys the thread it lives in.
ReportTrue == pc = "idle" /\ shown \in {"exited", "faulted", "lost"} => shown = report

\* A program can always be run again: with memory to be had, nothing that earlier
\* runs left behind makes a call of the next one fail, but for the two exceptions
\* of NothingKept; and a run that gives up ends the second.
CanRun ==
    /\ pc = "idle" /\ ~Overrun /\ Staged = {} =>
          \A kind \in Kinds, n \in Segments :
              Enough(Take(n)) /\ Perform(Now, "shell", ChildCalls(kind, n, Take(n)), 0).ok
    /\ pc = "idle" /\ shown = "failed" => ~carved /\ Donated(Now) = {}
=============================================================================
