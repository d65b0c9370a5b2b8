--------------------------------- MODULE MCMachine ---------------------------------
(***************************************************************************)
(* The kernel's parts and the runtime's for TLC, one at a time: threads and *)
(* queues, page tables, untyped memory, the system-call boundary, and, above *)
(* them, how programs are started and ended and the heap of a program.      *)
(***************************************************************************)
EXTENDS Integers, Sequences, TLC

CONSTANTS None, idle, ta, tb, tc, ua, ub, as1, as2  \* model values: threads and address spaces

VARIABLES
    part,  \* the component that runs, chosen once
    k,
    asp, mapping, nextAsid, tlb,
    cap, lent,
    call, regs, sys, x0, done,
    cs, maps, block, started, extra, carved, bound, word, report, spawnedFree, pc, held,
    shown, reaped, runs,
    user, heapFree, live, leaked

\* Threads are alike, and so are address spaces.
Alike == Permutations({ta, tb, tc}) \cup Permutations({ua, ub}) \cup Permutations({as1, as2})

\* A frame of one page that may only be read, and a writable one of two.
FramePa(f)    == IF f = "f" THEN 20 ELSE 30
FramePages(f) == IF f = "f" THEN 1 ELSE 2
FramePerms(f) == IF f = "f" THEN {} ELSE {"w"}

\* Two regions of memory at boot, the first not aligned to a page.
BootRegion(base, size) ==
    [ty |-> "untyped", base |-> base, size |-> size, mark |-> 0, parent |-> None, pool_end |-> 0]
Boot == 1 :> BootRegion(2, 18) @@ 2 :> BootRegion(20, 5)

\* One capability of every kind with all rights, then some with fewer.
AllRights == {"read", "write", "phys", "bind_reports", "read_report"}
CapOf(kind, rights) ==
    [kind |-> kind, rights |-> rights, state |-> "inactive", max_prio |-> 2, bytes |-> 6]
Caps ==
    [i \in 0 .. 10 |-> CapOf(<<"untyped", "thread", "channel", "notification", "cspace", "aspace",
                               "frame", "irq", "timer", "empty", "empty">>[i + 1],
                             IF i > 8 THEN {} ELSE AllRights)]
    @@ 11 :> CapOf("channel", {"read"})      @@ 12 :> CapOf("notification", {"read"})
    @@ 13 :> CapOf("frame", {"read"})        @@ 14 :> CapOf("channel", {"write"})
    @@ 15 :> [CapOf("thread", {"read", "write"}) EXCEPT !.state = "running"]
    @@ 16 :> CapOf("aspace", {"read"})       @@ 17 :> CapOf("notification", {"write"})
    @@ 18 :> [CapOf("thread", AllRights) EXCEPT !.max_prio = 0]
    @@ 19 :> [CapOf("frame", {"read"}) EXCEPT !.state = "mapped"]

\* Arguments that pass every check; addresses 20 to 29 are the caller's.
Base(op) ==
    [ch |-> 1, ptr |-> 22, len |-> 3, ut |-> 0, ty |-> 2, param |-> 1, dst |-> 9, dst2 |-> 10,
     src |-> 2, mask |-> 3, prio_ceiling |-> 1,
     slot |-> IF op \in {"NotifSignal", "NotifWait"} THEN 3 ELSE IF op = "FramePaddr" THEN 6 ELSE 0,
     cs |-> 4, dst_index |-> 5, chan |-> 2, buf |-> 23, caps |-> 24, dests |-> 24, event |-> 1,
     notif |-> 3, bits |-> 2, tcb |-> 1, cspace |-> 4, entry |-> 25, sp |-> 30, prio |-> 2,
     arg |-> 7, timer |-> 8, delta |-> 9, status |-> 11, aspace |-> 5, frame |-> 6, va |-> 12,
     perms |-> 7, off |-> 2, which |-> 1, pages |-> 1, irq |-> 7]

\* What is tried instead: every slot and, a word further, indices cut to one;
\* addresses around both ends of the user range; codes beyond the last.
Tries(f) ==
    CASE f \in {"ptr", "buf", "caps", "dests", "entry", "sp"} -> {0, 19, 24, 26, 29, 30, 31, 63}
      [] f = "prio"               -> {0, 1, 4, 9, 12}
      [] f = "ty"                 -> {2, 5, 7, 8}
      [] f \in {"event", "which"} -> 0 .. 3
      [] f \in {"len", "off"}     -> {0, 4, 5, 6, 63}
      [] f = "perms"              -> {0, 1, 4, 5}
      [] f = "dst_index"          -> {5, 32}
      [] f \in {"param", "mask", "prio_ceiling", "bits", "arg", "delta", "va", "pages", "ch", "status"} -> {1, 63}
      [] OTHER                    -> 0 .. 20 \cup {31, 31 + 7, 31 + 4}
Lists == 24 :> <<2, 31>> @@ 26 :> <<9, 31>> @@ 29 :> <<2, 20>>

Sched == INSTANCE Scheduler WITH
    Threads <- {ta, tb, tc, idle}, Idle <- idle, Notifs <- {"n"}, Timers <- {"t"},
    Bits <- {1}, Prios <- {1, 2}, MaxDelta <- 1, ExitNotif <- "n"
schedVars == <<k>>

\* The same code with fewer threads and two timers.
Timed == INSTANCE Scheduler WITH
    Threads <- {ua, ub, idle}, Idle <- idle, Notifs <- {"n"}, Timers <- {"t", "u"}, Bits <- {1},
    Prios <- {1, 2}, MaxDelta <- 1, ExitNotif <- "n"

Tables == INSTANCE PageTable WITH
    Aspaces <- {as1, as2}, Frames <- {"f", "g"}, Vas <- {5, 8, 10, 14}, L1Size <- 2,
    TableSize <- 2, KernelL1 <- 1, PageBytes <- 2, MaxAddr <- 17, MaxPool <- 3,
    MaxAsid <- 2, TlbSize <- 1
tablesVars == <<asp, mapping, nextAsid, tlb>>

Carving == INSTANCE Untyped WITH
    Slots <- 1 .. 4, MaxAddr <- 27, PageBytes <- 4, SmallAlign <- 2, FixedBytes <- 5,
    HeadBytes <- 1, EntryBytes <- 2, MaxEntries <- 2, MaxFrame <- 2, Params <- {1, 26},
    Tried <- {"thread", "frame", "aspace", "untyped"}, TopUps <- {1, 7}
carvingVars == <<cap, lent>>

Boundary == INSTANCE Syscall WITH
    MaxU32 <- 31, MsgPayload <- 4, NumPrios <- 4, DebugWriteMax <- 4, PrioMask <- 8,
    UserBase <- 20, UserEnd <- 30, MaxAddr <- 63, SlotNone <- 31
boundaryVars == <<call, regs, sys, x0, done>>

Spawned == INSTANCE Spawning WITH
    SPAWN_BASE <- 8, SPAWN_CAP <- 12, BootSegments <- 4, Segments <- {1, 3},
    WORKING_SLOTS <- 9, REVOKE_QUANTUM <- 16, MaxRuns <- 3, free <- spawnedFree
spawnedVars == <<cs, maps, block, started, extra, carved, bound, word, report,
                 spawnedFree, pc, held, shown, reaped, runs>>

Heap == INSTANCE FreeList WITH
    N <- 3, Length <- 10, Sizes <- 1 .. 4, Aligns <- {1, 2, 4}, MinAlign <- 2,
    MaxAlign <- 4, MaxLive <- 4, free <- heapFree
heapVars == <<user, heapFree, live, leaked>>

-----------------------------------------------------------------------------

\* A component that does not run has no state.
Off(p) ==
    /\ IF p \in {"scheduler", "timers"} THEN TRUE ELSE k = <<>>
    /\ IF p = "tables" THEN TRUE ELSE asp = <<>> /\ mapping = <<>> /\ nextAsid = <<>> /\
                                      tlb = <<>>
    /\ IF p = "untyped" THEN TRUE ELSE cap = <<>> /\ lent = <<>>
    /\ IF p = "syscall" THEN TRUE ELSE call = <<>> /\ regs = <<>> /\ sys = <<>> /\
                                       x0 = <<>> /\ done = <<>>
    /\ IF p = "spawning" THEN TRUE ELSE cs = <<>> /\ maps = <<>> /\ block = <<>> /\
                                        started = <<>> /\ extra = <<>> /\
                                        carved = <<>> /\ bound = <<>> /\ word = <<>> /\
                                        report = <<>> /\ spawnedFree = <<>> /\
                                        pc = <<>> /\ held = <<>> /\ shown = <<>> /\
                                        reaped = <<>> /\ runs = <<>>
    /\ IF p = "heap" THEN TRUE ELSE user = <<>> /\ heapFree = <<>> /\ live = <<>> /\
                                    leaked = <<>>

Still(p) ==
    /\ UNCHANGED part
    /\ IF p \in {"scheduler", "timers"} THEN TRUE ELSE UNCHANGED schedVars
    /\ IF p = "tables" THEN TRUE ELSE UNCHANGED tablesVars
    /\ IF p = "untyped" THEN TRUE ELSE UNCHANGED carvingVars
    /\ IF p = "syscall" THEN TRUE ELSE UNCHANGED boundaryVars
    /\ IF p = "spawning" THEN TRUE ELSE UNCHANGED spawnedVars
    /\ IF p = "heap" THEN TRUE ELSE UNCHANGED heapVars

Init ==
    /\ \/ part = "scheduler" /\ Sched!Init
       \/ part = "timers" /\ Timed!Init
       \/ part = "tables" /\ Tables!Init
       \/ part = "untyped" /\ Carving!Init
       \/ part = "syscall" /\ Boundary!Init
       \/ part = "spawning" /\ Spawned!Init
       \/ part = "heap" /\ Heap!Init
    /\ Off(part)

Next ==
    \/ part = "scheduler" /\ Sched!Next /\ Still("scheduler")
    \/ part = "timers" /\ Timed!Next /\ Still("timers")
    \/ part = "tables" /\ Tables!Next /\ Still("tables")
    \/ part = "untyped" /\ Carving!Next /\ Still("untyped")
    \/ part = "syscall" /\ Boundary!Next /\ Still("syscall")
    \/ part = "spawning" /\ Spawned!Next /\ Still("spawning")
    \/ part = "heap" /\ Heap!Next /\ Still("heap")

vars == <<part, schedVars, tablesVars, carvingVars, boundaryVars, spawnedVars, heapVars>>

Spec == Init /\ [][Next]_vars

-----------------------------------------------------------------------------
(* The properties of the components. *)

\* Ready queues, wait queues and the list of armed timers hold exactly the threads
\* and timers whose state says so, though they share link fields; after every
\* exception a thread of the highest ready level runs; no thread waits for bits
\* that are set, each finds the result of its own last call, waiters and timers
\* hold the notification they refer to, and no tick passes over a timer that is
\* due (ready.rs, notification.rs, timer.rs).
SchedulerSound ==
    /\ part = "scheduler" => Sched!QueuesExact /\ Sched!HighestRuns /\ Sched!NoLostWake
                             /\ Sched!ResultsArrive /\ Sched!NotifHeld /\ Sched!NoneOverdue
    /\ part = "timers" => Timed!QueuesExact /\ Timed!HighestRuns /\ Timed!NoLostWake
                          /\ Timed!ResultsArrive /\ Timed!NotifHeld /\ Timed!NoneOverdue

\* Threads that stay in a queue keep their order, and new ones come behind them.
FifoOrder == [][part = "scheduler" => Sched!InOrder]_vars

\* Every page taken from the pool is one table, reached over one entry; no cached
\* translation outlives its mapping, unless two live address spaces have one ASID,
\* which happens once ASIDs have started over; and the kernel's check of a user
\* range agrees with what the thread may access (aspace.rs).
TablesSound == part = "tables" =>
    Tables!TablesOnce /\ Tables!TlbCurrent /\ Tables!RangeCheckExact

\* The tables implement address spaces (AddressSpaces): a map or unmap of several
\* pages happens whole or not at all, also when it runs out of tables half-way.
MappingImplemented ==
    /\ part = "tables" => Tables!Abstract!Init
    /\ [][part = "tables" /\ asp' # asp =>
              Tables!Abstract!Next \/ UNCHANGED <<Tables!Live, Tables!Translations>>]_vars

\* Objects and added page tables lie inside the untyped memory they were carved
\* from and do not overlap, but for page tables whose memory was reset under the
\* address space that uses them, which nothing refuses; and a request is refused
\* exactly when nothing aligned of its size is left, at the end of the address
\* range included (untyped.rs).
CarvingSound == part = "untyped" =>
    Carving!ObjectsApart /\ Carving!TablesApart /\ Carving!CarveExact

\* The kernel decodes the call that the wrapper encoded, and refuses what the
\* wrapper refuses; nothing has an effect without a capability of the right kind
\* and rights, nor when an error is returned (syscall.rs, sysabi.rs, encode.rs).
CallsChecked == part = "syscall" =>
    Boundary!ArgumentsArrive /\ Boundary!RefusedAlike /\ Boundary!AuthorityNeeded /\
    Boundary!FailsClean

\* Every grant a startup block names is in the named slot; the shell never waits
\* for a child whose end it cannot hear of, and prints how that child ended; when
\* the prompt is back nothing of the child is left, and there is room for the next
\* one, but for a copy of the file session that could not be installed and for a
\* child with more capabilities than one revoke call deletes (loader/src/spawn.rs,
\* shell/src/runtime.rs).
ProgramsSound == part = "spawning" =>
    Spawned!GrantsTrue /\ Spawned!NothingKept /\ Spawned!DeathSeen /\
    Spawned!ReportTrue /\ Spawned!CanRun

\* Blocks handed out lie inside the heap, are aligned and do not overlap; the free
\* list is sorted and merged, and no byte is lost but those counted (freelist).
HeapSound == part = "heap" =>
    Heap!BlocksApart /\ Heap!ListCanonical

=============================================================================
