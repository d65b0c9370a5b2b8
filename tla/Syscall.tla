------------------------------- MODULE Syscall -------------------------------
(***************************************************************************)
(* One system call from the caller's typed request to the code returned:   *)
(* the two user-side wrappers (eunomia-sys, which validates, and ipc::sys, *)
(* which does not), the registers, the kernel's decoder and the checks of  *)
(* every call in the order the kernel makes them.  What the calls do to    *)
(* the objects is in Capabilities, Scheduler, PageTable and Untyped; here  *)
(* their failures are chosen from the codes the call can return.           *)
(***************************************************************************)
EXTENDS Integers, Sequences, FiniteSets, TLC

CONSTANTS
    None,
    Caps,                 \* the caller's slots: capability per index
    MaxU32,               \* largest slot index that is not refused
    MsgPayload, NumPrios, DebugWriteMax,
    PrioMask,             \* what is cut to eight bits is cut to this many values
    UserBase, UserEnd, MaxAddr,
    SlotNone,             \* u32::MAX, no notification or capability
    Lists,                \* lists of capability indices in memory, by address
    Base(_),              \* arguments of a call that passes every check
    Tries(_)              \* values tried for an argument instead

VARIABLES
    call,    \* the request, with the wrapper it goes through
    regs,    \* the registers as the kernel finds them, None before
    sys,     \* what the kernel decodes
    x0,      \* the code returned
    done     \* what the call has changed

vars == <<call, regs, sys, x0, done>>

-----------------------------------------------------------------------------
(* The user side: the number and the order of the arguments of every call. *)

EncodeLow ==
    [DebugPutc   |-> <<0, "ch">>,
     DebugWrite  |-> <<1, "ptr", "len">>,
     Yield       |-> <<2>>,
     Retype      |-> <<3, "ut", "ty", "param", "dst", "dst2">>,
     CapCopy     |-> <<4, "src", "dst", "mask", "prio_ceiling">>,
     CapDelete   |-> <<5, "slot">>,
     CapRevoke   |-> <<6, "slot">>,
     CapInstall  |-> <<7, "cs", "src", "dst_index">>,
     ChanSend    |-> <<8, "chan", "buf", "len", "caps">>,
     ChanRecv    |-> <<9, "chan", "buf", "dests">>]

EncodeHigh ==
    [ChanBind      |-> <<10, "chan", "event", "notif", "bits">>,
     NotifSignal   |-> <<11, "slot", "bits">>,
     NotifWait     |-> <<12, "slot">>,
     ThreadStart   |-> <<13, "tcb", "cspace", "entry", "sp", "prio", "arg">>,
     TimerArm      |-> <<14, "timer", "notif", "bits", "delta">>,
     ThreadExit    |-> <<15, "status">>,
     Map           |-> <<16, "aspace", "frame", "va", "perms">>,
     FrameWrite    |-> <<17, "frame", "off", "buf", "len">>,
     ThreadStartAs |-> <<18, "tcb", "cspace", "aspace", "entry", "sp", "prio", "arg">>,
     FramePaddr    |-> <<19, "slot">>,
     ThreadBind    |-> <<21, "tcb", "which", "notif", "bits">>,
     ReadReport    |-> <<22, "tcb">>,
     UntypedReset  |-> <<23, "slot">>,
     AspaceTopUp   |-> <<24, "aspace", "ut", "pages">>,
     IrqBind       |-> <<25, "irq", "notif", "bits">>,
     IrqAck        |-> <<26, "irq">>]

EncodeTable == EncodeLow @@ EncodeHigh
Ops == DOMAIN EncodeTable
Fields(op) == Tail(EncodeTable[op])

\* Mutant: a message of the full payload is refused, other fields are not
\* checked.
EncodeRefusesFull(op, arg) ==
    \/ op = "Retype" /\ arg.ty >= 8
    \/ op = "ChanSend" /\ arg.len >= MsgPayload

\* The wrappers there are.  Those of both libraries take slots as u32; the
\* self-test in the kernel image issues the instruction itself.
EunomiaSysObjects ==
    {"DebugPutc", "DebugWrite", "Yield", "Retype", "CapCopy", "CapDelete", "CapRevoke",
     "CapInstall", "ChanSend", "ChanRecv", "ChanBind", "NotifSignal", "NotifWait"}
EunomiaSysThreads ==
    {"TimerArm", "IrqBind", "IrqAck", "ThreadExit", "Map", "AspaceTopUp", "FrameWrite",
     "ThreadStart", "ThreadStartAs", "FramePaddr", "UntypedReset", "ThreadBind", "ReadReport"}
IpcObjects == EunomiaSysObjects
IpcThreads == EunomiaSysThreads \ {"ThreadStart"}
SelfTestCalls ==
    {"DebugPutc", "DebugWrite", "Retype", "CapCopy", "CapRevoke", "CapInstall", "ChanSend",
     "ChanRecv", "ChanBind", "NotifSignal", "NotifWait", "ThreadStart", "TimerArm", "IrqBind",
     "IrqAck", "ThreadExit", "ThreadBind", "ReadReport"}

Wrapped == [via \in {"eunomia-sys", "ipc", "svc"} |->
               IF via = "eunomia-sys" THEN EunomiaSysObjects \cup EunomiaSysThreads
               ELSE IF via = "ipc" THEN IpcObjects \cup IpcThreads ELSE SelfTestCalls]

SlotFields == {"ut", "dst", "dst2", "src", "slot", "cs", "dst_index", "chan", "notif", "tcb",
               "cspace", "timer", "aspace", "frame", "irq"}
Typed(via, f, v) == via = "svc" \/ f \notin SlotFields \/ v <= MaxU32

\* Arguments the validating wrapper does not let through.
EncodeRefuses(op, arg) ==
    \/ op = "Retype" /\ arg.ty >= 8
    \/ op = "ChanSend" /\ arg.len > MsgPayload
    \/ op = "ChanBind" /\ arg.event > 2
    \/ op \in {"ThreadStart", "ThreadStartAs"} /\ arg.prio >= NumPrios
    \/ op = "ThreadBind" /\ arg.which > 1

\* Mutant: the seventh argument register is not written.
RegistersSix(op, arg) ==
    LET f == EncodeTable[op]
    IN  [nr |-> f[1], a |-> [i \in 1 .. 7 |-> IF i < Len(f) /\ i < 7 THEN arg[f[i + 1]] ELSE 0]]

Registers(op, arg) ==
    LET f == EncodeTable[op]
    IN  [nr |-> f[1], a |-> [i \in 1 .. 7 |-> IF i < Len(f) THEN arg[f[i + 1]] ELSE 0]]

-----------------------------------------------------------------------------
(* The kernel side. *)

DecodeFields ==
    << <<"DebugPutc", "ch">>, <<"DebugWrite", "ptr", "len">>, <<"Yield">>,
       <<"Retype", "ut", "ty", "param", "dst", "dst2">>,
       <<"CapCopy", "src", "dst", "mask", "prio_ceiling">>, <<"CapDelete", "slot">>,
       <<"CapRevoke", "slot">>, <<"CapInstall", "cs", "src", "dst_index">>,
       <<"ChanSend", "chan", "buf", "len", "caps">>, <<"ChanRecv", "chan", "buf", "dests">>,
       <<"ChanBind", "chan", "event", "notif", "bits">>, <<"NotifSignal", "slot", "bits">>,
       <<"NotifWait", "slot">>, <<"ThreadStart", "tcb", "cspace", "entry", "sp", "prio", "arg">>,
       <<"TimerArm", "timer", "notif", "bits", "delta">>, <<"ThreadExit", "status">>,
       <<"Map", "aspace", "frame", "va", "perms">>, <<"FrameWrite", "frame", "off", "buf", "len">>,
       <<"ThreadStartAs", "tcb", "cspace", "aspace", "entry", "sp", "prio", "arg">>,
       <<"FramePaddr", "slot">>, <<"UnknownCall">>,
       <<"ThreadBind", "tcb", "which", "notif", "bits">>, <<"ReadReport", "tcb">>,
       <<"UntypedReset", "slot">>, <<"AspaceTopUp", "aspace", "ut", "pages">>,
       <<"IrqBind", "irq", "notif", "bits">>, <<"IrqAck", "irq">> >>

DecodePrio(raw) == raw % PrioMask

\* CapCopy passes on eight bits of the mask and of the ceiling.
Narrowed == {"mask", "prio_ceiling"}

\* A priority is cut to eight bits before it is checked.
Decode(r) ==
    LET f   == DecodeFields[r.nr + 1]
        arg == [n \in {f[i] : i \in 2 .. Len(f)} |->
                   LET i == CHOOSE j \in 2 .. Len(f) : f[j] = n
                   IN  IF n \in {"prio"} \cup Narrowed THEN DecodePrio(r.a[i - 1]) ELSE r.a[i - 1]]
    IN  IF \/ f[1] = "UnknownCall"
           \/ f[1] = "Retype" /\ arg.ty >= 8
           \/ f[1] = "ChanSend" /\ arg.len > MsgPayload
           \/ f[1] = "ChanBind" /\ arg.event > 2
           \/ f[1] \in {"ThreadStart", "ThreadStartAs"} /\ arg.prio >= NumPrios
           \/ f[1] = "ThreadBind" /\ arg.which > 1
        THEN [op |-> "refused"]
        ELSE [op |-> f[1], arg |-> arg]

NullSlot == [kind |-> "null", rights |-> {}, state |-> "inactive", max_prio |-> 0, bytes |-> 0]

\* Mutant: the index is cut to 32 bits.
CurSlotCut(i) ==
    LET j == i % (MaxU32 + 1)
    IN  IF j \notin DOMAIN Caps THEN NullSlot ELSE Caps[j]

\* cur_slot: an index that does not fit 32 bits is refused, not cut.
CurSlot(i) == IF i > MaxU32 \/ i \notin DOMAIN Caps THEN NullSlot ELSE Caps[i]

If(bad, code) == IF bad THEN <<code>> ELSE <<>>
BadSlot(is) == If(\E i \in is : CurSlot(i).kind = "null", "BADSLOT")
NoCap(i) == If(CurSlot(i).kind \in {"null", "empty"}, "BADSLOT")
Type(i, kind) == If(CurSlot(i).kind # kind, "TYPE")
Perm(i, right) == If(right \notin CurSlot(i).rights, "PERM")
Signals(i) == Type(i, "notification") \o Perm(i, "write")

UserRangeOk(ptr, len) ==
    len <= UserEnd - UserBase /\ ptr >= UserBase /\ ptr + len <= MaxAddr /\ ptr + len <= UserEnd
Fault(ptr, len) == If(~UserRangeOk(ptr, len), "FAULT")

\* Four indices; those to be sent must hold capabilities.
ResolveCapList(at, require_full) ==
    IF at = 0 THEN <<>>
    ELSE IF ~UserRangeOk(at, 1) \/ at \notin DOMAIN Lists THEN <<"FAULT">>
    ELSE If(\E n \in DOMAIN Lists[at] :
               /\ Lists[at][n] # SlotNone
               /\ CurSlot(Lists[at][n]).kind \in ({"null"} \cup IF require_full THEN {"empty"} ELSE {}),
            "BADSLOT")

\* The checks of a call in the order the kernel makes them; the first one that
\* fails is the answer.
CapChecks(op, a) ==
    CASE op = "Retype" ->
            BadSlot({a.ut, a.dst}) \o (IF a.ty = 2 THEN BadSlot({a.dst2}) ELSE <<>>)
            \o Type(a.ut, "untyped") \o If(CurSlot(a.dst).kind # "empty", "NOSLOT")
            \o (IF a.ty = 2 THEN If(a.dst2 = a.dst \/ CurSlot(a.dst2).kind # "empty", "NOSLOT") ELSE <<>>)
      [] op = "CapCopy" -> BadSlot({a.src, a.dst})
      [] op \in {"CapDelete", "CapRevoke"} -> NoCap(a.slot)
      [] op = "CapInstall" -> BadSlot({a.cs}) \o NoCap(a.src) \o Type(a.cs, "cspace")
                              \o If(a.dst_index > MaxU32, "ARG")

\* A message is received into a buffer that must be writable.
MessageChecks(op, a) ==
    CASE op = "ChanSend" -> BadSlot({a.chan}) \o Type(a.chan, "channel") \o Perm(a.chan, "write")
                            \o Fault(a.buf, a.len) \o ResolveCapList(a.caps, TRUE)
      [] op = "ChanRecv" -> BadSlot({a.chan}) \o Type(a.chan, "channel") \o Perm(a.chan, "read")
                            \o Fault(a.buf, MsgPayload) \o ResolveCapList(a.dests, FALSE)
      [] op = "ChanBind" -> BadSlot({a.chan, a.notif}) \o Type(a.chan, "channel") \o Signals(a.notif)
      [] op = "NotifSignal" -> BadSlot({a.slot}) \o Signals(a.slot)
      [] op = "NotifWait" -> BadSlot({a.slot}) \o Type(a.slot, "notification") \o Perm(a.slot, "read")

DeviceChecks(op, a) ==
    CASE op = "TimerArm" -> BadSlot({a.timer, a.notif}) \o Type(a.timer, "timer") \o Signals(a.notif)
      [] op = "IrqBind" -> BadSlot({a.irq, a.notif}) \o Type(a.irq, "irq") \o Signals(a.notif)
      [] op = "IrqAck" -> BadSlot({a.irq}) \o Type(a.irq, "irq")

\* A capability maps its frame once, for what the rights to the frame allow.
FrameChecks(op, a) ==
    CASE op = "Map" -> BadSlot({a.aspace, a.frame}) \o Type(a.aspace, "aspace")
                       \o Perm(a.aspace, "write") \o Type(a.frame, "frame")
                       \o If(CurSlot(a.frame).state = "mapped", "STATE")
                       \o (IF a.perms % 2 = 1 THEN Perm(a.frame, "write") ELSE <<>>)
                       \o (IF a.perms \div 4 = 1 THEN Perm(a.frame, "phys") ELSE <<>>)
      [] op = "FrameWrite" -> BadSlot({a.frame}) \o Type(a.frame, "frame") \o Perm(a.frame, "write")
                              \o If(a.off + a.len > MaxAddr \/ a.off + a.len > CurSlot(a.frame).bytes, "ARG")
                              \o Fault(a.buf, a.len)
      [] op = "FramePaddr" -> BadSlot({a.slot}) \o Type(a.slot, "frame") \o Perm(a.slot, "phys")

\* The addresses are checked in the caller's memory.
StartChecks(a) ==
    BadSlot({a.tcb, a.cspace}) \o Type(a.tcb, "thread") \o Type(a.cspace, "cspace")
    \o If(CurSlot(a.tcb).state # "inactive", "STATE")
    \o Fault(a.entry, 4) \o Fault(a.sp, 0)
    \o If(a.prio > CurSlot(a.tcb).max_prio, "PERM")

\* The address is checked in the new thread's memory, and after the priority.
StartAsChecks(a) ==
    BadSlot({a.tcb, a.cspace, a.aspace}) \o Type(a.tcb, "thread") \o Type(a.cspace, "cspace")
    \o Type(a.aspace, "aspace") \o If(CurSlot(a.tcb).state # "inactive", "STATE")
    \o If(a.prio > CurSlot(a.tcb).max_prio, "PERM") \o Fault(a.entry, 4)

ReportChecks(op, a) ==
    CASE op = "ThreadBind" ->
            BadSlot({a.tcb}) \o Type(a.tcb, "thread") \o Perm(a.tcb, "bind_reports")
            \o (IF a.notif = SlotNone THEN <<>> ELSE BadSlot({a.notif}) \o Signals(a.notif))
      [] op = "ReadReport" -> BadSlot({a.tcb}) \o Type(a.tcb, "thread") \o Perm(a.tcb, "read_report")

RegionChecks(op, a) ==
    CASE op = "UntypedReset" -> NoCap(a.slot) \o Type(a.slot, "untyped")
      [] op = "AspaceTopUp" -> BadSlot({a.aspace, a.ut}) \o Type(a.aspace, "aspace")
                               \o Perm(a.aspace, "write") \o Type(a.ut, "untyped")

Checks(op, a) ==
    CASE op \in {"DebugPutc", "Yield", "ThreadExit"} -> <<>>
      [] op = "DebugWrite" -> Fault(a.ptr, a.len) \o If(a.len > DebugWriteMax, "FAULT")
      [] op \in {"Retype", "CapCopy", "CapDelete", "CapRevoke", "CapInstall"} -> CapChecks(op, a)
      [] op \in {"TimerArm", "IrqBind", "IrqAck"} -> DeviceChecks(op, a)
      [] op \in {"Map", "FrameWrite", "FramePaddr"} -> FrameChecks(op, a)
      [] op = "ThreadStart" -> StartChecks(a)
      [] op = "ThreadStartAs" -> StartAsChecks(a)
      [] op \in {"ThreadBind", "ReadReport"} -> ReportChecks(op, a)
      [] op \in {"UntypedReset", "AspaceTopUp"} -> RegionChecks(op, a)
      [] OTHER -> MessageChecks(op, a)

\* What a call that passes its checks can still return, by the state of the objects.
Failures(op) ==
    CASE op = "Retype" -> {"NOMEM", "ARG"}
      [] op = "CapCopy" -> {"AGAIN", "NOSLOT"}
      [] op = "CapRevoke" -> {"AGAIN"}
      [] op = "CapInstall" -> {"BADSLOT", "NOSLOT"}
      [] op = "ChanSend" -> {"FULL", "CLOSED"}
      [] op = "ChanRecv" -> {"EMPTY", "NOSLOT"}
      [] op = "Map" -> {"NOMEM", "STATE", "ARG"}
      [] op = "UntypedReset" -> {"STATE"}
      [] op = "AspaceTopUp" -> {"NOMEM", "ARG"}
      [] OTHER -> {}

\* Mutant: ThreadStart holds the cspace before its last checks.
EffectsHoldFirst(op, a, code) ==
    IF code = "OK" THEN {op}
    ELSE IF op \in {"ThreadStart", "ThreadStartAs"} /\ code \in {"FAULT", "PERM"} THEN {"cspace"}
    ELSE {}

\* What is written by the time the kernel returns the code: a revoke that is to
\* be called again has removed capabilities, a mapping that needs memory keeps
\* the tables it made, and ThreadStartAs sets the priority before its last check.
Effects(op, a, code) ==
    IF code = "OK" THEN {op}
    ELSE IF op = "CapRevoke" /\ code = "AGAIN" THEN {op}
    ELSE IF op = "Map" /\ code = "NOMEM" THEN {"tables"}
    ELSE IF op = "ThreadStartAs" /\ code = "FAULT" THEN {"priority"}
    ELSE {}

-----------------------------------------------------------------------------

NoCall == [op |-> "none"]

FieldSet(op) == {Fields(op)[i] : i \in DOMAIN Fields(op)}

\* Any call; at most two arguments differ from one that passes all checks.
Request(op, via, f, v, g, w) ==
    /\ op \in Wrapped[via] /\ Typed(via, f, v) /\ Typed(via, g, w)
    /\ call = [op |-> op, via |-> via,
               arg |-> [n \in FieldSet(op) |->
                           IF n = g THEN w ELSE IF n = f THEN v ELSE Base(op)[n]]]

TriesOf(f) == IF f = "none" THEN {0} ELSE Tries(f)

Init ==
    /\ \E op \in Ops, via \in DOMAIN Wrapped :
          \E f, g \in FieldSet(op) \cup {"none"} :
             \E v \in TriesOf(f), w \in TriesOf(g) : Request(op, via, f, v, g, w)
    /\ regs = None /\ sys = NoCall /\ x0 = None /\ done = {}

\* dispatch of eunomia-sys answers by itself when encode refuses.
Encode ==
    /\ regs = None /\ x0 = None
    /\ IF call.via = "eunomia-sys" /\ EncodeRefuses(call.op, call.arg)
       THEN x0' = "ARG" /\ UNCHANGED regs
       ELSE regs' = Registers(call.op, call.arg) /\ UNCHANGED x0
    /\ UNCHANGED <<call, sys, done>>

Trap ==
    /\ regs # None /\ x0 = None
    /\ sys' = Decode(regs)
    /\ IF sys'.op = "refused"
       THEN x0' = "ARG" /\ UNCHANGED done
       ELSE LET failed == Checks(sys'.op, sys'.arg)
            IN  /\ x0' \in IF failed # <<>> THEN {failed[1]} ELSE {"OK"} \cup Failures(sys'.op)
                /\ done' = Effects(sys'.op, sys'.arg, x0')
    /\ UNCHANGED <<call, regs>>

Next == Encode \/ Trap

Spec == Init /\ [][Next]_vars

-----------------------------------------------------------------------------
(* Properties. *)

Cut(c) ==
    [n \in DOMAIN c.arg |-> IF n \in {"prio", "mask", "prio_ceiling"} THEN c.arg[n] % PrioMask ELSE c.arg[n]]

\* The kernel executes the call that was made, with the arguments in their
\* places: encode and the raw wrapper of ipc agree with decode on the number and
\* the order of the arguments of all calls.  What the kernel takes as eight bits
\* arrives as its lowest eight: a priority, a rights mask and a priority ceiling.
ArgumentsArrive ==
    sys.op \notin {"none", "refused"} =>
        /\ sys.op = call.op
        /\ sys.arg = Cut(call)

\* The validating wrapper lets through exactly what the kernel's decoder takes.
RefusedAlike ==
    call.via = "eunomia-sys" => (sys.op # "refused" /\ (x0 = "ARG" /\ regs = None =>
        \/ Decode(Registers(call.op, call.arg)).op = "refused"
        \/ call.op \in {"ThreadStart", "ThreadStartAs"}))

\* A slot index beyond 32 bits reaches no slot, and an argument beyond user
\* memory is never used: a call that has an effect named slots that exist, of
\* the kind and with the right that it needs, and maps no capability twice.
Holds(i, kind, right) ==
    i \in DOMAIN Caps /\ Caps[i].kind = kind /\ (right = None \/ right \in Caps[i].rights)
AuthorityNeeded ==
    LET a == sys.arg IN
    done # {} =>
        CASE sys.op = "ChanSend" -> Holds(a.chan, "channel", "write") /\ a.buf + a.len <= UserEnd
          [] sys.op = "ChanRecv" -> Holds(a.chan, "channel", "read") /\ a.buf + MsgPayload <= UserEnd
          [] sys.op = "Map" -> Holds(a.aspace, "aspace", "write") /\ Holds(a.frame, "frame", None)
                             /\ Caps[a.frame].state # "mapped"
          [] sys.op = "FrameWrite" -> Holds(a.frame, "frame", "write")
          [] sys.op = "FramePaddr" -> Holds(a.slot, "frame", "phys")
          [] sys.op = "NotifWait" -> Holds(a.slot, "notification", "read")
          [] sys.op \in {"ChanBind", "TimerArm", "IrqBind"} -> Holds(a.notif, "notification", "write")
          [] sys.op = "ReadReport" -> Holds(a.tcb, "thread", "read_report")
          [] sys.op = "ThreadBind" -> Holds(a.tcb, "thread", "bind_reports")
          [] sys.op \in {"ThreadStart", "ThreadStartAs"} ->
                Holds(a.tcb, "thread", None) /\ Holds(a.cspace, "cspace", None)
                /\ a.prio <= Caps[a.tcb].max_prio
          [] sys.op = "Retype" -> Holds(a.ut, "untyped", None) /\ Holds(a.dst, "empty", None)
          [] OTHER -> TRUE

\* A call that returns an error has taken no reference, moved no capability and
\* sent nothing.  What may remain of it: tables of a mapping that ran out of
\* memory, the priority of a thread that was not started, and, for the code that
\* asks to call again, the capabilities a revoke has removed.
FailsClean ==
    x0 \notin {None, "OK"} => done \subseteq {"tables", "priority"} \cup
                                 (IF x0 = "AGAIN" THEN {"CapRevoke"} ELSE {})
=============================================================================
