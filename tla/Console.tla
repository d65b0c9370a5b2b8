------------------------------- MODULE Console -------------------------------
(***************************************************************************)
(* The way of a key from the serial line to a program, and of a program's  *)
(* output back: the console driver (user/console), the interrupt line it   *)
(* masks and acknowledges, its one reactor, the standard input of programs *)
(* (eunomia-sys/src/console.rs), and the shell, which runs one child at a  *)
(* time and lends it the console channel.  The driver has the highest      *)
(* priority of the three: a program runs only while the driver sleeps.     *)
(***************************************************************************)
EXTENDS Naturals, Sequences, SequencesExt

CONSTANTS
    FifoSize,    \* of the serial device's receive FIFO
    RxBuf,       \* bytes the driver reads at once
    Depth,       \* messages a ring of the channel holds
    ReadLen,     \* bytes each program asks standard input for
    EveryByte,   \* whether each byte raises the device's line, or only the first
    MaxKeys      \* keys typed

VARIABLES
    dev,   \* the device: its FIFO, raw interrupt status and interrupt enable
    line,  \* the interrupt line: bound to the notification, masked
    word,  \* the notification word of the driver
    con,   \* the driver: where it is, bytes read, bits taken and not yet served
    ring,  \* messages on their way to the programs
    out,   \* messages on their way to the device
    prog,  \* of each program: where it is, std's buffer, and the carry
    who,   \* the program that runs; the shell waits while its child does
    got,   \* the keys each has handled
    lost,  \* keys that a child had fetched when it ended
    typed  \* keys typed so far; the n-th key is n

vars == <<dev, line, word, con, ring, out, prog, who, got, lost, typed>>

Fresh == [pc |-> "read", buf |-> <<>>, carry |-> <<>>]

\* notif_wait blocks while the word is zero.
Asleep == con.pc = "wait" /\ con.pending = {} /\ word = {}

-----------------------------------------------------------------------------
(* The device and its interrupt *)

Type ==
    /\ typed < MaxKeys /\ Len(dev.fifo) < FifoSize
    /\ typed' = typed + 1
    /\ dev' = [dev EXCEPT !.fifo = Append(@, typed + 1),
                          !.raw = @ \/ EveryByte \/ dev.fifo = <<>>]
    /\ UNCHANGED <<line, word, con, ring, out, prog, who, got, lost>>

\* The line of a device is level-triggered, and masked until the driver says so.
Deliver ==
    /\ dev.raw /\ dev.imsc /\ line.bound /\ ~line.masked
    /\ line' = [line EXCEPT !.masked = TRUE]
    /\ word' = word \cup {"irq"}
    /\ UNCHANGED <<dev, con, ring, out, prog, who, got, lost, typed>>

-----------------------------------------------------------------------------
(* The driver *)

Go(pc) == con' = [con EXCEPT !.pc = pc]

IrqBind ==
    /\ con.pc = "bind" /\ Go("clear")
    /\ line' = [line EXCEPT !.bound = TRUE]
    /\ UNCHANGED <<dev, word>>

ClearInterrupts ==
    /\ con.pc = "clear" /\ Go("enable")
    /\ dev' = [dev EXCEPT !.raw = FALSE]
    /\ UNCHANGED <<line, word>>

EnableInterrupts ==
    /\ con.pc = "enable" /\ Go("register")
    /\ dev' = [dev EXCEPT !.imsc = TRUE]
    /\ UNCHANGED <<line, word>>

\* Mutant: the driver waits for the first interrupt.
RegisterAndWait ==
    /\ con.pc = "register" /\ Go("wait")
    /\ word' = word \cup {"chan"}
    /\ UNCHANGED <<dev, line>>

\* Registering the channel signals its bit once; then the FIFO is drained once.
Register ==
    /\ con.pc = "register" /\ Go("drain")
    /\ word' = word \cup {"chan"}
    /\ UNCHANGED <<dev, line>>

DrainRx ==
    /\ con.pc = "drain"
    /\ IF Len(con.rx) < RxBuf /\ dev.fifo # <<>>
       THEN /\ con' = [con EXCEPT !.rx = Append(@, Head(dev.fifo))]
            /\ dev' = [dev EXCEPT !.fifo = Tail(@), !.raw = @ /\ Len(dev.fifo) > 1]
       ELSE Go(IF con.rx = <<>> THEN "ack" ELSE "send") /\ UNCHANGED dev
    /\ UNCHANGED <<line, word>>

\* Mutant: a full ring drops the bytes.
SendOrDrop ==
    /\ con.pc = "send"
    /\ ring' = IF Len(ring) < Depth THEN Append(ring, con.rx) ELSE ring
    /\ con' = [con EXCEPT !.rx = <<>>, !.pc = "ack"]

\* On a full ring the driver yields to its equals, of which it has none, and tries
\* again.
SendBytes ==
    /\ con.pc = "send" /\ Len(ring) < Depth
    /\ ring' = Append(ring, con.rx)
    /\ con' = [con EXCEPT !.rx = <<>>, !.pc = "ack"]

\* Mutant: the interrupt is not acknowledged.
IrqAckNot == con.pc = "ack" /\ Go("wait") /\ UNCHANGED <<dev, line, word>>

IrqAck ==
    /\ con.pc = "ack" /\ Go("wait")
    /\ line' = [line EXCEPT !.masked = FALSE]
    /\ UNCHANGED <<dev, word>>

\* Mutant: the bits that are not served now are forgotten.
ReactorWaitForgets ==
    /\ con.pc = "wait" /\ word # {}
    /\ con' = [con EXCEPT !.pc = IF "irq" \in word THEN "drain" ELSE "recv"]
    /\ word' = {}
    /\ UNCHANGED <<dev, line>>

\* The lowest bit is served first, and it is that of the interrupt.
ReactorWait ==
    LET bits == IF con.pending = {} THEN word ELSE con.pending
        bit  == IF "irq" \in bits THEN "irq" ELSE "chan"
    IN  /\ con.pc = "wait" /\ bits # {}
        /\ con' = [con EXCEPT !.pc = IF bit = "irq" THEN "drain" ELSE "recv",
                              !.pending = bits \ {bit}]
        /\ word' = IF con.pending = {} THEN {} ELSE word
        /\ UNCHANGED <<dev, line>>

\* What was sent is written to the device, until the ring is empty.
WriteTx ==
    /\ con.pc = "recv"
    /\ IF out > 0 THEN out' = out - 1 /\ UNCHANGED con ELSE Go("wait") /\ UNCHANGED out

Driver ==
    /\ \/ IrqBind /\ UNCHANGED <<ring, out>>
       \/ ClearInterrupts /\ UNCHANGED <<ring, out>>
       \/ EnableInterrupts /\ UNCHANGED <<ring, out>>
       \/ Register /\ UNCHANGED <<ring, out>>
       \/ DrainRx /\ UNCHANGED <<ring, out>>
       \/ SendBytes /\ UNCHANGED <<dev, line, word, out>>
       \/ IrqAck /\ UNCHANGED <<ring, out>>
       \/ ReactorWait /\ UNCHANGED <<ring, out>>
       \/ WriteTx /\ UNCHANGED <<dev, line, word, ring>>
    /\ UNCHANGED <<prog, who, got, lost, typed>>

-----------------------------------------------------------------------------
(* Standard input and output of a program, and the shell's loop *)

Cut(s, n) == LET k == Min({n, Len(s)})
             IN  [now |-> SubSeq(s, 1, k), rest |-> SubSeq(s, k + 1, Len(s))]

\* As much as the caller asked for; the carry keeps the rest.
Fill(p, msg) ==
    [prog EXCEPT ![p].buf = Cut(msg, ReadLen[p]).now, ![p].carry = Cut(msg, ReadLen[p]).rest]

\* The carry is delivered before another message is received; on an empty ring the
\* program yields and tries again.
StdinRead(p) ==
    /\ prog[p].pc = "read" /\ prog[p].buf = <<>>
    /\ IF prog[p].carry # <<>>
       THEN prog' = Fill(p, prog[p].carry) /\ UNCHANGED ring
       ELSE ring # <<>> /\ prog' = Fill(p, Head(ring)) /\ ring' = Tail(ring)
    /\ UNCHANGED <<word, out, who, got, lost>>

\* A key is handled: it has no effect, is answered with output, or ends a command
\* line, which is answered too and then run.
Handle(p) ==
    /\ prog[p].pc = "read" /\ prog[p].buf # <<>>
    /\ got' = [got EXCEPT ![p] = Append(@, Head(prog[p].buf))]
    /\ \E pc \in {"read", "write"} \cup (IF p = "shell" THEN {"run"} ELSE {}) :
          prog' = [prog EXCEPT ![p].buf = Tail(@), ![p].pc = pc]
    /\ UNCHANGED <<word, ring, out, who, lost>>

\* A child may write unasked.
WriteUnasked(p) ==
    /\ p = "child" /\ prog[p].pc = "read"
    /\ prog' = [prog EXCEPT ![p].pc = "write"]
    /\ UNCHANGED <<word, ring, out, who, got, lost>>

\* A message to the driver, and the signal that it is readable.
WriteChan(p) ==
    /\ prog[p].pc \in {"write", "run"} /\ out < Depth
    /\ out' = out + 1
    /\ word' = word \cup {"chan"}
    /\ prog' = [prog EXCEPT ![p].pc = IF @ = "run" THEN "start" ELSE "read"]
    /\ UNCHANGED <<ring, who, got, lost>>

\* The child starts with its own standard input, and the shell waits for its end.
StartChild(p) ==
    /\ prog[p].pc = "start"
    /\ prog' = [prog EXCEPT ![p].pc = "read", !["child"] = Fresh]
    /\ who' = "child"
    /\ UNCHANGED <<word, ring, out, got, lost>>

EndChild(p) ==
    /\ p = "child" /\ prog[p].pc = "read"
    /\ who' = "shell"
    /\ lost' = lost \o prog[p].buf \o prog[p].carry
    /\ prog' = [prog EXCEPT ![p] = Fresh]
    /\ UNCHANGED <<word, ring, out, got>>

Program(p) ==
    /\ who = p /\ Asleep
    /\ \/ StdinRead(p) \/ Handle(p) \/ WriteChan(p) \/ StartChild(p)
       \/ WriteUnasked(p) \/ EndChild(p)
    /\ UNCHANGED <<dev, line, con, typed>>

-----------------------------------------------------------------------------

Init ==
    /\ dev = [fifo |-> <<>>, raw |-> FALSE, imsc |-> FALSE]
    /\ line = [bound |-> FALSE, masked |-> FALSE]
    /\ word = {}
    /\ con = [pc |-> "bind", rx |-> <<>>, pending |-> {}]
    /\ ring = <<>> /\ out = 0
    /\ prog = [p \in {"shell", "child"} |-> Fresh] /\ who = "shell"
    /\ got = [p \in {"shell", "child"} |-> <<>>] /\ lost = <<>>
    /\ typed = 0

Next == Type \/ Deliver \/ Driver \/ Program("shell") \/ Program("child")

\* Interrupts are taken, and the processor runs the driver and else the shell.
Fairness == WF_vars(Deliver) /\ WF_vars(Driver) /\ WF_vars(Program("shell"))

Spec == Init /\ [][Next]_vars /\ Fairness

-----------------------------------------------------------------------------
(* Properties. *)

\* The keys on their way, the first typed first.
Coming == FlattenSeq(ring) \o con.rx \o dev.fifo
Ascending(s) == \A i \in 1 .. Len(s) - 1 : s[i] < s[i + 1]

\* Every key typed is in one place, and each program gets its keys in the order in
\* which they were typed: neither a slow program, nor one that reads less than a
\* message, nor keys that come while the FIFO is drained lose or swap any.
KeysOnce ==
    LET Of(p) == got[p] \o prog[p].buf \o prog[p].carry
        all   == lost \o Of("shell") \o Of("child") \o Coming
    IN  /\ Len(all) = typed /\ ToSet(all) = 1 .. typed
        /\ \A p \in {"shell", "child"} : Ascending(Of(p) \o Coming)

\* The driver does not sleep over a key: while bytes are in the FIFO its line is
\* raised and not masked, whenever they came, before the line was enabled included.
LineArmed ==
    Asleep /\ dev.fifo # <<>> => dev.raw /\ dev.imsc /\ line.bound /\ ~line.masked

\* Whenever a program runs, the output written before is on the device, so that no
\* program ever finds the ring to the driver full.
OutputShown == Asleep => out = 0

\* The driver holds bytes for a ring that is full; the shell, which could drain it,
\* has the lower priority.
Stuck == con.pc = "send" /\ Len(ring) = Depth

\* Every key comes to the shell, unless a child runs on or the driver is stuck.  Not
\* claimed for a device that raises its line only for the first byte (EveryByte).
KeysArrive ==
    []<>((Coming = <<>> /\ prog["shell"].buf = <<>>) \/ who = "child" \/ Stuck)
=============================================================================
