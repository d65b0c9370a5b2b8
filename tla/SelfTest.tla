------------------------------ MODULE SelfTest ------------------------------
(***************************************************************************)
(* The two threads the kernel runs when it is built with its own test      *)
(* (kernel/src/user.rs), and of the kernel what they see: notification     *)
(* words, the two queues of their channel, the capabilities derived from   *)
(* N1, the timer, the device line and the register TPIDR_EL0, of which     *)
(* there is one and which the kernel saves at every switch.  Thread 1 runs *)
(* at 16.  The test starts thread 2 at 4; Prio2s lets it run beside        *)
(* thread 1 as well.                                                       *)
(***************************************************************************)
EXTENDS Integers, Sequences, FiniteSets

CONSTANT Prio2s

VARIABLE m

Prio1 == 16
Tests == {1, 2}
Notifs == {"N1", "N2", "PC", "IRQ"}
ThreadRights == {"read", "write", "bind_reports", "read_report"}

\* The scripts, an element for every system call that another thread or a
\* device can come between: what it does and what it is given.
UserMain ==
    << <<"tls">>, <<"start">>, <<"send", TRUE>>, <<"wait", "N1", {"CAP_PROOF"}>>, <<"tlscheck">>,
       <<"send", TRUE>>, <<"revoke">>, <<"bind">>, <<"signal", "N2", "GO">> >>
UserMainReads ==
    << <<"wait", "N1", {"A_READABLE"}>>, <<"verdict">>, <<"signal", "N1", "SELF_TEST">>,
       <<"wait", "N1", {"SELF_TEST"}>>, <<"arm">>, <<"wait", "N1", {"TIMER"}>>, <<"reap">>, <<"report">>,
       <<"copyweak">>, <<"gated">> >>
UserMainDevices ==
    << <<"build">>, <<"teardown">>, <<"wait", "PC", {"PC_A", "PC_B"}>>, <<"bothclosed">>,
       <<"irqbind">>, <<"wait", "IRQ", {"IRQ"}>>, <<"irqack">>, <<"wait", "IRQ", {"IRQ"}>>, <<"pass">> >>
UserThread2 ==
    << <<"tls">>, <<"wait", "N2", {"B_READABLE"}>>, <<"recv">>, <<"signalgot">>,
       <<"wait", "N2", {"GO"}>>, <<"tlscheck">>, <<"recvdead">>, <<"sendverdict">>, <<"exit">> >>

Script(t) == IF t = 1 THEN UserMain \o UserMainReads \o UserMainDevices ELSE UserThread2

Advance(s, t) == [s EXCEPT !.pc[t] = @ + 1]
Check(s, t, ok) == IF ok THEN Advance(s, t) ELSE [s EXCEPT !.out = "FAIL"]

-----------------------------------------------------------------------------
(* What the kernel does. *)

\* The bits go to the thread that waits, with all that was in the word.
Signal(s, n, bits) ==
    LET w == {t \in Tests : s.on[t] = n} IN
    IF w = {} THEN [s EXCEPT !.word[n] = @ \cup bits]
    ELSE LET t == CHOOSE t \in w : TRUE IN
         [s EXCEPT !.word[n] = {}, !.on[t] = "none", !.acc[t] = @ \cup s.word[n] \cup bits]

Ready(s, t) == s.live[t] /\ s.on[t] = "none"

\* The thread that runs next: one of the highest that are ready, the present
\* one if it is among them and its slice is not over.
Best(s) == {t \in Tests : Ready(s, t) /\ \A u \in Tests : Ready(s, u) => s.prio[u] <= s.prio[t]}
Pick(s, over) ==
    IF Best(s) = {} THEN 0
    ELSE IF s.cur \in Best(s) /\ ~(over /\ Cardinality(Best(s)) = 2) THEN s.cur
    ELSE CHOOSE t \in Best(s) : t # s.cur

Switch(s, over) ==
    [s EXCEPT !.cur = Pick(s, over),
              !.saved = [@ EXCEPT ![s.cur] = s.tp],
              !.tp = IF Pick(s, over) = s.cur THEN s.tp ELSE s.saved[Pick(s, over)]]

\* Mutant: the capability in a queued message survives.
RevokeInSpaces(s) == [s EXCEPT !.got = FALSE, !.exit = FALSE]

\* Everything derived from N1 goes: the capability thread 2 holds, those in
\* queued messages and the one in thread 2's exit binding; one quantum is enough.
Revoke(s) ==
    [s EXCEPT !.got = FALSE, !.exit = FALSE, !.toB = [i \in DOMAIN @ |-> FALSE]]

\* Mutant: a copy has all rights.
DeriveAll(rights, mask) == rights

Derive(rights, mask) == rights \cap mask

\* Mutant: an end is told only while it is still open.
DroppedToOpen(s, e) ==
    LET d == [s EXCEPT !.chan.caps[e] = @ - 1]
    IN  IF d.chan.caps[e] = 0 /\ d.chan.caps[3 - e] > 0 THEN Signal(d, "PC", d.chan.bound[3 - e]) ELSE d

\* endpoint_cap_dropped: the other end's binding fires when the last capability
\* to this one goes.
Dropped(s, e) ==
    LET d == [s EXCEPT !.chan.caps[e] = @ - 1]
    IN  IF d.chan.caps[e] = 0 THEN Signal(d, "PC", d.chan.bound[3 - e]) ELSE d

\* The line is bound, and the build pends it at once.
IrqBind(s) == [s EXCEPT !.line.bound = TRUE, !.line.pending = TRUE]
\* Mutant: the acknowledged line stays masked.
IrqAckOnly(s) == [s EXCEPT !.line.pending = TRUE]

IrqAck(s) == [s EXCEPT !.line.masked = FALSE, !.line.pending = TRUE]

Deliver ==
    /\ m.line.pending /\ ~m.line.masked
    /\ m' = IF m.line.bound
            THEN Switch(Signal([m EXCEPT !.line.pending = FALSE, !.line.masked = TRUE], "IRQ", {"IRQ"}), FALSE)
            ELSE [m EXCEPT !.line.pending = FALSE]

\* The tick ends a slice.
Tick ==
    /\ m.cur # Pick(m, TRUE)
    /\ m' = Switch(m, TRUE)

Expire ==
    /\ m.timer
    /\ m' = Switch(Signal([m EXCEPT !.timer = FALSE], "N1", {"TIMER"}), FALSE)

-----------------------------------------------------------------------------
(* What the two threads do. *)

Verdict(s) == IF s.deadok THEN "OK" ELSE "FF"

\* wait_for: until one of the bits is among those that came.
WaitFor(s, t, n, bits) ==
    IF s.acc[t] \cap bits # {}
    THEN [Advance(s, t) EXCEPT !.acc[t] = {}, !.last[t] = s.acc[t],
                               !.seen = IF t = 1 /\ s.gone THEN @ \cup s.acc[t] ELSE @]
    ELSE IF s.word[n] # {} THEN [s EXCEPT !.acc[t] = @ \cup s.word[n], !.word[n] = {}]
    ELSE [s EXCEPT !.on[t] = n]

Setup(s, t, i) ==
    CASE i[1] = "tls" -> [Advance(s, t) EXCEPT !.tp = t]
      [] i[1] = "start" -> [Advance(s, t) EXCEPT !.exit = TRUE, !.live[2] = TRUE]
      [] i[1] = "send" -> Signal([Advance(s, t) EXCEPT !.toB = Append(@, i[2])], "N2", {"B_READABLE"})
      [] i[1] = "tlscheck" -> Check(s, t, s.tp = t)
      [] i[1] = "revoke" -> Revoke(Advance(s, t))
      [] i[1] = "bind" -> [Advance(s, t) EXCEPT !.exit = TRUE]
      [] i[1] = "signal" -> Signal([Advance(s, t) EXCEPT !.gone = TRUE], i[2], {i[3]})

Reads(s, t, i) ==
    CASE i[1] = "verdict" -> Check([s EXCEPT !.toA = <<>>], t, s.toA # <<>> /\ s.toA[1] = "OK")
      [] i[1] = "arm" -> [Advance(s, t) EXCEPT !.timer = TRUE]
      [] i[1] = "reap" ->
            IF "CHILD_EXIT" \in s.seen THEN Advance(s, t) ELSE WaitFor(s, t, "N1", {"CHILD_EXIT"})
      [] i[1] = "report" -> Check(s, t, s.report = "exited(42)")
      [] i[1] = "copyweak" -> [Advance(s, t) EXCEPT !.weak = Derive(ThreadRights, {"read", "write"})]
      [] i[1] = "gated" -> Check(s, t, {"bind_reports", "read_report"} \cap s.weak = {})

\* Revoking the region the second channel is carved from deletes the capabilities
\* to its two ends, one after the other; to send to an end needs one.
Devices(s, t, i) ==
    CASE i[1] = "build" -> [Advance(s, t) EXCEPT !.chan = [caps |-> <<1, 1>>, bound |-> <<{"PC_A"}, {"PC_B"}>>]]
      [] i[1] = "teardown" -> Dropped(Dropped(Advance(s, t), 1), 2)
      [] i[1] = "bothclosed" -> Check(s, t, {"PC_A", "PC_B"} \subseteq s.last[t] /\ s.chan.caps[1] = 0)
      [] i[1] = "irqbind" -> IrqBind(Advance(s, t))
      [] i[1] = "irqack" -> IrqAck(Advance(s, t))
      [] i[1] = "pass" -> [s EXCEPT !.out = "PASS"]

Thread2(s, t, i) ==
    CASE i[1] = "recv" -> Check([s EXCEPT !.got = s.toB[1], !.toB = Tail(@)], t, s.toB[1])
      [] i[1] = "signalgot" ->
            IF s.got THEN Signal(Advance(s, t), "N1", {"CAP_PROOF"}) ELSE Check(s, t, FALSE)
      [] i[1] = "recvdead" ->
            IF s.toB = <<>> THEN [Advance(s, t) EXCEPT !.deadok = FALSE]
            ELSE [Advance(s, t) EXCEPT !.deadok = ~s.got /\ ~s.toB[1], !.toB = Tail(@)]
      [] i[1] = "sendverdict" ->
            Signal([Advance(s, t) EXCEPT !.toA = Append(@, Verdict(s))], "N1", {"A_READABLE"})
      [] i[1] = "exit" ->
            LET e == [s EXCEPT !.live[2] = FALSE, !.report = "exited(42)"] IN
            IF s.exit THEN Signal(e, "N1", {"CHILD_EXIT"}) ELSE e

Exec(s, t, i) ==
    CASE i[1] = "wait" -> WaitFor(s, t, i[2], i[3])
      [] i[1] \in {"tls", "start", "send", "tlscheck", "revoke", "bind", "signal"} -> Setup(s, t, i)
      [] i[1] \in {"verdict", "arm", "reap", "report", "copyweak", "gated"} -> Reads(s, t, i)
      [] i[1] \in {"build", "teardown", "bothclosed", "irqbind", "irqack", "pass"} -> Devices(s, t, i)
      [] OTHER -> Thread2(s, t, i)

Step ==
    /\ m.cur # 0 /\ m.out = "running"
    /\ m' = Switch(Exec(m, m.cur, Script(m.cur)[m.pc[m.cur]]), FALSE)

Init ==
    \E p \in Prio2s :
        m = [pc |-> <<1, 1>>, prio |-> <<Prio1, p>>, live |-> <<TRUE, FALSE>>, cur |-> 1,
             on |-> <<"none", "none">>, acc |-> <<{}, {}>>, last |-> <<{}, {}>>, seen |-> {}, gone |-> FALSE,
             word |-> [n \in Notifs |-> {}], toA |-> <<>>, toB |-> <<>>, got |-> FALSE, exit |-> FALSE,
             deadok |-> FALSE, report |-> "running", timer |-> FALSE, tp |-> 0, weak |-> {},
             chan |-> [caps |-> <<0, 0>>, bound |-> <<{}, {}>>],
             saved |-> [t \in 0 .. 2 |-> 0],
             line |-> [bound |-> FALSE, pending |-> FALSE, masked |-> FALSE], out |-> "running"]

Next == Step \/ Tick \/ Expire \/ Deliver

Spec == Init /\ [][Next]_m /\ WF_m(Step) /\ WF_m(Tick) /\ WF_m(Expire) /\ WF_m(Deliver)

-----------------------------------------------------------------------------
(* Properties. *)

\* user_main never prints M1 FAIL and no check of either thread fails, wherever
\* the tick, the timer and the device come in between: the revoked capability is
\* dead in thread 2's space and in the queue, the weak copy of its capability
\* neither binds nor reads reports, both ends learn of the teardown and are dead
\* after it, and every thread finds its own TPIDR_EL0.  And it comes to print
\* M1 PASS: no bit it waits for was taken by an earlier wait, the second interrupt
\* comes after the acknowledgement, and the death notice comes through the binding
\* made after the revoke.
Passes == <>(m.out = "PASS")
=============================================================================
