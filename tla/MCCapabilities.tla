---------------------------- MODULE MCCapabilities ----------------------------
(***************************************************************************)
(* Instances of Capabilities for TLC.  Every start state is reached from   *)
(* the kernel's boot state by system calls of init; it is written as the   *)
(* composition of what those calls do.                                     *)
(***************************************************************************)
EXTENDS Capabilities

-----------------------------------------------------------------------------
(* The state kernel_main leaves. *)

\* The static objects of the kernel have negative addresses, memory to carve has
\* positive ones.
Root    == -1
InitTcb == -2
Line    == -3

MCPrio == 2

BootSlot(cap) == [EmptySlot EXCEPT !.cap = cap]

\* init's capability space of n slots holds all memory in slot 0, its own thread in
\* slot 1 and, if lines is {Line}, an interrupt line in the last slot.  Memory has
\* the addresses 1 .. m; with holds those that get slots of their own.
Booted(n, m, with, lines) ==
    LET Here == {Root, InitTcb} \cup lines \cup 1 .. m
        Table == ({Root} \X (0 .. n - 1)) \cup (({InitTcb} \cup with) \X {0, 1})
    IN  [slot |-> [s \in Table |->
            CASE s = <<Root, 0>> ->
                    BootSlot([kind |-> "untyped", base |-> 1, mark |-> 0, size |-> m,
                              rights |-> AllRights])
              [] s = <<Root, 1>> ->
                    BootSlot([kind |-> "thread", obj |-> InitTcb, ceiling |-> MCPrio,
                              rights |-> ThreadAll])
              [] s = <<Root, n - 1>> /\ lines # {} ->
                    BootSlot([kind |-> "irq", obj |-> Line, rights |-> AllRights])
              [] OTHER -> EmptySlot],
         obj |-> [o \in Here |->
            CASE o = Root -> [Fresh("cspace", n) EXCEPT !.refs = 2]
              [] o = InitTcb -> [Fresh("thread", 0) EXCEPT !.cspace = Root, !.prio = MCPrio,
                                                           !.state = "ready"]
              [] o = Line -> Fresh("irq", 0)
              [] OTHER -> Fresh("memory", 0)]]

-----------------------------------------------------------------------------
(* Calls of init; i and j are slots of its capability space. *)

Carve(k, ty, i, j) == Retype(k, <<Root, 0>>, ty, 2, <<Root, i>>, <<Root, j>>, MCPrio)
Copy(k, i, j) == Derive(k, <<Root, i>>, <<Root, j>>, AllRights, MCPrio)
Install(k, i, cs, j) == [k EXCEPT !.slot = SlotMove(@, <<Root, i>>, <<cs, j>>)]
Drop(k, i) == Delete(k, <<Root, i>>)

\* A child: its capability space at 1, its thread at 2 with a capability in init's
\* slot 3.  The capability to its space is in slot 2.
Child(k) == Started(Carve(Carve(k, "cspace", 2, 2), "thread", 3, 3), 2, 1, None, 1)

\* The child has one end of the channel at 3, init the other one.
Connected(n) ==
    LET k == Carve(Drop(Child(Booted(n, 3, 1 .. 3, {})), 2), "chan", 2, 4)
    IN  Install(k, 4, 1, 0)

\* The child has a copy of init's capability to the notification at 3, and so has
\* init; the interrupt line is in init's last slot.
Lined(with) ==
    LET k == Carve(Drop(Child(Booted(7, 4, with, {Line})), 2), "notif", 4, 4)
    IN  Copy(Install(Copy(k, 4, 2), 2, 1, 0), 4, 5)

\* No line, but a timer at 4, or a channel at 4 with one end in the child.
Sharing(with) == Drop(Lined(with), 6)
Timed == Carve(Sharing({1, 2}), "timer", 2, 2)
Bound == Install(Carve(Sharing({1, 2, 4}), "chan", 2, 6), 6, 1, 1)

\* A frame at 1 is mapped in the address space at 2; init has a space at 3 and a
\* thread at 4 to start in it.
Loaded ==
    LET k == Carve(Carve(Booted(7, 4, {3, 4}, {}), "frame", 2, 2), "aspace", 3, 3)
    IN  Carve(Carve(MapFrame(k, <<Root, 2>>, 2, 1), "cspace", 4, 4), "thread", 5, 5)

MCStatic == Root

-----------------------------------------------------------------------------
(* Scenarios. *)

Load(calls, types) ==
    [calls |-> calls, types |-> types, masks |-> {{"read"}}, ceilings |-> {MCPrio}, vas |-> {1}]

\* Capabilities to a channel, copied, sent through it, received, revoked.
Transfer ==
    [boot |-> Connected(5),
     load |-> Load(({"copy", "delete", "send", "recv", "revoke"} \X {"chan"})
                   \cup {<<"revoke", "untyped">>}, {})]

\* Notifications and what signals them.
Signalled(k) ==
    [boot |-> k,
     load |-> Load(({"signal", "wait", "delete", "revoke"} \X {"notif"})
                   \cup ({"exited", "faulted", "threadbind", "delete"} \X {"thread"})
                   \cup {<<"arm", "timer">>, <<"delete", "timer">>, <<"irqbind", "irq">>,
                         <<"ack", "irq">>, <<"delete", "irq">>, <<"revoke", "untyped">>}, {})]

\* Bindings of a channel.
Binding ==
    [boot |-> Bound,
     load |-> Load(({"signal", "wait", "delete"} \X {"notif"})
                   \cup ({"chanbind", "recv", "delete"} \X {"chan"})
                   \cup {<<"send", "nothing">>, <<"revoke", "untyped">>}, {})]

\* A process is put together, started, ended and torn down.
Spawn ==
    [boot |-> Loaded,
     load |-> Load({<<"revoke", "untyped">>, <<"start", "thread">>, <<"exited", "thread">>,
                    <<"delete", "frame">>}
                   \cup ({"install", "delete"} \X {"cspace", "aspace", "thread"}), {})]

\* Capabilities to threads, with their rights and ceilings.
Ceilings ==
    [boot |-> Drop(Child(Booted(5, 3, {1, 2}, {})), 2),
     load |-> [Load({"copy", "delete", "revoke"} \X {"thread"}, {})
                 EXCEPT !.masks = {{"bind"}}, !.ceilings = {1, MCPrio}]]

CallScenarios == {Transfer, Binding, Spawn, Ceilings} \cup
                 {Signalled(k) : k \in {Sharing({1, 2}), Lined({1, 2}), Timed}}

\* Frames and their mappings, page tables, nested untyped memory.
Memory ==
    [boot |-> Booted(5, 3, {}, {}),
     load |-> [Load(({"retype", "topup", "revoke"} \X {"untyped"})
                    \cup ({"copy", "map", "delete"} \X {"frame"})
                    \cup {<<"delete", "aspace">>}, {"frame", "aspace", "untyped"})
                 EXCEPT !.masks = {{"read"}, AllRights}, !.vas = {1, 2}]]

\* Memory that is revoked, reset and carved again: with nested memory deleted over
\* what was carved from it, and with capabilities in flight.
Reuse(calls) ==
    [boot |-> Booted(5, 2, {1, 2}, {}),
     load |-> Load(({"retype", "reset", "revoke"} \X {"untyped"}) \cup calls
                   \cup ({"delete"} \X {"frame", "chan"}), {"frame", "chan", "untyped"})]

\* Page tables topped up from nested memory, which is then reset and carved again
\* while their address space lives.
Tables ==
    [boot |-> Booted(5, 3, {}, {}),
     load |-> Load(({"retype", "topup", "reset"} \X {"untyped"})
                   \cup ({"delete"} \X {"frame", "aspace"}), {"frame", "aspace", "untyped"})]

MemoryScenarios ==
    {Memory, Tables, Reuse({<<"delete", "untyped">>}), Reuse({"send", "recv"} \X {"chan"})}

\* A revoke against a thread that keeps copying.
EndScenarios ==
    {[boot |-> Connected(6), load |-> Load({"copy", "revoke", "delete"} \X {"chan"}, {})]}

-----------------------------------------------------------------------------
(* Instances for the statements that do not hold. *)

ResetScenarios ==
    {[boot |-> Lined({1, 2}),
      load |-> Load({<<"irqbind", "irq">>} \cup ({"revoke", "reset", "retype"} \X {"untyped"}),
                    {"timer"})]}

GrowScenarios ==
    {[boot |-> Booted(5, 3, {}, {}), load |-> Load({"retype", "revoke"} \X {"untyped"}, {"frame"})]}
=============================================================================
