--------------------------- MODULE StorageSessions ---------------------------
(***************************************************************************)
(* How programs talk to the storage server: the connect handshake, the     *)
(* request and reply rings, and the server's loop over a reactor           *)
(* (user/storaged/src/main.rs, ipc/src/reactor.rs, ipc/src/session.rs,     *)
(* eunomia-sys/src/fs.rs).  The shell has a channel of its own; the        *)
(* programs it starts, one after the other, inherit the second channel.    *)
(* A request is the number it was sent under, a reply the number of the    *)
(* request it answers.                                                     *)
(***************************************************************************)
EXTENDS Integers, Sequences, FiniteSets

CONSTANTS
    Threads,      \* of the program at every channel
    Offers,       \* the wire versions a program may offer: "common", "other"
    Window,       \* what a program asks for: 0 in ipc::connect
    Budget,       \* WINDOW_BUDGET
    Depth,        \* messages in a ring
    MaxPrograms,  \* programs the shell starts
    MaxRequests   \* requests of one program, at every channel

VARIABLES
    ring,     \* channel -> messages to the server
    rep,      \* channel -> replies
    word,     \* the notification the channels signal: the set of its bits
    srv,      \* the server: where it is, and what it holds
    prog,     \* channel -> the program at its other end
    th,       \* channel -> thread -> its request
    last,     \* the reply handed out last, with the request it was handed out for
    left      \* a program has ended with an answer still to come (history)

vars == <<ring, rep, word, srv, prog, th, last, left>>

SESSION_CHAN == 1
SECOND_SESSION_CHAN == 2
Chans == {SESSION_CHAN, SECOND_SESSION_CHAN}

Msg(tag, n, offer) == [tag |-> tag, n |-> n, offer |-> offer]
NoMsg == Msg("none", 0, "common")
Quiet == [pc |-> "idle", n |-> 0, mixed |-> FALSE]

-----------------------------------------------------------------------------
(* A program. *)

\* A message goes into the ring and sets the bit bound to the channel.
Send(c, m) ==
    /\ Len(ring[c]) < Depth
    /\ ring' = [ring EXCEPT ![c] = Append(@, m)]
    /\ word' = IF c \in srv.bound THEN word \cup {c} ELSE word

\* Mutant: the program does not wait for the answer to its handshake.
ConnectSendEager(c) ==
    /\ prog[c].conn = "start"
    /\ Send(c, Msg("connect", prog[c].id, prog[c].offer))
    /\ prog' = [prog EXCEPT ![c].conn = "up"]
    /\ UNCHANGED <<rep, srv, th, last, left>>

\* attach: the handshake, once, when the program starts.
ConnectSend(c) ==
    /\ prog[c].conn = "start"
    /\ Send(c, Msg("connect", prog[c].id, prog[c].offer))
    /\ prog' = [prog EXCEPT ![c].conn = "sent"]
    /\ UNCHANGED <<rep, srv, th, last, left>>

ConnectRecv(c) ==
    /\ prog[c].conn = "sent" /\ rep[c] # <<>>
    /\ prog' = [prog EXCEPT ![c].conn = IF Head(rep[c]).tag = "grant" THEN "up" ELSE "down"]
    /\ rep' = [rep EXCEPT ![c] = Tail(@)]
    /\ UNCHANGED <<ring, word, srv, th, last, left>>

Asking(c) == {t \in Threads[c] : th[c][t].pc = "recv"}

\* request: one message out, one message back; no lock is held in between, so the
\* requests of two threads can be out at once (mixed).
RequestSend(c, t) ==
    /\ prog[c].conn = "up" /\ th[c][t].pc = "idle" /\ prog[c].sent < MaxRequests[c]
    /\ LET n == 10 * prog[c].id + prog[c].sent + 1
       IN  /\ Send(c, Msg("request", n, "common"))
           /\ th' = [th EXCEPT ![c] =
                  [u \in Threads[c] |-> IF u = t THEN [pc |-> "recv", n |-> n, mixed |-> Asking(c) # {}]
                                     ELSE [th[c][u] EXCEPT !.mixed = u \in Asking(c)]]]
    /\ prog' = [prog EXCEPT ![c].sent = @ + 1]
    /\ UNCHANGED <<rep, srv, last, left>>

RequestRecv(c, t) ==
    /\ th[c][t].pc = "recv" /\ rep[c] # <<>>
    /\ th' = [th EXCEPT ![c][t] = Quiet]
    /\ last' = IF Head(rep[c]).tag = "reply"
               THEN [on |-> c, asked |-> th[c][t].n, got |-> Head(rep[c]).n, mixed |-> th[c][t].mixed]
               ELSE last
    /\ rep' = [rep EXCEPT ![c] = Tail(@)]
    /\ UNCHANGED <<ring, word, srv, prog, left>>

\* The shell starts programs only once it is connected itself.
Start(offer) ==
    LET c == SECOND_SESSION_CHAN
    IN  /\ prog[c].conn = "none" /\ prog[c].id < MaxPrograms
        /\ prog[SESSION_CHAN].conn = "up"
        /\ prog' = [prog EXCEPT ![c] = [id |-> @.id + 1, conn |-> "start", offer |-> offer, sent |-> 0]]
        /\ UNCHANGED <<ring, rep, word, srv, th, last, left>>

\* A program returns, faults or is ended by the shell, at any point.
End ==
    LET c == SECOND_SESSION_CHAN
    IN  /\ prog[c].conn # "none"
        /\ prog' = [prog EXCEPT ![c].conn = "none"]
        /\ th' = [th EXCEPT ![c] = [t \in Threads[c] |-> Quiet]]
        /\ left' = (left \/ prog[c].conn = "sent" \/ Asking(c) # {})
        /\ UNCHANGED <<ring, rep, word, srv, last>>

-----------------------------------------------------------------------------
(* The reactor. *)

\* Mutant: what the channel held before is not signalled.
RegisterSilently(c, next) ==
    /\ srv' = [srv EXCEPT !.bound = @ \cup {c}, !.pc = next]
    /\ UNCHANGED <<ring, rep, word, prog, th, last, left>>

\* register binds a channel to a bit and signals that bit itself, for what the
\* channel held before.
Register(c, next) ==
    /\ srv' = [srv EXCEPT !.bound = @ \cup {c}, !.pc = next]
    /\ word' = word \cup {c}
    /\ UNCHANGED <<ring, rep, prog, th, last, left>>

RegisterFirst == srv.pc = "boot" /\ Register(SESSION_CHAN, "bound")
RegisterSecond == srv.pc = "bound" /\ Register(SECOND_SESSION_CHAN, "connect")

\* The lowest bit pending, after the word is taken when none is.
Taken == IF srv.pending = {} THEN word ELSE srv.pending
Lowest(bits) == CHOOSE b \in bits : \A o \in bits : b <= o

Wait(pc, next) ==
    /\ srv.pc = pc /\ Taken # {}
    /\ srv' = [srv EXCEPT !.pending = Taken \ {Lowest(Taken)}, !.pc = next[Lowest(Taken)]]
    /\ word' = IF srv.pending = {} THEN {} ELSE word
    /\ UNCHANGED <<ring, rep, prog, th, last, left>>

-----------------------------------------------------------------------------
(* The server. *)

\* Whatever woke the server, it looks for the shell's handshake.
WaitConnect == Wait("connect", [b \in Chans |-> "look"])

\* Then it serves the channel the reactor names.
WaitServe == Wait("wait", [b \in Chans |-> IF b = SESSION_CHAN THEN "first" ELSE "second"])

\* admit_connect: a common version, and a window the quota has room for.
Admits(m) == m.tag = "connect" /\ m.offer = "common" /\ Window <= Budget - srv.granted
Granted(m) == IF Admits(m) THEN srv.granted + Window ELSE srv.granted
Answer(m) == Msg(IF Admits(m) THEN "grant" ELSE "refused", m.n, "common")

Take(c) == ring' = [ring EXCEPT ![c] = Tail(@)]

\* send_response, repeated while the ring is full.  After a grant on the second
\* channel a session is opened on "main", which is there: without it the server
\* has stopped at boot, and no request removes a ref.
Respond(c) ==
    /\ srv.pc = "send" /\ srv.to = c
    /\ Len(rep[c]) < Depth
    /\ rep' = [rep EXCEPT ![c] = Append(@, srv.reply)]
    /\ srv' = [srv EXCEPT !.pc = srv.after, !.reply = NoMsg,
                          !.fs = IF c = SECOND_SESSION_CHAN /\ srv.reply.tag = "grant" THEN srv.reply.n ELSE @]
    /\ UNCHANGED <<ring, word, prog, th, last, left>>

Look ==
    /\ srv.pc = "look"
    /\ LET m == Head(ring[SESSION_CHAN])
       IN  IF ring[SESSION_CHAN] = <<>> THEN srv' = [srv EXCEPT !.pc = "connect"] /\ UNCHANGED ring
           ELSE /\ Take(SESSION_CHAN)
                /\ srv' = [srv EXCEPT !.pc = "send", !.to = SESSION_CHAN, !.reply = Answer(m),
                                      !.granted = Granted(m), !.after = IF Admits(m) THEN "wait" ELSE "dead"]
    /\ UNCHANGED <<rep, word, prog, th, last, left>>

\* The channel is drained; then the server waits again.
ServeFirst ==
    /\ srv.pc = "first"
    /\ LET m == Head(ring[SESSION_CHAN])
       IN  IF ring[SESSION_CHAN] = <<>> THEN srv' = [srv EXCEPT !.pc = "wait"] /\ UNCHANGED ring
           ELSE /\ Take(SESSION_CHAN)
                /\ srv' = [srv EXCEPT !.pc = "send", !.to = SESSION_CHAN, !.after = "first",
                                      !.reply = Msg("reply", m.n, "common")]
    /\ UNCHANGED <<rep, word, prog, th, last, left>>

\* Mutant: a new handshake meets the session of the program before.
ServeSecondKeeps ==
    /\ srv.pc = "second"
    /\ LET m == Head(ring[SECOND_SESSION_CHAN])
       IN  IF ring[SECOND_SESSION_CHAN] = <<>> THEN srv' = [srv EXCEPT !.pc = "wait"] /\ UNCHANGED ring
           ELSE /\ Take(SECOND_SESSION_CHAN)
                /\ srv' = IF srv.fs = 0
                          THEN [srv EXCEPT !.pc = "send", !.to = SECOND_SESSION_CHAN, !.after = "second",
                                           !.reply = Answer(m), !.granted = Granted(m),
                                           !.fs = 0]
                          ELSE [srv EXCEPT !.pc = "send", !.to = SECOND_SESSION_CHAN, !.after = "second",
                                           !.reply = Msg("reply", m.n, "common")]
    /\ UNCHANGED <<rep, word, prog, th, last, left>>

\* A message without a session, or a new handshake, closes the session before
\* and is answered as a handshake.
ServeSecond ==
    /\ srv.pc = "second"
    /\ LET m == Head(ring[SECOND_SESSION_CHAN])
       IN  IF ring[SECOND_SESSION_CHAN] = <<>> THEN srv' = [srv EXCEPT !.pc = "wait"] /\ UNCHANGED ring
           ELSE /\ Take(SECOND_SESSION_CHAN)
                /\ srv' = IF srv.fs = 0 \/ m.tag = "connect"
                          THEN [srv EXCEPT !.pc = "send", !.to = SECOND_SESSION_CHAN, !.after = "second",
                                           !.reply = Answer(m), !.granted = Granted(m),
                                           !.fs = 0]
                          ELSE [srv EXCEPT !.pc = "send", !.to = SECOND_SESSION_CHAN, !.after = "second",
                                           !.reply = Msg("reply", m.n, "common")]
    /\ UNCHANGED <<rep, word, prog, th, last, left>>

-----------------------------------------------------------------------------

Init ==
    /\ ring = [c \in Chans |-> <<>>] /\ rep = [c \in Chans |-> <<>>]
    /\ word = {}
    /\ srv = [pc |-> "boot", bound |-> {}, pending |-> {}, fs |-> 0, granted |-> 0,
              to |-> SESSION_CHAN, reply |-> NoMsg, after |-> "wait"]
    /\ prog = [c \in Chans |-> [id |-> 0, conn |-> IF c = SESSION_CHAN THEN "start" ELSE "none",
                                offer |-> "common", sent |-> 0]]
    /\ th = [c \in Chans |-> [t \in Threads[c] |-> Quiet]]
    /\ last = [on |-> SESSION_CHAN, asked |-> 0, got |-> 0, mixed |-> FALSE] /\ left = FALSE

Server ==
    \/ RegisterFirst \/ RegisterSecond
    \/ WaitConnect \/ Look \/ WaitServe
    \/ ServeFirst \/ ServeSecond
    \/ \E c \in Chans : Respond(c)

Program(c) ==
    \/ ConnectSend(c) \/ ConnectRecv(c)
    \/ \E t \in Threads[c] : RequestRecv(c, t)

\* The server finds the reply ring full.  It yields, but only to programs of its
\* own priority, and its clients are below it.
Jammed == srv.pc = "send" /\ Len(rep[srv.to]) = Depth

Next ==
    \/ Server
    \/ ~Jammed /\ \E c \in Chans : Program(c)
    \/ ~Jammed /\ \E c \in Chans : \E t \in Threads[c] : RequestSend(c, t)
    \/ ~Jammed /\ \E o \in Offers : Start(o)
    \/ ~Jammed /\ End

Spec == Init /\ [][Next]_vars

\* The server runs above its clients and blocks when it has nothing to do, so it
\* and they both keep running.
FairSpec == Spec /\ WF_vars(Server) /\ \A c \in Chans : WF_vars(~Jammed /\ Program(c))

-----------------------------------------------------------------------------
(* Properties. *)

\* The reply a thread is handed is the reply to its own request (fs::request,
\* "One request/response round-trip against storaged").  Excepted are requests
\* that two threads of a program had out at once, and, once a program has ended
\* with an answer still to come, the requests of the programs after it.
Spoilt(c) == left /\ c = SECOND_SESSION_CHAN
RepliesMatch == last.mixed \/ Spoilt(last.on) \/ last.asked = last.got

\* A program that speaks the server's wire version gets a session, whatever the
\* programs before it asked on the channel it inherits, if they awaited their
\* answers; and its requests are served under that session, not under one of theirs.
SessionsFresh ==
    /\ \A c \in Chans : prog[c].conn = "down" /\ ~Spoilt(c) => prog[c].offer # "common"
    /\ prog[SECOND_SESSION_CHAN].conn = "up" /\ ~left => srv.fs = prog[SECOND_SESSION_CHAN].id

\* The server finds the reply ring full only when more threads of a program ask at
\* once than it has places, or when answers to programs that have ended are in it
\* (send_response).
RoomForReply == Jammed => Spoilt(srv.to) \/ Cardinality(Asking(srv.to)) > Depth

\* Every handshake and every request is answered: no wake-up is lost between
\* binding, polling and waiting (register, wait).  Excepted is a server that finds
\* the reply ring full.
Answered ==
    \A c \in Chans :
       /\ []<>(Jammed \/ prog[c].conn \notin {"start", "sent"})
       /\ \A t \in Threads[c] : []<>(Jammed \/ th[c][t].pc # "recv")
=============================================================================
