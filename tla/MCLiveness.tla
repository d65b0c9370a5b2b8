--------------------------------- MODULE MCLiveness ---------------------------------
(***************************************************************************)
(* What must happen in the end, for TLC, one component at a time: requests  *)
(* to the store are answered, a revoke ends, threads get their turn and     *)
(* their locks, storage sessions are served, keys arrive at the shell, and  *)
(* the boot self-test passes.                                               *)
(* The revoke is that of Capabilities itself, the others are instances.     *)
(***************************************************************************)
EXTENDS MCCapabilities

CONSTANTS r1, r2, idle, ta, tb  \* model values: refs and threads

VARIABLES
    part,  \* the component that runs, chosen once
    commitRing, commitSlot, commitLost, pend, unsynced, sb, commitLive, commitTable,
    overlay, recs, commitTail, commitSeq, commitPc, commitRet, commitJob, toflush, nOps,
    nCommits, nCrashes, nFaults, expect, maybe,
    schedK,
    testM,
    sessionsRing, rep, sessionsWord, srv, sessionsProg, sessionsTh, sessionsLast, left,
    poolTh, poolWord, poolLast, poolTable, poolLock, poolPark, poolPool, exited,
    handles, mainPark, prio, poolOps, poolFails,
    dev, line, ttyWord, con, ttyRing, out, ttyProg, who, got, ttyLost, typed

\* The threads of the revoke, and the slots of their spaces: none is made or moved.
Kind(o) == (CHOOSE sc \in Scenarios : TRUE).boot.obj[o].kind
BootThreads == {o \in AllObjs : Kind(o) = "thread"}
SpaceSlots == {s \in AllSlots : Kind(s[1]) = "cspace"}

\* The pool runs at 1; the main thread beside it, or above it as that of a program
\* the shell starts.
ProcessPrios == {[t \in 0 .. 2 |-> IF t = 0 THEN p ELSE 1] : p \in {1, 3}}

\* The shell has one thread, a program more than a ring has places.
ProgThreads == << {"t1"}, {"t1", "t2", "t3"} >>

\* The shell reads whole messages, a child less than one.
TtyRead == [shell |-> 2, child |-> 1]

Commit == INSTANCE StoreCommit WITH
    Refs <- {r1, r2}, Files <- {"f1"}, WalLen <- 4, Watermark <- 4, RecLens <- {1, 3},
    Requests <- {"write", "sync"}, Faults <- {}, MaxOps <- 3, MaxCommits <- 30,
    MaxCrashes <- 1, MaxFaults <- 0, ring <- commitRing, slot <- commitSlot,
    lost <- commitLost, live <- commitLive, table <- commitTable, tail <- commitTail,
    seq <- commitSeq, pc <- commitPc, ret <- commitRet, job <- commitJob
commitVars == <<commitRing, commitSlot, commitLost, pend, unsynced, sb, commitLive,
                commitTable, overlay, recs, commitTail, commitSeq, commitPc, commitRet,
                commitJob, toflush, nOps, nCommits, nCrashes, nFaults, expect, maybe>>

Sched == INSTANCE Scheduler WITH
    Threads <- {idle, ta, tb}, Idle <- idle, Notifs <- {"n"}, Timers <- {}, Bits <- {1},
    Prios <- {1, 2}, MaxDelta <- 1, ExitNotif <- "n", k <- schedK
schedVars == <<schedK>>

Test == INSTANCE SelfTest WITH
    Prio2s <- {4, 16}, m <- testM
testVars == <<testM>>

Sessions == INSTANCE StorageSessions WITH
    Threads <- ProgThreads, Offers <- {"common", "other"}, Window <- 0, Budget <- 1,
    Depth <- 2, MaxPrograms <- 2, MaxRequests <- <<1, 3>>, ring <- sessionsRing,
    word <- sessionsWord, prog <- sessionsProg, th <- sessionsTh, last <- sessionsLast
sessionsVars == <<sessionsRing, rep, sessionsWord, srv, sessionsProg, sessionsTh,
                  sessionsLast, left>>

Pool == INSTANCE Threads WITH
    Prios <- ProcessPrios, MaxThreads <- 2, MaxOps <- 5, MaxFails <- 1, th <- poolTh,
    word <- poolWord, last <- poolLast, table <- poolTable, lock <- poolLock,
    park <- poolPark, pool <- poolPool, ops <- poolOps, fails <- poolFails
poolVars == <<poolTh, poolWord, poolLast, poolTable, poolLock, poolPark, poolPool,
              exited, handles, mainPark, prio, poolOps, poolFails>>

Tty == INSTANCE Console WITH
    FifoSize <- 2, RxBuf <- 2, Depth <- 2, ReadLen <- TtyRead, EveryByte <- TRUE,
    MaxKeys <- 5, word <- ttyWord, ring <- ttyRing, prog <- ttyProg, lost <- ttyLost
ttyVars == <<dev, line, ttyWord, con, ttyRing, out, ttyProg, who, got, ttyLost, typed>>

-----------------------------------------------------------------------------

\* A component that does not run has no state.
Off(p) ==
    /\ IF p = "revoke" THEN TRUE ELSE slot = <<>> /\ obj = <<>> /\ reply = <<>> /\ load = <<>>
    /\ IF p = "commit" THEN TRUE ELSE commitRing = <<>> /\ commitSlot = <<>> /\
                                      commitLost = <<>> /\ pend = <<>> /\
                                      unsynced = <<>> /\ sb = <<>> /\
                                      commitLive = <<>> /\ commitTable = <<>> /\
                                      overlay = <<>> /\ recs = <<>> /\
                                      commitTail = <<>> /\ commitSeq = <<>> /\
                                      commitPc = <<>> /\ commitRet = <<>> /\
                                      commitJob = <<>> /\ toflush = <<>> /\
                                      nOps = <<>> /\ nCommits = <<>> /\
                                      nCrashes = <<>> /\ nFaults = <<>> /\
                                      expect = <<>> /\ maybe = <<>>
    /\ IF p = "scheduler" THEN TRUE ELSE schedK = <<>>
    /\ IF p = "selftest" THEN TRUE ELSE testM = <<>>
    /\ IF p = "sessions" THEN TRUE ELSE sessionsRing = <<>> /\ rep = <<>> /\
                                        sessionsWord = <<>> /\ srv = <<>> /\
                                        sessionsProg = <<>> /\ sessionsTh = <<>> /\
                                        sessionsLast = <<>> /\ left = <<>>
    /\ IF p = "threads" THEN TRUE ELSE poolTh = <<>> /\ poolWord = <<>> /\
                                       poolLast = <<>> /\ poolTable = <<>> /\
                                       poolLock = <<>> /\ poolPark = <<>> /\
                                       poolPool = <<>> /\ exited = <<>> /\
                                       handles = <<>> /\ mainPark = <<>> /\
                                       prio = <<>> /\ poolOps = <<>> /\ poolFails = <<>>
    /\ IF p = "console" THEN TRUE ELSE dev = <<>> /\ line = <<>> /\ ttyWord = <<>> /\
                                       con = <<>> /\ ttyRing = <<>> /\ out = <<>> /\
                                       ttyProg = <<>> /\ who = <<>> /\ got = <<>> /\
                                       ttyLost = <<>> /\ typed = <<>>

Still(p) ==
    /\ IF p = "revoke" THEN TRUE ELSE UNCHANGED vars
    /\ UNCHANGED part
    /\ IF p = "commit" THEN TRUE ELSE UNCHANGED commitVars
    /\ IF p = "scheduler" THEN TRUE ELSE UNCHANGED schedVars
    /\ IF p = "selftest" THEN TRUE ELSE UNCHANGED testVars
    /\ IF p = "sessions" THEN TRUE ELSE UNCHANGED sessionsVars
    /\ IF p = "threads" THEN TRUE ELSE UNCHANGED poolVars
    /\ IF p = "console" THEN TRUE ELSE UNCHANGED ttyVars

LiveInit ==
    /\ \/ part = "revoke" /\ Init
       \/ part = "commit" /\ Commit!Init
       \/ part = "scheduler" /\ Sched!Init
       \/ part = "selftest" /\ Test!Init
       \/ part = "sessions" /\ Sessions!Init
       \/ part = "threads" /\ Pool!Init
       \/ part = "console" /\ Tty!Init
    /\ Off(part)

LiveNext ==
    \/ part = "revoke" /\ Next /\ Still("revoke")
    \/ part = "commit" /\ Commit!Next /\ Still("commit")
    \/ part = "scheduler" /\ Sched!Next /\ Still("scheduler")
    \/ part = "selftest" /\ Test!Next /\ Still("selftest")
    \/ part = "sessions" /\ Sessions!Next /\ Still("sessions")
    \/ part = "threads" /\ Pool!Next /\ Still("threads")
    \/ part = "console" /\ Tty!Next /\ Still("console")

liveVars == <<part, vars, commitVars, schedVars, testVars, sessionsVars, poolVars,
              ttyVars>>

\* The fairness of each component, as it states it: a handler or a started call
\* runs on, the tick comes, devices and timers deliver.  Nothing is assumed of
\* clients, of threads that compute, or of power.
LiveSpec ==
    /\ LiveInit /\ [][LiveNext]_liveVars
    /\ \A t \in BootThreads, s \in SpaceSlots : WF_vars(part = "revoke" /\ Reissue(t, s))
    /\ WF_commitVars(part = "commit" /\ Commit!Step)
    /\ WF_commitVars(part = "commit" /\ Commit!Mount)
    /\ WF_schedVars(part = "scheduler" /\ Sched!Tick)
    /\ WF_testVars(part = "selftest" /\ Test!Step)
    /\ WF_testVars(part = "selftest" /\ Test!Tick)
    /\ WF_testVars(part = "selftest" /\ Test!Expire)
    /\ WF_testVars(part = "selftest" /\ Test!Deliver)
    /\ WF_sessionsVars(part = "sessions" /\ Sessions!Server)
    /\ \A ch \in Sessions!Chans : WF_sessionsVars(part = "sessions" /\ ~Sessions!Jammed /\ Sessions!Program(ch))
    /\ \A t \in Pool!Thread :
          WF_poolVars(part = "threads" /\ Pool!Step(t) /\ poolTh[t].pc # "run")
    /\ WF_ttyVars(part = "console" /\ Tty!Deliver)
    /\ WF_ttyVars(part = "console" /\ Tty!Driver)
    /\ WF_ttyVars(part = "console" /\ Tty!Program("shell"))

-----------------------------------------------------------------------------
(* The properties of the components.  RevokeEnds is that of Capabilities,    *)
(* against a thread that keeps copying and deleting channel capabilities.    *)

\* Every request to the store is answered: the relief loop ends, no handler runs for
\* ever, and mount comes to an end after a crash.  What it answers is what an array of
\* registers that survive a crash would (DurableRefs), with two refs in one log, too.
RequestsServed ==
    /\ part = "commit" => Commit!Abstract!Init
    /\ [][part = "commit" => UNCHANGED Commit!Abstract!vars \/ Commit!Abstract!Next]_liveVars
    /\ []<>(part = "commit" => commitPc \in {"idle", "down"})

\* The tick gives every ready thread of the highest level its turn.
TurnComes == \A t \in {idle, ta, tb} : []<>~(part = "scheduler" /\ Sched!Starved(t))

\* The boot self-test comes to print M1 PASS, and nothing else after it, whenever
\* tick, timer and device come: no check of its two threads fails.
Passes == []<>(part = "selftest" => testM.out = "PASS")

\* Every handshake and every request to the server is answered, unless the server
\* finds a reply ring full: more threads of a program ask at once than it has places,
\* or it holds answers to programs that have ended.  Otherwise the reply a thread is
\* handed is the one to its own request, if no other thread of the program had one
\* out at the same time, and the session of a program is its own though it inherits
\* the channel, if no program before it ended with an answer still to come.
SessionsServed ==
    /\ [](part = "sessions" =>
             Sessions!RepliesMatch /\ Sessions!SessionsFresh /\ Sessions!RoomForReply)
    /\ \A ch \in Sessions!Chans :
          /\ []<>(part = "sessions" => Sessions!Jammed \/ sessionsProg[ch].conn \notin {"start", "sent"})
          /\ \A t \in ProgThreads[ch] :
                []<>(part = "sessions" => Sessions!Jammed \/ sessionsTh[ch][t].pc # "recv")

\* A thread that wants one of the runtime's locks gets it, while no thread above it
\* is ready and no thread below it has the lock.  No futex wake is lost
\* between the check of the word and the sleep, or goes to a slot's next thread; the
\* waiter table has a place for every thread, so that none polls; and a thread's memory
\* is taken away only when it has ended by itself.
ThreadsServed ==
    /\ [](part = "threads" => Pool!NoLostWake /\ Pool!TokensLive /\ Pool!NeverPolls)
    /\ [][part = "threads" => Pool!EndedItself]_liveVars
    /\ \A t \in Pool!Thread :
          []<>(part = "threads" => Pool!Wanted(poolTh[t].pc) = {} \/ Pool!Outranked(t) \/ Pool!Inverted(t))

\* Every key comes to the shell, unless a child runs on or the driver is stuck on a
\* full ring; the device is taken to raise its line for every byte (EveryByte), not
\* only for the first one of an empty FIFO.  Each key is in one place and comes in order, the driver never sleeps over
\* bytes in the FIFO, and no program finds the ring to the driver full.
KeysArrive ==
    /\ [](part = "console" => Tty!KeysOnce /\ Tty!LineArmed /\ Tty!OutputShown)
    /\ []<>(part = "console" => \/ Tty!Coming = <<>> /\ ttyProg["shell"].buf = <<>>
                                \/ who = "child"
                                \/ Tty!Stuck)

=============================================================================
