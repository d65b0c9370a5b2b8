------------------------------- MODULE Threads -------------------------------
(***************************************************************************)
(* The threads of one process (urt/src/thread.rs), the futex they wait on  *)
(* (urt/src/futex.rs) and the yielding spin lock around heap, thread pool  *)
(* and waiter table (urt/src/lock.rs), on one processor under strict       *)
(* priorities.  A thread is named by its slot in the pool; 0 is the main   *)
(* thread.  Taking a lock and the work under it are one step, releasing it *)
(* another, so that a thread can lose the processor while it holds one.    *)
(***************************************************************************)
EXTENDS Integers, Sequences, FiniteSets

CONSTANTS
    MaxThreads,  \* MAX_THREADS: slots of the pool
    Prios,       \* the priorities a process may have: of every thread
    MaxOps,      \* calls all threads make together
    MaxFails     \* system calls that fail

Slot == 1 .. MaxThreads
Thread == 0 .. MaxThreads
NoOne == -1
MAX_WAITERS == MaxThreads + 1

VARIABLES
    th,      \* of every thread: where it is, and the registers of its call
    word,    \* the futex word; every store writes a new value
    last,    \* whether the last store was followed by futex_wake_all
    table,   \* the waiter table: a thread's token, or NoOne
    lock,    \* who holds each lock
    park,    \* a wake is pending in the thread's own notification
    pool,    \* the slots that spawn holds to be in use
    exited,  \* the exit bit of the slot's notification
    handles, \* join handles given out and not yet used
    mainPark,\* the main thread has a notification of its own
    prio,    \* of every thread; that of the pool is THREAD_PRIO
    ops, fails

vars == <<prio, th, word, last, table, lock, park, pool, exited, handles, mainPark, ops, fails>>

At(pc) == [pc |-> pc, seen |-> 0, tok |-> NoOne, all |-> FALSE, slot |-> 0]
Go(t, pc) == th' = [th EXCEPT ![t].pc = pc]

\* notif_wait returns at once when the word is not zero.
Asleep(t) == \/ th[t].pc = "sleep" /\ ~park[t]
             \/ th[t].pc = "joinWait" /\ ~exited[th[t].slot]
Ready(t) == th[t].pc \notin {"none", "dead"} /\ ~Asleep(t)

\* The processor runs a ready thread of the highest priority; a thread that
\* spins on a lock is ready, and yielding gives way to its equals only.
Turn(t) == Ready(t) /\ \A u \in Thread : Ready(u) => prio[u] <= prio[t]

-----------------------------------------------------------------------------
(* SpinLock *)

\* Mutant: the lock is taken whoever holds it.
AcquireAlways(t, l) == lock' = [lock EXCEPT ![l] = t]

Acquire(t, l) == lock[l] = NoOne /\ lock' = [lock EXCEPT ![l] = t]
Release(t, l) == lock' = [lock EXCEPT ![l] = NoOne]

\* Which lock a thread at pc is about to take.
Wanted(pc) ==
    CASE pc = "alloc"                              -> {"heap"}
      [] pc \in {"park", "spawn", "join", "free"}  -> {"pool"}
      [] pc \in {"enqueue", "dequeue"}             -> {"table"}
      [] OTHER                                     -> {}

-----------------------------------------------------------------------------
(* Calls begin. *)

Begin(t) ==
    /\ th[t].pc = "run" /\ ops < MaxOps
    /\ ops' = ops + 1
    /\ \/ \* the heap, or futex_wait without and with a timeout
          /\ \E pc \in {"alloc", "park", "pollTimed"} :
                th' = [th EXCEPT ![t].pc = pc, ![t].seen = word]
          /\ UNCHANGED <<word, last, handles>>
       \/ \* a store, and the wake that has to follow it
          /\ word' = word + 1
          /\ \E all \in BOOLEAN : /\ th' = [th EXCEPT ![t].pc = "dequeue", ![t].all = all]
                                  /\ last' = all
          /\ UNCHANGED handles
       \/ /\ Go(t, "spawn")
          /\ UNCHANGED <<word, last, handles>>
       \/ \E h \in handles :
          /\ h # t
          /\ th' = [th EXCEPT ![t].pc = "join", ![t].slot = h]
          /\ handles' = handles \ {h}
          /\ UNCHANGED <<word, last>>
    /\ UNCHANGED <<table, lock, park, pool, exited, mainPark, fails>>

\* A thread's closure returns: the kernel raises its exit bit.
Exit(t) ==
    /\ t # 0 /\ th[t].pc = "run"
    /\ Go(t, "dead")
    /\ exited' = [exited EXCEPT ![t] = TRUE]
    /\ UNCHANGED <<word, last, table, lock, park, pool, handles, mainPark, ops, fails>>

Alloc(t) ==
    /\ th[t].pc = "alloc"
    /\ Acquire(t, "heap") /\ Go(t, "allocated")
    /\ UNCHANGED <<word, last, table, park, pool, exited, handles, mainPark, ops, fails>>

\* Mutant: the way out of a wait keeps the lock.
UnlockUnlessLeaving(t) ==
    /\ \E l \in DOMAIN lock :
          lock[l] = t /\ IF th[t].pc = "leave" THEN UNCHANGED lock ELSE Release(t, l)
    /\ th' = [th EXCEPT ![t].pc =
                  CASE @ = "parked"   -> "enqueue"
                    [] @ = "noPark"   -> "poll"
                    [] @ = "enqueued" -> "sleep"
                    [] @ = "joining"  -> "joinWait"
                    [] @ = "dequeued" -> "signal"
                    [] OTHER          -> "run"]
    /\ UNCHANGED <<word, last, table, park, exited, handles, mainPark, ops, fails>>

\* The end of every critical section, and where the thread goes from there.
Unlock(t) ==
    /\ \E l \in DOMAIN lock : lock[l] = t /\ Release(t, l)
    /\ th' = [th EXCEPT ![t].pc =
                  CASE @ = "parked"   -> "enqueue"
                    [] @ = "noPark"   -> "poll"
                    [] @ = "enqueued" -> "sleep"
                    [] @ = "joining"  -> "joinWait"
                    [] @ = "dequeued" -> "signal"
                    [] OTHER          -> "run"]
    /\ UNCHANGED <<word, last, table, park, exited, handles, mainPark, ops, fails>>

-----------------------------------------------------------------------------
(* futex.rs *)

\* park::current : the slot of a running thread is in use; the main thread makes
\* its notification the first time, for which memory and slots may be missing.
ParkCurrent(t) ==
    /\ th[t].pc = "park"
    /\ Acquire(t, "pool")
    /\ \/ /\ IF t = 0 THEN mainPark' = TRUE ELSE pool[t] /\ UNCHANGED mainPark
          /\ Go(t, "parked") /\ UNCHANGED fails
       \/ /\ t # 0 /\ ~pool[t]
          /\ Go(t, "noPark") /\ UNCHANGED <<mainPark, fails>>
       \/ /\ t = 0 /\ ~mainPark /\ fails < MaxFails
          /\ fails' = fails + 1
          /\ Go(t, "noPark") /\ UNCHANGED mainPark
    /\ UNCHANGED <<word, last, table, park, pool, exited, handles, ops>>

Free == {i \in DOMAIN table : table[i] = NoOne}
First(S) == CHOOSE i \in S : \A j \in S : i <= j

\* Mutant: the word is not looked at again.
EnqueueUnchecked(t) ==
    /\ th[t].pc = "enqueue"
    /\ Acquire(t, "table")
    /\ Free # {}
    /\ table' = [table EXCEPT ![First(Free)] = t] /\ Go(t, "enqueued")
    /\ UNCHANGED <<word, last, park, pool, exited, handles, mainPark, ops, fails>>

\* wait_block : the word is looked at again under the table's lock.
Enqueue(t) ==
    /\ th[t].pc = "enqueue"
    /\ Acquire(t, "table")
    /\ IF word # th[t].seen \/ Free = {} THEN Go(t, "leave") /\ UNCHANGED table
       ELSE table' = [table EXCEPT ![First(Free)] = t] /\ Go(t, "enqueued")
    /\ UNCHANGED <<word, last, park, pool, exited, handles, mainPark, ops, fails>>

\* park::wait returns.
Woken(t) ==
    /\ th[t].pc = "sleep" /\ park[t]
    /\ park' = [park EXCEPT ![t] = FALSE]
    /\ Go(t, "run")
    /\ UNCHANGED <<word, last, table, lock, pool, exited, handles, mainPark, ops, fails>>

\* fallback_poll, and futex_wait with a timeout that may pass.
Poll(t) ==
    /\ \/ th[t].pc = "poll" /\ word # th[t].seen
       \/ th[t].pc = "pollTimed"
    /\ Go(t, "run")
    /\ UNCHANGED <<word, last, table, lock, park, pool, exited, handles, mainPark, ops, fails>>

\* dequeue_one, for futex_wake and every round of futex_wake_all
Dequeue(t) ==
    /\ th[t].pc = "dequeue"
    /\ Acquire(t, "table")
    /\ LET found == {i \in DOMAIN table : table[i] # NoOne}
       IN  IF found = {} THEN Go(t, "leave") /\ UNCHANGED table
           ELSE /\ table' = [table EXCEPT ![First(found)] = NoOne]
                /\ th' = [th EXCEPT ![t].pc = "dequeued", ![t].tok = table[First(found)]]
    /\ UNCHANGED <<word, last, park, pool, exited, handles, mainPark, ops, fails>>

\* park::wake
Signal(t) ==
    /\ th[t].pc = "signal"
    /\ park' = [park EXCEPT ![th[t].tok] = TRUE]
    /\ th' = [th EXCEPT ![t].pc = IF th[t].all THEN "dequeue" ELSE "run", ![t].tok = NoOne]
    /\ UNCHANGED <<word, last, table, lock, pool, exited, handles, mainPark, ops, fails>>

-----------------------------------------------------------------------------
(* thread.rs *)

\* What recycle leaves of a slot: its thread is gone, and its notifications.
Recycled(t, s, pc) == [th EXCEPT ![t].pc = pc, ![s] = At("none")]

\* spawn up to thread_start_as; the new thread is ready when it returns, and
\* the slot is not yet marked.
Spawn(t) ==
    /\ th[t].pc = "spawn"
    /\ Acquire(t, "pool")
    /\ LET free == {s \in Slot : ~pool[s]}
       IN  IF free = {} THEN Go(t, "leave") /\ UNCHANGED fails
           ELSE \/ /\ th' = [th EXCEPT ![t].pc = "spawned", ![t].slot = First(free),
                                       ![First(free)] = At("run")]
                   /\ UNCHANGED fails
                \/ /\ fails < MaxFails /\ fails' = fails + 1
                   /\ th' = Recycled(t, First(free), "leave")
    /\ UNCHANGED <<word, last, table, park, pool, exited, handles, mainPark, ops>>

\* Mutant: the pool is unlocked before the slot is taken.
SpawnedUnlocksFirst(t) ==
    /\ th[t].pc = "spawned"
    /\ \/ lock["pool"] = t /\ Release(t, "pool") /\ UNCHANGED <<th, pool, handles>>
       \/ /\ lock["pool"] # t /\ UNCHANGED lock
          /\ pool' = [pool EXCEPT ![th[t].slot] = TRUE]
          /\ handles' = handles \cup {th[t].slot}
          /\ Go(t, "run")
    /\ UNCHANGED <<word, last, table, park, exited, mainPark, ops, fails>>

Spawned(t) ==
    /\ th[t].pc = "spawned"
    /\ pool' = [pool EXCEPT ![th[t].slot] = TRUE]
    /\ handles' = handles \cup {th[t].slot}
    /\ Release(t, "pool") /\ Go(t, "run")
    /\ UNCHANGED <<word, last, table, park, exited, mainPark, ops, fails>>

\* Mutant: the thread is torn down before its end was seen.
JoinRevokesFirst(t) ==
    /\ th[t].pc = "join"
    /\ Acquire(t, "pool")
    /\ th' = IF pool[th[t].slot] THEN Recycled(t, th[t].slot, "joining")
             ELSE [th EXCEPT ![t].pc = "leave"]
    /\ UNCHANGED <<word, last, table, park, pool, exited, handles, mainPark, ops, fails>>

Join(t) ==
    /\ th[t].pc = "join"
    /\ Acquire(t, "pool")
    /\ Go(t, IF pool[th[t].slot] THEN "joining" ELSE "leave")
    /\ UNCHANGED <<word, last, table, park, pool, exited, handles, mainPark, ops, fails>>

\* notif_wait returns with the exit bit; the report is read, everything in the
\* slot is revoked, and the memory is as before.
Reap(t) ==
    /\ th[t].pc = "joinWait" /\ exited[th[t].slot]
    /\ exited' = [exited EXCEPT ![th[t].slot] = FALSE]
    /\ park' = [park EXCEPT ![th[t].slot] = FALSE]
    /\ th' = Recycled(t, th[t].slot, "free")
    /\ UNCHANGED <<word, last, table, lock, pool, handles, mainPark, ops, fails>>

\* join's last critical section gives the slot back.
FreeSlot(t) ==
    /\ th[t].pc = "free"
    /\ Acquire(t, "pool")
    /\ pool' = [pool EXCEPT ![th[t].slot] = FALSE]
    /\ Go(t, "freed")
    /\ UNCHANGED <<word, last, table, park, exited, handles, mainPark, ops, fails>>

-----------------------------------------------------------------------------

Init ==
    /\ th = [t \in Thread |-> At(IF t = 0 THEN "run" ELSE "none")]
    /\ word = 0 /\ last = FALSE
    /\ table = [i \in 1 .. MAX_WAITERS |-> NoOne]
    /\ lock = [l \in {"heap", "pool", "table"} |-> NoOne]
    /\ park = [t \in Thread |-> FALSE]
    /\ pool = [s \in Slot |-> FALSE]
    /\ exited = [s \in Slot |-> FALSE]
    /\ handles = {} /\ mainPark = FALSE /\ prio \in Prios
    /\ ops = 0 /\ fails = 0

Work(t) ==
    \/ Begin(t) \/ Exit(t) \/ Alloc(t) \/ ParkCurrent(t) \/ Enqueue(t) \/ Woken(t) \/ Poll(t)
    \/ Dequeue(t) \/ Signal(t) \/ Spawn(t) \/ Spawned(t) \/ Join(t) \/ Reap(t) \/ FreeSlot(t)
    \/ th[t].pc # "spawned" /\ Unlock(t) /\ UNCHANGED pool

Step(t) == Turn(t) /\ Work(t) /\ UNCHANGED prio

Next == \E t \in Thread : Step(t)

Spec == Init /\ [][Next]_vars

\* Threads of one priority take turns (the tick); a call that a thread could
\* still begin is not owed.
FairSpec == Spec /\ \A t \in Thread : WF_vars(Step(t) /\ th[t].pc # "run")

-----------------------------------------------------------------------------
(* Properties. *)

\* A thread in the waiter table whose word has changed is on its way out: if the
\* last store was followed by futex_wake_all, that call is still at work.  And
\* a thread that sleeps without being in the table has its wake pending, or
\* a waker holds its token: no wake is lost.
NoLostWake ==
    \A t \in Thread : th[t].pc \in {"enqueued", "sleep"} =>
        IF \E i \in DOMAIN table : table[i] = t
        THEN (th[t].seen # word /\ last) =>
                \E u \in Thread : th[u].all /\ th[u].pc \in {"dequeue", "dequeued", "signal"}
        ELSE park[t] \/ \E u \in Thread : th[u].tok = t

\* A wake goes to a thread that sleeps or is about to: a token in a waker's hand
\* or a pending wake never belongs to a thread that went on, ended, or whose
\* slot was recycled; and no thread is in the table twice.
TokensLive ==
    /\ \A t \in Thread : park[t] \/ (\E u \in Thread : th[u].tok = t)
                            => th[t].pc \in {"enqueued", "sleep"}
    /\ \A i, j \in DOMAIN table : table[i] # NoOne =>
          /\ th[table[i]].pc \in {"enqueued", "sleep"}
          /\ i # j => table[i] # table[j]

\* A thread, its stack and its notifications are taken away only when it has
\* ended by itself, whoever joins and however often the slot was used before.
EndedItself == \A s \in Slot : th'[s].pc = "none" => th[s].pc \in {"none", "dead"}
EndsItself == [][EndedItself]_vars

\* The table has a place for every thread that waits, and no thread of the pool
\* has to poll.
NeverPolls ==
    \A t \in Slot : /\ th[t].pc \notin {"noPark", "poll"}
                    /\ th[t].pc = "enqueue" => Free # {}

\* A thread that wants a lock gets it, while no thread above it is ready and no
\* thread below it has the lock: yielding lets an equal run, never a lower one
\* (lock.rs: "a high-priority acquirer waiting on a strictly-lower-priority holder
\* is not cured by yield under strict fixed priority").
Outranked(t) == \E u \in Thread : Ready(u) /\ prio[u] > prio[t]
Inverted(t) == \E l \in Wanted(th[t].pc) : lock[l] # NoOne /\ prio[lock[l]] < prio[t]
LocksCome == \A t \in Thread : []<>(Wanted(th[t].pc) = {} \/ Outranked(t) \/ Inverted(t))
=============================================================================
