----------------------------- MODULE StoreCommit -----------------------------
(***************************************************************************)
(* The durability core of the storage engine (cas/src/store.rs): the       *)
(* write-ahead log ring, the per-ref overlays, flush, the A/B superblock   *)
(* commit and its two barriers, power loss at any device operation, and    *)
(* the mount that recovers from what the device kept.                      *)
(*                                                                         *)
(* The content of a ref is abstracted to one register per file: the number *)
(* of the last write applied to it (0 for a file that does not exist).     *)
(* That is enough to tell a write that survives from one that is lost, and *)
(* a newer content from an older one replayed over it.  Record lengths     *)
(* stay in ring cells, so the ring wraps, fills and splits records as the  *)
(* bytes do.                                                               *)
(*                                                                         *)
(* The engine is single threaded: one handler (job) runs at a time, and    *)
(* its steps end where the device is touched, because power can go there.  *)
(***************************************************************************)
EXTENDS Naturals, Sequences, FiniteSets

CONSTANTS
    Refs, Files, \* refs of the store, files of a ref
    WalLen,      \* length of the log ring, in cells
    Watermark,   \* opts.wal_watermark, in cells
    RecLens,     \* record lengths a write may have, in cells
    Requests,    \* kinds of request the clients issue
    Faults,      \* where a handler may fail
    MaxOps,      \* bound: operations clients issue
    MaxCommits,  \* bound: commits, when relief of the log makes no progress
    MaxCrashes,  \* bound: power losses
    MaxFaults,   \* bound: device errors and full chunk regions
    None         \* no overlay, no snapshot, no valid superblock

ASSUME StoreCommitAssumption ==
    /\ IsFiniteSet(Refs) /\ Refs # {} /\ Files # {}
    /\ WalLen \in Nat \ {0} /\ Watermark \in Nat
    /\ RecLens \subseteq Nat \ {0}
    /\ Requests \subseteq {"write", "sync", "snapshot", "rollback"}
    /\ Faults \subseteq {"log", "flush", "commit", "superblock"}
    /\ MaxOps \in Nat /\ MaxCommits \in Nat /\ MaxCrashes \in Nat /\ MaxFaults \in Nat

VARIABLES
    (* What survives power loss *)
    ring,      \* the log region, cell by cell
    slot,      \* the two superblock slots; None is a slot that fails its checksum
    lost,      \* commits whose blocks did not all survive a power loss
    (* What the device has accepted and not yet made durable *)
    pend,      \* writes since the last flush, in order
    unsynced,  \* commits with blocks written since the last flush
    (* Memory of the running engine *)
    sb,        \* the last committed superblock
    live,      \* its slot
    table,     \* the working ref table: head and last snapshot of every ref
    overlay,   \* dirty files of every ref, None for a file that is clean
    recs,      \* wal_records: the log records not behind the head, in the
               \* order of their sequence numbers
    tail, seq, \* wal_tail, wal_seq
    (* Control of the running handler *)
    pc, ret, job, toflush,
    (* Counters of the bounds and what the clients were told *)
    nOps, nCommits, nCrashes, nFaults,
    expect,    \* content of every ref after the last acknowledged operation
    maybe      \* contents that operations not acknowledged may have left

\* Every commit writes blocks of its own (tree nodes, ref table, index frame);
\* a superblock names them by img, the number of the commit that wrote them.

device  == <<ring, slot, lost, pend, unsynced>>
memory  == <<sb, live, table, overlay, recs, tail, seq>>
control == <<pc, ret, job, toflush>>
history == <<nOps, nCommits, nCrashes, nFaults, expect, maybe>>
vars    == <<device, memory, control, history>>

Vals   == 0 .. MaxOps
Slots  == {"A", "B"}
Offs   == 0 .. WalLen - 1
Trees  == [Files -> Vals]
Blank  == [seq |-> 0, ref |-> None, file |-> None, val |-> 0, len |-> 0, k |-> 0]
Cells  == [seq : Nat, ref : Refs, file : Files, val : Vals, len : RecLens, k : Nat]
          \cup {Blank}
Tables == [root : [Refs -> Trees \cup {None}], snap : [Refs -> Trees \cup {None}]]
Superblocks == [gen : Nat, img : Nat, table : Tables, head : Offs, next : Nat]
Recs   == [seq : Nat, off : Offs, ref : Refs, flushed : BOOLEAN]
Writes == [what : {"wal"}, at : Offs, cells : Seq(Cells)]
          \cup [what : {"sb"}, at : Slots, sb : Superblocks]
Kinds  == {"create", "write", "sync", "snapshot", "rollback"}
\* What the running handler was called with: the refs it is about, the files
\* it gives a new content and that content.
Jobs   == [kind : Kinds, ref : SUBSET Refs, files : SUBSET Files, tree : Trees,
           len : Nat]
EmptyTree == [f \in Files |-> 0]
NoJob  == [kind |-> "sync", ref |-> {}, files |-> {}, tree |-> EmptyTree, len |-> 0]
Pcs    == {"idle", "relieve", "walsync", "triggers", "flush", "put",
           "barrier1", "barrier2", "reply", "down"}
Clean  == [f \in Files |-> None]

ASSUME NoneAssumption ==
    None \notin Nat \cup Slots \cup Refs \cup Files \cup Trees \cup Superblocks

EmptyTable == [root |-> [r \in Refs |-> None], snap |-> [r \in Refs |-> None]]

-----------------------------------------------------------------------------
(* The device.  A pending write is a run of ring cells or a superblock.     *)
(* Power loss keeps, of every pending write on its own, nothing, all or a   *)
(* prefix; flush keeps all of every one.  A superblock counts for two       *)
(* units: one unit of the two is a slot that fails its checksum.            *)

WalPiece(at, cells) == [what |-> "wal", at |-> at, cells |-> cells]
SbWrite(s, v)       == [what |-> "sb", at |-> s, sb |-> v]

Units(w)    == IF w.what = "wal" THEN Len(w.cells) ELSE 2
AllKept     == [i \in DOMAIN pend |-> Units(pend[i])]
LastOf(S)   == CHOOSE i \in S : \A j \in S : j <= i

\* The pending writes that, kept to the given lengths, reach cell p or slot s.
Reach(kept, p) == {i \in DOMAIN pend : /\ pend[i].what = "wal"
                                       /\ p >= pend[i].at
                                       /\ p < pend[i].at + kept[i]}
Strike(kept, s) == {i \in DOMAIN pend : /\ pend[i].what = "sb"
                                        /\ pend[i].at = s
                                        /\ kept[i] > 0}

PersistRing(kept) ==
    ring' = [p \in Offs |-> IF Reach(kept, p) = {} THEN ring[p]
                            ELSE LET i == LastOf(Reach(kept, p))
                                 IN  pend[i].cells[p - pend[i].at + 1]]

PersistSlots(kept) ==
    slot' = [s \in Slots |-> IF Strike(kept, s) = {} THEN slot[s]
                             ELSE LET i == LastOf(Strike(kept, s))
                                  IN  IF kept[i] = 2 THEN pend[i].sb ELSE None]

Flush ==
    /\ PersistRing(AllKept) /\ PersistSlots(AllKept)
    /\ pend' = <<>> /\ unsynced' = {}

-----------------------------------------------------------------------------
(* The log ring *)

\* Mutant: a full ring reads as an empty one.
WalUsageFullIsEmpty ==
    (tail + WalLen - sb.head) % WalLen

WalUsage ==
    IF recs = {} THEN 0
    ELSE LET raw == (tail + WalLen - sb.head) % WalLen
         IN  IF raw = 0 THEN WalLen ELSE raw

\* relieve_wal_pressure leaves its loop: the record fits and usage is below
\* the watermark, or there is nothing left to flush.
Comfortable(len) ==
    \/ WalUsage + len <= WalLen /\ WalUsage < Watermark
    \/ recs = {}

Record(s, r, f, v, len) ==
    [i \in 1 .. len |-> [seq |-> s, ref |-> r, file |-> f, val |-> v,
                         len |-> len, k |-> i]]

\* wal_write: one piece, or two when the record runs over the end of the ring.
WalPieces(off, rec) ==
    IF off + Len(rec) <= WalLen
    THEN << WalPiece(off, rec) >>
    ELSE LET first == WalLen - off
         IN  << WalPiece(off, SubSeq(rec, 1, first)),
                WalPiece(0, SubSeq(rec, first + 1, Len(rec))) >>

\* Mutant: the tail runs past the end of the ring.
NextTailUnwrapped(len) == tail + len

NextTail(len) == (tail + len) % WalLen

First(S) == CHOOSE x \in S : \A y \in S : x.seq <= y.seq

\* Mutant: flushed records are popped wherever they lie in the queue.
FlushedAnywhere == {x \in recs : x.flushed}

\* advance_head: the flushed prefix is popped; head and sequence number are
\* those of the first record that is left, or the reset values.
FlushedPrefix == {x \in recs : \A y \in recs : y.seq <= x.seq => y.flushed}
AdvanceHead ==
    LET rest == recs \ FlushedPrefix
    IN  [rest |-> rest,
         head |-> IF rest = {} THEN 0 ELSE First(rest).off,
         next |-> IF rest = {} THEN seq ELSE First(rest).seq]

\* Mutant: the slot of the last commit is overwritten.
CommitTargetLive(s) == s

CommitTarget(s) == IF s = "B" THEN "A" ELSE "B"

-----------------------------------------------------------------------------
(* Recovery: what mount computes from the durable state. *)

\* Mutant: the older commit wins when both slots are valid.
PickOlder ==
    CASE slot["A"] # None /\ slot["B"] # None ->
              IF slot["A"].gen >= slot["B"].gen THEN "B" ELSE "A"
      [] slot["A"] # None /\ slot["B"] = None -> "A"
      [] slot["A"] = None /\ slot["B"] # None -> "B"
      [] OTHER -> None

\* pick_survivor: the valid slot of the higher generation, A on a tie.
PickSurvivor ==
    CASE slot["A"] # None /\ slot["B"] # None ->
              IF slot["A"].gen >= slot["B"].gen THEN "A" ELSE "B"
      [] slot["A"] # None /\ slot["B"] = None -> "A"
      [] slot["A"] = None /\ slot["B"] # None -> "B"
      [] OTHER -> None

\* The ring as mount rotates it: logical offset o counts from the head.
Rotated(head, o) == ring[(head + o) % WalLen]

\* A whole record starts at logical offset o: framed, in bounds, every cell
\* of it the one that was written (the record checksum).
FrameAt(head, o) ==
    LET c == Rotated(head, o)
    IN  /\ c # Blank /\ c.k = 1 /\ o + c.len <= WalLen
        /\ \A i \in 1 .. c.len : Rotated(head, o + i - 1) = [c EXCEPT !.k = i]

\* recover_records walks from the head, record after record, as long as whole
\* records with consecutive sequence numbers follow: the offsets it visits are
\* the largest set in which every record is the one at the head or follows
\* another one of the set.
Grounded(s, R) ==
    \A o \in R :
        \/ o = 0 /\ Rotated(s.head, o).seq = s.next
        \/ \E p \in R : /\ o = p + Rotated(s.head, p).len
                        /\ Rotated(s.head, o).seq = Rotated(s.head, p).seq + 1
Run[s \in Superblocks] ==
    UNION {R \in SUBSET {o \in Offs : FrameAt(s.head, o)} : Grounded(s, R)}

\* The rebuilt wal_records, with physical offsets, and the end of the run.
RecoveredRecs(s) ==
    {[seq |-> Rotated(s.head, o).seq, ref |-> Rotated(s.head, o).ref,
      off |-> (s.head + o) % WalLen, flushed |-> FALSE] : o \in Run[s]}
RecoveredEnd(s) ==
    LET last == LastOf(Run[s])
    IN  IF Run[s] = {} THEN [tail |-> s.head, seq |-> s.next]
        ELSE [tail |-> (s.head + last + Rotated(s.head, last).len) % WalLen,
              seq  |-> Rotated(s.head, last).seq + 1]

\* Replay applies the records in order, so a file ends at its last one.
Replayed(s, r) ==
    [f \in Files |->
        LET mine == {o \in Run[s] : /\ Rotated(s.head, o).ref = r
                                    /\ Rotated(s.head, o).file = f}
        IN  IF mine = {} THEN None ELSE Rotated(s.head, LastOf(mine)).val]

-----------------------------------------------------------------------------
(* The engine *)

Dirty == {r \in Refs : overlay[r] # Clean}

\* The dirty files over a committed tree.
Over(ov, tree) == [f \in Files |-> IF ov[f] # None THEN ov[f] ELSE tree[f]]
View(r) == IF table.root[r] = None THEN None ELSE Over(overlay[r], table.root[r])

\* flush_ref for every ref of D that has an overlay: it becomes tree, and the
\* log records of that ref are marked flushed.
FlushedRoot(D) == [r \in Refs |-> IF r \in D THEN View(r) ELSE table.root[r]]

\* Mutant: every record is marked, whatever ref was flushed.
MarkAll(D) == {[x EXCEPT !.flushed = TRUE] : x \in recs}
\* Mutant: no record is marked.
MarkNone(D) == recs

MarkFlushed(D) ==
    {IF x.ref \in D \cap Dirty THEN [x EXCEPT !.flushed = TRUE] ELSE x : x \in recs}

\* The ref-table edit of the handler, after its flush: a new ref is empty, a
\* snapshot row names the flushed head, a rollback re-points the head.
Edited(t) ==
    CASE ret = "reply" /\ job.kind = "snapshot" ->
              [t EXCEPT !.snap = [r \in Refs |-> IF r \in job.ref THEN t.root[r]
                                                 ELSE t.snap[r]]]
      [] ret = "reply" /\ job.kind \in {"create", "rollback"} ->
              [t EXCEPT !.root = [r \in Refs |-> IF r \in job.ref THEN job.tree
                                                 ELSE t.root[r]]]
      [] OTHER -> t

\* What the handler makes of the content c of its ref.
Effect(c) == [f \in Files |-> IF f \in job.files THEN job.tree[f] ELSE c[f]]

\* The handler returns Ok: its effect is promised from here on.
Reply ==
    /\ pc = "reply"
    /\ pc' = "idle" /\ job' = NoJob
    /\ expect' = [r \in Refs |-> IF r \in job.ref THEN Effect(expect[r]) ELSE expect[r]]
    /\ maybe' = [r \in Refs |-> [f \in Files |->
                    IF r \in job.ref /\ f \in job.files THEN {} ELSE maybe[r][f]]]
    /\ UNCHANGED <<device, memory, ret, toflush, nOps, nCommits, nCrashes, nFaults>>

\* An operation that ends without Ok may or may not have taken effect.
Unpromised ==
    maybe' = [r \in Refs |-> [f \in Files |->
                 IF r \in job.ref /\ f \in job.files THEN maybe[r][f] \cup {job.tree[f]}
                 ELSE maybe[r][f]]]

Start(kind, R, F, t, len) ==
    /\ pc = "idle" /\ nOps + nFaults < MaxOps /\ kind \in Requests
    /\ nOps' = nOps + 1
    /\ job' = [kind |-> kind, ref |-> R, files |-> F, tree |-> t, len |-> len]
    /\ UNCHANGED <<nCommits, nCrashes, nFaults, expect, maybe>>

\* create_ref: an empty tree under a new name, committed.  Bound: refs are
\* created before the first other request, as mkfs does.
CreateRef(r) ==
    /\ pc = "idle" /\ table.root[r] = None /\ nOps = 0
    /\ job' = [NoJob EXCEPT !.kind = "create", !.ref = {r}, !.files = Files]
    /\ pc' = "flush" /\ ret' = "reply" /\ toflush' = {}
    /\ UNCHANGED <<device, memory, history>>

\* write, and log_then_apply up to the log: a record longer than the ring
\* goes to the overlay and is committed at once, any other is logged.
Write(r, f, len) ==
    /\ table.root[r] # None
    /\ Start("write", {r}, {f}, [EmptyTree EXCEPT ![f] = nOps + 1], len)
    /\ \/ /\ len > WalLen
          /\ overlay' = [overlay EXCEPT ![r][f] = nOps + 1]
          /\ pc' = "flush" /\ ret' = "reply" /\ toflush' = {r}
       \/ /\ len <= WalLen
          /\ pc' = "relieve"
          /\ UNCHANGED <<overlay, ret, toflush>>
    /\ UNCHANGED <<device, sb, live, table, recs, tail, seq>>

\* sync_ref of one ref, or sync_all.
Sync(R) ==
    /\ Start("sync", R, {}, EmptyTree, 0)
    /\ pc' = "flush" /\ ret' = "reply" /\ toflush' = R
    /\ UNCHANGED <<device, memory>>

Snapshot(r) ==
    /\ table.root[r] # None
    /\ Start("snapshot", {r}, {}, EmptyTree, 0)
    /\ pc' = "flush" /\ ret' = "reply" /\ toflush' = {r}
    /\ UNCHANGED <<device, memory>>

\* The snapshot row is looked up first; without one the call changes nothing.
Rollback(r) ==
    /\ table.snap[r] # None
    /\ Start("rollback", {r}, Files, table.snap[r], 0)
    /\ pc' = "flush" /\ ret' = "reply" /\ toflush' = {r}
    /\ UNCHANGED <<device, memory>>

\* One turn of the loop of relieve_wal_pressure: flush the ref of the oldest
\* record, commit, come back.
RelieveWalPressure ==
    /\ pc = "relieve" /\ ~ Comfortable(job.len) /\ nCommits < MaxCommits
    /\ pc' = "flush" /\ ret' = "relieve" /\ toflush' = {First(recs).ref}
    /\ UNCHANGED <<device, memory, job, history>>

\* The record is handed to the device at the tail.
WalWrite ==
    /\ pc = "relieve" /\ Comfortable(job.len)
    /\ \E r \in job.ref, f \in job.files :
          pend' = pend \o WalPieces(tail, Record(seq, r, f, job.tree[f], job.len))
    /\ pc' = "walsync"
    /\ UNCHANGED <<ring, slot, lost, unsynced, memory, ret, job, toflush, history>>

\* The one flush of wal_write; then the record is remembered and the overlay
\* sees the write.
WalSync ==
    /\ pc = "walsync"
    /\ Flush
    /\ \E r \in job.ref :
          /\ recs' = recs \cup {[seq |-> seq, off |-> tail, ref |-> r,
                                 flushed |-> FALSE]}
          /\ overlay' = [overlay EXCEPT ![r] = [f \in Files |->
                            IF f \in job.files THEN job.tree[f] ELSE overlay[r][f]]]
    /\ tail' = NextTail(job.len)
    /\ seq' = seq + 1
    /\ pc' = "triggers"
    /\ UNCHANGED <<lost, sb, live, table, ret, job, toflush, history>>

\* The per-ref bound, size pressure and staleness, in that order, each flush
\* some dirty refs and commit, or do nothing.  Which refs they pick depends
\* on byte counts and clocks: here it is any choice.
Triggers ==
    /\ pc = "triggers"
    /\ \/ pc' = "reply" /\ UNCHANGED <<ret, toflush>>
       \/ \E D \in SUBSET Dirty \ {{}} :
             pc' = "flush" /\ ret' = "triggers" /\ toflush' = D
    /\ UNCHANGED <<device, memory, job, history>>

\* flush_ref of the refs to flush, and the table edit of the handler.
FlushRefs ==
    /\ pc = "flush"
    /\ table' = Edited([table EXCEPT !.root = FlushedRoot(toflush)])
    /\ recs' = MarkFlushed(toflush)
    /\ overlay' = [r \in Refs |-> IF r \in toflush THEN Clean ELSE overlay[r]]
    /\ pc' = "put"
    /\ UNCHANGED <<device, sb, live, tail, seq, ret, job, toflush, history>>

\* commit: the ref table and the index frame are written.
CommitPut ==
    /\ pc = "put"
    /\ nCommits' = nCommits + 1
    /\ unsynced' = unsynced \cup {nCommits + 1}
    /\ pc' = "barrier1"
    /\ UNCHANGED <<ring, slot, lost, pend, memory, ret, job, toflush,
                   nOps, nCrashes, nFaults, expect, maybe>>

NewSb == [gen   |-> sb.gen + 1,      img   |-> nCommits, table |-> table,
          head  |-> AdvanceHead.head, next  |-> AdvanceHead.next]

\* Mutant: the superblock is written without waiting for the table.
NoBarrier1 == UNCHANGED <<ring, slot, unsynced>>

\* No superblock may reference chunks that are not durable.
Barrier1 == PersistRing(AllKept) /\ PersistSlots(AllKept) /\ unsynced' = {}

\* Barrier 1, then the head moves, then the superblock goes to the slot that
\* is not live.
CommitBarrier1 ==
    /\ pc = "barrier1"
    /\ Barrier1
    /\ recs' = AdvanceHead.rest
    /\ tail' = IF AdvanceHead.rest = {} THEN 0 ELSE tail
    /\ pend' = << SbWrite(CommitTarget(live), NewSb) >>
    /\ pc' = "barrier2"
    /\ UNCHANGED <<lost, sb, live, table, overlay, seq, ret, job, toflush, history>>

\* Barrier 2: the commit is real.
CommitBarrier2 ==
    /\ pc = "barrier2"
    /\ Flush
    /\ sb' = pend[Len(pend)].sb
    /\ live' = CommitTarget(live)
    /\ pc' = ret
    /\ UNCHANGED <<lost, table, overlay, recs, tail, seq, ret, job, toflush, history>>

-----------------------------------------------------------------------------
(* Device errors and a full chunk region: the handler returns Err at once,  *)
(* and the server goes on with the next request.  Bound: nothing fails      *)
(* while the refs are created.                                              *)

Fail(where) ==
    /\ where \in Faults /\ nOps > 0 /\ nOps + nFaults < MaxOps
    /\ nFaults < MaxFaults /\ nFaults' = nFaults + 1
    /\ pc' = "idle" /\ job' = NoJob
    /\ Unpromised
    /\ UNCHANGED <<ring, slot, lost, ret, toflush, nOps, nCommits, nCrashes, expect>>

\* The log write or its flush fails: none, some or all pieces are pending.
WalFails ==
    /\ pc = "walsync" /\ Fail("log")
    /\ LET n == Len(WalPieces(tail, [i \in 1 .. job.len |-> Blank]))
       IN  \E k \in 0 .. n : pend' = SubSeq(pend, 1, Len(pend) - k)
    /\ UNCHANGED <<unsynced, memory>>

\* flush_ref fails: the overlay was taken out of the map before the first
\* write, refs before it in the order are flushed, refs after it untouched.
FlushFails ==
    /\ pc = "flush" /\ Fail("flush")
    /\ \E r \in toflush \cap Dirty : \E done \in SUBSET (toflush \ {r}) :
          /\ table' = [table EXCEPT !.root = FlushedRoot(done)]
          /\ recs' = MarkFlushed(done)
          /\ overlay' = [x \in Refs |-> IF x \in done \cup {r} THEN Clean ELSE overlay[x]]
    /\ UNCHANGED <<pend, unsynced, sb, live, tail, seq>>

\* The table, the index frame or barrier 1 fails: nothing is referenced yet.
CommitFailsEarly ==
    /\ pc \in {"put", "barrier1"} /\ Fail("commit")
    /\ UNCHANGED <<pend, unsynced, memory>>

\* The superblock write or barrier 2 fails: the flushed records are already
\* popped and the tail already reset, the superblock in memory is the old one.
CommitFailsLate ==
    /\ pc = "barrier2" /\ Fail("superblock")
    /\ pend' \in {pend, <<>>}
    /\ UNCHANGED <<unsynced, memory>>

-----------------------------------------------------------------------------
(* Power loss and mount *)

Crash ==
    /\ pc # "down" /\ nCrashes < MaxCrashes
    /\ nCrashes' = nCrashes + 1
    /\ \E kept \in {f \in [DOMAIN pend -> 0 .. WalLen + 2] :
                        \A i \in DOMAIN pend : f[i] <= Units(pend[i])} :
          PersistRing(kept) /\ PersistSlots(kept)
    /\ lost' \in {lost \cup L : L \in SUBSET unsynced}
    /\ pend' = <<>> /\ unsynced' = {}
    /\ Unpromised
    /\ pc' = "down" /\ job' = NoJob /\ ret' = "reply" /\ toflush' = {}
    /\ sb' = [gen |-> 0, img |-> 0, table |-> EmptyTable, head |-> 0, next |-> 0]
    /\ live' = "A" /\ table' = EmptyTable
    /\ overlay' = [r \in Refs |-> Clean] /\ recs' = {} /\ tail' = 0 /\ seq' = 0
    /\ UNCHANGED <<nOps, nCommits, nFaults, expect>>

\* mount: the surviving superblock, its table, and the replay of the log.
Mount ==
    /\ pc = "down" /\ PickSurvivor # None
    /\ slot[PickSurvivor].img \notin lost
    /\ LET s == slot[PickSurvivor]
       IN  /\ sb' = s /\ live' = PickSurvivor /\ table' = s.table
           /\ overlay' = [r \in Refs |-> Replayed(s, r)]
           /\ recs' = RecoveredRecs(s)
           /\ tail' = RecoveredEnd(s).tail /\ seq' = RecoveredEnd(s).seq
    /\ pc' = "idle"
    /\ UNCHANGED <<device, ret, job, toflush, history>>

-----------------------------------------------------------------------------
\* format: empty table, generation 1 in slot A, the log empty from offset 0.
Init ==
    /\ ring = [p \in Offs |-> Blank]
    /\ sb = [gen |-> 1, img |-> 0, table |-> EmptyTable, head |-> 0, next |-> 1]
    /\ slot = [s \in Slots |-> IF s = "A" THEN sb ELSE None]
    /\ lost = {} /\ pend = <<>> /\ unsynced = {}
    /\ live = "A" /\ table = EmptyTable
    /\ overlay = [r \in Refs |-> Clean]
    /\ recs = {} /\ tail = 0 /\ seq = 1
    /\ pc = "idle" /\ ret = "reply" /\ job = NoJob /\ toflush = {}
    /\ nOps = 0 /\ nCommits = 0 /\ nCrashes = 0 /\ nFaults = 0
    /\ expect = [r \in Refs |-> Clean] /\ maybe = [r \in Refs |-> [f \in Files |-> {}]]

\* The steps the running handler takes by itself.
Step ==
    \/ RelieveWalPressure \/ WalWrite \/ WalSync \/ Triggers
    \/ FlushRefs \/ CommitPut \/ CommitBarrier1 \/ CommitBarrier2 \/ Reply

Failure == WalFails \/ FlushFails \/ CommitFailsEarly \/ CommitFailsLate

Request ==
    \/ \E r \in Refs : CreateRef(r)
    \/ \E r \in Refs, f \in Files, len \in RecLens : Write(r, f, len)
    \/ \E R \in {{r} : r \in Refs} \cup {Refs} : Sync(R)
    \/ \E r \in Refs : Snapshot(r) \/ Rollback(r)

Next == Request \/ Step \/ Failure \/ Crash \/ Mount

Spec == Init /\ [][Next]_vars

\* A handler that was entered runs on: the engine is one thread that never
\* waits inside a handler.  Nothing is assumed of clients, power or device.
FairSpec == Spec /\ WF_vars(Step) /\ WF_vars(Mount)

-----------------------------------------------------------------------------
(* Properties *)

TypeOK ==
    /\ ring \in [Offs -> Cells]
    /\ slot \in [Slots -> Superblocks \cup {None}]
    /\ lost \subseteq Nat /\ unsynced \subseteq Nat
    /\ pend \in Seq(Writes)
    /\ sb \in Superblocks /\ live \in Slots /\ table \in Tables
    /\ overlay \in [Refs -> [Files -> Vals \cup {None}]]
    /\ recs \subseteq Recs /\ tail \in Offs /\ seq \in Nat
    /\ pc \in Pcs /\ ret \in {"reply", "relieve", "triggers"}
    /\ job \in Jobs /\ toflush \subseteq Refs
    /\ nOps \in 0 .. MaxOps /\ nCrashes \in 0 .. MaxCrashes
    /\ nFaults \in 0 .. MaxFaults
    /\ nCommits \in Nat /\ expect \in [Refs -> [Files -> Vals \cup {None}]]
    /\ maybe \in [Refs -> [Files -> SUBSET Vals]]

\* What clients may read of a file: its last acknowledged content, or one that
\* an operation not acknowledged since then may have left.
Promised(r, f) == {expect[r][f]} \cup maybe[r][f]

\* Whatever power loss leaves, mount finds a valid superblock whose blocks are
\* on disk (pick_survivor and the "ref table missing" refusal of mount).
AlwaysMountable ==
    pc = "down" => /\ PickSurvivor # None
                   /\ slot[PickSurvivor].img \notin lost

\* The superblock write of a commit never touches the slot of the last commit
\* (commit_target), and a superblock that can win recovery, be it on disk or
\* still on its way, names blocks that are all on disk already (barrier 1).
\* No two valid slots have the same generation, so pick_survivor has no tie.
LiveSlotSafe ==
    /\ \A s \in Slots : slot[s] # None => slot[s].img \notin lost \cup unsynced
    /\ slot["A"] # None /\ slot["B"] # None => slot["A"].gen # slot["B"].gen
    /\ pc # "down" =>
          /\ slot[live] = sb
          /\ \A i \in DOMAIN pend : pend[i].what = "sb" =>
                /\ pend[i].at # live
                /\ pend[i].sb.gen = sb.gen + 1
                /\ pend[i].sb.img \notin lost \cup unsynced
    /\ pc = "down" => \E s \in Slots : slot[s] # None

\* The log in memory is the log on disk: what mount would replay is exactly
\* wal_records, record by record and in order, with the same tail and the same
\* next sequence number (what lemma_gap_freedom asks of the run, across the
\* wrap, and that no stale record is ever taken for a live one).
LogWindow ==
    pc \in {"idle", "relieve", "triggers", "put"} =>
        /\ RecoveredRecs(sb) = {[x EXCEPT !.flushed = FALSE] : x \in recs}
        /\ RecoveredEnd(sb) = [tail |-> tail, seq |-> seq]

\* What mount would recover if power went now and every pending write were
\* dropped.
Durable ==
    LET s == slot[PickSurvivor]
    IN  [r \in Refs |-> IF s.table.root[r] = None THEN Clean
                        ELSE Over(Replayed(s, r), s.table.root[r])]

\* The headline invariant of store.rs, "after any crash, every acknowledged
\* write is recoverable from durable state alone": at every moment the durable
\* state alone gives every file its last acknowledged content, or a later one
\* of an operation that failed, was interrupted or is still running.
AckedRecoverable ==
    \A r \in Refs, f \in Files :
        \/ Durable[r][f] \in Promised(r, f)
        \/ r \in job.ref /\ f \in job.files /\ Durable[r][f] = job.tree[f]

\* Between requests a reader sees what a power loss would leave, for every
\* ref: the overlay over the tree and the replayed log over the committed
\* tree are the same content.
ReadsAreDurable == pc = "idle" => \A r \in Refs : table.root[r] # None => View(r) = Durable[r]

\* Memory and disk agree: the log, what was acknowledged, and what readers see.
StoreSound == LogWindow /\ AckedRecoverable /\ ReadsAreDurable

\* The engine implements a crash-proof array of registers (DurableRefs): the
\* content is what the durable state alone gives back, and it changes only in
\* one step of the one operation in progress.
Abstract == INSTANCE DurableRefs WITH
    content <- Durable,
    op <- IF job.files # {}
          THEN [ref |-> CHOOSE r \in job.ref : TRUE, files |-> job.files,
                tree |-> job.tree]
          ELSE None
Implements == Abstract!Spec

\* Relief makes progress: the flush of the ref that pins the log covers the
\* front record, so that the commit that follows pops it (relieve_wal_pressure:
\* "commit pops at least that front record, usage strictly shrinks").
ReliefPopsFront ==
    pc \in {"put", "barrier1"} /\ ret = "relieve" => recs # {} /\ First(recs).flushed

\* Every request is answered: relieve_wal_pressure leaves its loop and no
\* handler runs for ever.
EveryRequestAnswered == (pc \notin {"idle", "down"}) ~> (pc \in {"idle", "down"})
=============================================================================
