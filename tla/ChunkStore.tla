----------------------------- MODULE ChunkStore -----------------------------
(***************************************************************************)
(* Where objects lie on the device (cas/src/store.rs, ChunkStore): the     *)
(* allocator, the index and the free list that a commit writes as a frame  *)
(* of their own, the two superblocks, and the collector.  The device keeps *)
(* writes until a flush: a crash leaves each unflushed write done or torn, *)
(* and a call of the device may fail.  The region is a row of cells, and   *)
(* an object fills one or more.  A reference table is an object too: it    *)
(* names trees, which have chunks.                                         *)
(***************************************************************************)
EXTENDS Integers, Sequences, SequencesExt, FiniteSets, FiniteSetsExt, Functions, TLC

CONSTANTS
    Trees,            \* what a reference can point at
    Parts(_),         \* the objects of a tree in the order they are stored
    Size(_),          \* the cells of an object
    Region,           \* the cells of the device
    PerCell,          \* rows of the index and the free list that fit a cell
    MaxGen, MaxEdits, MaxFails, MaxCrashes

VARIABLES
    m,        \* the store in memory
    disk,     \* what every cell reads as
    sure,     \* the cells flushed since they were written
    slot,     \* slot -> the superblocks that may be found there; the last is the
              \* one written last, and a flush leaves only that one
    pc, after, \* where commit is, and what follows it
    edits, fails, crashes,
    twice     \* the index extent was made pending again by a commit that was tried
              \* again after it had failed (history)

vars == <<m, disk, sure, slot, pc, after, edits, fails, crashes, twice>>

Cells(e) == e[1] .. e[1] + e[2] - 1
With(f, k, v) == [x \in DOMAIN f \cup {k} |-> IF x = k THEN v ELSE f[x]]
Without(f, S) == Restrict(f, DOMAIN f \ S)

\* An object is named by what it contains.
Object(name, roots, version) == [name |-> name, roots |-> roots, version |-> version]
Table(roots, version) == Object("table", roots, version)
Need(h) == IF h.name = "table" THEN 1 ELSE Size(h.name)
NoBlock == [gen |-> 0, table |-> Table({}, 0), tail |-> 0, indexOff |-> 0]
PartsOf(t) == [i \in DOMAIN Parts(t) |-> Object(Parts(t)[i], {}, 0)]

-----------------------------------------------------------------------------
(* Allocation. *)

Fits(s, need) == {o \in DOMAIN s.free : s.free[o] >= need}

\* First fit among the committed-free extents, else the tail moves.
CanAlloc(s, need) == Fits(s, need) # {} \/ s.tail + need <= Region
AllocAt(s, need) == IF Fits(s, need) # {} THEN Min(Fits(s, need)) ELSE s.tail
\* Mutant: the rest of the extent is lost.
AllocLeaks(s, need) ==
    IF Fits(s, need) = {} THEN [s EXCEPT !.tail = @ + need]
    ELSE [s EXCEPT !.free = Without(@, {AllocAt(s, need)})]

Alloc(s, need) ==
    IF Fits(s, need) = {} THEN [s EXCEPT !.tail = @ + need]
    ELSE LET o == AllocAt(s, need) IN
         [s EXCEPT !.free = IF s.free[o] = need THEN Without(@, {o})
                            ELSE With(Without(@, {o}), o + need, s.free[o] - need)]

\* Free and pending extents by offset; those that touch become one.
Joined(acc, e) ==
    IF acc.cur # <<>> /\ acc.cur[1] + acc.cur[2] = e[1]
    THEN [acc EXCEPT !.cur[2] = @ + e[2]]
    ELSE [cur |-> e, out |-> IF acc.cur = <<>> THEN acc.out
                             ELSE With(acc.out, acc.cur[1], acc.cur[2])]
Closed(acc) == IF acc.cur = <<>> THEN acc.out ELSE With(acc.out, acc.cur[1], acc.cur[2])
MergedFree(s) ==
    LET Pending(o) == {i \in DOMAIN s.pending : s.pending[i][1] = o}
        Lens(o)    == {s.free[p] : p \in DOMAIN s.free \cap {o}} \cup {s.pending[i][2] : i \in Pending(o)}
        Twice(o)   == Cardinality(DOMAIN s.free \cap {o}) + Cardinality(Pending(o)) > 1
        Step(acc, o) ==
            IF Lens(o) = {} THEN acc
            ELSE LET first == Joined(acc, <<o, Min(Lens(o))>>)
                 IN  IF Twice(o) THEN Joined(first, <<o, Max(Lens(o))>>) ELSE first
    IN  Closed(FoldLeft(Step, [cur |-> <<>>, out |-> <<>>], [i \in 1 .. Region |-> i - 1]))

\* The frame is sized before its own extent is carved from the free list.
FrameNeed(s) == 1 + (Cardinality(DOMAIN s.index) + Cardinality(DOMAIN s.free) + Len(s.pending) + 1) \div PerCell

-----------------------------------------------------------------------------
(* The device. *)

Fill(d, ext, what) == [c \in DOMAIN d |-> IF c \in Cells(ext) THEN <<what, c - ext[1]>> ELSE d[c]]
Holds(ext, what) == \A c \in Cells(ext) : disk[c] = <<what, c - ext[1]>>

-----------------------------------------------------------------------------
(* Objects.  put never fails: an error is left for the caller to look up when *)
(* it is done, and the puts that follow go ahead.                             *)

Present(s, h) == h \in DOMAIN s.index /\ h \notin s.condemned

\* a is the state of memory and device; the write fails if bad.
Put(a, h, bad) ==
    LET ext == <<AllocAt(a.m, Need(h)), Need(h)>>
        s   == [a.m EXCEPT !.condemned = @ \ {h}]
    IN  IF Present(a.m, h) THEN a
        ELSE IF ~CanAlloc(a.m, Need(h)) THEN [a EXCEPT !.m = s, !.err = TRUE]
        ELSE IF bad THEN [a EXCEPT !.m = Alloc(s, Need(h)), !.err = TRUE]
        ELSE [m    |-> [Alloc(s, Need(h)) EXCEPT !.index = With(@, h, [ext |-> ext, birth |-> s.birth])],
              disk |-> Fill(a.disk, ext, h),
              sure |-> a.sure \ Cells(ext),
              err  |-> a.err]

Now(s) == [m |-> s, disk |-> disk, sure |-> sure, err |-> FALSE]
Stored(t, bad) ==
    FoldLeft(LAMBDA a, h : Put(a, h, h \in bad), Now(m), PartsOf(t))

\* flush_ref: the objects of the new tree, and then the reference, if nothing failed.
FlushRef(t, bad) ==
    /\ pc = "idle" /\ t \notin m.roots
    /\ edits < MaxEdits /\ edits' = edits + 1
    /\ fails + Cardinality(bad) <= MaxFails
    /\ LET a == Stored(t, bad) IN
       /\ m' = IF a.err THEN a.m ELSE [a.m EXCEPT !.roots = @ \cup {t}, !.dirty = TRUE]
       /\ disk' = a.disk /\ sure' = a.sure
    /\ fails' = fails + Cardinality(bad)
    /\ UNCHANGED <<slot, pc, after, crashes, twice>>

\* The reference moves on, or a snapshot is deleted.
Forget(t) ==
    /\ pc = "idle" /\ t \in m.roots
    /\ edits < MaxEdits /\ edits' = edits + 1
    /\ m' = [m EXCEPT !.roots = @ \ {t}, !.dirty = TRUE]
    /\ UNCHANGED <<disk, sure, slot, pc, after, fails, crashes, twice>>

-----------------------------------------------------------------------------
(* commit. *)

Live == IF m.inB THEN "B" ELSE "A"
Target == IF m.inB THEN "A" ELSE "B"

\* The table, if it changed, under the next version.
Tabled(s, bad) ==
    LET ver == IF s.dirty THEN s.version + 1 ELSE s.version
    IN  Put(Now([s EXCEPT !.dirty = FALSE, !.version = ver]), Table(s.roots, ver), bad = "table")

\* The old index extent is among the pending ones.
Listed(a) == [a.m EXCEPT !.pending = Append(@, a.m.indexExt)]

\* The index frame, in an extent carved from the free space it lists; an error
\* returns with what was done so far in memory.
Framed(a, b, need, bad) ==
    LET ext   == <<AllocAt(b, need), need>>
        c     == Alloc(b, need)
        frame == [index |-> c.index, free |-> MergedFree(c), len |-> need]
        sb    == [gen |-> b.gen + 1, table |-> Table(b.roots, b.version), tail |-> c.tail, indexOff |-> ext[1]]
    IN  IF a.err THEN a
        ELSE IF ~CanAlloc(b, need) THEN [a EXCEPT !.err = TRUE, !.m = b]
        ELSE IF bad = "frame" THEN [a EXCEPT !.err = TRUE, !.m = c]
        ELSE [a EXCEPT !.m    = [c EXCEPT !.newSb = sb, !.newFree = frame.free, !.newExt = ext],
                       !.disk = Fill(@, ext, frame),
                       !.sure = @ \ Cells(ext)]
Prepared(a, bad) == Framed(a, Listed(a), FrameNeed(Listed(a)), bad)

Goes(a, next) ==
    /\ fails' = fails + (IF a.err THEN 1 ELSE 0) /\ fails' <= MaxFails
    /\ m' = a.m /\ disk' = a.disk /\ sure' = a.sure
    /\ pc' = IF a.err THEN "idle" ELSE "barrier1"
    /\ after' = IF a.err THEN "return" ELSE next
    /\ twice' = (twice \/ Cardinality({i \in DOMAIN a.m.pending : a.m.pending[i] = a.m.indexExt}) > 1)
    /\ UNCHANGED <<slot, edits, crashes>>
Prepare(s, bad, next) == s.gen < MaxGen /\ Goes(Prepared(Tabled(s, bad), bad), next)

Commit(bad) == pc = "idle" /\ Prepare(m, bad, "return")

Flushed == [s \in DOMAIN slot |-> <<Last(slot[s])>>]
GiveUp == pc' = "idle" /\ after' = "return" /\ fails' = fails + 1 /\ fails' <= MaxFails

\* Nothing the superblock names may still be in the device's cache.
Barrier1 ==
    /\ pc = "barrier1"
    /\ \/ /\ sure' = DOMAIN disk
          /\ slot' = [Flushed EXCEPT ![Target] = Append(@, m.newSb)]
          /\ pc' = "barrier2"
          /\ UNCHANGED <<after, fails>>
       \/ GiveUp /\ UNCHANGED <<sure, slot>>
    /\ UNCHANGED <<m, disk, edits, crashes, twice>>

\* The superblock is there, and what this commit freed can be used.
Flipped(s) ==
    [s EXCEPT !.gen = s.newSb.gen, !.inB = ~@, !.birth = s.newSb.gen + 1, !.table = s.newSb.table,
              !.free = s.newFree, !.pending = <<>>, !.indexExt = s.newExt,
              !.newSb = NoBlock, !.newFree = <<>>, !.newExt = <<0, 0>>]
Barrier2 ==
    /\ pc = "barrier2"
    /\ \/ /\ slot' = Flushed
          /\ m' = LET s == Flipped(m) IN IF after = "gcdone" THEN [s EXCEPT !.condemned = {}] ELSE s
          /\ pc' = IF after = "sweep" THEN "sweep" ELSE "idle"
          /\ after' = "return"
          /\ UNCHANGED fails
       \/ GiveUp /\ UNCHANGED <<m, slot>>
    /\ UNCHANGED <<disk, sure, edits, crashes, twice>>

-----------------------------------------------------------------------------
(* The collector. *)

Gc(bad) == pc = "idle" /\ Prepare(m, bad, "sweep")

\* Everything the references name; the newest superblock names the table.
Marked(s) == {s.table} \cup UNION {Range(PartsOf(t)) : t \in s.roots}
Condemned(s) == {h \in DOMAIN s.index \ Marked(s) : s.index[h].birth < s.birth}
\* Mutant: the space of the chunks that go is free before the commit.
SweptNow(s) ==
    [s EXCEPT !.condemned = Condemned(s),
              !.index = Without(@, Condemned(s)),
              !.free = [o \in DOMAIN @ \cup {s.index[h].ext[1] : h \in Condemned(s)} |->
                           IF o \in DOMAIN @ THEN @[o]
                           ELSE s.index[CHOOSE h \in Condemned(s) : s.index[h].ext[1] = o].ext[2]]]

Swept(s) ==
    [s EXCEPT !.condemned = Condemned(s),
              !.index = Without(@, Condemned(s)),
              !.pending = @ \o SetToSeq({s.index[h].ext : h \in Condemned(s)})]

Sweep(bad) == pc = "sweep" /\ Prepare(Swept(m), bad, "gcdone")

-----------------------------------------------------------------------------
(* Crash and mount.  The slot that was not flushed may hold any of the blocks *)
(* written to it, or none that is valid.                                      *)

Survivors == {b \in Range(slot[Live]) \cup Range(slot[Target]) : b.gen >= m.gen}
Torn(c) == <<Object("torn", {}, 0), c>>

Mounted(b, inB) ==
    LET frame == disk[b.indexOff][1] IN
    [gen |-> b.gen, inB |-> inB, birth |-> b.gen + 1, table |-> b.table, tail |-> b.tail,
     index |-> frame.index, free |-> frame.free, pending |-> <<>>,
     indexExt |-> <<b.indexOff, frame.len>>, condemned |-> {},
     roots |-> b.table.roots, version |-> b.table.version, dirty |-> FALSE,
     newSb |-> NoBlock, newFree |-> <<>>, newExt |-> <<0, 0>>]

Crash ==
    /\ crashes < MaxCrashes
    /\ \E torn \in {{}, DOMAIN disk \ sure} :
          disk' = [c \in DOMAIN disk |-> IF c \in torn THEN Torn(c) ELSE disk[c]]
    /\ sure' = DOMAIN disk
    /\ \E b \in Survivors :
          /\ m' = Mounted(b, IF b \in Range(slot[Live]) THEN m.inB ELSE ~m.inB)
          /\ slot' = IF b \in Range(slot[Live]) THEN [slot EXCEPT ![Live] = <<b>>, ![Target] = <<NoBlock>>]
                     ELSE [slot EXCEPT ![Target] = <<b>>, ![Live] = <<Last(@)>>]
    /\ pc' = "idle" /\ after' = "return" /\ crashes' = crashes + 1
    /\ UNCHANGED <<edits, fails, twice>>

-----------------------------------------------------------------------------

\* mkfs: an empty table and its index.
EmptyTable == Table({}, 0)
FirstFrame == [index |-> (EmptyTable :> [ext |-> <<0, 1>>, birth |-> 1]), free |-> <<>>, len |-> 1]
FirstBlock == [gen |-> 1, table |-> EmptyTable, tail |-> 2, indexOff |-> 1]

Init ==
    /\ disk = [c \in 0 .. Region - 1 |-> IF c = 0 THEN <<EmptyTable, 0>>
                                         ELSE IF c = 1 THEN <<FirstFrame, 0>> ELSE Torn(c)]
    /\ sure = DOMAIN disk
    /\ slot = [s \in {"A", "B"} |-> IF s = "A" THEN <<FirstBlock>> ELSE <<NoBlock>>]
    /\ m = Mounted(FirstBlock, FALSE)
    /\ pc = "idle" /\ after = "return"
    /\ edits = 0 /\ fails = 0 /\ crashes = 0 /\ twice = FALSE

Faults == {"none", "table", "frame"}

Next ==
    \/ \E t \in Trees : Forget(t) \/ \E bad \in SUBSET Range(PartsOf(t)) : FlushRef(t, bad)
    \/ \E bad \in Faults : Commit(bad) \/ Gc(bad) \/ Sweep(bad)
    \/ Barrier1
    \/ Barrier2
    \/ Crash

Spec == Init /\ [][Next]_vars

-----------------------------------------------------------------------------
(* Properties. *)

Stable(ext, what) == Holds(ext, what) /\ Cells(ext) \subseteq sure

\* Whichever superblock a crash at this moment would leave, the index frame it
\* points at, its table and every object its references name are on the device
\* whole and flushed: commit writes only to space free in the durable commit and
\* frees nothing before the flip.  Excepted is what follows when a commit is tried
\* again after it failed: the old index extent is then pending twice, becomes free
\* twice, and two objects may be given it.
CommittedReadable ==
    twice \/ \A b \in Survivors :
        LET frame == disk[b.indexOff][1] IN
        /\ Stable(<<b.indexOff, frame.len>>, frame)
        /\ \A h \in {b.table} \cup UNION {Range(PartsOf(t)) : t \in b.table.roots} :
              h \in DOMAIN frame.index /\ Stable(frame.index[h].ext, h)

Owners(c) ==
    Cardinality({h \in DOMAIN m.index : c \in Cells(m.index[h].ext)})
    + Cardinality({o \in DOMAIN m.free : c \in Cells(<<o, m.free[o]>>)})
    + Cardinality({i \in DOMAIN m.pending : c \in Cells(m.pending[i])})
    + (IF c \in Cells(m.indexExt) /\ m.indexExt \notin Range(m.pending) THEN 1 ELSE 0)
    + (IF pc \in {"barrier1", "barrier2"} /\ c \in Cells(m.newExt) THEN 1 ELSE 0)

\* Space below the tail is an object's, the index frame's, free, or about to be
\* free, and only one of them, with the same exception; while nothing has failed,
\* none of it is lost.
SpaceAccounted ==
    \A c \in 0 .. Region - 1 :
        IF c < m.tail THEN (twice \/ Owners(c) <= 1) /\ (fails = 0 => Owners(c) >= 1) ELSE Owners(c) = 0
=============================================================================
