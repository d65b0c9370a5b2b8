------------------------------ MODULE Intervals ------------------------------
(***************************************************************************)
(* The dirty bytes of one file: a map from offsets to runs of bytes, of    *)
(* which a write trims or removes those it overlaps (cas/src/overlay.rs,   *)
(* FileOverlay).  A byte is the number of the write it came from.          *)
(***************************************************************************)
EXTENDS Integers, Sequences, SequencesExt, FiniteSets, FiniteSetsExt, Functions

CONSTANTS
    MaxEnd,      \* no write ends behind it
    MaxWrites,
    MinLen,      \* the shortest write a client makes
    BaseLens     \* how long the file below may be

VARIABLES
    writes,      \* offset -> run
    bytes,       \* the running count the insertions return
    base,        \* the file below
    fresh,       \* and whether it is ignored
    file,        \* the bytes of the file, each write made on it directly
    n

vars == <<writes, bytes, base, fresh, file, n>>

End(k) == k + Len(writes[k])

Set(w, k, run) == [x \in DOMAIN w \cup {k} |-> IF x = k THEN run ELSE w[x]]

\* From the last run that begins before the end, backwards, as long as they
\* reach behind the offset.
Overlapping(off, end) ==
    LET before == {k \in DOMAIN writes : k < end} IN
    {k \in before : \A j \in before : j >= k => End(j) > off}

\* Mutant: the part of a run behind the write is dropped.
KeepTail(w, k, run, off, end) == IF k < off THEN Set(w, k, SubSeq(run, 1, off - k)) ELSE w

\* What is left of a run on either side of the write.
Keep(w, k, run, off, end) ==
    LET left == IF k < off THEN Set(w, k, SubSeq(run, 1, off - k)) ELSE w IN
    IF k + Len(run) > end THEN Set(left, end, SubSeq(run, end - k + 1, Len(run))) ELSE left

Insert(off, run) ==
    LET end == off + Len(run)
        hit == Overlapping(off, end)
        cut == FoldSet(LAMBDA k, w : Keep(w, k, writes[k], off, end), Restrict(writes, DOMAIN writes \ hit), hit)
    IN  Set(cut, off, run)

\* Mutant: what is kept of the runs hit is not counted.
DeltaPerHit(off, run) ==
    LET hit == Overlapping(off, off + Len(run)) IN
    Len(run) - SumSet({Len(writes[k]) : k \in hit})

\* What the insertion returns: the new bytes, less those of the runs it hit,
\* plus what it kept of them.
Delta(off, run) ==
    LET end == off + Len(run)
        Kept(k) == (IF k < off THEN off - k ELSE 0) + (IF End(k) > end THEN End(k) - end ELSE 0)
    IN  Len(run) + FoldSet(LAMBDA k, d : d - Len(writes[k]) + Kept(k), 0, Overlapping(off, end))

\* The content: the file below, or none, with every run laid over it and zeros
\* in between.
Laid(content, off, run) ==
    [i \in 1 .. Max({Len(content), off + Len(run)}) |->
        IF i \in off + 1 .. off + Len(run) THEN run[i - off]
        ELSE IF i <= Len(content) THEN content[i] ELSE 0]
Apply(below) ==
    FoldLeft(LAMBDA c, k : Laid(c, k, writes[k]), IF fresh THEN <<>> ELSE below,
             SetToSortSeq(DOMAIN writes, <))

Extent == IF writes = <<>> THEN 0 ELSE Max({End(k) : k \in DOMAIN writes})

-----------------------------------------------------------------------------

Init ==
    /\ writes = <<>> /\ bytes = 0 /\ n = 0
    /\ \E len \in BaseLens : base = [i \in 1 .. len |-> 100]
    /\ fresh \in BOOLEAN
    /\ file = IF fresh THEN <<>> ELSE base

Write(off, len) ==
    LET run == [i \in 1 .. len |-> n + 1] IN
    /\ n < MaxWrites /\ n' = n + 1
    /\ writes' = Insert(off, run)
    /\ bytes' = Max({bytes + Delta(off, run), 0})
    /\ file' = Laid(file, off, run)
    /\ UNCHANGED <<base, fresh>>

Next == \E off \in 0 .. MaxEnd - 1 : \E len \in MinLen .. MaxEnd - off : Write(off, len)

Spec == Init /\ [][Next]_vars

-----------------------------------------------------------------------------
(* Properties. *)

\* However writes overlap, the file read through the overlay (FileOverlay::apply)
\* is the one the writes would have made, gaps filled with zeros; and a fresh
\* file's length, which a listing shows, is that of its last run.
LastWriteWins == Apply(base) = file /\ (fresh => Extent = Len(file))

\* The runs stay apart, and the running count of bytes is what they hold: what
\* insert returns never drifts, so that its clamp at zero is never needed.
CountExact ==
    /\ \A j, k \in DOMAIN writes : j < k => End(j) <= k
    /\ bytes = FoldFunction(LAMBDA run, s : s + Len(run), 0, writes)
=============================================================================
