----------------------------- MODULE FileContent -----------------------------
(***************************************************************************)
(* What the store keeps of one file: short contents inside the directory   *)
(* entry, longer ones as a list of chunks whose ends the bytes themselves  *)
(* decide (cas/src/chunk.rs, cas/src/file.rs).  A flush chunks again only  *)
(* the neighbourhood of what changed, and a streaming chunker sees the     *)
(* bytes in pieces; both are compared with chunking the whole.             *)
(*                                                                         *)
(* The gear fingerprint restarts at every chunk, `min` bytes into it, so   *)
(* "a chunk ends here" is any predicate of the bytes from there on; Init   *)
(* chooses it.  A hash is what it is the hash of.                          *)
(***************************************************************************)
EXTENDS Integers, Sequences, SequencesExt

CONSTANTS
    Byte,
    INLINE_MAX,
    MinChunk, MaxChunk,     \* the smallest and the largest chunk (ChunkerParams)
    MaxLen,       \* the longest file
    MaxEdits

VARIABLES
    ends,     \* the windows of bytes behind which a chunk ends
    data,     \* the file's bytes
    content,  \* what its directory entry holds
    store,    \* the chunks and chunk lists that were put
    buf,      \* the streaming chunker's bytes without a cut
    out,      \* the chunks it has given out
    fed,      \* the bytes it was given
    edits

vars == <<ends, data, content, store, buf, out, fed, edits>>

Windows == UNION {[1 .. n -> Byte] : n \in 1 .. MaxChunk - MinChunk}

Smaller(a, b) == IF a < b THEN a ELSE b
From(s, n) == SubSeq(s, n + 1, Len(s))

-----------------------------------------------------------------------------
(* chunk.rs *)

\* Mutant: the end of what was read so far ends the chunk.
FindBoundaryTooSoon(s) ==
    LET scanEnd == Smaller(Len(s), MaxChunk)
        hits    == {p \in MinChunk + 1 .. scanEnd : SubSeq(s, MinChunk + 1, p) \in ends}
    IN  IF hits # {} THEN CHOOSE p \in hits : \A h \in hits : p <= h
        ELSE IF Len(s) > MinChunk THEN scanEnd ELSE 0

\* The length of the first chunk of s, or 0 when s does not decide it yet.
FindBoundary(s) ==
    LET scanEnd == Smaller(Len(s), MaxChunk)
        hits    == {p \in MinChunk + 1 .. scanEnd : SubSeq(s, MinChunk + 1, p) \in ends}
    IN  IF hits # {} THEN CHOOSE p \in hits : \A h \in hits : p <= h
        ELSE IF Len(s) >= MaxChunk THEN MaxChunk ELSE 0

NextCut(s) == IF FindBoundary(s) = 0 THEN Len(s) ELSE FindBoundary(s)

RECURSIVE Chunks(_)
Chunks(s) == IF s = <<>> THEN <<>>
             ELSE <<SubSeq(s, 1, NextCut(s))>> \o Chunks(From(s, NextCut(s)))

\* Chunker::push : what can be cut off, and what stays behind.
RECURSIVE Cut(_)
Cut(s) == LET n == FindBoundary(s)
          IN  IF n = 0 THEN [chunks |-> <<>>, rest |-> s]
              ELSE LET more == Cut(From(s, n))
                   IN  [more EXCEPT !.chunks = <<SubSeq(s, 1, n)>> \o @]

Push(piece) ==
    /\ LET cut == Cut(buf \o piece)
       IN  /\ out' = out \o cut.chunks
           /\ buf' = cut.rest
    /\ fed' = fed \o piece
    /\ UNCHANGED <<ends, data, content, store>>

\* Chunker::flush, after which the chunker is gone.
Flushed == IF buf = <<>> THEN out ELSE Append(out, buf)

-----------------------------------------------------------------------------
(* file.rs *)

Inline(s) == [kind |-> "inline", bytes |-> s]
List(chunks) == [kind |-> "list", refs |-> [i \in DOMAIN chunks |-> <<chunks[i], Len(chunks[i])>>]]

\* The new content and what is put into the store for it.
Stored(c, chunks) == [content |-> c, chunks |-> chunks]
Lists(c) == IF c.kind = "list" THEN {c} ELSE {}

StoreFile(s) ==
    IF Len(s) <= INLINE_MAX THEN Stored(Inline(s), {})
    ELSE Stored(List(Chunks(s)), ToSet(Chunks(s)))

CommonSuffixLen(a, b) ==
    CHOOSE k \in 0 .. Smaller(Len(a), Len(b)) :
        /\ \A i \in 0 .. k - 1 : a[Len(a) - i] = b[Len(b) - i]
        /\ k < Smaller(Len(a), Len(b)) => a[Len(a) - k] # b[Len(b) - k]

RECURSIVE TotalLen(_)
TotalLen(refs) == IF refs = <<>> THEN 0 ELSE Head(refs)[2] + TotalLen(Tail(refs))

\* Mutant: the chunk before the changed one is kept as well.
ResumeIndexLast(cuts, firstDirty) ==
    Cardinality({i \in DOMAIN cuts : cuts[i] <= firstDirty}) - 1

\* How many old chunks are kept as they are: all before the one that precedes
\* the one that holds the first changed byte.
ResumeIndex(cuts, firstDirty) ==
    LET containing == Cardinality({i \in DOMAIN cuts : cuts[i] <= firstDirty}) - 1
    IN  IF containing = 0 THEN 0 ELSE containing - 1

\* Mutant: a cut at the same distance from the end is enough.
RejoinsByLength(pos, new, old, cuts) ==
    LET off == pos - (Len(new) - Len(old))
    IN  {j \in DOMAIN cuts : off >= 0 /\ cuts[j] = off}

\* The old cut at which everything that follows is as it was, if there is one.
Rejoins(pos, new, old, cuts) ==
    LET off == pos - (Len(new) - Len(old))
    IN  {j \in DOMAIN cuts :
            pos >= Len(new) - CommonSuffixLen(new, old) /\ off >= 0 /\ cuts[j] = off}

RECURSIVE Rechunk(_, _, _, _, _)
Rechunk(pos, new, old, refs, cuts) ==
    IF Rejoins(pos, new, old, cuts) # {}
    THEN LET j == CHOOSE x \in Rejoins(pos, new, old, cuts) : TRUE
         IN  [fresh |-> <<>>, kept |-> From(refs, j - 1)]
    ELSE LET n    == NextCut(From(new, pos))
             more == Rechunk(pos + n, new, old, refs, cuts)
         IN  [more EXCEPT !.fresh = <<SubSeq(new, pos + 1, pos + n)>> \o @]

\* store_file_neighborhood
StoreNeighbourhood(oldContent, old, new, firstDirty) ==
    IF Len(new) <= INLINE_MAX THEN Stored(Inline(new), {})
    ELSE IF oldContent.kind # "list" \/ oldContent \notin store.lists THEN StoreFile(new)
    ELSE LET refs == oldContent.refs
             cuts == [i \in 1 .. Len(refs) + 1 |-> TotalLen(SubSeq(refs, 1, i - 1))]
             keep == ResumeIndex(cuts, firstDirty)
             re   == Rechunk(cuts[keep + 1], new, old, refs, cuts)
             list == [kind |-> "list",
                      refs |-> SubSeq(refs, 1, keep) \o List(re.fresh).refs \o re.kept]
         IN  Stored(list, ToSet(re.fresh))

\* read_file : the bytes, or a failure.
Failed == [kind |-> "failed"]
Bytes(s) == [kind |-> "bytes", bytes |-> s]

ReadFile(c, size) ==
    IF c.kind = "inline" THEN IF Len(c.bytes) = size THEN Bytes(c.bytes) ELSE Failed
    ELSE LET all == FlattenSeq([i \in DOMAIN c.refs |-> c.refs[i][1]])
         IN  IF \/ c \notin store.lists
                \/ \E i \in DOMAIN c.refs : \/ c.refs[i][1] \notin store.chunks
                                            \/ Len(c.refs[i][1]) # c.refs[i][2]
                \/ Len(all) # size
             THEN Failed
             ELSE Bytes(all)

-----------------------------------------------------------------------------
(* The flush of one write (or of two that the overlay joined). *)

\* FileOverlay::apply : the file grows to hold the write, with zeroes between.
Zero == CHOOSE z \in Byte : \A b \in Byte : z <= b
Patched(s, off, b) ==
    [i \in 1 .. (IF off + Len(b) > Len(s) THEN off + Len(b) ELSE Len(s)) |->
        IF i > off /\ i <= off + Len(b) THEN b[i - off] ELSE IF i <= Len(s) THEN s[i] ELSE Zero]

Flush(off, b) ==
    /\ off + Len(b) <= MaxLen
    /\ LET new == Patched(data, off, b)
           did == StoreNeighbourhood(content, data, new, off)
       IN  /\ data' = new
           /\ content' = did.content
           /\ store' = [chunks |-> store.chunks \cup did.chunks,
                        lists |-> store.lists \cup Lists(did.content)]
    /\ UNCHANGED <<ends, buf, out, fed>>

\* A file made anew, after an unlink or by create.
Make(b) ==
    /\ data' = b
    /\ content' = StoreFile(b).content
    /\ store' = [chunks |-> StoreFile(b).chunks, lists |-> Lists(StoreFile(b).content)]
    /\ UNCHANGED <<ends, buf, out, fed>>

Pieces == {<<b>> : b \in Byte} \cup {<<a, b>> : a, b \in Byte}
Files == [1 .. MaxLen - 1 -> Byte]

Init ==
    /\ ends \in SUBSET Windows
    /\ data = <<>> /\ content = Inline(<<>>) /\ store = [chunks |-> {}, lists |-> {}]
    /\ buf = <<>> /\ out = <<>> /\ fed = <<>> /\ edits = 0

Next ==
    \/ /\ data = <<>> /\ Len(fed) < MaxLen
       /\ \E p \in Pieces : Push(p)
       /\ UNCHANGED edits
    \/ /\ fed = <<>> /\ edits < MaxEdits
       /\ edits' = edits + 1
       /\ \/ \E off \in 0 .. MaxLen, p \in Pieces : Flush(off, p)
          \/ data = <<>> /\ \E f \in Files : Make(f)

Spec == Init /\ [][Next]_vars

-----------------------------------------------------------------------------
(* Properties. *)

\* Whatever edits made a file, what the store keeps of it is what chunking the
\* whole file anew would give (store_file_neighborhood: "byte-for-byte the
\* canonical chunking of `new`"), so equal files share their chunks.
Canonical == content = StoreFile(data).content

\* The chunks that were kept and the ones that were put are all there, and give
\* the file's bytes.
ReadsBack == ReadFile(content, Len(data)) = Bytes(data)

\* A chunker that is given the bytes in pieces cuts where one that has them all
\* does.
StreamCutsAlike == Flushed = Chunks(fed)
=============================================================================
