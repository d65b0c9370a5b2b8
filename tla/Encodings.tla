------------------------------ MODULE Encodings ------------------------------
(***************************************************************************)
(* The bytes on disk: leaf nodes and chunk lists (cas/src/prolly.rs,       *)
(* file.rs), log records, the ref table, the chunk index and the geometry  *)
(* a superblock claims (cas/src/disk.rs); and those a program starts from: *)
(* its startup block and the segments of its image (loader/src).  An       *)
(* object is encoded, then some bytes are damaged, and the decoders look   *)
(* at what is left.                                                        *)
(*                                                                         *)
(* A buffer is a sequence of cells.  A cell is a number below Base: a      *)
(* length or a count, a character, a tag, or a whole fixed-width field     *)
(* (hash, time, offset), none of which a decoder looks into.  A length is  *)
(* cut to one cell, as the code's `as u8` cuts it.                         *)
(***************************************************************************)
EXTENDS Integers, Sequences, SequencesExt

CONSTANTS
    Base,
    MaxOpt,    \* MAX_OPT_BYTES
    MaxWidth,  \* MAX_NODE_ENTRIES, MAX_GRANTS, MAX_ARGV and MAX_ENV
    MaxBlock,  \* MAX_BLOCK
    Page,
    Objects,   \* what is encoded: pairs of a format and a value
    MaxDamage,
    Word       \* device sizes and offsets are numbers below Word

VARIABLES
    format,  \* which decoder reads the buffer
    obj,     \* what was encoded
    buf,
    damage,  \* how many cells were changed, cut off or added
    geo,     \* the geometry in a superblock, and the length of the device
    seg      \* a segment in an image, and the length of the image

vars == <<format, obj, buf, damage, geo, seg>>

-----------------------------------------------------------------------------
(* Writing and reading: a reader fails, or has a value and a position. *)

Cell(n) == <<n % Base>>
Str(s) == Cell(Len(s)) \o s
Many(xs, Enc(_)) == Cell(Len(xs)) \o FlattenSeq([i \in DOMAIN xs |-> Enc(xs[i])])

Fail == [ok |-> FALSE, pos |-> 0, val |-> <<>>]
Read(p, v) == [ok |-> TRUE, pos |-> p, val |-> v]

U(b, p) == IF p < Len(b) THEN Read(p + 1, <<b[p + 1]>>) ELSE Fail

\* Reader::take behind a length
S(b, p) ==
    IF p < Len(b) /\ p + 1 + b[p + 1] <= Len(b)
    THEN Read(p + 1 + b[p + 1], SubSeq(b, p + 2, p + 1 + b[p + 1]))
    ELSE Fail

Then(r, x) == IF x.ok THEN Read(x.pos, Append(r.val, x.val)) ELSE Fail
After(r, b, Item(_, _)) == IF r.ok THEN Then(r, Item(b, r.pos)) ELSE Fail

\* The fields of a row: "n" a cell, "s" a string.
Fields(b, p, shape) ==
    FoldLeft(LAMBDA r, f : After(r, b, LAMBDA c, q : IF f = "n" THEN U(c, q) ELSE S(c, q)),
             Read(p, <<>>), shape)

Times(n, b, p, Item(_, _)) ==
    FoldLeft(LAMBDA r, i : After(r, b, Item), Read(p, <<>>), [i \in 1 .. n |-> i])

Counted(b, p, Item(_, _)) == IF p < Len(b) THEN Times(b[p + 1], b, p + 1, Item) ELSE Fail

\* Nothing may be left behind what was read.
Whole(b, r) == IF r.ok /\ r.pos = Len(b) THEN r ELSE Fail

-----------------------------------------------------------------------------
(* Entries and leaf nodes.  An entry is its name, kind, size with mtime,   *)
(* content tag, content and flags.                                         *)

EncodeRaw(e) ==
    Str(e[1]) \o e[2] \o e[3] \o e[4] \o (IF e[4] = <<0>> THEN Str(e[5]) ELSE e[5])
        \o (IF e[6] = <<0>> THEN Cell(0) ELSE Cell(3) \o Cell(1) \o Cell(1) \o e[6])

DecodeContent(b, p, tag) ==
    CASE tag = <<0>>            -> S(b, p)
      [] tag \in {<<1>>, <<2>>} -> U(b, p)
      [] OTHER                  -> Fail

\* Mutant: flags of zero may be present.
DecodeOptLax(b, p, end) ==
    IF p = end THEN Read(end, <<0>>)
    ELSE IF p + 3 = end /\ b[p + 1] = 1 /\ b[p + 2] = 1 THEN Read(end, <<b[p + 3]>>)
    ELSE Fail

\* The optional fields: tags ascend and only that of the flags is known, so
\* there is nothing or the flags; flags of zero must be left out.
DecodeOpt(b, p, end) ==
    IF p = end THEN Read(end, <<0>>)
    ELSE IF p + 3 = end /\ b[p + 1] = 1 /\ b[p + 2] = 1 /\ b[p + 3] # 0 THEN Read(end, <<b[p + 3]>>)
    ELSE Fail

DecodeBody(b, fixed) ==
    IF fixed.ok /\ fixed.val[2] \in {<<0>>, <<1>>}
    THEN Then(fixed, DecodeContent(b, fixed.pos, fixed.val[4])) ELSE Fail
DecodeOptional(b, body) ==
    LET optLen == IF body.ok /\ body.pos < Len(b) THEN b[body.pos + 1] ELSE MaxOpt + 1
    IN  IF optLen <= MaxOpt /\ body.pos + 1 + optLen <= Len(b)
        THEN Then(body, DecodeOpt(b, body.pos + 1, body.pos + 1 + optLen)) ELSE Fail
DecodeRaw(b, p) == DecodeOptional(b, DecodeBody(b, Fields(b, p, <<"s", "n", "n", "n">>)))

EncodeNode(es) == Cell(0) \o Many(es, EncodeRaw)
DecodeNode(b) ==
    IF Len(b) < 2 THEN Fail
    ELSE IF b[1] # 0 \/ b[2] > MaxWidth THEN Fail
    ELSE Whole(b, Counted(b, 1, DecodeRaw))

-----------------------------------------------------------------------------
(* Chunk lists: a magic cell, then hashes with lengths. *)

ListMagic == 3
EncodeList(refs) == Cell(ListMagic) \o Many(refs, LAMBDA r : r[1] \o r[2])
DecodeList(b) ==
    IF b # <<>> /\ Head(b) = ListMagic
    THEN Whole(b, Counted(b, 1, LAMBDA c, p : Fields(c, p, <<"n", "n">>))) ELSE Fail

-----------------------------------------------------------------------------
(* Log records: a tag, the ref, one or two paths, numbers, data. *)

PathCount(tag) == IF tag = <<3>> THEN 2 ELSE 1
NumCount(tag) == IF tag = <<1>> THEN 2 ELSE 1

EncodePayload(op) ==
    op[1] \o Str(op[2]) \o FlattenSeq([i \in DOMAIN op[3] |-> Many(op[3][i], Str)])
        \o FlattenSeq(op[4]) \o (IF op[1] = <<1>> THEN Str(op[5]) ELSE <<>>)

DecodeOp(b, start, tag) ==
    LET paths == After(start, b, LAMBDA c, p : Times(PathCount(tag), c, p, LAMBDA d, q : Counted(d, q, S)))
        nums  == After(paths, b, LAMBDA c, p : Times(NumCount(tag), c, p, U))
    IN  After(nums, b, LAMBDA c, p : IF tag = <<1>> THEN S(c, p) ELSE Read(p, <<>>))
Tagged(b, start) ==
    IF start.ok /\ start.val[1] \in {<<1>>, <<2>>, <<3>>} THEN DecodeOp(b, start, start.val[1]) ELSE Fail
DecodePayload(b) == Whole(b, Tagged(b, Fields(b, 0, <<"n", "s">>)))

-----------------------------------------------------------------------------
(* The ref table: a magic cell, refs, snapshots and tags, each in the order   *)
(* of its keys.                                                               *)

TableMagic == 1

NoParent == <<-1>>
RefShape == <<"s", "n", "n", "n", "n">>
SnapShape == <<"s", "n", "n", "n", "s", "n", "s", "n">>
TagShape == <<"s", "s", "n">>

Row(shape, row) == FlattenSeq([i \in DOMAIN shape |-> IF shape[i] = "s" THEN Str(row[i]) ELSE row[i]])

\* Mutant: no parent is written as 0.
EncodeParentZero(row) == IF row[6] = NoParent THEN [row EXCEPT ![6] = <<0>>] ELSE row

\* No parent is the largest number.
EncodeParent(row) == IF row[6] = NoParent THEN [row EXCEPT ![6] = <<Base - 1>>] ELSE row
DecodeSnap(b, p) ==
    LET Checked(r) == IF ~r.ok \/ r.val[8] \notin {<<0>>, <<1>>, <<2>>} THEN Fail
                      ELSE [r EXCEPT !.val[6] = IF @ = <<Base - 1>> THEN NoParent ELSE @]
    IN  Checked(Fields(b, p, SnapShape))

EncodeTable(t) ==
    Cell(TableMagic) \o Many(t[1], LAMBDA row : Row(RefShape, row))
        \o Many(t[2], LAMBDA row : Row(SnapShape, EncodeParent(row)))
        \o Many(t[3], LAMBDA row : Row(TagShape, row))

DecodeTable(b) ==
    LET refs  == After(Read(1, <<>>), b, LAMBDA c, p : Counted(c, p, LAMBDA d, q : Fields(d, q, RefShape)))
        snaps == After(refs, b, LAMBDA c, p : Counted(c, p, DecodeSnap))
        tags  == After(snaps, b, LAMBDA c, p : Counted(c, p, LAMBDA d, q : Fields(d, q, TagShape)))
    IN  IF b # <<>> /\ Head(b) = TableMagic THEN Whole(b, tags) ELSE Fail

-----------------------------------------------------------------------------
(* The chunk index: a magic cell, frames, free extents, and zeroes up to the *)
(* size of its frame.                                                        *)

IndexMagic == 2

EncodeIndex(x) ==
    Cell(IndexMagic) \o Many(x[1], LAMBDA row : FlattenSeq(row)) \o Many(x[2], LAMBDA row : FlattenSeq(row)) \o Str(x[3])

Padded(b, r) == IF r.ok /\ \A i \in DOMAIN r.val[3] : r.val[3][i] = 0 THEN Whole(b, r) ELSE Fail
DecodeIndex(b) ==
    LET Rows(c, p, shape) == Counted(c, p, LAMBDA d, q : Fields(d, q, shape))
        frames == After(Read(1, <<>>), b, LAMBDA c, p : Rows(c, p, <<"n", "n", "n", "n">>))
        free   == After(frames, b, LAMBDA c, p : Rows(c, p, <<"n", "n">>))
    IN  IF b # <<>> /\ Head(b) = IndexMagic THEN Padded(b, After(free, b, S)) ELSE Fail

-----------------------------------------------------------------------------
(* validate_geometry: sums that do not fit in a word are refused. *)

WAL_OFF == 1
CHUNK_HEADER == 1

\* Mutant: the sum wraps.
AddWraps(a, b) == [fits |-> TRUE, sum |-> (a + b) % Word]

CheckedAdd(a, b) == [fits |-> a + b < Word, sum |-> (a + b) % Word]

ValidateGeometry(g) ==
    LET chunkOff == CheckedAdd(WAL_OFF, g.walLen)
        end      == CheckedAdd(chunkOff.sum, g.chunkTail)
        indexEnd == CheckedAdd(g.indexOff, CHUNK_HEADER)
    IN  /\ chunkOff.fits /\ chunkOff.sum <= g.devLen
        /\ g.walHead <= g.walLen
        /\ end.fits /\ end.sum <= g.devLen
        /\ indexEnd.fits /\ indexEnd.sum <= g.chunkTail

-----------------------------------------------------------------------------
(* Startup blocks: a magic cell, three counts, grants, arguments, environment. *)

StartupMagic == 4
KindShape(kind) ==
    CASE kind \in {<<1>>, <<2>>} -> <<"n">>
      [] kind = <<3>>            -> <<"n", "n", "n">>
      [] kind = <<4>>            -> <<"n", "n", "n", "n">>
      [] OTHER                   -> <<>>

EncodeGrant(g) == g[1] \o g[2] \o FlattenSeq(g[3])
DecodeGrant(b, p) ==
    LET Payload(head) == IF head.ok /\ KindShape(head.val[2]) # <<>>
                         THEN Then(head, Fields(b, head.pos, KindShape(head.val[2]))) ELSE Fail
    IN  Payload(Fields(b, p, <<"n", "n">>))

\* A block that is too long is refused, never cut.
EncodeStartup(x) ==
    LET bytes == Cell(StartupMagic) \o FlattenSeq([i \in 1 .. 3 |-> Cell(Len(x[i]))])
                 \o FlattenSeq([i \in DOMAIN x[1] |-> EncodeGrant(x[1][i])])
                 \o FlattenSeq([i \in DOMAIN x[2] |-> Str(x[2][i])])
                 \o FlattenSeq([i \in DOMAIN x[3] |-> Str(x[3][i])])
    IN  IF Len(bytes) > MaxBlock THEN <<>> ELSE bytes

\* What is left behind the last string is not looked at.
DecodeStartup(b) ==
    IF Len(b) < 4 THEN Fail
    ELSE IF b[1] # StartupMagic \/ b[2] > MaxWidth \/ b[3] > MaxWidth \/ b[4] > MaxWidth THEN Fail
    ELSE LET grants == After(Read(4, <<>>), b, LAMBDA c, p : Times(c[2], c, p, DecodeGrant))
             argv   == After(grants, b, LAMBDA c, p : Times(c[3], c, p, S))
         IN  After(argv, b, LAMBDA c, p : Times(c[4], c, p, S))

-----------------------------------------------------------------------------
(* The segments of an image, and the pages they are loaded into. *)

RoundUp(n) == ((n + Page - 1) \div Page) * Page

\* Mutant: the size is rounded up without the offset in the first page.
PageLayoutFromStart(g) ==
    LET start == g.vaddr - (g.vaddr % Page)
    IN  [fits |-> g.vaddr + g.memsz + (Page - 1) < Word, start |-> start,
         end |-> start + RoundUp(g.memsz), offset |-> g.vaddr % Page]

PageLayout(g) ==
    [fits |-> g.vaddr + g.memsz + (Page - 1) < Word, start |-> g.vaddr - (g.vaddr % Page),
     end |-> RoundUp(g.vaddr + g.memsz), offset |-> g.vaddr % Page]

\* parse refuses the image for such a segment; one without memory is left out.
SegmentAccepted(g) ==
    /\ CheckedAdd(g.offset, g.filesz).fits
    /\ g.filesz <= g.memsz /\ g.offset + g.filesz <= g.imageLen
    /\ PageLayout(g).fits
    /\ g.memsz # 0

-----------------------------------------------------------------------------

Encode(f, x) ==
    CASE f = "node"   -> EncodeNode(x)
      [] f = "list"   -> EncodeList(x)
      [] f = "record" -> EncodePayload(x)
      [] f = "table"  -> EncodeTable(x)
      [] f = "index"  -> EncodeIndex(x)
      [] f = "startup" -> EncodeStartup(x)

Decode(f, b) ==
    CASE f = "node"   -> DecodeNode(b)
      [] f = "list"   -> DecodeList(b)
      [] f = "record" -> DecodePayload(b)
      [] f = "table"  -> DecodeTable(b)
      [] f = "index"  -> DecodeIndex(b)
      [] f = "startup" -> DecodeStartup(b)
      [] OTHER -> Fail

NoGeometry == [walHead |-> 0, walLen |-> 0, chunkTail |-> 0, indexOff |-> 0, devLen |-> 0]
Geometries == [{"walHead", "walLen", "chunkTail", "indexOff", "devLen"} -> 0 .. Word - 1]
NoSegment == [vaddr |-> 0, offset |-> 0, filesz |-> 0, memsz |-> 0, imageLen |-> 0]
SegmentsOf == [{"vaddr", "offset", "filesz", "memsz", "imageLen"} -> 0 .. Word - 1]
Plain == {"superblock", "segment"}

Init ==
    /\ damage = 0
    /\ \/ /\ \E o \in Objects : format = o[1] /\ obj = o /\ buf = Encode(o[1], o[2])
          /\ geo = NoGeometry /\ seg = NoSegment
       \/ /\ obj = <<>> /\ buf = <<>>
          /\ \/ format = "superblock" /\ geo \in Geometries /\ seg = NoSegment
             \/ format = "segment" /\ seg \in SegmentsOf /\ geo = NoGeometry

Change(i, c) == buf' = [buf EXCEPT ![i] = c]
CutOff(n) == buf' = SubSeq(buf, 1, n)
AddCell(c) == buf' = Append(buf, c)

Next ==
    /\ format \notin Plain /\ buf # <<>> /\ damage < MaxDamage
    /\ damage' = damage + 1
    /\ \/ \E i \in DOMAIN buf, c \in 0 .. Base - 1 : Change(i, c)
       \/ \E n \in 0 .. Len(buf) - 1 : CutOff(n)
       \/ \E c \in 0 .. Base - 1 : AddCell(c)
    /\ UNCHANGED <<format, obj, geo, seg>>

Spec == Init /\ [][Next]_vars

-----------------------------------------------------------------------------
(* Properties. *)

\* What was written is what is read back, field by field: nodes, chunk lists, log
\* records, the ref table, the index and startup blocks; of a startup block that is
\* too long nothing is written.
RoundTrip ==
    (format \notin Plain /\ damage = 0 /\ buf # <<>>) =>
        LET r == Decode(format, buf) IN r.ok /\ r.val = obj[2]

Canonical(r) ==
    r.ok => CASE format \in {"node", "list", "record"} -> Encode(format, r.val) = buf
              [] format = "startup" /\ Len(buf) <= MaxBlock -> IsPrefix(Encode(format, r.val), buf)
              [] OTHER -> TRUE

\* Nodes, chunk lists and log records have one encoding: a buffer that is
\* accepted, damaged or not, is the encoding of what was read out of it
\* (prolly.rs: "every canonicality rule checked on encode is also rejected on
\* decode, and trailing bytes are errors").  A startup block that is accepted
\* begins with that encoding.
OneEncoding == Canonical(Decode(format, buf))

\* The regions of a superblock that is accepted lie on the device, the head of
\* the log in the log and the index in the committed chunks, in true arithmetic
\* whatever the words' width.
GeometryInside ==
    (format = "superblock" /\ ValidateGeometry(geo)) =>
        /\ geo.walHead <= geo.walLen
        /\ WAL_OFF + geo.walLen + geo.chunkTail <= geo.devLen
        /\ geo.indexOff + CHUNK_HEADER <= geo.chunkTail

\* A segment that parse accepts lies in the image, its pages are whole and cover
\* its memory, and what is written into their frame stays in it, so that prepare
\* slices and writes no byte that is not there.
SegmentLoads ==
    (format = "segment" /\ SegmentAccepted(seg)) =>
        LET l == PageLayout(seg)
        IN  /\ seg.offset + seg.filesz <= seg.imageLen
            /\ l.start % Page = 0 /\ l.end % Page = 0 /\ l.end > l.start
            /\ l.start <= seg.vaddr /\ seg.vaddr + seg.memsz <= l.end
            /\ l.offset + seg.filesz <= l.end - l.start
=============================================================================
