------------------------------ MODULE FileNames ------------------------------
(***************************************************************************)
(* The files of one reference: its tree of committed entries, the overlay  *)
(* of names and dirty data above it (cas/src/overlay.rs), the operations   *)
(* that change it (cas/src/store.rs: write, unlink, rename and the open    *)
(* handles), the flush that turns the overlay into tree, and the replay of *)
(* the log after a crash.  What a file contains is the set of the offsets  *)
(* written to it, a byte each.                                             *)
(***************************************************************************)
EXTENDS Integers, Sequences, FiniteSets, FiniteSetsExt, Functions, SequencesExt

CONSTANTS
    Paths,      \* sequences of names that files are created at
    Dirs,       \* those directories are moved between
    Trees,      \* what the reference holds when it is mounted
    Offsets, None,
    MaxOps,     \* how many operations a behaviour has
    MaxOpen     \* of which so many open a handle

VARIABLES
    tree,       \* the working root: files, a function, and directories, a set
    base,       \* the committed root
    wal,        \* the operations logged since
    ov,         \* the overlay
    nextId, openFiles,
    want,       \* what every file contains, by the operations acknowledged
    hand,       \* the name every handle stands for, None, or Lost
    odd,        \* what happened that the overlay does not get right
    broken,     \* a flush was refused by the tree
    ops

vars == <<tree, base, wal, ov, nextId, openFiles, want, hand, odd, broken, ops>>

Drop(f, keys) == Restrict(f, DOMAIN f \ keys)
Put(f, k, v) == [x \in DOMAIN f \cup {k} |-> IF x = k THEN v ELSE f[x]]
Parents(p) == {SubSeq(p, 1, i) : i \in 1 .. Len(p) - 1}
Under(p, d) == Len(p) > Len(d) /\ SubSeq(p, 1, Len(d)) = d

-----------------------------------------------------------------------------
(* The tree. *)

\* What a path names, or None.
Kind(t, p) == IF p \in DOMAIN t.files THEN "file" ELSE IF p \in t.dirs THEN "dir" ELSE "none"

\* A walk stops with an error at a file.
Walks(t, p) == \A q \in Parents(p) : q \notin DOMAIN t.files
TreePut(t, p, c) == [files |-> Put(t.files, p, c), dirs |-> t.dirs \cup Parents(p)]
TreeRemove(t, p) == [files |-> Drop(t.files, {p} \cup {q \in DOMAIN t.files : Under(q, p)}),
                     dirs |-> t.dirs \ ({p} \cup {q \in t.dirs : Under(q, p)})]

Moved(p, from, to) == IF p = from \/ Under(p, from) THEN to \o SubSeq(p, Len(from) + 1, Len(p)) ELSE p
TreeMove(t, from, to) ==
    IF from \notin t.dirs THEN t
    ELSE LET files == {Moved(p, from, to) : p \in DOMAIN t.files}
             Old(q) == CHOOSE p \in DOMAIN t.files : Moved(p, from, to) = q
         IN  [files |-> [q \in files |-> t.files[Old(q)]],
              dirs |-> {Moved(d, from, to) : d \in t.dirs} \cup Parents(to)]

-----------------------------------------------------------------------------
(* The overlay. *)

Empty == [byId |-> <<>>, byName |-> <<>>, names |-> <<>>, tombs |-> {}, open |-> <<>>,
          moves |-> <<>>, bytes |-> 0]

IsEmpty(o) == o.byId = <<>> /\ o.tombs = {} /\ o.moves = <<>>
IsOpen(o, id) == id \in DOMAIN o.open
Live(o, p) == p \in DOMAIN o.byName
Files(o) == {p \in DOMAIN o.byName : o.byName[p] \in DOMAIN o.byId}
FileAt(o, p) == o.byId[o.byName[p]]
NameOf(o, id) == IF id \in DOMAIN o.names THEN o.names[id] ELSE None

State(o, p) ==
    IF p \in o.tombs THEN "unlinked" ELSE IF p \in Files(o) THEN "dirty" ELSE "clean"

\* A fresh file has no bytes below the overlay's.
Apply(fo, below) == fo.writes \cup (IF fo.fresh THEN {} ELSE below)

\* The identity a name is bound to, and the next free one.
Bind(o, n, p) == IF Live(o, p) THEN o ELSE [o EXCEPT !.byName = Put(@, p, n), !.names = Put(@, n, p)]
NextAfter(o, n, p) == IF Live(o, p) THEN n ELSE n + 1

Insert(o, id, new, x) ==
    LET fo == IF id \in DOMAIN o.byId THEN o.byId[id] ELSE new IN
    [o EXCEPT !.byId = Put(@, id, [fo EXCEPT !.writes = @ \cup {x}]),
              !.bytes = @ + Cardinality((fo.writes \cup {x}) \ fo.writes)]

OWrite(o, n, p, x) ==
    LET fresh == p \in o.tombs
        b     == Bind([o EXCEPT !.tombs = @ \ {p}], n, p)
    IN  Insert(b, b.byName[p], [writes |-> {}, fresh |-> fresh, origin |-> IF fresh THEN None ELSE p], x)

Reap(o, id) ==
    [o EXCEPT !.byId = Drop(@, {id}),
              !.bytes = IF id \in DOMAIN o.byId THEN @ - Cardinality(o.byId[id].writes) ELSE @]

\* An open file loses its name and keeps its data.
OUnlink(o, p) ==
    LET id == o.byName[p]
        u  == [o EXCEPT !.byName = Drop(@, {p})]
        r  == IF ~Live(o, p) THEN o
              ELSE IF IsOpen(o, id) THEN [u EXCEPT !.names = Put(@, id, None)]
              ELSE [Reap(u, id) EXCEPT !.names = Drop(@, {id})]
    IN  [r EXCEPT !.tombs = @ \cup {p}]

OOpen(o, n, p) ==
    LET b == Bind(o, n, p)
        id == b.byName[p]
    IN  [b EXCEPT !.open = Put(@, id, IF id \in DOMAIN b.open THEN b.open[id] + 1 ELSE 1)]

\* Mutant: the close drops the handle whatever is still open or dirty.
OCloseForgets(o, id) == [o EXCEPT !.open = Drop(@, {id}), !.names = Drop(@, {id}), !.byId = Drop(@, {id})]

OClose(o, id) ==
    IF ~IsOpen(o, id) THEN o
    ELSE IF o.open[id] > 1 THEN [o EXCEPT !.open[id] = @ - 1]
    ELSE LET c == [o EXCEPT !.open = Drop(@, {id})] IN
         IF id \notin DOMAIN o.names THEN c
         ELSE IF o.names[id] = None THEN [Reap(c, id) EXCEPT !.names = Drop(@, {id})]
         ELSE IF id \notin DOMAIN o.byId
         THEN [c EXCEPT !.byName = Drop(@, {o.names[id]}), !.names = Drop(@, {id})]
         ELSE c

OpenForRename(o, n, p) ==
    [o EXCEPT !.byId = Put(@, n, [writes |-> {}, fresh |-> FALSE, origin |-> p]),
              !.byName = Put(@, p, n), !.names = Put(@, n, p)]

\* The name moves and the data does not; what had the new name is gone.
ORename(o, from, to) ==
    LET id == o.byName[from]
        v  == IF Live(o, to) THEN [Reap(o, o.byName[to]) EXCEPT !.names = Drop(@, {o.byName[to]})] ELSE o
    IN  [v EXCEPT !.byName = Put(Drop(@, {from, to}), to, id), !.names = Put(@, id, to),
                  !.tombs = (@ \ {to}) \cup {from}]

\* Mutant: the files still open are forgotten at the flush.
CarryNothing(o) == Empty

CarryOpen(o) ==
    [Empty EXCEPT !.open = o.open,
                  !.names = [id \in DOMAIN o.open |-> NameOf(o, id)],
                  !.byName = [p \in {NameOf(o, id) : id \in DOMAIN o.open} \ {None} |->
                                 CHOOSE id \in DOMAIN o.open : NameOf(o, id) = p]]

-----------------------------------------------------------------------------
(* Reading, flushing and replaying. *)

TreeRead(t, p) == IF p \in DOMAIN t.files THEN t.files[p] ELSE {}

\* What a read of a path returns, or None where there is no file.
Read(t, o, p) ==
    CASE State(o, p) = "unlinked" -> None
      [] State(o, p) = "clean" -> IF p \in DOMAIN t.files THEN t.files[p] ELSE None
      [] OTHER -> LET fo == FileAt(o, p) IN
                  Apply(fo, TreeRead(t, IF fo.origin = None THEN p ELSE fo.origin))

\* What the overlay removes: its tombstones and the names its files came from,
\* unless a file has the name now.
Removals(o) ==
    (o.tombs \cup ({FileAt(o, p).origin : p \in {q \in Files(o) : FileAt(o, q).origin # q}} \ {None}))
        \ Files(o)

\* Mutant: a renamed file is written over what the tree has under its new name.
FlushedBasePerName(t, o) ==
    LET gone == FoldSet(LAMBDA p, s : TreeRemove(s, p), t, Removals(o)) IN
    FoldSet(LAMBDA p, s : TreePut(s, p, Apply(FileAt(o, p), TreeRead(gone, p))), gone, Files(o))

\* The removals from the tree the moves left, then the files in the order of
\* their names, each over what its origin had before the flush.
Flushed(t, o) ==
    LET moved == FoldSet(LAMBDA f, s : TreeMove(s, f, o.moves[f]), t, DOMAIN o.moves)
        gone  == FoldSet(LAMBDA p, s : TreeRemove(s, p), moved, Removals(o))
    IN  FoldSet(LAMBDA p, s : TreePut(s, p, Apply(FileAt(o, p), TreeRead(t, IF FileAt(o, p).origin = None
                                                                       THEN p ELSE FileAt(o, p).origin))),
                gone, Files(o))

\* The tree takes it: no file lies on the way to another or to a removal, and
\* none is put where a directory was.
Flushable(t, o) ==
    /\ \A p \in Files(o) : (FileAt(o, p).origin = None \/ FileAt(o, p).origin = p) => Kind(t, p) # "dir"
    /\ \A p \in Files(o) : Walks(Flushed(t, o), p)
    /\ \A p \in Removals(o) : Walks(t, p)

\* Applying an operation: what becomes of the overlay and of the next identity.
ApplyOp(t, o, n, op) ==
    CASE op.kind = "write" -> <<OWrite(o, n, op.path, op.off), NextAfter(o, n, op.path)>>
      [] op.kind = "unlink" -> <<OUnlink(o, op.path), n>>
      [] OTHER ->
            IF Live(o, op.path) THEN <<ORename(o, op.path, op.to), n>>
            ELSE CASE Kind(t, op.path) = "dir" -> <<[o EXCEPT !.moves = Put(@, op.path, op.to)], n>>
                   [] Kind(t, op.path) = "file" -> <<ORename(OpenForRename(o, n, op.path), op.path, op.to), n + 1>>
                   [] OTHER -> <<o, n>>

\* Mount: the operations in the log, in order, over the committed tree.
Replay(t, log) == FoldLeft(LAMBDA s, op : ApplyOp(t, s[1], s[2], op), <<Empty, 0>>, log)

-----------------------------------------------------------------------------
(* The operations. *)

\* What is refused before it reaches the log: a file in place of a directory,
\* or below a file.
Valid(p) ==
    \A q \in Parents(p) \cup {p} :
        \/ q = p /\ State(ov, q) = "dirty"
        \/ State(ov, q) = "unlinked"
        \/ /\ State(ov, q) = "clean"
           /\ Walks(tree, q)
           /\ Kind(tree, q) # IF q = p THEN "dir" ELSE "file"

Becomes(r) == ov' = r[1] /\ nextId' = r[2]

Acts == ops < MaxOps /\ ~broken /\ ops' = ops + 1

\* flush_ref and commit; a flush the tree refuses leaves the log and no overlay.
Sync ==
    /\ Acts
    /\ IF IsEmpty(ov) \/ Flushable(tree, ov)
       THEN /\ tree' = (IF IsEmpty(ov) THEN tree ELSE Flushed(tree, ov))
            /\ base' = tree' /\ wal' = <<>> /\ ov' = CarryOpen(ov)
            /\ UNCHANGED broken
       ELSE /\ ov' = Empty /\ broken' = TRUE
            /\ UNCHANGED <<tree, base, wal>>
    /\ UNCHANGED <<nextId, openFiles, want, hand, odd>>

\* The handles that stood for a name, after it has become another or none.
Renamed(from, to) ==
    [id \in DOMAIN hand |-> IF hand[id] = from THEN to ELSE IF hand[id] = to THEN None ELSE hand[id]]
Followed(op) ==
    CASE op.kind = "write" -> hand
      [] op.kind = "unlink" -> Renamed(op.path, None)
      [] OTHER -> Renamed(op.path, op.to)

\* An open file that has no dirty data has a name, and the swap of names panics
\* on the data it lacks.
Panics(o, op) == op.kind = "rename" /\ Live(o, op.path) /\ op.path \notin Files(o)

\* The record is logged, after a flush that made room for it or not, and then
\* applied; a panic ends the process with the record in the log, and mount
\* reads the committed tree and the log.
LogThenApply(op) ==
    \E early \in BOOLEAN :
        LET t   == IF early THEN Flushed(tree, ov) ELSE tree
            o   == IF early THEN CarryOpen(ov) ELSE ov
            log == Append(IF early THEN <<>> ELSE wal, op)
        IN  /\ early => ~IsEmpty(ov) /\ Flushable(tree, ov)
            /\ base' = (IF early THEN t ELSE base)
            /\ wal' = log
            /\ IF Panics(o, op)
               THEN /\ tree' = base' /\ openFiles' = {} /\ hand' = <<>>
                    /\ Becomes(Replay(base', log))
               ELSE /\ tree' = t /\ hand' = Followed(op)
                    /\ Becomes(ApplyOp(t, o, nextId, op))
                    /\ UNCHANGED openFiles
            /\ UNCHANGED broken

Write(p, x) ==
    /\ Acts /\ Valid(p)
    /\ LogThenApply([kind |-> "write", path |-> p, off |-> x])
    /\ want' = Put(want, p, {x} \cup (IF p \in DOMAIN want THEN want[p] ELSE {}))
    /\ UNCHANGED odd

Unlink(p) ==
    /\ Acts /\ Valid(p)
    /\ LogThenApply([kind |-> "unlink", path |-> p])
    /\ want' = Drop(want, {p})
    /\ UNCHANGED odd

RenameFile(from, to) ==
    /\ Acts /\ from # to
    /\ Live(ov, from) \/ (Walks(tree, from) /\ Kind(tree, from) = "file")
    /\ Valid(to)
    /\ LogThenApply([kind |-> "rename", path |-> from, to |-> to])
    /\ want' = IF from \notin DOMAIN want THEN want ELSE Put(Drop(want, {from}), to, want[from])
    /\ odd' = IF from \in ov.tombs THEN odd \cup {"revived"} ELSE odd

\* A directory: everything is flushed first, and the move with it.  The overlay's
\* names are not moved, so a handle on a file in it still has the old one.
Lost == <<>>
RenameDir(from, to) ==
    /\ Acts /\ from # to /\ ~Live(ov, from) /\ Kind(tree, from) = "dir"
    /\ Valid(to) /\ Kind(tree, to) = "none" /\ State(ov, to) = "clean"
    /\ Flushable(tree, ov)
    /\ tree' = TreeMove(Flushed(tree, ov), from, to)
    /\ base' = tree' /\ wal' = <<>> /\ ov' = CarryOpen(ov)
    /\ want' = [q \in {Moved(p, from, to) : p \in DOMAIN want} |->
                   want[CHOOSE p \in DOMAIN want : Moved(p, from, to) = q]]
    /\ hand' = [id \in DOMAIN hand |-> IF hand[id] # None /\ Under(hand[id], from) THEN Lost ELSE hand[id]]
    /\ UNCHANGED <<nextId, openFiles, odd, broken>>

Open(p) ==
    /\ Acts /\ nextId < MaxOpen
    /\ LET id == OOpen(ov, nextId, p).byName[p] IN
       /\ ov' = OOpen(ov, nextId, p)
       /\ nextId' = NextAfter(ov, nextId, p)
       /\ openFiles' = openFiles \cup {id}
       /\ hand' = Put(hand, id, p)
    /\ UNCHANGED <<tree, base, wal, want, odd, broken>>

\* Through a handle: the name's file, or data that is never logged.
WriteId(id, x) ==
    /\ id \in openFiles
    /\ IF NameOf(ov, id) # None
       THEN Write(NameOf(ov, id), x)
       ELSE /\ Acts
            /\ ov' = Insert(ov, id, [writes |-> {}, fresh |-> TRUE, origin |-> None], x)
            /\ UNCHANGED <<tree, base, wal, nextId, openFiles, want, hand, odd, broken>>

Close(id) ==
    /\ Acts /\ id \in openFiles
    /\ ov' = OClose(ov, id)
    /\ openFiles' = IF id \in DOMAIN ov.open /\ ov.open[id] > 1 THEN openFiles ELSE openFiles \ {id}
    /\ hand' = Restrict(hand, openFiles')
    /\ UNCHANGED <<tree, base, wal, nextId, want, odd, broken>>

\* Everything in memory is gone.
Crash ==
    /\ Acts
    /\ tree' = base /\ openFiles' = {} /\ hand' = <<>>
    /\ Becomes(Replay(base, wal))
    /\ UNCHANGED <<base, wal, want, odd, broken>>

\* A crash after a directory's move was logged and before it was committed.
CrashMoving(from, to) ==
    /\ Acts /\ from # to /\ ~Live(ov, from) /\ Kind(tree, from) = "dir"
    /\ Valid(to) /\ Kind(tree, to) = "none" /\ State(ov, to) = "clean"
    /\ Flushable(tree, ov)
    /\ tree' = Flushed(tree, ov) /\ base' = tree'
    /\ wal' = <<[kind |-> "rename", path |-> from, to |-> to]>>
    /\ Becomes(Replay(tree', wal'))
    /\ openFiles' = {} /\ hand' = <<>>
    /\ odd' = odd \cup {"late move"}
    /\ UNCHANGED <<want, broken>>

Init ==
    /\ tree \in Trees /\ base = tree /\ wal = <<>> /\ ov = Empty
    /\ nextId = 0 /\ openFiles = {} /\ want = tree.files /\ hand = <<>>
    /\ odd = {} /\ broken = FALSE /\ ops = 0

Next ==
    \/ \E p \in Paths, x \in Offsets : Write(p, x)
    \/ \E p \in Paths : Unlink(p) \/ Open(p)
    \/ \E p, q \in Paths : RenameFile(p, q)
    \/ \E d, e \in Dirs : RenameDir(d, e) \/ CrashMoving(d, e)
    \/ \E id \in openFiles : Close(id) \/ \E x \in Offsets : WriteId(id, x)
    \/ Sync \/ Crash

Spec == Init /\ [][Next]_vars

-----------------------------------------------------------------------------
(* Properties. *)

\* A file reads as what was written to it, under the name it was given last:
\* through write, unlink, rename, flush, crash and replay alike.  Two cases are
\* known to differ: a name removed since the last flush can be renamed, and a
\* directory's move that a crash interrupts takes effect at the next flush.
ReadsMatch ==
    odd = {} /\ ~broken =>
        \A p \in Paths \cup DOMAIN want :
            Read(tree, ov, p) = IF p \in DOMAIN want THEN want[p] ELSE None

\* A handle stands for the file it opened: under its present name, and under
\* none once the file was unlinked or replaced.  Excepted, besides the two cases of
\* ReadsMatch, are handles on files below a directory that was renamed: those keep
\* the old path, and what is written through them makes a file there.
HandlesFollow ==
    odd = {} /\ ~broken => \A id \in openFiles : hand[id] # Lost => NameOf(ov, id) = hand[id]

\* The count of dirty bytes, by which flushes are scheduled, is that of the data
\* held: no reap or insertion is counted twice or missed.
BytesExact ==
    ov.bytes = FoldFunction(LAMBDA fo, n : n + Cardinality(fo.writes), 0, ov.byId)
=============================================================================
