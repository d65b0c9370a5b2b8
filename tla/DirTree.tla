------------------------------- MODULE DirTree -------------------------------
(***************************************************************************)
(* Directories as trees of content-addressed nodes (cas/src/prolly.rs) and *)
(* the garbage collector's walk over them (cas/src/gc.rs).  Dir::save cuts *)
(* the sorted entries into nodes behind the items whose hash says so, and  *)
(* the nodes' first keys into nodes in turn until one node is left;        *)
(* Dir::load checks levels, separators, order and width on the way back.   *)
(*                                                                         *)
(* A hash is the object it is the hash of.  Which items end a node is any  *)
(* predicate of the item; Init chooses it for leaves and for the level     *)
(* above them, and from there on no item ends one, so that save ends (the  *)
(* code stops after 255 levels, out of reach of real hashes).              *)
(***************************************************************************)
EXTENDS Integers, Sequences, FiniteSets, SequencesExt

CONSTANTS
    Names,             \* natural numbers, ordered like the names' bytes
    Inlines, Lists,    \* what a file can hold: inline bytes or a list of chunks
    MAX_NODE_ENTRIES,
    Cuts,              \* the choices of items that end a leaf
    MaxEdits           \* made between two saves

VARIABLES
    leafEnds,   \* the pairs of a name and a kind of content that end a leaf
    upperEnds,  \* the keys that end a node of level 1
    dir,        \* the directory being edited: content of every name in it
    store,      \* the objects that were put
    saved,      \* the directories saved so far, with their roots
    edits

vars == <<leafEnds, upperEnds, dir, store, saved, edits>>

-----------------------------------------------------------------------------
(* Objects: nodes, chunk lists and chunks, each with a level and its items. *)

Obj(level, items) == [level |-> level, items |-> items]
Item(key, kind, ref) == [key |-> key, kind |-> kind, ref |-> ref]
Chunk(c) == Obj(-1 - c, <<>>)
ChunkList(cs) == Obj(-1, [i \in DOMAIN cs |-> Item(0, "chunk", Chunk(cs[i]))])

\* The contents an entry can have: a file's, or the root of a directory.
Inline(c) == [kind |-> "inline", ref |-> Chunk(c)]
Listed(cs) == [kind |-> "list", ref |-> ChunkList(cs)]
Nested(root) == [kind |-> "dir", ref |-> root]

\* A file that has the bytes of an object in its one chunk.
CopyOf(obj) == [kind |-> "list", ref |-> Obj(-1, <<Item(0, "chunk", obj)>>)]

-----------------------------------------------------------------------------
(* Dir::save *)

IsBoundary(level, item) ==
    CASE level = 0 -> <<item.key, item.kind>> \in leafEnds
      [] level = 1 -> item.key \in upperEnds
      [] OTHER     -> FALSE

\* Mutant: a node may hold one entry too many.
SplitPointsLate(flags) ==
    LET Step(ends, i) ==
            LET start == IF ends = <<>> THEN 0 ELSE Last(ends)
            IN  IF flags[i] \/ i - start > MAX_NODE_ENTRIES \/ i = Len(flags)
                THEN Append(ends, i) ELSE ends
    IN  FoldLeft(Step, <<>>, [i \in DOMAIN flags |-> i])

\* Where the nodes of a level end.
SplitPoints(flags) ==
    LET Step(ends, i) ==
            LET start == IF ends = <<>> THEN 0 ELSE Last(ends)
            IN  IF flags[i] \/ i - start = MAX_NODE_ENTRIES \/ i = Len(flags)
                THEN Append(ends, i) ELSE ends
    IN  FoldLeft(Step, <<>>, [i \in DOMAIN flags |-> i])

BuildLevel(level, items) ==
    LET ends == SplitPoints([i \in DOMAIN items |-> IsBoundary(level, items[i])])
        Start(j) == IF j = 1 THEN 1 ELSE ends[j - 1] + 1
    IN  [j \in DOMAIN ends |-> Obj(level, SubSeq(items, Start(j), ends[j]))]

\* The levels built on top of a level's nodes: the root, and all that is put.
RECURSIVE Levels(_, _)
Levels(level, nodes) ==
    IF Len(nodes) <= 1 THEN [root |-> Head(nodes), put |-> ToSet(nodes)]
    ELSE LET upper == BuildLevel(level + 1,
                          [j \in DOMAIN nodes |-> Item(nodes[j].items[1].key, "child", nodes[j])])
             more  == Levels(level + 1, upper)
         IN  [more EXCEPT !.put = @ \cup ToSet(nodes)]

Sorted(names) == SetToSortSeq(names, <)

Entries(d) == [i \in DOMAIN Sorted(DOMAIN d) |->
                  LET n == Sorted(DOMAIN d)[i] IN Item(n, d[n].kind, d[n].ref)]

SaveDir(d) == IF d = <<>> THEN [root |-> Obj(0, <<>>), put |-> {Obj(0, <<>>)}]
              ELSE Levels(0, BuildLevel(0, Entries(d)))

-----------------------------------------------------------------------------
(* Dir::load *)

Failed == [ok |-> FALSE, items |-> <<>>]

\* load_node; `expect` is the level the parent calls for, -1 at the root.
RECURSIVE LoadNode(_, _, _)
LoadNode(kept, h, expect) ==
    IF h \notin kept \/ Len(h.items) > MAX_NODE_ENTRIES \/ (expect >= 0 /\ h.level # expect)
    THEN Failed
    ELSE IF h.level = 0
    THEN IF h.items = <<>> /\ expect >= 0 THEN Failed ELSE [ok |-> TRUE, items |-> h.items]
    ELSE LET sub == [i \in DOMAIN h.items |-> LoadNode(kept, h.items[i].ref, h.level - 1)]
         IN  IF /\ h.items # <<>>
                /\ \A i \in DOMAIN sub : /\ sub[i].ok
                                         /\ sub[i].items # <<>>
                                         /\ sub[i].items[1].key = h.items[i].key
             THEN [ok |-> TRUE, items |-> FlattenSeq([i \in DOMAIN sub |-> sub[i].items])]
             ELSE Failed

Load(kept, root) ==
    LET all == LoadNode(kept, root, -1)
    IN  IF all.ok /\ \A i \in 1 .. Len(all.items) - 1 : all.items[i].key < all.items[i + 1].key
        THEN all ELSE Failed

DirOf(load) == LET at == [i \in DOMAIN load.items |-> load.items[i].key]
               IN  [n \in Range(at) |->
                       LET e == load.items[CHOOSE i \in DOMAIN at : at[i] = n]
                       IN  [kind |-> e.kind, ref |-> e.ref]]

-----------------------------------------------------------------------------
(* diff *)

\* Mutant: the names only the second tree has are left out.
DiffFirst(kept, a, b) ==
    LET da == DirOf(Load(kept, a))
        db == DirOf(Load(kept, b))
    IN  {<<n, IF n \in DOMAIN db THEN "modified" ELSE "removed">> :
            n \in {m \in DOMAIN da : m \notin DOMAIN db \/ da[m] # db[m]}}

Diff(kept, a, b) ==
    LET da == DirOf(Load(kept, a))
        db == DirOf(Load(kept, b))
    IN  IF a = b THEN {}
        ELSE {<<n, IF n \in DOMAIN db THEN "modified" ELSE "removed">> :
                 n \in {m \in DOMAIN da : m \notin DOMAIN db \/ da[m] # db[m]}}
             \cup {<<n, "added">> : n \in DOMAIN db \ DOMAIN da}

-----------------------------------------------------------------------------
(* gc::mark *)

\* Mutant: the chunks of a list are not marked.
MarkItemListOnly(item) == IF item.kind = "list" THEN {item.ref} ELSE {}

\* What an entry's content marks besides directories, which are walked later.
MarkItem(item) ==
    IF item.kind = "list"
    THEN {item.ref} \cup {item.ref.items[i].ref : i \in DOMAIN item.ref.items}
    ELSE {}

\* One entry of a node: what is live already is neither looked into nor pushed.
MarkEntry(w, item) ==
    IF item.kind = "inline" \/ item.ref \in w.live THEN w
    ELSE IF item.kind = "list" THEN [w EXCEPT !.live = @ \cup MarkItem(item)]
    ELSE [live |-> w.live \cup {item.ref}, stack |-> Append(w.stack, item.ref)]

RECURSIVE Walk(_)
Walk(w) ==
    IF w.stack = <<>> THEN w.live
    ELSE Walk(FoldLeft(MarkEntry, [w EXCEPT !.stack = Front(@)], Last(w.stack).items))

Mark(live, root) ==
    IF root \in live THEN live ELSE Walk([live |-> live \cup {root}, stack |-> <<root>>])

\* The collector marks from one root after the other into one set.
MarkAll(roots) == FoldLeft(Mark, {}, roots)

-----------------------------------------------------------------------------

\* store_file puts the chunks and their list before the entry refers to them.
Put(c) == IF c.kind = "list" THEN {c.ref} \cup {i.ref : i \in Range(c.ref.items)} ELSE {}

\* Dir::upsert : the entry's kind and content agree (validate_entry).
Upsert(n, c) ==
    /\ dir' = [x \in DOMAIN dir \cup {n} |-> IF x = n THEN c ELSE dir[x]]
    /\ store' = store \cup Put(c)
    /\ UNCHANGED <<leafEnds, upperEnds, saved>>

RemoveName(n) ==
    /\ n \in DOMAIN dir
    /\ dir' = [x \in DOMAIN dir \ {n} |-> dir[x]]
    /\ UNCHANGED <<leafEnds, upperEnds, store, saved>>

Save ==
    /\ store' = store \cup SaveDir(dir).put
    /\ saved' = saved \cup {[root |-> SaveDir(dir).root, dir |-> dir]}
    /\ UNCHANGED <<leafEnds, upperEnds, dir, edits>>

Init ==
    /\ leafEnds \in Cuts
    /\ upperEnds \in {{}, {n \in Names : n % 2 = 0}}
    /\ \E most \in {0} \cup Names : dir = [n \in {m \in Names : m <= most} |-> Inline(0)]
    /\ edits = 0
    /\ store = {}
    /\ saved = {}

Contents == {Inline(c) : c \in Inlines} \cup {Listed(cs) : cs \in Lists}
            \cup {Nested(s.root) : s \in saved} \cup {CopyOf(s.root) : s \in saved}

Next ==
    \/ /\ saved # {} /\ edits < MaxEdits
       /\ edits' = edits + 1
       /\ \E n \in Names : RemoveName(n) \/ \E c \in Contents : Upsert(n, c)
    \/ Save

Spec == Init /\ [][Next]_vars

-----------------------------------------------------------------------------
(* Properties. *)

\* A directory that was saved can be loaded, and is what it was, however its
\* items fell into nodes and whatever was saved after it.
LoadsBack ==
    \A s \in saved : Load(store, s.root).ok /\ DirOf(Load(store, s.root)) = s.dir

\* diff tells exactly the names that two saved directories differ in; equal
\* directories have one root, whatever edits led there.
DiffExact ==
    \A s, t \in saved :
        /\ (s.root = t.root) = (s.dir = t.dir)
        /\ Diff(store, s.root, t.root) =
              {<<n, "removed">> : n \in DOMAIN s.dir \ DOMAIN t.dir}
              \cup {<<n, "added">> : n \in DOMAIN t.dir \ DOMAIN s.dir}
              \cup {<<n, "modified">> : n \in {m \in DOMAIN s.dir \cap DOMAIN t.dir :
                                                  s.dir[m] # t.dir[m]}}

\* Everything under a root can be loaded and read.
RECURSIVE AllReads(_, _)
AllReads(kept, root) ==
    LET load == Load(kept, root)
    IN  /\ load.ok
        /\ \A i \in DOMAIN load.items :
              LET e == load.items[i]
              IN  CASE e.kind = "dir"  -> AllReads(kept, e.ref)
                    [] e.kind = "list" -> /\ e.ref \in kept
                                          /\ \A j \in DOMAIN e.ref.items : e.ref.items[j].ref \in kept
                    [] OTHER           -> TRUE

\* What an object refers to, and as what: a node or list, to be looked into, or a
\* chunk, which is not.
RECURSIVE Uses(_)
Uses(h) ==
    UNION {CASE e.kind = "inline" -> {}
             [] e.kind = "list"   -> {<<e.ref, "node">>} \cup {<<c.ref, "chunk">> : c \in Range(e.ref.items)}
             [] OTHER             -> {<<e.ref, "node">>} \cup Uses(e.ref) : e \in Range(h.items)}

\* A file under the roots holds the bytes of a directory node or a chunk list that
\* is under the roots as well.
Disguised(roots) ==
    LET uses == UNION {{<<h, "node">>} \cup Uses(h) : h \in Range(roots)}
    IN  \E u \in uses : u[2] = "node" /\ <<u[1], "chunk">> \in uses

\* The collector marks exactly what its roots need: without any one of the marked
\* objects something under a root could no longer be read, and without all the
\* others everything can.  Excepted from the second half are files that hold the
\* bytes of a node: chunks and nodes are marked in one set, and a node that the
\* walk met as a chunk before is not looked into.
MarkExact ==
    \A s, t \in saved :
        LET roots == <<s.root, t.root>>
            live  == MarkAll(roots)
            Reads(kept) == \A h \in Range(roots) : AllReads(kept, h)
        IN  /\ ~Disguised(roots) => Reads(store \cap live)
            /\ \A h \in live : ~Reads(store \ {h})
=============================================================================
