------------------------------ MODULE RefTable ------------------------------
(***************************************************************************)
(* References, snapshots and tags (cas/src/store.rs, cas/src/disk.rs): the *)
(* table in memory, the table a mount would find, and the guarded batches  *)
(* of a client that has listed a reference and acts on what it has read.   *)
(* A commit may fail, which leaves its edits in memory, and the store may  *)
(* crash, which ends every client's session.                               *)
(***************************************************************************)
EXTENDS Integers, Sequences, SequencesExt, FiniteSets, FiniteSetsExt, Functions

CONSTANTS
    Refs, Roots, Clients, None,
    Names,      \* of tags, which all references share
    Times,      \* what the clock may say
    TimeMax,    \* the last time that can be stored
    MaxSnaps, MaxOps, MaxFails

VARIABLES
    tab, dur, dirty, view, ops, fails,
    looped,     \* references in which a chain of parents once led back (history)
    taken       \* tags that one reference once took from another (history)

vars == <<tab, dur, dirty, view, ops, fails, looped, taken>>

Classes == {"keep", "auto"}

\* A row of the table, as encode writes it and decode reads it.
Row(r, id, root, ts, parent, class) ==
    [ref |-> r, id |-> id, root |-> root, ts |-> ts, parent |-> parent, class |-> class]
Rows(t, r) == {s \in t.snaps : s.ref = r}
Ids(t, r) == {s.id : s \in Rows(t, r)}
RowOf(t, r, id) == CHOOSE s \in t.snaps : s.ref = r /\ s.id = id
Tagged(t, r) == {n \in DOMAIN t.tags : t.tags[n] # None /\ t.tags[n][1] = r}

\* What a listing of the reference shows, with the version that goes with it.
Entries(t, r) == <<Rows(t, r), {<<n, t.tags[n][2]>> : n \in Tagged(t, r)}>>
\* Some rows have all their parents among themselves.
Loops(t, r) ==
    \E ids \in SUBSET Ids(t, r) \ {{}} : \A id \in ids : RowOf(t, r, id).parent \in ids

Listing(t, r) == [ref |-> r, version |-> t.refs[r].version, entries |-> Entries(t, r)]

-----------------------------------------------------------------------------
(* commit: every reference touched since the last one goes up by one, before *)
(* the table is written.                                                     *)

Bumped(t, touched) ==
    [t EXCEPT !.refs = [r \in DOMAIN @ |->
                           IF r \in touched THEN [@[r] EXCEPT !.version = @ + 1] ELSE @[r]]]

Commit(t, touched) ==
    /\ ops < MaxOps /\ ops' = ops + 1
    /\ tab' = Bumped(t, touched)
    /\ dirty' = {}
    /\ \/ dur' = Bumped(t, touched) /\ UNCHANGED fails
       \/ fails < MaxFails /\ fails' = fails + 1 /\ UNCHANGED dur
    /\ taken' = taken \cup {n \in Names : /\ tab.tags[n] # None /\ t.tags[n] # None
                                         /\ tab.tags[n][1] # t.tags[n][1]}
    /\ UNCHANGED view

Edit(t, r) == Commit(t, dirty \cup {r}) /\ UNCHANGED looped

-----------------------------------------------------------------------------
(* Edits of a table; the calls and the batch make the same ones. *)

NotFound(t, r, id) == id \notin Ids(t, r)
Pinned(t, r, id) == \E n \in DOMAIN t.tags : t.tags[n] = <<r, id>>

\* Mutant: the children of the row keep it as their parent.
RowDropped(t, r, id) == [t EXCEPT !.snaps = @ \ {RowOf(t, r, id)}]

\* The children of a row that goes are given its parent.
DropRow(t, r, id) ==
    LET row == RowOf(t, r, id) IN
    [t EXCEPT !.snaps = {IF s.ref = r /\ s.parent = id THEN [s EXCEPT !.parent = row.parent] ELSE s :
                         s \in @ \ {row}}]
ChangeRow(t, r, id, new) == [t EXCEPT !.snaps = (@ \ {RowOf(t, r, id)}) \cup {new}]
SetClassOf(t, r, id, class) == ChangeRow(t, r, id, [RowOf(t, r, id) EXCEPT !.class = class])
SetParentOf(t, r, id, p) == ChangeRow(t, r, id, [RowOf(t, r, id) EXCEPT !.parent = p])
PutTag(t, n, r, id) == [t EXCEPT !.tags[n] = <<r, id>>]
DropTag(t, n) == [t EXCEPT !.tags[n] = None]
Mine(t, n, r) == t.tags[n] # None /\ t.tags[n][1] = r

-----------------------------------------------------------------------------
(* Calls. *)

\* Mutant: the clock is trusted to go forward.
ClockOnly(t, r, now) == now

\* Later than the snapshot before, whatever the clock says.
Stamp(t, r, now) ==
    IF Ids(t, r) = {} THEN now
    ELSE LET last == RowOf(t, r, Max(Ids(t, r))).ts
         IN  Max({now, Min({last + 1, TimeMax})})

\* The flush that precedes moved the head, or had nothing to write.
HeadAt(t, r, root) == [t EXCEPT !.refs[r].root = root]

Snapshot(r, root, now) ==
    LET t  == HeadAt(tab, r, root)
        id == t.refs[r].next
        parent == IF Ids(t, r) = {} THEN None ELSE Max(Ids(t, r))
    IN  /\ id <= MaxSnaps
        /\ Edit([t EXCEPT !.snaps = @ \cup {Row(r, id, root, Stamp(t, r, now), parent, "auto")},
                          !.refs[r].next = id + 1], r)

Rollback(r, id) ==
    /\ ~NotFound(tab, r, id)
    /\ Edit(HeadAt(tab, r, RowOf(tab, r, id).root), r)

Tag(n, r, id) == ~NotFound(tab, r, id) /\ Edit(PutTag(tab, n, r, id), r)
\* Mutant: the edit version stays as it is.
UntagSilently(n, r) == Mine(tab, n, r) /\ Commit(DropTag(tab, n), dirty) /\ UNCHANGED looped

Untag(n, r) == Mine(tab, n, r) /\ Edit(DropTag(tab, n), r)

DeleteSnapshot(r, id) ==
    /\ ~NotFound(tab, r, id) /\ ~Pinned(tab, r, id)
    /\ Edit(DropRow(tab, r, id), r)

SetSnapshotClass(r, id, class) == ~NotFound(tab, r, id) /\ Edit(SetClassOf(tab, r, id, class), r)

Sync(r, root) == Edit(HeadAt(tab, r, root), r)

\* The flush of one reference, in a call that then fails on another.
FlushOnly(r, root) ==
    /\ ops < MaxOps /\ ops' = ops + 1
    /\ tab' = HeadAt(tab, r, root) /\ dirty' = dirty \cup {r}
    /\ UNCHANGED <<dur, view, fails, looped, taken>>

-----------------------------------------------------------------------------
(* Guarded batches. *)

Edits ==
    [op : {"drop"}, id : 1 .. MaxSnaps]
    \cup [op : {"class"}, id : 1 .. MaxSnaps, class : {"keep"}]
    \cup [op : {"parent"}, id : 1 .. MaxSnaps, parent : {None} \cup 1 .. MaxSnaps]
    \cup [op : {"tag"}, id : 1 .. MaxSnaps, name : Names]
    \cup [op : {"untag"}, name : Names]

Refused(t, r, e) ==
    CASE e.op = "drop"   -> NotFound(t, r, e.id) \/ Pinned(t, r, e.id)
      [] e.op = "parent" -> (e.parent # None /\ NotFound(t, r, e.parent)) \/ NotFound(t, r, e.id)
      [] e.op = "untag"  -> FALSE
      [] OTHER           -> NotFound(t, r, e.id)

\* A tag of another reference is left alone.
ApplyRefEdit(t, r, e) ==
    CASE e.op = "drop"   -> DropRow(t, r, e.id)
      [] e.op = "class"  -> SetClassOf(t, r, e.id, e.class)
      [] e.op = "parent" -> SetParentOf(t, r, e.id, e.parent)
      [] e.op = "tag"    -> PutTag(t, e.name, r, e.id)
      [] e.op = "untag"  -> IF Mine(t, e.name, r) THEN DropTag(t, e.name) ELSE t

\* On a copy, so that an edit that is refused leaves nothing of the others.
Staged(t, r, es) ==
    FoldLeft(LAMBDA s, e : IF s.bad \/ Refused(s.t, r, e) THEN [s EXCEPT !.bad = TRUE]
                           ELSE LET u == ApplyRefEdit(s.t, r, e)
                                IN  [s EXCEPT !.t = u, !.loop = @ \/ (e.op = "parent" /\ Loops(u, r))],
             [t |-> t, bad |-> FALSE, loop |-> FALSE], es)

Enumerate(c, r) ==
    /\ view[c] = None
    /\ view' = [view EXCEPT ![c] = Listing(tab, r)]
    /\ UNCHANGED <<tab, dur, dirty, ops, fails, looped, taken>>

ApplyBatch(c, es) ==
    LET r == view[c].ref
        s == Staged(tab, r, es)
    IN  /\ view[c] # None
        /\ view[c].version = tab.refs[r].version
        /\ ops < MaxOps /\ ~s.bad
        /\ Commit(s.t, dirty \cup {r})
        /\ looped' = IF s.loop THEN looped \cup {r} ELSE looped

Forget(c) ==
    /\ view[c] # None
    /\ view' = [view EXCEPT ![c] = None]
    /\ UNCHANGED <<tab, dur, dirty, ops, fails, looped, taken>>

\* The next mount decodes what the last commit that landed encoded.
Crash ==
    /\ dur # tab
    /\ tab' = dur /\ dirty' = {}
    /\ view' = [c \in Clients |-> None]
    /\ UNCHANGED <<dur, ops, fails, looped, taken>>

-----------------------------------------------------------------------------

Init ==
    /\ \E root \in Roots :
          tab = [refs  |-> [r \in Refs |-> [root |-> root, next |-> 1, version |-> 0]],
                 snaps |-> {},
                 tags  |-> [n \in Names |-> None]]
    /\ dur = tab /\ dirty = {}
    /\ view = [c \in Clients |-> None]
    /\ ops = 0 /\ fails = 0 /\ looped = {} /\ taken = {}

Next ==
    \/ \E r \in Refs, root \in Roots :
          \/ Sync(r, root) \/ FlushOnly(r, root)
          \/ \E now \in Times : Snapshot(r, root, now)
    \/ \E r \in Refs, id \in 1 .. MaxSnaps :
          \/ Rollback(r, id) \/ DeleteSnapshot(r, id)
          \/ \E class \in Classes : SetSnapshotClass(r, id, class)
          \/ \E n \in Names : Tag(n, r, id)
    \/ \E r \in Refs, n \in Names : Untag(n, r)
    \/ \E c \in Clients :
          \/ Forget(c)
          \/ \E r \in Refs : Enumerate(c, r)
          \/ view[c] # None /\ \E e, f \in Edits : ApplyBatch(c, <<e, f>>)
    \/ Crash

Spec == Init /\ [][Next]_vars

-----------------------------------------------------------------------------
(* Properties. *)

\* While the version a client has read is still the reference's version, the
\* rows and the tags of the reference are the ones it has read: a guarded batch
\* that passes acts on what its client saw (apply_batch, touch_ref, commit).
\* Excepted are tags that another reference took: the one that loses the tag
\* keeps its version.
Untaken(entries) == <<entries[1], {x \in entries[2] : x[1] \notin taken}>>
VersionTells ==
    \A c \in Clients : view[c] # None /\ view[c].version = tab.refs[view[c].ref].version
        => Untaken(view[c].entries) = Untaken(Entries(tab, view[c].ref))

\* In memory and on disk, a parent is a row of the same reference that is still
\* there, and so is what a tag points at: deleting rows one by one or in a batch
\* leaves neither dangling.  Excepted are the parents in a reference where a batch
\* has made a row its own ancestor: when that row is deleted, its children are
\* given the row itself.
Sound(t) ==
    /\ \A s \in t.snaps : s.parent # None /\ s.ref \notin looped => ~NotFound(t, s.ref, s.parent)
    /\ \A n \in DOMAIN t.tags : t.tags[n] # None => ~NotFound(t, t.tags[n][1], t.tags[n][2])
TableSound == Sound(tab) /\ Sound(dur)

\* Along a reference time goes up strictly, until the last time there is, with
\* a clock that goes backwards and rows that are deleted in between.
TimesAscend ==
    \A s, t \in tab.snaps : s.ref = t.ref /\ s.id < t.id => s.ts < t.ts \/ t.ts = TimeMax
=============================================================================
