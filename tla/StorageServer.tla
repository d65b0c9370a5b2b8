---------------------------- MODULE StorageServer ----------------------------
(***************************************************************************)
(* The storage server's handles, claim tickets and garbage collection      *)
(* (storage-server/src/lib.rs), over a store with one ref.  A tree of the  *)
(* store is a number; a directory handle is a tree with a path below its   *)
(* root, the empty one or the one directory "d", which not every tree has. *)
(* The server handles one request at a time, replies, and then runs the    *)
(* collection a request asked for.                                         *)
(***************************************************************************)
EXTENDS Integers, Sequences, FiniteSets, FiniteSetsExt, Functions, TLC

CONSTANTS
    Masks,       \* the rights masks a client may pass
    MaxTtl,      \* MAX_TICKET_TTL_NANOS
    MaxNow,      \* bounds the clock
    Total,       \* trees the store has room for
    MaxTrees,    \* bounds the trees ever made
    MaxSnaps,    \* bounds the snapshots ever taken
    MaxHandles,  \* bounds the handles ever made in a session
    MaxRequests, MaxTickets, MaxConnects, MaxRevokes, MaxFails

VARIABLES
    st,       \* the store; tagged: the snapshot its tag is on, or 0; moved: something
              \* was committed since the last collection (gc_done_gen)
    sess,     \* session -> its handles
    tickets,  \* ticket -> the handle it stands for, and when it expires
    seq,      \* ticket_seq
    now,
    gcAsked,  \* gc_requested
    epoch,    \* how often the ref was revoked
    trash,    \* trees whose last name a request took away
    asked, fails

vars == <<st, sess, tickets, seq, now, gcAsked, epoch, trash, asked, fails>>

RefRights == {"read", "write", "snapshot", "rewrite", "enumerate"}
AllRights == RefRights \cup {"stat"}
Shell == "shell"
Fs == "fs"
Sessions == {Shell, Fs}

Ref(sub, gen, rights, born) ==
    [kind |-> "ref", sub |-> sub, gen |-> gen, tree |-> 0, rights |-> rights, born |-> born]
Snap(tree, sub, rights, born) ==
    [kind |-> "snap", sub |-> sub, gen |-> 0, tree |-> tree, rights |-> rights, born |-> born]

-----------------------------------------------------------------------------
(* The store, as far as the server uses it. *)

Named(s) == {s.head} \cup Range(s.snaps)
Free(s) == Total - Cardinality(s.trees)
LowSpace(s) == Free(s) * 5 < Total
HasDir(tree) == tree \in st.dirs

\* sync_ref: the overlay becomes a tree, which takes room.
CanSync == ~st.dirty \/ (Free(st) > 0 /\ st.next <= MaxTrees)
Synced(s) ==
    IF ~s.dirty THEN [s EXCEPT !.moved = TRUE]
    ELSE [s EXCEPT !.head = s.next, !.trees = @ \cup {s.next}, !.next = @ + 1, !.dirty = FALSE,
                   !.dirs = IF s.mkdir \/ s.head \in @ THEN @ \cup {s.next} ELSE @,
                   !.mkdir = FALSE, !.moved = TRUE]

Kept(s) == [s EXCEPT !.trees = Named(s), !.moved = FALSE]

-----------------------------------------------------------------------------
(* Sessions and handles. *)

Grant(s, rights) == Ref("", s.refGen, rights, epoch)
root_grant == Grant(st, AllRights)

Insert(sid, e) ==
    /\ sess[sid].next <= MaxHandles
    /\ sess' = [sess EXCEPT ![sid].handles = (sess[sid].next :> e) @@ @, ![sid].next = @ + 1]

Usable(e) == e.kind = "ref" => e.gen = st.refGen

\* lookup: the handle is there, its ref is still of the generation it was
\* granted under, and it has the rights the request needs.
Lookup(sid, h, need) ==
    /\ h \in DOMAIN sess[sid].handles
    /\ Usable(sess[sid].handles[h])
    /\ need \subseteq sess[sid].handles[h].rights

\* Requests on the whole ref want a handle on all of it.
RewriteTarget(sid, h) ==
    /\ Lookup(sid, h, {"rewrite"})
    /\ sess[sid].handles[h].kind = "ref" /\ sess[sid].handles[h].sub = ""

\* handle: after every request, low space asks for a collection unless nothing
\* was committed since the last one.
Watermark(s, ask) == gcAsked' = (ask \/ (LowSpace(s) /\ s.moved))

Done(s, ask) ==
    /\ st' = s /\ Watermark(s, ask)
    /\ asked < MaxRequests /\ asked' = asked + 1

-----------------------------------------------------------------------------
(* Requests. *)

\* Read, List, Stat and the refusals of every request change nothing but may
\* pass the watermark.
Read == Done(st, FALSE) /\ UNCHANGED <<sess, tickets, seq, now, epoch, trash, fails>>

Write(sid, h, dir) ==
    /\ Lookup(sid, h, {"write"}) /\ sess[sid].handles[h].kind = "ref"
    /\ Done([st EXCEPT !.dirty = TRUE, !.mkdir = @ \/ dir \/ sess[sid].handles[h].sub = "d"], FALSE)
    /\ UNCHANGED <<sess, tickets, seq, now, epoch, trash, fails>>

Sync(sid, h) ==
    /\ Lookup(sid, h, {"write"}) /\ sess[sid].handles[h].kind = "ref" /\ CanSync
    /\ Done(Synced(st), FALSE)
    /\ UNCHANGED <<sess, tickets, seq, now, epoch, trash, fails>>

\* Mutant: the child has the rights asked for.
OpenChildAsks(sid, h, mask) ==
    LET e == sess[sid].handles[h]
    IN  /\ Lookup(sid, h, {})
        /\ e.sub = "" /\ HasDir(IF e.kind = "ref" THEN st.head ELSE e.tree)
        /\ Insert(sid, [e EXCEPT !.sub = "d", !.rights = mask])
        /\ Done(st, FALSE)
        /\ UNCHANGED <<tickets, seq, now, epoch, trash, fails>>

\* OpenChild: the rights are cut with the mask, and the child keeps the
\* generation of its parent.
OpenChild(sid, h, mask) ==
    LET e == sess[sid].handles[h]
    IN  /\ Lookup(sid, h, {})
        /\ e.sub = "" /\ HasDir(IF e.kind = "ref" THEN st.head ELSE e.tree)
        /\ Insert(sid, [e EXCEPT !.sub = "d", !.rights = e.rights \cap mask])
        /\ Done(st, FALSE)
        /\ UNCHANGED <<tickets, seq, now, epoch, trash, fails>>

Close(sid, h) ==
    /\ h \in DOMAIN sess[sid].handles
    /\ sess' = [sess EXCEPT ![sid].handles = Restrict(@, DOMAIN @ \ {h})]
    /\ Done(st, FALSE)
    /\ UNCHANGED <<tickets, seq, now, epoch, trash, fails>>

TakeSnapshot(sid, h) ==
    /\ Lookup(sid, h, {"snapshot"}) /\ sess[sid].handles[h].kind = "ref" /\ CanSync
    /\ st.nextSnap <= MaxSnaps
    /\ LET s == Synced(st)
       IN  Done([s EXCEPT !.snaps = (s.nextSnap :> s.head) @@ @, !.nextSnap = @ + 1], FALSE)
    /\ UNCHANGED <<sess, tickets, seq, now, epoch, trash, fails>>

\* A handle on a snapshot: below the subtree the ref handle is confined to.
OpenSnapshot(sid, h, id, sub, mask) ==
    LET e == sess[sid].handles[h]
        tree == st.snaps[id]
    IN  /\ Lookup(sid, h, {"read"}) /\ e.kind = "ref"
        /\ e.sub = "d" => sub = "d"
        /\ sub = "d" => HasDir(tree)
        /\ Insert(sid, Snap(tree, sub, e.rights \cap mask \cap {"read", "enumerate"}, e.born))
        /\ Done(st, FALSE)
        /\ UNCHANGED <<tickets, seq, now, epoch, trash, fails>>

Rollback(sid, h, id) ==
    /\ RewriteTarget(sid, h)
    /\ LET s == [st EXCEPT !.head = st.snaps[id], !.dirty = FALSE, !.mkdir = FALSE, !.moved = TRUE]
       IN  Done(s, TRUE) /\ trash' = trash \cup ({st.head} \ Named(s))
    /\ UNCHANGED <<sess, tickets, seq, now, epoch, fails>>

\* Refused as Pinned while the snapshot has the tag.
DeleteSnapshot(sid, h, id) ==
    /\ RewriteTarget(sid, h) /\ id # st.tagged
    /\ LET s == [st EXCEPT !.snaps = Restrict(@, DOMAIN @ \ {id}), !.moved = TRUE]
       IN  Done(s, TRUE) /\ trash' = trash \cup ({st.snaps[id]} \ Named(s))
    /\ UNCHANGED <<sess, tickets, seq, now, epoch, fails>>

\* Edits of rows, committed but with nothing to collect.
EditRow(sid, h, s) ==
    /\ RewriteTarget(sid, h)
    /\ Done([s EXCEPT !.moved = TRUE], FALSE)
    /\ UNCHANGED <<sess, tickets, seq, now, epoch, trash, fails>>
SetClass(sid, h, id) == EditRow(sid, h, st)
Tag(sid, h, id) == EditRow(sid, h, [st EXCEPT !.tagged = id])
Untag(sid, h) == st.tagged # 0 /\ EditRow(sid, h, [st EXCEPT !.tagged = 0])

\* Mutant: a batch that deletes asks for no collection.
ApplyForgets(sid, h, gone) ==
    /\ RewriteTarget(sid, h) /\ st.tagged \notin gone
    /\ LET s == [st EXCEPT !.snaps = Restrict(@, DOMAIN @ \ gone), !.moved = TRUE]
       IN  Done(s, FALSE) /\ trash' = trash \cup (Range(st.snaps) \ Named(s))
    /\ UNCHANGED <<sess, tickets, seq, now, epoch, fails>>

\* Apply: a batch that deletes asks for a collection, any other does not.
Apply(sid, h, gone) ==
    /\ RewriteTarget(sid, h) /\ st.tagged \notin gone
    /\ LET s == [st EXCEPT !.snaps = Restrict(@, DOMAIN @ \ gone), !.moved = TRUE]
       IN  Done(s, gone # {}) /\ trash' = trash \cup (Range(st.snaps) \ Named(s))
    /\ UNCHANGED <<sess, tickets, seq, now, epoch, fails>>

RevokeRef(sid, h) ==
    /\ RewriteTarget(sid, h) /\ epoch < MaxRevokes
    /\ epoch' = epoch + 1
    /\ Done([st EXCEPT !.refGen = @ + 1, !.moved = TRUE], FALSE)
    /\ UNCHANGED <<sess, tickets, seq, now, trash, fails>>

MintTicket(sid, h, ttl) ==
    /\ Lookup(sid, h, {}) /\ seq < MaxTickets
    /\ seq' = seq + 1
    /\ tickets' = (seq' :> [entry |-> sess[sid].handles[h], expires |-> now + Min({ttl, MaxTtl})]) @@ tickets
    /\ Done(st, FALSE)
    /\ UNCHANGED <<sess, now, epoch, trash, fails>>

\* Mutant: the handle is given the ref's present generation.
RedeemRestamps(sid, t) ==
    /\ tickets' = Restrict(tickets, DOMAIN tickets \ {t})
    /\ IF now > tickets[t].expires THEN UNCHANGED sess
       ELSE Insert(sid, [tickets[t].entry EXCEPT !.gen = IF tickets[t].entry.kind = "ref" THEN st.refGen ELSE 0])
    /\ Done(st, FALSE)
    /\ UNCHANGED <<seq, now, epoch, trash, fails>>

\* A ticket is gone once it was shown, in time or not.
RedeemTicket(sid, t) ==
    /\ tickets' = Restrict(tickets, DOMAIN tickets \ {t})
    /\ IF now > tickets[t].expires THEN UNCHANGED sess ELSE Insert(sid, tickets[t].entry)
    /\ Done(st, FALSE)
    /\ UNCHANGED <<seq, now, epoch, trash, fails>>

-----------------------------------------------------------------------------
(* Collection, connections and time. *)

\* run_gc: sync_all, mark from the head and the snapshots, sweep, commit.
RunGc(ok) ==
    /\ gcAsked /\ gcAsked' = FALSE
    /\ ok => CanSync
    /\ IF ok THEN st' = Kept(Synced(st)) /\ UNCHANGED fails
             ELSE fails < MaxFails /\ fails' = fails + 1 /\ UNCHANGED st
    /\ UNCHANGED <<sess, tickets, seq, now, epoch, trash, asked>>

\* Gc: the same as a request of its own.
Gc(sid, h, ok) ==
    /\ RewriteTarget(sid, h)
    /\ ok => CanSync
    /\ IF ok THEN Done(Kept(Synced(st)), FALSE) /\ UNCHANGED fails
             ELSE fails < MaxFails /\ fails' = fails + 1 /\ Done(st, FALSE)
    /\ UNCHANGED <<sess, tickets, seq, now, epoch, trash>>

\* A program connects: the session of the one before it is closed.
Reconnect ==
    /\ sess[Fs].times < MaxConnects
    /\ sess' = [sess EXCEPT ![Fs] = [handles |-> (0 :> root_grant), next |-> 1, times |-> @.times + 1]]
    /\ UNCHANGED <<st, tickets, seq, now, gcAsked, epoch, trash, asked, fails>>

Tick ==
    /\ now < MaxNow /\ now' = now + 1
    /\ UNCHANGED <<st, sess, tickets, seq, gcAsked, epoch, trash, asked, fails>>

-----------------------------------------------------------------------------

Init ==
    /\ st = [moved |-> TRUE, refGen |-> 1, head |-> 1, dirty |-> FALSE, mkdir |-> FALSE,
             snaps |-> <<>>, nextSnap |-> 1, tagged |-> 0, trees |-> {1}, next |-> 2, dirs |-> {}]
    /\ epoch = 0
    /\ sess = [sid \in Sessions |-> [handles |-> IF sid = Shell THEN 0 :> Ref("", 1, AllRights, 0) ELSE <<>>,
                                     next |-> 1, times |-> 0]]
    /\ tickets = <<>> /\ seq = 0 /\ now = 0
    /\ gcAsked = FALSE /\ trash = {} /\ asked = 0 /\ fails = 0

Request(sid) ==
    \/ Read
    \/ \E h \in DOMAIN sess[sid].handles :
          \/ \E dir \in BOOLEAN : Write(sid, h, dir)
          \/ Sync(sid, h) \/ Close(sid, h) \/ TakeSnapshot(sid, h) \/ RevokeRef(sid, h)
          \/ Untag(sid, h) \/ \E ok \in BOOLEAN : Gc(sid, h, ok)
          \/ \E mask \in Masks : OpenChild(sid, h, mask)
          \/ \E id \in DOMAIN st.snaps : Rollback(sid, h, id) \/ DeleteSnapshot(sid, h, id) \/ SetClass(sid, h, id) \/ Tag(sid, h, id)
          \/ \E id \in DOMAIN st.snaps, sub \in {"", "d"}, mask \in Masks : OpenSnapshot(sid, h, id, sub, mask)
          \/ \E gone \in SUBSET DOMAIN st.snaps : Apply(sid, h, gone)
          \/ \E ttl \in {1, MaxTtl + 1} : MintTicket(sid, h, ttl)
    \/ \E t \in DOMAIN tickets : RedeemTicket(sid, t)

Next ==
    \/ ~gcAsked /\ \E sid \in Sessions : Request(sid)
    \/ ~gcAsked /\ Reconnect
    \/ \E ok \in BOOLEAN : RunGc(ok)
    \/ Tick

Spec == Init /\ [][Next]_vars

-----------------------------------------------------------------------------
(* Properties. *)

Entries == UNION {Range(sess[sid].handles) : sid \in Sessions} \cup {t.entry : t \in Range(tickets)}

\* e lets its holder do no less than d: the same ref or a snapshot of it, no
\* smaller subtree, no fewer rights.
Covers(e, d) ==
    /\ d.rights \subseteq e.rights
    /\ e.sub = "d" => d.sub = "d"
    /\ e.kind = "snap" => d.kind = "snap" /\ d.tree = e.tree
    /\ e.kind = "ref" /\ d.kind = "snap" => d.rights \subseteq {"read", "enumerate"}

\* No request makes a handle or ticket that some handle or ticket did not cover
\* before; only a connection brings authority from outside (attenuate, OpenChild,
\* OpenSnapshot, MintTicket, RedeemTicket).
EntriesCovered == \A d \in Entries' \ Entries : d = root_grant \/ \E e \in Entries : Covers(e, d)
NothingGained == [][EntriesCovered]_vars

\* Once the ref is revoked, no handle on it that stems from before is usable,
\* nor one made from it later by a ticket that was out at the time (RevokeRef,
\* lookup).
RevokedStays == \A e \in Entries : e.kind = "ref" /\ Usable(e) => e.born = epoch

\* Between requests the trees that a rollback, a deletion or a batch took the
\* last name from are gone, if no collection has failed (gc_requested).
Reclaimed == ~gcAsked /\ fails = 0 => (trash \cap st.trees) \subseteq Named(st)
=============================================================================
