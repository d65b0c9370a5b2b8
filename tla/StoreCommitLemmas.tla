-------------------------- MODULE StoreCommitLemmas --------------------------
(***************************************************************************)
(* The inductive invariant of StoreCommit, the lemmas about the operators  *)
(* it is built from, and its preservation by the request and log steps,    *)
(* for every number of refs and files, every ring length and every mix of  *)
(* requests, crashes and device errors.                                    *)
(***************************************************************************)
EXTENDS StoreCommit, SequenceTheorems, WellFoundedInduction, TLAPS

-----------------------------------------------------------------------------
(* Least and greatest elements: what First and LastOf choose exists. *)

\* A set of numbers that is not empty has a least element.
LEMMA LeastElement ==
    ASSUME NEW T \in SUBSET Nat, T # {}
    PROVE  \E x \in T : \A y \in T : x <= y
<1>1. IsWellFoundedOn(OpToRel(<, Nat), Nat)
  BY NatLessThanWellFounded
<1>2. PICK x \in T : \A y \in T : ~ (<<y, x>> \in OpToRel(<, Nat))
  BY <1>1, WFMin
<1>3. \A y \in T : ~ (y < x)
  BY <1>2 DEF OpToRel
<1> QED BY <1>3

\* The last of the elements of a bounded set of numbers is one of them.
LEMMA LastOfIsLast ==
    ASSUME NEW n \in Nat, NEW S \in SUBSET (0 .. n), S # {}
    PROVE  LastOf(S) \in S /\ \A j \in S : j <= LastOf(S)
<1> DEFINE T == {n - j : j \in S}
<1>0. PICK k \in S : TRUE
  OBVIOUS
<1>1. T \in SUBSET Nat /\ n - k \in T
  OBVIOUS
<1>2. PICK x \in T : \A y \in T : x <= y
  BY <1>1, LeastElement
<1>3. PICK i \in S : x = n - i
  OBVIOUS
<1>4. \A j \in S : j <= i
  BY <1>2, <1>3
<1> QED BY <1>4 DEF LastOf

\* The first record of the log is a record of the log.
LEMMA FirstIsFirst ==
    ASSUME NEW S \in SUBSET Recs, S # {}
    PROVE  First(S) \in S /\ \A y \in S : First(S).seq <= y.seq
<1> DEFINE T == {x.seq : x \in S}
<1>1. T \in SUBSET Nat /\ T # {}
  BY DEF Recs
<1>2. PICK m \in T : \A y \in T : m <= y
  BY <1>1, LeastElement
<1>3. PICK x \in S : x.seq = m
  OBVIOUS
<1>4. \A y \in S : x.seq <= y.seq
  BY <1>2, <1>3
<1> QED BY <1>4 DEF First

\* The tail and the offsets of recovery are reduced to the ring.
LEMMA WrapsToOffs == ASSUME NEW n \in Nat PROVE n % WalLen \in Offs
  BY StoreCommitAssumption DEF Offs

-----------------------------------------------------------------------------
(* What a flush or a power loss makes of the pending writes. *)

\* kept says how much of every pending write reaches the disk.
Keeps(kept) == \A i \in DOMAIN pend : kept[i] \in 0 .. Units(pend[i])

\* Every pending device write is a run of cells or a whole superblock.
LEMMA PendTypes ==
    ASSUME TypeOK, NEW i \in DOMAIN pend
    PROVE  /\ Len(pend) \in Nat /\ DOMAIN pend = 1 .. Len(pend)
           /\ pend[i] \in Writes
           /\ pend[i].what = "wal" => /\ pend[i].at \in Offs
                                      /\ pend[i].cells \in Seq(Cells)
                                      /\ Len(pend[i].cells) \in Nat
           /\ pend[i].what = "sb" => /\ pend[i].at \in Slots
                                     /\ pend[i].sb \in Superblocks
           /\ Units(pend[i]) \in Nat
<1>1. pend \in Seq(Writes)
  BY DEF TypeOK
<1>2. Len(pend) \in Nat /\ DOMAIN pend = 1 .. Len(pend) /\ pend[i] \in Writes
  BY <1>1, LenProperties, ElementOfSeq
<1> QED BY <1>2 DEF Writes, Units

\* A device flush keeps every pending write to its full length.
LEMMA KeepAll == ASSUME TypeOK PROVE Keeps(AllKept)
  BY PendTypes DEF Keeps, AllKept

\* The ring and the slots keep their types.
LEMMA PersistTypes ==
    ASSUME TypeOK, NEW kept, Keeps(kept), PersistRing(kept), PersistSlots(kept)
    PROVE  /\ ring' \in [Offs -> Cells]
           /\ slot' \in [Slots -> Superblocks \cup {None}]
<1>1. ASSUME NEW p \in Offs, Reach(kept, p) # {}
      PROVE  LET i == LastOf(Reach(kept, p))
             IN  pend[i].cells[p - pend[i].at + 1] \in Cells
  <2> DEFINE i == LastOf(Reach(kept, p))
  <2>1. Len(pend) \in Nat /\ Reach(kept, p) \in SUBSET (0 .. Len(pend))
    BY <1>1, PendTypes DEF Reach
  <2>2. i \in Reach(kept, p)
    BY <1>1, <2>1, LastOfIsLast
  <2>3. i \in DOMAIN pend /\ pend[i].what = "wal" /\ pend[i].at \in Offs
        /\ pend[i].cells \in Seq(Cells) /\ Len(pend[i].cells) \in Nat
    BY <2>2, PendTypes DEF Reach
  <2>4. kept[i] <= Len(pend[i].cells) /\ kept[i] \in Nat
    BY <2>3 DEF Keeps, Units
  <2>5. p - pend[i].at + 1 \in 1 .. Len(pend[i].cells)
    BY <2>2, <2>3, <2>4 DEF Reach, Offs
  <2> QED BY <2>3, <2>5, ElementOfSeq
<1>2. ring' \in [Offs -> Cells]
  BY <1>1 DEF PersistRing, TypeOK
<1>3. ASSUME NEW s \in Slots, Strike(kept, s) # {}
      PROVE  pend[LastOf(Strike(kept, s))].sb \in Superblocks
  <2>1. Len(pend) \in Nat /\ Strike(kept, s) \in SUBSET (0 .. Len(pend))
    BY <1>3, PendTypes DEF Strike
  <2> QED BY <1>3, <2>1, LastOfIsLast, PendTypes DEF Strike
<1>4. slot' \in [Slots -> Superblocks \cup {None}]
  BY <1>3 DEF PersistSlots, TypeOK
<1> QED BY <1>2, <1>4

\* A slot stays as it is, is torn, or takes a superblock that was on its way.
LEMMA PersistEffect ==
    ASSUME TypeOK, NEW kept, Keeps(kept), PersistSlots(kept), NEW s \in Slots
    PROVE  \/ slot'[s] = slot[s]
           \/ \E i \in DOMAIN pend : /\ pend[i].what = "sb" /\ pend[i].at = s
                                     /\ slot'[s] \in {None, pend[i].sb}
<1>1. CASE Strike(kept, s) = {}
  BY <1>1 DEF PersistSlots
<1>2. CASE Strike(kept, s) # {}
  <2>1. Len(pend) \in Nat /\ Strike(kept, s) \in SUBSET (0 .. Len(pend))
    BY <1>2, PendTypes DEF Strike
  <2>2. LastOf(Strike(kept, s)) \in Strike(kept, s)
    BY <1>2, <2>1, LastOfIsLast
  <2> QED BY <1>2, <2>2 DEF PersistSlots, Strike
<1> QED BY <1>1, <1>2

-----------------------------------------------------------------------------
(* The inductive invariant *)

\* Where the commits in progress are: their numbers are spent, the superblock
\* of a commit is alone behind barrier 1, and only a write that fits the ring
\* is ever in the part of the handler that deals with the log.
ControlOK ==
    /\ unsynced \subseteq 1 .. nCommits /\ lost \subseteq 1 .. nCommits
    /\ \A s \in Slots : slot[s] # None => slot[s].img <= nCommits
    /\ \A i \in DOMAIN pend : pend[i].what = "sb" => pend[i].sb.img <= nCommits
    /\ pc = "down" => pend = <<>> /\ unsynced = {}
    /\ pc = "barrier1" => nCommits \notin lost
    /\ pc = "barrier2" => /\ Len(pend) = 1 /\ pend[1].what = "sb"
                          /\ pend[1].at = CommitTarget(live)
    /\ job.kind = "write" => job.len \in RecLens
    /\ \/ pc \in {"relieve", "walsync"}
       \/ pc \in {"flush", "put", "barrier1", "barrier2"} /\ ret = "relieve"
       => job.kind = "write" /\ job.len <= WalLen
    /\ job.kind = "write" =>
          \E r \in Refs, f \in Files : job.ref = {r} /\ job.files = {f}

IInv == TypeOK /\ ControlOK /\ LiveSlotSafe

\* format leaves a store that satisfies the invariant.
LEMMA InitInv == Init => IInv
<1> SUFFICES ASSUME Init PROVE IInv
  OBVIOUS
<1> USE StoreCommitAssumption, NoneAssumption
<1>1. EmptyTable \in Tables /\ EmptyTree \in Trees
  BY DEF EmptyTable, Tables, EmptyTree, Trees, Vals
<1>2. ring \in [Offs -> Cells] /\ pend \in Seq(Writes)
  BY DEF Init, Cells
<1>3. 0 \in Offs
  BY DEF Offs
<1>4. sb \in Superblocks
  BY <1>1, <1>3 DEF Init, Superblocks
<1>5. slot \in [Slots -> Superblocks \cup {None}]
  BY <1>4 DEF Init
<1>6. job \in Jobs
  BY <1>1 DEF Init, NoJob, Jobs, Kinds
<1>7. TypeOK
  BY <1>1, <1>2, <1>3, <1>4, <1>5, <1>6 DEF Init, TypeOK, Slots, Clean, Pcs
<1>8. ControlOK /\ LiveSlotSafe
  BY DEF Init, ControlOK, LiveSlotSafe, Slots, NoJob
<1> QED BY <1>7, <1>8 DEF IInv

\* create_ref only enters its commit.
LEMMA CreateRefInv == ASSUME IInv, NEW r \in Refs, CreateRef(r) PROVE IInv'
<1> USE StoreCommitAssumption, NoneAssumption
<1>0. EmptyTree \in Trees
  BY DEF EmptyTree, Trees, Vals
<1>1. job' \in Jobs /\ job'.kind = "create"
  BY <1>0 DEF CreateRef, NoJob, Jobs, Kinds
<1>2. TypeOK'
  BY <1>1 DEF CreateRef, IInv, TypeOK, device, memory, history, Pcs
<1>3. ControlOK' /\ LiveSlotSafe'
  BY <1>1 DEF CreateRef, IInv, ControlOK, LiveSlotSafe, device, memory, history
<1> QED BY <1>2, <1>3 DEF IInv

\* write, logged or oversized, touches no slot and no pending write.
LEMMA WriteInv ==
    ASSUME IInv, NEW r \in Refs, NEW f \in Files, NEW len \in RecLens, Write(r, f, len)
    PROVE  IInv'
<1> USE StoreCommitAssumption, NoneAssumption
<1>0. nOps + 1 \in Vals /\ len \in Nat /\ nOps' \in 0 .. MaxOps
  BY DEF Write, Start, IInv, TypeOK, Vals
<1>1. [EmptyTree EXCEPT ![f] = nOps + 1] \in Trees
  BY <1>0 DEF EmptyTree, Trees, Vals
<1>2. /\ job' \in Jobs /\ job'.kind = "write" /\ job'.len = len
      /\ job'.ref = {r} /\ job'.files = {f}
  BY <1>0, <1>1 DEF Write, Start, Jobs, Kinds
<1>3. overlay' \in [Refs -> [Files -> Vals \cup {None}]]
  <2>1. overlay \in [Refs -> [Files -> Vals \cup {None}]]
    BY DEF IInv, TypeOK
  <2>2. [overlay[r] EXCEPT ![f] = nOps + 1] \in [Files -> Vals \cup {None}]
    BY <1>0, <2>1
  <2>3. \/ overlay' = overlay
        \/ overlay' = [overlay EXCEPT ![r] = [overlay[r] EXCEPT ![f] = nOps + 1]]
    BY DEF Write
  <2> QED BY <2>1, <2>2, <2>3
<1>4. TypeOK'
  BY <1>0, <1>2, <1>3 DEF Write, Start, IInv, TypeOK, device, Pcs
<1>5. ControlOK'
  BY <1>0, <1>2 DEF Write, Start, IInv, TypeOK, ControlOK, device
<1>6. LiveSlotSafe'
  BY DEF Write, Start, IInv, LiveSlotSafe, device
<1> QED BY <1>4, <1>5, <1>6 DEF IInv

\* sync, snapshot and rollback only enter the handler.
LEMMA EnterInv ==
    ASSUME IInv, NEW kind \in {"sync", "snapshot", "rollback"}, NEW R \in SUBSET Refs,
           NEW F \in SUBSET Files, NEW t \in Trees, Start(kind, R, F, t, 0),
           pc' = "flush", ret' = "reply", toflush' = R, UNCHANGED <<device, memory>>
    PROVE  IInv'
<1> USE StoreCommitAssumption, NoneAssumption
<1>1. job' \in Jobs /\ job'.kind # "write"
  BY DEF Start, Jobs, Kinds
<1>2. TypeOK'
  BY <1>1 DEF Start, IInv, TypeOK, device, memory, Pcs
<1>3. ControlOK'
  BY <1>1 DEF Start, IInv, ControlOK, device, memory
<1>4. LiveSlotSafe'
  BY DEF Start, IInv, LiveSlotSafe, device, memory
<1> QED BY <1>2, <1>3, <1>4 DEF IInv

\* No entry into a handler breaks the invariant.
LEMMA RequestInv == IInv /\ Request => IInv'
<1> SUFFICES ASSUME IInv, Request PROVE IInv'
  OBVIOUS
<1>0. EmptyTree \in Trees
  BY StoreCommitAssumption DEF EmptyTree, Trees, Vals
<1>1. ASSUME NEW r \in Refs, CreateRef(r) PROVE IInv'
  BY <1>1, CreateRefInv
<1>2. ASSUME NEW r \in Refs, NEW f \in Files, NEW len \in RecLens, Write(r, f, len)
      PROVE  IInv'
  BY <1>2, WriteInv
<1>3. ASSUME NEW R \in {{r} : r \in Refs} \cup {Refs}, Sync(R) PROVE IInv'
  BY <1>0, <1>3, EnterInv DEF Sync
<1>4. ASSUME NEW r \in Refs, Snapshot(r) PROVE IInv'
  BY <1>0, <1>4, EnterInv DEF Snapshot
<1>5. ASSUME NEW r \in Refs, Rollback(r) PROVE IInv'
  <2>1. table.snap[r] \in Trees
    BY <1>5 DEF Rollback, IInv, TypeOK, Tables
  <2> QED BY <1>5, <2>1, EnterInv DEF Rollback
<1> QED BY <1>1, <1>2, <1>3, <1>4, <1>5 DEF Request

-----------------------------------------------------------------------------
(* The steps of a handler *)

\* A turn of relieve_wal_pressure only enters a flush and a commit.
LEMMA RelieveInv == ASSUME IInv, RelieveWalPressure PROVE IInv'
<1> USE StoreCommitAssumption, NoneAssumption
<1>1. recs \in SUBSET Recs /\ recs # {}
  BY DEF RelieveWalPressure, Comfortable, IInv, TypeOK
<1>2. First(recs).ref \in Refs
  BY <1>1, FirstIsFirst DEF Recs
<1>3. TypeOK'
  BY <1>2 DEF RelieveWalPressure, IInv, TypeOK, device, memory, history, Pcs
<1>4. ControlOK' /\ LiveSlotSafe'
  BY DEF RelieveWalPressure, IInv, ControlOK, LiveSlotSafe, device, memory, history
<1> QED BY <1>3, <1>4 DEF IInv

\* wal_write hands the device pieces of the log region and nothing else.
LEMMA WalPiecesType ==
    ASSUME NEW off \in Offs, NEW rec \in Seq(Cells), Len(rec) <= WalLen
    PROVE  /\ WalPieces(off, rec) \in Seq(Writes)
           /\ \A i \in DOMAIN WalPieces(off, rec) : WalPieces(off, rec)[i].what = "wal"
<1> USE StoreCommitAssumption
<1>0. Len(rec) \in Nat /\ 0 \in Offs
  BY LenProperties DEF Offs
<1>1. CASE off + Len(rec) <= WalLen
  BY <1>1 DEF WalPieces, WalPiece, Writes
<1>2. CASE ~ (off + Len(rec) <= WalLen)
  <2> DEFINE k == WalLen - off
  <2>1. k \in 1 .. Len(rec)
    BY <1>0, <1>2 DEF Offs
  <2>2. SubSeq(rec, 1, k) \in Seq(Cells) /\ SubSeq(rec, k + 1, Len(rec)) \in Seq(Cells)
    BY <1>0, <2>1, SubSeqProperties
  <2>3. /\ WalPiece(off, SubSeq(rec, 1, k)) \in Writes
        /\ WalPiece(0, SubSeq(rec, k + 1, Len(rec))) \in Writes
    BY <1>0, <2>2 DEF WalPiece, Writes
  <2>4. WalPieces(off, rec) = << WalPiece(off, SubSeq(rec, 1, k)),
                                 WalPiece(0, SubSeq(rec, k + 1, Len(rec))) >>
    BY <1>2 DEF WalPieces
  <2> HIDE DEF k
  <2> QED BY <2>3, <2>4 DEF WalPiece
<1> QED BY <1>1, <1>2

\* wal_write adds log pieces to the pending writes, never a superblock.
LEMMA WalWriteInv == ASSUME IInv, WalWrite PROVE IInv'
<1> USE StoreCommitAssumption, NoneAssumption
<1>1. PICK r \in job.ref, f \in job.files :
         pend' = pend \o WalPieces(tail, Record(seq, r, f, job.tree[f], job.len))
  BY DEF WalWrite
<1> DEFINE rec == Record(seq, r, f, job.tree[f], job.len)
           new == WalPieces(tail, rec)
<1>2. /\ job.len \in RecLens /\ job.len \in Nat /\ job.len <= WalLen
      /\ r \in Refs /\ f \in Files /\ job.tree[f] \in Vals /\ seq \in Nat
  BY DEF WalWrite, IInv, ControlOK, TypeOK, Jobs, Trees
<1>3. rec \in Seq(Cells) /\ Len(rec) = job.len
  BY <1>2 DEF Record, Cells
<1> HIDE DEF rec
<1>4. new \in Seq(Writes) /\ \A i \in DOMAIN new : new[i].what = "wal"
  BY <1>2, <1>3, WalPiecesType DEF IInv, TypeOK
<1> HIDE DEF new
<1>5. pend \in Seq(Writes) /\ pend' = pend \o new
  BY <1>1 DEF IInv, TypeOK, rec, new
<1>6. pend' \in Seq(Writes)
  BY <1>4, <1>5
<1>7. \A i \in DOMAIN pend' : pend'[i].what = "sb" => i \in DOMAIN pend /\ pend'[i] = pend[i]
  BY <1>4, <1>5, ConcatProperties, LenProperties
<1>8. TypeOK'
  BY <1>6 DEF WalWrite, IInv, TypeOK, memory, history, Pcs
<1>9. ControlOK' /\ LiveSlotSafe'
  BY <1>7 DEF WalWrite, IInv, ControlOK, LiveSlotSafe, memory, history
<1> QED BY <1>8, <1>9 DEF IInv

\* A flush, and a power loss, leave the slot of the last commit alone; a valid
\* superblock in the other slot has another generation and all its blocks.
LEMMA PersistSafe ==
    ASSUME IInv, pc # "down", NEW kept, Keeps(kept), PersistSlots(kept)
    PROVE  /\ slot'[live] = sb /\ sb # None
           /\ \A s \in Slots : slot'[s] # None =>
                 /\ slot'[s].img \notin lost \cup unsynced
                 /\ slot'[s].img <= nCommits
                 /\ s # live => slot'[s].gen # sb.gen
<1> USE NoneAssumption DEF IInv
<1>1. sb \in Superblocks /\ sb # None /\ sb.gen \in Nat /\ live \in Slots
  BY DEF TypeOK, Superblocks
<1>2. slot'[live] = sb
  BY <1>1, PersistEffect DEF LiveSlotSafe
<1>3. ASSUME NEW s \in Slots, slot'[s] # None, slot'[s] = slot[s]
      PROVE  /\ slot'[s].img \notin lost \cup unsynced /\ slot'[s].img <= nCommits
             /\ s # live => slot'[s].gen # sb.gen
  BY <1>1, <1>3 DEF LiveSlotSafe, ControlOK, Slots
<1>4. ASSUME NEW s \in Slots, slot'[s] # None, NEW i \in DOMAIN pend,
             pend[i].what = "sb", slot'[s] = pend[i].sb
      PROVE  /\ slot'[s].img \notin lost \cup unsynced /\ slot'[s].img <= nCommits
             /\ s # live => slot'[s].gen # sb.gen
  BY <1>1, <1>4 DEF LiveSlotSafe, ControlOK
<1> QED BY <1>1, <1>2, <1>3, <1>4, PersistEffect

\* The flush of wal_write may make a superblock of a failed commit durable.
LEMMA WalSyncInv == ASSUME IInv, WalSync PROVE IInv'
<1> USE StoreCommitAssumption, NoneAssumption
<1>1. /\ Keeps(AllKept) /\ PersistRing(AllKept) /\ PersistSlots(AllKept)
      /\ pend' = <<>> /\ unsynced' = {} /\ pc # "down"
  BY KeepAll DEF WalSync, Flush, IInv
<1>2. ring' \in [Offs -> Cells] /\ slot' \in [Slots -> Superblocks \cup {None}]
  BY <1>1, PersistTypes DEF IInv
<1>3. PICK r \in job.ref :
         /\ recs' = recs \cup {[seq |-> seq, off |-> tail, ref |-> r, flushed |-> FALSE]}
         /\ overlay' = [overlay EXCEPT ![r] = [f \in Files |->
                            IF f \in job.files THEN job.tree[f] ELSE overlay[r][f]]]
  BY DEF WalSync
<1>4. r \in Refs /\ job.tree \in Trees /\ job.len \in Nat
  BY DEF IInv, TypeOK, Jobs
<1>5. recs' \subseteq Recs
  <2>1. [seq |-> seq, off |-> tail, ref |-> r, flushed |-> FALSE] \in Recs
    BY <1>4 DEF IInv, TypeOK, Recs
  <2> QED BY <1>3, <2>1 DEF IInv, TypeOK
<1>6. overlay' \in [Refs -> [Files -> Vals \cup {None}]]
  <2> DEFINE new == [f \in Files |-> IF f \in job.files THEN job.tree[f] ELSE overlay[r][f]]
  <2>1. overlay \in [Refs -> [Files -> Vals \cup {None}]]
    BY DEF IInv, TypeOK
  <2>2. new \in [Files -> Vals \cup {None}]
    BY <1>4, <2>1 DEF Trees
  <2> HIDE DEF new
  <2>3. overlay' = [overlay EXCEPT ![r] = new]
    BY <1>3 DEF new
  <2> QED BY <2>1, <2>2, <2>3
<1>7. tail' \in Offs
  <2>1. tail + job.len \in Nat
    BY <1>4 DEF IInv, TypeOK, Offs
  <2> QED BY <2>1, WrapsToOffs DEF WalSync, NextTail
<1>8. TypeOK'
  BY <1>1, <1>2, <1>5, <1>6, <1>7 DEF WalSync, IInv, TypeOK, history, Pcs
<1>9. ControlOK'
  BY <1>1, PersistSafe DEF WalSync, IInv, ControlOK, history
<1>10. LiveSlotSafe'
  <2>1. sb' = sb /\ live' = live /\ lost' = lost /\ pc' = "triggers"
    BY DEF WalSync
  <2>3. live \in Slots
    BY DEF IInv, TypeOK
  <2>2. /\ slot'[live] = sb /\ sb # None
        /\ \A s \in Slots : slot'[s] # None =>
              slot'[s].img \notin lost \cup unsynced /\ (s # live => slot'[s].gen # sb.gen)
    BY <1>1, PersistSafe DEF WalSync
  <2> QED BY <1>1, <2>1, <2>2, <2>3 DEF LiveSlotSafe, Slots
<1> QED BY <1>8, <1>9, <1>10 DEF IInv
=============================================================================
