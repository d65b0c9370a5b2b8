-------------------------- MODULE StoreCommitProofs --------------------------
(***************************************************************************)
(* Proofs about StoreCommit: the flush, commit, failure, crash and mount   *)
(* steps preserve the invariant of StoreCommitLemmas, and the theorems     *)
(* that follow from it.                                                    *)
(***************************************************************************)
EXTENDS StoreCommitLemmas

-----------------------------------------------------------------------------
\* The flush triggers only enter a flush and a commit.
LEMMA TriggersInv == ASSUME IInv, Triggers PROVE IInv'
<1>1. toflush' \subseteq Refs
  BY DEF Triggers, Dirty, IInv, TypeOK
<1>2. TypeOK'
  BY <1>1 DEF Triggers, IInv, TypeOK, device, memory, history, Pcs
<1>3. ControlOK' /\ LiveSlotSafe'
  BY DEF Triggers, IInv, ControlOK, LiveSlotSafe, device, memory, history
<1> QED BY <1>2, <1>3 DEF IInv

\* flush_ref gives every flushed ref a tree, and marks records.
LEMMA FlushTypes ==
    ASSUME TypeOK, NEW D \in SUBSET Refs
    PROVE  /\ [table EXCEPT !.root = FlushedRoot(D)] \in Tables
           /\ MarkFlushed(D) \subseteq Recs
<1> USE NoneAssumption
<1>1. table.root \in [Refs -> Trees \cup {None}] /\ table.snap \in [Refs -> Trees \cup {None}]
  BY DEF TypeOK, Tables
<1>2. ASSUME NEW r \in Refs PROVE View(r) \in Trees \cup {None}
  BY <1>1 DEF View, Over, Trees, TypeOK
<1>3. FlushedRoot(D) \in [Refs -> Trees \cup {None}]
  BY <1>1, <1>2 DEF FlushedRoot
<1>4. [table EXCEPT !.root = FlushedRoot(D)] \in Tables
  BY <1>1, <1>3 DEF TypeOK, Tables
<1>5. ASSUME NEW x \in recs PROVE x \in Recs /\ [x EXCEPT !.flushed = TRUE] \in Recs
  BY DEF TypeOK, Recs
<1>6. MarkFlushed(D) \subseteq Recs
  BY <1>5 DEF MarkFlushed
<1> QED BY <1>4, <1>6

\* flush_ref changes memory only.
LEMMA FlushRefsInv == ASSUME IInv, FlushRefs PROVE IInv'
<1> USE NoneAssumption
<1> DEFINE t == [table EXCEPT !.root = FlushedRoot(toflush)]
<1>1. t \in Tables /\ recs' \subseteq Recs
  BY FlushTypes DEF FlushRefs, IInv, TypeOK
<1>2. t.root \in [Refs -> Trees \cup {None}] /\ t.snap \in [Refs -> Trees \cup {None}]
  BY <1>1 DEF Tables
<1> HIDE DEF t
<1>3. job.tree \in Trees
  BY DEF IInv, TypeOK, Jobs
<1>4. Edited(t) \in Tables
  <2>1. [r \in Refs |-> IF r \in job.ref THEN t.root[r] ELSE t.snap[r]]
           \in [Refs -> Trees \cup {None}]
    BY <1>2
  <2>2. [r \in Refs |-> IF r \in job.ref THEN job.tree ELSE t.root[r]]
           \in [Refs -> Trees \cup {None}]
    BY <1>2, <1>3
  <2> QED BY <1>1, <1>2, <2>1, <2>2 DEF Edited, Tables
<1>5. table' \in Tables
  BY <1>4 DEF FlushRefs, t
<1>6. overlay' \in [Refs -> [Files -> Vals \cup {None}]]
  BY DEF FlushRefs, IInv, TypeOK, Clean
<1>7. TypeOK'
  BY <1>1, <1>5, <1>6 DEF FlushRefs, IInv, TypeOK, device, history, Pcs
<1>8. ControlOK' /\ LiveSlotSafe'
  BY DEF FlushRefs, IInv, ControlOK, LiveSlotSafe, device, history
<1> QED BY <1>7, <1>8 DEF IInv

\* commit hands blocks of a fresh number to the device.
LEMMA CommitPutInv == ASSUME IInv, CommitPut PROVE IInv'
<1> USE NoneAssumption
<1>1. nCommits \in Nat /\ nCommits' = nCommits + 1 /\ unsynced' = unsynced \cup {nCommits + 1}
  BY DEF CommitPut, IInv, TypeOK
<1>2. TypeOK'
  BY <1>1 DEF CommitPut, IInv, TypeOK, memory, Pcs
<1>3. /\ \A s \in Slots : slot[s] # None => slot[s].img \in Nat
      /\ \A i \in DOMAIN pend : pend[i].what = "sb" => pend[i].sb.img \in Nat
  BY PendTypes DEF IInv, TypeOK, Superblocks
<1>4. ControlOK'
  BY <1>1, <1>3 DEF CommitPut, IInv, ControlOK, memory
<1>5. LiveSlotSafe'
  BY <1>1, <1>3 DEF CommitPut, IInv, ControlOK, LiveSlotSafe, memory
<1> QED BY <1>2, <1>4, <1>5 DEF IInv

\* After barrier 1 the only pending write is the superblock, for the other
\* slot, and its blocks are durable.
LEMMA CommitBarrier1Inv == ASSUME IInv, CommitBarrier1 PROVE IInv'
<1> USE StoreCommitAssumption, NoneAssumption
<1>1. /\ Keeps(AllKept) /\ PersistRing(AllKept) /\ PersistSlots(AllKept)
      /\ unsynced' = {} /\ pc # "down" /\ pend' = << SbWrite(CommitTarget(live), NewSb) >>
  BY KeepAll DEF CommitBarrier1, Barrier1, IInv
<1>2. ring' \in [Offs -> Cells] /\ slot' \in [Slots -> Superblocks \cup {None}]
  BY <1>1, PersistTypes DEF IInv
<1>3. /\ AdvanceHead.rest \subseteq Recs /\ AdvanceHead.head \in Offs
      /\ AdvanceHead.next \in Nat
  <2> DEFINE rest == recs \ FlushedPrefix
  <2>1. rest \in SUBSET Recs /\ 0 \in Offs /\ seq \in Nat
    BY DEF IInv, TypeOK, Offs
  <2>2. rest # {} => First(rest).off \in Offs /\ First(rest).seq \in Nat
    BY <2>1, FirstIsFirst DEF Recs
  <2> QED BY <2>1, <2>2 DEF AdvanceHead
<1>4. /\ NewSb \in Superblocks /\ NewSb.gen = sb.gen + 1 /\ NewSb.img = nCommits
      /\ NewSb # None
  BY <1>3 DEF NewSb, Superblocks, IInv, TypeOK
<1>5. CommitTarget(live) \in Slots /\ CommitTarget(live) # live
  BY DEF CommitTarget, Slots, IInv, TypeOK
<1>6. SbWrite(CommitTarget(live), NewSb) \in Writes
  BY <1>4, <1>5 DEF SbWrite, Writes
<1>7. pend' \in Seq(Writes) /\ Len(pend') = 1 /\ DOMAIN pend' = {1}
      /\ pend'[1].what = "sb" /\ pend'[1].at = CommitTarget(live) /\ pend'[1].sb = NewSb
  <2>1. pend' \in Seq(Writes) /\ Len(pend') = 1 /\ DOMAIN pend' = {1}
        /\ pend'[1] = SbWrite(CommitTarget(live), NewSb)
    BY <1>1, <1>6
  <2> QED BY <2>1 DEF SbWrite
<1>8. tail' \in Offs
  BY DEF CommitBarrier1, IInv, TypeOK, Offs
<1>9. TypeOK'
  BY <1>1, <1>2, <1>3, <1>7, <1>8 DEF CommitBarrier1, IInv, TypeOK, history, Pcs
<1>10. nCommits \notin lost /\ nCommits \in Nat
  BY DEF CommitBarrier1, IInv, TypeOK, ControlOK
<1>11. ControlOK'
  <2>1. /\ unsynced' \subseteq 1 .. nCommits' /\ lost' \subseteq 1 .. nCommits'
        /\ pc' = "barrier2" /\ live' = live /\ job' = job /\ ret' = ret
        /\ pc = "barrier1" /\ nCommits' = nCommits
    BY <1>1 DEF CommitBarrier1, IInv, ControlOK, history
  <2>2. \A s \in Slots : slot'[s] # None => slot'[s].img <= nCommits'
    BY <1>1, <2>1, PersistSafe
  <2>3. /\ \A i \in DOMAIN pend' : pend'[i].what = "sb" => pend'[i].sb.img <= nCommits'
        /\ Len(pend') = 1 /\ pend'[1].what = "sb" /\ pend'[1].at = CommitTarget(live)'
    BY <1>4, <1>7, <1>10, <2>1 DEF CommitTarget
  <2>4. ControlOK
    BY DEF IInv
  <2> QED BY <2>1, <2>2, <2>3, <2>4 DEF ControlOK
<1>12. LiveSlotSafe'
  BY <1>1, <1>4, <1>5, <1>7, <1>10, PersistSafe
     DEF CommitBarrier1, LiveSlotSafe, Slots, IInv, TypeOK
<1> QED BY <1>9, <1>11, <1>12 DEF IInv

\* Barrier 2 makes the new superblock the live one, with the highest
\* generation.
LEMMA CommitBarrier2Inv == ASSUME IInv, CommitBarrier2 PROVE IInv'
<1> USE StoreCommitAssumption, NoneAssumption
<1>1. /\ Keeps(AllKept) /\ PersistRing(AllKept) /\ PersistSlots(AllKept)
      /\ unsynced' = {} /\ pc = "barrier2" /\ pend' = <<>>
  BY KeepAll DEF CommitBarrier2, Flush, IInv
<1>2. ring' \in [Offs -> Cells] /\ slot' \in [Slots -> Superblocks \cup {None}]
  BY <1>1, PersistTypes DEF IInv
<1>3. Len(pend) = 1 /\ pend[1].what = "sb" /\ pend[1].at = CommitTarget(live)
  BY <1>1 DEF IInv, ControlOK
<1>4. pend \in Seq(Writes) /\ DOMAIN pend = {1} /\ 1 \in DOMAIN pend
  BY <1>3, LenProperties DEF IInv, TypeOK
<1>5. pend[1].sb \in Superblocks /\ sb' = pend[1].sb
  BY <1>3, <1>4, PendTypes DEF CommitBarrier2, IInv
<1>6. CommitTarget(live) \in Slots /\ CommitTarget(live) # live /\ live' = CommitTarget(live)
  BY DEF CommitBarrier2, CommitTarget, Slots, IInv, TypeOK
<1>7. slot'[CommitTarget(live)] = pend[1].sb
  <2>1. AllKept[1] = 2
    BY <1>3, <1>4 DEF AllKept, Units
  <2>2. Strike(AllKept, CommitTarget(live)) = {1}
    BY <1>3, <1>4, <2>1 DEF Strike
  <2>3. LastOf({1}) = 1
    BY DEF LastOf
  <2> QED BY <1>1, <1>6, <2>1, <2>2, <2>3 DEF PersistSlots
<1>8. TypeOK'
  BY <1>1, <1>2, <1>5, <1>6 DEF CommitBarrier2, IInv, TypeOK, history, Pcs
<1>9. pc' \in {"reply", "relieve", "triggers"}
  BY DEF CommitBarrier2, IInv, TypeOK
<1>10. ControlOK'
  BY <1>1, <1>9, PersistSafe DEF CommitBarrier2, IInv, ControlOK, history
<1>11. /\ slot'[live] = sb /\ sb' # None /\ sb'.gen = sb.gen + 1 /\ sb.gen \in Nat
       /\ \A s \in Slots : slot'[s] # None => slot'[s].img \notin lost \cup unsynced
  BY <1>1, <1>3, <1>4, <1>5, PersistSafe DEF IInv, LiveSlotSafe, TypeOK, Superblocks
<1>12. slot'["A"].gen # slot'["B"].gen
  BY <1>5, <1>6, <1>7, <1>11 DEF Slots, IInv, TypeOK
<1>13. LiveSlotSafe'
  BY <1>1, <1>5, <1>6, <1>7, <1>9, <1>11, <1>12 DEF CommitBarrier2, LiveSlotSafe
<1> QED BY <1>8, <1>10, <1>13 DEF IInv

\* Between requests the handler record is a sync of nothing.
LEMMA NoJobType == NoJob \in Jobs /\ NoJob.kind = "sync"
<1>1. EmptyTree \in Trees
  BY StoreCommitAssumption DEF EmptyTree, Trees, Vals
<1> QED BY <1>1 DEF NoJob, Jobs, Kinds

\* The reply of a handler changes no device state.
LEMMA ReplyInv == ASSUME IInv, Reply PROVE IInv'
<1>1. expect' \in [Refs -> [Files -> Vals \cup {None}]]
  BY DEF Reply, Effect, IInv, TypeOK, Jobs, Trees
<1>2. maybe' \in [Refs -> [Files -> SUBSET Vals]]
  BY DEF Reply, IInv, TypeOK
<1>3. TypeOK'
  BY <1>1, <1>2, NoJobType DEF Reply, IInv, TypeOK, device, memory, Pcs
<1>4. ControlOK' /\ LiveSlotSafe'
  BY NoJobType DEF Reply, IInv, ControlOK, LiveSlotSafe, device, memory
<1> QED BY <1>3, <1>4 DEF IInv

-----------------------------------------------------------------------------
(* Device errors, power loss and mount *)

\* The contents an unacknowledged operation may leave are contents.
LEMMA UnpromisedType ==
    ASSUME TypeOK, Unpromised PROVE maybe' \in [Refs -> [Files -> SUBSET Vals]]
  BY DEF TypeOK, Unpromised, Jobs, Trees

\* A handler that returns at a device error leaves the slots safe.
LEMMA FailureInv == ASSUME IInv, Failure PROVE IInv'
<1> USE StoreCommitAssumption, NoneAssumption
<1>1. ASSUME NEW where, Fail(where)
      PROVE  /\ maybe' \in [Refs -> [Files -> SUBSET Vals]] /\ job' = NoJob /\ pc' = "idle"
             /\ nFaults' \in 0 .. MaxFaults
             /\ UNCHANGED <<ring, slot, lost, ret, toflush, nOps, nCommits, nCrashes, expect>>
  BY <1>1, UnpromisedType DEF Fail, IInv, TypeOK
\* A queue of pending writes that keeps only writes it had keeps IInv.
<1>2. ASSUME NEW where, Fail(where), pc # "down",
             pend' \in Seq(Writes),
             \A i \in DOMAIN pend' : i \in DOMAIN pend /\ pend'[i] = pend[i],
             table' \in Tables, recs' \subseteq Recs,
             overlay' \in [Refs -> [Files -> Vals \cup {None}]],
             UNCHANGED <<unsynced, sb, live, tail, seq>>
      PROVE  IInv'
  <2>1. TypeOK'
    BY <1>1, <1>2, NoJobType DEF IInv, TypeOK, Pcs
  <2>2. /\ pc' = "idle" /\ job'.kind = "sync" /\ UNCHANGED <<slot, lost, unsynced, nCommits>>
        /\ \A i \in DOMAIN pend' : i \in DOMAIN pend /\ pend'[i] = pend[i]
    BY <1>1, <1>2, NoJobType
  <2>4. ControlOK'
    BY <2>2 DEF IInv, ControlOK
  <2>3. LiveSlotSafe'
    BY <1>1, <1>2 DEF IInv, LiveSlotSafe
  <2> QED BY <2>1, <2>3, <2>4 DEF IInv
<1>3. pend \in Seq(Writes) /\ table \in Tables /\ recs \subseteq Recs
      /\ overlay \in [Refs -> [Files -> Vals \cup {None}]] /\ toflush \subseteq Refs
  BY DEF IInv, TypeOK
<1>4. CASE WalFails
  <2>1. PICK k \in Nat : pend' = SubSeq(pend, 1, Len(pend) - k)
    BY <1>4 DEF WalFails
  <2>2. Len(pend) \in Nat /\ DOMAIN pend = 1 .. Len(pend)
    BY <1>3, LenProperties
  <2>3. pend' \in Seq(Writes) /\ \A i \in DOMAIN pend' : i \in DOMAIN pend /\ pend'[i] = pend[i]
    BY <1>3, <2>1, <2>2
  <2> QED BY <1>2, <1>3, <1>4, <2>3 DEF WalFails, memory
<1>5. CASE FlushFails
  <2>1. PICK r \in toflush \cap Dirty, done \in SUBSET toflush :
          /\ table' = [table EXCEPT !.root = FlushedRoot(done)]
          /\ recs' = MarkFlushed(done)
          /\ overlay' = [x \in Refs |-> IF x \in done \cup {r} THEN Clean ELSE overlay[x]]
    BY <1>5 DEF FlushFails
  <2>2. table' \in Tables /\ recs' \subseteq Recs
    BY <1>3, <2>1, FlushTypes DEF IInv
  <2>3. overlay' \in [Refs -> [Files -> Vals \cup {None}]]
    BY <1>3, <2>1 DEF Clean
  <2> QED BY <1>2, <1>3, <1>5, <2>2, <2>3 DEF FlushFails
<1>6. CASE CommitFailsEarly
  BY <1>2, <1>3, <1>6 DEF CommitFailsEarly, memory
<1>7. CASE CommitFailsLate
  <2>1. pend' \in Seq(Writes) /\ \A i \in DOMAIN pend' : i \in DOMAIN pend /\ pend'[i] = pend[i]
    <3>1. CASE pend' = pend
      BY <1>3, <3>1
    <3>2. CASE pend' = <<>>
      BY <3>2
    <3> QED BY <1>7, <3>1, <3>2 DEF CommitFailsLate
  <2> QED BY <1>2, <1>3, <1>7, <2>1 DEF CommitFailsLate, memory
<1> QED BY <1>4, <1>5, <1>6, <1>7 DEF Failure

\* Power loss tears at most the slot that is not live.
LEMMA CrashInv == ASSUME IInv, Crash PROVE IInv'
<1> USE StoreCommitAssumption, NoneAssumption
<1>1. PICK kept \in [DOMAIN pend -> 0 .. WalLen + 2] :
         /\ \A i \in DOMAIN pend : kept[i] <= Units(pend[i])
         /\ PersistRing(kept) /\ PersistSlots(kept)
  BY DEF Crash
<1>2. Keeps(kept) /\ pc # "down"
  BY <1>1, PendTypes DEF Crash, Keeps, IInv
<1>3. ring' \in [Offs -> Cells] /\ slot' \in [Slots -> Superblocks \cup {None}]
  BY <1>1, <1>2, PersistTypes DEF IInv
<1>4. maybe' \in [Refs -> [Files -> SUBSET Vals]]
  BY UnpromisedType DEF Crash, IInv
<1>5. EmptyTable \in Tables /\ 0 \in Offs
  BY DEF EmptyTable, Tables, Offs
<1>6. sb' \in Superblocks
  BY <1>5 DEF Crash, Superblocks
<1>7. lost' \subseteq lost \cup unsynced
  BY DEF Crash
<1>8. TypeOK'
  BY <1>3, <1>4, <1>5, <1>6, <1>7, NoJobType
     DEF Crash, IInv, TypeOK, Clean, Slots, Pcs
<1>9. ControlOK'
  <2>1. /\ unsynced' = {} /\ pend' = <<>> /\ pc' = "down" /\ nCommits' = nCommits
        /\ lost' \subseteq 1 .. nCommits' /\ job' = NoJob
    BY <1>7 DEF Crash, IInv, ControlOK
  <2>2. \A s \in Slots : slot'[s] # None => slot'[s].img <= nCommits'
    BY <1>1, <1>2, <2>1, PersistSafe
  <2>3. job'.kind = "sync"
    BY <2>1 DEF NoJob
  <2> QED BY <2>1, <2>2, <2>3 DEF ControlOK
<1>10. live \in Slots
  BY DEF IInv, TypeOK
<1>11. LiveSlotSafe'
  BY <1>1, <1>2, <1>7, <1>10, PersistSafe DEF Crash, LiveSlotSafe, Slots
<1> QED BY <1>8, <1>9, <1>11 DEF IInv

\* What recovery reads back from the ring.
LEMMA RecoveryTypes ==
    ASSUME TypeOK, NEW s \in Superblocks
    PROVE  /\ RecoveredRecs(s) \subseteq Recs
           /\ RecoveredEnd(s).tail \in Offs /\ RecoveredEnd(s).seq \in Nat
           /\ \A r \in Refs : Replayed(s, r) \in [Files -> Vals \cup {None}]
<1> USE StoreCommitAssumption, NoneAssumption
<1>1. s.head \in Offs /\ s.head \in Nat /\ s.next \in Nat
  <2>1. s.head \in Offs /\ s.next \in Nat
    BY Zenon DEF Superblocks
  <2> QED BY <2>1 DEF Offs
<1>2. Run[s] \subseteq Offs /\ \A o \in Run[s] : FrameAt(s.head, o)
  BY DEF Run
<1>3. ASSUME NEW o \in Run[s]
      PROVE  /\ o \in Nat /\ (s.head + o) % WalLen \in Offs
             /\ Rotated(s.head, o).seq \in Nat /\ Rotated(s.head, o).ref \in Refs
             /\ Rotated(s.head, o).val \in Vals /\ Rotated(s.head, o).len \in Nat
  <2>1. o \in Nat /\ s.head + o \in Nat
    BY <1>1, <1>2 DEF Offs
  <2>2. (s.head + o) % WalLen \in Offs
    BY <2>1, WrapsToOffs
  <2>3. Rotated(s.head, o) \in Cells /\ Rotated(s.head, o) # Blank
    BY <1>2, <2>2 DEF Rotated, TypeOK, FrameAt
  <2> QED BY <2>1, <2>2, <2>3 DEF Cells
<1>4. RecoveredRecs(s) \subseteq Recs
  <2>1. ASSUME NEW o \in Run[s]
        PROVE  [seq |-> Rotated(s.head, o).seq, ref |-> Rotated(s.head, o).ref,
                off |-> (s.head + o) % WalLen, flushed |-> FALSE] \in Recs
    BY <1>3 DEF Recs
  <2> QED BY <2>1 DEF RecoveredRecs
<1>5. ASSUME NEW S \in SUBSET Run[s], S # {} PROVE LastOf(S) \in S
  <2>1. WalLen - 1 \in Nat /\ S \in SUBSET (0 .. WalLen - 1)
    BY <1>2 DEF Offs
  <2> QED BY <1>5, <2>1, LastOfIsLast
<1>6. RecoveredEnd(s).tail \in Offs /\ RecoveredEnd(s).seq \in Nat
  <2>1. CASE Run[s] = {}
    BY <1>1, <2>1 DEF RecoveredEnd
  <2>2. CASE Run[s] # {}
    <3> DEFINE last == LastOf(Run[s])
    <3>1. last \in Run[s]
      BY <1>5, <2>2
    <3>2. s.head + last + Rotated(s.head, last).len \in Nat /\ Rotated(s.head, last).seq \in Nat
      BY <1>1, <1>3, <3>1
    <3>3. (s.head + last + Rotated(s.head, last).len) % WalLen \in Offs
      BY <3>2, WrapsToOffs
    <3> QED BY <2>2, <3>2, <3>3 DEF RecoveredEnd
  <2> QED BY <2>1, <2>2
<1>7. ASSUME NEW r \in Refs PROVE Replayed(s, r) \in [Files -> Vals \cup {None}]
  <2>1. ASSUME NEW f \in Files
        PROVE  LET mine == {o \in Run[s] : /\ Rotated(s.head, o).ref = r
                                           /\ Rotated(s.head, o).file = f}
               IN  mine # {} => Rotated(s.head, LastOf(mine)).val \in Vals
    BY <1>3, <1>5
  <2> QED BY <2>1 DEF Replayed
<1> QED BY <1>4, <1>6, <1>7

\* The survivor of a power loss is a valid slot that lost no block.
LEMMA SurvivorSafe ==
    ASSUME IInv, pc = "down"
    PROVE  /\ PickSurvivor \in Slots /\ PickSurvivor # None
           /\ slot[PickSurvivor] \in Superblocks /\ slot[PickSurvivor].img \notin lost
<1>1. PickSurvivor \in Slots /\ slot[PickSurvivor] # None
  BY DEF IInv, LiveSlotSafe, PickSurvivor, Slots
<1> QED BY <1>1, NoneAssumption DEF IInv, TypeOK, LiveSlotSafe

\* mount adopts the surviving superblock and the log behind it.
LEMMA MountInv == ASSUME IInv, Mount PROVE IInv'
<1> USE NoneAssumption
<1> DEFINE s == slot[PickSurvivor]
<1>1. PickSurvivor \in Slots /\ s \in Superblocks /\ s.table \in Tables /\ pc = "down"
  BY SurvivorSafe DEF Mount, Superblocks
<1>2. /\ recs' \subseteq Recs /\ tail' \in Offs /\ seq' \in Nat
      /\ overlay' \in [Refs -> [Files -> Vals \cup {None}]]
  BY <1>1, RecoveryTypes DEF Mount, IInv
<1>3. TypeOK'
  BY <1>1, <1>2 DEF Mount, IInv, TypeOK, device, history, Pcs
<1>4. pend = <<>> /\ DOMAIN pend' = {}
  BY <1>1 DEF Mount, IInv, ControlOK, device
<1>5. ControlOK' /\ LiveSlotSafe'
  BY <1>1, <1>4 DEF Mount, IInv, ControlOK, LiveSlotSafe, device, history
<1> QED BY <1>3, <1>5 DEF IInv

\* Every step preserves the inductive invariant.
LEMMA NextInv == IInv /\ [Next]_vars => IInv'
<1> SUFFICES ASSUME IInv, [Next]_vars PROVE IInv'
  OBVIOUS
<1>1. CASE Request
  BY <1>1, RequestInv
<1>2. CASE Step
  BY <1>2, RelieveInv, WalWriteInv, WalSyncInv, TriggersInv, FlushRefsInv,
     CommitPutInv, CommitBarrier1Inv, CommitBarrier2Inv, ReplyInv DEF Step
<1>3. CASE Failure
  BY <1>3, FailureInv
<1>4. CASE Crash
  BY <1>4, CrashInv
<1>5. CASE Mount
  BY <1>5, MountInv
<1>6. CASE UNCHANGED vars
  <2>1. /\ UNCHANGED <<ring, slot, lost, pend, unsynced>>
        /\ UNCHANGED <<sb, live, table, overlay, recs, tail, seq>>
        /\ UNCHANGED <<pc, ret, job, toflush>>
        /\ UNCHANGED <<nOps, nCommits, nCrashes, nFaults, expect, maybe>>
    BY <1>6 DEF vars, device, memory, control, history
  <2>2. TypeOK'
    BY <2>1 DEF IInv, TypeOK
  <2>3. ControlOK'
    BY <2>1 DEF IInv, ControlOK
  <2>4. LiveSlotSafe'
    BY <2>1 DEF IInv, LiveSlotSafe
  <2> QED BY <2>2, <2>3, <2>4 DEF IInv
<1> QED BY <1>1, <1>2, <1>3, <1>4, <1>5, <1>6 DEF Next

-----------------------------------------------------------------------------
\* Every value of the engine and of the device keeps its type: the tail and
\* the head stay inside the ring, and nothing but log pieces and superblocks
\* is ever handed to the device.
THEOREM TypeCorrect == Spec => []TypeOK
<1>1. IInv => TypeOK
  BY DEF IInv
<1> QED BY <1>1, InitInv, NextInv, PTL DEF Spec

\* commit never writes to the slot of the last commit, no superblock that can
\* win recovery names a block that is not on disk, and pick_survivor never
\* meets a tie, whatever requests, power losses and device errors there are.
THEOREM CommitSafe == Spec => []LiveSlotSafe
<1>1. IInv => LiveSlotSafe
  BY DEF IInv
<1> QED BY <1>1, InitInv, NextInv, PTL DEF Spec

\* After every power loss mount finds a superblock, and the ref table and the
\* trees of that superblock are on disk.
THEOREM StoreMounts == Spec => []AlwaysMountable
<1>1. IInv => AlwaysMountable
  BY SurvivorSafe DEF AlwaysMountable
<1> QED BY <1>1, InitInv, NextInv, PTL DEF Spec
=============================================================================
