----------------------------- MODULE BlockDevice -----------------------------
(***************************************************************************)
(* The block device of the storage server: byte ranges read and written    *)
(* through a device that moves sectors (virtio-blk/src/blockdev.rs), by a  *)
(* driver with one request at a time in a ring it shares with the device   *)
(* (virtio-blk/src/lib.rs).  The device answers when it likes, may fail a  *)
(* request, and keeps written sectors in a cache until it is told to flush *)
(* or chooses to write one back.  A byte is the number of the call that    *)
(* wrote it.                                                               *)
(***************************************************************************)
EXTENDS Integers, Sequences, FiniteSets, FiniteSetsExt

CONSTANTS
    SECTOR,      \* bytes in a sector
    Capacity,    \* sectors of the device
    MaxSectors,  \* sectors of the driver's data buffer
    QSize,       \* entries of the ring
    IdxMod,      \* ring indices wrap there
    Ranges,      \* the <<offset, length>> pairs of calls
    MaxCalls, MaxFails, MaxCrashes

VARIABLES
    disk,    \* what is on the medium, by byte
    cache,   \* what the device answers reads with
    q,       \* the ring and the buffers the driver and the device share
    op,      \* the call being served
    out,     \* the bytes a read has collected
    now,     \* byte -> the values a reader may find
    kept,    \* byte -> the values a crash may leave
    calls, fails, crashes

vars == <<disk, cache, q, op, out, now, kept, calls, fails, crashes>>

Bytes == 0 .. Capacity * SECTOR - 1
Idle == [kind |-> "none", off |-> 0, len |-> 0, pos |-> 0, tmp |-> <<>>, phase |-> "none"]
CeilDiv(a, b) == (a + b - 1) \div b

-----------------------------------------------------------------------------
(* blockdev: the sectors the next request of a call moves. *)

Pos == op.off + op.pos
Lba == Pos \div SECTOR
InSector == Pos % SECTOR
Sectors == CeilDiv(Min({MaxSectors * SECTOR - InSector, op.len - op.pos + InSector}), SECTOR)
Take == Min({Sectors * SECTOR - InSector, op.len - op.pos})

\* Mutant: only the first edge is looked at.
PartialHead == InSector # 0

\* A write whose edges are not sector edges reads the sectors first.
Partial == InSector # 0 \/ (InSector + Take) % SECTOR # 0

Begin(kind, off, len) ==
    /\ op = Idle /\ calls < MaxCalls /\ calls' = calls + 1
    /\ op' = [kind |-> kind, off |-> off, len |-> len, pos |-> 0,
              tmp |-> [i \in 0 .. MaxSectors * SECTOR - 1 |-> 0], phase |-> "start"]
    /\ out' = <<>>
    /\ now' = IF kind = "write" THEN [b \in Bytes |-> IF b \in off .. off + len - 1 THEN now[b] \cup {calls + 1} ELSE now[b]] ELSE now
    /\ kept' = IF kind = "write" THEN [b \in Bytes |-> IF b \in off .. off + len - 1 THEN kept[b] \cup {calls + 1} ELSE kept[b]] ELSE kept
    /\ UNCHANGED <<disk, cache, q, fails, crashes>>

-----------------------------------------------------------------------------
(* The driver. *)

OutOfRange(lba, sectors) == lba + sectors > Capacity
Slot(idx) == idx % QSize

\* Header, data and status, then the head of the chain in the ring, then its index.
Submit(type, lba, sectors, data) ==
    q' = [q EXCEPT !.hdr = [type |-> type, lba |-> lba, sectors |-> sectors],
                   !.data = data, !.status = "pending",
                   !.ring[Slot(q.avail)] = "request",
                   !.avail = (@ + 1) % IdxMod]

Waiting == q.avail # q.last

Fail == op' = Idle /\ UNCHANGED <<out, now, kept>>

\* The request the call makes next.
Request ==
    /\ op.kind # "none" /\ ~Waiting
    /\ LET type == CASE op.kind = "flush" -> "FLUSH"
                     [] op.kind = "read" -> "IN"
                     [] op.phase = "start" /\ Partial -> "IN"
                     [] OTHER -> "OUT"
           filled == [i \in DOMAIN op.tmp |-> IF i \in InSector .. InSector + Take - 1 THEN calls ELSE op.tmp[i]]
       IN  IF type # "FLUSH" /\ OutOfRange(Lba, Sectors) THEN Fail /\ UNCHANGED q
           ELSE /\ CASE type = "FLUSH" -> Submit(type, 0, 0, q.data)
                     [] type = "IN"    -> Submit(type, Lba, Sectors, q.data)
                     [] type = "OUT"   -> Submit(type, Lba, Sectors, filled)
                /\ op' = [op EXCEPT !.phase = type]
                /\ UNCHANGED <<out, now, kept>>
    /\ UNCHANGED <<disk, cache, calls, fails, crashes>>

\* The used index has moved on: the status byte and the data are there.
Finish ==
    /\ Waiting /\ q.used # q.last
    /\ q' = [q EXCEPT !.last = (@ + 1) % IdxMod]
    /\ CASE q.status # "ok" -> Fail
         [] q.status = "ok" /\ op.kind = "flush" ->
                op' = Idle /\ kept' = now /\ UNCHANGED <<out, now>>
         [] q.status = "ok" /\ op.kind = "read" ->
                /\ out' = out \o [i \in 1 .. Take |-> q.data[InSector + i - 1]]
                /\ op' = [op EXCEPT !.pos = @ + Take, !.phase = "start"]
                /\ UNCHANGED <<now, kept>>
         [] q.status = "ok" /\ op.kind = "write" /\ op.phase = "IN" ->
                /\ op' = [op EXCEPT !.tmp = [i \in DOMAIN @ |-> IF i < Sectors * SECTOR THEN q.data[i] ELSE @[i]],
                                    !.phase = "read"]
                /\ UNCHANGED <<out, now, kept>>
         [] q.status = "ok" /\ op.kind = "write" /\ op.phase = "OUT" ->
                /\ op' = [op EXCEPT !.pos = @ + Take, !.phase = "start", !.tmp = q.data]
                /\ now' = [b \in Bytes |-> IF b \in Pos .. Pos + Take - 1 THEN {calls} ELSE now[b]]
                /\ UNCHANGED <<out, kept>>
    /\ UNCHANGED <<disk, cache, calls, fails, crashes>>

\* All of the range is done.
Return ==
    /\ op.kind \in {"read", "write"} /\ op.pos = op.len /\ ~Waiting
    /\ op' = Idle
    /\ UNCHANGED <<disk, cache, q, out, now, kept, calls, fails, crashes>>

-----------------------------------------------------------------------------
(* The device. *)

Span == q.hdr.lba * SECTOR .. (q.hdr.lba + q.hdr.sectors) * SECTOR - 1

Serve(ok) ==
    /\ q.used # q.avail /\ q.ring[Slot(q.used)] = "request"
    /\ ~ok => fails < MaxFails
    /\ fails' = IF ok THEN fails ELSE fails + 1
    /\ q' = [q EXCEPT !.used = (@ + 1) % IdxMod,
                      !.ring[Slot(q.used)] = "empty",
                      !.status = IF ok THEN "ok" ELSE "error",
                      !.data = IF ok /\ q.hdr.type = "IN"
                               THEN [i \in DOMAIN @ |-> IF i < q.hdr.sectors * SECTOR
                                                        THEN cache[q.hdr.lba * SECTOR + i] ELSE @[i]]
                               ELSE @]
    /\ cache' = IF ok /\ q.hdr.type = "OUT"
                THEN [b \in Bytes |-> IF b \in Span THEN q.data[b - q.hdr.lba * SECTOR] ELSE cache[b]] ELSE cache
    /\ disk' = IF ok /\ q.hdr.type = "FLUSH" THEN cache ELSE disk
    /\ UNCHANGED <<op, out, now, kept, calls, crashes>>

\* A sector of the cache goes to the medium, whole.
WriteBack(s) ==
    /\ \E b \in s * SECTOR .. (s + 1) * SECTOR - 1 : disk[b] # cache[b]
    /\ disk' = [b \in Bytes |-> IF b \div SECTOR = s THEN cache[b] ELSE disk[b]]
    /\ UNCHANGED <<cache, q, op, out, now, kept, calls, fails, crashes>>

\* Power fails; the driver negotiates with the device again and starts an empty ring.
Queue == [avail |-> 0, used |-> 0, last |-> 0, ring |-> [i \in 0 .. QSize - 1 |-> "empty"],
          hdr |-> [type |-> "none", lba |-> 0, sectors |-> 0], status |-> "ok",
          data |-> [i \in 0 .. MaxSectors * SECTOR - 1 |-> 0]]
Crash ==
    /\ crashes < MaxCrashes /\ crashes' = crashes + 1
    /\ cache' = disk /\ q' = Queue /\ op' = Idle /\ out' = <<>>
    /\ now' = [b \in Bytes |-> {disk[b]}] /\ kept' = [b \in Bytes |-> {disk[b]}]
    /\ UNCHANGED <<disk, calls, fails>>

-----------------------------------------------------------------------------

Init ==
    /\ disk = [b \in Bytes |-> 0] /\ cache = disk
    /\ q = Queue /\ op = Idle /\ out = <<>>
    /\ now = [b \in Bytes |-> {0}] /\ kept = [b \in Bytes |-> {0}]
    /\ calls = 0 /\ fails = 0 /\ crashes = 0

Next ==
    \/ \E kind \in {"read", "write"}, r \in Ranges : Begin(kind, r[1], r[2])
    \/ Begin("flush", 0, 0)
    \/ op.pos < op.len /\ Request
    \/ op.kind = "flush" /\ Request
    \/ Finish
    \/ Return
    \/ \E ok \in BOOLEAN : Serve(ok)
    \/ \E s \in 0 .. Capacity - 1 : WriteBack(s)
    \/ Crash

Spec == Init /\ [][Next]_vars

-----------------------------------------------------------------------------
(* Properties. *)

\* Between calls every byte reads as the last call that wrote it says, or, where
\* that call failed, as it or the one before does; and a read has returned just
\* the bytes of its range (blockdev read and write over sectors).
RangesExact ==
    /\ op = Idle => \A b \in Bytes : cache[b] \in now[b]
    /\ op.kind = "read" => Len(out) = op.pos /\ \A i \in DOMAIN out : out[i] \in now[op.off + i - 1]

\* What was flushed and not written since survives a crash, though sectors that
\* hold it were written again for the sake of other bytes.
NeighboursKept == \A b \in Bytes : disk[b] \in kept[b]
=============================================================================
