# Eunomia: specifications, model checking and proofs

Eunomia is a capability microkernel (`kcore`, `kernel`), a content-addressed
versioned store (`cas`, `storage-server`), a small user space (`ipc`, `urt`,
`loader`, `eunomia-sys`, drivers and programs under `user`) and host tools.
This directory holds TLA+ modules that model its parts, TLC configurations that
check them on small instances, and TLAPS proofs. Every definition is a
translation of the Rust source; `PROJECT.json` gives, per definition, the file
and the lines it stands for.

## 1. The system: parts, state, operations

### Storage

* **Commit, log, recovery** (`cas/src/store.rs`). State: two superblock slots,
  a ring of log records, a chunk region; in memory the ref table, one overlay
  per ref, the queue of log records, tail and next sequence number. A write is
  appended to the ring and flushed before it is acknowledged, then applied to
  the overlay. Four triggers turn overlays into trees (log pressure, per-ref
  bound, size, staleness). A commit writes the table, waits (barrier 1), writes
  the superblock to the slot that is not live, waits (barrier 2). Mount takes
  the valid slot of the higher generation and replays the ring from its head.
  The hard part is power loss between any two device operations.
* **Chunk allocator and collector** (`store.rs` `ChunkStore`, `gc.rs`). Extents
  are allocated from committed-free space or from the tail; what a sweep or a
  superseded index frame frees is reusable only after the commit.
* **Overlays and file identity** (`overlay.rs`). Names, tombstones, directory
  renames, open identities that survive unlink and rename; every operation is
  a log record that replay applies again.
* **Ref table** (`disk.rs`, `store.rs`). Snapshots, tags, classes, edit
  versions, guarded batches.
* **Trees and chunking** (`prolly.rs`, `file.rs`, `tree.rs`, `chunk.rs`). Pure
  functions over hashed bytes.
* **Server** (`storage-server`, `user/storaged`). Sessions, handles with rights
  and a generation, tickets with expiry, collector trigger, two channels served
  by one reactor loop that also flushes stale overlays.

### Kernel

One core, not preemptible: every system call, interrupt and fault is atomic,
and scheduling happens at exception exit only.

* **Capabilities** (`kcore/src/cspace.rs`). Slots threaded into a derivation
  tree, reference-counted objects, derive, move, delete, and a revoke that
  removes at most 16 leaves per call and is re-issued by user space.
* **Untyped memory, address spaces** (`untyped.rs`, `aspace.rs`). Watermark
  carving and reset; a page-table pool filled at creation and by top-up.
* **Channels** (`channel.rs`). Two rings with capability slots in them,
  bindings to notifications, a census of end capabilities that detects the
  closed peer.
* **Notifications, timers, interrupts** (`notification.rs`, `timer.rs`,
  `irq.rs`). A word or a queue of waiters, never both; a list of armed timers;
  lines masked on delivery until acknowledged.
* **Threads and scheduler** (`thread.rs`, `ready.rs`, `kernel/src/thread.rs`).
  32 strict priorities with a bitmap over FIFO queues; one terminal report per
  thread.

### User space

* **ipc**: reactor (one notification bit per source, poll once at
  registration), endpoints with back-pressure, session negotiation and
  admission.
* **urt**: spin lock with yield, futex table, threads with park notifications,
  slot allocator, spawn and reap, time page.
* **Drivers and programs**: `virtio-blk` (one request in flight), `console`,
  `shell`, `init`, `freelist` and `dma-pool`.

The console driver, the server and the shell run at priorities 6, 5 and 4, a
child at 3.

Interactions that matter: the server calls the engine and owns its clock and
its collector; the shell spawns children from donated untyped memory, waits for
their report and revokes the donation; console and shell feed two bounded rings
of one channel at different priorities; every user-space wait is a kernel
notification or a yield loop under strict priority.

## 2. Modules

| module | models | state and actions |
|---|---|---|
| `StoreCommit` | `cas/src/store.rs` commit, log, flush, mount; `CrashDev` of `dev.rs` | durable `ring`, `slot`, `lost`; pending `pend`, `unsynced`; memory `sb`, `live`, `table`, `overlay`, `recs`, `tail`, `seq`; control `pc`, `ret`, `job`, `toflush` |
| `DurableRefs` | the promise of the header comment of `store.rs`: crash-proof registers | `content`, the operation in progress |
| `ChunkStore` | `ChunkStore` of `store.rs`: allocator, index frame, free list, commit, collector | memory `m`, cells `disk`, flushed cells `sure`, superblocks `slot`; put, commit in steps, sweep, crash, mount |
| `FileNames` | `overlay.rs` names, identities, renames; the log of them and its replay | committed `tree`, overlay `ov`, log `wal`, open handles; one action per operation, flush, crash |
| `Intervals` | `overlay.rs` `FileOverlay`: the dirty byte runs of a file | `writes`, `bytes`; a write over what the file holds |
| `RefTable` | refs, snapshots, tags, edit versions, batches of `store.rs`, `disk.rs` | `tab` in memory, `dur` on disk, what clients saw |
| `FileContent` | `chunk.rs`, `file.rs` | the file, its chunk list, the streaming chunker |
| `DirTree` | `prolly.rs`, `tree.rs`, `gc.rs` mark | the directory, stored nodes, the saved root |
| `Encodings` | `disk.rs`, `prolly.rs`, `file.rs` formats; `loader` startup block and ELF segments | an encoded object, damaged or not |
| `BlockDevice` | `virtio-blk` | device cache and ring, driver request, byte-range call in progress |
| `StorageServer` | `storage-server/src/lib.rs` | sessions' handles, tickets, generation, collector |
| `StorageSessions` | `user/storaged`, `ipc` reactor and session, `eunomia-sys/src/fs.rs` | rings of two channels, server loop, programs |
| `Cdt` | the derivation tree of `kcore/src/cspace.rs` | operators on the function from slots to their content |
| `KernelObjects` | the objects of `kcore/src`: channels, notifications, timers, lines, threads, spaces; counts and teardown | operators on a record of all slots and all objects |
| `Capabilities` | the system calls of `kernel/src/syscall.rs` over them | `slot`, `obj`, `reply`, `load`; one action per call, and the two interrupts |
| `CapTree` | what the capability calls promise: intervals of memory and sets of ancestors | `cap`, `anc` |
| `Untyped` | `untyped.rs` in bytes: carve, top-up, reset | capabilities with base, size, watermark |
| `PageTable`, `AddressSpaces` | `kcore` and `kernel` `aspace.rs`; what mapping promises | tables in pools, ASIDs, cached translations |
| `Scheduler` | `ready.rs`, `notification.rs`, `timer.rs`, `kernel/src/thread.rs`, `exceptions.rs` | every link field; one action per exception |
| `SelfTest` | the two threads of `kernel/src/user.rs` | what the test sees of the kernel |
| `Syscall` | both user wrappers, registers, decoder, checks | one call on its way |
| `Spawning` | `init`, `loader/src/spawn.rs`, the shell's run of a program | capability spaces, mappings, startup block, slots |
| `Threads` | `urt` lock, futex, threads | every thread's place, locks, waiter table |
| `FreeList` | `freelist`, the heap of `urt`, `dma-pool` | extents, blocks handed out |
| `Console` | `user/console`, `eunomia-sys/src/console.rs`, the shell's input loop | device FIFO and line, driver, rings, programs |
| `MCStoreCommit`, `MCTwoRefs`, `MCCapabilities`, `MCMachine`, `MCStorage`, `MCLiveness` | instances for TLC | |
| `StoreCommitLemmas`, `StoreCommitProofs`, `CapTreeProofs`, `UntypedProofs` | TLAPS proofs | |

`MCMachine`, `MCStorage` and `MCLiveness` hold several components that do not
interact: the variable `part` is chosen once and only that component moves, so
a run is the union of the components' state spaces. Operators whose comment
starts with "Mutant" are the faulty variants of the definition that follows;
`PROJECT.json` says which property tells each of them from the code.

### StoreCommit

One handler runs at a time, as in the code (`&mut self`). Its control points are
the places where the device is touched, because power can go exactly there:
`relieve` (head of the loop of `relieve_wal_pressure`), `walsync` (the flush of
`wal_write`), `triggers`, `flush` (`flush_ref`), `put`, `barrier1`, `barrier2`
(`commit`), `reply`. `ret` says where a commit returns to: the relief loop, the
triggers, or the reply of the handler.

* A file's content is the number of the last write applied to it. This tells a
  kept write from a lost one and a newer from an older one; trees, hashes and
  chunks carry no more information for the properties below.
* Record lengths are in ring cells. A record is a run of cells that know their
  position, so wrapped, split, torn and half-overwritten records arise as they
  do in bytes; a record is whole iff all its cells are (`FrameAt`, the record
  checksum).
* A superblock carries the table by value and the number of the commit that
  wrote its blocks. `lost` collects commits whose blocks power loss dropped,
  which is what mount meets as a missing ref table.
* The device keeps of every pending write, on its own, nothing, a prefix or all
  (`CrashDev::crash`).
* The order in which triggers pick refs depends on byte counts and clocks; the
  model takes any non-empty set of dirty refs, or none.
* Device errors are actions of their own (`WalFails`, `FlushFails`,
  `CommitFailsEarly`, `CommitFailsLate`): the handler returns with exactly the
  memory the code leaves behind at that `?`.
* `expect` and `maybe` record what clients were told; they are history only.

### The other parts of the store

* `ChunkStore`: the region is a row of cells. A commit is the sequence of its
  device operations (index frame, flush, superblock, flush), each of which may
  fail or be the last before power loss; unflushed cells are then whole or torn,
  one by one. `twice` remembers that a commit was tried again after a failure and
  put the old index extent on the list a second time.
* `FileNames`: content is the set of offsets written, one byte each. `want` and
  `hand` are the histories that reads by name and by handle are compared with;
  `odd`, `broken` and `Lost` mark what left the range of the promise (section 5).
* `RefTable`: a client reads the rows of a ref, then sends a guarded batch. A
  failing commit leaves the edits in memory, as the code does. Refs share tag names,
  and a batch may give a row any parent; `taken` and `looped` remember tags that
  changed refs and refs in which a row became its own ancestor.
* `FileContent`, `DirTree`: a hash is the thing hashed. "A chunk, or a node, ends
  here" is any predicate of the bytes or items the code lets it depend on; the
  initial state chooses it, so all outcomes of the rolling hash are covered.
* `Encodings`: a buffer is a row of cells below a small base; fields the decoder
  does not look into are one cell. Damage replaces or cuts cells.
* `BlockDevice`: the device answers in its own time, may fail, and writes cached
  sectors back when it likes.
* `StorageServer` runs one request at a time and the collection it asked for
  after the reply; the device holds three trees, so space runs low.
  `StorageSessions` has the server's loop and the programs, with requests reduced
  to their numbers. A program may end at any point, and the second channel's
  programs have three threads, each with a request out.

### Cdt, KernelObjects, Capabilities

The kernel handles one exception at a time with interrupts masked, so a system
call is one step. What interleaves are calls of different threads, timer expiry
and interrupts between calls, and the quanta of a revoke. Which ready thread
calls next is left open; the scheduler only removes behaviours.

* An object is known by its address, as in `ObjId`. Slot `<<o, j>>` is the j-th
  slot of the object at `o`, so a slot in a message, in a thread's binding or in
  a capability space is a node of the tree like any other. Every object takes
  one unit of memory; alignment and byte sizes are in `Untyped`.
* `Delete`, `Unref` and `Destroy` are the recursion of `delete`, `obj_unref` and
  the `destroy_*` functions, in the order of the code: a deleted capability is
  unlinked and emptied first, then the end of a channel is counted down (which
  may signal), then a mapping is undone, then the object is released.
* `RevokeStep` deletes the first leaf below the root, at most `Quantum` times,
  and leaves the mark while children remain. `Reissue` is the loop of
  `cap_revoke_all`.
* Bits of a notification are one flag. Deadlines are left out: an armed timer
  may expire at any time. A message is its capabilities.
* `load` fixes what the threads of a scenario do. It never changes.
* A call that fails without effect is no step. The one failing call that
  changes state, `thread_start_as` with an unmapped entry, is
  `ThreadStartFails`.
* The destinations of one receive are pairwise distinct. `recv` states this as
  its precondition and the callers in `ipc` and `urt` keep it.
* `MaxRefs` stands for `u32::MAX`, which `derive` tests. No other increment of
  a count is tested in the code, and none is in the model.
* `TreeImplemented` maps slots to `CapTree`: a capability becomes its interval of
  memory and its authority, its place in the tree the set of its ancestors.

### The other parts of the machine

* `Scheduler` keeps the link fields themselves (`qnext`, heads, tails, bitmap,
  timer links), because ready and wait queues share them. `x0` follows the
  result register of every thread through the switch. `MCMachine` has it twice:
  with three threads and one timer, and with two threads and two timers, for the
  walk that expires several.
* `PageTable` has three levels of tables of two entries. The processor may cache
  any translation of the current space at any time.
* `SelfTest` has the scripts of `user_main` and `user_thread2` with every check
  they print, among them the weak copy of the thread capability and the teardown
  of a channel.
* `Syscall` is checked on one call at a time: every slot, every index beyond the
  limit, addresses around both ends of user memory.
* `Spawning` runs the lists of calls of `init`, the loader and the shell, any of
  which may be refused, and the abort paths. Slots remember the order of
  derivation, so that one revoke call deletes what the kernel's walk would.
* `Threads`: taking a lock and the work under it are one step, releasing it
  another. The main thread has the priority of the others or a higher one, and no
  thread runs while one above it is ready. `Console`: a program runs only while the driver sleeps, which is what
  its priority means on one processor.

## 3. Runs

| run | instance | properties |
|---|---|---|
| `commit_two_refs` | 2 refs, 5 cells, records of 2 and 3 cells, 4 requests, or 3 and a device error anywhere, 1 power loss | `TypeOK`, `AlwaysMountable`, `LiveSlotSafe`; while nothing failed `SoundUntilFault` |
| `commit_one_ref` | 1 ref, 2 files, all requests, records of 2, 3 and 6 (oversized) cells | `StoreSound`, and the refinement of `DurableRefs` (`Implements`) |
| `caps_calls` | init and a child, seven start states | `TreeSound`, `ObjectsSound`, `WaitQueues`; `TeardownExact`; `RevokedNeverGrows` |
| `caps_memory` | 2 or 3 units of memory | `ObjectsSound`, `MemorySound`, `RevokeExact`, the refinement of `CapTree` (`TreeImplemented`) |
| `machine` | one component at a time | `SchedulerSound`, `FifoOrder`, `TablesSound`, the refinement of `AddressSpaces` (`MappingImplemented`), `CarvingSound`, `CallsChecked`, `ProgramsSound`, `HeapSound` |
| `storage` | one component at a time | `NamesSound`, `RunsSound`, `SpaceSound`, `RefsSound`, `ContentSound`, `DirectoriesSound`, `FormatsSound`, `DeviceSound`, `ServerSound`, `NothingGained` |
| `liveness` | one component at a time | `RequestsServed`, `RevokeEnds`, `TurnComes`, `Passes`, `SessionsServed`, `ThreadsServed`, `KeysArrive` |
| `rollback_undone`, `oversized_overwritten`, `commit_failure_loses`, `caps_reset_dangling`, `caps_retype_under_revoke` | smallest instance that shows it | violations, see section 5 |

A property named `...Sound` is the conjunction of what its component promises,
each conjunct stated and explained in the component's module:

* `StoreSound`: `AckedRecoverable` (what was acknowledged survives, at every
  moment), `LogWindow` (the log in memory is the log on disk), `ReadsAreDurable`;
  `SoundUntilFault` adds `ReliefPopsFront`.
* `TreeSound`: `TypeOK`, `CdtWellFormed`, `RightsMonotone`. `ObjectsSound`:
  `RefsExact`, `NoDangling`. `MemorySound`: `MappingsExact`, `TablesExclusive`,
  `RegionOwned`. `RevokeExact`: `RevokeDone`, `RevokeConfined`. `TeardownExact`:
  `RevokeExact`, `PeerTold`.
* `SchedulerSound`: `QueuesExact`, `HighestRuns`, `NoLostWake`, `ResultsArrive`,
  `NotifHeld`, `NoneOverdue`. `TablesSound`: `TablesOnce`, `TlbCurrent`, `RangeCheckExact`.
  `CarvingSound`: `ObjectsApart`, `TablesApart`, `CarveExact`. `CallsChecked`:
  `ArgumentsArrive`, `RefusedAlike`, `AuthorityNeeded`, `FailsClean`.
  `ProgramsSound`: `GrantsTrue`, `DeathSeen`, `ReportTrue`, `NothingKept`,
  `CanRun`. `HeapSound`: `BlocksApart`, `ListCanonical`.
* `NamesSound`: `ReadsMatch`, `HandlesFollow`, `BytesExact`. `RunsSound`:
  `LastWriteWins`, `CountExact`. `SpaceSound`: `CommittedReadable`,
  `SpaceAccounted`. `RefsSound`: `VersionTells`, `TableSound`, `TimesAscend`.
  `ContentSound`: `Canonical`, `ReadsBack`, `StreamCutsAlike`.
  `DirectoriesSound`: `LoadsBack`, `DiffExact`, `MarkExact`. `FormatsSound`:
  `RoundTrip`, `OneEncoding`, `GeometryInside`, `SegmentLoads`. `DeviceSound`:
  `RangesExact`, `NeighboursKept`. `ServerSound`: `RevokedStays`, `Reclaimed`.
* The temporal properties of `liveness` say first what holds all along, then what
  comes in the end.

**Exceptions.** Several of these promises have cases in which the code does not
keep them. The models contain these cases; the property excepts the states in
which one has happened, its comment says so, and section 5 tells what TLC finds
without the exception.

| property | excepted | by |
|---|---|---|
| `MemorySound`, `CarvingSound` | page tables whose memory was reset under their address space | `exposed`, `lent.reset` |
| `TablesSound` | live address spaces that have one ASID | `Shares` |
| `ProgramsSound` | a child with more capabilities than one revoke call deletes; a copy of the file session whose install was refused | `Overrun`, `Staged` |
| `NamesSound` | after a rename of a removed name, a directory's move cut by power loss, or a write that cannot be flushed; handles below a directory that was renamed | `odd`, `broken`, `Lost` |
| `SpaceSound` | after a failed commit was tried again | `twice` |
| `RefsSound` | tags that another ref took; parents in a ref with a row that is its own ancestor | `taken`, `looped` |
| `DirectoriesSound` | files that hold the bytes of a node | `Disguised` |
| `SessionsServed` | two requests of one program out at once; programs after one that left an answer; a server that waits on a full ring | `mixed`, `Spoilt`, `Jammed` |
| `ThreadsServed` | a thread while one above it is ready, or while the lock it wants is held by one below it | `Outranked`, `Inverted` |
| `KeysArrive` | a driver that waits on a full ring; a child that runs on | `Stuck` |

**Bounds.** Five cells with records of two and three cells are the smallest ring
that is exactly full, wraps, splits a record and leaves stale whole records of
an earlier lap behind the tail. Four requests fill the ring, force relief and
write once more. One power loss is enough because mount leaves a state from
which the next power loss starts like the first; `MaxCommits` only bounds the
relief loop in the runs where it makes no progress.

The runs of `Capabilities` have no bound on the number of calls: their state
spaces are complete for the scenario. Two threads are enough for every pair of
calls to interleave, one message per ring and one capability per message for a
ring slot to be an inner node of the tree, and a quantum of one leaf for every
call to come between two deletions. `MaxRefs` is small so that the refusal of
`derive` happens.

In `machine` and `storage` the smallest instances in which each conjunct has
something to say were taken: three threads and two levels (a queue with a
middle, and a level above it), two timers, a pool of three tables for two frames (a mapping
can run out half-way), two ASIDs for two spaces (they start over), addresses up
to 27 with a last page that is cut off, three extents for four blocks (the free
list is full), three runs for a write to span, two trees that share an object, a
region that fills up, one failing device operation and one power loss at any
point, chunks of one to three bytes in files of six, nodes of two entries over
four names (two levels and forced cuts), ring indices that wrap after four,
three children one after the other, a device that holds three trees (space runs
low). A revoke call in `Spawning` deletes as many capabilities as the
kernel's does, and a child may have more. In `liveness` two programs follow each
other on the second channel, whose rings hold two messages, so that three
threads fill them; the serial FIFO and the rings
hold two, so that five keys fill everything.

Deadlock is not checked: the bounds on requests stop every run, and a machine in
which all threads wait and nothing is armed has stopped.

**Fairness.** `StoreCommit`: the engine is one thread that never waits inside a
handler, so its own steps are weakly fair, and so is mount. `Capabilities`: a
caller that was told `ERR_AGAIN` calls again, which is the loop of
`cap_revoke_all`. `Scheduler`: the timer tick comes. `SelfTest`: ticks, timer
and device line come, and the thread that has the processor runs. `Threads`: a
thread inside a call of the runtime goes on when it is its turn; one that
computes may do so for ever. `StorageSessions`: server and programs go on with a
call they have begun, the programs as long as the server does not spin above
them. `Console`: interrupts are delivered, and the processor
runs the driver and, while that sleeps, the shell; a child need not end.
Nothing is assumed of clients, of power, of who types, or of device errors.

## 4. Proofs

**StoreCommitProofs**, with the lemmas per action in `StoreCommitLemmas`, proves,
for every set of refs and files, every ring length, watermark, record lengths
and all bounds, with crashes and device errors at any step:

* `TypeCorrect`: `Spec => []TypeOK`;
* `CommitSafe`: `Spec => []LiveSlotSafe`, a commit never writes the live slot,
  a superblock that can win recovery names only durable blocks, generations of
  valid slots differ;
* `StoreMounts`: `Spec => []AlwaysMountable`.

`LiveSlotSafe` is not inductive by itself: what may be pending depends on where
the handler is. `ControlOK` adds that (no commit number beyond `nCommits` is
pending or on disk, superblock writes are pending only from `barrier2` on or after a
failed commit, the blocks of the commit are still unsynced at `barrier1`), and
`IInv == TypeOK /\ ControlOK /\ LiveSlotSafe` is preserved by every action, one
lemma per action. `AlwaysMountable` follows from `LiveSlotSafe`. The assumptions
are those of the module: sizes are natural numbers, `None` is none of the values.

**CapTreeProofs** proves about `CapTree`, for every set of slots, every size of
memory and every sequence of calls, with no assumption on the constants:

* `TypeCorrect`: ancestors are capabilities that are still held;
* `MemorySafe`: two capabilities cover disjoint memory, name the same object, or
  one was carved out of the other, below its watermark. `MemoryExclusive` is
  inductive together with the types; the case that needs the argument is
  `Retype`, where everything that overlaps the new object would lie above the
  watermark, and `Reset`, which is allowed only when nothing is below;
* `AuthoritySafe`: along the tree a capability names its ancestor's object and
  rights only shrink; a move keeps this because ancestors are renamed with it;
* `NothingAppears`: no step makes a capability that was not covered before.

The run `caps_memory` shows that the system calls implement `CapTree`
(`TreeImplemented`), so what is proved of the forest holds of the calls on that
instance.

**UntypedProofs** proves `CarveInRegion`: what `carve_place` returns lies between
the watermark and the end of its region, is aligned, and none of the sums it
makes leaves the address range, for every region, watermark, size and width.

Only model-checked: `StoreSound` and its parts (they speak about the log walk),
the refinements (their mappings go through recursive walks), all liveness, which
is out of the prover's reach, and the other modules: teardown, trees and chunking
are recursive, and what a recursive definition computes for every input cannot
be proved with the installed provers.

## 5. Where code and comments disagree

Each of these is a run that TLC ends with a counterexample, and an entry in
`findings`.

1. A rollback is undone by replay while another ref pins the log.
2. An oversized write is overwritten by the replay of an older record of the
   same file.
3. A commit that fails at the superblock has already popped records that the
   superblock on disk still needs.
4. `untyped_reset` looks for derivation children only. A notification that an
   interrupt line is bound to outlives the revoke of its capabilities, and the
   next retype writes over it.
5. `retype` does not look at the mark of a revoke in progress and adds to the
   marked subtree.

The following were found with the same modules by other constants or properties
and are not kept as runs. What is changed is said in parentheses.

* **Console** (`KeysArrive` without `Stuck`). On a full input ring `send_bytes`
  yields, but the driver has no equal at priority 6, so the shell at 4 never
  drains the ring; the comments say that this "resolves promptly on a
  yield-retry" (`console/src/main.rs` 162) and that the driver "cannot starve
  them" (`init/src/main.rs` 589). (`EveryByte <- FALSE`): if the device raises
  its line only when the FIFO leaves empty, a byte that arrives during the first
  drain of a full FIFO is never signalled.
* **Locks** (`ThreadsServed` without `Inverted`). A thread that spins
  on a lock held by a thread of lower priority never gives way; `lock.rs` 35-43
  says that yielding does not cure this, and that it "is bounded here".
* **Reap** (`ProgramsSound` without `Overrun`). `SpawnRec::reap` issues one revoke,
  which deletes at most 16 capabilities, where `urt/src/spawn.rs` 18 says
  "a single `revoke(donation)` that the kernel walks to every descendant".
* **File sessions** (`SessionsServed` without `mixed`, `Spoilt` or `Jammed`).
  `fs::request` takes no lock, so two threads may get each other's replies; a
  program that ends in the middle of a call leaves a reply that the next
  program's handshake reads; three requests out at once fill the reply ring of a
  program that does not read, and the server yields to nobody below its priority,
  where `storaged/src/main.rs` 130-131 says that "a yield-retry drains promptly".
* **Overlay** (`Intervals`, `MinLen <- 0`; `FileNames`, where `broken`). A write of
  no bytes replaces a run that starts there by an empty one; a write below a name
  that is a file is accepted and logged, and can never be flushed
  (`store.rs` 2217-2219).
* **Renames** (`NamesSound` without `odd` or `Lost`). A rename of a name that is
  tombstoned but still in the tree is accepted and revives the file; a rename of
  a file that is open and clean ends in `unwrap` of nothing (`overlay.rs` 473); a
  rename over an open file drops it from `names`; handles do not follow the
  rename of a directory; power loss between the log record and the commit of a
  directory rename replays it over the renamed tree.
* **Free space** (`SpaceSound` without `twice`). A commit that failed and is tried
  again leaves two free extents that overlap (`store.rs` 3155-3157); one generation
  later two objects are given the same cells and a committed one is overwritten.
* **Ref table** (`RefsSound` without `taken` or `looped`). A tag that another ref takes
  over does not advance the edit version of the first (`store.rs` 2172-2176), so
  a guarded batch passes on a tag it has not seen. `SetParent` accepts a
  snapshot as its own parent, and deleting it leaves its children a parent that is
  gone. A head moved by a failing `sync_all` is not
  seen by the guard.
* **Mark** (`DirectoriesSound` without `Disguised`). Chunks and nodes are marked in
  one set; a node that the walk met first as the chunk of a file is not looked
  into, and what is below it is freed (`gc.rs` 90-101).
* **Page tables** (`MemorySound` or `CarvingSound` without the exception). Tables
  topped up from an untyped capability leave no child of it, so it can be reset
  and carved again under the address space that uses them.
* **ASIDs** (`TablesSound` without `Shares`). Once the numbers have started over,
  a new address space may get the number of a live one.

Read off the source while modelling, and not shown by a run: a failed flush
drops the overlay, the next flush of the ref retires the records of the lost
writes, and the relief loop makes no progress meanwhile; a revoke that destroys the space its own root is in reports
completion while descendants live; the mark of a revoke travels when its root is
moved (`cspace.rs` 11321-11323 expects no root to be moved); `storaged` never returns an
admitted window; `gc_done_gen` is not advanced when a collection fails; tickets
that expired are never removed; `OpenChild` resolves against the committed root
only; the edit of a node that was cut by force perturbs its neighbours
(`prolly.rs` 26-30 says it does not); `startup::decode` accepts bytes behind the
block; a run refused for want of slots would keep those it had taken
(`runtime.rs` 547-552), which a window of 56 slots for images of at most 8
segments rules out; lengths cut `as u8` and `as u16` in the ref table and in log records are
kept in range only by the size of a message.

## 6. Not modelled

* The wire formats of `storage-server` and `ipc`: byte codecs without state,
  from tables of requests. `Encodings` has the formats on disk and at start.
* Kernel boot, register programming and assembly; the accessors of the object
  store, which read and write one field each.
* Hashes, checksums and the rolling hash themselves: they are what they tell
  apart, or any predicate.
* The time page: written once before a program starts; the sequence-lock reader
  retries only if it is written again, which nothing in the system does.
* Thread-local storage, entropy, path resolution, the glue to the standard
  library: functions of one caller.
* `mkfs`, the test programs and the shell's other commands.

Parts with the status `partly` in `PROJECT.json` leave out what their note says.
What would come next: the wire codec in `Encodings`, the revoke of `CapTree` as
quanta with a proof that it ends with no descendant, and the scheduler's queues
as a theorem over any number of threads.
