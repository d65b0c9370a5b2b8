--------------------------------- MODULE MCStorage ---------------------------------
(***************************************************************************)
(* The parts of the storage stack for TLC, one at a time: the overlay's names *)
(* and byte runs, the chunk store under commit, the ref table, file and     *)
(* directory objects, their encodings, the block device, and the server.    *)
(***************************************************************************)
EXTENDS Integers, Sequences, TLC

CONSTANT None

VARIABLES
    part,  \* the component that runs, chosen once
    tree, namingBase, wal, ov, nextId, openFiles, want, hand, odd, broken, namingOps,
    writes, bytes, runsBase, fresh, file, runsN,
    spaceM, spaceDisk, sure, slot, pc, after, spaceEdits, spaceFails, spaceCrashes,
    twice,
    tab, dur, dirty, view, tableOps, tableFails, looped, taken,
    ends, data, content, contentStore, contentBuf, contentOut, fed, contentEdits,
    leafEnds, upperEnds, dir, folderStore, saved, folderEdits,
    format, obj, encBuf, damage, geo, seg,
    devDisk, cache, devQ, op, devOut, devNow, kept, calls, devFails, devCrashes,
    st, sess, tickets, seq, serverNow, gcAsked, epoch, trash, asked, serverFails

\* An empty ref, and one with a file at the top and one in a directory.
MountedTrees ==
    {[files |-> <<>>, dirs |-> {}],
     [files |-> <<"x">> :> {1} @@ <<"d", "y">> :> {2}, dirs |-> {<<"d">>}]}

\* Two trees that share an object; the larger takes two cells.
TreeParts(t)  == IF t = "t1" THEN <<"c", "t1">> ELSE <<"c", "t2">>
ObjectSize(h) == IF h = "t2" THEN 2 ELSE 1

LeafCuts == {{<<2, "inline">>}, {<<1, "inline">>, <<3, "inline">>, <<4, "list">>}}

RefRights == {"read", "write", "snapshot", "rewrite", "enumerate"}

\* Values of every format, with fields of one or two cells and every number of
\* repetitions up to the limit; NoParent is how a missing parent is told.
NoParent == <<-1>>
NodeEntries ==
    {<< <<1>>, <<0>>, <<2>>, <<0>>, <<>>, <<0>> >>, << <<1, 2>>, <<0>>, <<1>>, <<0>>, <<3>>, <<2>> >>,
     << <<2>>, <<0>>, <<1>>, <<1>>, <<4>>, <<1>> >>, << <<3>>, <<1>>, <<0>>, <<2>>, <<1>>, <<0>> >>}
PathsOf(names) == {<<n>> : n \in names} \cup (names \X names)
LogPaths == PathsOf({<<1>>, <<2, 1>>})
OneGrant   == << <<2>>, <<1>>, << <<3>> >> >>
ThreeGrant == << <<1>>, <<3>>, << <<0>>, <<4>>, <<2>> >> >>
FourGrant  == << <<0>>, <<4>>, << <<1>>, <<1>>, <<0>>, <<2>> >> >>
EncodedObjects ==
    ({"startup"} \X ({<<>>, <<OneGrant>>, <<ThreeGrant>>, <<FourGrant>>, <<OneGrant, ThreeGrant>>,
                      <<ThreeGrant, FourGrant>>}
                     \X {<<>>, << <<1>> >>, << <<2, 1>>, <<>> >>} \X {<<>>, << <<1, 2>> >>}))
    \cup ({"node"} \X ({<<>>} \cup PathsOf(NodeEntries)))
    \cup ({"list"} \X {<<>>, << << <<1>>, <<2>> >>, << <<4>>, <<0>> >> >>})
    \cup {<<"record", << <<1>>, <<1>>, <<p>>, << <<0>>, <<3>> >>, <<2, 2>> >> >> : p \in LogPaths}
    \cup {<<"record", << <<2>>, <<>>, <<p>>, << <<1>> >>, <<>> >> >> : p \in LogPaths}
    \cup {<<"record", << <<3>>, <<1>>, <<p, q>>, << <<1>> >>, <<>> >> >> : p, q \in LogPaths}
    \cup {<<"table", << <<>>, <<>>, <<>> >> >>}
    \cup {<<"table", << << << <<1>>, <<1>>, <<2>>, <<3>>, <<0>> >> >>,
                        << << <<1>>, <<1>>, <<2>>, <<0>>, <<4, 4>>, parent, <<2>>, <<class>> >> >>,
                        << << <<2>>, <<1>>, <<1>> >> >> >> >> :
             parent \in {NoParent, <<0>>, <<3>>}, class \in 0 .. 2}
    \cup {<<"index", << << << <<1>>, <<2>>, <<3>>, <<0>> >> >>, << << <<0>>, <<4>> >> >>, pad >> >> :
             pad \in {<<>>, <<0>>, <<0, 0>>}}

Naming == INSTANCE FileNames WITH
    Paths <- {<<"x">>, <<"d", "y">>, <<"e", "y">>}, Dirs <- {<<"d">>, <<"e">>},
    Trees <- MountedTrees, Offsets <- {1, 2}, MaxOps <- 4, MaxOpen <- 2,
    base <- namingBase, ops <- namingOps
namingVars == <<tree, namingBase, wal, ov, nextId, openFiles, want, hand, odd, broken,
                namingOps>>

Runs == INSTANCE Intervals WITH
    MinLen <- 1, MaxEnd <- 5, MaxWrites <- 3, BaseLens <- {0, 3}, base <- runsBase,
    n <- runsN
runsVars == <<writes, bytes, runsBase, fresh, file, runsN>>

Space == INSTANCE ChunkStore WITH
    Trees <- {"t1", "t2"}, Parts <- TreeParts, Size <- ObjectSize, Region <- 14,
    PerCell <- 5, MaxGen <- 6, MaxEdits <- 2, MaxFails <- 1, MaxCrashes <- 1,
    m <- spaceM, disk <- spaceDisk, edits <- spaceEdits, fails <- spaceFails,
    crashes <- spaceCrashes
spaceVars == <<spaceM, spaceDisk, sure, slot, pc, after, spaceEdits, spaceFails,
               spaceCrashes, twice>>

Table == INSTANCE RefTable WITH
    Refs <- {"r", "s"}, Roots <- {"a"}, Clients <- {"c"}, Names <- {"n"},
    Times <- {0, 2}, TimeMax <- 3, MaxSnaps <- 3, MaxOps <- 4, MaxFails <- 1,
    ops <- tableOps, fails <- tableFails
tableVars == <<tab, dur, dirty, view, tableOps, tableFails, looped, taken>>

Content == INSTANCE FileContent WITH
    Byte <- {0, 1}, INLINE_MAX <- 1, MinChunk <- 1, MaxChunk <- 3, MaxLen <- 6,
    MaxEdits <- 2, store <- contentStore, buf <- contentBuf, out <- contentOut,
    edits <- contentEdits
contentVars == <<ends, data, content, contentStore, contentBuf, contentOut, fed,
                 contentEdits>>

Folder == INSTANCE DirTree WITH
    Names <- 1 .. 4, Inlines <- {1}, Lists <- {<<0, 1>>}, MAX_NODE_ENTRIES <- 2,
    Cuts <- LeafCuts, MaxEdits <- 2, store <- folderStore, edits <- folderEdits
folderVars == <<leafEnds, upperEnds, dir, folderStore, saved, folderEdits>>

Enc == INSTANCE Encodings WITH
    Base <- 5, MaxOpt <- 3, MaxWidth <- 3, MaxBlock <- 14, Page <- 2,
    Objects <- EncodedObjects, MaxDamage <- 2, Word <- 6, buf <- encBuf
encVars == <<format, obj, encBuf, damage, geo, seg>>

Dev == INSTANCE BlockDevice WITH
    SECTOR <- 2, Capacity <- 3, MaxSectors <- 2, QSize <- 2, IdxMod <- 4,
    Ranges <- {<<1, 4>>, <<2, 1>>, <<0, 6>>, <<5, 2>>}, MaxCalls <- 2, MaxFails <- 1,
    MaxCrashes <- 1, disk <- devDisk, q <- devQ, out <- devOut, now <- devNow,
    fails <- devFails, crashes <- devCrashes
devVars == <<devDisk, cache, devQ, op, devOut, devNow, kept, calls, devFails,
             devCrashes>>

Server == INSTANCE StorageServer WITH
    Masks <- {RefRights, {"read", "write", "stat"}}, MaxTtl <- 1, MaxNow <- 1,
    Total <- 3, MaxTrees <- 3, MaxSnaps <- 1, MaxHandles <- 2, MaxRequests <- 5,
    MaxTickets <- 1, MaxConnects <- 1, MaxRevokes <- 1, MaxFails <- 1, now <- serverNow,
    fails <- serverFails
serverVars == <<st, sess, tickets, seq, serverNow, gcAsked, epoch, trash, asked,
                serverFails>>

-----------------------------------------------------------------------------

\* A component that does not run has no state.
Off(p) ==
    /\ IF p = "names" THEN TRUE ELSE tree = <<>> /\ namingBase = <<>> /\ wal = <<>> /\
                                     ov = <<>> /\ nextId = <<>> /\ openFiles = <<>> /\
                                     want = <<>> /\ hand = <<>> /\ odd = <<>> /\
                                     broken = <<>> /\ namingOps = <<>>
    /\ IF p = "runs" THEN TRUE ELSE writes = <<>> /\ bytes = <<>> /\ runsBase = <<>> /\
                                    fresh = <<>> /\ file = <<>> /\ runsN = <<>>
    /\ IF p = "space" THEN TRUE ELSE spaceM = <<>> /\ spaceDisk = <<>> /\ sure = <<>> /\
                                     slot = <<>> /\ pc = <<>> /\ after = <<>> /\
                                     spaceEdits = <<>> /\ spaceFails = <<>> /\
                                     spaceCrashes = <<>> /\ twice = <<>>
    /\ IF p = "table" THEN TRUE ELSE tab = <<>> /\ dur = <<>> /\ dirty = <<>> /\
                                     view = <<>> /\ tableOps = <<>> /\
                                     tableFails = <<>> /\ looped = <<>> /\ taken = <<>>
    /\ IF p = "content" THEN TRUE ELSE ends = <<>> /\ data = <<>> /\ content = <<>> /\
                                       contentStore = <<>> /\ contentBuf = <<>> /\
                                       contentOut = <<>> /\ fed = <<>> /\
                                       contentEdits = <<>>
    /\ IF p = "directory" THEN TRUE ELSE leafEnds = <<>> /\ upperEnds = <<>> /\
                                         dir = <<>> /\ folderStore = <<>> /\
                                         saved = <<>> /\ folderEdits = <<>>
    /\ IF p = "encoding" THEN TRUE ELSE format = <<>> /\ obj = <<>> /\ encBuf = <<>> /\
                                        damage = <<>> /\ geo = <<>> /\ seg = <<>>
    /\ IF p = "device" THEN TRUE ELSE devDisk = <<>> /\ cache = <<>> /\ devQ = <<>> /\
                                      op = <<>> /\ devOut = <<>> /\ devNow = <<>> /\
                                      kept = <<>> /\ calls = <<>> /\ devFails = <<>> /\
                                      devCrashes = <<>>
    /\ IF p = "server" THEN TRUE ELSE st = <<>> /\ sess = <<>> /\ tickets = <<>> /\
                                      seq = <<>> /\ serverNow = <<>> /\
                                      gcAsked = <<>> /\ epoch = <<>> /\ trash = <<>> /\
                                      asked = <<>> /\ serverFails = <<>>

Still(p) ==
    /\ UNCHANGED part
    /\ IF p = "names" THEN TRUE ELSE UNCHANGED namingVars
    /\ IF p = "runs" THEN TRUE ELSE UNCHANGED runsVars
    /\ IF p = "space" THEN TRUE ELSE UNCHANGED spaceVars
    /\ IF p = "table" THEN TRUE ELSE UNCHANGED tableVars
    /\ IF p = "content" THEN TRUE ELSE UNCHANGED contentVars
    /\ IF p = "directory" THEN TRUE ELSE UNCHANGED folderVars
    /\ IF p = "encoding" THEN TRUE ELSE UNCHANGED encVars
    /\ IF p = "device" THEN TRUE ELSE UNCHANGED devVars
    /\ IF p = "server" THEN TRUE ELSE UNCHANGED serverVars

Init ==
    /\ \/ part = "names" /\ Naming!Init
       \/ part = "runs" /\ Runs!Init
       \/ part = "space" /\ Space!Init
       \/ part = "table" /\ Table!Init
       \/ part = "content" /\ Content!Init
       \/ part = "directory" /\ Folder!Init
       \/ part = "encoding" /\ Enc!Init
       \/ part = "device" /\ Dev!Init
       \/ part = "server" /\ Server!Init
    /\ Off(part)

Next ==
    \/ part = "names" /\ Naming!Next /\ Still("names")
    \/ part = "runs" /\ Runs!Next /\ Still("runs")
    \/ part = "space" /\ Space!Next /\ Still("space")
    \/ part = "table" /\ Table!Next /\ Still("table")
    \/ part = "content" /\ Content!Next /\ Still("content")
    \/ part = "directory" /\ Folder!Next /\ Still("directory")
    \/ part = "encoding" /\ Enc!Next /\ Still("encoding")
    \/ part = "device" /\ Dev!Next /\ Still("device")
    \/ part = "server" /\ Server!Next /\ Still("server")

vars == <<part, namingVars, runsVars, spaceVars, tableVars, contentVars, folderVars,
          encVars, devVars, serverVars>>

Spec == Init /\ [][Next]_vars

-----------------------------------------------------------------------------
(* The properties of the components. *)

\* A file reads as what was written to it, under the name it was given last,
\* through write, unlink, rename, flush, crash and replay; an open handle follows
\* its file and stays with no other, unless a directory above it is renamed; and
\* the count of dirty bytes that schedules flushes is that of the data held.
\* Excepted are states after a rename of a name removed since the last flush, and
\* after a crash that interrupts the move of a directory (overlay.rs, store.rs).
NamesSound == part = "names" =>
    Naming!ReadsMatch /\ Naming!HandlesFollow /\ Naming!BytesExact

\* However writes overlap, the runs of the overlay give the file they would have
\* made; they stay apart, and insert reports what they grew by (overlay.rs).
RunsSound == part = "runs" =>
    Runs!LastWriteWins /\ Runs!CountExact

\* Whichever superblock a crash leaves, all it refers to is on the device and
\* flushed, and every cell below the tail has one owner, until a commit that
\* failed is tried again; and none is lost while nothing fails (ChunkStore in
\* store.rs).
SpaceSound == part = "space" =>
    Space!CommittedReadable /\ Space!SpaceAccounted

\* A guarded batch that passes acts on the rows and tags its client saw, but for
\* tags that another ref took; parents and tags never dangle, in memory and on
\* disk, but for parents in a ref where a row was made its own ancestor; and along
\* a ref the times of snapshots go up, also when the clock goes back (store.rs,
\* disk.rs).
RefsSound == part = "table" =>
    Table!VersionTells /\ Table!TableSound /\ Table!TimesAscend

\* Editing a file gives the chunks that chunking it anew would give, and they give
\* back its bytes; a chunker fed in pieces cuts where one that has the whole file
\* does (file.rs, chunk.rs).
ContentSound == part = "content" =>
    Content!Canonical /\ Content!ReadsBack /\ Content!StreamCutsAlike

\* A directory that was saved loads as what it was; diff names exactly what
\* differs, and equal directories have one root; the collector marks all that its
\* roots need, unless a file holds the bytes of one of their nodes, and nothing
\* else (prolly.rs, gc.rs).
DirectoriesSound == part = "directory" =>
    Folder!LoadsBack /\ Folder!DiffExact /\ Folder!MarkExact

\* What was encoded is what is decoded, for directory nodes, chunk lists, log
\* records, the ref table, the index and startup blocks; a node, chunk list or log
\* record that is accepted, damaged or not, is the encoding of what it says, and
\* of a startup block its beginning is; the geometry that mount accepts lies on
\* the device, and a segment that the ELF parser accepts can be laid out and
\* copied (disk.rs, prolly.rs, startup.rs, elf.rs).
FormatsSound == part = "encoding" =>
    Enc!RoundTrip /\ Enc!OneEncoding /\ Enc!GeometryInside /\ Enc!SegmentLoads

\* Reads and writes of byte ranges do what they say over sectors, and what was
\* flushed survives a crash though its sector is written again (virtio-blk).
DeviceSound == part = "device" =>
    Dev!RangesExact /\ Dev!NeighboursKept

\* Handles and tickets from before a revocation never become usable again, and
\* trees that lost their last name are collected before the next request
\* (storage-server/src/lib.rs).
ServerSound == part = "server" =>
    Server!RevokedStays /\ Server!Reclaimed

\* No request makes a handle or ticket that no handle or ticket covered before.
NothingGained == [][part = "server" => Server!EntriesCovered]_vars

=============================================================================
