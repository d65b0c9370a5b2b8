------------------------------ MODULE PageTable ------------------------------
(***************************************************************************)
(* Address spaces as three levels of tables in a pool of pages             *)
(* (kcore/src/aspace.rs, kernel/src/aspace.rs), the translations the       *)
(* processor has cached under the number of an address space, and the      *)
(* check of a range of user memory that the kernel makes before it reads   *)
(* or writes there.  Addresses of memory are counted in pages; a virtual   *)
(* address is a byte, PageBytes to the page.                               *)
(***************************************************************************)
EXTENDS Integers, Sequences, FiniteSets, SequencesExt

CONSTANTS
    Aspaces, None,
    Frames,                  \* capabilities to frames
    FramePa(_), FramePages(_), FramePerms(_),
    Vas,                     \* virtual addresses that are tried
    L1Size, TableSize,       \* entries of the first and of the other tables; 512
    KernelL1,                \* the first entries of L1 are the kernel's
    PageBytes, MaxAddr,      \* 4096 and u64::MAX
    MaxPool,                 \* pages of tables per address space
    MaxAsid,                 \* u16::MAX
    TlbSize                  \* translations the processor caches

VARIABLES
    asp,       \* the address spaces that exist
    mapping,   \* recorded in every capability to a frame: where, or None
    nextAsid,
    tlb        \* cached: number of the address space, page, leaf

vars == <<asp, mapping, nextAsid, tlb>>

FirstPage == KernelL1 * TableSize * TableSize
EndPage == L1Size * TableSize * TableSize
UserPages == FirstPage .. EndPage - 1

L1Index(page) == page \div (TableSize * TableSize)
L2Index(page) == (page \div TableSize) % TableSize
L3Index(page) == page % TableSize

\* Saturation in the code only makes a range longer that is too long.
VaRangeOk(va, pages) ==
    va % PageBytes = 0 /\ va >= FirstPage * PageBytes /\ va + pages * PageBytes <= EndPage * PageBytes

\* Memory of a device is never executable.
PteEncode(pa, perms) ==
    [pa |-> pa, w |-> "w" \in perms, x |-> "x" \in perms /\ "device" \notin perms,
     device |-> "device" \in perms]

\* An upper-level entry is None or the address of a table; addresses outside
\* the pool, such as the kernel's, lead nowhere.
PaOfTable(A, i) == A.pool_base + i - 1
PoolIndex(A, pa) == IF pa < A.pool_base \/ pa - A.pool_base >= Len(A.pool) THEN None
                    ELSE pa - A.pool_base + 1

EmptyTable == [i \in 0 .. TableSize - 1 |-> None]

-----------------------------------------------------------------------------
(* Walks.  A failing walk_alloc keeps the tables it has allocated. *)

Lookup(A, page) ==
    LET l1e == A.l1[L1Index(page)]
        l2 == PoolIndex(A, l1e)
        l2e == A.pool[l2][L2Index(page)]
        l3 == PoolIndex(A, l2e)
    IN  IF l1e = None \/ l2 = None THEN None
        ELSE IF l2e = None \/ l3 = None THEN None ELSE <<l3, L3Index(page)>>

Leaf(A, page) == LET e == Lookup(A, page) IN IF e = None THEN None ELSE A.pool[e[1]][e[2]]

CanAlloc(A) == A.pool_used < Len(A.pool)
AllocTable(A) == [A EXCEPT !.pool_used = @ + 1, !.pool[A.pool_used + 1] = EmptyTable]

WithL2(A, page) ==
    IF A.l1[L1Index(page)] # None \/ ~ CanAlloc(A) THEN A
    ELSE [AllocTable(A) EXCEPT !.l1[L1Index(page)] = PaOfTable(A, A.pool_used + 1)]

\* Mutant: the table at the end of the pool is handed out without taking it.
WithL3Untaken(A, page) ==
    LET l2 == PoolIndex(A, A.l1[L1Index(page)])
    IN  IF A.l1[L1Index(page)] = None \/ l2 = None THEN A
        ELSE IF A.pool[l2][L2Index(page)] # None \/ ~ CanAlloc(A) THEN A
        ELSE [A EXCEPT !.pool[l2][L2Index(page)] = PaOfTable(A, A.pool_used + 1)]

WithL3(A, page) ==
    LET l2 == PoolIndex(A, A.l1[L1Index(page)])
    IN  IF A.l1[L1Index(page)] = None \/ l2 = None THEN A
        ELSE IF A.pool[l2][L2Index(page)] # None \/ ~ CanAlloc(A) THEN A
        ELSE [AllocTable(A) EXCEPT !.pool[l2][L2Index(page)] = PaOfTable(A, A.pool_used + 1)]

WalkAlloc(A, page) == WithL3(WithL2(A, page), page)

\* The first pass makes the tables and stops at the first page that is taken
\* or has no table; the second writes all leaves.
PageOf(va, i) == va \div PageBytes + i - 1
Blocked(A, page) == Lookup(A, page) = None \/ Leaf(A, page) # None
FirstPass(A, va, pages) ==
    FoldLeft(LAMBDA r, i : IF r.stop THEN r
                           ELSE LET B == WalkAlloc(r.A, PageOf(va, i))
                                IN  [A |-> B, stop |-> Blocked(B, PageOf(va, i))],
             [A |-> A, stop |-> FALSE], [i \in 1 .. pages |-> i])

SetLeaf(A, page, leaf) == LET e == Lookup(A, page) IN [A EXCEPT !.pool[e[1]][e[2]] = leaf]
SecondPass(A, pa, va, pages, perms) ==
    FoldLeft(LAMBDA B, i : SetLeaf(B, PageOf(va, i), PteEncode(pa + i - 1, perms)),
             A, [i \in 1 .. pages |-> i])

\* Mutant: a page is written as soon as its table is there.
MapInOnePass(A, pa, va, pages, perms) ==
    LET F == FoldLeft(LAMBDA r, i : IF r.stop THEN r
                           ELSE LET B == WalkAlloc(r.A, PageOf(va, i)) IN
                                IF Blocked(B, PageOf(va, i)) THEN [A |-> B, stop |-> TRUE]
                                ELSE [A |-> SetLeaf(B, PageOf(va, i), PteEncode(pa + i - 1, perms)), stop |-> FALSE],
             [A |-> A, stop |-> FALSE], [i \in 1 .. pages |-> i])
    IN  IF ~ VaRangeOk(va, pages) THEN [A |-> A, ok |-> FALSE] ELSE [A |-> F.A, ok |-> ~ F.stop]

MapIn(A, pa, va, pages, perms) ==
    LET first == FirstPass(A, va, pages)
    IN  IF ~ VaRangeOk(va, pages) THEN [A |-> A, ok |-> FALSE]
        ELSE IF first.stop THEN [A |-> first.A, ok |-> FALSE]
        ELSE [A |-> SecondPass(first.A, pa, va, pages, perms), ok |-> TRUE]

UnmapIn(A, va, pages) ==
    FoldLeft(LAMBDA B, i : IF Lookup(B, PageOf(va, i)) = None THEN B ELSE SetLeaf(B, PageOf(va, i), None),
             A, [i \in 1 .. pages |-> i])

\* Mutant: the walk starts at the given byte and misses the page of the last.
RangeMappedFromByte(A, va, len, write) ==
    IF len = 0 THEN va >= FirstPage * PageBytes /\ va < EndPage * PageBytes
    ELSE /\ va + len <= MaxAddr
         /\ va >= FirstPage * PageBytes /\ va + len <= EndPage * PageBytes
         /\ \A i \in 0 .. (len - 1) \div PageBytes :
               LET leaf == Leaf(A, va \div PageBytes + i) IN leaf # None /\ (write => leaf.w)

\* May the kernel read, or write, len bytes at va?
RangeMappedIn(A, va, len, write) ==
    IF len = 0 THEN va >= FirstPage * PageBytes /\ va < EndPage * PageBytes
    ELSE /\ va + len <= MaxAddr
         /\ va >= FirstPage * PageBytes /\ va + len <= EndPage * PageBytes
         /\ \A page \in va \div PageBytes .. (va + len - 1) \div PageBytes :
               LET leaf == Leaf(A, page) IN leaf # None /\ (write => leaf.w)

-----------------------------------------------------------------------------

Live == DOMAIN asp

\* A new address space gets the next number; numbers start over at 1 after the
\* last, with every cached translation dropped.
InitAspace(a, pool) ==
    /\ a \notin Live
    /\ asp' = [b \in Live \cup {a} |-> IF b # a THEN asp[b]
                  ELSE [asid |-> nextAsid, pool_base |-> 2, pool_used |-> 0,
                        l1 |-> [i \in 0 .. L1Size - 1 |-> IF i < KernelL1 THEN 0 ELSE None],
                        pool |-> [i \in 1 .. pool |-> EmptyTable]]]
    /\ UNCHANGED mapping
    /\ nextAsid' = IF nextAsid = MaxAsid THEN 1 ELSE nextAsid + 1
    /\ tlb' = IF nextAsid = MaxAsid THEN {} ELSE tlb

\* A capability maps its frame once.
Map(a, f, va) ==
    LET r == MapIn(asp[a], FramePa(f), va, FramePages(f), FramePerms(f))
    IN  /\ mapping[f] = None
        /\ asp' = [asp EXCEPT ![a] = r.A]
        /\ mapping' = IF r.ok THEN [mapping EXCEPT ![f] = [asp |-> a, va |-> va]] ELSE mapping
        /\ UNCHANGED <<nextAsid, tlb>>

\* Mutant: only the first page is invalidated.
UnmapFirst(f) ==
    LET a == mapping[f].asp
        va == mapping[f].va
    IN  /\ asp' = [asp EXCEPT ![a] = UnmapIn(@, va, FramePages(f))]
        /\ mapping' = [mapping EXCEPT ![f] = None]
        /\ tlb' = {e \in tlb : ~ (e.asid = asp[a].asid /\ e.page = PageOf(va, 1))}
        /\ UNCHANGED nextAsid

\* Deleting the capability undoes the mapping it records, page by page.
Unmap(f) ==
    LET a == mapping[f].asp
        va == mapping[f].va
    IN  /\ asp' = [asp EXCEPT ![a] = UnmapIn(@, va, FramePages(f))]
        /\ mapping' = [mapping EXCEPT ![f] = None]
        /\ tlb' = {e \in tlb : ~ (e.asid = asp[a].asid
                                  /\ \E i \in 1 .. FramePages(f) : e.page = PageOf(va, i))}
        /\ UNCHANGED nextAsid

\* The pool grows at its end.
GrowPool(a, add) ==
    /\ Len(asp[a].pool) + add <= MaxPool
    /\ asp' = [asp EXCEPT ![a].pool = @ \o [i \in 1 .. add |-> EmptyTable]]
    /\ UNCHANGED <<mapping, nextAsid, tlb>>

\* A mapping holds its address space; the last reference goes after it.
DestroyAspace(a) ==
    /\ \A f \in Frames : mapping[f] # None => mapping[f].asp # a
    /\ asp' = [b \in Live \ {a} |-> asp[b]]
    /\ UNCHANGED <<mapping, nextAsid, tlb>>

\* The processor walks the tables of the address space it runs in.
Cache(a, page) ==
    /\ Cardinality(tlb) < TlbSize
    /\ Leaf(asp[a], page) # None
    /\ tlb' = tlb \cup {[asid |-> asp[a].asid, page |-> page, leaf |-> Leaf(asp[a], page)]}
    /\ UNCHANGED <<asp, mapping, nextAsid>>

Init == asp = [a \in {} |-> {}] /\ mapping = [f \in Frames |-> None] /\ nextAsid = 1 /\ tlb = {}

Next ==
    \/ \E a \in Aspaces, pool \in 1 .. MaxPool : InitAspace(a, pool)
    \/ \E a \in Live :
        \/ \E f \in Frames, va \in Vas : Map(a, f, va)
        \/ GrowPool(a, 1) \/ DestroyAspace(a)
        \/ \E page \in UserPages : Cache(a, page)
    \/ \E f \in Frames : mapping[f] # None /\ Unmap(f)

Spec == Init /\ [][Next]_vars

-----------------------------------------------------------------------------
(* Properties. *)

Translations == {m \in {<<a, p, Leaf(asp[a], p)>> : a \in Live, p \in UserPages} : m[3] # None}
Leaves(f) == [i \in 1 .. FramePages(f) |-> PteEncode(FramePa(f) + i - 1, FramePerms(f))]
Abstract == INSTANCE AddressSpaces WITH live <- Live, maps <- Translations, Run <- Leaves

\* The tables implement address spaces: map of several pages is all or nothing,
\* and touches no other page, though it fails half-way through its tables.
MappingImplemented == Abstract!Spec

\* Every table taken from the pool is reached over one entry, and none beyond.
TablesOnce == \A a \in Live :
    LET A == asp[a]
        l2s == {i \in KernelL1 .. L1Size - 1 : A.l1[i] # None}
        upper == {A.l1[i] : i \in l2s}
        lower == {A.pool[PoolIndex(A, A.l1[i])][j] : i \in l2s, j \in 0 .. TableSize - 1} \ {None}
    IN  /\ \A i \in l2s : PoolIndex(A, A.l1[i]) # None
        /\ \A i, j \in l2s : i # j => A.l1[i] # A.l1[j]
        /\ upper \cap lower = {} /\ upper \cup lower = {PaOfTable(A, i) : i \in 1 .. A.pool_used}
        /\ \A i \in 0 .. KernelL1 - 1 : A.l1[i] = 0

\* A cached translation is the one its address space still has: unmap invalidates
\* what it unmaps, and a number that starts over starts empty.  Excepted are live
\* address spaces with the same number: once the numbers have started over, init
\* gives out the next one without looking whether it is in use.  Of two such spaces
\* at least one has the translation.
Shares(a) == \E b \in Live \ {a} : asp[b].asid = asp[a].asid
TlbCurrent == \A e \in tlb :
    /\ \E a \in Live : asp[a].asid = e.asid /\ Leaf(asp[a], e.page) = e.leaf
    /\ \A a \in Live : asp[a].asid = e.asid /\ ~ Shares(a) => Leaf(asp[a], e.page) = e.leaf

\* The check of a user range says yes exactly when every byte of it may be
\* read, or written, by the thread itself.  (What is cached makes no difference to
\* it, so it is evaluated where nothing is.)
RangeCheckExact == tlb = {} => \A a \in Live :
    LET may == [write \in BOOLEAN |-> {p \in UserPages : Leaf(asp[a], p) # None /\ (write => Leaf(asp[a], p).w)}]
    IN  \A va \in FirstPage * PageBytes - 1 .. MaxAddr, len \in 1 .. MaxAddr, write \in BOOLEAN :
            RangeMappedIn(asp[a], va, len, write) <=>
                va + len <= MaxAddr /\ \A b \in va .. va + len - 1 : b \div PageBytes \in may[write]
=============================================================================
