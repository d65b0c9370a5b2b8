------------------------------ MODULE FreeList ------------------------------
(***************************************************************************)
(* The free list of freelist/src/lib.rs and the two allocators on top of   *)
(* it: the heap of a process (urt/src/lib.rs), which rounds what is asked  *)
(* for and leaks a block the full list has no room for, and the pool of    *)
(* memory a device reads (dma-pool/src/lib.rs), which stops there.  The    *)
(* list is an array of N extents, sorted, with a gap between neighbours.   *)
(***************************************************************************)
EXTENDS Integers, Sequences, SequencesExt, FiniteSets, FiniteSetsExt

CONSTANTS
    N,            \* room for extents
    Length,       \* of the memory managed
    Sizes, Aligns,
    MinAlign, MaxAlign,
    MaxLive

VARIABLES
    user,     \* "heap" or "pool"
    free,     \* the extents, <<offset, length>>
    live,     \* the blocks handed out: offset, length reserved, length and alignment asked for
    leaked    \* cells of blocks the heap could not take back

vars == <<user, free, live, leaked>>

Span(o, n) == o .. o + n - 1
RoundUp(x, a) == ((x + a - 1) \div a) * a

-----------------------------------------------------------------------------
(* freelist. *)

New == IF Length = 0 THEN <<>> ELSE <<<<0, Length>>>>

IsFull == Len(free) = N
IsAllocated(off, n) == \A k \in DOMAIN free : free[k][1] + free[k][2] <= off \/ off + n <= free[k][1]

Pad(off, align) == IF off % align = 0 THEN 0 ELSE align - (off % align)

\* The block cut from extent e leaves up to two pieces of it.
Pieces(e, n, align) ==
    LET pad == Pad(e[1], align) IN
    SelectSeq(<<<<e[1], pad>>, <<e[1] + pad + n, e[2] - pad - n>>>>, LAMBDA x : x[2] > 0)
\* Mutant: the padding of the alignment is not counted.
FitsUnpadded(e, n, align) == n <= e[2]

Fits(e, n, align) == Pad(e[1], align) + n <= e[2]

\* The first extent that fits, passing over those that a full list cannot split.
FitsAt(n, align) ==
    {k \in DOMAIN free : Fits(free[k], n, align) /\ ~(IsFull /\ Len(Pieces(free[k], n, align)) = 2)}
AllocEnabled(n, align) == n > 0 /\ FitsAt(n, align) # {}
AllocStart(n, align) == LET e == free[Min(FitsAt(n, align))] IN e[1] + Pad(e[1], align)
AllocList(n, align) ==
    LET k == Min(FitsAt(n, align)) IN
    SubSeq(free, 1, k - 1) \o Pieces(free[k], n, align) \o SubSeq(free, k + 1, Len(free))

\* Mutant: a freed block is not joined with the extent behind it.
FreeLeft(off, n) ==
    LET i    == Cardinality({k \in DOMAIN free : free[k][1] < off})
        left == i > 0 /\ free[i][1] + free[i][2] = off
    IN  IF left THEN [free EXCEPT ![i] = <<@[1], @[2] + n>>] ELSE InsertAt(free, i + 1, <<off, n>>)

\* The first extent behind the block; it and the one before may touch the block.
Free(off, n) ==
    LET i     == Cardinality({k \in DOMAIN free : free[k][1] < off})
        left  == i > 0 /\ free[i][1] + free[i][2] = off
        right == i < Len(free) /\ free[i + 1][1] = off + n
    IN  CASE ~left /\ ~right -> InsertAt(free, i + 1, <<off, n>>)
          [] left /\ ~right  -> [free EXCEPT ![i] = <<@[1], @[2] + n>>]
          [] ~left /\ right  -> [free EXCEPT ![i + 1] = <<off, n + @[2]>>]
          [] left /\ right   -> RemoveAt([free EXCEPT ![i] = <<@[1], @[2] + n + free[i + 1][2]>>], i + 1)

-----------------------------------------------------------------------------
(* The heap.  What dealloc gives back is worked out again from the layout. *)

HeapNeed(size) == RoundUp(Max({size, 1}), MinAlign)

HeapAlloc(size, align) ==
    LET need == HeapNeed(size) a == Max({align, MinAlign}) IN
    /\ user = "heap" /\ Cardinality(live) < MaxLive
    /\ align <= MaxAlign /\ AllocEnabled(need, a)
    /\ free' = AllocList(need, a)
    /\ live' = live \cup {[off |-> AllocStart(need, a), size |-> size, align |-> align, span |-> need]}
    /\ UNCHANGED <<user, leaked>>

HeapDealloc(b) ==
    LET need == HeapNeed(b.size) IN
    /\ user = "heap"
    /\ live' = live \ {b}
    /\ IF IsFull THEN leaked' = leaked \cup Span(b.off, need) /\ UNCHANGED free
       ELSE free' = Free(b.off, need) /\ UNCHANGED leaked
    /\ UNCHANGED user

-----------------------------------------------------------------------------
(* The pool.  It stops on a full list, and when the buffer is not one it gave *)
(* out.                                                                       *)

PoolAlloc(len, align) ==
    /\ user = "pool" /\ Cardinality(live) < MaxLive
    /\ AllocEnabled(len, align)
    /\ free' = AllocList(len, align)
    /\ live' = live \cup {[off |-> AllocStart(len, align), size |-> len, align |-> align, span |-> len]}
    /\ UNCHANGED <<user, leaked>>

PoolFree(b) ==
    /\ user = "pool"
    /\ b.size > 0 /\ ~IsFull /\ b.off + b.size <= Length /\ IsAllocated(b.off, b.size)
    /\ free' = Free(b.off, b.size) /\ live' = live \ {b}
    /\ UNCHANGED <<user, leaked>>

-----------------------------------------------------------------------------

Init == user \in {"heap", "pool"} /\ free = New /\ live = {} /\ leaked = {}

Next ==
    \/ \E size \in Sizes, align \in Aligns : HeapAlloc(size, align) \/ PoolAlloc(size, align)
    \/ \E b \in live : HeapDealloc(b) \/ PoolFree(b)

Spec == Init /\ [][Next]_vars

-----------------------------------------------------------------------------
(* Properties. *)

FreeCells == UNION {Span(free[k][1], free[k][2]) : k \in DOMAIN free}

\* A block handed out is aligned as asked, lies in the memory, and shares no cell
\* with another block or with the free list (alloc, free and the rounding of the
\* heap, done once on the way out and again on the way back).
BlocksApart ==
    \A b \in live :
        /\ b.off % b.align = 0 /\ b.size <= b.span
        /\ Span(b.off, b.span) \subseteq 0 .. Length - 1
        /\ Span(b.off, b.span) \cap FreeCells = {}
        /\ \A c \in live \ {b} : Span(b.off, b.span) \cap Span(c.off, c.span) = {}

\* Nothing is lost: every cell is a live block's, free, or one the heap says it
\* leaked; and the list is sorted with a gap between neighbours, so that memory
\* given back in any order is one extent again (wf of FreeList).
ListCanonical ==
    /\ Len(free) <= N
    /\ \A k \in DOMAIN free : free[k][2] > 0
    /\ \A k \in 1 .. Len(free) - 1 : free[k][1] + free[k][2] < free[k + 1][1]
    /\ (0 .. Length - 1) = FreeCells \cup leaked \cup UNION {Span(b.off, b.span) : b \in live}
    /\ leaked \cap (FreeCells \cup UNION {Span(b.off, b.span) : b \in live}) = {}
=============================================================================
