------------------------------- MODULE Untyped -------------------------------
(***************************************************************************)
(* Carving objects out of untyped memory, in bytes and with the overflow   *)
(* checks of the code (kcore/src/untyped.rs, kernel/src/untyped.rs): where *)
(* an object of a type is placed, page tables that are added behind the    *)
(* pool of an address space, and the reset of a region.  A capability to   *)
(* every object is kept in the slot of the same number.                    *)
(***************************************************************************)
EXTENDS Integers, FiniteSets

CONSTANTS
    Slots, None,
    Boot,                       \* the regions at boot, by slot
    MaxAddr,                    \* u64::MAX
    PageBytes, SmallAlign,      \* 4096 and 16
    FixedBytes,                 \* size of every object of one size
    HeadBytes, EntryBytes,      \* of the objects with a number of entries
    MaxEntries, MaxFrame,       \* largest parameter of those, and of a frame
    Tried, Params, TopUps       \* types, parameters and page counts that are tried

VARIABLES
    cap,    \* what the slots hold, None if nothing
    lent    \* page tables added to the pool of an address space: first byte, end,
            \* the region that was charged, and whether that was reset since (history)

vars == <<cap, lent>>

\* Kinds of one size, and kinds whose size depends on the parameter.
Fixed == {"thread", "notification", "timer"}
Counted == {"cspace", "channel", "aspace"}

Align(ty) == IF ty \in {"frame", "aspace", "untyped"} THEN PageBytes ELSE SmallAlign

Sum(a, b) == IF a + b > MaxAddr THEN None ELSE a + b
Product(a, b) == IF a * b > MaxAddr THEN None ELSE a * b
NextMultiple(a, b) == Sum(a, (b - (a % b)) % b)

\* Bytes of an object, None for a parameter that is refused.
BytesFor(ty, param) ==
    IF ty \in Fixed THEN FixedBytes
    ELSE IF param = 0 THEN None
    ELSE IF ty = "untyped" THEN NextMultiple(param, PageBytes)
    ELSE IF ty = "frame" THEN (IF param > MaxFrame THEN None ELSE param * PageBytes)
    ELSE IF param > MaxEntries THEN None
    ELSE IF ty = "aspace" THEN (2 + param) * PageBytes
    ELSE HeadBytes + param * EntryBytes

Failed(e) == [error |-> e]
Placed(start, end) == [error |-> None, start |-> start, end |-> end]

\* Mutant: an aligned address is rounded up as well.
CarvePlaceAlwaysSkips(base, size, watermark, align, bytes) ==
    LET start == base + watermark + align - ((base + watermark) % align)
    IN  IF start + bytes > base + size THEN Failed("NoMemory") ELSE Placed(start, start + bytes)

\* No rounding up that leaves the address range, no end beyond the region.
CarvePlace(base, size, watermark, align, bytes) ==
    LET s     == IF Sum(base, watermark) = None THEN None ELSE Sum(base + watermark, align - 1)
        start == s - (s % align)
    IN  IF s = None THEN Failed("NoMemory")
        ELSE IF Sum(start, bytes) = None \/ Sum(base, size) = None THEN Failed("NoMemory")
        ELSE IF start + bytes > base + size THEN Failed("NoMemory")
        ELSE Placed(start, start + bytes)

Carve(c, ty, param) ==
    LET bytes == BytesFor(ty, param)
    IN  IF bytes = None THEN Failed("BadArg")
        ELSE CarvePlace(c.base, c.size, c.mark, Align(ty), bytes)

\* The tables must be the memory right behind the pool.
TopUpCarve(c, pool_end, pages) ==
    IF pages = 0 \/ Product(pages, PageBytes) = None THEN Failed("BadArg")
    ELSE IF Sum(c.base, c.mark) = None \/ c.base + c.mark # pool_end THEN Failed("BadArg")
    ELSE CarvePlace(c.base, c.size, c.mark, PageBytes, pages * PageBytes)

-----------------------------------------------------------------------------

Held == {s \in Slots : cap[s] # None}
Is(s, ty) == s \in Held /\ cap[s].ty = ty
Children(s) == {t \in Held : cap[t].parent = s}

\* Which of the empty slots is used makes no difference.
FirstFree == {s \in Slots \ Held : \A t \in Slots \ Held : s <= t}

Init ==
    /\ cap = [s \in Slots |-> IF s \in DOMAIN Boot THEN Boot[s] ELSE None]
    /\ lent = {}

\* A new region starts empty; the pool of an address space starts behind its
\* own page and the first table.
NewCap(ty, c, parent) ==
    [ty |-> ty, base |-> c.start, size |-> c.end - c.start, mark |-> 0, parent |-> parent,
     pool_end |-> IF ty = "aspace" THEN c.end ELSE 0]

\* Mutant: the watermark advances by the object's bytes, and forgets the gap of
\* the alignment.
RetypeByBytes(u, ty, param, dst) ==
    /\ Is(u, "untyped") /\ dst \in Slots \ Held
    /\ LET c == Carve(cap[u], ty, param) IN
       /\ c.error = None
       /\ cap' = [cap EXCEPT ![u].mark = @ + (c.end - c.start), ![dst] = NewCap(ty, c, u)]
    /\ UNCHANGED lent

\* retype: the checks of the slots come before those of the parameter.
Retype(u, ty, param, dst) ==
    /\ Is(u, "untyped") /\ dst \in Slots \ Held
    /\ LET c == Carve(cap[u], ty, param) IN
       /\ c.error = None
       /\ cap' = [cap EXCEPT ![u].mark = c.end - cap[u].base, ![dst] = NewCap(ty, c, u)]
    /\ UNCHANGED lent

\* Mutant: the region is not charged for the pages.
TopUpFree(u, a, pages) ==
    /\ Is(u, "untyped") /\ Is(a, "aspace")
    /\ LET c == TopUpCarve(cap[u], cap[a].pool_end, pages) IN
       /\ c.error = None
       /\ cap' = [cap EXCEPT ![a].pool_end = @ + pages * PageBytes]
       /\ lent' = lent \cup {[at |-> c.start, end |-> c.end, from |-> u, to |-> a, reset |-> FALSE]}

\* Charged to the region, with no capability of its own.
AspaceTopUp(u, a, pages) ==
    /\ Is(u, "untyped") /\ Is(a, "aspace")
    /\ LET c == TopUpCarve(cap[u], cap[a].pool_end, pages) IN
       /\ c.error = None
       /\ cap' = [cap EXCEPT ![u].mark = c.end - cap[u].base,
                             ![a].pool_end = @ + pages * PageBytes]
       /\ lent' = lent \cup {[at |-> c.start, end |-> c.end, from |-> u, to |-> a, reset |-> FALSE]}

\* Only the watermark goes back: tables taken from the region stay in the pool
\* they were added to.
Reset(u) ==
    /\ Is(u, "untyped") /\ Children(u) = {}
    /\ cap' = [cap EXCEPT ![u].mark = 0]
    /\ lent' = {IF l.from = u THEN [l EXCEPT !.reset = TRUE] ELSE l : l \in lent}

\* Children go to the parent; so does what the region has been charged for.
Delete(s) ==
    /\ s \in Held
    /\ cap' = [t \in Slots |-> IF t = s THEN None
                               ELSE IF t \in Children(s) THEN [cap[t] EXCEPT !.parent = cap[s].parent]
                               ELSE cap[t]]
    /\ lent' = {IF l.from = s THEN [l EXCEPT !.from = cap[s].parent] ELSE l :
                  l \in {m \in lent : m.to # s}}

Next ==
    \/ \E u \in Slots, dst \in FirstFree, ty \in Tried, param \in Params : Retype(u, ty, param, dst)
    \/ \E u, a \in Slots, pages \in TopUps : AspaceTopUp(u, a, pages)
    \/ \E s \in Slots : Reset(s) \/ Delete(s)

Spec == Init /\ [][Next]_vars

-----------------------------------------------------------------------------
(* Properties. *)

End(s) == cap[s].base + cap[s].size

Ancestor(a, s) == \E p \in Held : cap[s].parent = p /\ (p = a \/ cap[p].parent = a
                      \/ \E q \in Held : cap[p].parent = q /\ cap[q].parent = a)

\* Two objects overlap only if one is a region the other was carved out of, and
\* lies below its watermark: retype never gives out a byte twice, whatever
\* alignment, sizes, resets and deletions came before.
ObjectsApart ==
    \A s, t \in Held : s # t =>
        \/ End(s) <= cap[t].base \/ End(t) <= cap[s].base
        \/ \E r \in {<<s, t>>, <<t, s>>} :
              Ancestor(r[1], r[2]) /\ End(r[2]) <= cap[r[1]].base + cap[r[1]].mark
                                   /\ cap[r[1]].base <= cap[r[2]].base

\* Page tables added to an address space overlap neither each other nor an object
\* other than the regions they were taken from.  Excepted are tables whose region
\* was reset since: a table is no child of the region, so reset goes through under
\* a live address space, and the next object is carved over the tables it uses.
TablesApart ==
    \A l \in {x \in lent : ~ x.reset} :
        /\ \A m \in {x \in lent : ~ x.reset} \ {l} : l.end <= m.at \/ m.end <= l.at
        /\ \A s \in Held :
              \/ l.end <= cap[s].base \/ End(s) <= l.at
              \/ cap[s].ty = "untyped" /\ (s = l.from \/ (l.from # None /\ Ancestor(s, l.from)))
                 /\ l.end <= cap[s].base + cap[s].mark

\* carve is exact: it succeeds if and only if the bytes fit at some aligned
\* address behind the watermark, and it takes the first such address; at the top
\* of the address range nothing wraps around.
Fits(c, align, bytes) ==
    {at \in c.base + c.mark .. c.base + c.size - bytes : at % align = 0}
CarveExact ==
    \A u \in Held : cap[u].ty = "untyped" /\ cap[u].base + cap[u].size <= MaxAddr =>
        \A ty \in Tried, param \in Params :
            LET c == Carve(cap[u], ty, param)
                bytes == BytesFor(ty, param)
            IN  bytes # None =>
                   /\ (c.error = None) <=> Fits(cap[u], Align(ty), bytes) # {}
                   /\ c.error = None => /\ c.start \in Fits(cap[u], Align(ty), bytes)
                                        /\ c.end = c.start + bytes
                                        /\ \A at \in Fits(cap[u], Align(ty), bytes) : c.start <= at
=============================================================================
