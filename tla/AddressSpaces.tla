--------------------------- MODULE AddressSpaces ---------------------------
(***************************************************************************)
(* What mapping promises: an address space maps pages to leaves, a mapping *)
(* of several pages happens as a whole or not at all, and never over pages *)
(* that are mapped.                                                        *)
(***************************************************************************)
EXTENDS Integers

CONSTANTS
    UserPages,
    Frames,      \* what a mapping maps: a run of leaves of its own
    Run(_)

VARIABLES
    live,  \* the address spaces that exist
    maps   \* triples: an address space, a page, the leaf the page is mapped to

Init == live = {} /\ maps = {}

Pages(a) == {m[2] : m \in {n \in maps : n[1] = a}}

\* These are the leaves of one frame, at consecutive pages of one address space.
OneFrame(ms) == \E m \in ms, f \in Frames :
                   ms = {<<m[1], m[2] + i - 1, Run(f)[i]>> : i \in DOMAIN Run(f)}

Map(new) == /\ OneFrame(new)
            /\ \A m \in new : m[2] \in UserPages \ Pages(m[1])

Unmap(gone) == OneFrame(gone)

\* A new address space is empty, and one that goes has no page left.
Create == \E a \in live' \ live : live' = live \cup {a} /\ Pages(a) = {}
Destroy == \E a \in live \ live' : live' = live \ {a} /\ Pages(a) = {}

Next == \E new \in {maps' \ maps}, gone \in {maps \ maps'} :
            \/ new = {} /\ gone = {} /\ (Create \/ Destroy)
            \/ live = live' /\ gone = {} /\ Map(new)
            \/ live = live' /\ new = {} /\ Unmap(gone)

Spec == Init /\ [][Next]_<<live, maps>>
=============================================================================
