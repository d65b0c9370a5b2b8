--------------------------------- MODULE Cdt ---------------------------------
(***************************************************************************)
(* The capability derivation tree of kcore/src/cspace.rs: every slot       *)
(* carries a parent, a first child and two sibling links, and a mark that  *)
(* is set on the root of a revocation in progress.  S is the function from *)
(* slots to their content; each operator returns the new function.         *)
(***************************************************************************)
EXTENDS Integers, FiniteSets, TLC

CONSTANT None

Empty == [kind |-> "empty"]

EmptySlot == [cap |-> Empty, parent |-> None, first |-> None, next |-> None,
              prev |-> None, revoking |-> FALSE]

Holds(S, s) == S[s].cap.kind # "empty"

Kids(S, s) == {c \in DOMAIN S : S[c].parent = s}

\* a stands before b in a list of siblings; either may be None.
Joined(S, a, b) ==
    LET S1 == IF a = None THEN S ELSE [S EXCEPT ![a].next = b]
    IN  IF b = None THEN S1 ELSE [S1 EXCEPT ![b].prev = a]

\* The new child becomes the first one.
InsertChild(S, p, c) ==
    Joined([S EXCEPT ![p].first = c, ![c].parent = p, ![c].prev = None], c, S[p].first)

\* Mutant: the parent goes on naming x as its first child.
UnlinkKeepsFirst(S, x) ==
    LET X == S[x]
        S1 == Joined(S, X.prev, X.next)
    IN  [S1 EXCEPT ![x] = [EmptySlot EXCEPT !.cap = X.cap, !.revoking = X.revoking]]

\* The children of x go to its parent, as siblings in the place of x.
Unlink(S, x) ==
    LET X    == S[x]
        kids == Kids(S, x)
        head == IF kids = {} THEN X.next ELSE X.first
        last == IF kids = {} THEN X.prev ELSE CHOOSE c \in kids : S[c].next = None
        up   == [c \in kids |-> [S[c] EXCEPT !.parent = X.parent]] @@ S
        S1   == Joined(Joined(up, X.prev, head), last, X.next)
        S2   == IF X.parent # None /\ X.prev = None
                THEN [S1 EXCEPT ![X.parent].first = head] ELSE S1
    IN  [S2 EXCEPT ![x] = [EmptySlot EXCEPT !.cap = X.cap, !.revoking = X.revoking]]

\* The content of src, its place in the tree and its mark go to dst.
SlotMove(S, src, dst) ==
    LET Renamed(l) == IF l = src THEN dst ELSE l
        near == {s \in DOMAIN S : src \in {S[s].parent, S[s].first, S[s].next, S[s].prev}}
        S1 == [s \in near |-> [S[s] EXCEPT !.parent = Renamed(@), !.first = Renamed(@),
                                           !.next = Renamed(@), !.prev = Renamed(@)]] @@ S
    IN  [S1 EXCEPT ![dst] = S[src], ![src] = EmptySlot]

\* Proper ancestors of every slot.
Ancestors(S) ==
    LET A[s \in DOMAIN S] ==
            IF S[s].parent = None THEN {} ELSE {S[s].parent} \cup A[S[s].parent]
    IN  A

Descendants(S, s) == {d \in DOMAIN S : s \in Ancestors(S)[d]}

\* Mutant: only the slot itself is looked at.
SelfRevoking(S, s) == S[s].revoking

AncestorOrSelfRevoking(S, s) == \E a \in Ancestors(S)[s] \cup {s} : S[a].revoking

\* Always the first child, until there is none.
DescendToLeaf(S, s) ==
    LET D[x \in DOMAIN S] == IF S[x].first = None THEN x ELSE D[S[x].first]
    IN  D[s]

\* Following the links Link from any slot ends.
Grounded(S, Link(_)) ==
    LET N == Cardinality(DOMAIN S)
        Done[s \in DOMAIN S \cup {None}, n \in 0 .. N] ==
            s = None \/ (n > 0 /\ Done[Link(s), n - 1])
    IN  \A s \in DOMAIN S : Done[s, N]

\* The links agree with each other, sibling lists hang off their parent, no
\* chain of links is a cycle, and an empty slot is linked to nothing.
WellFormed(S) ==
    LET Live == {s \in DOMAIN S : Holds(S, s)}
        Parent(s) == S[s].parent
        Next(s) == S[s].next
    IN  /\ \A s \in DOMAIN S \ Live : S[s] = EmptySlot
        /\ \A s \in Live :
              /\ {S[s].parent, S[s].first, S[s].next, S[s].prev} \subseteq Live \cup {None}
              /\ S[s].next # None => S[S[s].next].prev = s
                                     /\ S[S[s].next].parent = S[s].parent
              /\ S[s].prev # None => S[S[s].prev].next = s
              /\ S[s].first # None => S[S[s].first].parent = s /\ S[S[s].first].prev = None
              /\ S[s].parent # None /\ S[s].prev = None => S[S[s].parent].first = s
        /\ Grounded(S, Parent) /\ Grounded(S, Next)
=============================================================================
