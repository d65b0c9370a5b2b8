------------------------------- MODULE CapTree -------------------------------
(***************************************************************************)
(* What the capability calls promise about memory and authority, without   *)
(* links, reference counts or objects: every capability covers an interval *)
(* of memory, and what it was derived from is a set of other capabilities. *)
(* Slots that a call fills or empties are read off the next state.         *)
(***************************************************************************)
EXTENDS Integers

CONSTANTS
    Slots,
    Kinds,     \* of objects; "untyped" is the kind of memory not yet carved
    Authority  \* what a capability may let its holder do

VARIABLES
    cap,  \* the capability in every slot that holds one
    anc   \* the slots it was derived from, directly or not

vars == <<cap, anc>>

Held == DOMAIN cap

Capability == [kind : Kinds \cup {"untyped"}, base : Int, size : Nat \ {0}, mark : Nat,
               auth : SUBSET Authority]

End(c) == c.base + c.size
Disjoint(c, d) == End(c) <= d.base \/ End(d) <= c.base
Inside(c, d) == d.base <= c.base /\ End(c) <= End(d)

\* Two capabilities to one object.
Same(c, d) == c.kind # "untyped" /\ c.kind = d.kind /\ c.base = d.base /\ c.size = d.size

-----------------------------------------------------------------------------

Derive(src, dst) ==
    /\ cap[src].kind # "untyped"
    /\ dst \in Slots \ Held
    /\ DOMAIN cap' = Held \cup {dst}
    /\ \E a \in SUBSET cap[src].auth :
          cap' = [s \in Held \cup {dst} |->
                     IF s = dst THEN [cap[src] EXCEPT !.auth = a] ELSE cap[s]]
    /\ anc' = [s \in Held \cup {dst} |-> IF s = dst THEN anc[src] \cup {src} ELSE anc[s]]

\* One object, to which every new slot gets a capability; it lies between the
\* watermark and the end of the region, and the watermark moves behind it.
Retype(u, new) ==
    /\ cap[u].kind = "untyped"
    /\ new # {} /\ new \subseteq Slots \ Held
    /\ DOMAIN cap' = Held \cup new
    /\ \A s \in new :
          /\ cap'[s] \in Capability
          /\ cap'[s].mark = 0
          /\ cap[u].base + cap[u].mark <= cap'[s].base
          /\ Inside(cap'[s], cap[u])
          /\ cap'[u] = [cap[u] EXCEPT !.mark = End(cap'[s]) - cap[u].base]
          /\ \A t \in new \ {s} : Same(cap'[s], cap'[t])
    /\ \A s \in Held \ {u} : cap'[s] = cap[s]
    /\ cap' = [s \in Held \cup new |-> cap'[s]]
    /\ anc' = [s \in Held \cup new |-> IF s \in new THEN anc[u] \cup {u} ELSE anc[s]]

\* The watermark moves on without a new capability: page tables.
Consume(u) ==
    /\ cap[u].kind = "untyped"
    /\ Held = DOMAIN cap'
    /\ cap'[u].mark \in cap[u].mark + 1 .. cap[u].size
    /\ cap' = [cap EXCEPT ![u].mark = cap'[u].mark]
    /\ UNCHANGED anc

Reset(u) ==
    /\ cap[u].kind = "untyped"
    /\ \A s \in Held : u \notin anc[s]
    /\ cap' = [cap EXCEPT ![u].mark = 0]
    /\ UNCHANGED anc

\* Deleting and revoking, with everything the teardown of objects takes along.
Remove(gone) ==
    /\ gone # {}
    /\ DOMAIN cap' = Held \ gone
    /\ cap' = [s \in Held \ gone |-> cap[s]]
    /\ anc' = [s \in Held \ gone |-> anc[s] \ gone]

\* A capability goes to another slot, and is there what it was before; binding
\* a thread first deletes the capability that is in the way.
Move(src, dst, gone) ==
    LET Old(s) == IF s = dst THEN src ELSE s
        kept   == (Held \ (gone \cup {src})) \cup {dst}
    IN  /\ src \notin gone /\ dst \in Slots \ {src} /\ (dst \in Held => dst \in gone)
        /\ cap' = [s \in kept |-> cap[Old(s)]]
        /\ anc' = [s \in kept |-> (anc[Old(s)] \ (gone \cup {src}))
                                  \cup (IF src \in anc[Old(s)] THEN {dst} ELSE {})]

-----------------------------------------------------------------------------

\* At boot nothing is derived from anything, and memory is given out once.
Init ==
    /\ Held \subseteq Slots
    /\ cap \in [Held -> Capability]
    /\ anc = [s \in Held |-> {}]
    /\ \A s, t \in Held : s # t => Disjoint(cap[s], cap[t])

Filled == DOMAIN cap' \ Held
Emptied == Held \ DOMAIN cap'

Next ==
    \/ \E src \in Held, dst \in Filled : Derive(src, dst)
    \/ \E u \in Held : Retype(u, Filled)
    \/ \E u \in Held : Consume(u) \/ Reset(u)
    \/ Remove(Emptied)
    \/ \E src \in Emptied, dst \in DOMAIN cap' :
          Move(src, dst, (Emptied \ {src}) \cup ({dst} \cap Held))

Spec == Init /\ [][Next]_vars

-----------------------------------------------------------------------------
(* Properties. *)

TypeOK ==
    /\ Held \subseteq Slots
    /\ cap \in [Held -> Capability]
    /\ anc \in [Held -> SUBSET Held]

\* s was carved out of u, and lies below its watermark.
Under(s, u) ==
    /\ cap[u].kind = "untyped"
    /\ u \in anc[s]
    /\ Inside(cap[s], cap[u])
    /\ End(cap[s]) <= cap[u].base + cap[u].mark

\* Two capabilities whose memory overlaps are capabilities to one object, or one
\* was carved out of the other: retype and reset never give out memory twice.
MemoryExclusive ==
    \A s, t \in Held : s # t =>
        Disjoint(cap[s], cap[t]) \/ Same(cap[s], cap[t]) \/ Under(s, t) \/ Under(t, s)

\* What is derived from the capability to an object is a capability to that
\* object, and lets its holder do no more.
AuthorityShrinks ==
    \A s \in Held : \A a \in anc[s] : cap[a].kind # "untyped" =>
        Same(cap[s], cap[a]) /\ cap[s].auth \subseteq cap[a].auth

\* A step makes no capability out of nothing: the memory it covers was covered
\* before, by the same object or by memory not yet carved.
Covered(c) == \E t \in Held : Inside(c, cap[t]) /\ (cap[t].kind = "untyped" \/
                                  (Same(c, cap[t]) /\ c.auth \subseteq cap[t].auth))
NothingFromNothing == [][\A s \in DOMAIN cap' : Covered(cap'[s])]_vars
=============================================================================
