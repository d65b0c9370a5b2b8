----------------------------- MODULE CapTreeProofs -----------------------------
(***************************************************************************)
(* The promises of CapTree hold for every set of slots, every size of      *)
(* memory and every carving of it.                                         *)
(***************************************************************************)
EXTENDS CapTree, TLAPS

\* Every call leaves well-typed capabilities, derived from capabilities that
\* are still held.
LEMMA TypeStep == TypeOK /\ [Next]_vars => TypeOK'
<1> SUFFICES ASSUME TypeOK, [Next]_vars PROVE TypeOK'
  OBVIOUS
<1> USE DEF TypeOK, Held
<1>1. ASSUME NEW src \in Held, NEW dst \in Filled, Derive(src, dst) PROVE TypeOK'
  <2>1. PICK a \in SUBSET cap[src].auth :
           cap' = [s \in Held \cup {dst} |->
                      IF s = dst THEN [cap[src] EXCEPT !.auth = a] ELSE cap[s]]
    BY <1>1 DEF Derive
  <2>2. cap[src] \in Capability
    OBVIOUS
  <2>3. [cap[src] EXCEPT !.auth = a] \in Capability
    BY <2>2 DEF Capability
  <2> QED BY <1>1, <2>1, <2>3 DEF Derive
<1>2. ASSUME NEW u \in Held, Retype(u, Filled) PROVE TypeOK'
  <2>1. cap[u] \in Capability
    OBVIOUS
  <2>2. PICK s \in Filled : TRUE
    BY <1>2 DEF Retype
  <2>3. cap'[u] \in Capability
    BY <1>2, <2>1, <2>2 DEF Retype, Capability, Inside, End
  <2>4. \A t \in DOMAIN cap' : cap'[t] \in Capability
    BY <1>2, <2>3 DEF Retype
  <2> QED BY <1>2, <2>4 DEF Retype
<1>3. ASSUME NEW u \in Held, Consume(u) \/ Reset(u) PROVE TypeOK'
  <2>1. cap[u] \in Capability
    OBVIOUS
  <2>2. CASE Consume(u)
    <3>1. [cap[u] EXCEPT !.mark = cap'[u].mark] \in Capability
      BY <2>1, <2>2 DEF Consume, Capability
    <3> QED BY <2>2, <3>1 DEF Consume
  <2>3. CASE Reset(u)
    <3>1. [cap[u] EXCEPT !.mark = 0] \in Capability
      BY <2>1 DEF Capability
    <3> QED BY <2>3, <3>1 DEF Reset
  <2> QED BY <1>3, <2>2, <2>3
<1>4. ASSUME Remove(Emptied) PROVE TypeOK'
  BY <1>4 DEF Remove
<1>5. ASSUME NEW src \in Emptied, NEW dst \in DOMAIN cap',
             Move(src, dst, (Emptied \ {src}) \cup ({dst} \cap Held))
      PROVE TypeOK'
  BY <1>5 DEF Move, Emptied
<1>6. CASE UNCHANGED vars
  BY <1>6 DEF vars
<1> QED BY <1>1, <1>2, <1>3, <1>4, <1>5, <1>6 DEF Next

\* Whatever calls are made, every slot in use holds a well-formed capability and
\* what it was derived from is still held: no call leaves an ancestor dangling.
THEOREM TypeCorrect == Spec => []TypeOK
<1>1. Init => TypeOK
  BY DEF Init, TypeOK, Held
<1> QED BY <1>1, TypeStep, PTL DEF Spec

-----------------------------------------------------------------------------
(* No memory twice. *)

\* Exclusive(s, t) is what MemoryExclusive says of two slots.
Exclusive(s, t) ==
    Disjoint(cap[s], cap[t]) \/ Same(cap[s], cap[t]) \/ Under(s, t) \/ Under(t, s)

\* A copy has the memory and the ancestors of its source, which is no region.
LEMMA DeriveExclusive ==
    ASSUME TypeOK, MemoryExclusive, NEW src \in Held, NEW dst \in Filled, Derive(src, dst)
    PROVE  MemoryExclusive'
<1> USE DEF TypeOK, Held
<1>1. /\ Held' = Held \cup {dst} /\ dst \notin Held
      /\ \A s \in Held : cap'[s] = cap[s] /\ anc'[s] = anc[s]
      /\ cap'[dst].kind = cap[src].kind /\ cap'[dst].base = cap[src].base
      /\ cap'[dst].size = cap[src].size
      /\ anc'[dst] = anc[src] \cup {src}
  <2>1. PICK a \in SUBSET cap[src].auth :
           cap' = [s \in Held \cup {dst} |->
                      IF s = dst THEN [cap[src] EXCEPT !.auth = a] ELSE cap[s]]
    BY DEF Derive
  <2>2. cap[src] \in Capability
    OBVIOUS
  <2>3. LET c == [cap[src] EXCEPT !.auth = a]
        IN  c.kind = cap[src].kind /\ c.base = cap[src].base /\ c.size = cap[src].size
    BY <2>2 DEF Capability
  <2> QED BY <2>1, <2>3 DEF Derive, Filled
<1>2. \A s, t \in Held : s # t => Exclusive(s, t)'
  BY <1>1 DEF MemoryExclusive, Exclusive, Disjoint, Same, Under, Inside, End
<1>3. ASSUME NEW s \in Held, s # src PROVE Exclusive(s, dst)' /\ Exclusive(dst, s)'
  <2>1. Exclusive(s, src) /\ ~Under(s, src)
    BY <1>3 DEF MemoryExclusive, Exclusive, Under, Derive
  <2> QED BY <1>1, <2>1 DEF Exclusive, Disjoint, Same, Under, Inside, End
<1>4. Exclusive(src, dst)' /\ Exclusive(dst, src)'
  BY <1>1 DEF Exclusive, Same, Derive
<1> QED BY <1>1, <1>2, <1>3, <1>4 DEF MemoryExclusive, Exclusive

\* A new object lies above the watermark, so above all that was carved before;
\* whatever overlaps the region from above holds the new object too.
LEMMA RetypeExclusive ==
    ASSUME TypeOK, MemoryExclusive, NEW u \in Held, Retype(u, Filled)
    PROVE  MemoryExclusive'
<1> USE DEF TypeOK, Held
<1>1. /\ Held' = Held \cup Filled
      /\ \A s \in Held \ {u} : cap'[s] = cap[s]
      /\ \A s \in Held : anc'[s] = anc[s] /\ s \notin Filled
      /\ \A s \in Filled : anc'[s] = anc[u] \cup {u}
  BY DEF Retype, Filled
<1>2. \A s \in Held : cap[s] \in Capability
  OBVIOUS
<1>3. PICK n \in Filled : TRUE
  BY DEF Retype
<1>4. /\ cap[u].kind = "untyped" /\ cap'[u].kind = "untyped" /\ cap'[u].base = cap[u].base
      /\ cap'[u].size = cap[u].size
      /\ cap'[u].mark \in Int /\ cap'[u].mark >= cap[u].mark
      /\ \A s \in Filled : End(cap'[s]) = cap[u].base + cap'[u].mark
  BY <1>2, <1>3 DEF Retype, Capability, End, Inside
<1>5. \A s \in Filled : /\ cap'[s] \in Capability
                        /\ cap[u].base + cap[u].mark <= cap'[s].base
                        /\ Inside(cap'[s], cap[u])
  BY DEF Retype
<1>6. ASSUME NEW s \in Held, NEW t \in Held, s # t PROVE Exclusive(s, t)'
  <2>1. Exclusive(s, t)
    BY <1>6 DEF MemoryExclusive, Exclusive
  <2>2. CASE s # u /\ t # u
    BY <1>1, <2>1, <2>2 DEF Exclusive, Disjoint, Same, Under, Inside, End
  <2>3. CASE s = u
    <3>1. /\ cap'[t] = cap[t] /\ anc'[t] = anc[t] /\ anc'[u] = anc[u]
          /\ cap[t] \in Capability /\ cap[u] \in Capability
      BY <1>1, <1>2, <1>6, <2>3
    <3>2. CASE Disjoint(cap[s], cap[t])
      BY <1>4, <2>3, <3>1, <3>2 DEF Exclusive, Disjoint, End
    <3>3. CASE Under(t, u)
      BY <1>4, <2>3, <3>1, <3>3 DEF Exclusive, Under, Inside, End, Capability
    <3>4. CASE Under(u, t)
      BY <1>4, <2>3, <3>1, <3>4 DEF Exclusive, Under, Inside, End
    <3> QED BY <1>4, <2>1, <2>3, <3>2, <3>3, <3>4 DEF Exclusive, Same
  <2>4. CASE t = u
    <3>1. /\ cap'[s] = cap[s] /\ anc'[s] = anc[s] /\ anc'[u] = anc[u]
          /\ cap[s] \in Capability /\ cap[u] \in Capability
      BY <1>1, <1>2, <1>6, <2>4
    <3>2. CASE Disjoint(cap[s], cap[t])
      BY <1>4, <2>4, <3>1, <3>2 DEF Exclusive, Disjoint, End
    <3>3. CASE Under(s, u)
      BY <1>4, <2>4, <3>1, <3>3 DEF Exclusive, Under, Inside, End, Capability
    <3>4. CASE Under(u, s)
      BY <1>4, <2>4, <3>1, <3>4 DEF Exclusive, Under, Inside, End
    <3> QED BY <1>4, <2>1, <2>4, <3>2, <3>3, <3>4 DEF Exclusive, Same
  <2> QED BY <2>2, <2>3, <2>4
<1>7. ASSUME NEW s \in Held, NEW t \in Filled PROVE Exclusive(s, t)' /\ Exclusive(t, s)'
  <2>1. CASE s = u
    BY <1>1, <1>2, <1>4, <1>5, <2>1 DEF Exclusive, Under, Inside, End, Capability
  <2>2. CASE s # u
    <3>1. Exclusive(s, u) /\ ~Same(cap[s], cap[u])
      BY <2>2 DEF MemoryExclusive, Exclusive, Same, Retype
    <3>2. cap'[s] = cap[s] /\ anc'[s] = anc[s] /\ anc'[t] = anc[u] \cup {u}
      BY <1>1, <2>2
    <3>3. CASE Disjoint(cap[s], cap[u])
      BY <1>2, <1>5, <3>2, <3>3 DEF Exclusive, Disjoint, Inside, End, Capability
    <3>4. CASE Under(s, u)
      BY <1>2, <1>5, <3>2, <3>4 DEF Exclusive, Disjoint, Under, Inside, End, Capability
    <3>5. CASE Under(u, s)
      BY <1>2, <1>5, <3>2, <3>5 DEF Exclusive, Under, Inside, End, Capability
    <3> QED BY <3>1, <3>3, <3>4, <3>5 DEF Exclusive
  <2> QED BY <2>1, <2>2
<1>8. ASSUME NEW s \in Filled, NEW t \in Filled, s # t PROVE Exclusive(s, t)'
  BY <1>8 DEF Retype, Exclusive
<1> QED BY <1>1, <1>6, <1>7, <1>8 DEF MemoryExclusive, Exclusive

\* Moving the watermark up keeps all that is below it below it; it goes back
\* only when nothing is derived from the region.
LEMMA MarkExclusive ==
    ASSUME TypeOK, MemoryExclusive, NEW u \in Held, Consume(u) \/ Reset(u)
    PROVE  MemoryExclusive'
<1> USE DEF TypeOK, Held
<1>1. /\ Held' = Held /\ anc' = anc
      /\ \A s \in Held \ {u} : cap'[s] = cap[s]
      /\ cap[u].kind = "untyped"
      /\ \A s \in Held : cap[s] \in Capability
  BY DEF Consume, Reset
<1>2. \E m : cap' = [cap EXCEPT ![u].mark = m]
  BY DEF Consume, Reset
<1>3. /\ cap'[u].kind = cap[u].kind /\ cap'[u].base = cap[u].base
      /\ cap'[u].size = cap[u].size
  BY <1>1, <1>2 DEF Capability
<1>4. (cap'[u].mark \in Int /\ cap'[u].mark >= cap[u].mark) \/ (\A s \in Held : u \notin anc[s])
  BY <1>1 DEF Consume, Reset, Capability
<1>5. ASSUME NEW s \in Held, NEW t \in Held, s # t PROVE Exclusive(s, t)'
  <2>1. Exclusive(s, t) /\ cap[s] \in Capability /\ cap[t] \in Capability
    BY <1>1, <1>5 DEF MemoryExclusive, Exclusive
  <2>2. ASSUME NEW x \in Held, NEW y \in Held, x # y, Under(x, y) PROVE Under(x, y)'
    <3>1. cap[x] \in Capability /\ cap[y] \in Capability
      BY <1>1
    <3>2. CASE y = u
      BY <1>1, <1>3, <1>4, <2>2, <3>1, <3>2 DEF Under, Inside, End, Capability
    <3>3. CASE y # u
      BY <1>1, <1>3, <2>2, <3>1, <3>3 DEF Under, Inside, End
    <3> QED BY <3>2, <3>3
  <2>3. /\ Disjoint(cap[s], cap[t]) => Disjoint(cap[s], cap[t])'
        /\ Same(cap[s], cap[t]) => Same(cap[s], cap[t])'
    BY <1>1, <1>3 DEF Disjoint, Same, End
  <2> QED BY <1>5, <2>1, <2>2, <2>3 DEF Exclusive
<1> QED BY <1>1, <1>5 DEF MemoryExclusive, Exclusive

\* What stays is related as before.
LEMMA RemoveExclusive ==
    ASSUME TypeOK, MemoryExclusive, Remove(Emptied)
    PROVE  MemoryExclusive'
<1> USE DEF TypeOK, Held
<1>1. /\ Held' \subseteq Held /\ Held' = Held \ Emptied
      /\ \A s \in Held' : cap'[s] = cap[s] /\ anc'[s] = anc[s] \ Emptied
  BY DEF Remove, Emptied
<1>2. ASSUME NEW s \in Held', NEW t \in Held', s # t PROVE Exclusive(s, t)'
  <2>1. Exclusive(s, t)
    BY <1>1, <1>2 DEF MemoryExclusive, Exclusive
  <2> QED BY <1>1, <2>1 DEF Exclusive, Disjoint, Same, Under, Inside, End
<1> QED BY <1>2 DEF MemoryExclusive, Exclusive

\* Every slot after a move holds what one slot held before it, and two slots
\* hold what two did; the names of the slots change alike everywhere.
LEMMA MoveExclusive ==
    ASSUME TypeOK, MemoryExclusive, NEW src \in Emptied, NEW dst \in DOMAIN cap',
           Move(src, dst, (Emptied \ {src}) \cup ({dst} \cap Held))
    PROVE  MemoryExclusive'
<1> USE DEF TypeOK, Held
<1> DEFINE Old(s) == IF s = dst THEN src ELSE s
           gone == (Emptied \ {src}) \cup ({dst} \cap Held)
<1>1. \A s \in Held' : /\ Old(s) \in Held /\ cap'[s] = cap[Old(s)]
                       /\ anc'[s] = (anc[Old(s)] \ (gone \cup {src}))
                                    \cup (IF src \in anc[Old(s)] THEN {dst} ELSE {})
  BY DEF Move, Emptied
<1>2. \A s, t \in Held' : s # t => Old(s) # Old(t)
  BY DEF Move, Emptied
<1>3. ASSUME NEW s \in Held', NEW t \in Held', Old(t) \in anc[Old(s)] PROVE t \in anc'[s]
  BY <1>1, <1>3 DEF Move, Emptied
<1>4. ASSUME NEW s \in Held', NEW t \in Held', s # t PROVE Exclusive(s, t)'
  <2>1. Exclusive(Old(s), Old(t))
    BY <1>1, <1>2, <1>4 DEF MemoryExclusive, Exclusive
  <2>2. cap'[s] = cap[Old(s)] /\ cap'[t] = cap[Old(t)]
    BY <1>1
  <2> HIDE DEF Old
  <2> QED BY <1>3, <2>1, <2>2 DEF Exclusive, Disjoint, Same, Under, Inside, End
<1> QED BY <1>4 DEF MemoryExclusive, Exclusive

\* The kernel never gives out memory twice: in every reachable state two
\* capabilities cover disjoint memory, name one object, or one was carved out of
\* the other and lies below its watermark (retype, aspace_top_up, untyped_reset).
THEOREM MemorySafe == Spec => []MemoryExclusive
<1>1. Init => MemoryExclusive
  BY DEF Init, MemoryExclusive
<1>2. TypeOK /\ MemoryExclusive /\ [Next]_vars => MemoryExclusive'
  <2> SUFFICES ASSUME TypeOK, MemoryExclusive, [Next]_vars PROVE MemoryExclusive'
    OBVIOUS
  <2>1. CASE UNCHANGED vars
    BY <2>1 DEF vars, MemoryExclusive, Held, Under
  <2> QED BY <2>1, DeriveExclusive, RetypeExclusive, MarkExclusive, RemoveExclusive,
             MoveExclusive DEF Next
<1> QED BY <1>1, <1>2, TypeCorrect, PTL DEF Spec

-----------------------------------------------------------------------------
(* No authority out of nothing. *)

\* cap_copy: the copy is a capability to the same object with no more rights, and
\* so is whatever the source was derived from.
LEMMA DeriveShrinks ==
    ASSUME TypeOK, AuthorityShrinks, NEW src \in Held, NEW dst \in Filled, Derive(src, dst)
    PROVE  AuthorityShrinks'
<1> USE DEF TypeOK, Held
<1>1. PICK a \in SUBSET cap[src].auth :
         cap' = [s \in Held \cup {dst} |->
                    IF s = dst THEN [cap[src] EXCEPT !.auth = a] ELSE cap[s]]
  BY DEF Derive
<1>2. cap[src] \in Capability
  OBVIOUS
<1>3. /\ cap'[dst].kind = cap[src].kind /\ cap'[dst].base = cap[src].base
      /\ cap'[dst].size = cap[src].size /\ cap'[dst].auth \subseteq cap[src].auth
  BY <1>1, <1>2 DEF Capability
<1>4. /\ Held' = Held \cup {dst} /\ dst \notin Held
      /\ \A s \in Held : cap'[s] = cap[s] /\ anc'[s] = anc[s] /\ anc[s] \subseteq Held
      /\ anc'[dst] = anc[src] \cup {src}
  BY <1>1 DEF Derive, Filled
<1>5. ASSUME NEW s \in Held, NEW x \in anc[s], cap[x].kind # "untyped"
      PROVE  Same(cap[s], cap[x]) /\ cap[s].auth \subseteq cap[x].auth
  BY <1>5 DEF AuthorityShrinks
<1> QED BY <1>3, <1>4, <1>5 DEF AuthorityShrinks, Same

\* retype: the new capabilities have only regions above them, of which the
\* property says nothing.
LEMMA RetypeShrinks ==
    ASSUME TypeOK, AuthorityShrinks, NEW u \in Held, Retype(u, Filled)
    PROVE  AuthorityShrinks'
<1> USE DEF TypeOK, Held
<1>1. /\ Held' = Held \cup Filled
      /\ \A s \in Held \ {u} : cap'[s] = cap[s]
      /\ \A s \in Held : anc'[s] = anc[s] /\ anc[s] \subseteq Held /\ s \notin Filled
      /\ \A s \in Filled : anc'[s] = anc[u] \cup {u}
      /\ cap[u].kind = "untyped" /\ cap[u] \in Capability
  BY DEF Retype, Filled
<1>2. PICK n \in Filled : TRUE
  BY DEF Retype
<1>3. /\ cap'[u].kind = cap[u].kind
  BY <1>1, <1>2 DEF Retype, Capability
<1>4. \A x \in anc[u] : cap[x].kind = "untyped"
  BY <1>1 DEF AuthorityShrinks, Same
<1> QED BY <1>1, <1>3, <1>4 DEF AuthorityShrinks, Same

\* Moving a watermark, as aspace_top_up and untyped_reset do, changes no
\* capability to an object.
LEMMA MarkShrinks ==
    ASSUME TypeOK, AuthorityShrinks, NEW u \in Held, Consume(u) \/ Reset(u)
    PROVE  AuthorityShrinks'
<1> USE DEF TypeOK, Held
<1>1. /\ Held' = Held /\ anc' = anc
      /\ \A s \in Held \ {u} : cap'[s] = cap[s]
      /\ cap[u].kind = "untyped" /\ cap[u] \in Capability
      /\ \E m : cap' = [cap EXCEPT ![u].mark = m]
  BY DEF Consume, Reset
<1>2. cap'[u].kind = cap[u].kind
  BY <1>1 DEF Capability
<1> QED BY <1>1, <1>2 DEF AuthorityShrinks, Same

\* Deleting and revoking leave the capabilities that stay as they were.
LEMMA RemoveShrinks ==
    ASSUME TypeOK, AuthorityShrinks, Remove(Emptied)
    PROVE  AuthorityShrinks'
BY DEF TypeOK, Held, AuthorityShrinks, Same, Remove, Emptied

\* Moving a capability changes the names of slots and nothing else.
LEMMA MoveShrinks ==
    ASSUME TypeOK, AuthorityShrinks, NEW src \in Emptied, NEW dst \in DOMAIN cap',
           Move(src, dst, (Emptied \ {src}) \cup ({dst} \cap Held))
    PROVE  AuthorityShrinks'
<1> USE DEF TypeOK, Held
<1> DEFINE Old(s) == IF s = dst THEN src ELSE s
           gone == (Emptied \ {src}) \cup ({dst} \cap Held)
<1>1. \A s \in Held' : /\ Old(s) \in Held /\ cap'[s] = cap[Old(s)]
                       /\ anc'[s] = (anc[Old(s)] \ (gone \cup {src}))
                                    \cup (IF src \in anc[Old(s)] THEN {dst} ELSE {})
  BY DEF Move, Emptied
<1>2. \A s \in Held' : \A x \in anc'[s] : x \in Held' /\ Old(x) \in anc[Old(s)]
  BY <1>1 DEF Move, Emptied
<1> QED BY <1>1, <1>2 DEF AuthorityShrinks

\* Rights only shrink along the derivation tree: what is derived from the
\* capability to an object, over any number of copies, moves and deletions in
\* between, names that object and lets its holder do no more.
THEOREM AuthoritySafe == Spec => []AuthorityShrinks
<1>1. Init => AuthorityShrinks
  BY DEF Init, AuthorityShrinks, Held
<1>2. TypeOK /\ AuthorityShrinks /\ [Next]_vars => AuthorityShrinks'
  <2> SUFFICES ASSUME TypeOK, AuthorityShrinks, [Next]_vars PROVE AuthorityShrinks'
    OBVIOUS
  <2>1. CASE UNCHANGED vars
    BY <2>1 DEF vars, AuthorityShrinks, Held
  <2> QED BY <2>1, DeriveShrinks, RetypeShrinks, MarkShrinks, RemoveShrinks, MoveShrinks DEF Next
<1> QED BY <1>1, <1>2, TypeCorrect, PTL DEF Spec

\* No call makes a capability out of nothing: what every capability of the next
\* state covers was covered before it, by the same object with at least its
\* rights or by memory not yet carved.
THEOREM NothingAppears == Spec => NothingFromNothing
<1> USE DEF TypeOK, Held
<1>1. TypeOK /\ [Next]_vars => [\A s \in DOMAIN cap' : Covered(cap'[s])]_vars
  <2> SUFFICES ASSUME TypeOK, Next PROVE \A s \in DOMAIN cap' : Covered(cap'[s])
    OBVIOUS
  <2>1. ASSUME NEW s \in Held PROVE Covered(cap[s])
    <3>1. cap[s] \in Capability
      OBVIOUS
    <3> QED BY <3>1 DEF Covered, Inside, Same, End, Capability
  <2>2. ASSUME NEW src \in Held, NEW dst \in Filled, Derive(src, dst),
               NEW s \in DOMAIN cap'
        PROVE  Covered(cap'[s])
    <3>1. PICK a \in SUBSET cap[src].auth :
             cap' = [x \in Held \cup {dst} |->
                        IF x = dst THEN [cap[src] EXCEPT !.auth = a] ELSE cap[x]]
      BY <2>2 DEF Derive
    <3>2. cap[src] \in Capability
      OBVIOUS
    <3>3. CASE s = dst
      <4>1. /\ cap'[s].kind = cap[src].kind /\ cap'[s].base = cap[src].base
            /\ cap'[s].size = cap[src].size /\ cap'[s].auth \subseteq cap[src].auth
        BY <3>1, <3>2, <3>3 DEF Capability
      <4>2. Inside(cap'[s], cap[src])
        BY <3>2, <4>1 DEF Inside, End, Capability
      <4> QED BY <2>2, <4>1, <4>2 DEF Covered, Same, Derive
    <3> QED BY <2>1, <3>1, <3>3
  <2>3. ASSUME NEW u \in Held, Retype(u, Filled), NEW s \in DOMAIN cap' PROVE Covered(cap'[s])
    <3>1. cap[u] \in Capability
      OBVIOUS
    <3>2. PICK n \in Filled : TRUE
      BY <2>3 DEF Retype
    <3>3. Inside(cap'[u], cap[u])
      BY <2>3, <3>1, <3>2 DEF Retype, Inside, End, Capability
    <3>4. \A t \in Filled : Inside(cap'[t], cap[u])
      BY <2>3 DEF Retype
    <3> QED BY <2>1, <2>3, <3>3, <3>4 DEF Covered, Retype
  <2>4. ASSUME NEW u \in Held, Consume(u) \/ Reset(u), NEW s \in DOMAIN cap'
        PROVE  Covered(cap'[s])
    <3>1. cap[u] \in Capability /\ \E m : cap' = [cap EXCEPT ![u].mark = m]
      BY <2>4 DEF Consume, Reset
    <3>2. Inside(cap'[u], cap[u])
      BY <3>1 DEF Inside, End, Capability
    <3> QED BY <2>1, <2>4, <3>1, <3>2 DEF Covered, Consume, Reset
  <2>5. ASSUME Remove(Emptied), NEW s \in DOMAIN cap' PROVE Covered(cap'[s])
    BY <2>1, <2>5 DEF Remove
  <2>6. ASSUME NEW src \in Emptied, NEW dst \in DOMAIN cap', NEW s \in DOMAIN cap',
               Move(src, dst, (Emptied \ {src}) \cup ({dst} \cap Held))
        PROVE  Covered(cap'[s])
    BY <2>1, <2>6 DEF Move, Emptied
  <2> QED BY <2>2, <2>3, <2>4, <2>5, <2>6 DEF Next
<1> QED BY <1>1, TypeCorrect, PTL DEF Spec, NothingFromNothing
=============================================================================
