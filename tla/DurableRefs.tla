----------------------------- MODULE DurableRefs -----------------------------
(****************************************************************************)
(* What the storage engine promises its clients: for every ref one register *)
(* per file that power loss cannot touch (None before the ref is created).  *)
(* One mutation runs at a time and gives some files of one ref a new        *)
(* content.  It takes effect once and as a whole, before it is              *)
(* acknowledged; a mutation that power loss interrupts has taken effect or  *)
(* has not.                                                                 *)
(****************************************************************************)
EXTENDS Naturals

CONSTANTS Refs, Files, MaxOps, None

VARIABLES content, op

vars == <<content, op>>

Ops == [ref : Refs, files : SUBSET Files, tree : [Files -> 0 .. MaxOps]]

Init == content = [r \in Refs |-> [f \in Files |-> None]] /\ op = None

Applied == [content EXCEPT ![op.ref] =
               [f \in Files |-> IF f \in op.files THEN op.tree[f] ELSE @[f]]]

Call == op = None /\ op' \in Ops /\ UNCHANGED content

TakeEffect == op # None /\ op' = op /\ content' = Applied

Acknowledge == op # None /\ op' = None /\ content = Applied /\ UNCHANGED content

Interrupt == op # None /\ op' = None /\ content' \in {content, Applied}

Next == Call \/ TakeEffect \/ Acknowledge \/ Interrupt

Spec == Init /\ [][Next]_vars
=============================================================================
