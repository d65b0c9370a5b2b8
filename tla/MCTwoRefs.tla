------------------------------ MODULE MCTwoRefs ------------------------------
(***************************************************************************)
(* StoreCommit for TLC: two refs share the log, and any step may fail.     *)
(***************************************************************************)
EXTENDS StoreCommit, TLC

RefSymmetry == Permutations(Refs)

\* While no step failed, memory and disk agree: every acknowledged write is recoverable
\* from the durable state alone, the log in memory is the log on disk, across the wrap
\* and whichever ref pins it, readers see what a power loss would leave, and relief makes
\* progress.  (A failed commit, append or flush breaks each of them.)
SoundUntilFault == nFaults = 0 => StoreSound /\ ReliefPopsFront
=============================================================================
