---------------------------- MODULE MCStoreCommit ----------------------------
(* Instances of StoreCommit for TLC. *)
EXTENDS StoreCommit, TLC

RefSymmetry == Permutations(Refs)
=============================================================================
