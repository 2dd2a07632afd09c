----------------------------- MODULE MCWriteback -----------------------------
(* Instances of Writeback for TLC. *)
EXTENDS WritebackInv, TLC

(* Actions and sessions carry no identity but their own.                   *)
Symmetry == Permutations(Actions) \cup Permutations(Sessions)
=============================================================================
