---------------------------- MODULE MCChatMemory ----------------------------
(* An instance of ChatMemory for TLC. *)
EXTENDS ChatMemoryInv, TLC

Symmetry == Permutations(Sessions)
=============================================================================
