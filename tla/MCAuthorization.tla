---------------------------- MODULE MCAuthorization ----------------------------
(* Instances of Authorization for TLC. *)
EXTENDS AuthorizationInv, TLC

(* Links and requests carry no identity but their own.                     *)
Symmetry == Permutations(Users) \cup Permutations(Links) \cup Permutations(Requests)
=============================================================================
