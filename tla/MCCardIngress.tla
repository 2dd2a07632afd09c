---------------------------- MODULE MCCardIngress ----------------------------
(* An instance of CardIngress for TLC. *)
EXTENDS CardIngressInv, TLC
=============================================================================
