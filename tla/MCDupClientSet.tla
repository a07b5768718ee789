-------------------------- MODULE MCDupClientSet --------------------------
(* Instances of DupClientSet for TLC. *)
EXTENDS DupClientSet, TLC
=============================================================================
