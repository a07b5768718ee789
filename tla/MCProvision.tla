---------------------------- MODULE MCProvision ----------------------------
(* An instance of Provision for TLC.                                       *)
EXTENDS Provision, TLC

Fallback == <<"pcp", "upnp">>
SerialSymmetry == Permutations(Serials)
=============================================================================
