------------------------- MODULE MCEndpointManager -------------------------
(* The instances of EndpointManager that TLC checks; see the cfg files. *)
EXTENDS EndpointManager
=============================================================================
