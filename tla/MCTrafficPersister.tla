------------------------ MODULE MCTrafficPersister ------------------------
(* The instance of TrafficPersister that TLC checks; see traffic.cfg. *)
EXTENDS TrafficPersister
=============================================================================
