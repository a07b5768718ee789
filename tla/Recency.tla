------------------------------ MODULE Recency ------------------------------
(***************************************************************************)
(* The order in which the members of a dupClientSet last sent a frame      *)
(* (internal/derpserver/derpserver.go, dupClientSet.sendHistory), oldest   *)
(* first.  The code keeps a log of all frames with adjacent duplicates     *)
(* removed; DupClientSet shows that this order is all it is used for.      *)
(***************************************************************************)
EXTENDS Naturals, Sequences

\* slices.Contains(sendHistory, c).
Spoke(s, c) == \E i \in DOMAIN s : s[i] = c

\* removeClient's trim, for a connection that left the set.
Position(s, c) == CHOOSE i \in DOMAIN s : s[i] = c
Without(s, c) ==
  IF Spoke(s, c)
  THEN [j \in 1 .. Len(s) - 1 |-> s[IF j < Position(s, c) THEN j ELSE j + 1]]
  ELSE s

\* append(sendHistory, c), unless c is its last entry.
Spoken(s, c) == Append(Without(s, c), c)

\* The last entry, or none if there is no entry.
LastOf(s, none) == IF s = <<>> THEN none ELSE s[Len(s)]
=============================================================================
