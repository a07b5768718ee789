--------------------------- MODULE MCPolicySync ---------------------------
(* An instance of PolicySync for TLC.                                      *)
EXTENDS PolicySync

CONSTANTS net1, net2, t1, t2, e1, e2, ours, other

TwoTailnets == <<net1, net2>>

Entry(mine, label, own, others) ==
  [mine |-> mine, label |-> label, own |-> own, others |-> others]
File(region, text) == [region |-> region, text |-> text]

\* The region is absent; or shared with other nodes, called otherwise than
\* configured and with an outdated entry of the node; or somebody else's.
Kinds ==
  {File(None, t1), File(Entry(TRUE, other, e2, TRUE), t1),
   File(Entry(FALSE, other, e1, TRUE), t2)}
=============================================================================
