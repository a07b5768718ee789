------------------------- MODULE MCClientRegistry -------------------------
(* Instances of ClientRegistry for TLC: clones share one node key, which   *)
(* other nodes of the region may have too; the connection other has a key  *)
(* of its own.                                                             *)
EXTENDS ClientRegistry, TLC

CONSTANTS clones, other, cloned, own

MCKeyOf == [c \in clones \cup {other} |-> IF c = other THEN own ELSE cloned]
Replies == {<<cloned, other>>}
Roaming == {cloned} \X Forwarders
CloneSymmetry == Permutations(clones)
=============================================================================
