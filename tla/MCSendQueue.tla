---------------------------- MODULE MCSendQueue ----------------------------
\* Two senders to one client: enough packets to fill a queue of two, and to
\* lose the race for it three times.
EXTENDS SendQueue, TLC

CONSTANTS s1, s2

TwoSenders == {s1, s2}
Bursts == s1 :> 2 @@ s2 :> 3
KindsOf == s1 :> Kinds @@ s2 :> {"other"}
=============================================================================
