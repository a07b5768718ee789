CONSTANTS
  Callers = {}
  Loop = loop
  Networks = {n1}
  Ports = {lp, q}
  LocalPort = lp
  NatMode = TRUE
  WantsV4 = TRUE
  WantsV6 = TRUE
  ValidateEndpoint = TRUE
  None = None
SPECIFICATION FairSpec
INVARIANTS ReadyIsBacked WithdrawnIsUnpublished
PROPERTY Recovers
\* The loop may be stopped, and nobody else is there.
CHECK_DEADLOCK FALSE
