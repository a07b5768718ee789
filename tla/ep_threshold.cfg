CONSTANTS
  Callers = {}
  Loop = loop
  Networks = {n1}
  Ports = {lp}
  LocalPort = lp
  NatMode = TRUE
  WantsV4 = TRUE
  WantsV6 = FALSE
  ValidateEndpoint = TRUE
  None = None
SPECIFICATION Spec
INVARIANT WithdrawsOnlyAtThreshold
\* The loop may be stopped, and nobody else is there.
CHECK_DEADLOCK FALSE
