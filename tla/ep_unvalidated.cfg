CONSTANTS
  Callers = {c1}
  Loop = loop
  Networks = {n1, n2}
  Ports = {lp}
  LocalPort = lp
  NatMode = TRUE
  WantsV4 = TRUE
  WantsV6 = TRUE
  ValidateEndpoint = FALSE
  None = None
SPECIFICATION Spec
INVARIANTS LeasesAccounted ReconcileCertified
