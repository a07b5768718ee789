CONSTANTS
  Callers = {c1}
  Loop = loop
  Networks = {n1}
  Ports = {lp, q}
  LocalPort = lp
  NatMode = TRUE
  WantsV4 = TRUE
  WantsV6 = TRUE
  ValidateEndpoint = TRUE
  None = None
SPECIFICATION Spec
INVARIANTS TypeOK OnePortSet OnlyBoundFamilies LeasesAccounted
PROPERTY PublishesOnlyValidated
