CONSTANTS
  net1 = net1
  net2 = net2
  t1 = t1
  s1 = s1
  s2 = s2
  Configs <- TwoInstances
  Configured = {net2}
  Devices = {d1}
  Refreshers = {Loop}
  Loop = Loop
  Callers = {c1}
  Changes <- Requests
  Edits <- Others
  Instants = {t1}
  Shown = {s1, s2}
  VerifyConfig = {"enabled", "urls", "tailscaled", "api"}
  ServerChecks = {}
  TTL = 1
  Latency = 1
  None = None
  Never = Never
  Past = Past
SPECIFICATION AdmissionSpec
INVARIANTS AdmissionBacked CacheExact
PROPERTIES RevocationLands Readmits
