SPECIFICATION Spec
CONSTANTS
  Methods <- Fallback
  Ports = {p, q}
  Requested = p
  Strict = TRUE
  MaxStray = 2
  Addrs = {a1, a2}
  Public = {a1, a2}
  Nonces = {n1, n2, n3}
  None = None
  Names = {a1, a2}
  BaseNames = {host}
  Keys = {k1, k2}
  Serials = {c1, c2, c3}
  Nil = Nil
SYMMETRY SerialSymmetry
INVARIANTS EntriesAccounted ActiveBacked PinServed
PROPERTIES KeyStable
