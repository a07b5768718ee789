CONSTANTS
  clones = {a1, a2, a3}
  other = b
  cloned = ka
  own = kb
  Conns = {a1, a2, a3, b}
  Keys = {ka, kb}
  KeyOf <- MCKeyOf
  MeshConns = {b}
  Homing = {b}
  Forwarders = {f1}
  Elsewhere <- Roaming
  Packets <- Replies
  DupPolicy = "lastWriterIsActive"
  None = None
SPECIFICATION Spec
SYMMETRY CloneSymmetry
INVARIANTS TypeOK AlwaysRoutable NeverUnexpected DupFlagsExact GaugesExact WatchersInformed MeshConsistent NoDanglingWatch
