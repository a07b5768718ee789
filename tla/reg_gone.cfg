CONSTANTS
  clones = {a1}
  other = b
  cloned = ka
  own = kb
  Conns = {a1, b}
  Keys = {ka, kb}
  KeyOf <- MCKeyOf
  MeshConns = {}
  Homing = {}
  Forwarders = {}
  Elsewhere = {}
  Packets <- Replies
  DupPolicy = "lastWriterIsActive"
  None = None
SPECIFICATION Spec
SYMMETRY CloneSymmetry
INVARIANTS GoneIsAnnounced
