CONSTANTS
  net1 = net1
  net2 = net2
  t1 = t1
  t2 = t2
  e1 = e1
  e2 = e2
  ours = ours
  other = other
  Configs <- TwoTailnets
  Syncers = {s1}
  Editors = {ed}
  Endpoints = {e1}
  Entries = {e1, e2}
  Texts = {t1, t2}
  Labels = {ours, other}
  OurLabel = ours
  Edits <- Kinds
  None = None
  Unclear = Unclear
  Fails = Fails
SPECIFICATION FairSpec
INVARIANT OwnWritesSerialised
PROPERTIES ForeignKept SuccessIsListed CallsReturn
