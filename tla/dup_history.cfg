CONSTANTS
  Conns = {c1, c2, c3, c4}
  LastWriter = TRUE
  MaxLog = 7
  None = None
SPECIFICATION Spec
INVARIANT SuccessorKnown
PROPERTY ImplementsOrder
