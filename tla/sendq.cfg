SPECIFICATION FairSpec
CONSTANTS
  s1 = s1
  s2 = s2
  Senders <- TwoSenders
  Depth = 2
  MaxPackets <- Bursts
  Carried <- KindsOf
  Requesters = {r}
  None = None
INVARIANTS PacketsAccounted TailDropNeedsRivals
PROPERTIES SentInOrder WindsUp
CHECK_DEADLOCK FALSE
