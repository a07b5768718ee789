CONSTANTS
  Readers = {r1}
  MaxTraffic = 3
SPECIFICATION FairSpec
INVARIANT NothingInvented
PROPERTIES BackwardsOnlyAtEnd TotalsMonotone CatchesUp
