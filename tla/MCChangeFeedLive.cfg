SPECIFICATION FairSpec
CONSTANTS
  Bids = {b1}
  NoBid = NoBid
  Limit = 1
  MaxCommits = 2
  MaxLoads = 1
  MaxFaults = 1
PROPERTIES
  CatchesUp
CHECK_DEADLOCK FALSE
