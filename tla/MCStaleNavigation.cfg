SPECIFICATION Spec
CONSTANTS
  Bids = {b1}
  NoBid = NoBid
  Limit = 10
  MaxCommits = 3
  MaxLoads = 1
  MaxFaults = 0
INVARIANTS
  CheckpointCovers
CHECK_DEADLOCK FALSE
