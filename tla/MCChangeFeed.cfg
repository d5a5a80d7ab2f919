SPECIFICATION Spec
CONSTANTS
  Bids = {b1, b2}
  NoBid = NoBid
  Limit = 1
  MaxCommits = 2
  MaxLoads = 2
  MaxFaults = 0
INVARIANTS
  CheckpointCoversOthers
PROPERTIES
  FeedNeverGoesBack
SYMMETRY Symmetry
CHECK_DEADLOCK FALSE
