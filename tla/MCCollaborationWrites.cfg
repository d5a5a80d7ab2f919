SPECIFICATION Spec
CONSTANTS
  Sessions = {s1, s2}
  NoSession = NoSession
  i1 = i1
  Items = {i1}
  Bid = Bid
  Rank <- BidAndItemRanks
  Ops = {o1, o2}
  NoOp = NoOp
  MaxTokens = 1
INVARIANTS
  VersionsMatchMarkers
PROPERTIES
  NoLostUpdate
SYMMETRY Symmetry
CHECK_DEADLOCK FALSE
