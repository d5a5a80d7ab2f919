SPECIFICATION Spec
CONSTANTS
  Sessions = {s1, s2}
  NoSession = NoSession
  i1 = i1
  Items = {i1}
  Bid = Bid
  Rank <- BidAndItemRanks
  Ops = {o1}
  NoOp = NoOp
  MaxTokens = 2
INVARIANTS
  AbsentStaysAbsent
  NoCircularWait
PROPERTIES
  LeasesExclude
SYMMETRY Symmetry
CHECK_DEADLOCK FALSE
