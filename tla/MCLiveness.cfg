SPECIFICATION LiveSpec
CONSTANTS
  Ops = {o1}
  NoOp = NoOp
  Critical = {o1}
  Capacity = 1
  MaxFaults = 3
  MaxGen = 1
  Watched = s1
  Sessions = {s1, s2}
  NoSession = NoSession
  Items = {i1}
  Bid = Bid
PROPERTIES
  UnresolvedIsResolved
  TransactionsEnd
CHECK_DEADLOCK FALSE
