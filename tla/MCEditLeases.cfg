SPECIFICATION FairSpec
CONSTANTS
  dialog = dialog
  plan = plan
  area = area
  item = item
  Surfaces = {dialog, plan}
  Gestures = {plan}
  Resources = {area, item}
  Wants <- WantsValue
  Reads <- ReadsValue
  Free = Free
  Other = Other
  None = None
  Conflict = Conflict
  MaxAsks = 2
  MaxFaults = 1
INVARIANTS
  HandleIsBacked
  OneEditor
  DraftsAreAccounted
  LeaseHasAnEnd
PROPERTIES
  AskIsAnswered
  LeaseIsGivenBack
CHECK_DEADLOCK FALSE
