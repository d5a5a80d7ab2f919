SPECIFICATION MCSpec
CONSTANTS
  Layers = {a, b}
  All = All
  Kinds = {TRUE, FALSE}
  MaxRevisions = 3
  MaxOthers = 1
  Bids = {b1, b2}
  Changesets = {scale, element}
  Scales = {scale}
  Notes = {main, minor}
  Minor = {minor}
  MaxOpen = 1
  MaxWorkers = 2
  MaxRevision = 2
  MaxEdits = 2
  MaxRefusals = 1
  Closed = Closed
INVARIANTS
  NothingIsLeftBehind
  IntentIsStored
  ReviewedIsApplied
  HistoryIsTrue
PROPERTIES
  UndoIsExact
SYMMETRY Symmetry
CHECK_DEADLOCK FALSE
