CONSTANTS
  Threads = {gui, worker}
  Main = gui
  MaxDepth = 2
  MaxStarts = 2
  MaxSignals = 2
  MaxEdits = 3
  MaxSize = 2
  None = none
  Surfaces = {main, detached}
  MainPlan = main
  Pages = {p, q}
SPECIFICATION MCSpec
INVARIANTS BlockedMeansClosed ReadsSeeCommits UnusableIsEvicted MaintenanceExcludes
           OneMonitor UndoIsLastEdit StacksTellTheTruth VerdictIsTrue
PROPERTIES BlockIsLifted ShownNeverGoesBack EveryBatchEnds
CHECK_DEADLOCK FALSE
