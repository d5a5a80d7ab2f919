SPECIFICATION Spec
CONSTANTS
  Ops = {o1, o2}
  NoOp = NoOp
  Critical = {o1, o2}
  Capacity = 1
  MaxFaults = 2
  MaxGen = 2
INVARIANTS
  VerdictsAreTrue
  OneVerdict
  CancelledNeverRuns
  CommitReachesCaller
  CommitIsJournaled
  UncertainIsRegistered
PROPERTIES
  ImplementsOutcomes
  DrainWaitsForExecution
SYMMETRY Symmetry
CHECK_DEADLOCK FALSE
