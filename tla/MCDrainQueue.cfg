SPECIFICATION Spec
CONSTANTS
  Ops = {o1}
  NoOp = NoOp
  Critical = {o1}
  Capacity = 1
  MaxFaults = 1
  MaxGen = 1
PROPERTIES
  DrainEmptiesQueue
CHECK_DEADLOCK FALSE
