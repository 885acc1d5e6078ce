SPECIFICATION Spec
CONSTANTS
  NRoots = 2
  NYoung = 1
  NEden = 2
  NOld = 2
  MAX_TRANSEDEN = 2
  MaxSteps = 4
  FullCollectionFirst = FALSE
INVARIANTS NoDangling
CHECK_DEADLOCK FALSE
