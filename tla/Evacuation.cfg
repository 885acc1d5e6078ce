SPECIFICATION Spec
CONSTANTS
  NRoots = 2
  NYoung = 1
  NEden = 2
  NOld = 2
  MAX_TRANSEDEN = 2
  MaxSteps = 4
  FullCollectionFirst = TRUE
INVARIANTS TypeOK NoDangling RemSetComplete
PROPERTIES GraphPreserved
CHECK_DEADLOCK FALSE
