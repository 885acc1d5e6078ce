SPECIFICATION Spec
CONSTANTS
  MAX_TRANSEDEN = 2
  OldSize = 3
  EdenSize = 2
  YoungSize = 2
  FromSize = 1
  MaxSize = 2
  DeadWood = {0, 1}
  Overfull = TRUE
INVARIANTS
  ScannedBeforeUse
