SPECIFICATION Spec
CONSTANTS
  Unparkers = {u1, u2, u3}
  NULL = NULL
INVARIANTS TypeOK NoStrandedWaiter
PROPERTIES ReturnTakesPermit EventConditionSeen
