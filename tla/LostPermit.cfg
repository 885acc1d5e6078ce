SPECIFICATION Spec
CONSTANTS
  Unparkers = {u1, u2}
  NULL = NULL
PROPERTIES ParkerConditionSeen
