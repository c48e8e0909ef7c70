SPECIFICATION Spec
CONSTANT
  Devices <- OneDevice
INVARIANT
  SameDevice
CHECK_DEADLOCK FALSE
