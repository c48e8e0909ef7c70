SPECIFICATION Spec
CONSTANT
  Devices <- AllDevices
INVARIANTS
  TypeOK
  RowsSurvive
  NothingLost
  KeysAsDescribed
  StaysInside
  EmulateInv
CHECK_DEADLOCK FALSE
