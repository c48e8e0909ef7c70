SPECIFICATION FairSpec
CONSTANTS
  KeyCodes = {"KEY_HOME"}
  Devices <- TouchDevices
  Commands <- FaultyScript
  MaxCommands = 3
  MaxFaults = 2
  MaxRuns = 2
INVARIANTS
  IndInv
  IdInv
  PathInv
  GestureHeals
  GestureReported
  FingersFollowPath
PROPERTIES
  FreshContact
  CommandEnds
\* A script ends and the bounds run out: the system may stop.
CHECK_DEADLOCK FALSE
