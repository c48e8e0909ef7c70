SPECIFICATION Spec
CONSTANTS
  KeyCodes = {"KEY_HOME"}
  Devices <- AllDevices
  Commands <- Script
  MaxCommands = 2
  MaxFaults = 0
  MaxRuns = 1
INVARIANTS
  KeyDownReported
\* A script ends and the bounds run out: the system may stop.
CHECK_DEADLOCK FALSE
