SPECIFICATION Spec
CONSTANTS
  KeyCodes = {"KEY_HOME"}
  Devices <- TouchDevices
  Commands <- Script
  MaxCommands = 2
  MaxFaults = 0
  MaxRuns = 1
INVARIANTS
  ResetClearsCache
\* A script ends and the bounds run out: the system may stop.
CHECK_DEADLOCK FALSE
