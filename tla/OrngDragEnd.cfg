SPECIFICATION TimedSpec
CONSTANTS
  KeyCodes = {"KEY_HOME"}
  Devices <- TouchDevices
  Commands <- Drags
  MaxCommands = 1
  MaxFaults = 0
  MaxRuns = 1
  Durations <- AllDurations
  UsPerMs = 10
  Word = 4096
INVARIANTS
  DragAsDocumented
\* A script ends and the bounds run out: the system may stop.
CHECK_DEADLOCK FALSE
