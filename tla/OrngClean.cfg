SPECIFICATION TimedSpec
CONSTANTS
  KeyCodes = {"KEY_HOME"}
  Devices <- AllDevices
  Commands <- Script
  MaxCommands = 3
  MaxFaults = 0
  MaxRuns = 2
  Durations <- AllDurations
  UsPerMs = 10
  Word = 4096
INVARIANTS
  TypeOK
  NoStuckContact
  ButtonHasContact
  ReportedOnPath
  NoOvershoot
  TakesItsTime
  TimedInv
PROPERTIES
  PlaysGestures
\* A script ends and the bounds run out: the system may stop.
CHECK_DEADLOCK FALSE
