SPECIFICATION Spec
CONSTANTS
  KeyCodes = {"KEY_HOME"}
  Devices <- MultiTouch
  Commands <- FaultyScript
  MaxCommands = 2
  MaxFaults = 1
  MaxRuns = 2
PROPERTIES
  PressIsNewContact
\* A script ends and the bounds run out: the system may stop.
CHECK_DEADLOCK FALSE
