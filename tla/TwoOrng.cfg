SPECIFICATION BothSpec
CONSTANTS
  KeyCodes = {"KEY_HOME"}
  Devices <- SharedDevices
  Commands <- SharedScript
  MaxCommands = 1
  MaxFaults = 0
  MaxRuns = 1
INVARIANTS
  SharedButtonReleased
  SharedContactsReleased
  LastSlotReleased
  SharedInv
\* The scripts end and the bounds run out: the system may stop.
CHECK_DEADLOCK FALSE
