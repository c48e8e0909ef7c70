SPECIFICATION FairSpec
CONSTANTS
  b1 = b1
  b2 = b2
  b3 = b3
  Null = Null
  Table <- DevSpec
  Params <- Loads
  Blocks = {b1, b2, b3}
  ORNG_NDEVICES = 3
  MaxReaders = 1
INVARIANTS
  TypeOK
  AllOrNothing
  AsAsked
  Owned
  ReleasedOnce
  ReaderSafe
  LimitsKept
PROPERTIES
  LoadEnds
