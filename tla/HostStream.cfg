SPECIFICATION FairSpec
CONSTANTS
  Transfers = 4
  MaxPlugs = 3
  MaxConfigs = 5
INVARIANTS
  TypeOK
  StreamAlive
  InFlightBounded
PROPERTIES
  PauseEnds
CHECK_DEADLOCK FALSE
