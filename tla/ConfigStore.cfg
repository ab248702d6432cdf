SPECIFICATION Spec
CONSTANTS
  FLASH_SECTORS = 5
  SectorWords = 2
  MaxCommands = 3
  MaxCrashes = 2
  Models = {m1, m2}
  Interfaces = {i1, i2}
  Endpoints = {e1}
  Valid = valid
  Zero = zero
  On = on
  Off = off
  Junk = junk
  Erased = erased
  None = none
  Addresses <- MCAddresses
  Values <- MCValues
SYMMETRY MCSymmetry
INVARIANTS
  TypeOK
  ClaimFollowsConfig
  DebugModeAgrees
PROPERTIES
  ImplementsByteStore
CHECK_DEADLOCK FALSE
