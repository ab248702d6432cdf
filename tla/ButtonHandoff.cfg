SPECIFICATION Spec
CONSTANTS
  Options <- MCOptions
  GapMin = 1
  GapMax = 2
  DoubleTap = 1
  Exclusion = 1
  None = None
INVARIANTS
  TypeOK
  NotStuck
  HandedOver
PROPERTIES
  OnlyDoubleTaps
  HeldIsSeen
CHECK_DEADLOCK FALSE
