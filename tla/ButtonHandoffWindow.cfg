SPECIFICATION Spec
CONSTANTS
  Options <- MCOptions
  GapMin = 1
  GapMax = 2
  DoubleTap = 1
  Exclusion = 1
  None = None
PROPERTIES
  MiddleExcludes
CHECK_DEADLOCK FALSE
