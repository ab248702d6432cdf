SPECIFICATION HIDSpec
CONSTANTS
  ByteBits = 3
  PassedButtons = 2
  Inputs <- MCInputs
  ReportIds = {1}
  MaxInputs = 3
  MaxBits = 9
INVARIANTS
  HIDTypeOK
  FrameMeansReport
CHECK_DEADLOCK FALSE
