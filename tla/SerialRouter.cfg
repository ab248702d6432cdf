SPECIFICATION FairSpec
CONSTANTS
  MaxItems = 3
  FrameLength = 2
  BufferSize = 5
  RxSize = 4
  MaxLine = 2
  FrameKinds <- MCFrameKinds
INVARIANTS
  TypeOK
  CleanItemsTaken
  OverwrittenOnlyWhenBusy
PROPERTIES
  BufferDrains
CHECK_DEADLOCK FALSE
