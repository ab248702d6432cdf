SPECIFICATION FairSpec
CONSTANTS
  MaxRequests = 4
  MaxPlugs = 2
INVARIANTS
  TypeOK
  AnswerIsOwnUnlessShared
  DataIsOwnUnlessShared
PROPERTIES
  ImplementsCall
  CallReturns
CHECK_DEADLOCK FALSE
