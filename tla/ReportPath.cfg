SPECIFICATION FairSpec
CONSTANTS
  MaxReports = 2
  MaxMice = 2
  MaxResets = 1
  MaxRequests = 2
INVARIANTS
  TypeOK
  BusyUnlessOverlapped
  EndpointAlive
  OwnReportOwnLayout
PROPERTIES
  ImplementsChannel
  LastReportArrives
CHECK_DEADLOCK FALSE
