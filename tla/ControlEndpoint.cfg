SPECIFICATION FairSpec
CONSTANTS
  MaxSetups = 2
  MaxResets = 1
  MaxUnplugs = 1
INVARIANTS
  TypeOK
  NoStaleReply
  AckMeansAccepted
  ConfigurationAgrees
  ForwardedOnce
PROPERTIES
  RequestAnswered
