CONSTANTS
  Clients = {c1, c2}
  NoClient = NoClient
  Tags = {1}
  MaxOps = 2
  EpochSize = 10
  MaxConn = 2
  MaxCrash = 1
  MaxEvict = 2
  Windows = {}
SPECIFICATION FairSpec
PROPERTIES RecoveryEnds ImplementsExactlyOnce
CHECK_DEADLOCK FALSE
