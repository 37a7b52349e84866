CONSTANTS
  Clients = {c1, c2}
  NoClient = NoClient
  Tags = {1, 2}
  MaxOps = 2
  EpochSize = 10
  MaxConn = 3
  MaxCrash = 1
  MaxEvict = 0
  Windows = {}
SPECIFICATION Spec
SYMMETRY ClientSymmetry
INVARIANTS TypeOK ReplayInOrder LastCommittedKept RecoveryNotStuck ReplayCountedOnce
PROPERTY ImplementsExactlyOnce
CHECK_DEADLOCK FALSE
