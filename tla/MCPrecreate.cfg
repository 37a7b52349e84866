CONSTANTS
  t1 = t1
  t2 = t2
  Creator = {t1, t2}
  CreateCounts = {2}
  MaxId = 5
  MaxConn = 2
  MdtCrashes = 1
  OstCrashes = 1
  MaxPrecreate = 2
SPECIFICATION Spec
SYMMETRY CreatorSymmetry
INVARIANTS
  IndInv
  PoolBacked
  ReservationsBacked
PROPERTIES
  InUseKept
  IdsUnique
CHECK_DEADLOCK FALSE
