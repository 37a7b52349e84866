CONSTANTS
  t1 = t1
  t2 = t2
  Creator = {t1}
  CreateCounts = {2}
  MaxId = 5
  MaxConn = 2
  MdtCrashes = 0
  OstCrashes = 0
  MaxPrecreate = 2
SPECIFICATION FairSpec
PROPERTIES
  PoolReopens
CHECK_DEADLOCK FALSE
