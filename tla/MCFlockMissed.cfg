SPECIFICATION Spec
CONSTANTS
  t1 = t1
  t2 = t2
  t3 = t3
  t4 = t4
  o1 = o1
  o2 = o2
  o3 = o3
  None = None
  Thread = {t1, t2, t3}
  Owner = {o1, o2, o3}
  OwnerOf <- ThreeOwners
  Res = {1}
  OffsetMax = 1
  Eof = 3
  WholeFile = {}
  ReqMode = {"PW", "NL"}
  ReqFlag = {"wait"}
  AllocFails = FALSE
  Interruptible = {}
INVARIANTS
  DeadlockDetected
