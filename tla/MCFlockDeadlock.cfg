SPECIFICATION Spec
CONSTANTS
  t1 = t1
  t2 = t2
  t3 = t3
  t4 = t4
  o1 = o1
  o2 = o2
  o3 = o3
  None = None
  Thread = {t1, t2}
  Owner = {o1, o2}
  OwnerOf <- OnePerOwner
  Res = {1, 2}
  OffsetMax = 2
  Eof = 7
  WholeFile = {2}
  ReqMode = {"PW", "NL"}
  ReqFlag = {"wait", "nowait"}
  AllocFails = FALSE
  Interruptible = {t1, t2}
INVARIANTS
  DeadlockDetected
  NoStranded
PROPERTIES
  DeadlockReal
CHECK_DEADLOCK FALSE
