SPECIFICATION Spec
CONSTANTS
  t1 = t1
  t2 = t2
  t3 = t3
  t4 = t4
  o1 = o1
  o2 = o2
  o3 = o3
  None = None
  Thread = {t1, t2, t3, t4}
  Owner = {o1, o2, o3}
  OwnerOf <- TwoOfOne
  Res = {1, 2, 3}
  OffsetMax = 0
  Eof = 1
  WholeFile = {}
  ReqMode = {"PW"}
  ReqFlag = {"wait"}
  AllocFails = FALSE
  Interruptible = {}
INVARIANTS
  WalkEnds
