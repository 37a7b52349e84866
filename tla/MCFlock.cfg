SPECIFICATION Spec
CONSTANTS
  t1 = t1
  t2 = t2
  t3 = t3
  t4 = t4
  o1 = o1
  o2 = o2
  o3 = o3
  None = None
  Thread = {t1, t2}
  Owner = {o1, o2}
  OwnerOf <- OnePerOwner
  Res = {1}
  OffsetMax = 2
  Eof = 7
  WholeFile = {}
  ReqMode = {"PR", "PW", "NL"}
  ReqFlag = {"wait", "nowait"}
  AllocFails = TRUE
  Interruptible = {}
INVARIANTS
  TypeOK
  FlocksExclusive
  OwnListOK
  GrantMatchesBytes
PROPERTIES
  GrantExact
CHECK_DEADLOCK FALSE
