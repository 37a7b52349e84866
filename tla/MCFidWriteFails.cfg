SPECIFICATION Spec
CONSTANTS
  s1 = s1
  s2 = s2
  c1 = c1
  c2 = c2
  NoServer = NoServer
  Server = {s1}
  Client = {c1}
  ServerOf <- Shared
  Space0 <- Space9
  SuperWidth = 6
  SetWidth = 1
  MetaWidth = 1
  Specs = {}
  Exports = {1}
  Lwp = {}
  WriteFails = {"srv"}
  FidWidth = 1
  Local = {}
INVARIANTS
  LowaterSafe
CHECK_DEADLOCK FALSE
