SPECIFICATION Spec
CONSTANTS
  s1 = s1
  s2 = s2
  c1 = c1
  c2 = c2
  NoServer = NoServer
  Server = {s1, s2}
  Client = {c1}
  ServerOf <- Shared
  Space0 <- Space4
  SuperWidth = 2
  SetWidth = 1
  MetaWidth = 1
  Specs <- SpecGap
  Exports = {1}
  Lwp = {s2}
  WriteFails = {"srv"}
  FidWidth = 1
  Local = {}
INVARIANTS
  FldLocates
