SPECIFICATION Spec
CONSTANTS
  s1 = s1
  s2 = s2
  c1 = c1
  c2 = c2
  NoServer = NoServer
  Server = {s1}
  Client = {c1, c2}
  ServerOf <- Shared
  Space0 <- Space4
  SuperWidth = 3
  SetWidth = 1
  MetaWidth = 1
  Specs = {}
  Exports = {1, 2}
  Lwp = {}
  WriteFails = {"ctl"}
  FidWidth = 2
  Local = {}
SYMMETRY ClientSymmetry
INVARIANTS
  TypeOK
  SequencesUnique
  LowaterSafe
  FidsUnique
