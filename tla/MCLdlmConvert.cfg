SPECIFICATION Spec
CONSTANTS
  l1 = l1
  l2 = l2
  l3 = l3
  c1 = c1
  c2 = c2
  c3 = c3
  e1 = e1
  e2 = e2
  NoLock = NoLock
  Lock = {l1, l2, l3}
  Client = {c1, c2, c3}
  Bit = {"dom", "upd"}
  Dom = "dom"
  Owner <- Owner3
  Mode <- ModeConv
  ReqBits <- BitsConv
  EnqThread = {e1, e2}
  CancelThread = {k1}
  ReapThread = {r1}
  Flaky = {}
  MayInterrupt = {}
  CanConvert = TRUE
SYMMETRY ThreadSymmetry
INVARIANTS
  ClientCoherent
  NoStrandedWaiter
CHECK_DEADLOCK FALSE
