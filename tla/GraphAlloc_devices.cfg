SPECIFICATION Spec
CONSTANTS
  g1 = g1 g2 = g2 g3 = g3 p1 = p1 p2 = p2 c1 = c1 c2 = c2
  Graphs = {g1, g2, g3}
  Ptrs = {p1, p2}
  Contexts = {c1, c2}
  GraphCtx <- GraphDevices
  PtrCtx <- PtrDevices
  External = {g3}
INVARIANTS HeldIsBacked GraphIsBacked IndInv
PROPERTY NothingFreedWhileCapturing
