SPECIFICATION Spec
CONSTANTS
  m0 = m0  m1 = m1  m2 = m2  none = none
  R = R  w = w  x = x  y = y  z = z
  S = S  p = p  q = q  T = T  u = u  v = v
  Make = {m0,m1,m2}
  Root = m0
  Node = {R, w, x, y, z, S, p, q, T, u, v}
  MakeOf <- MMakeOf
  Main <- MMain
  Wait = {w}
  Graphs <- MGraphs
  NoMake = none
  Forms <- MForms
  KeepGoing <- MKeep
  MaxJobs = 2
CHECK_DEADLOCK FALSE
INVARIANTS TypeOK QueueRequested PredecessorsFirst OrderKept NothingForgotten TokensKept JobsBounded
PROPERTIES StopperKept Terminates
