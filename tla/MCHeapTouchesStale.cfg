SPECIFICATION MCSpec
CONSTANTS
  c1 = c1
  c2 = c2
  c3 = c3
  x = x
  y = y
  Cells = {c1, c2, c3}
  Vars = {x, y}
  Destructible = {c1}
  NSlots = 2
  RcMax = 20
  BufferMax = 4
  DtorSteps = 1
  TouchesStale = FALSE
  WalksSwept = TRUE
  Resurrects = FALSE
  Null = Null
  Parts = {"stale"}
INVARIANT
  DestroyedOnce
