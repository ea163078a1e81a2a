\* Two workers, a test and its stop, one failure of whatever kind
SPECIFICATION FairSpec
CONSTANTS
  m1 = m1
  w1 = w1
  w2 = w2
  r1 = r1
  x1 = x1
  a1 = a1
  c1 = c1
  None = None
  Machine = {m1}
  Worker = {w1, w2}
  Handler = {r1}
  Admin = {a1}
  X = {x1}
  PoolX = {}
  Seeds = {{}}
  Command = {c1}
  CountLimit = 1
  Ops = {"get", "done"}
  MaxDelete = 0
  MaxSeeds = 0
  MaxStart = 1
  MaxStop = 1
  MaxCommand = 0
  MaxFail = 1
INVARIANTS
  ModeHasItems
  ItemsHeld
PROPERTIES
  TestEnds
