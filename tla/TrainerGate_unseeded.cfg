\* A machine whose first request reports a key
SPECIFICATION Spec
CONSTANTS
  m1 = m1
  w1 = w1
  r1 = r1
  x1 = x1
  a1 = a1
  c1 = c1
  None = None
  Machine = {m1}
  Worker = {w1}
  Handler = {r1}
  Admin = {a1}
  X = {x1}
  PoolX = {x1}
  Seeds = {{x1}}
  Command = {c1}
  CountLimit = 1
  Ops = {"get", "found"}
  MaxDelete = 0
  MaxSeeds = 0
  MaxStart = 0
  MaxStop = 0
  MaxCommand = 0
  MaxFail = 0
INVARIANTS
  EveryServedFoundSeeds
