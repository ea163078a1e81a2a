\* Two requests of one trainer at a time, two settings of the seeds, a deletion
SPECIFICATION Spec
CONSTANTS
  m1 = m1
  w1 = w1
  r1 = r1
  r2 = r2
  x1 = x1
  x2 = x2
  a1 = a1
  c1 = c1
  None = None
  Machine = {m1}
  Worker = {w1}
  Handler = {r1, r2}
  Admin = {a1}
  X = {x1, x2}
  PoolX = {x1}
  Seeds = {{x1, x2}, {x2}}
  Command = {c1}
  CountLimit = 1
  Ops = {"get", "found"}
  MaxDelete = 1
  MaxSeeds = 1
  MaxStart = 0
  MaxStop = 0
  MaxCommand = 0
  MaxFail = 0
SYMMETRY MCSymmetry
VIEW ReportlessView
INVARIANTS
  GateTypeOK
  ServedFoundSeeds
  CacheVerified
