\* Two workers, a deletion and a command
SPECIFICATION FairSpec
CONSTANTS
  m1 = m1
  w1 = w1
  w2 = w2
  r1 = r1
  x1 = x1
  a1 = a1
  c1 = c1
  None = None
  Machine = {m1}
  Worker = {w1, w2}
  Handler = {r1}
  Admin = {a1}
  X = {x1}
  PoolX = {}
  Seeds = {{x1}}
  Command = {c1}
  CountLimit = 1
  Ops = {"get", "found"}
  MaxDelete = 1
  MaxSeeds = 0
  MaxStart = 0
  MaxStop = 0
  MaxCommand = 1
  MaxFail = 0
PROPERTIES
  LetIn
  CommandsLeave
