\* One Settings page, whose step and lower bound nobody edits.
SPECIFICATION AdminSpec
CONSTANTS
  m1 = m1
  m2 = m2
  r1 = r1
  r2 = r2
  a1 = a1
  a2 = a2
  Machine = {m1, m2}
  Handler = {r1}
  MaxX = 1
  FirstX = 0
  CountLimit = 1
  RequeueBatch = 1
  None = None
  MaxCalls = 2
  MaxFailures = 0
  Admin = {a1}
  StepEdits = {}
  StartEdits = {}
  MaxLoads = 1
  MaxSaves = 1
INVARIANTS
  NoDoubleCredit
