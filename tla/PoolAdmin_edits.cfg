\* Two Settings pages edited at once while a trainer of each protocol is served; one may die.
SPECIFICATION AdminSpec
CONSTANTS
  m1 = m1
  m2 = m2
  r1 = r1
  r2 = r2
  a1 = a1
  a2 = a2
  Machine = {m1, m2}
  Handler = {r1}
  MaxX = 1
  FirstX = 0
  CountLimit = 1
  RequeueBatch = 1
  None = None
  MaxCalls = 2
  MaxFailures = 1
  Admin = {a1, a2}
  StepEdits = {0}
  StartEdits = {1, 2}
  MaxLoads = 2
  MaxSaves = 2
SYMMETRY MCSymmetry
INVARIANTS
  
  StepNotBelowStart
PROPERTIES
  ImplementsLedger
