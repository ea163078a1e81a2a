\* Two requests at once, none of which fails.
SPECIFICATION Spec
CONSTANTS
  m1 = m1
  m2 = m2
  r1 = r1
  r2 = r2
  Machine = {m1, m2}
  Handler = {r1, r2}
  MaxX = 3
  FirstX = 0
  CountLimit = 1
  RequeueBatch = 1
  None = None
  MaxCalls = 3
  MaxFailures = 0
INVARIANTS
  DoneMeansExhausted
