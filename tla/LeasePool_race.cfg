\* Two trainers, two requests at once, one that may die; any X may be named without a lease.
SPECIFICATION Spec
CONSTANTS
  m1 = m1
  m2 = m2
  r1 = r1
  r2 = r2
  Machine = {m1, m2}
  Handler = {r1, r2}
  MaxX = 2
  FirstX = 0
  CountLimit = 2
  RequeueBatch = 1
  None = None
  MaxCalls = 3
  MaxFailures = 1
SYMMETRY MCSymmetry
INVARIANTS
  TypeOK
  NoXTwice
  NoXMissing
  NoDoubleCredit
  StaleGrantRefused
  PunctualAckAccepted
  CapOnlyWhenExhausted
PROPERTIES
  ImplementsWorkQueue
