\* One request at a time; trainers acknowledge with leases, without them, or not at all.
SPECIFICATION FairSpec
CONSTANTS
  m1 = m1
  m2 = m2
  r1 = r1
  r2 = r2
  Machine = {m1, m2}
  Handler = {r1}
  MaxX = 2
  FirstX = 1
  CountLimit = 2
  RequeueBatch = 2
  None = None
  MaxCalls = 4
  MaxFailures = 0
INVARIANTS
  DoneMeansExhausted
  LeaseAccounting
  CountCovers
PROPERTIES
  LeaseEnds
