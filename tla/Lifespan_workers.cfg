\* Two workers; requests outnumber the connections
SPECIFICATION FairSpec
CONSTANTS
  w1 = w1
  w2 = w2
  t1 = t1
  t2 = t2
  t3 = t3
  c1 = c1
  c2 = c2
  None = None
  Worker = {w1, w2}
  Task = {t1, t2, t3}
  Conn = {c1, c2}
  MaxStop = 1
  MaxCrash = 1
INVARIANTS
  LifespanTypeOK
  ConnsConserved
  DrainedFirst
  NoIdleWait
  Administered
PROPERTIES
  ComesUp
  ShutdownEnds
