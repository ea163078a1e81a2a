\* Two workers with two loops each; rounds fail, workers die or are held up twice.
SPECIFICATION FairSpec
CONSTANTS
  w1 = w1
  w2 = w2
  None = None
  Worker = {w1, w2}
  SlowLoop = {"persist"}
  Ttl = 6
  Interval = 1
  RoundTime = 1
  MaxFails = 1
  MaxStalls = 2
INVARIANTS
  TypeOK
  SoleLeader
  StrandedByStalls
PROPERTIES
  HandsOverAfterDeath
  RequeueGoesOn
  LeadersAgreeAgain
