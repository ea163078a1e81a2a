\* Two workers; KeyDB, a worker or everything restarts, or an administrator rewinds.
SPECIFICATION Spec
CONSTANTS
  w1 = w1
  w2 = w2
  Worker = {w1, w2}
  MaxX = 1
  MaxStarts = 3
  MaxSaves = 2
  Disturbance = {"reset", "reboot", "rewind"}
  MaxDisturbances = 1
SYMMETRY MCSymmetry
INVARIANTS
  TypeOK
  NothingSkipped
  CountNotAhead
  ServesFromSaved
