CONSTANTS
  Messages = {m1, m2, m3, m4}
  BatchSize = 2
  MaxTime = 3
  MaxFaults = 1
SPECIFICATION Spec
SYMMETRY MessageSymmetry
INVARIANTS
  TypeOK
  RepeatsExplained
  NothingSkipped
  LastEndsPass
CHECK_DEADLOCK FALSE
