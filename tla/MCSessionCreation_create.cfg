CONSTANTS
  Agents = {a1, a2, a3}
  Calls = {r1, r2}
  MaxFaults = 1
SPECIFICATION FairSpec
INVARIANTS
  TypeOK
  DuplicatesOverlap
PROPERTIES
  GoodRequestSucceeds
CHECK_DEADLOCK FALSE
