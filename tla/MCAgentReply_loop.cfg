CONSTANTS
  Agents = {a1, a2}
  Calls = {r1, r2}
  NoMessage = NoMessage
  MaxTime = 1
  MaxFaults = 0
SPECIFICATION Spec
SYMMETRY ReplySymmetry
INVARIANTS
  OwnMessageIsSkipped
CHECK_DEADLOCK FALSE
