CONSTANTS
  Agents = {a1, a2}
  Calls = {r1, r2}
  NoMessage = NoMessage
  MaxTime = 1
  MaxFaults = 1
SPECIFICATION FairSpec
INVARIANTS
  TypeOK
  RepliesAnswerTheOther
  TriggeredReplyHasReadItsCause
PROPERTIES
  AskedReplyArrives
CHECK_DEADLOCK FALSE
