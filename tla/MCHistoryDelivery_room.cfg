CONSTANTS
  Clients = {c1}
  Requests = {r1, r2}
  Kinds = {"join", "fetch", "force"}
  MaxMessages = 2
  Window = 1
SPECIFICATION FairSpec
INVARIANTS
  TypeOK
  JoinLeavesNoGap
PROPERTIES
  RepeatIsCached
  RoomSeesMessages
CHECK_DEADLOCK FALSE
