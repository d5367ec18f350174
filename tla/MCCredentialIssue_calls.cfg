CONSTANTS
  Callers = {c1}
  Targets = {"active", "suspended", "resumed", "revoked", "expired"}
  OtherWallets = TRUE
  Overlap = 1
  MaxCredentials = 2
  MaxSerials = 4
  MaxOperations = 3
  MaxFaults = 2
SPECIFICATION FairSpec
INVARIANTS
  TypeOK
  ActiveHasNft
  OneLiveUnlessReinstated
PROPERTIES
  SerialIsKept
  AnswerMatchesLedger
  RevocationIsComplete
  RetryRecovers
CHECK_DEADLOCK FALSE
