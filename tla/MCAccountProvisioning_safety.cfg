CONSTANTS
  Users = {u1}
  Calls = {r1, r2, r3}
  Kinds = {"userWallet", "userWalletAndDid", "agentWallet", "agentWalletAndDid", "did", "identity", "profile", "newAgent", "delete", "issuer"}
  NoDid = NoDid
  MaxAccounts = 2
  MaxFaults = 1
SPECIFICATION Spec
SYMMETRY CallSymmetry
INVARIANTS
  TypeOK
  KeyIsNeverLost
  ProfileIsOfItsAgent
  DidsAreNotShared
  WalletsMatchLedger
CHECK_DEADLOCK FALSE
