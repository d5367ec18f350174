CONSTANTS
  Accounts = {a1, a2}
  Taken <- SameEmail
  Clients = {c1, c2}
  Requests = {r1, r2, r3}
  MaxTokens = 3
  MaxFaults = 1
SPECIFICATION Spec
SYMMETRY AuthSymmetry
INVARIANTS
  TypeOK
  KeptCookieWorks
PROPERTIES
  LogoutHolds
CHECK_DEADLOCK FALSE
