SPECIFICATION AccountsSpec
CONSTANTS
  Requests = {r1, r2}
  MaxCodes = 2
  MaxSessions = 1
PROPERTIES
  VerifiedForGood
CHECK_DEADLOCK FALSE
