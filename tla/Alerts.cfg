SPECIFICATION AlertsSpec
CONSTANTS
  Channels = {c1, c2}
  Troubled = {c1}
  Handlers = {h1, h2}
  MaxChanges = 2
  MaxRetry = 1
  MaxFaults = 2
  MaxUpsets = 2
  MaxEdits = 1
  None = None
INVARIANTS
  RepeatsAreExplained
  OvertakingIsExplained
  SilenceIsExplained
CHECK_DEADLOCK FALSE
PROPERTIES
  AlertArrives
