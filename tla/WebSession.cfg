SPECIFICATION WebSpec
CONSTANTS
  Requests = {r1, r2}
  MaxCodes = 2
  MaxSessions = 1
  MaxTeams = 2
  CooldownSeconds = 1
  RedirectSeconds = 1
INVARIANTS
  WebTypeOK
  StoredCodeWasMailed
  SessionIsEarned
  PagesTellTheTruth
  SwitcherTrails
SYMMETRY
  MCSymmetry
CHECK_DEADLOCK FALSE
PROPERTIES
  SidebarStaysAsLeft
