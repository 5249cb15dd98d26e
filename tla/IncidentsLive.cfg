SPECIFICATION FairSpec
CONSTANTS
  Monitors = {m1}
  Regions = {r1}
  Tasks = {t1, t2}
  Requests = {}
  IncidentIds = {1, 2, 3, 4, 5, 6}
  StartTimes = {1}
  DetectAfter = 3
  RecoverAfter = 2
  FailureThreshold <- FailureThresholds
  RecoveryThreshold <- RecoveryThresholds
  FailureKinds = {"failed"}
  HealthStates = {"up", "down"}
  MaxChanges = 2
  MaxBuffered = 1
  MaxEdits = 0
  MaxFaults = 0
  None = None
  User = User
INVARIANTS
  DetectionNeedsFailures
PROPERTIES
  OutageIsReported
  IncidentsAutoResolve
