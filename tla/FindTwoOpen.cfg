SPECIFICATION Spec
CONSTANTS
  Monitors = {m1}
  Regions = {r1, r2}
  Tasks = {t1, t2}
  Requests = {}
  IncidentIds = {1, 2}
  StartTimes = {1}
  DetectAfter = 1
  RecoverAfter = 1
  FailureThreshold <- FailureThresholds
  RecoveryThreshold <- RecoveryThresholds
  FailureKinds = {"failed"}
  HealthStates = {"flaky"}
  MaxChanges = 0
  MaxBuffered = 1
  MaxEdits = 0
  MaxFaults = 0
  None = None
  User = User
CHECK_DEADLOCK FALSE
INVARIANT OneActiveIncident
