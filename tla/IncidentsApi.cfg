SPECIFICATION FairSpec
CONSTANTS
  Monitors = {m1}
  Regions = {r1}
  Tasks = {t1}
  Requests = {q1}
  IncidentIds = {1, 2, 3}
  StartTimes = {1}
  DetectAfter = 1
  RecoverAfter = 1
  FailureThreshold <- FailureThresholds
  RecoveryThreshold <- RecoveryThresholds
  FailureKinds = {"failed"}
  HealthStates = {"up", "flaky"}
  MaxChanges = 1
  MaxBuffered = 1
  MaxEdits = 1
  MaxFaults = 1
  None = None
  User = User
CHECK_DEADLOCK FALSE
INVARIANTS
  TypeOK
  ResolvedIsStamped
  StatusMatchesTimeline
  LocksAreHeldInTransaction
  NoticesJustified
PROPERTY StatusRecovers
