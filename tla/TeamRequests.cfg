SPECIFICATION Spec
CONSTANTS
  Users = {u1, u2}
  Teams = {t1}
  InviteIds = {i1, i2, i3}
  Requests = {q1, q2}
  AskedRoles = {"owner", "admin"}
  SMTPEnabled = TRUE
  None = None
SYMMETRY Symmetry
CHECK_DEADLOCK FALSE
INVARIANTS
  TypeOK
  SingleOwner
  StampMatchesStatus
  PendingBounded
  AcceptedMeansJoined
PROPERTY JoinsAreInvited
