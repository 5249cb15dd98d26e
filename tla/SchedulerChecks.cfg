SPECIFICATION FairSpec
CONSTANTS
  Monitors = {a, b}
  Regions = {r1}
  Intervals = {1}
  Slots = {s1, s2}
  BatchSize = 1
  Faults = {"update", "enqueue", "crash"}
  MaxFaults = 1
  MaxEdits = 1
  None = None
INVARIANTS
  TypeOK
  PickedOnce
PROPERTY AlwaysChecked
