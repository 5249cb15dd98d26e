SPECIFICATION FairSpec
CONSTANTS
  m1 = m1
  m2 = m2
  p1 = p1
  p2 = p2
  p3 = p3
  p4 = p4
  p5 = p5
  Pings = {p1, p2, p3, p4, p5}
  Monitors = {m1, m2}
  MonitorOf <- TwoMonitors
  Capacity = 1
  FlushAt = 2
  Faults = {"error", "unknown", "crash", "delete"}
  MaxFaults = 2
CHECK_DEADLOCK FALSE
INVARIANTS
  TypeOK
  OnePlace
PROPERTIES
  NeverDropped
  ImplementsPingLog
  Drained
