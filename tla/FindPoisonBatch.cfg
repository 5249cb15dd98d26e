SPECIFICATION FairSpec
CONSTANTS
  m1 = m1
  m2 = m2
  p1 = p1
  p2 = p2
  p3 = p3
  p4 = p4
  p5 = p5
  Pings = {p1, p2, p3}
  Monitors = {m1, m2}
  MonitorOf <- TwoMonitors
  Capacity = 2
  FlushAt = 2
  Faults = {"delete"}
  MaxFaults = 1
CHECK_DEADLOCK FALSE
PROPERTY EveryPingWritten
