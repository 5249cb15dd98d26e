---------------------------- MODULE MCPingRecorder ----------------------------
(* Instances of PingRecorder for TLC. *)
EXTENDS PingRecorder

CONSTANTS m1, m2, p1, p2, p3, p4, p5

\* Every other ping is of the second monitor.
TwoMonitors == [p \in Pings |-> IF p \in {p2, p4} THEN m2 ELSE m1]
===============================================================================
