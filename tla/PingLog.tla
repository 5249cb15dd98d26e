-------------------------------- MODULE PingLog --------------------------------
(***************************************************************************)
(* What a worker's ping recorder promises the rest of the system: a ping   *)
(* it accepted is stored once, in any company and any order, or is lost    *)
(* with the worker, or goes with its monitor.  Nothing else happens to it. *)
(***************************************************************************)
CONSTANTS
  Pings,
  Monitors,
  MonitorOf    \* the monitor each ping is of

VARIABLES
  live,        \* monitors with a row in the database
  accepted,    \* pings ever recorded
  pending,     \* pings of live monitors accepted and not stored
  stored       \* rows of pings

vars == <<live, accepted, pending, stored>>

Of(m) == {p \in Pings : MonitorOf[p] = m}

Init ==
  /\ live = Monitors
  /\ accepted = {}
  /\ pending = {}
  /\ stored = {}

Accept(p) ==
  /\ p \notin accepted
  /\ accepted' = accepted \cup {p}
  /\ pending' = IF MonitorOf[p] \in live THEN pending \cup {p} ELSE pending
  /\ UNCHANGED <<live, stored>>

Store(S) ==
  /\ S # {}
  /\ pending' = pending \ S
  /\ stored' = stored \cup S
  /\ UNCHANGED <<live, accepted>>

Lose ==
  /\ pending' = {}
  /\ UNCHANGED <<live, accepted, stored>>

DeleteMonitor(m) ==
  /\ m \in live
  /\ live' = live \ {m}
  /\ pending' = pending \ Of(m)
  /\ stored' = stored \ Of(m)
  /\ UNCHANGED accepted

Next ==
  \/ \E p \in Pings : Accept(p)
  \/ \E S \in SUBSET pending : Store(S)
  \/ Lose
  \/ \E m \in Monitors : DeleteMonitor(m)

Spec == Init /\ [][Next]_vars
===============================================================================
