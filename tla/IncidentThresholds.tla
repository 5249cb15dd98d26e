-------------------------- MODULE IncidentThresholds --------------------------
(***************************************************************************)
(* The arithmetic of incident detection and recovery: pure operators over  *)
(* the newest pings of one monitor in one region, newest first.  A ping is *)
(* reduced to TRUE (status "successful") or FALSE ("failed", "timeout"),   *)
(* which is all that worker/handler/monitor_ping.go reads of it here.      *)
(***************************************************************************)
EXTENDS Naturals, Sequences, FiniteSets

\* int(math.Ceil(float64(failureThreshold) * 1.5))
Window(threshold) == (3 * threshold + 1) \div 2

Lesser(a, b) == IF a < b THEN a ELSE b
Greater(a, b) == IF a < b THEN b ELSE a

\* The positions of the failed pings among the first `window` samples.
FailedAt(samples, window) ==
  {k \in 1..Lesser(Len(samples), window) : ~samples[k]}

CountFailures(samples, window) == Cardinality(FailedAt(samples, window))

\* Mutant: the comparison lets one failure too few through.
DetectedOffByOne(samples, threshold) ==
  CountFailures(samples, Window(threshold)) >= threshold - 1

\* The condition of handleIncidentFailure for opening an incident.
Detected(samples, threshold) ==
  /\ threshold > 0
  /\ CountFailures(samples, Window(threshold)) >= threshold
  /\ Len(samples) >= threshold

\* Mutant: more samples are asked for than the query can return.
RecoveredOffByOne(samples, threshold) ==
  Len(samples) > threshold /\ \A k \in 1..threshold : samples[k]

\* The condition of handleIncidentRecovery for resolving one.
Recovered(samples, threshold) ==
  /\ threshold > 0
  /\ Len(samples) >= threshold
  /\ \A k \in 1..threshold : samples[k]

\* How many stored pings the two queries ever look at: the rows a LIMIT of
\* window - 1 or of recoveryThreshold - 1 can return.
Horizon(failureThreshold, recoveryThreshold) ==
  Greater(Window(failureThreshold), recoveryThreshold) - 1

\* ORDER BY time DESC LIMIT n: the n newest of a newest-first sequence.
Newest(stored, n) == SubSeq(stored, 1, Lesser(n, Len(stored)))

\* Place a ping below the `newer` stored pings that are more recent.
InsertByTime(stored, newer, ping) ==
  SubSeq(stored, 1, newer) \o <<ping>> \o SubSeq(stored, newer + 1, Len(stored))
===============================================================================
