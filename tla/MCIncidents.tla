----------------------------- MODULE MCIncidents -----------------------------
(* Instances of Incidents for TLC. *)
EXTENDS Incidents, TLC

CONSTANTS DetectAfter, RecoverAfter

FailureThresholds == [m \in Monitors |-> DetectAfter]
RecoveryThresholds == [m \in Monitors |-> RecoverAfter]

\* Tasks and regions are interchangeable; only used where no liveness is checked.
Symmetry == Permutations(Tasks) \cup Permutations(Regions)
===============================================================================
