---------------------------- MODULE SchedulerProofs ----------------------------
(***************************************************************************)
(* Theorems about Scheduler, for any monitors, regions, intervals, batch   *)
(* size and number of concurrent batches: its types, and that no    *)
(* check is scheduled twice without a goroutine late, failed or dead.      *)
(***************************************************************************)
EXTENDS Scheduler, TLAPS

(***************************************************************************)
(* Types.                                                                  *)
(***************************************************************************)

\* What is left of a wait is a number of seconds.
LEMMA RemainingIsNat ==
  ASSUME NEW i \in Nat, NEW a \in Nat
  PROVE  Remaining(i, a) \in Nat
BY DEF Remaining

\* Ages are numbers of seconds, whatever the longest interval is.
LEMMA OlderIsNat ==
  ASSUME NEW a \in Nat
  PROVE  Older(a) \in Nat
BY DEF Older

\* What the loop may read for a batch.
Batch == UNION {[M -> Intervals] : M \in SUBSET Monitors}

\* The empty batch is a batch.
LEMMA NoRowsIsBatch == NoRows \in Batch
<1>1. NoRows \in [{} -> Intervals]
  BY DEF NoRows
<1>2. {} \in SUBSET Monitors
  OBVIOUS
<1> QED
  BY <1>1, <1>2 DEF Batch

\* A goroutine that ends keeps the types of the slots.
LEMMA EndUpdateTypes ==
  ASSUME TypeOK, NEW s \in Slots, EndUpdate(s)
  PROVE  /\ updating' \in [Slots -> {"idle", "read", "write"}]
         /\ rows' \in [Slots -> Batch]
         /\ age' \in [Slots -> Nat]
         /\ \A t \in Slots : updating'[t] = "idle" => rows'[t] = NoRows
BY NoRowsIsBatch DEF TypeOK, EndUpdate, Batch

\* Every step keeps the types.
LEMMA TypeInductive == TypeOK /\ [Next]_vars => TypeOK'
<1> SUFFICES ASSUME TypeOK, [Next]_vars PROVE TypeOK'
  OBVIOUS
<1>0. /\ live \subseteq Monitors /\ gone \subseteq Monitors /\ live \cap gone = {}
      /\ interval \in [Monitors -> Intervals]
      /\ regions \in [Monitors -> SUBSET Regions]
      /\ wait \in [Monitors -> Nat]
      /\ rows \in [Slots -> Batch]
      /\ updating \in [Slots -> {"idle", "read", "write"}]
      /\ age \in [Slots -> Nat]
      /\ unsent \in [Slots -> SUBSET (Monitors \X Regions)]
      /\ \A s \in Slots : updating[s] = "idle" => rows[s] = NoRows
      /\ picked \subseteq Monitors /\ stalled \subseteq Monitors /\ again \subseteq Monitors
  BY DEF TypeOK, Batch
<1>1. CASE Tick
  <2>1. wait' \in [Monitors -> Nat] /\ age' \in [Slots -> Nat]
    BY <1>0, <1>1, RemainingIsNat, OlderIsNat DEF Tick
  <2>2. request' = NoRequest \/ request' \in [monitor : Monitors, interval : Intervals,
                                              regions : SUBSET Regions, age : Nat]
    <3>1. CASE request = NoRequest
      BY <1>1, <3>1 DEF Tick
    <3>2. CASE request # NoRequest
      <4>1. request \in [monitor : Monitors, interval : Intervals,
                         regions : SUBSET Regions, age : Nat]
        BY <3>2 DEF TypeOK
      <4>2. Older(request.age) \in Nat
        BY <4>1, OlderIsNat
      <4> QED
        BY <1>1, <3>2, <4>1, <4>2 DEF Tick
    <3> QED
      BY <3>1, <3>2
  <2> QED
    BY <1>1, <2>1, <2>2 DEF Tick, history, TypeOK
<1>2. CASE Loop
  <2> DEFINE due == ListMonitorsDueForCheck
  <2>1. PICK b \in [due -> FreeSlots] :
          /\ updating' = [s \in Slots |-> IF {m \in due : b[m] = s} = {} THEN updating[s]
                                          ELSE "read"]
          /\ rows' = [s \in Slots |-> IF {m \in due : b[m] = s} = {} THEN rows[s]
                                      ELSE [m \in {n \in due : b[n] = s} |-> interval[m]]]
          /\ unsent' = [s \in Slots |-> IF {m \in due : b[m] = s} = {} THEN unsent[s]
                          ELSE UNION {{m} \X regions[m] : m \in {n \in due : b[n] = s}}]
    BY <1>2, Zenon DEF Loop
  <2>2. due \subseteq Monitors
    BY <1>0 DEF ListMonitorsDueForCheck
  <2>3. updating' \in [Slots -> {"idle", "read", "write"}]
    BY <1>0, <2>1
  <2>4. rows' \in [Slots -> Batch]
    <3>1. ASSUME NEW M \in SUBSET due PROVE [m \in M |-> interval[m]] \in Batch
      <4>1. [m \in M |-> interval[m]] \in [M -> Intervals] /\ M \in SUBSET Monitors
        BY <1>0, <2>2
      <4> QED
        BY <4>1 DEF Batch
    <3>2. \A s \in Slots : {n \in due : b[n] = s} \in SUBSET due
      OBVIOUS
    <3> QED
      BY <1>0, <2>1, <3>1, <3>2
  <2>5. unsent' \in [Slots -> SUBSET (Monitors \X Regions)]
    <3>1. ASSUME NEW M \in SUBSET due
          PROVE  UNION {{m} \X regions[m] : m \in M} \subseteq Monitors \X Regions
      BY <1>0, <2>2
    <3>2. \A s \in Slots : {n \in due : b[n] = s} \in SUBSET due
      OBVIOUS
    <3> QED
      BY <1>0, <2>1, <3>1, <3>2
  <2>6. \A s \in Slots : updating'[s] = "idle" => rows'[s] = NoRows
    BY <1>0, <2>1
  <2>7. picked' \subseteq Monitors /\ stalled' \subseteq Monitors /\ again' \subseteq Monitors
    BY <1>0, <1>2, <2>2 DEF Loop, Pick
  <2>8. UNCHANGED <<live, gone, interval, regions, wait, queue, age, request, edits, faults>>
    BY <1>2 DEF Loop
  <2> QED
    BY <2>3, <2>4, <2>5, <2>6, <2>7, <2>8 DEF TypeOK, Batch
<1>3. ASSUME NEW s \in Slots, ReadClock(s) PROVE TypeOK'
  BY <1>0, <1>3 DEF ReadClock, history, TypeOK
<1>4. ASSUME NEW s \in Slots, BatchUpdateMonitorsLastChecked(s) PROVE TypeOK'
  <2>1. ASSUME NEW m \in DOMAIN rows[s] PROVE rows[s][m] \in Nat
    <3>1. rows[s] \in Batch
      BY <1>0
    <3>2. PICK M \in SUBSET Monitors : rows[s] \in [M -> Intervals]
      BY <3>1 DEF Batch
    <3> QED
      BY <2>1, <3>2, SchedulerAssumption
  <2>2. wait' \in [Monitors -> Nat]
    BY <1>0, <1>4, <2>1, RemainingIsNat DEF BatchUpdateMonitorsLastChecked
  <2>3. EndUpdate(s) /\ picked' \subseteq Monitors /\ stalled' \subseteq Monitors
    BY <1>0, <1>4 DEF BatchUpdateMonitorsLastChecked
  <2>4. UNCHANGED <<live, gone, interval, regions, queue, unsent, request, again, edits, faults>>
    BY <1>4 DEF BatchUpdateMonitorsLastChecked
  <2> QED
    BY <2>2, <2>3, <2>4, EndUpdateTypes DEF TypeOK, Batch
<1>5. ASSUME NEW s \in Slots, FailUpdate(s) PROVE TypeOK'
  <2>1. EndUpdate(s) /\ faults' \in Nat /\ stalled' \subseteq Monitors
    BY <1>0, <1>5 DEF FailUpdate, Fault, TypeOK
  <2>2. UNCHANGED <<live, gone, interval, regions, wait, queue, unsent, request, picked,
                    again, edits>>
    BY <1>5 DEF FailUpdate
  <2> QED
    BY <2>1, <2>2, EndUpdateTypes DEF TypeOK, Batch
<1>6. ASSUME NEW s \in Slots, NEW m \in Monitors, NEW r \in Regions,
             ScheduleMonitor(s, m, r)
      PROVE  TypeOK'
  <2>1. /\ unsent' = [unsent EXCEPT ![s] = @ \ {<<m, r>>}]
        /\ queue' \subseteq Monitors \X Regions /\ faults' \in Nat
    BY <1>6 DEF ScheduleMonitor, Fault, TypeOK
  <2>2. UNCHANGED <<live, gone, interval, regions, wait, updating, rows, age, request,
                    picked, stalled, again, edits>>
    BY <1>6 DEF ScheduleMonitor
  <2> QED
    BY <1>0, <2>1, <2>2 DEF TypeOK
<1>7. CASE Crash
  <2>1. /\ updating' = [s \in Slots |-> "idle"] /\ rows' = [s \in Slots |-> NoRows]
        /\ age' = [s \in Slots |-> 0] /\ unsent' = [s \in Slots |-> {}]
        /\ faults' \in Nat /\ stalled' \subseteq Monitors
        /\ UNCHANGED <<live, gone, interval, regions, wait, queue, request, picked, again,
                       edits>>
    BY <1>0, <1>7 DEF Crash, Fault, TypeOK
  <2> QED
    BY <1>0, <2>1, NoRowsIsBatch DEF TypeOK, Batch
<1>8. ASSUME NEW m \in Monitors, NEW r \in Regions, TakeTask(m, r) PROVE TypeOK'
  BY <1>8 DEF TakeTask, goroutines, history, TypeOK
<1>9. ASSUME NEW m \in Monitors, NEW i \in Intervals, NEW R \in RegionSets,
             CreateMonitor(m, i, R)
      PROVE  TypeOK'
  BY <1>0, <1>9, SchedulerAssumption
     DEF CreateMonitor, RegionSets, goroutines, history, TypeOK
<1>10. ASSUME NEW m \in Monitors, NEW i \in Intervals, NEW R \in RegionSets,
              LoadMonitor(m, i, R)
       PROVE  TypeOK'
  BY <1>10 DEF LoadMonitor, RegionSets, goroutines, TypeOK
<1>11. CASE UpdateMonitor
  <2>1. /\ request \in [monitor : Monitors, interval : Intervals,
                        regions : SUBSET Regions, age : Nat]
        /\ Remaining(request.interval, request.age) \in Nat
    BY <1>11, RemainingIsNat, SchedulerAssumption DEF UpdateMonitor, TypeOK
  <2>2. /\ interval' = [interval EXCEPT ![request.monitor] = request.interval]
        /\ regions' = [regions EXCEPT ![request.monitor] = request.regions]
        /\ wait' = [wait EXCEPT ![request.monitor]
                      = Remaining(request.interval, request.age)]
        /\ picked' \subseteq picked /\ stalled' \subseteq stalled /\ request' = NoRequest
        /\ UNCHANGED <<live, gone, queue, updating, rows, age, unsent, again, edits, faults>>
    BY <1>11 DEF UpdateMonitor, goroutines
  <2>3. /\ interval' \in [Monitors -> Intervals]
        /\ regions' \in [Monitors -> SUBSET Regions]
        /\ wait' \in [Monitors -> Nat]
    BY <1>0, <2>1, <2>2
  <2> QED
    BY <2>2, <2>3 DEF TypeOK
<1>12. CASE AbandonRequest
  BY <1>12 DEF AbandonRequest, goroutines, history, TypeOK
<1>13. ASSUME NEW m \in Monitors, DeleteMonitor(m) PROVE TypeOK'
  BY <1>0, <1>13 DEF DeleteMonitor, goroutines, history, TypeOK
<1>14. CASE UNCHANGED vars
  BY <1>14 DEF vars, goroutines, history, TypeOK
<1> QED
  BY <1>1, <1>2, <1>3, <1>4, <1>5, <1>6, <1>7, <1>8, <1>9, <1>10, <1>11, <1>12, <1>13, <1>14
     DEF Next

\* Every variable keeps its type, no deleted monitor comes back, and a slot that
\* is free holds no rows, whatever fails and however many batches there are.
THEOREM SchedulerTypes == Spec => []TypeOK
<1>1. Init => TypeOK
  <2> SUFFICES ASSUME Init PROVE TypeOK
    OBVIOUS
  <2>1. (CHOOSE i \in Intervals : TRUE) \in Intervals
    BY SchedulerAssumption
  <2>2. rows \in [Slots -> Batch]
    BY NoRowsIsBatch DEF Init
  <2> QED
    BY <2>1, <2>2 DEF Init, TypeOK, Batch
<1> QED
  BY <1>1, TypeInductive, PTL DEF Spec

(***************************************************************************)
(* A check that was read as due and whose next_check has not been written  *)
(* since is held by a goroutine that has yet to write it, or its last      *)
(* goroutine failed or died.                                               *)
(***************************************************************************)

\* The inductive invariant.
Covered ==
  /\ again = {}
  /\ picked \subseteq Held \cup stalled
  /\ rows = [s \in Slots |-> rows[s]] /\ updating = [s \in Slots |-> updating[s]]
  /\ \A s \in Slots : updating[s] = "idle" => DOMAIN rows[s] = {}

\* Initially nothing is picked.
LEMMA CoveredInitially == Init => Covered
BY DEF Init, Covered, NoRows

\* A loop picks again only what is held or stalled, and leaves each monitor it
\* picks with a goroutine that will write its next_check.
LEMMA LoopCovers ==
  ASSUME Covered, Loop
  PROVE  Covered'
<1> DEFINE due == ListMonitorsDueForCheck
<1>1. /\ again' = again \cup ((due \cap picked) \ (Held \cup stalled))
      /\ picked' = picked \cup due /\ stalled' = stalled \ due
  BY DEF Loop, Pick
<1>2. again' = {}
  BY <1>1 DEF Covered
<1>3. PICK b \in [due -> FreeSlots] :
        /\ updating' = [s \in Slots |-> IF {m \in due : b[m] = s} = {} THEN updating[s]
                                        ELSE "read"]
        /\ rows' = [s \in Slots |-> IF {m \in due : b[m] = s} = {} THEN rows[s]
                                    ELSE [m \in {n \in due : b[n] = s} |-> interval[m]]]
  BY Zenon DEF Loop
<1>4. ASSUME NEW m \in due PROVE \E s \in Slots : m \in DOMAIN rows'[s]
  <2>1. b[m] \in Slots
    BY <1>3 DEF FreeSlots
  <2>2. m \in {n \in due : b[n] = b[m]}
    OBVIOUS
  <2>3. rows'[b[m]] = [n \in {k \in due : b[k] = b[m]} |-> interval[n]]
    BY <1>3, <2>1, <2>2
  <2> QED
    BY <2>1, <2>2, <2>3
<1>5. ASSUME NEW s \in Slots PROVE DOMAIN rows[s] \subseteq DOMAIN rows'[s]
  <2>1. CASE {m \in due : b[m] = s} = {}
    BY <1>3, <2>1
  <2>2. CASE {m \in due : b[m] = s} # {}
    <3>1. s \in FreeSlots
      BY <1>3, <2>2
    <3> QED
      BY <3>1 DEF FreeSlots, Covered
  <2> QED
    BY <2>1, <2>2
<1>6. picked' \subseteq Held' \cup stalled'
  BY <1>1, <1>4, <1>5 DEF Covered, Held
<1>7. \A s \in Slots : updating'[s] = "idle" => DOMAIN rows'[s] = {}
  BY <1>3 DEF Covered
<1>8. rows' = [s \in Slots |-> rows'[s]] /\ updating' = [s \in Slots |-> updating'[s]]
  BY <1>3
<1> QED
  BY <1>2, <1>6, <1>7, <1>8 DEF Covered

\* A goroutine that ends gives up its own batch and no other.
LEMMA EndUpdateHeld ==
  ASSUME Covered, NEW s \in Slots, EndUpdate(s)
  PROVE  /\ Held \subseteq Held' \cup DOMAIN rows[s]
         /\ rows' = [t \in Slots |-> rows'[t]] /\ updating' = [t \in Slots |-> updating'[t]]
         /\ \A t \in Slots : updating'[t] = "idle" => DOMAIN rows'[t] = {}
<1>1. /\ updating' = [updating EXCEPT ![s] = "idle"]
      /\ rows' = [rows EXCEPT ![s] = NoRows]
  BY DEF EndUpdate
<1>2. \A t \in Slots \ {s} : rows'[t] = rows[t] /\ updating'[t] = updating[t]
  BY <1>1 DEF Covered
<1>3. rows'[s] = NoRows /\ DOMAIN NoRows = {}
  BY <1>1 DEF Covered, NoRows
<1> QED
  BY <1>1, <1>2, <1>3 DEF Covered, Held

\* Every step keeps picked monitors covered.
LEMMA CoveredInductive == Covered /\ [Next]_vars => Covered'
<1> SUFFICES ASSUME Covered, [Next]_vars PROVE Covered'
  OBVIOUS
<1>1. CASE Loop
  BY <1>1, LoopCovers
<1>2. ASSUME NEW s \in Slots, ReadClock(s) PROVE Covered'
  <2>1. /\ updating' = [updating EXCEPT ![s] = "write"]
        /\ UNCHANGED <<rows, picked, stalled, again>>
    BY <1>2 DEF ReadClock, history
  <2> QED
    BY <2>1 DEF Covered, Held
<1>3. ASSUME NEW s \in Slots, BatchUpdateMonitorsLastChecked(s) PROVE Covered'
  <2>1. /\ EndUpdate(s) /\ picked' = picked \ DOMAIN rows[s]
        /\ stalled' = stalled \ DOMAIN rows[s] /\ again' = again
    BY <1>3 DEF BatchUpdateMonitorsLastChecked
  <2> QED
    BY <2>1, EndUpdateHeld DEF Covered
<1>4. CASE UpdateMonitor
  <2>1. /\ UNCHANGED <<rows, updating, again>>
        /\ picked' = picked \ {request.monitor} /\ stalled' = stalled \ {request.monitor}
    BY <1>4 DEF UpdateMonitor, goroutines
  <2> QED
    BY <2>1 DEF Covered, Held
<1>5. ASSUME \/ Tick \/ AbandonRequest \/ UNCHANGED vars
             \/ \E s \in Slots, m \in Monitors, r \in Regions : ScheduleMonitor(s, m, r)
             \/ \E m \in Monitors, r \in Regions : TakeTask(m, r)
             \/ \E m \in Monitors, i \in Intervals, R \in RegionSets :
                  CreateMonitor(m, i, R) \/ LoadMonitor(m, i, R)
             \/ \E m \in Monitors : DeleteMonitor(m)
      PROVE Covered'
  <2>1. UNCHANGED <<rows, updating, picked, stalled, again>>
    BY <1>5 DEF Tick, AbandonRequest, vars, ScheduleMonitor, TakeTask, CreateMonitor,
                LoadMonitor, DeleteMonitor, goroutines, history
  <2> QED
    BY <2>1 DEF Covered, Held
<1>6. ASSUME NEW s \in Slots, FailUpdate(s) PROVE Covered'
  <2>1. /\ EndUpdate(s) /\ stalled' = stalled \cup (picked \cap DOMAIN rows[s])
        /\ UNCHANGED <<picked, again>>
    BY <1>6 DEF FailUpdate
  <2> QED
    BY <2>1, EndUpdateHeld DEF Covered
<1>7. CASE Crash
  <2>1. /\ rows' = [s \in Slots |-> NoRows] /\ updating' = [s \in Slots |-> "idle"]
        /\ stalled' = stalled \cup (picked \cap Held) /\ UNCHANGED <<picked, again>>
    BY <1>7 DEF Crash
  <2>2. DOMAIN NoRows = {}
    BY DEF NoRows
  <2> QED
    BY <2>1, <2>2 DEF Covered
<1> QED
  BY <1>1, <1>2, <1>3, <1>4, <1>5, <1>6, <1>7 DEF Next

\* No check is scheduled again before its next_check was moved on, unless a
\* goroutine that is to move it still runs or the last one failed or died, whatever
\* is created, updated or deleted meanwhile.
THEOREM ChecksScheduledOnce == Spec => []PickedOnce
<1>1. Init => Covered
  BY CoveredInitially
<1>2. Covered /\ [Next]_vars => Covered'
  BY CoveredInductive
<1>3. Covered => PickedOnce
  BY DEF Covered, PickedOnce
<1> QED
  BY <1>1, <1>2, <1>3, PTL DEF Spec
===============================================================================
