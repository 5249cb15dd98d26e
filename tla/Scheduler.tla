------------------------------- MODULE Scheduler -------------------------------
(***************************************************************************)
(* The scheduler: a loop reads the monitors that are due and, per batch of *)
(* them, starts a goroutine that enqueues a ping task per region and       *)
(* another that moves next_check on.  It waits for neither.  The API       *)
(* creates, changes and deletes monitors meanwhile.                        *)
(*                                                                         *)
(* Time is counted in seconds and kept relative: what is left until        *)
(* next_check, 0 when it has passed.  The order in which monitors that are *)
(* due are cut into batches is left open.  A loop whose read fails is one  *)
(* that does not happen.                                                   *)
(***************************************************************************)
EXTENDS Naturals, FiniteSets, Functions

CONSTANTS
  Monitors,       \* every monitor there can be
  Regions,
  Intervals,      \* the check intervals considered, in seconds
  Slots,          \* bound on batches whose goroutines run at the same time
  BatchSize,      \* batchSize of loop
  Faults,         \* the faults considered, of FaultKinds
  MaxFaults,      \* bound on faults
  MaxEdits,       \* bound on the updates made through the API
  None            \* no value

FaultKinds == {"update",   \* the transaction that moves next_check on fails
               "enqueue",  \* a task cannot be enqueued
               "crash"}    \* the scheduler dies and is started again

ASSUME SchedulerAssumption ==
  /\ Intervals \subseteq Nat \ {0} /\ Intervals # {} /\ IsFiniteSet(Intervals)
  /\ BatchSize \in Nat \ {0}
  /\ Faults \subseteq FaultKinds
  /\ MaxFaults \in Nat /\ MaxEdits \in Nat
  /\ None \notin Monitors

VARIABLES
  live,        \* monitors with a row in the database
  gone,        \* monitors deleted (ids are never used again)
  interval,    \* monitors.interval
  regions,     \* monitor_regions
  wait,        \* seconds until monitors.next_check, 0 when it is due
  queue,       \* pairs of monitor and region with a ping task in a queue
  updating,    \* per slot, where batchUpdateLastChecked is
  rows,        \* per slot, the interval of each monitor of the batch, as read
  age,         \* per slot, seconds since batchUpdateLastChecked read the clock
  unsent,      \* per slot, the pairs scheduleMonitors has yet to enqueue
  request,     \* an UpdateMonitor between its read of the clock and its commit
  picked,      \* history: monitors read as due since their next_check was written
  stalled,     \* history: of these, those whose goroutine failed or died
  again,       \* history: monitors read as due again for no such reason
  edits,       \* updates made through the API so far
  faults       \* faults so far

goroutines == <<updating, rows, age, unsent>>
history == <<picked, stalled, again, edits, faults>>
vars == <<live, gone, interval, regions, wait, queue, goroutines, request, history>>

Longest == CHOOSE n \in Intervals : \A i \in Intervals : i <= n
NoRows == [m \in {} |-> 0]
NoRequest == [monitor |-> None]

\* What is left, a seconds later, of a wait of i seconds.
Remaining(i, a) == IF a < i THEN i - a ELSE 0
Older(a) == IF a < Longest THEN a + 1 ELSE a

Init ==
  /\ live = {} /\ gone = {}
  /\ interval = [m \in Monitors |-> CHOOSE i \in Intervals : TRUE]
  /\ regions = [m \in Monitors |-> {}]
  /\ wait = [m \in Monitors |-> 0]
  /\ queue = {}
  /\ updating = [s \in Slots |-> "idle"]
  /\ rows = [s \in Slots |-> NoRows]
  /\ age = [s \in Slots |-> 0]
  /\ unsent = [s \in Slots |-> {}]
  /\ request = NoRequest
  /\ picked = {} /\ stalled = {} /\ again = {}
  /\ edits = 0 /\ faults = 0

Fault(kind) ==
  /\ kind \in Faults
  /\ faults < MaxFaults
  /\ faults' = faults + 1

\* A second passes.
Tick ==
  /\ wait' = [m \in Monitors |-> Remaining(wait[m], 1)]
  /\ age' = [s \in Slots |-> IF updating[s] = "write" THEN Older(age[s]) ELSE age[s]]
  /\ request' = IF request = NoRequest THEN request
                ELSE [request EXCEPT !.age = Older(@)]
  /\ UNCHANGED <<live, gone, interval, regions, queue, updating, rows, unsent, history>>

-----------------------------------------------------------------------------
(* The loop and its goroutines *)

ListMonitorsDueForCheck == {m \in live : wait[m] = 0}
FreeSlots == {s \in Slots : updating[s] = "idle" /\ unsent[s] = {}}

\* b cuts the monitors M in as few batches as their size allows.
Batches(M, b) ==
  /\ \A s \in Slots : Cardinality({m \in M : b[m] = s}) <= BatchSize
  /\ (Cardinality(Range(b)) - 1) * BatchSize < Cardinality(M)

\* The monitors a goroutine is to move on.
Held == UNION {DOMAIN rows[s] : s \in Slots}

\* What the histories keep of a loop.
Pick(due) ==
  /\ picked' = picked \cup due
  /\ stalled' = stalled \ due
  /\ again' = again \cup ((due \cap picked) \ (Held \cup stalled))

\* Mutant: the tasks of the first batch only are made.
LoopOneBatch ==
  LET due == ListMonitorsDueForCheck IN
  /\ due # {}
  /\ \E b \in [due -> FreeSlots] :
       LET batch(s) == {m \in due : b[m] = s}
           first == CHOOSE s \in Range(b) : TRUE IN
       /\ Batches(due, b)
       /\ updating' = [s \in Slots |-> IF batch(s) = {} THEN updating[s] ELSE "read"]
       /\ rows' = [s \in Slots |-> IF batch(s) = {} THEN rows[s]
                                   ELSE [m \in batch(s) |-> interval[m]]]
       /\ unsent' = [unsent EXCEPT ![first] = UNION {{m} \X regions[m] : m \in batch(first)}]
  /\ Pick(due)
  /\ UNCHANGED <<live, gone, interval, regions, wait, queue, age, request, edits, faults>>

\* Mutant: next_check of the first batch only is moved on.
LoopOneUpdate ==
  LET due == ListMonitorsDueForCheck IN
  /\ due # {}
  /\ \E b \in [due -> FreeSlots] :
       LET batch(s) == {m \in due : b[m] = s}
           first == CHOOSE s \in Range(b) : TRUE IN
       /\ Batches(due, b)
       /\ updating' = [updating EXCEPT ![first] = "read"]
       /\ rows' = [rows EXCEPT ![first] = [m \in batch(first) |-> interval[m]]]
       /\ unsent' = [s \in Slots |-> IF batch(s) = {} THEN unsent[s]
                       ELSE UNION {{m} \X regions[m] : m \in batch(s)}]
  /\ Pick(due)
  /\ UNCHANGED <<live, gone, interval, regions, wait, queue, age, request, edits, faults>>

\* One tick of the scheduler: read, commit, and start two goroutines per batch.
Loop ==
  LET due == ListMonitorsDueForCheck IN
  /\ due # {}
  /\ \E b \in [due -> FreeSlots] :
       LET batch(s) == {m \in due : b[m] = s} IN
       /\ Batches(due, b)
       /\ updating' = [s \in Slots |-> IF batch(s) = {} THEN updating[s] ELSE "read"]
       /\ rows' = [s \in Slots |-> IF batch(s) = {} THEN rows[s]
                                   ELSE [m \in batch(s) |-> interval[m]]]
       /\ unsent' = [s \in Slots |-> IF batch(s) = {} THEN unsent[s]
                       ELSE UNION {{m} \X regions[m] : m \in batch(s)}]
  /\ Pick(due)
  /\ UNCHANGED <<live, gone, interval, regions, wait, queue, age, request, edits, faults>>

\* batchUpdateLastChecked, in its transaction: now := time.Now().
ReadClock(s) ==
  /\ updating[s] = "read"
  /\ updating' = [updating EXCEPT ![s] = "write"]
  /\ age' = [age EXCEPT ![s] = 0]
  /\ UNCHANGED <<live, gone, interval, regions, wait, queue, rows, unsent, request, history>>

\* Back to a free slot.
EndUpdate(s) ==
  /\ updating' = [updating EXCEPT ![s] = "idle"]
  /\ rows' = [rows EXCEPT ![s] = NoRows]
  /\ age' = [age EXCEPT ![s] = 0]

\* next_check = now + interval, from the interval the loop read.
BatchUpdateMonitorsLastChecked(s) ==
  /\ updating[s] = "write"
  /\ wait' = [m \in Monitors |-> IF m \in live \cap DOMAIN rows[s]
                                 THEN Remaining(rows[s][m], age[s]) ELSE wait[m]]
  /\ picked' = picked \ DOMAIN rows[s]
  /\ stalled' = stalled \ DOMAIN rows[s]
  /\ EndUpdate(s)
  /\ UNCHANGED <<live, gone, interval, regions, queue, unsent, request, again, edits, faults>>

FailUpdate(s) ==
  /\ updating[s] # "idle"
  /\ Fault("update")
  /\ EndUpdate(s)
  /\ stalled' = stalled \cup (picked \cap DOMAIN rows[s])
  /\ UNCHANGED <<live, gone, interval, regions, wait, queue, unsent, request, picked, again, edits>>

\* A task that cannot be enqueued is logged and left.
ScheduleMonitor(s, m, r) ==
  /\ <<m, r>> \in unsent[s]
  /\ unsent' = [unsent EXCEPT ![s] = @ \ {<<m, r>>}]
  /\ \/ queue' = queue \cup {<<m, r>>} /\ UNCHANGED faults
     \/ Fault("enqueue") /\ UNCHANGED queue
  /\ UNCHANGED <<live, gone, interval, regions, wait, updating, rows, age, request,
                 picked, stalled, again, edits>>

Crash ==
  /\ Fault("crash")
  /\ stalled' = stalled \cup (picked \cap Held)
  /\ updating' = [s \in Slots |-> "idle"]
  /\ rows' = [s \in Slots |-> NoRows]
  /\ age' = [s \in Slots |-> 0]
  /\ unsent' = [s \in Slots |-> {}]
  /\ UNCHANGED <<live, gone, interval, regions, wait, queue, request, picked, again, edits>>

\* The worker of region r takes the tasks of m there are.
TakeTask(m, r) ==
  /\ <<m, r>> \in queue
  /\ queue' = queue \ {<<m, r>>}
  /\ UNCHANGED <<live, gone, interval, regions, wait, goroutines, request, history>>

-----------------------------------------------------------------------------
(* The API *)

RegionSets == SUBSET Regions \ {{}}

\* Mutant: the id of a deleted monitor is given out again.
CreateMonitorAgain(m, i, R) ==
  /\ m \notin live
  /\ live' = live \cup {m}
  /\ interval' = [interval EXCEPT ![m] = i]
  /\ regions' = [regions EXCEPT ![m] = R]
  /\ wait' = [wait EXCEPT ![m] = i]
  /\ UNCHANGED <<gone, queue, goroutines, request, history>>

CreateMonitor(m, i, R) ==
  /\ m \notin live \cup gone
  /\ live' = live \cup {m}
  /\ interval' = [interval EXCEPT ![m] = i]
  /\ regions' = [regions EXCEPT ![m] = R]
  /\ wait' = [wait EXCEPT ![m] = i]
  /\ UNCHANGED <<gone, queue, goroutines, request, history>>

\* UpdateMonitor reads the monitor and the clock ...
LoadMonitor(m, i, R) ==
  /\ request = NoRequest
  /\ m \in live
  /\ edits < MaxEdits
  /\ edits' = edits + 1
  /\ request' = [monitor |-> m, interval |-> i, regions |-> R, age |-> 0]
  /\ UNCHANGED <<live, gone, interval, regions, wait, queue, goroutines, picked, stalled, again,
                 faults>>

\* ... and commits, unless the row is gone.
UpdateMonitor ==
  /\ request # NoRequest
  /\ request.monitor \in live
  /\ LET m == request.monitor IN
       /\ interval' = [interval EXCEPT ![m] = request.interval]
       /\ regions' = [regions EXCEPT ![m] = request.regions]
       /\ wait' = [wait EXCEPT ![m] = Remaining(request.interval, request.age)]
       /\ picked' = picked \ {m}
       /\ stalled' = stalled \ {m}
  /\ request' = NoRequest
  /\ UNCHANGED <<live, gone, queue, goroutines, again, edits, faults>>

\* A refused or failed request leaves no trace.
AbandonRequest ==
  /\ request # NoRequest
  /\ request' = NoRequest
  /\ UNCHANGED <<live, gone, interval, regions, wait, queue, goroutines, history>>

DeleteMonitor(m) ==
  /\ m \in live
  /\ live' = live \ {m}
  /\ gone' = gone \cup {m}
  /\ regions' = [regions EXCEPT ![m] = {}]
  /\ UNCHANGED <<interval, wait, queue, goroutines, request, history>>

Next ==
  \/ Tick \/ Loop \/ Crash
  \/ \E s \in Slots :
       \/ ReadClock(s) \/ BatchUpdateMonitorsLastChecked(s) \/ FailUpdate(s)
       \/ \E m \in Monitors, r \in Regions : ScheduleMonitor(s, m, r)
  \/ \E m \in Monitors, r \in Regions : TakeTask(m, r)
  \/ \E m \in Monitors, i \in Intervals, R \in RegionSets :
       CreateMonitor(m, i, R) \/ LoadMonitor(m, i, R)
  \/ UpdateMonitor \/ AbandonRequest
  \/ \E m \in Monitors : DeleteMonitor(m)

Spec == Init /\ [][Next]_vars

\* Time passes, the ticker ticks, goroutines are scheduled, requests end and
\* every region has a worker.
Fairness ==
  /\ WF_vars(Tick) /\ WF_vars(Loop)
  /\ WF_vars(UpdateMonitor \/ AbandonRequest)
  /\ \A s \in Slots :
       /\ WF_vars(ReadClock(s)) /\ WF_vars(BatchUpdateMonitorsLastChecked(s))
       /\ \A m \in Monitors, r \in Regions : WF_vars(ScheduleMonitor(s, m, r))
  /\ \A m \in Monitors, r \in Regions : WF_vars(TakeTask(m, r))

FairSpec == Spec /\ Fairness

-----------------------------------------------------------------------------
(* Properties *)

\* Every variable has its type, and a goroutine holds rows only while it runs.
TypeOK ==
  /\ live \subseteq Monitors /\ gone \subseteq Monitors /\ live \cap gone = {}
  /\ interval \in [Monitors -> Intervals]
  /\ regions \in [Monitors -> SUBSET Regions]
  /\ wait \in [Monitors -> Nat]
  /\ queue \subseteq Monitors \X Regions
  /\ updating \in [Slots -> {"idle", "read", "write"}]
  /\ rows \in [Slots -> UNION {[M -> Intervals] : M \in SUBSET Monitors}]
  /\ \A s \in Slots : updating[s] = "idle" => rows[s] = NoRows
  /\ age \in [Slots -> Nat]
  /\ unsent \in [Slots -> SUBSET (Monitors \X Regions)]
  /\ request = NoRequest \/ request \in [monitor : Monitors, interval : Intervals,
                                         regions : SUBSET Regions, age : Nat]
  /\ picked \subseteq Monitors /\ stalled \subseteq Monitors /\ again \subseteq Monitors
  /\ edits \in Nat /\ faults \in Nat

\* A check is scheduled again before next_check was moved on only while a goroutine
\* that is to move it still runs, or after the last one failed or died, whatever
\* the API changes in between.
PickedOnce == again = {}

\* Every region of every monitor is asked for a ping again and again, whatever
\* failed or was changed before.
AlwaysChecked ==
  \A m \in Monitors, r \in Regions :
    []<>(m \notin live \/ r \notin regions[m] \/ <<m, r>> \in queue)
===============================================================================
