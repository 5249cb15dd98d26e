------------------------------- MODULE Incidents -------------------------------
(***************************************************************************)
(* The incident lifecycle of a set of monitors: regional workers ping a    *)
(* monitor, record the result and, in one database transaction per ping,   *)
(* decide whether an incident opens, is annotated or resolves; team        *)
(* members change incidents and monitors through the API meanwhile.        *)
(*                                                                         *)
(* The database runs READ COMMITTED: every statement of a transaction sees *)
(* what is committed when the statement starts, and an uncommitted UPDATE  *)
(* of a row makes the next UPDATE or DELETE of that row wait.  A           *)
(* transaction is therefore one action per read whose result is used       *)
(* later, and one action for the commit, which installs its writes.        *)
(***************************************************************************)
EXTENDS IncidentThresholds

CONSTANTS
  Monitors,            \* the monitors, all of them created before the start
  Regions,             \* the regions, one worker process each
  Tasks,               \* slots for ping tasks in flight (bounds the queue)
  Requests,            \* slots for API requests that read first, write later
  IncidentIds,         \* ids incidents can get (bounds their number)
  StartTimes,          \* values of started_at, only their order matters
  FailureThreshold,    \* monitor.FailureThreshold, for every monitor
  RecoveryThreshold,   \* monitor.RecoveryThreshold, for every monitor
  FailureKinds,        \* the unsuccessful ping statuses considered
  HealthStates,        \* how a monitored service can behave
  MaxChanges,          \* bound on the changes of health
  MaxBuffered,         \* bound on unwritten pings per monitor and region
  MaxEdits,            \* bound on the writes made through the API
  MaxFaults,           \* bound on crashes, database errors and deadlines
  None,                \* no value
  User                 \* the author of messages written through the API

ASSUME ConstantsAssumption ==
  /\ IsFiniteSet(Tasks)
  /\ IncidentIds \subseteq Nat
  /\ StartTimes \subseteq Nat /\ StartTimes # {}
  /\ FailureThreshold \in [Monitors -> Nat \ {0}]
  /\ RecoveryThreshold \in [Monitors -> Nat \ {0}]
  /\ Tasks \cap Requests = {}
  /\ FailureKinds \subseteq {"failed", "timeout"}
  /\ HealthStates \subseteq {"up", "flaky", "down"}
  /\ MaxChanges \in Nat /\ MaxBuffered \in Nat /\ MaxEdits \in Nat /\ MaxFaults \in Nat
  /\ None \notin Monitors /\ None \notin Regions
  /\ None \notin Tasks /\ None \notin IncidentIds
  /\ None \notin {"up", "down", "successful", "failed", "timeout", "resolved",
                  "detected", "investigating", "identified", "monitoring"}
  /\ User \notin Regions

VARIABLES
  health,      \* how the monitored service behaves, one of HealthStates
  live,        \* monitors with a row in the database
  status,      \* monitors.status
  lock,        \* the task whose uncommitted UPDATE locks a monitors row
  recent,      \* stored pings of a monitor and region, newest first, cut at Horizon
  buffer,      \* pings recorded and not yet stored, oldest first
  incident,    \* rows of incidents and their links to monitors
  timeline,    \* of event_timelines, per incident and by created_at: the last event
               \* of a status and the message of the last event; how many events
               \* workers resolved it with; whether the order of the status events
               \* is in dispute (history: see StoreEvent)
  late,        \* of a writer: the kinds of events its incident got since it may
               \* have taken the created_at of its own
  task,        \* ping tasks, from the queue to the end of the handler
  request,     \* API requests between their reads and their writes
  notices,     \* notification tasks enqueued, per incident
  failures,    \* history: failed pings so far, counted up to the failure threshold
  edits,       \* API writes so far
  faults,      \* crashes, database errors and deadlines so far
  changes      \* changes of health so far

database == <<live, status, lock, recent, incident, timeline, late>>
vars == <<health, live, status, lock, recent, buffer, incident, timeline, late,
          task, request, notices, failures, edits, faults, changes>>

Pairs == Monitors \X Regions
MonitorStatus == {"up", "down"}
IncidentStatus == {"detected", "investigating", "identified", "monitoring", "resolved"}
PingStatus == {"successful"} \cup FailureKinds
Messages == (Regions \cup {User}) \X (PingStatus \cup {"recovered", "text"})
UserMessage == <<User, "text">>
Writers == Tasks \cup Requests
EventKinds == {"status", "note"}    \* an event of a status, and any other
Plans == {"none", "create", "update", "resolve"}
InTransaction == {"loaded", "ready", "decided"}

\* models.EventTimeline.EventType of the event a status change writes.
EventTypeFromStatus(s) == IF s = "resolved" THEN "manually_resolved" ELSE s
StatusEvents == {EventTypeFromStatus(s) : s \in IncidentStatus} \cup {"auto_resolved"}

IdleTask == [pc |-> "idle", monitor |-> None, region |-> None, seen |-> None,
             ping |-> None, open |-> None, auto |-> FALSE, plan |-> "none"]
IdleRequest == [pc |-> "idle", monitors |-> {}, id |-> None, read |-> None, incident |-> None]
NoIncident == [status |-> None, stamped |-> FALSE, auto |-> FALSE,
               links |-> {}, started |-> 0, automatic |-> FALSE]
NoTimeline == [last |-> None, message |-> UserMessage, autos |-> 0, disputed |-> FALSE]

-----------------------------------------------------------------------------
(* Queries *)

Exists(i) == incident[i].status # None
Open(i) == Exists(i) /\ incident[i].status # "resolved"
OpenIncidents(m) == {i \in IncidentIds : Open(i) /\ m \in incident[i].links}

\* ORDER BY started_at DESC, id DESC LIMIT 1 over the open incidents.
NotAfter(i, j) ==
  \/ incident[i].started < incident[j].started
  \/ incident[i].started = incident[j].started /\ i <= j
Latest(i, I) == i \in I /\ \A j \in I : NotAfter(j, i)

LatestIncident(m, i) ==             \* mutant: resolved incidents are not excluded
  LET linked == {j \in IncidentIds : Exists(j) /\ m \in incident[j].links}
  IN IF linked = {} THEN i = None ELSE Latest(i, linked)

\* The query answers i, or None.
GetOpenIncidentByMonitorID(m, i) ==
  IF OpenIncidents(m) = {} THEN i = None ELSE Latest(i, OpenIncidents(m))

\* Incidents reachable for a team: linked to a monitor that still exists.
TeamIncidents == {i \in IncidentIds : Exists(i) /\ incident[i].links # {}}

\* The id sonyflake hands out next.
FreshIds == {i \in IncidentIds : ~Exists(i)}
NextId(i) == i \in FreshIds /\ \A j \in FreshIds : i <= j

Pair(t) == <<task[t].monitor, task[t].region>>
Successful(t) == task[t].ping = "successful"
PingAsStatus(t) == task[t].ping     \* mutant: the two enums are mixed up
TargetStatus(t) == IF Successful(t) THEN "up" ELSE "down"

\* incidentMessage: the region, then the detail of the ping.
IncidentMessage(t) == <<task[t].region, IF Successful(t) THEN "recovered" ELSE task[t].ping>>

\* The current ping, then the stored ones of its monitor and region.
Samples(t, limit) == <<Successful(t)>> \o Newest(recent[Pair(t)], limit)

Keep(m) == Horizon(FailureThreshold[m], RecoveryThreshold[m])

-----------------------------------------------------------------------------
(* Initial state: monitors as CreateMonitor leaves them. *)

Init ==
  /\ health \in [Monitors -> HealthStates]
  /\ live = Monitors
  /\ status = [m \in Monitors |-> "up"]
  /\ lock = [m \in Monitors |-> None]
  /\ recent = [p \in Pairs |-> <<>>]
  /\ buffer = [p \in Pairs |-> <<>>]
  /\ incident = [i \in IncidentIds |-> NoIncident]
  /\ timeline = [i \in IncidentIds |-> NoTimeline]
  /\ late = [w \in Writers |-> {}]
  /\ task = [t \in Tasks |-> IdleTask]
  /\ request = [q \in Requests |-> IdleRequest]
  /\ notices = [i \in IncidentIds |-> [opened |-> 0, resolved |-> 0]]
  /\ failures = [p \in Pairs |-> 0]
  /\ edits = 0
  /\ faults = 0
  /\ changes = 0

-----------------------------------------------------------------------------
(* The environment *)

Outcomes(m) ==
  CASE health[m] = "up" -> {"successful"}
    [] health[m] = "down" -> FailureKinds
    [] OTHER -> PingStatus

ChangeHealth(m) ==
  /\ changes < MaxChanges
  /\ changes' = changes + 1
  /\ \E h \in HealthStates \ {health[m]} : health' = [health EXCEPT ![m] = h]
  /\ UNCHANGED <<database, buffer, task, request, notices, failures, edits, faults>>

-----------------------------------------------------------------------------
(* The scheduler and the queue: a task carries the row as it was read. *)

Enqueue(t, m, r) ==
  /\ task[t].pc = "idle"
  /\ m \in live
  /\ task' = [task EXCEPT ![t] = [IdleTask EXCEPT !.pc = "queued", !.monitor = m,
                                                  !.region = r, !.seen = status[m]]]
  /\ UNCHANGED <<health, database, buffer, request, notices, failures, edits, faults, changes>>

-----------------------------------------------------------------------------
(* The ping recorder, seen from here: it stores buffered pings one by one. *)
(* `newer` counts the stored pings more recent than a buffered one.        *)

Persist(p, k) ==
  LET ping == buffer[p][k]
      older(j) == IF j < k THEN [buffer[p][j] EXCEPT !.newer = Lesser(@ + 1, Keep(p[1]))]
                           ELSE buffer[p][j + 1]
  IN
  /\ p[1] \in live
  /\ recent' = [recent EXCEPT ![p] =
                  Newest(InsertByTime(@, Lesser(ping.newer, Len(@)), ping.ok), Keep(p[1]))]
  /\ buffer' = [buffer EXCEPT ![p] = [j \in 1..(Len(@) - 1) |-> older(j)]]
  /\ UNCHANGED <<health, live, status, lock, incident, timeline, late, task, request,
                 notices, failures, edits, faults, changes>>

-----------------------------------------------------------------------------
(* HandleStartServiceTask *)

\* PingRecorder.Record.  A ping of a deleted monitor can never be stored (its
\* foreign key): it is left out here, PingRecorder shows what it does there.
Record(p, ok) ==
  buffer' = IF p[1] \in live
            THEN [buffer EXCEPT ![p] = Append(@, [ok |-> ok, newer |-> 0])]
            ELSE buffer

\* Bookkeeping for the properties only.
Counted(c, m, ok) == IF ok THEN c ELSE Lesser(c + 1, FailureThreshold[m])
Count(p, ok) == failures' = [failures EXCEPT ![p] = Counted(@, p[1], ok)]

\* pingMonitor, then the result is recorded.
RunPing(t) ==
  /\ task[t].pc = "queued"
  /\ Len(buffer[Pair(t)]) < MaxBuffered
  /\ \E s \in Outcomes(task[t].monitor) :
       /\ task' = [task EXCEPT ![t].pc = "recorded", ![t].ping = s]
       /\ Record(Pair(t), s = "successful")
       /\ Count(Pair(t), s = "successful")
  /\ UNCHANGED <<health, database, request, notices, edits, faults, changes>>

\* The first statement of processIncident.
LoadOpenIncident(t) ==
  /\ task[t].pc = "recorded"
  /\ \E i \in IncidentIds \cup {None} :
       /\ GetOpenIncidentByMonitorID(task[t].monitor, i)
       /\ task' = [task EXCEPT ![t].pc = "loaded", ![t].open = i,
                               ![t].auto = i # None /\ incident[i].auto]
  /\ UNCHANGED <<health, database, buffer, request, notices, failures, edits, faults, changes>>

\* Mutant: a successful ping leaves the status alone when no incident is open.
WriteStatusOfIncident(t) ==
  LET m == task[t].monitor
      write == /\ TargetStatus(t) # task[t].seen /\ m \in live
               /\ TargetStatus(t) = "down" \/ task[t].open # None
  IN
  /\ task[t].pc = "loaded"
  /\ write => lock[m] = None
  /\ lock' = IF write THEN [lock EXCEPT ![m] = t] ELSE lock
  /\ task' = [task EXCEPT ![t].pc = "ready"]
  /\ UNCHANGED <<health, live, status, recent, buffer, incident, timeline, late, request,
                 notices, failures, edits, faults, changes>>

\* UpdateMonitorStatus, when the ping disagrees with the status in the payload.
\* It locks the row until the transaction ends; no row, no lock.
WriteStatus(t) ==
  LET m == task[t].monitor IN
  /\ task[t].pc = "loaded"
  /\ \/ /\ TargetStatus(t) = task[t].seen \/ m \notin live
        /\ UNCHANGED lock
     \/ /\ TargetStatus(t) # task[t].seen
        /\ m \in live
        /\ lock[m] = None
        /\ lock' = [lock EXCEPT ![m] = t]
  /\ task' = [task EXCEPT ![t].pc = "ready"]
  /\ UNCHANGED <<health, live, status, recent, buffer, incident, timeline, late, request,
                 notices, failures, edits, faults, changes>>

FailurePlan(t) ==
  LET threshold == FailureThreshold[task[t].monitor]
      open == task[t].open
  IN IF open = None
       THEN IF Detected(Samples(t, Window(threshold) - 1), threshold) THEN "create" ELSE "none"
       ELSE IF timeline[open].message # IncidentMessage(t) THEN "update" ELSE "none"

RecoveryPlan(t) ==
  LET threshold == RecoveryThreshold[task[t].monitor]
  IN IF /\ task[t].open # None
        /\ task[t].auto
        /\ Recovered(Samples(t, threshold - 1), threshold)
     THEN "resolve" ELSE "none"

\* The reads of handleIncidentFailure and handleIncidentRecovery, and what
\* they make the handler write.
Decide(t) ==
  /\ task[t].pc = "ready"
  /\ task' = [task EXCEPT ![t].pc = "decided",
                          ![t].plan = IF Successful(t) THEN RecoveryPlan(t) ELSE FailurePlan(t)]
  /\ UNCHANGED <<health, database, buffer, request, notices, failures, edits, faults, changes>>

\* The writes of createIncidentIfAbsent: the row, its link, two events.
CreateIncidentIfAbsent(t, i) ==
  /\ task[t].monitor \in live         \* foreign key of incident_monitors
  /\ NextId(i)
  /\ \E s \in StartTimes :
       incident' = [incident EXCEPT ![i] =
         [status |-> "detected", stamped |-> FALSE, auto |-> TRUE,
          links |-> {task[t].monitor}, started |-> s, automatic |-> TRUE]]
  /\ timeline' = [timeline EXCEPT ![i] =
       [last |-> "detected", message |-> IncidentMessage(t), autos |-> 0, disputed |-> FALSE]]
  /\ UNCHANGED late

\* Writers that may have taken the created_at of an event of incident i.
EventWriters(i) ==
  {t \in Tasks : /\ task[t].pc = "decided" /\ task[t].plan \in {"update", "resolve"}
                 /\ task[t].open = i}
  \cup {q \in Requests : request[q].pc = "incident" /\ request[q].incident = i}

\* How an incident's events end once writer w has stored its own: with that,
\* unless one committed before has a later created_at.  It is taken before the
\* wait for the incident's row, so a writer that is late may meet any of these.
Endings(w, i, own) ==
  {own} \cup {[own EXCEPT !.message = timeline[i].message] : k \in late[w]}
        \cup {[own EXCEPT !.message = timeline[i].message, !.last = timeline[i].last] :
                k \in late[w] \cap {"status"}}

\* CreateEventTimeline.  The other writers of the incident are late from then on.
StoreEvent(w, i, kind, own) ==
  /\ \E e \in Endings(w, i, own) : timeline' = [timeline EXCEPT ![i] = e]
  /\ late' = [v \in Writers |-> IF v = w THEN {}
                                ELSE IF v \in EventWriters(i) THEN late[v] \cup {kind}
                                ELSE late[v]]

\* MarkIncidentResolved updates by id alone; an auto_resolved event follows.
ResolveIncident(t, i) ==
  /\ i = task[t].open
  /\ incident' = [incident EXCEPT ![i].status = "resolved", ![i].stamped = TRUE]
  /\ StoreEvent(t, i, "status",
                [last |-> "auto_resolved", message |-> IncidentMessage(t),
                 autos |-> timeline[i].autos + 1, disputed |-> "status" \in late[t]])

AnnotateIncident(t) ==
  /\ StoreEvent(t, task[t].open, "note",
                [timeline[task[t].open] EXCEPT !.message = IncidentMessage(t)])
  /\ UNCHANGED incident

KeepLock(t) == UNCHANGED lock       \* mutant: the end of a transaction releases nothing
Unlock(t) == lock' = [m \in Monitors |-> IF lock[m] = t THEN None ELSE lock[m]]

CommitIncident(t) ==
  /\ task[t].pc = "decided"
  /\ \/ /\ task[t].plan = "none"
        /\ task' = [task EXCEPT ![t] = IdleTask]
        /\ UNCHANGED <<incident, timeline, late>>
     \/ /\ task[t].plan = "update"
        /\ AnnotateIncident(t)
        /\ task' = [task EXCEPT ![t] = IdleTask]
     \/ /\ task[t].plan = "create"
        /\ \E i \in IncidentIds :
             /\ CreateIncidentIfAbsent(t, i)
             /\ task' = [task EXCEPT ![t].pc = "committed", ![t].open = i]
     \/ /\ task[t].plan = "resolve"
        /\ \E i \in IncidentIds : ResolveIncident(t, i)
        /\ task' = [task EXCEPT ![t].pc = "committed"]
  /\ status' = [m \in Monitors |-> IF lock[m] = t THEN TargetStatus(t) ELSE status[m]]
  /\ Unlock(t)
  /\ UNCHANGED <<health, live, recent, buffer, request, notices, failures, edits, faults, changes>>

\* Mutant: an enqueue whose answer is an error is repeated, the task being queued.
NotifyAgain(t) ==
  LET i == task[t].open IN
  /\ task[t].pc = "committed"
  /\ notices' = IF task[t].plan = "create"
                THEN [notices EXCEPT ![i].opened = @ + 1]
                ELSE [notices EXCEPT ![i].resolved = @ + 1]
  /\ \/ /\ task' = [task EXCEPT ![t] = IdleTask]
        /\ UNCHANGED faults
     \/ /\ faults < MaxFaults
        /\ faults' = faults + 1
        /\ UNCHANGED task
  /\ UNCHANGED <<health, database, buffer, request, failures, edits, changes>>

\* enqueueNotificationTasks, after the commit: it reads the channels in a
\* transaction of its own and only logs what fails.
Notify(t) ==
  LET i == task[t].open IN
  /\ task[t].pc = "committed"
  /\ \/ /\ task[t].monitor \in live
        /\ notices' = IF task[t].plan = "create"
                      THEN [notices EXCEPT ![i].opened = @ + 1]
                      ELSE [notices EXCEPT ![i].resolved = @ + 1]
        /\ UNCHANGED faults
     \/ /\ task[t].monitor \notin live      \* its channels went with the row
        /\ UNCHANGED <<notices, faults>>
     \/ /\ faults < MaxFaults               \* the read or the enqueue failed
        /\ faults' = faults + 1
        /\ UNCHANGED notices
  /\ task' = [task EXCEPT ![t] = IdleTask]
  /\ UNCHANGED <<health, database, buffer, request, failures, edits, changes>>

\* Everything the transaction did is undone; the handler still returns nil.
RollBack(t) ==
  /\ task' = [task EXCEPT ![t] = IdleTask]
  /\ Unlock(t)
  /\ late' = [late EXCEPT ![t] = {}]
  /\ UNCHANGED <<health, live, status, recent, buffer, incident, timeline,
                 request, notices, failures, edits, changes>>

\* The link to a monitor deleted meanwhile violates its foreign key.  (The ids
\* of the model running out is id.GetID failing.)
FailCreate(t) ==
  /\ task[t].pc = "decided"
  /\ task[t].plan = "create"
  /\ task[t].monitor \notin live \/ FreshIds = {}
  /\ RollBack(t)
  /\ UNCHANGED faults

\* Any statement of the transaction, or its commit, fails.
AbortIncident(t) ==
  /\ task[t].pc \in {"recorded"} \cup InTransaction
  /\ faults < MaxFaults
  /\ faults' = faults + 1
  /\ RollBack(t)

Requeued(t) == [task[t] EXCEPT !.pc = "queued", !.ping = None, !.open = None,
                               !.auto = FALSE, !.plan = "none"]

\* The 120 s deadline passes inside the transaction: it is rolled back and
\* the queue delivers the same payload again.
MissDeadline(t) ==
  /\ task[t].pc \in {"recorded"} \cup InTransaction
  /\ faults < MaxFaults
  /\ faults' = faults + 1
  /\ task' = [task EXCEPT ![t] = Requeued(t)]
  /\ Unlock(t)
  /\ late' = [late EXCEPT ![t] = {}]
  /\ UNCHANGED <<health, live, status, recent, buffer, incident, timeline,
                 request, notices, failures, edits, changes>>

\* A worker process dies: its buffer is lost, its transactions are rolled
\* back and the queue delivers its tasks again.
CrashWorker(r) ==
  LET Running(t) == task[t].region = r /\ task[t].pc \notin {"idle", "queued"} IN
  /\ faults < MaxFaults
  /\ faults' = faults + 1
  /\ buffer' = [p \in Pairs |-> IF p[2] = r THEN <<>> ELSE buffer[p]]
  /\ task' = [t \in Tasks |-> IF Running(t) THEN Requeued(t) ELSE task[t]]
  /\ lock' = [m \in Monitors |->
                IF \E t \in Tasks : lock[m] = t /\ task[t].region = r THEN None ELSE lock[m]]
  /\ late' = [w \in Writers |-> IF w \in Tasks /\ Running(w) THEN {} ELSE late[w]]
  /\ UNCHANGED <<health, live, status, recent, incident, timeline, request,
                 notices, failures, edits, changes>>

-----------------------------------------------------------------------------
(* The API.  Requests that write what they read are two actions. *)

\* Whether a status written through the API comes with a resolved_at.
ResolvedAt(s) == s = "resolved"

Edit == edits < MaxEdits /\ edits' = edits + 1

\* CreateIncident: the check that none of the monitors has an open incident.
CheckNoOpenIncident(q) ==
  /\ request[q].pc = "idle"
  /\ edits < MaxEdits
  /\ \E M \in (SUBSET live) \ {{}} :
       /\ \A m \in M : GetOpenIncidentByMonitorID(m, None)
       /\ request' = [request EXCEPT ![q].pc = "create", ![q].monitors = M]
  /\ UNCHANGED <<health, database, buffer, task, notices, failures, edits, faults, changes>>

\* Mutant: the first event is always "detected".
CreateIncidentDetected(q) ==
  /\ request[q].pc = "create"
  /\ request[q].monitors \subseteq live
  /\ Edit
  /\ \E i \in IncidentIds, s \in IncidentStatus, a \in BOOLEAN, at \in StartTimes :
       /\ NextId(i)
       /\ incident' = [incident EXCEPT ![i] =
            [status |-> s, stamped |-> ResolvedAt(s), auto |-> a,
             links |-> request[q].monitors, started |-> at, automatic |-> FALSE]]
       /\ timeline' = [timeline EXCEPT ![i] =
            [last |-> "detected", message |-> UserMessage, autos |-> 0, disputed |-> FALSE]]
  /\ request' = [request EXCEPT ![q] = IdleRequest]
  /\ UNCHANGED <<health, live, status, lock, recent, buffer, late, task, notices, failures,
                 faults, changes>>

\* CreateIncident: the inserts and the commit.
CreateIncident(q) ==
  /\ request[q].pc = "create"
  /\ request[q].monitors \subseteq live
  /\ Edit
  /\ \E i \in IncidentIds, s \in IncidentStatus, a \in BOOLEAN, at \in StartTimes :
       /\ NextId(i)
       /\ incident' = [incident EXCEPT ![i] =
            [status |-> s, stamped |-> ResolvedAt(s), auto |-> a,
             links |-> request[q].monitors, started |-> at, automatic |-> FALSE]]
       /\ timeline' = [timeline EXCEPT ![i] =
            [last |-> EventTypeFromStatus(s), message |-> UserMessage, autos |-> 0,
             disputed |-> FALSE]]
  /\ request' = [request EXCEPT ![q] = IdleRequest]
  /\ UNCHANGED <<health, live, status, lock, recent, buffer, late, task, notices, failures,
                 faults, changes>>

\* UpdateIncidentStatus, CreateIncidentEvent and UpdateIncident: the incident is
\* loaded for the team; the time is taken right after.
LoadIncident(q, i) ==
  /\ request[q].pc = "idle"
  /\ edits < MaxEdits
  /\ i \in TeamIncidents
  /\ request' = [request EXCEPT ![q].pc = "incident", ![q].incident = i]
  /\ UNCHANGED <<health, database, buffer, task, notices, failures, edits, faults, changes>>

\* What ends such a request, on incident i: the row is there, or nothing is written.
EndOfRequest(q, i) ==
  /\ request[q].pc = "incident" /\ i = request[q].incident
  /\ Exists(i)
  /\ Edit
  /\ request' = [request EXCEPT ![q] = IdleRequest]
  /\ UNCHANGED <<health, live, status, lock, recent, buffer, task, notices,
                 failures, faults, changes>>

\* Mutant: reopening an incident keeps resolved_at.
UpdateStatusKeepsStamp(q, i, s) ==
  /\ EndOfRequest(q, i)
  /\ incident' = [incident EXCEPT ![i].status = s, ![i].stamped = @ \/ ResolvedAt(s)]
  /\ StoreEvent(q, i, "status",
                [last |-> EventTypeFromStatus(s), message |-> UserMessage,
                 autos |-> timeline[i].autos, disputed |-> "status" \in late[q]])

\* UpdateIncidentStatus accepts any status, from any status.
UpdateIncidentStatus(q, i, s) ==
  /\ EndOfRequest(q, i)
  /\ incident' = [incident EXCEPT ![i].status = s, ![i].stamped = ResolvedAt(s)]
  /\ StoreEvent(q, i, "status",
                [last |-> EventTypeFromStatus(s), message |-> UserMessage,
                 autos |-> timeline[i].autos, disputed |-> "status" \in late[q]])

\* An event of any type, those of a status included; the status stays.
CreateIncidentEvent(q, i) ==
  /\ EndOfRequest(q, i)
  /\ \/ StoreEvent(q, i, "note", [timeline[i] EXCEPT !.message = UserMessage])
     \/ \E e \in StatusEvents :
          StoreEvent(q, i, "status", [timeline[i] EXCEPT !.last = e, !.message = UserMessage,
                                                         !.disputed = TRUE])
  /\ UNCHANGED incident

\* UpdateIncident (PATCH).  It writes back the auto_resolve it read unless the
\* request gives a value: either way, some Boolean.
UpdateIncident(q, i) ==
  /\ EndOfRequest(q, i)
  /\ \E a \in BOOLEAN : incident' = [incident EXCEPT ![i].auto = a]
  /\ late' = [late EXCEPT ![q] = {}]
  /\ UNCHANGED timeline

\* UpdateMonitor: reads the row, then writes every column, status included.
LoadMonitor(q, m) ==
  /\ request[q].pc = "idle"
  /\ edits < MaxEdits
  /\ m \in live
  /\ request' = [request EXCEPT ![q].pc = "monitor", ![q].id = m, ![q].read = status[m]]
  /\ UNCHANGED <<health, database, buffer, task, notices, failures, edits, faults, changes>>

UpdateMonitor(q) ==
  LET m == request[q].id IN
  /\ request[q].pc = "monitor"
  /\ m \in live
  /\ lock[m] = None
  /\ Edit
  /\ status' = [status EXCEPT ![m] = request[q].read]
  /\ request' = [request EXCEPT ![q] = IdleRequest]
  /\ UNCHANGED <<health, live, lock, recent, buffer, incident, timeline, late, task, notices,
                 failures, faults, changes>>

\* Any of the above fails, or finds its monitor gone, and is rolled back.
AbandonRequest(q) ==
  /\ request[q].pc # "idle"
  /\ request' = [request EXCEPT ![q] = IdleRequest]
  /\ late' = [late EXCEPT ![q] = {}]
  /\ UNCHANGED <<health, live, status, lock, recent, buffer, incident, timeline, task,
                 notices, failures, edits, faults, changes>>

\* DeleteMonitor: pings and links go with the row, incidents stay.
DeleteMonitor(m) ==
  /\ m \in live
  /\ lock[m] = None
  /\ Edit
  /\ live' = live \ {m}
  /\ recent' = [p \in Pairs |-> IF p[1] = m THEN <<>> ELSE recent[p]]
  /\ buffer' = [p \in Pairs |-> IF p[1] = m THEN <<>> ELSE buffer[p]]
  /\ incident' = [i \in IncidentIds |-> [incident[i] EXCEPT !.links = @ \ {m}]]
  /\ UNCHANGED <<health, status, lock, timeline, late, task, request, notices,
                 failures, faults, changes>>

-----------------------------------------------------------------------------

Worker(t) ==
  \/ RunPing(t) \/ LoadOpenIncident(t) \/ WriteStatus(t) \/ Decide(t)
  \/ CommitIncident(t) \/ FailCreate(t) \/ Notify(t)

Api ==
  \/ \E q \in Requests :
       \/ CheckNoOpenIncident(q) \/ CreateIncident(q)
       \/ UpdateMonitor(q) \/ AbandonRequest(q)
       \/ \E m \in Monitors : LoadMonitor(q, m)
       \/ \E i \in IncidentIds :
            \/ LoadIncident(q, i) \/ CreateIncidentEvent(q, i) \/ UpdateIncident(q, i)
            \/ \E s \in IncidentStatus : UpdateIncidentStatus(q, i, s)
  \/ \E m \in Monitors : DeleteMonitor(m)

Next ==
  \/ \E m \in Monitors : ChangeHealth(m)
  \/ \E t \in Tasks, m \in Monitors, r \in Regions : Enqueue(t, m, r)
  \/ \E p \in Pairs : \E k \in 1..Len(buffer[p]) : Persist(p, k)
  \/ \E t \in Tasks : Worker(t) \/ AbortIncident(t) \/ MissDeadline(t)
  \/ \E r \in Regions : CrashWorker(r)
  \/ Api

Spec == Init /\ [][Next]_vars

(* Fairness.  asynq runs every task to its end and the database grants row  *)
(* locks in turn (Worker); the scheduler enqueues every monitor and region  *)
(* again and again, and its queue is not bounded as the slots are (Enqueue);*)
(* the recorder flushes on a ticker (Persist).  Nothing obliges a user, a   *)
(* fault or a service to act.                                               *)
Fairness ==
  /\ \A t \in Tasks : SF_vars(Worker(t))
  /\ \A m \in Monitors, r \in Regions : SF_vars(\E t \in Tasks : Enqueue(t, m, r))
  /\ \A p \in Pairs : WF_vars(\E k \in 1..Len(buffer[p]) : Persist(p, k))

FairSpec == Spec /\ Fairness

-----------------------------------------------------------------------------
(* Properties *)

TaskType ==
  {r \in [pc : {"idle", "queued", "recorded", "committed"} \cup InTransaction,
          monitor : Monitors \cup {None}, region : Regions \cup {None},
          seen : MonitorStatus \cup {None}, ping : PingStatus \cup {None},
          open : IncidentIds \cup {None}, auto : BOOLEAN, plan : Plans] :
     /\ r.pc # "idle" => r.monitor # None /\ r.region # None /\ r.seen # None
     /\ r.pc \notin {"idle", "queued"} => r.ping # None
     /\ r.pc \notin {"decided", "committed"} => r.plan = "none"
     /\ r.pc = "committed" => r.plan \in {"create", "resolve"} /\ r.open # None
     /\ r.plan \in {"update", "resolve"} => r.open # None}

RequestType ==
  {r \in [pc : {"idle", "create", "monitor", "incident"}, monitors : SUBSET Monitors,
          id : Monitors \cup {None}, read : MonitorStatus \cup {None},
          incident : IncidentIds \cup {None}] :
     /\ r.pc = "monitor" => r.id # None /\ r.read # None
     /\ r.pc = "incident" => r.incident # None}

IncidentType ==
  [status : IncidentStatus \cup {None}, stamped : BOOLEAN, auto : BOOLEAN,
   links : SUBSET Monitors, started : StartTimes \cup {0}, automatic : BOOLEAN]

TimelineType == [last : StatusEvents \cup {None}, message : Messages, autos : Nat,
                 disputed : BOOLEAN]

\* Every variable has its type; what a task or a request has read is there
\* from the step of the handler that reads it on.
TypeOK ==
  /\ health \in [Monitors -> HealthStates]
  /\ live \subseteq Monitors
  /\ status \in [Monitors -> MonitorStatus]
  /\ lock \in [Monitors -> Tasks \cup {None}]
  /\ recent \in [Pairs -> Seq(BOOLEAN)]
  /\ buffer \in [Pairs -> Seq([ok : BOOLEAN, newer : Nat])]
  /\ incident \in [IncidentIds -> IncidentType]
  /\ timeline \in [IncidentIds -> TimelineType]
  /\ late \in [Writers -> SUBSET EventKinds]
  /\ task \in [Tasks -> TaskType]
  /\ request \in [Requests -> RequestType]
  /\ notices \in [IncidentIds -> [opened : Nat, resolved : Nat]]
  /\ failures \in [Pairs -> Nat]
  /\ edits \in Nat /\ faults \in Nat /\ changes \in Nat

\* The three writers of an incident's status (the worker's MarkIncidentResolved,
\* CreateIncident and UpdateIncidentStatus) keep resolved_at set exactly while
\* the status is "resolved", whatever the order of their commits.
ResolvedIsStamped ==
  \A i \in IncidentIds : incident[i].stamped <=> incident[i].status = "resolved"

\* The timeline, read by created_at as the code reads it, ends with the event of
\* the status: status and event are written in one transaction, by workers and
\* API.  Two things put it in dispute, until a status is written undisturbed:
\* a status written by one that another status event overtook between its
\* created_at and its commit, and a status event posted by hand.
StatusMatchesTimeline ==
  \A i \in IncidentIds : Exists(i) /\ ~timeline[i].disputed =>
    \/ timeline[i].last = EventTypeFromStatus(incident[i].status)
    \/ timeline[i].last = "auto_resolved" /\ incident[i].status = "resolved"

\* Alerts answer committed transitions: at most one "opened" alert for an
\* incident, of those the workers opened, and no more "recovered" alerts than
\* auto_resolved events, across crashes, redelivery and rollbacks.
NoticesJustified ==
  \A i \in IncidentIds :
    /\ notices[i].opened <= IF incident[i].automatic THEN 1 ELSE 0
    /\ notices[i].resolved <= timeline[i].autos

\* A row lock is held only by a task inside its transaction, on its own
\* monitor, while the row exists: no path through the handler leaks it.
LocksAreHeldInTransaction ==
  \A m \in Monitors : lock[m] # None =>
    /\ m \in live
    /\ task[lock[m]].monitor = m
    /\ task[lock[m]].pc \in {"ready", "decided"}

\* The current ping may already be stored and is then counted twice, but never
\* more: opening an incident takes at least threshold - 1 failed pings.
DetectionNeedsFailures ==
  \A t \in Tasks : task[t].plan = "create" =>
    failures[Pair(t)] >= FailureThreshold[task[t].monitor] - 1

\* A live monitor whose service stays up ends with status "up", although every
\* task compares with a stale copy of the status and UpdateMonitor writes one.
StatusRecovers ==
  \A m \in Monitors : <>[](health[m] = "up" /\ m \in live) => <>[](status[m] = "up")

\* A live monitor whose service stays down ends with status "down" and with an
\* open incident.
OutageIsReported ==
  \A m \in Monitors :
    <>[](health[m] = "down" /\ m \in live) =>
      <>[](status[m] = "down" /\ OpenIncidents(m) # {})

\* Once the service stays up, no incident the workers opened stays open.
IncidentsAutoResolve ==
  \A m \in Monitors :
    <>[](health[m] = "up" /\ m \in live) => <>[](OpenIncidents(m) = {})

-----------------------------------------------------------------------------
(* What the documentation or a comment says and the code does not do. *)

\* agents/backend/data.md: "Incidents: one active per monitor enforced by
\* `unique_active_incident_per_monitor` index".  No migration creates it.
OneActiveIncident ==
  \A m \in Monitors : Cardinality(OpenIncidents(m)) <= 1
===============================================================================
