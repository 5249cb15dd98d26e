---------------------------- MODULE IncidentsProofs ----------------------------
(***************************************************************************)
(* Theorems about Incidents, for any monitors, regions, tasks, thresholds  *)
(* and bounds that satisfy ConstantsAssumption.                            *)
(***************************************************************************)
EXTENDS Incidents, FiniteSetTheorems, SequenceTheorems, TLAPS

-----------------------------------------------------------------------------
(* The pure operators return what their names say. *)

\* The number of stored pings the queries need is a natural number.
LEMMA HorizonIsNatural ==
  ASSUME NEW f \in Nat \ {0}, NEW r \in Nat \ {0}
  PROVE  Horizon(f, r) \in Nat
BY DEF Horizon, Greater, Window

\* The elements of a sequence, as one fact.
LEMMA SeqElements ==
  ASSUME NEW S, NEW seq \in Seq(S)
  PROVE  Len(seq) \in Nat /\ \A j \in 1..Len(seq) : seq[j] \in S
BY LenProperties, ElementOfSeq

\* The n newest pings are pings.
LEMMA NewestType ==
  ASSUME NEW S, NEW stored \in Seq(S), NEW n \in Nat
  PROVE  Newest(stored, n) \in Seq(S)
<1>1. Lesser(n, Len(stored)) \in Nat /\ Lesser(n, Len(stored)) <= Len(stored)
  BY DEF Lesser
<1>2. \A i \in 1..Lesser(n, Len(stored)) : stored[i] \in S
  BY <1>1
<1> QED BY <1>1, <1>2, SubSeqProperties DEF Newest

\* A ping placed among pings makes a sequence of pings.
LEMMA InsertByTimeType ==
  ASSUME NEW S, NEW stored \in Seq(S), NEW n \in 0..Len(stored), NEW ping \in S
  PROVE  InsertByTime(stored, n, ping) \in Seq(S)
<1>1. SubSeq(stored, 1, n) \in Seq(S)
  BY SubSeqProperties
<1>2. SubSeq(stored, n + 1, Len(stored)) \in Seq(S)
  BY SubSeqProperties
<1>3. <<ping>> \in Seq(S)
  OBVIOUS
<1> QED BY <1>1, <1>2, <1>3, ConcatProperties DEF InsertByTime

-----------------------------------------------------------------------------
(* Type correctness *)

\* The initial state has the declared types.
LEMMA InitTypeOK == Init => TypeOK
<1> SUFFICES ASSUME Init PROVE TypeOK
  OBVIOUS
<1> USE ConstantsAssumption
<1>1. NoIncident \in IncidentType
  BY DEF NoIncident, IncidentType
<1>2. IdleTask \in TaskType
  BY DEF IdleTask, TaskType, Plans
<1>3. NoTimeline \in TimelineType
  BY DEF NoTimeline, TimelineType, Messages, UserMessage
<1>4. IdleRequest \in RequestType
  BY DEF IdleRequest, RequestType
<1> QED BY <1>1, <1>2, <1>3, <1>4 DEF Init, TypeOK, MonitorStatus

\* Changing one row of a table to a value of its type keeps the table's type,
\* and so does changing a row that is not there.
LEMMA RowUpdate ==
  ASSUME NEW D, NEW R, NEW f \in [D -> R], NEW d, NEW r, d \in D => r \in R
  PROVE  [f EXCEPT ![d] = r] \in [D -> R]
OBVIOUS

\* The idle record is a task.
LEMMA IdleTaskType == IdleTask \in TaskType
BY DEF IdleTask, TaskType, Plans

\* RunPing gives the task a ping status, appends one ping to the buffer and
\* counts it.
LEMMA RunPingTypeOK ==
  ASSUME TypeOK, NEW t \in Tasks, RunPing(t)
  PROVE  TypeOK'
<1>1. PICK s \in Outcomes(task[t].monitor) :
        /\ task' = [task EXCEPT ![t].pc = "recorded", ![t].ping = s]
        /\ Record(Pair(t), s = "successful")
        /\ Count(Pair(t), s = "successful")
  BY DEF RunPing
<1>2. s \in PingStatus /\ s # None
  BY ConstantsAssumption DEF Outcomes, PingStatus
<1>3. task[t] \in TaskType /\ task[t].pc = "queued"
  BY DEF TypeOK, RunPing
<1>4. [task[t] EXCEPT !.pc = "recorded", !.ping = s] \in TaskType
  BY <1>2, <1>3 DEF TaskType
<1>5. task' = [task EXCEPT ![t] = [task[t] EXCEPT !.pc = "recorded", !.ping = s]]
  BY <1>1
<1>6. task' \in [Tasks -> TaskType]
  BY <1>4, <1>5, RowUpdate DEF TypeOK
<1>7. buffer' \in [Pairs -> Seq([ok : BOOLEAN, newer : Nat])]
  <2>1. buffer \in [Pairs -> Seq([ok : BOOLEAN, newer : Nat])]
    BY DEF TypeOK
  <2>2. [ok |-> s = "successful", newer |-> 0] \in [ok : BOOLEAN, newer : Nat]
    OBVIOUS
  <2>3. Pair(t) \in Pairs =>
          Append(buffer[Pair(t)], [ok |-> s = "successful", newer |-> 0])
            \in Seq([ok : BOOLEAN, newer : Nat])
    BY <2>1, <2>2, AppendProperties
  <2> QED BY <1>1, <2>1, <2>3, RowUpdate DEF Record
<1>8. failures' \in [Pairs -> Nat]
  <2>1. failures \in [Pairs -> Nat]
    BY DEF TypeOK
  <2>2. ASSUME Pair(t) \in Pairs
        PROVE  Counted(failures[Pair(t)], Pair(t)[1], s = "successful") \in Nat
    <3>1. Pair(t)[1] \in Monitors
      BY <2>2 DEF Pairs
    <3>2. FailureThreshold[Pair(t)[1]] \in Nat
      BY <3>1, ConstantsAssumption
    <3>3. failures[Pair(t)] \in Nat
      BY <2>1, <2>2
    <3> QED BY <3>2, <3>3 DEF Lesser, Counted
  <2>3. failures' = [failures EXCEPT ![Pair(t)] = Counted(@, Pair(t)[1], s = "successful")]
    BY <1>1 DEF Count
  <2> QED BY <2>1, <2>2, <2>3, RowUpdate
<1> QED BY <1>6, <1>7, <1>8 DEF RunPing, database, TypeOK

\* LoadOpenIncident reads an open incident or none.
LEMMA LoadOpenIncidentTypeOK ==
  ASSUME TypeOK, NEW t \in Tasks, LoadOpenIncident(t)
  PROVE  TypeOK'
<1>1. PICK i \in IncidentIds \cup {None} :
        task' = [task EXCEPT ![t].pc = "loaded", ![t].open = i,
                             ![t].auto = i # None /\ incident[i].auto]
  BY DEF LoadOpenIncident
<1>2. task[t] \in TaskType /\ task[t].pc = "recorded"
  BY DEF TypeOK, LoadOpenIncident
<1> DEFINE a == i # None /\ incident[i].auto
           r == [task[t] EXCEPT !.pc = "loaded", !.open = i, !.auto = a]
<1>3. a \in BOOLEAN
  OBVIOUS
<1>4. r \in TaskType
  BY <1>2, <1>3, ConstantsAssumption DEF TaskType, InTransaction
<1>5. task' = [task EXCEPT ![t] = r]
  BY <1>1
<1>6. task' \in [Tasks -> TaskType]
  BY <1>4, <1>5, RowUpdate DEF TypeOK
<1> QED BY <1>6 DEF LoadOpenIncident, database, TypeOK

\* WriteStatus locks the monitor for the task, or nothing.
LEMMA WriteStatusTypeOK ==
  ASSUME TypeOK, NEW t \in Tasks, WriteStatus(t)
  PROVE  TypeOK'
<1>1. task[t] \in TaskType /\ task[t].pc = "loaded"
  BY DEF TypeOK, WriteStatus
<1>2. [task[t] EXCEPT !.pc = "ready"] \in TaskType
  BY <1>1 DEF TaskType, InTransaction
<1>3. task' = [task EXCEPT ![t] = [task[t] EXCEPT !.pc = "ready"]]
  BY DEF WriteStatus
<1>4. task' \in [Tasks -> TaskType]
  BY <1>2, <1>3, RowUpdate DEF TypeOK
<1>5. lock' \in [Monitors -> Tasks \cup {None}]
  BY DEF TypeOK, WriteStatus
<1> QED BY <1>4, <1>5 DEF WriteStatus, TypeOK

\* Decide plans a change of an incident only if one was read.
LEMMA DecideTypeOK ==
  ASSUME TypeOK, NEW t \in Tasks, Decide(t)
  PROVE  TypeOK'
<1> DEFINE p == IF Successful(t) THEN RecoveryPlan(t) ELSE FailurePlan(t)
           r == [task[t] EXCEPT !.pc = "decided", !.plan = p]
<1>1. task[t] \in TaskType /\ task[t].pc = "ready"
  BY DEF TypeOK, Decide
<1>2. p \in Plans /\ (p \in {"update", "resolve"} => task[t].open # None)
  BY DEF FailurePlan, RecoveryPlan, Plans
<1>3. r \in TaskType
  BY <1>1, <1>2 DEF TaskType, InTransaction
<1>4. task' = [task EXCEPT ![t] = r]
  BY DEF Decide
<1>5. task' \in [Tasks -> TaskType]
  BY <1>3, <1>4, RowUpdate DEF TypeOK
<1> QED BY <1>5 DEF Decide, database, TypeOK

\* The end of a transaction releases the lock its task holds.
LEMMA UnlockType ==
  ASSUME TypeOK, NEW t \in Tasks, Unlock(t)
  PROVE  lock' \in [Monitors -> Tasks \cup {None}]
BY DEF TypeOK, Unlock

\* The message of an incident's event names the region and the ping.
LEMMA IncidentMessageType ==
  ASSUME TypeOK, NEW t \in Tasks, task[t].pc \notin {"idle", "queued"}
  PROVE  IncidentMessage(t) \in Messages
<1>1. task[t] \in TaskType
  BY DEF TypeOK
<1>2. task[t].region \in Regions /\ task[t].ping \in PingStatus
  BY <1>1 DEF TaskType
<1> QED BY <1>2 DEF IncidentMessage, Messages

\* Storing an event leaves types, the other incidents, and of its own incident
\* only the choice of where the event goes.
LEMMA StoreEventEffect ==
  ASSUME TypeOK, NEW w \in Writers, NEW i \in IncidentIds, NEW kind \in EventKinds,
         NEW own \in TimelineType, StoreEvent(w, i, kind, own)
  PROVE  /\ timeline' \in [IncidentIds -> TimelineType]
         /\ late' \in [Writers -> SUBSET EventKinds]
         /\ timeline'[i].autos = own.autos /\ timeline'[i].disputed = own.disputed
         /\ timeline'[i].last \in {own.last, timeline[i].last}
         /\ "status" \notin late[w] => timeline'[i].last = own.last
         /\ \A j \in IncidentIds \ {i} : timeline'[j] = timeline[j]
<1>1. timeline \in [IncidentIds -> TimelineType] /\ late \in [Writers -> SUBSET EventKinds]
  BY DEF TypeOK
<1>2. timeline[i] \in TimelineType
  BY <1>1
<1>3. PICK e \in Endings(w, i, own) : timeline' = [timeline EXCEPT ![i] = e]
  BY DEF StoreEvent
<1>4. /\ e \in TimelineType /\ e.autos = own.autos /\ e.disputed = own.disputed
      /\ e.last \in {own.last, timeline[i].last}
      /\ "status" \notin late[w] => e.last = own.last
  <2>1. CASE e = own
    BY <2>1
  <2>2. CASE e = [own EXCEPT !.message = timeline[i].message]
    BY <1>2, <2>2 DEF TimelineType
  <2>3. CASE /\ "status" \in late[w]
             /\ e = [own EXCEPT !.message = timeline[i].message, !.last = timeline[i].last]
    BY <1>2, <2>3 DEF TimelineType
  <2> QED BY <1>3, <2>1, <2>2, <2>3 DEF Endings
<1>5. timeline' \in [IncidentIds -> TimelineType]
  BY <1>1, <1>3, <1>4, RowUpdate
<1>6. timeline'[i] = e /\ \A j \in IncidentIds \ {i} : timeline'[j] = timeline[j]
  BY <1>1, <1>3
<1>7. late' \in [Writers -> SUBSET EventKinds]
  BY <1>1 DEF StoreEvent
<1> QED BY <1>4, <1>5, <1>6, <1>7

\* A writer that ends takes along what it was late for.
LEMMA LateEnds ==
  ASSUME TypeOK, NEW w, late' = [late EXCEPT ![w] = {}]
  PROVE  late' \in [Writers -> SUBSET EventKinds]
BY DEF TypeOK

\* An annotation of a failure is a note that leaves what is said of the status.
LEMMA AnnotationType ==
  ASSUME TypeOK, NEW t \in Tasks, AnnotateIncident(t), task[t].open \in IncidentIds,
         IncidentMessage(t) \in Messages
  PROVE  \E own \in TimelineType :
           /\ StoreEvent(t, task[t].open, "note", own)
           /\ own.autos = timeline[task[t].open].autos
           /\ own.disputed = timeline[task[t].open].disputed
           /\ own.last = timeline[task[t].open].last
<1> DEFINE i == task[t].open
           own == [timeline[i] EXCEPT !.message = IncidentMessage(t)]
<1>1. timeline[i] \in TimelineType
  BY DEF TypeOK
<1>2. own \in TimelineType /\ own.autos = timeline[i].autos
      /\ own.disputed = timeline[i].disputed /\ own.last = timeline[i].last
  BY <1>1 DEF TimelineType
<1>3. StoreEvent(t, i, "note", own)
  BY DEF AnnotateIncident
<1> HIDE DEF i, own
<1> QED BY <1>2, <1>3 DEF i

\* What a resolution stores is a status event, disputed if another overtook it.
LEMMA ResolutionType ==
  ASSUME TypeOK, NEW t \in Tasks, NEW i \in IncidentIds, ResolveIncident(t, i),
         IncidentMessage(t) \in Messages
  PROVE  \E own \in TimelineType :
           /\ StoreEvent(t, i, "status", own)
           /\ own.autos = timeline[i].autos + 1
           /\ own.disputed <=> "status" \in late[t]
           /\ own.last = "auto_resolved"
<1> DEFINE own == [last |-> "auto_resolved", message |-> IncidentMessage(t),
                   autos |-> timeline[i].autos + 1, disputed |-> "status" \in late[t]]
<1>1. timeline[i] \in TimelineType
  BY DEF TypeOK
<1>2. own \in TimelineType
  BY <1>1 DEF TimelineType, StatusEvents
<1>3. StoreEvent(t, i, "status", own)
  BY DEF ResolveIncident
<1>4. own.autos = timeline[i].autos + 1 /\ own.last = "auto_resolved"
      /\ (own.disputed <=> "status" \in late[t])
  OBVIOUS
<1> HIDE DEF own
<1> QED BY <1>2, <1>3, <1>4

\* What a status written through the API stores, likewise.
LEMMA StatusEventType ==
  ASSUME TypeOK, NEW q \in Requests, NEW i \in IncidentIds, NEW s \in IncidentStatus,
         UpdateIncidentStatus(q, i, s)
  PROVE  \E own \in TimelineType :
           /\ StoreEvent(q, i, "status", own)
           /\ own.autos = timeline[i].autos
           /\ own.disputed <=> "status" \in late[q]
           /\ own.last = EventTypeFromStatus(s)
<1> DEFINE own == [last |-> EventTypeFromStatus(s), message |-> UserMessage,
                   autos |-> timeline[i].autos, disputed |-> "status" \in late[q]]
<1>1. timeline[i] \in TimelineType
  BY DEF TypeOK
<1>2. EventTypeFromStatus(s) \in StatusEvents /\ UserMessage \in Messages
  BY DEF StatusEvents, UserMessage, Messages
<1>3. own \in TimelineType
  BY <1>1, <1>2 DEF TimelineType
<1>4. StoreEvent(q, i, "status", own)
  BY Zenon DEF UpdateIncidentStatus
<1>5. own.autos = timeline[i].autos /\ own.last = EventTypeFromStatus(s)
      /\ (own.disputed <=> "status" \in late[q])
  OBVIOUS
<1> HIDE DEF own
<1> QED BY <1>3, <1>4, <1>5

\* What is posted by hand is a note, or puts the order in dispute.
LEMMA PostedEventType ==
  ASSUME TypeOK, NEW q \in Requests, NEW i \in IncidentIds, CreateIncidentEvent(q, i)
  PROVE  \E kind \in EventKinds, own \in TimelineType :
           /\ StoreEvent(q, i, kind, own)
           /\ own.autos = timeline[i].autos
           /\ \/ own.disputed
              \/ own.last = timeline[i].last /\ own.disputed = timeline[i].disputed
<1>1. timeline[i] \in TimelineType /\ UserMessage \in Messages
  BY DEF TypeOK, UserMessage, Messages
<1>2. CASE StoreEvent(q, i, "note", [timeline[i] EXCEPT !.message = UserMessage])
  <2> DEFINE own == [timeline[i] EXCEPT !.message = UserMessage]
  <2>1. own \in TimelineType /\ own.autos = timeline[i].autos
        /\ own.last = timeline[i].last /\ own.disputed = timeline[i].disputed
    BY <1>1 DEF TimelineType
  <2>2. StoreEvent(q, i, "note", own) /\ "note" \in EventKinds
    BY <1>2 DEF EventKinds
  <2> HIDE DEF own
  <2> QED BY <2>1, <2>2
<1>3. ASSUME NEW e \in StatusEvents,
             StoreEvent(q, i, "status", [timeline[i] EXCEPT !.last = e, !.message = UserMessage,
                                                            !.disputed = TRUE])
      PROVE  \E own \in TimelineType :
               StoreEvent(q, i, "status", own) /\ own.autos = timeline[i].autos /\ own.disputed
  <2> DEFINE own == [timeline[i] EXCEPT !.last = e, !.message = UserMessage, !.disputed = TRUE]
  <2>1. own \in TimelineType /\ own.autos = timeline[i].autos /\ own.disputed
    BY <1>1 DEF TimelineType
  <2>2. StoreEvent(q, i, "status", own)
    BY <1>3
  <2> HIDE DEF own
  <2> QED BY <2>1, <2>2
<1>4. "status" \in EventKinds
  BY DEF EventKinds
<1> QED BY <1>2, <1>3, <1>4 DEF CreateIncidentEvent

\* CommitIncident writes the incident the task planned for.
LEMMA CommitIncidentTypeOK ==
  ASSUME TypeOK, NEW t \in Tasks, CommitIncident(t)
  PROVE  TypeOK'
<1>1. task[t] \in TaskType /\ task[t].pc = "decided"
  BY DEF TypeOK, CommitIncident
<1>2. IncidentMessage(t) \in Messages
  BY <1>1, IncidentMessageType
<1>3. /\ task' \in [Tasks -> TaskType]
      /\ incident' \in [IncidentIds -> IncidentType]
      /\ timeline' \in [IncidentIds -> TimelineType]
      /\ late' \in [Writers -> SUBSET EventKinds]
  <2>0. "note" \in EventKinds /\ "status" \in EventKinds /\ t \in Writers
    BY DEF EventKinds, Writers
  <2>1. CASE task[t].plan = "none"
    <3>1. task' = [task EXCEPT ![t] = IdleTask] /\ UNCHANGED <<incident, timeline, late>>
      BY <2>1 DEF CommitIncident
    <3> QED BY <3>1, IdleTaskType, RowUpdate DEF TypeOK
  <2>2. CASE task[t].plan = "update"
    <3>1. /\ task' = [task EXCEPT ![t] = IdleTask]
          /\ incident' = incident
          /\ AnnotateIncident(t)
      BY <2>2 DEF CommitIncident, AnnotateIncident
    <3>2. task[t].open \in IncidentIds
      BY <1>1, <2>2 DEF TaskType
    <3>3. PICK own \in TimelineType : StoreEvent(t, task[t].open, "note", own)
      BY <1>2, <3>1, <3>2, AnnotationType
    <3>4. timeline' \in [IncidentIds -> TimelineType] /\ late' \in [Writers -> SUBSET EventKinds]
      BY <2>0, <3>2, <3>3, StoreEventEffect
    <3>6. task' \in [Tasks -> TaskType]
      BY <3>1, IdleTaskType, RowUpdate DEF TypeOK
    <3> QED BY <3>1, <3>4, <3>6 DEF TypeOK
  <2>3. CASE task[t].plan = "create"
    <3>1. PICK i \in IncidentIds :
            /\ CreateIncidentIfAbsent(t, i)
            /\ task' = [task EXCEPT ![t].pc = "committed", ![t].open = i]
      BY <2>3 DEF CommitIncident
    <3>2. PICK s \in StartTimes :
            incident' = [incident EXCEPT ![i] =
              [status |-> "detected", stamped |-> FALSE, auto |-> TRUE,
               links |-> {task[t].monitor}, started |-> s, automatic |-> TRUE]]
      BY <3>1 DEF CreateIncidentIfAbsent
    <3>3. task[t].monitor \in Monitors /\ i # None
      BY <1>1, ConstantsAssumption DEF TaskType
    <3>4. [status |-> "detected", stamped |-> FALSE, auto |-> TRUE,
           links |-> {task[t].monitor}, started |-> s, automatic |-> TRUE] \in IncidentType
      BY <3>3 DEF IncidentType, IncidentStatus
    <3>5. "detected" \in StatusEvents
      BY DEF StatusEvents, EventTypeFromStatus, IncidentStatus
    <3>6. [last |-> "detected", message |-> IncidentMessage(t), autos |-> 0,
           disputed |-> FALSE] \in TimelineType
      BY <1>2, <3>5 DEF TimelineType
    <3>7. timeline' = [timeline EXCEPT ![i] =
            [last |-> "detected", message |-> IncidentMessage(t), autos |-> 0, disputed |-> FALSE]]
      BY <3>1 DEF CreateIncidentIfAbsent
    <3>8. [task[t] EXCEPT !.pc = "committed", !.open = i] \in TaskType
      BY <1>1, <2>3, <3>3 DEF TaskType
    <3>9. task' = [task EXCEPT ![t] = [task[t] EXCEPT !.pc = "committed", !.open = i]]
      BY <3>1
    <3>10. task' \in [Tasks -> TaskType]
      BY <3>8, <3>9, RowUpdate DEF TypeOK
    <3>11. incident' \in [IncidentIds -> IncidentType]
      BY <3>2, <3>4, RowUpdate DEF TypeOK
    <3>12. timeline' \in [IncidentIds -> TimelineType]
      BY <3>6, <3>7, RowUpdate DEF TypeOK
    <3>13. late' \in [Writers -> SUBSET EventKinds]
      BY <3>1 DEF CreateIncidentIfAbsent, TypeOK
    <3> QED BY <3>10, <3>11, <3>12, <3>13
  <2>4. CASE task[t].plan = "resolve"
    <3>1. PICK i \in IncidentIds : ResolveIncident(t, i)
      BY <2>4 DEF CommitIncident
    <3>2. incident[i] \in IncidentType /\ timeline[i] \in TimelineType
      BY DEF TypeOK
    <3>3. [incident[i] EXCEPT !.status = "resolved", !.stamped = TRUE] \in IncidentType
      BY <3>2 DEF IncidentType, IncidentStatus
    <3>4. incident' = [incident EXCEPT ![i] =
            [incident[i] EXCEPT !.status = "resolved", !.stamped = TRUE]]
      BY <3>1 DEF ResolveIncident
    <3>5. PICK own \in TimelineType : StoreEvent(t, i, "status", own)
      BY <1>2, <3>1, ResolutionType
    <3>7. [task[t] EXCEPT !.pc = "committed"] \in TaskType
      BY <1>1, <2>4 DEF TaskType
    <3>8. task' = [task EXCEPT ![t] = [task[t] EXCEPT !.pc = "committed"]]
      BY <2>4 DEF CommitIncident
    <3>9. task' \in [Tasks -> TaskType]
      BY <3>7, <3>8, RowUpdate DEF TypeOK
    <3>10. incident' \in [IncidentIds -> IncidentType]
      BY <3>3, <3>4, RowUpdate DEF TypeOK
    <3>11. timeline' \in [IncidentIds -> TimelineType]
      BY <2>0, <3>5, StoreEventEffect
    <3>12. late' \in [Writers -> SUBSET EventKinds]
      BY <2>0, <3>5, StoreEventEffect
    <3> QED BY <3>9, <3>10, <3>11, <3>12
  <2>5. task[t].plan \in Plans
    BY <1>1 DEF TaskType
  <2> QED BY <2>1, <2>2, <2>3, <2>4, <2>5 DEF Plans
<1>4. status' \in [Monitors -> MonitorStatus]
  BY DEF CommitIncident, TypeOK, TargetStatus, MonitorStatus
<1>5. lock' \in [Monitors -> Tasks \cup {None}]
  BY UnlockType DEF CommitIncident
<1> QED BY <1>3, <1>4, <1>5 DEF CommitIncident, TypeOK

\* A rolled back task forgets what it did.
LEMMA RollBackTypeOK ==
  ASSUME TypeOK, NEW t \in Tasks, RollBack(t), faults' \in Nat
  PROVE  TypeOK'
<1>1. task' \in [Tasks -> TaskType]
  BY IdleTaskType, RowUpdate DEF RollBack, TypeOK
<1>2. lock' \in [Monitors -> Tasks \cup {None}]
  BY UnlockType DEF RollBack
<1>3. late' \in [Writers -> SUBSET EventKinds]
  BY LateEnds DEF RollBack
<1> QED BY <1>1, <1>2, <1>3 DEF RollBack, TypeOK

\* Notify counts an alert, or none.
LEMMA NotifyTypeOK ==
  ASSUME TypeOK, NEW t \in Tasks, Notify(t)
  PROVE  TypeOK'
<1>1. task' \in [Tasks -> TaskType]
  BY IdleTaskType, RowUpdate DEF Notify, TypeOK
<1>2. faults' \in Nat
  BY DEF Notify, TypeOK
<1>3. notices' \in [IncidentIds -> [opened : Nat, resolved : Nat]]
  <2> DEFINE i == task[t].open
             n == notices[i]
  <2>1. notices \in [IncidentIds -> [opened : Nat, resolved : Nat]]
    BY DEF TypeOK
  <2>2. i \in IncidentIds =>
          /\ [n EXCEPT !.opened = n.opened + 1] \in [opened : Nat, resolved : Nat]
          /\ [n EXCEPT !.resolved = n.resolved + 1] \in [opened : Nat, resolved : Nat]
    BY <2>1
  <2>3. \/ notices' = notices
        \/ notices' = [notices EXCEPT ![i] = [n EXCEPT !.opened = n.opened + 1]]
        \/ notices' = [notices EXCEPT ![i] = [n EXCEPT !.resolved = n.resolved + 1]]
    BY DEF Notify
  <2> HIDE DEF i, n
  <2> QED BY <2>1, <2>2, <2>3, RowUpdate
<1> QED BY <1>1, <1>2, <1>3 DEF Notify, database, TypeOK

\* The steps of a worker preserve the types.
LEMMA WorkerTypeOK ==
  ASSUME TypeOK, NEW t \in Tasks, Worker(t)
  PROVE  TypeOK'
<1>1. CASE RunPing(t)          BY <1>1, RunPingTypeOK
<1>2. CASE LoadOpenIncident(t) BY <1>2, LoadOpenIncidentTypeOK
<1>3. CASE WriteStatus(t)      BY <1>3, WriteStatusTypeOK
<1>4. CASE Decide(t)           BY <1>4, DecideTypeOK
<1>5. CASE CommitIncident(t)   BY <1>5, CommitIncidentTypeOK
<1>6. CASE FailCreate(t)
  <2>1. RollBack(t) /\ faults' \in Nat
    BY <1>6 DEF FailCreate, TypeOK
  <2> QED BY <2>1, RollBackTypeOK
<1>7. CASE Notify(t)           BY <1>7, NotifyTypeOK
<1> QED BY <1>1, <1>2, <1>3, <1>4, <1>5, <1>6, <1>7 DEF Worker

\* A redelivered task keeps the payload and nothing else.
LEMMA RequeuedType ==
  ASSUME TypeOK, NEW t \in Tasks, task[t].pc # "idle"
  PROVE  Requeued(t) \in TaskType
<1>1. task[t] \in TaskType
  BY DEF TypeOK
<1> QED BY <1>1 DEF Requeued, TaskType, Plans

\* Faults preserve the types.
LEMMA FaultTypeOK ==
  ASSUME TypeOK,
         \/ \E t \in Tasks : AbortIncident(t) \/ MissDeadline(t)
         \/ \E r \in Regions : CrashWorker(r)
  PROVE  TypeOK'
<1>1. ASSUME NEW t \in Tasks, AbortIncident(t) PROVE TypeOK'
  <2>1. RollBack(t) /\ faults' \in Nat
    BY <1>1 DEF AbortIncident, TypeOK
  <2> QED BY <2>1, RollBackTypeOK
<1>2. ASSUME NEW t \in Tasks, MissDeadline(t) PROVE TypeOK'
  <2>1. Requeued(t) \in TaskType
    BY <1>2, RequeuedType DEF MissDeadline, InTransaction
  <2>2. task' \in [Tasks -> TaskType]
    BY <1>2, <2>1, RowUpdate DEF MissDeadline, TypeOK
  <2>3. lock' \in [Monitors -> Tasks \cup {None}]
    BY <1>2, UnlockType DEF MissDeadline
  <2>4. late' \in [Writers -> SUBSET EventKinds]
    BY <1>2, LateEnds DEF MissDeadline
  <2> QED BY <1>2, <2>2, <2>3, <2>4 DEF MissDeadline, TypeOK
<1>3. ASSUME NEW r \in Regions, CrashWorker(r) PROVE TypeOK'
  <2>1. \A t \in Tasks : task[t].pc \notin {"idle", "queued"} => Requeued(t) \in TaskType
    BY RequeuedType
  <2>2. task' \in [Tasks -> TaskType]
    BY <1>3, <2>1 DEF CrashWorker, TypeOK
  <2>3. lock' \in [Monitors -> Tasks \cup {None}]
    BY <1>3 DEF CrashWorker, TypeOK
  <2>4. buffer' \in [Pairs -> Seq([ok : BOOLEAN, newer : Nat])]
    BY <1>3 DEF CrashWorker, TypeOK
  <2>5. late' \in [Writers -> SUBSET EventKinds]
    BY <1>3 DEF CrashWorker, TypeOK
  <2> QED BY <1>3, <2>2, <2>3, <2>4, <2>5 DEF CrashWorker, TypeOK
<1> QED BY <1>1, <1>2, <1>3

\* The scheduler, the recorder and the service preserve the types.
LEMMA EnvironmentTypeOK ==
  ASSUME TypeOK,
         \/ \E m \in Monitors : ChangeHealth(m)
         \/ \E t \in Tasks, m \in Monitors, r \in Regions : Enqueue(t, m, r)
         \/ \E p \in Pairs : \E k \in 1..Len(buffer[p]) : Persist(p, k)
  PROVE  TypeOK'
<1>1. ASSUME NEW m \in Monitors, ChangeHealth(m) PROVE TypeOK'
  BY <1>1 DEF ChangeHealth, database, TypeOK
<1>2. ASSUME NEW t \in Tasks, NEW m \in Monitors, NEW r \in Regions, Enqueue(t, m, r)
      PROVE  TypeOK'
  <2> DEFINE n == [IdleTask EXCEPT !.pc = "queued", !.monitor = m, !.region = r,
                                   !.seen = status[m]]
  <2>1. status[m] \in MonitorStatus /\ status[m] # None
    BY ConstantsAssumption DEF TypeOK, MonitorStatus
  <2>2. n \in TaskType
    BY <2>1, ConstantsAssumption DEF IdleTask, TaskType, Plans
  <2>3. task' = [task EXCEPT ![t] = n]
    BY <1>2 DEF Enqueue
  <2>4. task' \in [Tasks -> TaskType]
    BY <2>2, <2>3, RowUpdate DEF TypeOK
  <2> QED BY <1>2, <2>4 DEF Enqueue, database, TypeOK
<1>3. ASSUME NEW p \in Pairs, NEW k \in 1..Len(buffer[p]), Persist(p, k)
      PROVE  TypeOK'
  <2> DEFINE Ping == [ok : BOOLEAN, newer : Nat]
             n == Lesser(buffer[p][k].newer, Len(recent[p]))
             stored == InsertByTime(recent[p], n, buffer[p][k].ok)
  <2>1. buffer[p] \in Seq(Ping) /\ recent[p] \in Seq(BOOLEAN)
    BY DEF TypeOK
  <2>2. /\ \A j \in 1..Len(buffer[p]) : buffer[p][j] \in Ping
        /\ buffer[p][k] \in Ping /\ Len(buffer[p]) \in Nat /\ k \in Nat
    <3>1. Len(buffer[p]) \in Nat /\ \A j \in 1..Len(buffer[p]) : buffer[p][j] \in Ping
      BY <2>1, SeqElements
    <3> QED BY <3>1
  <2>3. n \in 0..Len(recent[p])
    BY <2>1, <2>2 DEF Lesser
  <2>4. stored \in Seq(BOOLEAN)
    BY <2>1, <2>2, <2>3, InsertByTimeType
  <2>5. Keep(p[1]) \in Nat
    BY HorizonIsNatural, ConstantsAssumption DEF Keep, Pairs
  <2>6. Newest(stored, Keep(p[1])) \in Seq(BOOLEAN)
    BY <2>4, <2>5, NewestType
  <2>7. recent' \in [Pairs -> Seq(BOOLEAN)]
    BY <1>3, <2>6, RowUpdate DEF Persist, TypeOK
  <2> DEFINE older(j) == IF j < k THEN [buffer[p][j] EXCEPT !.newer = Lesser(@ + 1, Keep(p[1]))]
                         ELSE buffer[p][j + 1]
             rest == [j \in 1..(Len(buffer[p]) - 1) |-> older(j)]
  <2>8. \A j \in 1..(Len(buffer[p]) - 1) : older(j) \in Ping
    <3> SUFFICES ASSUME NEW j \in 1..(Len(buffer[p]) - 1) PROVE older(j) \in Ping
      OBVIOUS
    <3>1. buffer[p][j] \in Ping /\ buffer[p][j + 1] \in Ping
      <4>1. j \in 1..Len(buffer[p]) /\ j + 1 \in 1..Len(buffer[p])
        BY <2>2
      <4> QED BY <2>2, <4>1
    <3>2. Lesser(buffer[p][j].newer + 1, Keep(p[1])) \in Nat
      BY <3>1, <2>5 DEF Lesser
    <3> QED BY <3>1, <3>2
  <2>9. rest \in Seq(Ping)
    <3> DEFINE n1 == Len(buffer[p]) - 1
    <3>1. n1 \in Nat
      BY <2>2
    <3>2. rest \in [1..n1 -> Ping]
      BY <2>8
    <3> HIDE DEF rest, n1, Ping
    <3> QED BY <3>1, <3>2, SeqDef
  <2>10. buffer' = [buffer EXCEPT ![p] = rest]
    BY <1>3 DEF Persist
  <2>11. buffer' \in [Pairs -> Seq(Ping)]
    BY <2>9, <2>10, RowUpdate DEF TypeOK
  <2> QED BY <1>3, <2>7, <2>11 DEF Persist, TypeOK
<1> QED BY <1>1, <1>2, <1>3

\* Requests of the API preserve the types.
LEMMA RequestTypeOK ==
  ASSUME TypeOK, NEW q \in Requests,
         \/ CheckNoOpenIncident(q) \/ CreateIncident(q)
         \/ UpdateMonitor(q) \/ AbandonRequest(q)
         \/ \E m \in Monitors : LoadMonitor(q, m)
  PROVE  TypeOK'
<1>1. request[q] \in RequestType
  BY DEF TypeOK
<1>2. IdleRequest \in RequestType
  BY DEF IdleRequest, RequestType
<1>3. CASE CheckNoOpenIncident(q)
  <2>1. PICK M \in SUBSET live : request' = [request EXCEPT ![q].pc = "create", ![q].monitors = M]
    BY <1>3 DEF CheckNoOpenIncident
  <2>2. M \subseteq Monitors
    BY <2>1 DEF TypeOK
  <2>3. [request[q] EXCEPT !.pc = "create", !.monitors = M] \in RequestType
    BY <1>1, <2>2 DEF RequestType
  <2>4. request' = [request EXCEPT ![q] = [request[q] EXCEPT !.pc = "create", !.monitors = M]]
    BY <2>1
  <2>5. request' \in [Requests -> RequestType]
    BY <2>3, <2>4, RowUpdate DEF TypeOK
  <2> QED BY <1>3, <2>5 DEF CheckNoOpenIncident, database, TypeOK
<1>4. CASE CreateIncident(q)
  <2>1. PICK i \in IncidentIds, s \in IncidentStatus, a \in BOOLEAN, at \in StartTimes :
          /\ incident' = [incident EXCEPT ![i] =
               [status |-> s, stamped |-> ResolvedAt(s), auto |-> a,
                links |-> request[q].monitors, started |-> at, automatic |-> FALSE]]
          /\ timeline' = [timeline EXCEPT ![i] =
               [last |-> EventTypeFromStatus(s), message |-> UserMessage, autos |-> 0,
                disputed |-> FALSE]]
    BY <1>4 DEF CreateIncident
  <2>2. request[q].monitors \in SUBSET Monitors
    BY <1>1 DEF RequestType
  <2>3. [status |-> s, stamped |-> ResolvedAt(s), auto |-> a, links |-> request[q].monitors,
         started |-> at, automatic |-> FALSE] \in IncidentType
    BY <2>2 DEF IncidentType, ResolvedAt
  <2>4. EventTypeFromStatus(s) \in StatusEvents
    BY DEF StatusEvents
  <2>5. [last |-> EventTypeFromStatus(s), message |-> UserMessage, autos |-> 0,
                disputed |-> FALSE] \in TimelineType
    BY <2>4 DEF TimelineType, UserMessage, Messages
  <2>6. incident' \in [IncidentIds -> IncidentType]
    BY <2>1, <2>3, RowUpdate DEF TypeOK
  <2>7. timeline' \in [IncidentIds -> TimelineType]
    BY <2>1, <2>5, RowUpdate DEF TypeOK
  <2>8. request' \in [Requests -> RequestType]
    BY <1>2, <1>4, RowUpdate DEF CreateIncident, TypeOK
  <2>9. edits' \in Nat
    BY <1>4 DEF CreateIncident, Edit, TypeOK
  <2> QED BY <1>4, <2>6, <2>7, <2>8, <2>9 DEF CreateIncident, TypeOK
<1>5. CASE UpdateMonitor(q)
  <2>1. request[q].read \in MonitorStatus
    BY <1>1, <1>5 DEF UpdateMonitor, RequestType
  <2>2. status' \in [Monitors -> MonitorStatus]
    BY <1>5, <2>1, RowUpdate DEF UpdateMonitor, TypeOK
  <2>3. request' \in [Requests -> RequestType]
    BY <1>2, <1>5, RowUpdate DEF UpdateMonitor, TypeOK
  <2>4. edits' \in Nat
    BY <1>5 DEF UpdateMonitor, Edit, TypeOK
  <2> QED BY <1>5, <2>2, <2>3, <2>4 DEF UpdateMonitor, TypeOK
<1>6. CASE AbandonRequest(q)
  <2>1. request' \in [Requests -> RequestType]
    BY <1>2, <1>6, RowUpdate DEF AbandonRequest, TypeOK
  <2>2. late' \in [Writers -> SUBSET EventKinds]
    BY <1>6, LateEnds DEF AbandonRequest
  <2> QED BY <1>6, <2>1, <2>2 DEF AbandonRequest, TypeOK
<1>7. ASSUME NEW m \in Monitors, LoadMonitor(q, m) PROVE TypeOK'
  <2> DEFINE r == [request[q] EXCEPT !.pc = "monitor", !.id = m, !.read = status[m]]
  <2>1. status[m] \in MonitorStatus /\ status[m] # None /\ m # None
    BY ConstantsAssumption DEF TypeOK, MonitorStatus
  <2>2. r \in RequestType
    BY <1>1, <2>1 DEF RequestType
  <2>3. request' = [request EXCEPT ![q] = r]
    BY <1>7 DEF LoadMonitor
  <2>4. request' \in [Requests -> RequestType]
    BY <2>2, <2>3, RowUpdate DEF TypeOK
  <2> QED BY <1>7, <2>4 DEF LoadMonitor, database, TypeOK
<1> QED BY <1>3, <1>4, <1>5, <1>6, <1>7

\* What every change of an incident through the API does to the request.
LEMMA EndOfRequestTypes ==
  ASSUME TypeOK, NEW q \in Requests, NEW i \in IncidentIds, EndOfRequest(q, i)
  PROVE  /\ request' \in [Requests -> RequestType] /\ edits' \in Nat
         /\ UNCHANGED <<health, live, status, lock, recent, buffer, task, notices,
                        failures, faults, changes>>
<1>1. IdleRequest \in RequestType
  BY DEF IdleRequest, RequestType
<1>2. request' \in [Requests -> RequestType]
  BY <1>1, RowUpdate DEF EndOfRequest, TypeOK
<1>3. edits' \in Nat
  BY DEF EndOfRequest, Edit, TypeOK
<1> QED BY <1>2, <1>3, Zenon DEF EndOfRequest

\* Changes of an incident through the API preserve the types.
LEMMA IncidentEditTypeOK ==
  ASSUME TypeOK, NEW q \in Requests, NEW i \in IncidentIds,
         \/ LoadIncident(q, i) \/ CreateIncidentEvent(q, i) \/ UpdateIncident(q, i)
         \/ \E s \in IncidentStatus : UpdateIncidentStatus(q, i, s)
  PROVE  TypeOK'
<1>1. incident[i] \in IncidentType /\ timeline[i] \in TimelineType
  BY DEF TypeOK
<1>2. q \in Writers /\ "status" \in EventKinds
  BY DEF Writers, EventKinds
<1>3. CASE LoadIncident(q, i)
  <2>1. request[q] \in RequestType /\ i # None
    BY ConstantsAssumption DEF TypeOK
  <2>2. [request[q] EXCEPT !.pc = "incident", !.incident = i] \in RequestType
    BY <2>1 DEF RequestType
  <2>3. request' = [request EXCEPT ![q] = [request[q] EXCEPT !.pc = "incident", !.incident = i]]
    BY <1>3 DEF LoadIncident
  <2>4. request' \in [Requests -> RequestType]
    BY <2>2, <2>3, RowUpdate DEF TypeOK
  <2> QED BY <1>3, <2>4 DEF LoadIncident, database, TypeOK
<1>4. CASE CreateIncidentEvent(q, i)
  <2>1. PICK kind \in EventKinds, own \in TimelineType : StoreEvent(q, i, kind, own)
    BY <1>4, PostedEventType
  <2>2. timeline' \in [IncidentIds -> TimelineType] /\ late' \in [Writers -> SUBSET EventKinds]
    BY <1>2, <2>1, StoreEventEffect
  <2>3. EndOfRequest(q, i) /\ incident' = incident
    BY <1>4 DEF CreateIncidentEvent
  <2> QED BY <2>2, <2>3, EndOfRequestTypes DEF TypeOK
<1>5. CASE UpdateIncident(q, i)
  <2>1. PICK a \in BOOLEAN : incident' = [incident EXCEPT ![i].auto = a]
    BY <1>5 DEF UpdateIncident
  <2>2. [incident[i] EXCEPT !.auto = a] \in IncidentType
    BY <1>1 DEF IncidentType
  <2>3. incident' = [incident EXCEPT ![i] = [incident[i] EXCEPT !.auto = a]]
    BY <2>1
  <2>4. incident' \in [IncidentIds -> IncidentType]
    BY <2>2, <2>3, RowUpdate DEF TypeOK
  <2>5. late' \in [Writers -> SUBSET EventKinds]
    BY <1>5, LateEnds DEF UpdateIncident
  <2>6. EndOfRequest(q, i) /\ timeline' = timeline
    BY <1>5 DEF UpdateIncident
  <2> QED BY <2>4, <2>5, <2>6, EndOfRequestTypes DEF TypeOK
<1>6. ASSUME NEW s \in IncidentStatus, UpdateIncidentStatus(q, i, s) PROVE TypeOK'
  <2> DEFINE r == [incident[i] EXCEPT !.status = s, !.stamped = ResolvedAt(s)]
  <2>1. r \in IncidentType
    BY <1>1 DEF IncidentType, ResolvedAt
  <2>2. incident' = [incident EXCEPT ![i] = r] /\ EndOfRequest(q, i)
    BY <1>6, Zenon DEF UpdateIncidentStatus
  <2>3. incident' \in [IncidentIds -> IncidentType]
    BY <2>1, <2>2, RowUpdate DEF TypeOK
  <2>4. PICK own \in TimelineType : StoreEvent(q, i, "status", own)
    BY <1>6, StatusEventType
  <2>5. timeline' \in [IncidentIds -> TimelineType] /\ late' \in [Writers -> SUBSET EventKinds]
    BY <1>2, <2>4, StoreEventEffect
  <2> QED BY <2>2, <2>3, <2>5, EndOfRequestTypes DEF TypeOK
<1> QED BY <1>3, <1>4, <1>5, <1>6

\* Deleting a monitor preserves the types.
LEMMA DeleteMonitorTypeOK ==
  ASSUME TypeOK, NEW m \in Monitors, DeleteMonitor(m)
  PROVE  TypeOK'
<1>1. recent' \in [Pairs -> Seq(BOOLEAN)]
  <2>1. recent \in [Pairs -> Seq(BOOLEAN)] /\ <<>> \in Seq(BOOLEAN)
    BY DEF TypeOK
  <2> QED BY <2>1 DEF DeleteMonitor
<1>2. buffer' \in [Pairs -> Seq([ok : BOOLEAN, newer : Nat])]
  BY DEF DeleteMonitor, TypeOK
<1>3. \A i \in IncidentIds : [incident[i] EXCEPT !.links = @ \ {m}] \in IncidentType
  BY DEF TypeOK, IncidentType
<1>4. incident' \in [IncidentIds -> IncidentType]
  BY <1>3 DEF DeleteMonitor
<1>5. live' \subseteq Monitors /\ edits' \in Nat
  BY DEF DeleteMonitor, Edit, TypeOK
<1> QED BY <1>1, <1>2, <1>4, <1>5 DEF DeleteMonitor, TypeOK

\* The API changes no task, and of what the recorder has it only deletes.
LEMMA ApiKeeps ==
  ASSUME Api
  PROVE  /\ UNCHANGED task
         /\ UNCHANGED <<recent, buffer, failures>> \/ \E m \in Monitors : DeleteMonitor(m)
<1> DEFINE Kept == UNCHANGED <<task, recent, buffer, failures>>
<1>1. ASSUME NEW q \in Requests, NEW i \in IncidentIds, EndOfRequest(q, i) PROVE Kept
  BY <1>1 DEF EndOfRequest
<1>2. ASSUME NEW q \in Requests, NEW i \in IncidentIds, LoadIncident(q, i) PROVE Kept
  BY <1>2 DEF LoadIncident, database
<1>3. ASSUME NEW q \in Requests,
             \/ CheckNoOpenIncident(q) \/ CreateIncident(q) \/ UpdateMonitor(q)
             \/ AbandonRequest(q) \/ \E m \in Monitors : LoadMonitor(q, m)
      PROVE  Kept
  BY <1>3 DEF CheckNoOpenIncident, CreateIncident, UpdateMonitor, AbandonRequest, LoadMonitor,
              database
<1>4. ASSUME NEW m \in Monitors, DeleteMonitor(m) PROVE UNCHANGED task
  BY <1>4 DEF DeleteMonitor
<1>5. Kept \/ \E m \in Monitors : DeleteMonitor(m)
  <2> HIDE DEF Kept
  <2>1. ASSUME NEW q \in Requests, NEW i \in IncidentIds,
               CreateIncidentEvent(q, i) \/ UpdateIncident(q, i)
        PROVE  Kept
    BY <1>1, <2>1, Zenon DEF CreateIncidentEvent, UpdateIncident
  <2>2. ASSUME NEW q \in Requests, NEW i \in IncidentIds, NEW s \in IncidentStatus,
               UpdateIncidentStatus(q, i, s)
        PROVE  Kept
    BY <1>1, <2>2, Zenon DEF UpdateIncidentStatus
  <2> QED BY <1>2, <1>3, <2>1, <2>2, Zenon DEF Api
<1> QED BY <1>4, <1>5

\* In every reachable state every variable has its type, and what a handler
\* has read is there from the step that reads it on.
THEOREM TypeCorrect == Spec => []TypeOK
<1>1. Init => TypeOK
  BY InitTypeOK
<1>2. TypeOK /\ [Next]_vars => TypeOK'
  <2> SUFFICES ASSUME TypeOK, [Next]_vars PROVE TypeOK'
    OBVIOUS
  <2>1. CASE \/ \E m \in Monitors : ChangeHealth(m)
             \/ \E t \in Tasks, m \in Monitors, r \in Regions : Enqueue(t, m, r)
             \/ \E p \in Pairs : \E k \in 1..Len(buffer[p]) : Persist(p, k)
    BY <2>1, EnvironmentTypeOK
  <2>2. CASE \E t \in Tasks : Worker(t)
    BY <2>2, WorkerTypeOK
  <2>3. CASE \/ \E t \in Tasks : AbortIncident(t) \/ MissDeadline(t)
             \/ \E r \in Regions : CrashWorker(r)
    BY <2>3, FaultTypeOK
  <2>4. CASE Api
    BY <2>4, RequestTypeOK, IncidentEditTypeOK, DeleteMonitorTypeOK DEF Api
  <2>5. CASE UNCHANGED vars
    BY <2>5 DEF vars, TypeOK
  <2> QED BY <2>1, <2>2, <2>3, <2>4, <2>5 DEF Next
<1> QED BY <1>1, <1>2, PTL DEF Spec

-----------------------------------------------------------------------------
(* Incidents and their timelines *)

\* The actions that write rows of incidents and event_timelines.
LEMMA IncidentWriters ==
  ASSUME [Next]_vars
  PROVE  \/ UNCHANGED <<incident, timeline>>
         \/ \E t \in Tasks : CommitIncident(t)
         \/ \E q \in Requests : CreateIncident(q)
         \/ \E q \in Requests, i \in IncidentIds :
              \/ CreateIncidentEvent(q, i) \/ UpdateIncident(q, i)
              \/ \E s \in IncidentStatus : UpdateIncidentStatus(q, i, s)
         \/ \E m \in Monitors : DeleteMonitor(m)
<1>1. ASSUME NEW m \in Monitors, ChangeHealth(m) PROVE UNCHANGED <<incident, timeline>>
  BY <1>1 DEF ChangeHealth, database
<1>2. ASSUME NEW t \in Tasks, NEW m \in Monitors, NEW r \in Regions, Enqueue(t, m, r)
      PROVE  UNCHANGED <<incident, timeline>>
  BY <1>2 DEF Enqueue, database
<1>3. ASSUME NEW p \in Pairs, NEW k \in 1..Len(buffer[p]), Persist(p, k)
      PROVE  UNCHANGED <<incident, timeline>>
  BY <1>3 DEF Persist
<1>4. ASSUME NEW t \in Tasks, Worker(t), ~CommitIncident(t)
      PROVE  UNCHANGED <<incident, timeline>>
  <2>1. CASE RunPing(t)          BY <2>1 DEF RunPing, database
  <2>2. CASE LoadOpenIncident(t) BY <2>2 DEF LoadOpenIncident, database
  <2>3. CASE WriteStatus(t)      BY <2>3 DEF WriteStatus
  <2>4. CASE Decide(t)           BY <2>4 DEF Decide, database
  <2>5. CASE FailCreate(t)       BY <2>5 DEF FailCreate, RollBack
  <2>6. CASE Notify(t)           BY <2>6 DEF Notify, database
  <2> QED BY <1>4, <2>1, <2>2, <2>3, <2>4, <2>5, <2>6 DEF Worker
<1>5. ASSUME NEW t \in Tasks, AbortIncident(t) \/ MissDeadline(t)
      PROVE  UNCHANGED <<incident, timeline>>
  BY <1>5 DEF AbortIncident, RollBack, MissDeadline
<1>6. ASSUME NEW r \in Regions, CrashWorker(r) PROVE UNCHANGED <<incident, timeline>>
  BY <1>6 DEF CrashWorker
<1>7. ASSUME NEW q \in Requests,
             \/ CheckNoOpenIncident(q) \/ UpdateMonitor(q) \/ AbandonRequest(q)
             \/ \E m \in Monitors : LoadMonitor(q, m)
             \/ \E i \in IncidentIds : LoadIncident(q, i)
      PROVE  UNCHANGED <<incident, timeline>>
  BY <1>7 DEF CheckNoOpenIncident, UpdateMonitor, AbandonRequest, LoadMonitor, LoadIncident, database
<1>8. CASE UNCHANGED vars
  BY <1>8 DEF vars
<1> QED BY <1>1, <1>2, <1>3, <1>4, <1>5, <1>6, <1>7, <1>8 DEF Next, Api

\* What a worker's commit does to the rows.
LEMMA CommitEffects ==
  ASSUME NEW t \in Tasks, CommitIncident(t)
  PROVE  \/ UNCHANGED <<incident, timeline>>
         \/ AnnotateIncident(t) /\ task[t].plan = "update"
         \/ \E i \in IncidentIds : CreateIncidentIfAbsent(t, i)
         \/ \E i \in IncidentIds : ResolveIncident(t, i)
BY DEF CommitIncident

\* A worker's note leaves the rows and the resolutions of the timelines alone.
LEMMA AnnotationEffect ==
  ASSUME TypeOK, NEW t \in Tasks, CommitIncident(t), task[t].plan = "update"
  PROVE  /\ incident' = incident
         /\ \A j \in IncidentIds : timeline'[j].autos = timeline[j].autos
<1>1. AnnotateIncident(t) /\ incident' = incident /\ task[t].pc = "decided"
  BY DEF CommitIncident, AnnotateIncident
<1>2. task[t].open \in IncidentIds /\ IncidentMessage(t) \in Messages
  <2>1. task[t] \in TaskType
    BY DEF TypeOK
  <2> QED BY <1>1, <2>1, IncidentMessageType DEF TaskType
<1>3. PICK own \in TimelineType :
        /\ StoreEvent(t, task[t].open, "note", own)
        /\ own.autos = timeline[task[t].open].autos
  BY <1>1, <1>2, AnnotationType
<1>4. t \in Writers /\ "note" \in EventKinds
  BY DEF Writers, EventKinds
<1>5. /\ timeline'[task[t].open].autos = own.autos
      /\ \A j \in IncidentIds \ {task[t].open} : timeline'[j] = timeline[j]
  BY <1>2, <1>3, <1>4, StoreEventEffect
<1> QED BY <1>1, <1>3, <1>5

\* A worker's resolution of an incident is one more of its automatic recoveries.
LEMMA ResolutionEffect ==
  ASSUME TypeOK, NEW t \in Tasks, NEW i \in IncidentIds,
         task[t].pc = "decided", ResolveIncident(t, i)
  PROVE  /\ incident'[i].automatic = incident[i].automatic
         /\ incident'[i].status = "resolved"
         /\ timeline'[i].autos = timeline[i].autos + 1
         /\ \A j \in IncidentIds \ {i} : incident'[j] = incident[j] /\ timeline'[j] = timeline[j]
<1>1. IncidentMessage(t) \in Messages
  BY IncidentMessageType
<1>2. PICK own \in TimelineType :
        StoreEvent(t, i, "status", own) /\ own.autos = timeline[i].autos + 1
  BY <1>1, ResolutionType
<1>3. t \in Writers /\ "status" \in EventKinds
  BY DEF Writers, EventKinds
<1>4. /\ timeline'[i].autos = own.autos
      /\ \A j \in IncidentIds \ {i} : timeline'[j] = timeline[j]
  BY <1>2, <1>3, StoreEventEffect
<1>5. /\ incident'[i].automatic = incident[i].automatic /\ incident'[i].status = "resolved"
      /\ \A j \in IncidentIds \ {i} : incident'[j] = incident[j]
  BY DEF ResolveIncident, TypeOK, IncidentType
<1> QED BY <1>2, <1>4, <1>5

\* What the API changes of an incident that is there: it stays there, with its
\* links, its origin and its automatic recoveries.
LEMMA IncidentEditEffect ==
  ASSUME TypeOK, NEW q \in Requests, NEW i \in IncidentIds,
         \/ CreateIncidentEvent(q, i) \/ UpdateIncident(q, i)
         \/ \E s \in IncidentStatus : UpdateIncidentStatus(q, i, s)
  PROVE  /\ UNCHANGED <<task, notices>>
         /\ \A j \in IncidentIds :
              /\ incident'[j].automatic = incident[j].automatic
              /\ incident'[j].links = incident[j].links
              /\ Exists(j)' <=> Exists(j)
              /\ timeline'[j].autos = timeline[j].autos
<1>1. /\ incident \in [IncidentIds -> IncidentType]
      /\ timeline \in [IncidentIds -> TimelineType]
      /\ q \in Writers /\ "status" \in EventKinds
  BY DEF TypeOK, Writers, EventKinds
<1>2. EndOfRequest(q, i)
  BY Zenon DEF CreateIncidentEvent, UpdateIncident, UpdateIncidentStatus
<1>3. UNCHANGED <<task, notices>> /\ Exists(i)
  BY <1>2 DEF EndOfRequest
<1>4. CASE CreateIncidentEvent(q, i)
  <2>1. PICK kind \in EventKinds, own \in TimelineType :
          StoreEvent(q, i, kind, own) /\ own.autos = timeline[i].autos
    BY <1>4, PostedEventType
  <2>2. /\ timeline'[i].autos = own.autos
        /\ \A j \in IncidentIds \ {i} : timeline'[j] = timeline[j]
    BY <1>1, <2>1, StoreEventEffect
  <2>3. incident' = incident
    BY <1>4 DEF CreateIncidentEvent
  <2> QED BY <1>3, <2>1, <2>2, <2>3 DEF Exists
<1>5. CASE UpdateIncident(q, i)
  BY <1>1, <1>3, <1>5 DEF UpdateIncident, IncidentType, Exists
<1>6. ASSUME NEW s \in IncidentStatus, UpdateIncidentStatus(q, i, s)
      PROVE  \A j \in IncidentIds :
               /\ incident'[j].automatic = incident[j].automatic
               /\ incident'[j].links = incident[j].links
               /\ Exists(j)' <=> Exists(j)
               /\ timeline'[j].autos = timeline[j].autos
  <2>1. incident' = [incident EXCEPT ![i].status = s, ![i].stamped = ResolvedAt(s)]
    BY <1>6, Zenon DEF UpdateIncidentStatus
  <2>2. PICK own \in TimelineType :
          StoreEvent(q, i, "status", own) /\ own.autos = timeline[i].autos
    BY <1>6, StatusEventType
  <2>3. /\ timeline'[i].autos = own.autos
        /\ \A j \in IncidentIds \ {i} : timeline'[j] = timeline[j]
    BY <1>1, <2>2, StoreEventEffect
  <2>4. /\ incident'[i].status = s /\ s # None
        /\ incident'[i].automatic = incident[i].automatic
        /\ incident'[i].links = incident[i].links
        /\ \A j \in IncidentIds \ {i} : incident'[j] = incident[j]
    BY <1>1, <2>1, ConstantsAssumption DEF IncidentType, IncidentStatus
  <2> QED BY <1>3, <2>2, <2>3, <2>4 DEF Exists
<1> QED BY <1>3, <1>4, <1>5, <1>6

RowsConsistent == ResolvedIsStamped /\ StatusMatchesTimeline

\* Each writer leaves status, resolved_at and the last status event of the
\* row it writes in agreement, whatever it found there.
LEMMA RowsConsistentStep ==
  ASSUME TypeOK, RowsConsistent, [Next]_vars
  PROVE  RowsConsistent'
<1> DEFINE Agrees(row, event) ==
             /\ row.stamped <=> row.status = "resolved"
             /\ row.status # None /\ ~event.disputed =>
                  \/ event.last = EventTypeFromStatus(row.status)
                  \/ event.last = "auto_resolved" /\ row.status = "resolved"
<1>1. \A j \in IncidentIds : Agrees(incident[j], timeline[j])
  BY DEF RowsConsistent, ResolvedIsStamped, StatusMatchesTimeline, Exists
<1>2. SUFFICES \A j \in IncidentIds : Agrees(incident'[j], timeline'[j])
  BY DEF RowsConsistent, ResolvedIsStamped, StatusMatchesTimeline, Exists
<1>3. /\ incident \in [IncidentIds -> IncidentType]
      /\ timeline \in [IncidentIds -> TimelineType]
  BY DEF TypeOK
<1>0. \A w \in Tasks \cup Requests : w \in Writers
  BY DEF Writers
<1>00. "status" \in EventKinds /\ "note" \in EventKinds
  BY DEF EventKinds
<1>4. ASSUME NEW t \in Tasks, CommitIncident(t), task[t].plan = "update"
      PROVE  \A j \in IncidentIds : Agrees(incident'[j], timeline'[j])
  <2> DEFINE i == task[t].open
  <2>1. AnnotateIncident(t) /\ incident' = incident /\ task[t].pc = "decided"
    BY <1>4 DEF CommitIncident, AnnotateIncident
  <2>2. i \in IncidentIds /\ IncidentMessage(t) \in Messages
    <3>1. task[t] \in TaskType
      BY DEF TypeOK
    <3> QED BY <1>4, <2>1, <3>1, IncidentMessageType DEF TaskType
  <2>3. PICK own \in TimelineType :
          /\ StoreEvent(t, i, "note", own)
          /\ own.disputed = timeline[i].disputed /\ own.last = timeline[i].last
    BY <2>1, <2>2, AnnotationType
  <2>4. /\ timeline'[i].disputed = timeline[i].disputed /\ timeline'[i].last = timeline[i].last
        /\ \A j \in IncidentIds \ {i} : timeline'[j] = timeline[j]
    BY <1>0, <1>00, <2>2, <2>3, StoreEventEffect
  <2> HIDE DEF i
  <2> QED BY <1>1, <2>1, <2>4
<1>5. ASSUME NEW t \in Tasks, NEW i \in IncidentIds, CreateIncidentIfAbsent(t, i)
      PROVE  \A j \in IncidentIds : Agrees(incident'[j], timeline'[j])
  BY <1>1, <1>3, <1>5 DEF CreateIncidentIfAbsent, EventTypeFromStatus
<1>6. ASSUME NEW t \in Tasks, NEW i \in IncidentIds, CommitIncident(t), ResolveIncident(t, i)
      PROVE  \A j \in IncidentIds : Agrees(incident'[j], timeline'[j])
  <2>1. IncidentMessage(t) \in Messages
    BY <1>6, IncidentMessageType DEF CommitIncident
  <2>2. PICK own \in TimelineType :
          /\ StoreEvent(t, i, "status", own)
          /\ own.disputed <=> "status" \in late[t]
          /\ own.last = "auto_resolved"
    BY <1>6, <2>1, ResolutionType
  <2>3. /\ timeline'[i].disputed <=> "status" \in late[t]
        /\ "status" \notin late[t] => timeline'[i].last = "auto_resolved"
        /\ \A j \in IncidentIds \ {i} : timeline'[j] = timeline[j]
    BY <1>0, <1>00, <2>2, StoreEventEffect
  <2>4. /\ incident'[i].status = "resolved" /\ incident'[i].stamped
        /\ \A j \in IncidentIds \ {i} : incident'[j] = incident[j]
    BY <1>3, <1>6 DEF ResolveIncident, IncidentType
  <2> QED BY <1>1, <2>3, <2>4
<1>7. ASSUME NEW q \in Requests, CreateIncident(q)
      PROVE  \A j \in IncidentIds : Agrees(incident'[j], timeline'[j])
  <2>1. PICK i \in IncidentIds, s \in IncidentStatus, a \in BOOLEAN, at \in StartTimes :
          /\ incident' = [incident EXCEPT ![i] =
               [status |-> s, stamped |-> ResolvedAt(s), auto |-> a,
                links |-> request[q].monitors, started |-> at, automatic |-> FALSE]]
          /\ timeline' = [timeline EXCEPT ![i] =
               [last |-> EventTypeFromStatus(s), message |-> UserMessage, autos |-> 0,
                disputed |-> FALSE]]
    BY <1>7, Zenon DEF CreateIncident
  <2> SUFFICES ASSUME NEW j \in IncidentIds PROVE Agrees(incident'[j], timeline'[j])
    OBVIOUS
  <2>2. CASE i = j
    <3>1. /\ incident'[j].status = s /\ incident'[j].stamped = ResolvedAt(s)
          /\ timeline'[j].last = EventTypeFromStatus(s)
      BY <1>3, <2>1, <2>2
    <3> QED BY <3>1 DEF ResolvedAt
  <2>3. CASE i # j
    <3>1. incident'[j] = incident[j] /\ timeline'[j] = timeline[j]
      BY <1>3, <2>1, <2>3
    <3> QED BY <1>1, <3>1
  <2> QED BY <2>2, <2>3
<1>8. ASSUME NEW q \in Requests, NEW i \in IncidentIds, CreateIncidentEvent(q, i)
      PROVE  \A j \in IncidentIds : Agrees(incident'[j], timeline'[j])
  <2>1. PICK kind \in EventKinds, own \in TimelineType :
          /\ StoreEvent(q, i, kind, own)
          /\ \/ own.disputed
             \/ own.last = timeline[i].last /\ own.disputed = timeline[i].disputed
    BY <1>8, PostedEventType
  <2>2. /\ \/ timeline'[i].disputed
           \/ timeline'[i].last = timeline[i].last /\ timeline'[i].disputed = timeline[i].disputed
        /\ \A j \in IncidentIds \ {i} : timeline'[j] = timeline[j]
    BY <1>0, <2>1, StoreEventEffect
  <2>3. incident' = incident
    BY <1>8 DEF CreateIncidentEvent
  <2> QED BY <1>1, <2>2, <2>3
<1>9. ASSUME NEW q \in Requests, NEW i \in IncidentIds, UpdateIncident(q, i)
      PROVE  \A j \in IncidentIds : Agrees(incident'[j], timeline'[j])
  BY <1>1, <1>3, <1>9 DEF UpdateIncident, IncidentType
<1>10. ASSUME NEW q \in Requests, NEW i \in IncidentIds, NEW s \in IncidentStatus,
              UpdateIncidentStatus(q, i, s)
       PROVE  \A j \in IncidentIds : Agrees(incident'[j], timeline'[j])
  <2>1. incident' = [incident EXCEPT ![i].status = s, ![i].stamped = ResolvedAt(s)]
    BY <1>10, Zenon DEF UpdateIncidentStatus
  <2>2. PICK own \in TimelineType :
          /\ StoreEvent(q, i, "status", own)
          /\ own.disputed <=> "status" \in late[q]
          /\ own.last = EventTypeFromStatus(s)
    BY <1>10, StatusEventType
  <2>3. /\ timeline'[i].disputed <=> "status" \in late[q]
        /\ "status" \notin late[q] => timeline'[i].last = EventTypeFromStatus(s)
        /\ \A j \in IncidentIds \ {i} : timeline'[j] = timeline[j]
    BY <1>0, <1>00, <2>2, StoreEventEffect
  <2>4. /\ incident'[i].status = s /\ (incident'[i].stamped <=> s = "resolved")
        /\ \A j \in IncidentIds \ {i} : incident'[j] = incident[j]
    BY <1>3, <2>1 DEF IncidentType, ResolvedAt
  <2> QED BY <1>1, <2>3, <2>4
<1>11. ASSUME NEW m \in Monitors, DeleteMonitor(m)
       PROVE  \A j \in IncidentIds : Agrees(incident'[j], timeline'[j])
  BY <1>1, <1>3, <1>11 DEF DeleteMonitor, IncidentType
<1> QED
  BY <1>1, <1>4, <1>5, <1>6, <1>7, <1>8, <1>9, <1>10, <1>11, IncidentWriters, CommitEffects

\* Status, resolved_at and timeline of every incident agree in every
\* reachable state.
LEMMA RowsAlwaysConsistent == Spec => []RowsConsistent
<1>1. Init => RowsConsistent
  BY ConstantsAssumption
     DEF Init, RowsConsistent, ResolvedIsStamped, StatusMatchesTimeline, Exists, NoIncident
<1>2. TypeOK /\ RowsConsistent /\ [Next]_vars => RowsConsistent'
  BY RowsConsistentStep
<1> QED BY <1>1, <1>2, TypeCorrect, PTL DEF Spec

\* resolved_at is set exactly while the status is "resolved".
THEOREM ResolvedAlwaysStamped == Spec => []ResolvedIsStamped
<1>1. RowsConsistent => ResolvedIsStamped
  BY DEF RowsConsistent
<1> QED BY <1>1, RowsAlwaysConsistent, PTL

\* Read by created_at, the timeline of every incident whose order of events is
\* not in dispute ends with the event of its status.
THEOREM StatusAlwaysMatchesTimeline == Spec => []StatusMatchesTimeline
<1>1. RowsConsistent => StatusMatchesTimeline
  BY DEF RowsConsistent
<1> QED BY <1>1, RowsAlwaysConsistent, PTL

\* At most one writer of an incident has taken the created_at of an event.
WritersApart ==
  \A i \in IncidentIds : \A v, w \in EventWriters(i) : v = w

\* Nobody is late and nothing is in dispute.
InOrder == /\ \A w \in Writers : late[w] = {}
           /\ \A i \in IncidentIds : ~timeline[i].disputed

\* Who stores an event for an incident is among its writers.
LEMMA StoredInOrder ==
  ASSUME TypeOK, WritersApart, InOrder, NEW i \in IncidentIds, NEW w \in EventWriters(i),
         NEW kind \in EventKinds, NEW own \in TimelineType, StoreEvent(w, i, kind, own),
         ~own.disputed
  PROVE  InOrder'
<1>1. w \in Writers
  BY DEF EventWriters, Writers
<1>2. timeline'[i].disputed = own.disputed /\ \A j \in IncidentIds \ {i} : timeline'[j] = timeline[j]
  BY <1>1, StoreEventEffect
<1>3. \A v \in EventWriters(i) : v = w
  BY DEF WritersApart
<1>4. \A v \in Writers : late'[v] = {}
  BY <1>3 DEF StoreEvent, InOrder
<1> QED BY <1>2, <1>4 DEF InOrder

\* Only an event that is stored makes a writer late.
LEMMA LateWriters ==
  ASSUME TypeOK, [Next]_vars
  PROVE  \/ \A w \in Writers : late'[w] \subseteq late[w]
         \/ \E t \in Tasks : CommitIncident(t)
         \/ \E q \in Requests, i \in IncidentIds :
              \/ CreateIncidentEvent(q, i)
              \/ \E s \in IncidentStatus : UpdateIncidentStatus(q, i, s)
<1> DEFINE Fewer == \A w \in Writers : late'[w] \subseteq late[w]
<1>0. late \in [Writers -> SUBSET EventKinds]
  BY DEF TypeOK
<1>1. ASSUME UNCHANGED late PROVE Fewer
  BY <1>1
<1>2. ASSUME NEW w, late' = [late EXCEPT ![w] = {}] PROVE Fewer
  BY <1>0, <1>2
<1>3. ASSUME NEW m \in Monitors, ChangeHealth(m) PROVE Fewer
  BY <1>1, <1>3 DEF ChangeHealth, database
<1>4. ASSUME NEW t \in Tasks, NEW m \in Monitors, NEW r \in Regions, Enqueue(t, m, r) PROVE Fewer
  BY <1>1, <1>4 DEF Enqueue, database
<1>5. ASSUME NEW p \in Pairs, NEW k \in 1..Len(buffer[p]), Persist(p, k) PROVE Fewer
  BY <1>1, <1>5 DEF Persist
<1>6. ASSUME NEW t \in Tasks, Worker(t), ~CommitIncident(t) PROVE Fewer
  <2>1. CASE RunPing(t)          BY <1>1, <2>1 DEF RunPing, database
  <2>2. CASE LoadOpenIncident(t) BY <1>1, <2>2 DEF LoadOpenIncident, database
  <2>3. CASE WriteStatus(t)      BY <1>1, <2>3 DEF WriteStatus
  <2>4. CASE Decide(t)           BY <1>1, <2>4 DEF Decide, database
  <2>5. CASE FailCreate(t)       BY <1>2, <2>5 DEF FailCreate, RollBack
  <2>6. CASE Notify(t)           BY <1>1, <2>6 DEF Notify, database
  <2> QED BY <1>6, <2>1, <2>2, <2>3, <2>4, <2>5, <2>6 DEF Worker
<1>7. ASSUME NEW t \in Tasks, AbortIncident(t) \/ MissDeadline(t) PROVE Fewer
  BY <1>2, <1>7 DEF AbortIncident, RollBack, MissDeadline
<1>8. ASSUME NEW r \in Regions, CrashWorker(r) PROVE Fewer
  BY <1>0, <1>8 DEF CrashWorker
<1>9. ASSUME NEW q \in Requests,
             \/ CheckNoOpenIncident(q) \/ CreateIncident(q) \/ UpdateMonitor(q)
             \/ \E m \in Monitors : LoadMonitor(q, m)
             \/ \E i \in IncidentIds : LoadIncident(q, i)
      PROVE  Fewer
  BY <1>1, <1>9 DEF CheckNoOpenIncident, CreateIncident, UpdateMonitor, LoadMonitor, LoadIncident,
                    database
<1>10. ASSUME NEW q \in Requests, AbandonRequest(q) \/ \E i \in IncidentIds : UpdateIncident(q, i)
       PROVE  Fewer
  BY <1>2, <1>10 DEF AbandonRequest, UpdateIncident
<1>11. ASSUME NEW m \in Monitors, DeleteMonitor(m) PROVE Fewer
  BY <1>1, <1>11 DEF DeleteMonitor
<1>12. UNCHANGED vars => Fewer
  BY <1>1 DEF vars
<1> HIDE DEF Fewer
<1>13. Api => \/ Fewer
              \/ \E q \in Requests, i \in IncidentIds :
                   \/ CreateIncidentEvent(q, i)
                   \/ \E s \in IncidentStatus : UpdateIncidentStatus(q, i, s)
  BY <1>9, <1>10, <1>11, Zenon DEF Api
<1>14. \/ Fewer \/ \E t \in Tasks : CommitIncident(t)
       \/ \E q \in Requests, i \in IncidentIds :
            \/ CreateIncidentEvent(q, i)
            \/ \E s \in IncidentStatus : UpdateIncidentStatus(q, i, s)
  BY <1>3, <1>4, <1>5, <1>6, <1>7, <1>8, <1>12, <1>13, Zenon DEF Next
<1> QED BY <1>14 DEF Fewer

\* Nobody posts an event by hand.
NothingPosted == \A q \in Requests, i \in IncidentIds : ~CreateIncidentEvent(q, i)

\* What is in order stays so as long as writers stay apart.
LEMMA InOrderStep ==
  ASSUME TypeOK, WritersApart, InOrder, [Next]_vars, NothingPosted
  PROVE  InOrder'
<1>1. /\ timeline \in [IncidentIds -> TimelineType]
      /\ "status" \in EventKinds /\ "note" \in EventKinds
  BY DEF TypeOK, EventKinds
<1>2. ASSUME NEW t \in Tasks, CommitIncident(t) PROVE InOrder'
  <2>1. task[t] \in TaskType /\ task[t].pc = "decided"
    BY <1>2 DEF TypeOK, CommitIncident
  <2>2. IncidentMessage(t) \in Messages /\ late[t] = {}
    BY <2>1, IncidentMessageType DEF InOrder, Writers
  <2>3. CASE task[t].plan = "none"
    BY <1>2, <2>3 DEF CommitIncident, InOrder
  <2>4. CASE task[t].plan = "update"
    <3>1. task[t].open \in IncidentIds /\ AnnotateIncident(t)
      BY <1>2, <2>1, <2>4 DEF TaskType, CommitIncident
    <3>2. PICK own \in TimelineType :
            /\ StoreEvent(t, task[t].open, "note", own)
            /\ own.disputed = timeline[task[t].open].disputed
      BY <2>2, <3>1, AnnotationType
    <3>3. t \in EventWriters(task[t].open)
      BY <2>1, <2>4 DEF EventWriters
    <3>4. ~own.disputed
      BY <3>1, <3>2 DEF InOrder
    <3> QED BY <1>1, <3>1, <3>2, <3>3, <3>4, StoredInOrder
  <2>5. CASE task[t].plan = "create"
    <3>1. PICK i \in IncidentIds : CreateIncidentIfAbsent(t, i)
      BY <1>2, <2>5 DEF CommitIncident
    <3>2. timeline' = [timeline EXCEPT ![i] =
            [last |-> "detected", message |-> IncidentMessage(t), autos |-> 0, disputed |-> FALSE]]
      BY <3>1 DEF CreateIncidentIfAbsent
    <3>3. late' = late
      BY <3>1 DEF CreateIncidentIfAbsent
    <3>4. \A j \in IncidentIds : ~timeline'[j].disputed
      BY <1>1, <3>2 DEF InOrder
    <3> QED BY <3>3, <3>4 DEF InOrder
  <2>6. CASE task[t].plan = "resolve"
    <3>1. PICK i \in IncidentIds : ResolveIncident(t, i)
      BY <1>2, <2>6 DEF CommitIncident
    <3>2. PICK own \in TimelineType :
            StoreEvent(t, i, "status", own) /\ (own.disputed <=> "status" \in late[t])
      BY <2>2, <3>1, ResolutionType
    <3>3. t \in EventWriters(i)
      BY <2>1, <2>6, <3>1 DEF EventWriters, ResolveIncident
    <3>4. ~own.disputed
      BY <2>2, <3>2
    <3> QED BY <1>1, <3>2, <3>3, <3>4, StoredInOrder
  <2>7. task[t].plan \in Plans
    BY <2>1 DEF TaskType
  <2> QED BY <2>3, <2>4, <2>5, <2>6, <2>7 DEF Plans
<1>3. ASSUME NEW q \in Requests, NEW i \in IncidentIds, NEW s \in IncidentStatus,
             UpdateIncidentStatus(q, i, s)
      PROVE  InOrder'
  <2>1. PICK own \in TimelineType :
          StoreEvent(q, i, "status", own) /\ (own.disputed <=> "status" \in late[q])
    BY <1>3, StatusEventType
  <2>2. EndOfRequest(q, i)
    BY <1>3, Zenon DEF UpdateIncidentStatus
  <2>3. q \in EventWriters(i) /\ late[q] = {}
    BY <2>2 DEF EndOfRequest, EventWriters, InOrder, Writers
  <2>4. ~own.disputed
    BY <2>1, <2>3
  <2> QED BY <1>1, <2>1, <2>3, <2>4, StoredInOrder
<1>4. ASSUME \A w \in Writers : late'[w] \subseteq late[w],
             \A i \in IncidentIds : ~timeline'[i].disputed
      PROVE  InOrder'
  BY <1>4 DEF InOrder
<1>5. ASSUME NEW q \in Requests, CreateIncident(q)
      PROVE  \A i \in IncidentIds : ~timeline'[i].disputed
  <2>1. PICK i \in IncidentIds, s \in IncidentStatus :
          timeline' = [timeline EXCEPT ![i] =
            [last |-> EventTypeFromStatus(s), message |-> UserMessage, autos |-> 0,
             disputed |-> FALSE]]
    BY <1>5 DEF CreateIncident
  <2> QED BY <1>1, <2>1 DEF InOrder
<1>6. ASSUME timeline' = timeline PROVE \A i \in IncidentIds : ~timeline'[i].disputed
  BY <1>6 DEF InOrder
<1>7. ASSUME NEW q \in Requests, NEW i \in IncidentIds, UpdateIncident(q, i)
      PROVE  timeline' = timeline
  BY <1>7 DEF UpdateIncident
<1>8. ASSUME NEW m \in Monitors, DeleteMonitor(m) PROVE timeline' = timeline
  BY <1>8 DEF DeleteMonitor
<1> QED
  BY <1>2, <1>3, <1>4, <1>5, <1>6, <1>7, <1>8, IncidentWriters, LateWriters DEF NothingPosted

\* As long as no two writers of one incident overlap and nobody posts an event
\* by hand, no timeline is in dispute: those are all the ways in which a status
\* and the last event of its timeline part (update_incident_status.go:96-103,
\* monitor_ping.go:316-319, create_incident_event.go:95).
THEOREM TimelineMatchesWhenApart ==
  Spec /\ []WritersApart /\ [][NothingPosted]_vars
    => [](\A i \in IncidentIds : Exists(i) =>
            \/ timeline[i].last = EventTypeFromStatus(incident[i].status)
            \/ timeline[i].last = "auto_resolved" /\ incident[i].status = "resolved")
<1>1. Init => InOrder
  BY DEF Init, InOrder, NoTimeline
<1>2. TypeOK /\ WritersApart /\ InOrder /\ [Next /\ NothingPosted]_vars => InOrder'
  <2>1. ASSUME TypeOK, WritersApart, InOrder, Next, NothingPosted PROVE InOrder'
    BY <2>1, InOrderStep
  <2>2. ASSUME InOrder, UNCHANGED vars PROVE InOrder'
    BY <2>2 DEF InOrder, vars
  <2> QED BY <2>1, <2>2
<1>3. InOrder /\ StatusMatchesTimeline =>
        \A i \in IncidentIds : Exists(i) =>
          \/ timeline[i].last = EventTypeFromStatus(incident[i].status)
          \/ timeline[i].last = "auto_resolved" /\ incident[i].status = "resolved"
  BY DEF InOrder, StatusMatchesTimeline
<1> QED BY <1>1, <1>2, <1>3, TypeCorrect, StatusAlwaysMatchesTimeline, PTL DEF Spec

-----------------------------------------------------------------------------
(* Row locks *)

\* The property is inductive: a task leaves its transaction only by steps that
\* release what it holds.
LEMMA LocksStep ==
  ASSUME TypeOK, LocksAreHeldInTransaction, [Next]_vars
  PROVE  LocksAreHeldInTransaction'
<1> DEFINE Held(m) == lock[m] # None =>
             /\ m \in live
             /\ task[lock[m]].monitor = m
             /\ task[lock[m]].pc \in {"ready", "decided"}
           Others(t) == \A u \in Tasks \ {t} : task'[u] = task[u]
<1>1. \A m \in Monitors : Held(m)
  BY DEF LocksAreHeldInTransaction
<1>2. /\ task \in [Tasks -> TaskType]
      /\ lock \in [Monitors -> Tasks \cup {None}]
      /\ None \notin Tasks
      /\ \A u \in Tasks : task[u] \in TaskType
  BY ConstantsAssumption DEF TypeOK
<1>3. SUFFICES ASSUME NEW m \in Monitors PROVE Held(m)'
  BY DEF LocksAreHeldInTransaction
<1>4. CASE UNCHANGED <<task, lock, live>>
  BY <1>1, <1>4
<1>5. ASSUME NEW t \in Tasks, Others(t), UNCHANGED <<lock, live>>,
             task[t].pc \notin {"ready", "decided"}
      PROVE  Held(m)'
  BY <1>1, <1>2, <1>5
<1>6. ASSUME NEW t \in Tasks, Others(t), Unlock(t), UNCHANGED live
      PROVE  Held(m)'
  BY <1>1, <1>2, <1>6 DEF Unlock
<1>7. ASSUME NEW n \in Monitors, ChangeHealth(n) PROVE Held(m)'
  BY <1>4, <1>7 DEF ChangeHealth, database
<1>8. ASSUME NEW t \in Tasks, NEW n \in Monitors, NEW r \in Regions, Enqueue(t, n, r)
      PROVE  Held(m)'
  BY <1>2, <1>5, <1>8 DEF Enqueue, database
<1>9. ASSUME NEW p \in Pairs, NEW k \in 1..Len(buffer[p]), Persist(p, k) PROVE Held(m)'
  BY <1>4, <1>9 DEF Persist
<1>10. ASSUME NEW t \in Tasks, Worker(t) PROVE Held(m)'
  <2>1. CASE RunPing(t)          BY <1>2, <1>5, <2>1 DEF RunPing, database
  <2>2. CASE LoadOpenIncident(t) BY <1>2, <1>5, <2>2 DEF LoadOpenIncident, database
  <2>3. CASE WriteStatus(t)
    <3>1. Others(t) /\ task'[t].monitor = task[t].monitor /\ task'[t].pc = "ready"
      BY <1>2, <2>3 DEF WriteStatus, TaskType
    <3>2. live' = live /\ task[t].pc = "loaded"
      BY <2>3 DEF WriteStatus
    <3>3. CASE lock' = lock
      BY <1>2, <1>5, <3>1, <3>2, <3>3
    <3>4. CASE task[t].monitor \in live /\ lock' = [lock EXCEPT ![task[t].monitor] = t]
      BY <1>1, <1>2, <3>1, <3>2, <3>4
    <3> QED BY <2>3, <3>3, <3>4 DEF WriteStatus
  <2>4. CASE Decide(t)
    <3>1. /\ Others(t) /\ task'[t].monitor = task[t].monitor /\ task'[t].pc = "decided"
          /\ UNCHANGED <<lock, live>>
      BY <1>2, <2>4 DEF Decide, TaskType, database
    <3> QED BY <1>1, <1>2, <3>1
  <2>5. CASE CommitIncident(t)
    <3>1. Others(t)
      BY <1>2, <2>5 DEF CommitIncident
    <3> QED BY <1>6, <2>5, <3>1 DEF CommitIncident
  <2>6. CASE FailCreate(t)       BY <1>2, <1>6, <2>6 DEF FailCreate, RollBack
  <2>7. CASE Notify(t)           BY <1>2, <1>5, <2>7 DEF Notify, database
  <2> QED BY <1>10, <2>1, <2>2, <2>3, <2>4, <2>5, <2>6, <2>7 DEF Worker
<1>11. ASSUME NEW t \in Tasks, AbortIncident(t) \/ MissDeadline(t) PROVE Held(m)'
  BY <1>2, <1>6, <1>11 DEF AbortIncident, RollBack, MissDeadline
<1>12. ASSUME NEW r \in Regions, CrashWorker(r) PROVE Held(m)'
  <2>1. /\ live' = live
        /\ lock' = [n \in Monitors |->
             IF \E t \in Tasks : lock[n] = t /\ task[t].region = r THEN None ELSE lock[n]]
        /\ \A t \in Tasks : task[t].region # r => task'[t] = task[t]
    BY <1>12 DEF CrashWorker
  <2>2. CASE lock[m] = None
    BY <1>2, <2>1, <2>2
  <2>3. CASE lock[m] \in Tasks
    BY <1>1, <1>2, <2>1, <2>3
  <2> QED BY <1>2, <2>2, <2>3
<1>13. CASE Api
  <2>1. ASSUME NEW q \in Requests,
               \/ CheckNoOpenIncident(q) \/ CreateIncident(q)
               \/ UpdateMonitor(q) \/ AbandonRequest(q)
               \/ \E n \in Monitors : LoadMonitor(q, n)
               \/ \E i \in IncidentIds : LoadIncident(q, i)
        PROVE  UNCHANGED <<task, lock, live>>
    BY <2>1 DEF CheckNoOpenIncident, CreateIncident, UpdateMonitor, AbandonRequest,
                LoadMonitor, LoadIncident, database
  <2>2. ASSUME NEW q \in Requests, NEW i \in IncidentIds,
               \/ CreateIncidentEvent(q, i) \/ UpdateIncident(q, i)
               \/ \E s \in IncidentStatus : UpdateIncidentStatus(q, i, s)
        PROVE  UNCHANGED <<task, lock, live>>
    BY <2>2, Zenon DEF CreateIncidentEvent, UpdateIncident, UpdateIncidentStatus, EndOfRequest
  <2>3. ASSUME NEW n \in Monitors, DeleteMonitor(n) PROVE Held(m)'
    BY <1>1, <1>2, <2>3 DEF DeleteMonitor
  <2> QED BY <1>4, <1>13, <2>1, <2>2, <2>3 DEF Api
<1>14. CASE UNCHANGED vars
  BY <1>4, <1>14 DEF vars
<1> QED BY <1>7, <1>8, <1>9, <1>10, <1>11, <1>12, <1>13, <1>14 DEF Next

\* No path through the handler, fault included, leaves a row locked by a task
\* that is not in its transaction on an existing row.
THEOREM LocksAlwaysHeldInTransaction == Spec => []LocksAreHeldInTransaction
<1>1. Init => LocksAreHeldInTransaction
  BY DEF Init, LocksAreHeldInTransaction
<1>2. TypeOK /\ LocksAreHeldInTransaction /\ [Next]_vars => LocksAreHeldInTransaction'
  BY LocksStep
<1> QED BY <1>1, <1>2, TypeCorrect, PTL DEF Spec

-----------------------------------------------------------------------------
(* Alerts *)

\* The tasks that still owe the alert of a transition they committed.
Owing(plan, i) ==
  {t \in Tasks : task[t].pc = "committed" /\ task[t].plan = plan /\ task[t].open = i}

\* NoticesJustified counts what was enqueued; to be inductive it also has to
\* count what is still owed.
AlertsAccounted(i) ==
  /\ ~Exists(i) => notices[i].opened = 0 /\ Owing("create", i) = {} /\ timeline[i].autos = 0
  /\ notices[i].opened <= IF incident[i].automatic THEN 1 ELSE 0
  /\ \A t \in Owing("create", i) : incident[i].automatic /\ notices[i].opened = 0
  /\ \A t, u \in Owing("create", i) : t = u
  /\ notices[i].resolved + Cardinality(Owing("resolve", i)) <= timeline[i].autos

AlertsInv == \A i \in IncidentIds : AlertsAccounted(i)

\* Tasks are finite, and so is what they owe.
LEMMA OwingFinite ==
  ASSUME NEW plan, NEW i
  PROVE  /\ IsFiniteSet(Owing(plan, i))
         /\ Cardinality(Owing(plan, i)) \in Nat
<1>1. Owing(plan, i) \in SUBSET Tasks
  BY DEF Owing
<1>2. IsFiniteSet(Owing(plan, i))
  BY <1>1, FS_Subset, ConstantsAssumption
<1> QED BY <1>2, FS_CardinalityType

\* A step that sends nothing, commits no transition and makes no task owe more
\* keeps the account.
LEMMA QuietStep ==
  ASSUME TypeOK, AlertsInv, notices' = notices,
         \A i \in IncidentIds : /\ incident'[i].automatic = incident[i].automatic
                                /\ ~Exists(i)' => ~Exists(i)
                                /\ timeline'[i].autos = timeline[i].autos,
         \A t \in Tasks : task'[t] = task[t] \/ task'[t].pc # "committed"
  PROVE  AlertsInv'
<1> SUFFICES ASSUME NEW i \in IncidentIds PROVE AlertsAccounted(i)'
  BY DEF AlertsInv
<1>1. \A plan : Owing(plan, i)' \subseteq Owing(plan, i)
  BY DEF Owing
<1>2. Cardinality(Owing("resolve", i)') <= Cardinality(Owing("resolve", i))
  BY <1>1, OwingFinite, FS_Subset
<1>3. /\ Cardinality(Owing("resolve", i)) \in Nat
      /\ Cardinality(Owing("resolve", i)') \in Nat
  <2>1. IsFiniteSet(Owing("resolve", i)')
    BY <1>1, OwingFinite, FS_Subset
  <2> QED BY <2>1, OwingFinite, FS_CardinalityType
<1>4. notices[i].resolved \in Nat /\ timeline[i].autos \in Nat
  BY DEF TypeOK, TimelineType
<1>5. AlertsAccounted(i)
  BY DEF AlertsInv
<1> QED BY <1>1, <1>2, <1>3, <1>4, <1>5 DEF AlertsAccounted

\* A worker that opened an incident owes one alert, for a row nobody owed one.
LEMMA CreateStep ==
  ASSUME TypeOK, AlertsInv, NEW t \in Tasks, NEW i \in IncidentIds,
         task[t].pc = "decided", task[t].plan = "create",
         CreateIncidentIfAbsent(t, i), notices' = notices,
         task' = [task EXCEPT ![t].pc = "committed", ![t].open = i]
  PROVE  AlertsInv'
<1>1. /\ task[t] \in TaskType /\ task \in [Tasks -> TaskType]
      /\ incident \in [IncidentIds -> IncidentType]
      /\ timeline \in [IncidentIds -> TimelineType]
  BY DEF TypeOK
<1>2. /\ task'[t].pc = "committed" /\ task'[t].plan = "create" /\ task'[t].open = i
      /\ \A u \in Tasks \ {t} : task'[u] = task[u]
  BY <1>1 DEF TaskType
<1>3. ~Exists(i)
  BY DEF CreateIncidentIfAbsent, NextId, FreshIds
<1>4. /\ incident'[i].automatic /\ incident'[i].status = "detected" /\ timeline'[i].autos = 0
      /\ \A j \in IncidentIds \ {i} : incident'[j] = incident[j] /\ timeline'[j] = timeline[j]
  BY <1>1 DEF CreateIncidentIfAbsent
<1> SUFFICES ASSUME NEW j \in IncidentIds PROVE AlertsAccounted(j)'
  BY DEF AlertsInv
<1>5. AlertsAccounted(j)
  BY DEF AlertsInv
<1>6. Owing("resolve", j)' = Owing("resolve", j)
  BY <1>2 DEF Owing
<1>7. CASE j = i
  <2>1. Owing("create", j)' = {t}
    <3>1. Owing("create", j) = {}
      BY <1>3, <1>5, <1>7 DEF AlertsAccounted
    <3>2. \A u \in Tasks \ {t} : u \notin Owing("create", j)'
      <4>1. \A u \in Tasks \ {t} : u \in Owing("create", j)' <=> u \in Owing("create", j)
        BY <1>2 DEF Owing
      <4> QED BY <3>1, <4>1
    <3>3. t \in Owing("create", j)'
      BY <1>2, <1>7 DEF Owing
    <3>4. Owing("create", j)' \subseteq Tasks
      BY DEF Owing
    <3> QED BY <3>2, <3>3, <3>4
  <2>2. notices[j].opened = 0 /\ timeline[j].autos = 0
    BY <1>3, <1>5, <1>7 DEF AlertsAccounted
  <2>3. Exists(j)'
    BY <1>4, <1>7, ConstantsAssumption DEF Exists
  <2> QED BY <1>4, <1>5, <1>6, <1>7, <2>1, <2>2, <2>3 DEF AlertsAccounted
<1>8. CASE j # i
  <2>1. Owing("create", j)' = Owing("create", j)
    BY <1>2, <1>8 DEF Owing
  <2>2. Exists(j)' <=> Exists(j)
    BY <1>4, <1>8 DEF Exists
  <2> QED BY <1>4, <1>5, <1>6, <1>8, <2>1, <2>2 DEF AlertsAccounted
<1> QED BY <1>7, <1>8

\* A worker that resolved an incident owes an alert for the event it added.
LEMMA ResolveStep ==
  ASSUME TypeOK, AlertsInv, NEW t \in Tasks, NEW i \in IncidentIds,
         task[t].pc = "decided", task[t].plan = "resolve",
         ResolveIncident(t, i), notices' = notices,
         task' = [task EXCEPT ![t].pc = "committed"]
  PROVE  AlertsInv'
<1>1. /\ task[t] \in TaskType /\ task \in [Tasks -> TaskType]
      /\ incident \in [IncidentIds -> IncidentType]
      /\ timeline \in [IncidentIds -> TimelineType]
  BY DEF TypeOK
<1>2. /\ task'[t].pc = "committed" /\ task'[t].plan = "resolve"
      /\ task'[t].open = task[t].open /\ task[t].open = i
      /\ \A u \in Tasks \ {t} : task'[u] = task[u]
  BY <1>1 DEF TaskType, ResolveIncident
<1>3. /\ incident'[i].automatic = incident[i].automatic /\ incident'[i].status = "resolved"
      /\ timeline'[i].autos = timeline[i].autos + 1
      /\ \A j \in IncidentIds \ {i} : incident'[j] = incident[j] /\ timeline'[j] = timeline[j]
  BY ResolutionEffect
<1> SUFFICES ASSUME NEW j \in IncidentIds PROVE AlertsAccounted(j)'
  BY DEF AlertsInv
<1>4. AlertsAccounted(j)
  BY DEF AlertsInv
<1>5. Owing("create", j)' = Owing("create", j)
  BY <1>2 DEF Owing
<1>6. notices[j].resolved \in Nat /\ timeline[j].autos \in Nat
  BY <1>1 DEF TypeOK, TimelineType
<1>7. CASE j = i
  <2>1. /\ Owing("resolve", j)' = Owing("resolve", j) \cup {t}
        /\ t \notin Owing("resolve", j)
    BY <1>2, <1>7 DEF Owing
  <2>2. Cardinality(Owing("resolve", j)') = Cardinality(Owing("resolve", j)) + 1
    BY <2>1, OwingFinite, FS_AddElement
  <2>3. Cardinality(Owing("resolve", j)) \in Nat
    BY OwingFinite
  <2>4. Exists(j)'
    BY <1>3, <1>7, ConstantsAssumption DEF Exists
  <2> QED BY <1>3, <1>4, <1>5, <1>6, <1>7, <2>2, <2>3, <2>4 DEF AlertsAccounted
<1>8. CASE j # i
  <2>1. Owing("resolve", j)' = Owing("resolve", j)
    BY <1>2, <1>8 DEF Owing
  <2>2. Exists(j)' <=> Exists(j)
    BY <1>3, <1>8 DEF Exists
  <2> QED BY <1>3, <1>4, <1>5, <1>8, <2>1, <2>2 DEF AlertsAccounted
<1> QED BY <1>7, <1>8

\* An incident created through the API is owed no alert.
LEMMA ApiCreateStep ==
  ASSUME TypeOK, AlertsInv, NEW q \in Requests, CreateIncident(q)
  PROVE  AlertsInv'
<1>1. PICK i \in IncidentIds, s \in IncidentStatus, a \in BOOLEAN, at \in StartTimes :
        /\ NextId(i)
        /\ incident' = [incident EXCEPT ![i] =
             [status |-> s, stamped |-> ResolvedAt(s), auto |-> a,
              links |-> request[q].monitors, started |-> at, automatic |-> FALSE]]
        /\ timeline' = [timeline EXCEPT ![i] =
             [last |-> EventTypeFromStatus(s), message |-> UserMessage, autos |-> 0,
                disputed |-> FALSE]]
  BY Zenon DEF CreateIncident
<1>2. /\ incident \in [IncidentIds -> IncidentType]
      /\ timeline \in [IncidentIds -> TimelineType]
  BY DEF TypeOK
<1>3. ~Exists(i)
  BY <1>1 DEF NextId, FreshIds
<1>4. /\ incident'[i].automatic = FALSE /\ incident'[i].status = s /\ timeline'[i].autos = 0
      /\ \A j \in IncidentIds \ {i} : incident'[j] = incident[j] /\ timeline'[j] = timeline[j]
  BY <1>1, <1>2
<1>5. task' = task /\ notices' = notices
  BY DEF CreateIncident
<1> SUFFICES ASSUME NEW j \in IncidentIds PROVE AlertsAccounted(j)'
  BY DEF AlertsInv
<1>6. AlertsAccounted(j)
  BY DEF AlertsInv
<1>7. Owing("create", j)' = Owing("create", j) /\ Owing("resolve", j)' = Owing("resolve", j)
  BY <1>5 DEF Owing
<1>8. CASE j = i
  <2>1. Exists(j)'
    BY <1>4, <1>8, ConstantsAssumption DEF Exists, IncidentStatus
  <2> QED BY <1>3, <1>4, <1>5, <1>6, <1>7, <1>8, <2>1 DEF AlertsAccounted
<1>9. CASE j # i
  <2>1. Exists(j)' <=> Exists(j)
    BY <1>4, <1>9 DEF Exists
  <2> QED BY <1>4, <1>5, <1>6, <1>7, <1>9, <2>1 DEF AlertsAccounted
<1> QED BY <1>8, <1>9

\* Sending an alert settles what its task owes.
LEMMA NotifyStep ==
  ASSUME TypeOK, AlertsInv, NEW t \in Tasks, Notify(t)
  PROVE  AlertsInv'
<1>1. /\ task[t] \in TaskType /\ task \in [Tasks -> TaskType]
      /\ notices \in [IncidentIds -> [opened : Nat, resolved : Nat]]
  BY DEF TypeOK
<1>2. PICK i \in IncidentIds, plan \in {"create", "resolve"} :
        task[t].pc = "committed" /\ task[t].open = i /\ task[t].plan = plan
  BY <1>1 DEF Notify, TaskType
<1> DEFINE n == notices[i]
<1>3. /\ task'[t].pc = "idle"
      /\ \A u \in Tasks \ {t} : task'[u] = task[u]
      /\ UNCHANGED <<incident, timeline>>
  BY <1>1 DEF Notify, IdleTask, database
<1>4. \/ notices' = notices
      \/ /\ plan = "create"
         /\ notices' = [notices EXCEPT ![i] = [n EXCEPT !.opened = n.opened + 1]]
      \/ /\ plan = "resolve"
         /\ notices' = [notices EXCEPT ![i] = [n EXCEPT !.resolved = n.resolved + 1]]
  BY <1>2 DEF Notify
<1>5. CASE notices' = notices
  <2>1. \A j \in IncidentIds : /\ incident'[j].automatic = incident[j].automatic
                               /\ ~Exists(j)' => ~Exists(j)
                               /\ timeline'[j].autos = timeline[j].autos
    BY <1>3 DEF Exists
  <2>2. \A u \in Tasks : task'[u] = task[u] \/ task'[u].pc # "committed"
    BY <1>3
  <2> QED BY <1>5, <2>1, <2>2, QuietStep
<1>6. ASSUME notices' # notices PROVE AlertsInv'
  <2> SUFFICES ASSUME NEW j \in IncidentIds PROVE AlertsAccounted(j)'
    BY DEF AlertsInv
  <2>1. AlertsAccounted(j) /\ (Exists(j)' <=> Exists(j))
    BY <1>3 DEF AlertsInv, Exists
  <2>2. \A p : (plan # p \/ j # i) => Owing(p, j)' = Owing(p, j)
    BY <1>2, <1>3 DEF Owing
  <2>3. Owing(plan, i)' = Owing(plan, i) \ {t} /\ t \in Owing(plan, i)
    BY <1>2, <1>3 DEF Owing
  <2>4. /\ notices[j].opened \in Nat /\ notices[j].resolved \in Nat
        /\ Cardinality(Owing("resolve", j)) \in Nat
        /\ timeline[j].autos \in Nat
    BY <1>1, OwingFinite DEF TypeOK, TimelineType
  <2>5. CASE j # i
    <3>1. notices'[j] = notices[j]
      BY <1>1, <1>4, <2>5
    <3> QED BY <1>3, <2>1, <2>2, <2>5, <3>1 DEF AlertsAccounted
  <2>6. CASE j = i /\ plan = "create"
    <3>1. notices'[j].opened = notices[j].opened + 1 /\ notices'[j].resolved = notices[j].resolved
      BY <1>1, <1>2, <1>4, <1>6, <2>6
    <3>2. incident[j].automatic /\ notices[j].opened = 0
      BY <2>1, <2>3, <2>6 DEF AlertsAccounted
    <3>3. Exists(j) /\ Owing("create", j)' = {}
      <4>1. \A u \in Owing("create", j) : u = t
        BY <2>1, <2>3, <2>6 DEF AlertsAccounted
      <4>2. Owing("create", j)' = {}
        BY <2>3, <2>6, <4>1
      <4>3. Owing("create", j) # {}
        BY <2>3, <2>6
      <4> QED BY <2>1, <4>2, <4>3 DEF AlertsAccounted
    <3>4. Owing("resolve", j)' = Owing("resolve", j)
      BY <2>2, <2>6
    <3> QED BY <1>3, <2>1, <3>1, <3>2, <3>3, <3>4 DEF AlertsAccounted
  <2>7. CASE j = i /\ plan = "resolve"
    <3>1. notices'[j].resolved = notices[j].resolved + 1 /\ notices'[j].opened = notices[j].opened
      BY <1>1, <1>2, <1>4, <1>6, <2>7
    <3>2. Cardinality(Owing("resolve", j)') = Cardinality(Owing("resolve", j)) - 1
      BY <2>3, <2>7, OwingFinite, FS_RemoveElement
    <3>3. Owing("create", j)' = Owing("create", j)
      BY <2>2, <2>7
    <3> QED BY <1>3, <2>1, <2>4, <3>1, <3>2, <3>3 DEF AlertsAccounted
  <2> QED BY <1>2, <2>5, <2>6, <2>7
<1> QED BY <1>5, <1>6

\* Every step keeps the account of alerts.
LEMMA AlertsStep ==
  ASSUME TypeOK, AlertsInv, [Next]_vars
  PROVE  AlertsInv'
<1> DEFINE RowsKept == UNCHANGED <<incident, timeline>>
           TasksKept == \A t \in Tasks : task'[t] = task[t] \/ task'[t].pc # "committed"
           EventsKept == \A i \in IncidentIds :
                           /\ incident'[i].automatic = incident[i].automatic
                           /\ ~Exists(i)' => ~Exists(i)
                           /\ timeline'[i].autos = timeline[i].autos
<1>1. /\ task \in [Tasks -> TaskType]
      /\ incident \in [IncidentIds -> IncidentType]
      /\ timeline \in [IncidentIds -> TimelineType]
      /\ \A t \in Tasks : task[t] \in TaskType
  BY DEF TypeOK
<1>2. ASSUME notices' = notices, EventsKept, TasksKept PROVE AlertsInv'
  BY <1>2, QuietStep
<1>3. RowsKept => EventsKept
  BY DEF Exists
<1>4. ASSUME NEW m \in Monitors, ChangeHealth(m) PROVE AlertsInv'
  BY <1>2, <1>3, <1>4 DEF ChangeHealth, database
<1>5. ASSUME NEW t \in Tasks, NEW m \in Monitors, NEW r \in Regions, Enqueue(t, m, r)
      PROVE  AlertsInv'
  <2>1. TasksKept
    BY <1>1, <1>5 DEF Enqueue, IdleTask
  <2> QED BY <1>2, <1>3, <1>5, <2>1 DEF Enqueue, database
<1>6. ASSUME NEW p \in Pairs, NEW k \in 1..Len(buffer[p]), Persist(p, k) PROVE AlertsInv'
  BY <1>2, <1>3, <1>6 DEF Persist
<1>7. ASSUME NEW t \in Tasks, RollBack(t) PROVE AlertsInv'
  <2>1. TasksKept
    BY <1>1, <1>7 DEF RollBack, IdleTask
  <2> QED BY <1>2, <1>3, <1>7, <2>1 DEF RollBack
<1>8. ASSUME NEW t \in Tasks, Worker(t) PROVE AlertsInv'
  <2>1. CASE RunPing(t)
    <3>1. TasksKept
      BY <1>1, <2>1 DEF RunPing, TaskType
    <3> QED BY <1>2, <1>3, <2>1, <3>1 DEF RunPing, database
  <2>2. CASE LoadOpenIncident(t)
    <3>1. TasksKept
      BY <1>1, <2>2 DEF LoadOpenIncident, TaskType
    <3> QED BY <1>2, <1>3, <2>2, <3>1 DEF LoadOpenIncident, database
  <2>3. CASE WriteStatus(t)
    <3>1. TasksKept
      BY <1>1, <2>3 DEF WriteStatus, TaskType
    <3> QED BY <1>2, <1>3, <2>3, <3>1 DEF WriteStatus
  <2>4. CASE Decide(t)
    <3>1. TasksKept
      BY <1>1, <2>4 DEF Decide, TaskType
    <3> QED BY <1>2, <1>3, <2>4, <3>1 DEF Decide, database
  <2>5. CASE CommitIncident(t)
    <3>1. notices' = notices /\ task[t].pc = "decided"
      BY <2>5 DEF CommitIncident
    <3>2. CASE task' = [task EXCEPT ![t] = IdleTask]
      <4>1. TasksKept
        BY <1>1, <3>2 DEF IdleTask
      <4>2. EventsKept
        <5>1. task[t].plan \in {"none", "update"}
          <6>1. task'[t].pc = "idle"
            BY <1>1, <3>2 DEF IdleTask
          <6>2. task[t].plan \in {"create", "resolve"} => task'[t].pc = "committed"
            <7>1. task[t].plan \in {"create", "resolve"} =>
                    \/ \E i \in IncidentIds : task' = [task EXCEPT ![t].pc = "committed", ![t].open = i]
                    \/ task' = [task EXCEPT ![t].pc = "committed"]
              BY <2>5 DEF CommitIncident
            <7> QED BY <1>1, <7>1 DEF TaskType
          <6>3. task[t].plan \in Plans
            BY <1>1 DEF TaskType
          <6> QED BY <6>1, <6>2, <6>3 DEF Plans
        <5>2. CASE task[t].plan = "none"
          BY <1>3, <2>5, <5>2 DEF CommitIncident
        <5>3. CASE task[t].plan = "update"
          BY <2>5, <5>3, AnnotationEffect DEF Exists
        <5> QED BY <5>1, <5>2, <5>3
      <4> QED BY <1>2, <3>1, <4>1, <4>2
    <3>3. CASE task[t].plan = "create"
      BY <2>5, <3>1, <3>3, CreateStep DEF CommitIncident
    <3>4. CASE task[t].plan = "resolve"
      BY <2>5, <3>1, <3>4, ResolveStep DEF CommitIncident
    <3> QED BY <2>5, <3>2, <3>3, <3>4 DEF CommitIncident
  <2>6. CASE FailCreate(t) BY <1>7, <2>6 DEF FailCreate
  <2>7. CASE Notify(t)     BY <2>7, NotifyStep
  <2> QED BY <1>8, <2>1, <2>2, <2>3, <2>4, <2>5, <2>6, <2>7 DEF Worker
<1>9. ASSUME NEW t \in Tasks, AbortIncident(t) PROVE AlertsInv'
  BY <1>7, <1>9 DEF AbortIncident
<1>10. ASSUME NEW t \in Tasks, MissDeadline(t) PROVE AlertsInv'
  <2>1. TasksKept
    BY <1>1, <1>10 DEF MissDeadline, Requeued, TaskType
  <2> QED BY <1>2, <1>3, <1>10, <2>1 DEF MissDeadline
<1>11. ASSUME NEW r \in Regions, CrashWorker(r) PROVE AlertsInv'
  <2>1. TasksKept
    BY <1>1, <1>11 DEF CrashWorker, Requeued, TaskType
  <2> QED BY <1>2, <1>3, <1>11, <2>1 DEF CrashWorker
<1>12. CASE Api
  <2>1. ASSUME NEW q \in Requests,
               \/ CheckNoOpenIncident(q) \/ UpdateMonitor(q) \/ AbandonRequest(q)
               \/ \E m \in Monitors : LoadMonitor(q, m)
        PROVE  UNCHANGED <<incident, timeline, task, notices>>
    BY <2>1 DEF CheckNoOpenIncident, UpdateMonitor, AbandonRequest, LoadMonitor, database
  <2>2. ASSUME NEW q \in Requests, CreateIncident(q) PROVE AlertsInv'
    BY <2>2, ApiCreateStep
  <2>3. ASSUME NEW q \in Requests, NEW i \in IncidentIds,
               \/ CreateIncidentEvent(q, i) \/ UpdateIncident(q, i)
               \/ \E s \in IncidentStatus : UpdateIncidentStatus(q, i, s)
        PROVE  EventsKept /\ UNCHANGED <<task, notices>>
    BY <2>3, IncidentEditEffect
  <2>4. ASSUME NEW q \in Requests, NEW i \in IncidentIds, LoadIncident(q, i)
        PROVE  UNCHANGED <<incident, timeline, task, notices>>
    BY <2>4 DEF LoadIncident, database
  <2>5. ASSUME NEW m \in Monitors, DeleteMonitor(m)
        PROVE  EventsKept /\ UNCHANGED <<task, notices>>
    BY <1>1, <2>5 DEF DeleteMonitor, IncidentType, Exists
  <2>6. ASSUME EventsKept, UNCHANGED <<task, notices>> PROVE AlertsInv'
    BY <1>2, <2>6
  <2> QED BY <1>3, <1>12, <2>1, <2>2, <2>3, <2>4, <2>5, <2>6 DEF Api
<1>13. CASE UNCHANGED vars
  BY <1>2, <1>3, <1>13 DEF vars
<1> QED BY <1>4, <1>5, <1>6, <1>8, <1>9, <1>10, <1>11, <1>12, <1>13 DEF Next

\* At most one alert announces an incident a worker opened, and no more alerts
\* announce recoveries than there are automatic recoveries.
THEOREM NoticesAlwaysJustified == Spec => []NoticesJustified
<1>1. Init => AlertsInv
  <2> SUFFICES ASSUME Init, NEW i \in IncidentIds PROVE AlertsAccounted(i)
    BY DEF AlertsInv
  <2>1. Owing("create", i) = {} /\ Owing("resolve", i) = {}
    BY DEF Init, Owing, IdleTask
  <2>2. Cardinality(Owing("resolve", i)) = 0
    BY <2>1, FS_EmptySet
  <2>3. /\ incident[i] = NoIncident /\ timeline[i] = NoTimeline
        /\ notices[i] = [opened |-> 0, resolved |-> 0]
    BY DEF Init
  <2>4. /\ notices[i].opened = 0 /\ notices[i].resolved = 0
        /\ timeline[i].autos = 0 /\ incident[i].automatic = FALSE
    BY <2>3 DEF NoIncident, NoTimeline
  <2> QED BY <2>1, <2>2, <2>4 DEF AlertsAccounted
<1>2. TypeOK /\ AlertsInv /\ [Next]_vars => AlertsInv'
  BY AlertsStep
<1>3. TypeOK /\ AlertsInv => NoticesJustified
  <2> SUFFICES ASSUME TypeOK, AlertsInv, NEW i \in IncidentIds
               PROVE  /\ notices[i].opened <= IF incident[i].automatic THEN 1 ELSE 0
                      /\ notices[i].resolved <= timeline[i].autos
    BY DEF NoticesJustified
  <2>1. AlertsAccounted(i)
    BY DEF AlertsInv
  <2>2. /\ Cardinality(Owing("resolve", i)) \in Nat
        /\ notices[i].resolved \in Nat /\ timeline[i].autos \in Nat
    BY OwingFinite DEF TypeOK, TimelineType
  <2> QED BY <2>1, <2>2 DEF AlertsAccounted
<1> QED BY <1>1, <1>2, <1>3, TypeCorrect, PTL DEF Spec

-----------------------------------------------------------------------------
(* Detection.  Failures are counted as the sets of their positions, which  *)
(* the operators on windows and buffers map into one another.              *)

Fails(s) == {k \in 1..Len(s) : ~s[k]}
Lost(b) == {k \in 1..Len(b) : ~b[k].ok}

\* What is mapped one to one into a finite set is finite and no larger.
LEMMA MappedOneToOne ==
  ASSUME NEW S, NEW T, IsFiniteSet(T), NEW f \in [S -> T],
         \A x, y \in S : f[x] = f[y] => x = y
  PROVE  IsFiniteSet(S) /\ Cardinality(S) \in Nat /\ Cardinality(S) <= Cardinality(T)
<1>1. f \in Injection(S, T)
  BY DEF Injection, IsInjective
<1> QED BY <1>1, FS_Injection, FS_CardinalityType

\* A sequence has finitely many failures.
LEMMA FailsAreFinite ==
  ASSUME NEW s \in Seq(BOOLEAN)
  PROVE  IsFiniteSet(Fails(s)) /\ Cardinality(Fails(s)) \in Nat
<1>1. Len(s) \in Int
  BY LenProperties
<1>2. IsFiniteSet(1..Len(s)) /\ Fails(s) \in SUBSET (1..Len(s))
  BY <1>1, FS_Interval DEF Fails
<1> QED BY <1>2, FS_Subset, FS_CardinalityType

\* So has a buffer.
LEMMA LostIsFinite ==
  ASSUME NEW b \in Seq([ok : BOOLEAN, newer : Nat])
  PROVE  IsFiniteSet(Lost(b)) /\ Cardinality(Lost(b)) \in Nat
<1>1. Len(b) \in Int
  BY LenProperties
<1>2. IsFiniteSet(1..Len(b)) /\ Lost(b) \in SUBSET (1..Len(b))
  BY <1>1, FS_Interval DEF Lost
<1> QED BY <1>2, FS_Subset, FS_CardinalityType

\* At most one failure more than there is in T, when all but one map into T.
LEMMA AllButOne ==
  ASSUME NEW S, NEW T, NEW k, IsFiniteSet(T), NEW f \in [S \ {k} -> T],
         \A x, y \in S \ {k} : f[x] = f[y] => x = y
  PROVE  /\ Cardinality(S) \in Nat
         /\ Cardinality(S) <= Cardinality(T) + 1
         /\ k \notin S => Cardinality(S) <= Cardinality(T)
<1>1. IsFiniteSet(S \ {k}) /\ Cardinality(S \ {k}) \in Nat /\ Cardinality(S \ {k}) <= Cardinality(T)
  BY MappedOneToOne
<1>2. Cardinality(T) \in Nat
  BY FS_CardinalityType
<1>3. CASE k \in S
  <2>1. (S \ {k}) \cup {k} = S /\ k \notin S \ {k}
    BY <1>3
  <2>2. Cardinality(S) = Cardinality(S \ {k}) + 1
    BY <1>1, <2>1, FS_AddElement
  <2> QED BY <1>1, <1>2, <1>3, <2>2
<1>4. CASE k \notin S
  <2>1. S \ {k} = S
    BY <1>4
  <2> QED BY <1>1, <1>2, <2>1
<1> QED BY <1>3, <1>4

\* The newest pings have no more failures than all of them.
LEMMA NewestFails ==
  ASSUME NEW s \in Seq(BOOLEAN), NEW n \in Nat
  PROVE  Cardinality(Fails(Newest(s, n))) <= Cardinality(Fails(s))
<1> DEFINE l == Lesser(n, Len(s))
<1>1. Len(s) \in Nat /\ l \in Nat /\ l <= Len(s)
  BY LenProperties DEF Lesser
<1>2. Newest(s, n) = SubSeq(s, 1, l)
  BY DEF Newest
<1> HIDE DEF l
<1>3. Len(SubSeq(s, 1, l)) = l /\ \A i \in 1..l : SubSeq(s, 1, l)[i] = s[i]
  BY <1>1, SubSeqProperties
<1>4. Fails(Newest(s, n)) \in SUBSET Fails(s)
  BY <1>1, <1>2, <1>3 DEF Fails
<1> QED BY <1>4, FailsAreFinite, FS_Subset

\* The elements of two sequences put one after the other.
LEMMA ConcatParts ==
  ASSUME NEW S, NEW u \in Seq(S), NEW v \in Seq(S)
  PROVE  /\ u \o v \in Seq(S)
         /\ Len(u \o v) = Len(u) + Len(v)
         /\ \A i \in 1..Len(u) : (u \o v)[i] = u[i]
         /\ \A i \in 1..Len(v) : (u \o v)[Len(u) + i] = v[i]
<1>1. Len(u) \in Nat /\ Len(v) \in Nat
  BY LenProperties
<1>2. /\ u \o v \in Seq(S)
      /\ Len(u \o v) = Len(u) + Len(v)
      /\ \A i \in 1..(Len(u) + Len(v)) :
           (u \o v)[i] = IF i <= Len(u) THEN u[i] ELSE v[i - Len(u)]
  BY ConcatProperties
<1> DEFINE w == u \o v
<1> HIDE DEF w
<1>3. ASSUME NEW i \in 1..Len(v) PROVE w[Len(u) + i] = v[i]
  <2>1. Len(u) + i \in 1..(Len(u) + Len(v)) /\ ~(Len(u) + i <= Len(u)) /\ (Len(u) + i) - Len(u) = i
    BY <1>1
  <2> QED BY <1>2, <2>1 DEF w
<1>4. ASSUME NEW i \in 1..Len(u) PROVE w[i] = u[i]
  <2>1. i \in 1..(Len(u) + Len(v)) /\ i <= Len(u)
    BY <1>1
  <2> QED BY <1>2, <2>1 DEF w
<1> QED BY <1>2, <1>3, <1>4 DEF w

\* The elements of a sequence with one more placed after the first n.
LEMMA InsertedParts ==
  ASSUME NEW S, NEW s \in Seq(S), NEW n \in 0..Len(s), NEW ok \in S
  PROVE  /\ InsertByTime(s, n, ok) \in Seq(S)
         /\ Len(InsertByTime(s, n, ok)) = Len(s) + 1
         /\ \A j \in 1..n : InsertByTime(s, n, ok)[j] = s[j]
         /\ InsertByTime(s, n, ok)[n + 1] = ok
         /\ \A j \in (n + 1)..Len(s) : InsertByTime(s, n, ok)[j + 1] = s[j]
<1> DEFINE r == InsertByTime(s, n, ok)
           a == SubSeq(s, 1, n)
           c == SubSeq(s, n + 1, Len(s))
           ab == a \o <<ok>>
<1>1. Len(s) \in Nat /\ n \in Nat /\ n <= Len(s) /\ \A j \in 1..Len(s) : s[j] \in S
  BY SeqElements
<1>2. a \in Seq(S) /\ Len(a) = n /\ \A i \in 1..n : a[i] = s[i]
  BY <1>1, SubSeqProperties
<1>3. c \in Seq(S) /\ Len(c) = Len(s) - n /\ \A i \in 1..(Len(s) - n) : c[i] = s[n + i]
  BY <1>1, SubSeqProperties
<1>4. <<ok>> \in Seq(S) /\ Len(<<ok>>) = 1 /\ <<ok>>[1] = ok
  OBVIOUS
<1>5. r = ab \o c
  BY DEF InsertByTime
<1> HIDE DEF a, c, r
<1>6. ab \in Seq(S) /\ Len(ab) = n + 1
        /\ (\A i \in 1..n : ab[i] = s[i]) /\ ab[n + 1] = ok
  <2>1. Len(ab) = n + 1 /\ ab \in Seq(S)
    BY <1>1, <1>2, <1>4, ConcatParts
  <2>2. \A i \in 1..n : ab[i] = a[i]
    BY <1>2, <1>4, ConcatParts
  <2>3. ab[n + 1] = <<ok>>[1]
    BY <1>1, <1>2, <1>4, ConcatParts
  <2> QED BY <1>2, <1>4, <2>1, <2>2, <2>3
<1> HIDE DEF ab
<1>7. /\ r \in Seq(S) /\ Len(r) = Len(ab) + Len(c)
      /\ \A i \in 1..Len(ab) : r[i] = ab[i]
      /\ \A i \in 1..Len(c) : r[Len(ab) + i] = c[i]
  <2>1. r \in Seq(S) /\ Len(r) = Len(ab) + Len(c)
    BY <1>3, <1>5, <1>6, ConcatParts
  <2>2. \A i \in 1..Len(ab) : r[i] = ab[i]
    BY <1>3, <1>5, <1>6, ConcatParts
  <2>3. \A i \in 1..Len(c) : r[Len(ab) + i] = c[i]
    BY <1>3, <1>5, <1>6, ConcatParts
  <2> QED BY <2>1, <2>2, <2>3
<1>8. ASSUME NEW j \in (n + 1)..Len(s) PROVE r[j + 1] = s[j]
  <2>1. j - n \in 1..Len(c) /\ Len(ab) + (j - n) = j + 1 /\ n + (j - n) = j
    BY <1>1, <1>3, <1>6
  <2>2. r[Len(ab) + (j - n)] = c[j - n] /\ c[j - n] = s[n + (j - n)]
    BY <1>3, <1>7, <2>1
  <2> QED BY <2>1, <2>2
<1> QED BY <1>1, <1>3, <1>6, <1>7, <1>8 DEF r

\* A ping placed among others adds at most its own failure.
LEMMA InsertedFails ==
  ASSUME NEW s \in Seq(BOOLEAN), NEW n \in 0..Len(s), NEW ok \in BOOLEAN
  PROVE  /\ Cardinality(Fails(InsertByTime(s, n, ok))) <= Cardinality(Fails(s)) + 1
         /\ ok => Cardinality(Fails(InsertByTime(s, n, ok))) <= Cardinality(Fails(s))
<1> DEFINE r == InsertByTime(s, n, ok)
           f == [j \in Fails(r) \ {n + 1} |-> IF j <= n THEN j ELSE j - 1]
<1>1. Len(s) \in Nat /\ n \in Nat /\ n <= Len(s)
  BY LenProperties
<1>2. /\ Len(r) = Len(s) + 1
      /\ \A j \in 1..n : r[j] = s[j]
      /\ r[n + 1] = ok
      /\ \A j \in (n + 1)..Len(s) : r[j + 1] = s[j]
  BY InsertedParts
<1> HIDE DEF r
<1>3. f \in [Fails(r) \ {n + 1} -> Fails(s)]
  <2>1. ASSUME NEW j \in Fails(r) \ {n + 1}
        PROVE  (IF j <= n THEN j ELSE j - 1) \in Fails(s)
    <3>1. j \in 1..(Len(s) + 1) /\ ~r[j] /\ j # n + 1
      BY <1>2, <2>1 DEF Fails
    <3>2. CASE j <= n
      BY <1>1, <1>2, <3>1, <3>2 DEF Fails
    <3>3. CASE ~(j <= n)
      <4>1. j - 1 \in (n + 1)..Len(s) /\ (j - 1) + 1 = j
        BY <1>1, <3>1, <3>3
      <4>2. r[j] = s[j - 1]
        BY <1>2, <4>1
      <4> QED BY <1>1, <3>1, <3>3, <4>2 DEF Fails
    <3> QED BY <3>2, <3>3
  <2> QED BY <2>1
<1>4. \A x, y \in Fails(r) \ {n + 1} : f[x] = f[y] => x = y
  BY <1>1, <1>2 DEF Fails
<1>5. ok => n + 1 \notin Fails(r)
  BY <1>1, <1>2 DEF Fails
<1> HIDE DEF f
<1> QED BY <1>3, <1>4, <1>5, FailsAreFinite, AllButOne DEF r

\* A ping appended to a buffer adds its own failure.
LEMMA AppendedLost ==
  ASSUME NEW b \in Seq([ok : BOOLEAN, newer : Nat]), NEW x \in [ok : BOOLEAN, newer : Nat]
  PROVE  /\ Cardinality(Lost(Append(b, x))) <= Cardinality(Lost(b)) + 1
         /\ x.ok => Cardinality(Lost(Append(b, x))) <= Cardinality(Lost(b))
<1> DEFINE c == Append(b, x)
           k == Len(b) + 1
           f == [j \in Lost(c) \ {k} |-> j]
<1>1. Len(b) \in Nat /\ Len(c) = Len(b) + 1 /\ c[Len(b) + 1] = x
        /\ \A j \in 1..Len(b) : c[j] = b[j]
  BY LenProperties, AppendProperties
<1> HIDE DEF c
<1>2. f \in [Lost(c) \ {k} -> Lost(b)] /\ \A i, j \in Lost(c) \ {k} : f[i] = f[j] => i = j
  BY <1>1 DEF Lost
<1>3. x.ok => k \notin Lost(c)
  BY <1>1 DEF Lost
<1> HIDE DEF f, k
<1> QED BY <1>2, <1>3, LostIsFinite, AllButOne DEF c

\* A ping taken from a buffer takes its failure along.
LEMMA TakenLost ==
  ASSUME NEW b \in Seq([ok : BOOLEAN, newer : Nat]), NEW k \in 1..Len(b), NEW c,
         Len(c) = Len(b) - 1,
         \A j \in 1..(Len(b) - 1) :
           ~c[j].ok => (j < k /\ ~b[j].ok) \/ (j >= k /\ ~b[j + 1].ok)
  PROVE  /\ Cardinality(Lost(c)) \in Nat
         /\ Cardinality(Lost(c)) <= Cardinality(Lost(b))
         /\ ~b[k].ok => Cardinality(Lost(c)) + 1 <= Cardinality(Lost(b))
<1> DEFINE f == [j \in Lost(c) |-> IF j < k THEN j ELSE j + 1]
<1>1. Len(b) \in Nat /\ k \in Nat /\ k <= Len(b)
  BY LenProperties
<1>2. f \in [Lost(c) -> Lost(b) \ {k}]
  <2>1. ASSUME NEW j \in Lost(c) PROVE (IF j < k THEN j ELSE j + 1) \in Lost(b) \ {k}
    <3>1. j \in 1..(Len(b) - 1) /\ ~c[j].ok
      BY DEF Lost
    <3>2. (j < k /\ ~b[j].ok) \/ (j >= k /\ ~b[j + 1].ok)
      BY <3>1
    <3> QED BY <1>1, <3>1, <3>2 DEF Lost
  <2> QED BY <2>1
<1>7. \A i, j \in Lost(c) : f[i] = f[j] => i = j
  <2>1. Lost(c) \subseteq Nat
    BY DEF Lost
  <2> QED BY <1>1, <2>1
<1> HIDE DEF f
<1>3. IsFiniteSet(Lost(b)) /\ Cardinality(Lost(b)) \in Nat
  BY LostIsFinite
<1>4. /\ IsFiniteSet(Lost(b) \ {k})
      /\ Cardinality(Lost(b) \ {k}) =
           IF k \in Lost(b) THEN Cardinality(Lost(b)) - 1 ELSE Cardinality(Lost(b))
  BY <1>3, FS_RemoveElement
<1>5. Cardinality(Lost(c)) \in Nat /\ Cardinality(Lost(c)) <= Cardinality(Lost(b) \ {k})
  BY <1>2, <1>4, <1>7, MappedOneToOne
<1>6. ~b[k].ok => k \in Lost(b)
  BY DEF Lost
<1> QED BY <1>3, <1>4, <1>5, <1>6

\* Before a failed ping the window had all but one of its failures.
LEMMA DetectedFails ==
  ASSUME NEW s \in Seq(BOOLEAN), NEW ok \in BOOLEAN, NEW n \in Nat, NEW threshold \in Nat \ {0},
         Detected(<<ok>> \o Newest(s, n), threshold)
  PROVE  Cardinality(Fails(s)) >= threshold - 1
<1> DEFINE q == Newest(s, n)
           r == <<ok>> \o q
           w == Window(threshold)
           S == FailedAt(r, w)
           f == [j \in S \ {1} |-> j - 1]
<1>1. q \in Seq(BOOLEAN) /\ Len(q) \in Nat
  BY NewestType, LenProperties
<1>2. w \in Nat
  BY DEF Window
<1>3. Cardinality(S) >= threshold
  BY DEF Detected, CountFailures
<1> HIDE DEF q, w
<1>4. Len(r) = Len(q) + 1 /\ \A j \in 2..(Len(q) + 1) : r[j] = q[j - 1]
  <2>1. <<ok>> \in Seq(BOOLEAN) /\ Len(<<ok>>) = 1
    OBVIOUS
  <2> QED BY <1>1, <2>1, ConcatProperties
<1> HIDE DEF r
<1>5. f \in [S \ {1} -> Fails(q)] /\ \A i, j \in S \ {1} : f[i] = f[j] => i = j
  BY <1>1, <1>2, <1>4 DEF FailedAt, Fails, Lesser
<1> HIDE DEF S, f
<1>6. Cardinality(S) \in Nat /\ Cardinality(S) <= Cardinality(Fails(q)) + 1
  BY <1>1, <1>5, FailsAreFinite, AllButOne
<1>7. Cardinality(Fails(q)) <= Cardinality(Fails(s)) /\ Cardinality(Fails(q)) \in Nat
        /\ Cardinality(Fails(s)) \in Nat
  BY <1>1, NewestFails, FailsAreFinite DEF q
<1> QED BY <1>3, <1>6, <1>7

(* The failed pings of a pair that are stored or waiting to be were all    *)
(* counted, unless the count has reached the threshold.                    *)
Evidence(p) ==
  /\ failures[p] <= FailureThreshold[p[1]]
  /\ \/ failures[p] = FailureThreshold[p[1]]
     \/ Cardinality(Fails(recent[p])) + Cardinality(Lost(buffer[p])) <= failures[p]

DetectionInv == (\A p \in Pairs : Evidence(p)) /\ DetectionNeedsFailures

\* The numbers a pair's evidence is about.
LEMMA EvidenceTypes ==
  ASSUME TypeOK, NEW p \in Pairs
  PROVE  /\ p[1] \in Monitors
         /\ FailureThreshold[p[1]] \in Nat \ {0}
         /\ Keep(p[1]) \in Nat
         /\ recent[p] \in Seq(BOOLEAN)
         /\ buffer[p] \in Seq([ok : BOOLEAN, newer : Nat])
         /\ failures[p] \in Nat
         /\ Cardinality(Fails(recent[p])) \in Nat
         /\ Cardinality(Lost(buffer[p])) \in Nat
<1>1. p[1] \in Monitors
  BY DEF Pairs
<1>2. FailureThreshold[p[1]] \in Nat \ {0} /\ RecoveryThreshold[p[1]] \in Nat \ {0}
  BY <1>1, ConstantsAssumption
<1>3. recent[p] \in Seq(BOOLEAN) /\ buffer[p] \in Seq([ok : BOOLEAN, newer : Nat])
        /\ failures[p] \in Nat
  BY DEF TypeOK
<1> QED BY <1>1, <1>2, <1>3, HorizonIsNatural, FailsAreFinite, LostIsFinite DEF Keep

\* A pair that loses pings, or none, keeps its evidence.
LEMMA LessEvidence ==
  ASSUME TypeOK, NEW p \in Pairs, Evidence(p), failures'[p] = failures[p],
         recent'[p] \in {recent[p], <<>>}, buffer'[p] \in {buffer[p], <<>>}
  PROVE  Evidence(p)'
<1>1. Fails(<<>>) = {} /\ Lost(<<>>) = {}
  BY DEF Fails, Lost
<1>2. Cardinality({}) = 0
  BY FS_EmptySet
<1>3. Fails(recent'[p]) \in {Fails(recent[p]), {}} /\ Lost(buffer'[p]) \in {Lost(buffer[p]), {}}
  BY <1>1
<1> DEFINE a == Cardinality(Fails(recent[p]))
           b == Cardinality(Lost(buffer[p]))
           c == Cardinality(Fails(recent'[p]))
           d == Cardinality(Lost(buffer'[p]))
<1>4. a \in Nat /\ b \in Nat /\ c \in {a, 0} /\ d \in {b, 0} /\ failures[p] \in Nat
  BY <1>2, <1>3, EvidenceTypes
<1>5. c + d <= a + b
  <2> HIDE DEF a, b, c, d
  <2> QED BY <1>4
<1>6. \/ failures[p] = FailureThreshold[p[1]]
      \/ a + b <= failures[p]
  BY DEF Evidence
<1>7. failures[p] = FailureThreshold[p[1]] \/ c + d <= failures[p]
  <2> HIDE DEF a, b, c, d
  <2> QED BY <1>4, <1>5, <1>6
<1> QED BY <1>7 DEF Evidence

\* A ping that fails is one to be stored more, and one counted more.
LEMMA RunPingEvidence ==
  ASSUME TypeOK, \A p \in Pairs : Evidence(p), NEW t \in Tasks, RunPing(t)
  PROVE  /\ \A p \in Pairs : Evidence(p)'
         /\ \A p \in Pairs : failures'[p] >= failures[p]
<1>1. PICK s : /\ Record(Pair(t), s = "successful")
               /\ Count(Pair(t), s = "successful")
  BY DEF RunPing
<1> DEFINE ok == s = "successful"
           x == [ok |-> ok, newer |-> 0]
<1>2. ok \in BOOLEAN /\ x \in [ok : BOOLEAN, newer : Nat] /\ x.ok = ok
  OBVIOUS
<1>3. /\ failures' = [failures EXCEPT ![Pair(t)] = Counted(failures[Pair(t)], Pair(t)[1], ok)]
      /\ \/ buffer' = buffer
         \/ buffer' = [buffer EXCEPT ![Pair(t)] = Append(buffer[Pair(t)], x)]
      /\ recent' = recent
  BY <1>1 DEF Count, Record, RunPing, database
<1> HIDE DEF ok, x
<1>4. ASSUME NEW p \in Pairs, p # Pair(t) PROVE Evidence(p)' /\ failures'[p] >= failures[p]
  <2>1. failures'[p] = failures[p] /\ recent'[p] = recent[p] /\ buffer'[p] = buffer[p]
    BY <1>3, <1>4 DEF TypeOK
  <2>2. Evidence(p)'
    BY <2>1, LessEvidence
  <2> QED BY <2>1, <2>2, EvidenceTypes
<1>5. ASSUME NEW p \in Pairs, p = Pair(t) PROVE Evidence(p)' /\ failures'[p] >= failures[p]
  <2> DEFINE f == failures[p]
             g == failures'[p]
             T == FailureThreshold[p[1]]
             a == Cardinality(Fails(recent[p]))
             b == Cardinality(Lost(buffer[p]))
             d == Cardinality(Lost(buffer'[p]))
  <2>1. f \in Nat /\ T \in Nat \ {0} /\ a \in Nat /\ b \in Nat
    BY EvidenceTypes
  <2>2. g = IF ok THEN f ELSE IF f + 1 < T THEN f + 1 ELSE T
    BY <1>3, <1>5 DEF Counted, Lesser, TypeOK
  <2>3. d \in Nat /\ d <= b + 1 /\ (ok => d <= b)
    <3>1. CASE buffer' = buffer
      BY <2>1, <3>1
    <3>2. CASE buffer' = [buffer EXCEPT ![Pair(t)] = Append(buffer[Pair(t)], x)]
      <4>0. buffer[p] \in Seq([ok : BOOLEAN, newer : Nat])
        BY EvidenceTypes
      <4>1. buffer'[p] = Append(buffer[p], x)
        BY <1>5, <3>2 DEF TypeOK
      <4>2. Append(buffer[p], x) \in Seq([ok : BOOLEAN, newer : Nat])
        BY <1>2, <4>0, AppendProperties
      <4>3. Cardinality(Lost(Append(buffer[p], x))) \in Nat
        BY <4>2, LostIsFinite
      <4> QED BY <1>2, <4>0, <4>1, <4>3, AppendedLost
    <3> QED BY <1>3, <3>1, <3>2
  <2>4. f <= T /\ (f = T \/ a + b <= f)
    BY DEF Evidence
  <2>5. recent'[p] = recent[p]
    BY <1>3
  <2>6. g <= T /\ (g = T \/ a + d <= g) /\ g >= f
    <3> HIDE DEF f, g, T, a, b, d
    <3>1. CASE ok
      BY <2>1, <2>2, <2>3, <2>4, <3>1
    <3>2. CASE ~ok
      BY <2>1, <2>2, <2>3, <2>4, <3>2
    <3> QED BY <3>1, <3>2
  <2> QED BY <2>5, <2>6 DEF Evidence
<1> QED BY <1>4, <1>5

\* A ping that is stored was waiting to be.
LEMMA PersistEvidence ==
  ASSUME TypeOK, \A p \in Pairs : Evidence(p),
         NEW p \in Pairs, NEW k \in 1..Len(buffer[p]), Persist(p, k)
  PROVE  \A q \in Pairs : Evidence(q)'
<1> DEFINE ping == buffer[p][k]
           n == Lesser(ping.newer, Len(recent[p]))
           older(j) == IF j < k THEN [buffer[p][j] EXCEPT !.newer = Lesser(@ + 1, Keep(p[1]))]
                                ELSE buffer[p][j + 1]
           r == InsertByTime(recent[p], n, ping.ok)
           c == [j \in 1..(Len(buffer[p]) - 1) |-> older(j)]
<1>1. /\ recent' = [recent EXCEPT ![p] = Newest(r, Keep(p[1]))]
      /\ buffer' = [buffer EXCEPT ![p] = c]
      /\ failures' = failures
  BY DEF Persist
<1>2. /\ recent[p] \in Seq(BOOLEAN) /\ buffer[p] \in Seq([ok : BOOLEAN, newer : Nat])
      /\ Keep(p[1]) \in Nat /\ failures[p] \in Nat
      /\ Cardinality(Fails(recent[p])) \in Nat /\ Cardinality(Lost(buffer[p])) \in Nat
  BY EvidenceTypes
<1>3. Len(buffer[p]) \in Nat /\ \A j \in 1..Len(buffer[p]) : buffer[p][j] \in [ok : BOOLEAN, newer : Nat]
  BY <1>2, SeqElements
<1>4. ping.ok \in BOOLEAN /\ ping.newer \in Nat
  BY <1>3
<1>5. n \in 0..Len(recent[p])
  <2>1. Len(recent[p]) \in Nat
    BY <1>2, LenProperties
  <2> QED BY <1>4, <2>1 DEF Lesser
<1>6. Len(c) = Len(buffer[p]) - 1
  BY <1>3
<1>7. ASSUME NEW j \in 1..(Len(buffer[p]) - 1), ~c[j].ok
      PROVE  (j < k /\ ~buffer[p][j].ok) \/ (j >= k /\ ~buffer[p][j + 1].ok)
  <2>1. c[j] = older(j) /\ j \in 1..Len(buffer[p])
    BY <1>3
  <2>2. CASE j < k
    <3>1. buffer[p][j] \in [ok : BOOLEAN, newer : Nat]
      BY <1>3, <2>1
    <3>2. c[j] = [buffer[p][j] EXCEPT !.newer = Lesser(buffer[p][j].newer + 1, Keep(p[1]))]
      BY <2>1, <2>2
    <3>3. c[j].ok = buffer[p][j].ok
      BY <3>1, <3>2
    <3> QED BY <1>7, <2>2, <3>3
  <2>3. CASE ~(j < k)
    <3>1. c[j].ok = buffer[p][j + 1].ok /\ j >= k
      BY <1>3, <2>1, <2>3
    <3> QED BY <1>7, <3>1
  <2> QED BY <2>2, <2>3
<1> HIDE DEF c, ping, n
<1>8. /\ Cardinality(Lost(c)) \in Nat
      /\ Cardinality(Lost(c)) <= Cardinality(Lost(buffer[p]))
      /\ ~buffer[p][k].ok => Cardinality(Lost(c)) + 1 <= Cardinality(Lost(buffer[p]))
  BY <1>2, <1>6, <1>7, TakenLost
<1>9. /\ Cardinality(Fails(r)) <= Cardinality(Fails(recent[p])) + 1
      /\ ping.ok => Cardinality(Fails(r)) <= Cardinality(Fails(recent[p]))
      /\ r \in Seq(BOOLEAN)
  BY <1>2, <1>4, <1>5, InsertedFails, InsertByTimeType
<1> HIDE DEF r
<1>10. /\ Cardinality(Fails(Newest(r, Keep(p[1])))) <= Cardinality(Fails(r))
       /\ Cardinality(Fails(Newest(r, Keep(p[1])))) \in Nat
       /\ Cardinality(Fails(r)) \in Nat
  BY <1>2, <1>9, NewestFails, NewestType, FailsAreFinite
<1>11. ASSUME NEW q \in Pairs, q # p PROVE Evidence(q)'
  <2>1. failures'[q] = failures[q] /\ recent'[q] = recent[q] /\ buffer'[q] = buffer[q]
    BY <1>1, <1>11 DEF TypeOK
  <2> QED BY <2>1, LessEvidence
<1>12. Evidence(p)'
  <2> DEFINE a == Cardinality(Fails(recent[p]))
             b == Cardinality(Lost(buffer[p]))
             e == Cardinality(Fails(recent'[p]))
             d == Cardinality(Lost(buffer'[p]))
  <2>1. recent'[p] = Newest(r, Keep(p[1])) /\ buffer'[p] = c /\ failures'[p] = failures[p]
    BY <1>1 DEF TypeOK
  <2>2. a \in Nat /\ b \in Nat /\ e \in Nat /\ d \in Nat
    BY <1>2, <1>8, <1>10, <2>1
  <2>3. /\ e <= a + 1 /\ (ping.ok => e <= a)
        /\ d <= b /\ (~ping.ok => d + 1 <= b)
    BY <1>2, <1>8, <1>9, <1>10, <2>1 DEF ping
  <2>4. failures[p] = FailureThreshold[p[1]] \/ a + b <= failures[p]
    BY DEF Evidence
  <2>5. failures[p] = FailureThreshold[p[1]] \/ e + d <= failures[p]
    <3> HIDE DEF a, b, e, d
    <3> QED BY <1>2, <2>2, <2>3, <2>4
  <2> QED BY <2>1, <2>5 DEF Evidence
<1> QED BY <1>11, <1>12

\* Only Decide plans to open an incident; a plan stays with its monitor and region.
LEMMA PlanToCreate ==
  ASSUME TypeOK, [Next]_vars, NEW t \in Tasks, task'[t].plan = "create"
  PROVE  \/ Decide(t)
         \/ /\ task[t].plan = "create"
            /\ task'[t].monitor = task[t].monitor
            /\ task'[t].region = task[t].region
<1> DEFINE Same(u) == /\ task'[u].plan = task[u].plan
                      /\ task'[u].monitor = task[u].monitor
                      /\ task'[u].region = task[u].region
<1>0. task \in [Tasks -> TaskType] /\ IdleTask.plan = "none"
  BY DEF TypeOK, IdleTask
<1>00. ASSUME NEW u \in Tasks PROVE Requeued(u).plan = "none"
  <2>1. task[u] \in TaskType
    BY <1>0
  <2> QED BY <2>1 DEF Requeued, TaskType
<1>1. ASSUME NEW u \in Tasks, NEW m, NEW r, Enqueue(u, m, r) PROVE Same(t) \/ task'[t].plan = "none"
  <2>1. [IdleTask EXCEPT !.pc = "queued", !.monitor = m, !.region = r, !.seen = status[m]].plan = "none"
    BY DEF IdleTask
  <2> QED BY <1>0, <1>1, <2>1 DEF Enqueue
<1>2. ASSUME NEW u \in Tasks, RunPing(u) \/ LoadOpenIncident(u) \/ WriteStatus(u)
      PROVE  Same(t)
  <2>1. \A x : x \in TaskType => x = [pc |-> x.pc, monitor |-> x.monitor, region |-> x.region,
                                      seen |-> x.seen, ping |-> x.ping, open |-> x.open,
                                      auto |-> x.auto, plan |-> x.plan]
    BY DEF TaskType
  <2>2. task[t] \in TaskType /\ task[u] \in TaskType
    BY <1>0
  <2>3. CASE RunPing(u)
    BY <1>0, <2>1, <2>2, <2>3 DEF RunPing
  <2>4. CASE LoadOpenIncident(u)
    BY <1>0, <2>1, <2>2, <2>4 DEF LoadOpenIncident
  <2>5. CASE WriteStatus(u)
    BY <1>0, <2>1, <2>2, <2>5 DEF WriteStatus
  <2> QED BY <1>2, <2>3, <2>4, <2>5
<1>3. ASSUME NEW u \in Tasks, Decide(u), u # t PROVE Same(t)
  BY <1>0, <1>3 DEF Decide
<1>4. ASSUME NEW u \in Tasks, CommitIncident(u) PROVE Same(t) \/ task'[t].plan = "none"
  <2>1. \/ task' = [task EXCEPT ![u] = IdleTask]
        \/ \E i : task' = [task EXCEPT ![u].pc = "committed", ![u].open = i]
        \/ task' = [task EXCEPT ![u].pc = "committed"]
    BY <1>4 DEF CommitIncident
  <2>2. \A x : x \in TaskType => x = [pc |-> x.pc, monitor |-> x.monitor, region |-> x.region,
                                      seen |-> x.seen, ping |-> x.ping, open |-> x.open,
                                      auto |-> x.auto, plan |-> x.plan]
    BY DEF TaskType
  <2>3. task[t] \in TaskType /\ task[u] \in TaskType
    BY <1>0
  <2> QED BY <1>0, <2>1, <2>2, <2>3
<1>5. ASSUME NEW u \in Tasks, Notify(u) \/ FailCreate(u) \/ AbortIncident(u)
      PROVE  Same(t) \/ task'[t].plan = "none"
  <2>1. task' = [task EXCEPT ![u] = IdleTask]
    BY <1>5 DEF Notify, FailCreate, AbortIncident, RollBack
  <2> QED BY <1>0, <2>1
<1>6. ASSUME NEW u \in Tasks, MissDeadline(u) PROVE Same(t) \/ task'[t].plan = "none"
  <2>1. task' = [task EXCEPT ![u] = Requeued(u)]
    BY <1>6 DEF MissDeadline
  <2> QED BY <1>0, <1>00, <2>1
<1>7. ASSUME NEW r \in Regions, CrashWorker(r) PROVE Same(t) \/ task'[t].plan = "none"
  <2>1. task'[t] = Requeued(t) \/ task'[t] = task[t]
    BY <1>7 DEF CrashWorker
  <2> QED BY <1>00, <2>1
<1>8. ASSUME UNCHANGED task PROVE Same(t)
  BY <1>8
<1>9. ASSUME \/ \E m \in Monitors : ChangeHealth(m)
             \/ \E p \in Pairs : \E k \in 1..Len(buffer[p]) : Persist(p, k)
      PROVE  UNCHANGED task
  BY <1>9 DEF ChangeHealth, Persist
<1>10. Api => UNCHANGED task
  BY ApiKeeps
<1>11. UNCHANGED vars => UNCHANGED task
  BY DEF vars
<1>12. "none" # "create"
  OBVIOUS
<1>13. Decide(t) \/ Same(t) \/ task'[t].plan = "none"
  <2> HIDE DEF Same
  <2> QED
    BY <1>1, <1>2, <1>3, <1>4, <1>5, <1>6, <1>7, <1>8, <1>9, <1>10, <1>11, Zenon DEF Next, Worker
<1> QED BY <1>12, <1>13

\* What is stored, waits or is counted changes in four places.
LEMMA PingWriters ==
  ASSUME [Next]_vars
  PROVE  \/ UNCHANGED <<recent, buffer, failures>>
         \/ \E t \in Tasks : RunPing(t)
         \/ \E p \in Pairs : \E k \in 1..Len(buffer[p]) : Persist(p, k)
         \/ \E r \in Regions : CrashWorker(r)
         \/ \E m \in Monitors : DeleteMonitor(m)
<1>1. ASSUME NEW m \in Monitors, ChangeHealth(m) PROVE UNCHANGED <<recent, buffer, failures>>
  BY <1>1 DEF ChangeHealth, database
<1>2. ASSUME NEW t \in Tasks, NEW m \in Monitors, NEW r \in Regions, Enqueue(t, m, r)
      PROVE  UNCHANGED <<recent, buffer, failures>>
  BY <1>2 DEF Enqueue, database
<1>3. ASSUME NEW t \in Tasks, Worker(t), ~RunPing(t) PROVE UNCHANGED <<recent, buffer, failures>>
  <2>1. CASE LoadOpenIncident(t) BY <2>1 DEF LoadOpenIncident, database
  <2>2. CASE WriteStatus(t)      BY <2>2 DEF WriteStatus
  <2>3. CASE Decide(t)           BY <2>3 DEF Decide, database
  <2>4. CASE CommitIncident(t)   BY <2>4 DEF CommitIncident
  <2>5. CASE FailCreate(t)       BY <2>5 DEF FailCreate, RollBack
  <2>6. CASE Notify(t)           BY <2>6 DEF Notify, database
  <2> QED BY <1>3, <2>1, <2>2, <2>3, <2>4, <2>5, <2>6 DEF Worker
<1>4. ASSUME NEW t \in Tasks, AbortIncident(t) \/ MissDeadline(t)
      PROVE  UNCHANGED <<recent, buffer, failures>>
  BY <1>4 DEF AbortIncident, RollBack, MissDeadline
<1>5. ASSUME Api, ~(\E m \in Monitors : DeleteMonitor(m))
      PROVE  UNCHANGED <<recent, buffer, failures>>
  BY <1>5, ApiKeeps
<1>6. UNCHANGED vars => UNCHANGED <<recent, buffer, failures>>
  BY DEF vars
<1> QED BY <1>1, <1>2, <1>3, <1>4, <1>5, <1>6, Zenon DEF Next

\* Every step keeps the evidence, and the counts only grow.
LEMMA EvidenceStep ==
  ASSUME TypeOK, \A p \in Pairs : Evidence(p), [Next]_vars
  PROVE  /\ \A p \in Pairs : Evidence(p)'
         /\ \A p \in Pairs : failures'[p] >= failures[p]
<1>1. ASSUME NEW t \in Tasks, RunPing(t)
      PROVE  (\A p \in Pairs : Evidence(p)') /\ \A p \in Pairs : failures'[p] >= failures[p]
  BY <1>1, RunPingEvidence
<1>2. ASSUME NEW p \in Pairs, NEW k \in 1..Len(buffer[p]), Persist(p, k)
      PROVE  (\A q \in Pairs : Evidence(q)') /\ UNCHANGED failures
  BY <1>2, PersistEvidence DEF Persist
<1>3. ASSUME UNCHANGED failures PROVE \A p \in Pairs : failures'[p] >= failures[p]
  BY <1>3, EvidenceTypes
<1>4. ASSUME UNCHANGED <<recent, buffer, failures>> PROVE \A p \in Pairs : Evidence(p)'
  BY <1>4, LessEvidence
<1>5. ASSUME NEW r \in Regions, CrashWorker(r)
      PROVE  (\A p \in Pairs : Evidence(p)') /\ UNCHANGED failures
  <2>1. /\ UNCHANGED <<recent, failures>>
        /\ \A p \in Pairs : buffer'[p] \in {buffer[p], <<>>}
    BY <1>5 DEF CrashWorker
  <2> QED BY <2>1, LessEvidence
<1>6. ASSUME NEW m \in Monitors, DeleteMonitor(m)
      PROVE  (\A p \in Pairs : Evidence(p)') /\ UNCHANGED failures
  <2>1. /\ UNCHANGED failures
        /\ \A p \in Pairs : recent'[p] \in {recent[p], <<>>} /\ buffer'[p] \in {buffer[p], <<>>}
    BY <1>6 DEF DeleteMonitor
  <2> QED BY <2>1, LessEvidence
<1> QED BY <1>1, <1>2, <1>3, <1>4, <1>5, <1>6, PingWriters

\* Deciding to open an incident takes the failures the window has.
LEMMA DecideEvidence ==
  ASSUME TypeOK, \A p \in Pairs : Evidence(p), NEW t \in Tasks, Decide(t), task'[t].plan = "create"
  PROVE  /\ failures[Pair(t)] >= FailureThreshold[task[t].monitor] - 1
         /\ task'[t].monitor = task[t].monitor /\ task'[t].region = task[t].region
<1>1. task[t] \in TaskType /\ task[t].pc = "ready"
  BY DEF TypeOK, Decide
<1>2. /\ task'[t].plan = IF Successful(t) THEN RecoveryPlan(t) ELSE FailurePlan(t)
      /\ task'[t].monitor = task[t].monitor /\ task'[t].region = task[t].region
  BY <1>1 DEF Decide, TypeOK, TaskType
<1>3. RecoveryPlan(t) # "create"
  BY DEF RecoveryPlan
<1>4. FailurePlan(t) = "create"
  BY <1>2, <1>3
<1> DEFINE T == FailureThreshold[task[t].monitor]
           p == Pair(t)
<1>5. Detected(Samples(t, Window(T) - 1), T)
  BY <1>4 DEF FailurePlan
<1>6. task[t].monitor \in Monitors /\ task[t].region \in Regions
  BY <1>1 DEF TaskType, InTransaction
<1>7. p \in Pairs /\ p[1] = task[t].monitor
  BY <1>6 DEF Pair, Pairs
<1>8. /\ T \in Nat \ {0} /\ recent[p] \in Seq(BOOLEAN) /\ failures[p] \in Nat
      /\ Cardinality(Fails(recent[p])) \in Nat /\ Cardinality(Lost(buffer[p])) \in Nat
      /\ Evidence(p)
  BY <1>7, EvidenceTypes
<1>9. Window(T) - 1 \in Nat
  <2>1. \A n \in Nat \ {0} : (3 * n + 1) \div 2 \in Nat /\ (3 * n + 1) \div 2 >= 1
    OBVIOUS
  <2>2. Window(T) \in Nat /\ Window(T) >= 1
    BY <1>8, <2>1, Zenon DEF Window
  <2> HIDE DEF T
  <2> QED BY <2>2
<1>10. Successful(t) \in BOOLEAN
  BY DEF Successful
<1>11. Cardinality(Fails(recent[p])) >= T - 1
  BY <1>5, <1>8, <1>9, <1>10, DetectedFails DEF Samples
<1>12. failures[p] = T \/ Cardinality(Fails(recent[p])) + Cardinality(Lost(buffer[p])) <= failures[p]
  BY <1>7, <1>8 DEF Evidence
<1>13. failures[p] >= T - 1
  <2> HIDE DEF T, p
  <2> QED BY <1>8, <1>11, <1>12
<1> QED BY <1>2, <1>13

(* An incident that is opened by a worker has had at least threshold - 1   *)
(* failed pings, whatever was lost, stored late or counted twice (the ping *)
(* at hand may be stored already): monitor_ping.go:244.                    *)
THEOREM DetectionAlwaysNeedsFailures == Spec => []DetectionNeedsFailures
<1>1. Init => DetectionInv
  <2> SUFFICES ASSUME Init PROVE DetectionInv
    OBVIOUS
  <2>1. ASSUME NEW p \in Pairs PROVE Evidence(p)
    <3>1. p[1] \in Monitors
      BY DEF Pairs
    <3>2. FailureThreshold[p[1]] \in Nat \ {0}
      BY <3>1, ConstantsAssumption
    <3>3. recent[p] = <<>> /\ buffer[p] = <<>> /\ failures[p] = 0
      BY DEF Init
    <3>4. Fails(<<>>) = {} /\ Lost(<<>>) = {}
      BY DEF Fails, Lost
    <3>5. Cardinality(Fails(recent[p])) = 0 /\ Cardinality(Lost(buffer[p])) = 0
      BY <3>3, <3>4, FS_EmptySet
    <3> QED BY <3>2, <3>3, <3>5 DEF Evidence
  <2>2. DetectionNeedsFailures
    <3>1. \A t \in Tasks : task[t].plan = "none"
      BY DEF Init, IdleTask
    <3> QED BY <3>1 DEF DetectionNeedsFailures
  <2> QED BY <2>1, <2>2 DEF DetectionInv
<1>2. TypeOK /\ TypeOK' /\ DetectionInv /\ [Next]_vars => DetectionInv'
  <2> SUFFICES ASSUME TypeOK, TypeOK', DetectionInv, [Next]_vars PROVE DetectionInv'
    OBVIOUS
  <2>1. /\ \A p \in Pairs : Evidence(p)'
        /\ \A p \in Pairs : failures'[p] >= failures[p]
    BY EvidenceStep DEF DetectionInv
  <2>2. ASSUME NEW t \in Tasks, task'[t].plan = "create"
        PROVE  failures'[Pair(t)'] >= FailureThreshold[task'[t].monitor] - 1
    <3>1. /\ failures[Pair(t)] >= FailureThreshold[task[t].monitor] - 1
          /\ task'[t].monitor = task[t].monitor /\ task'[t].region = task[t].region
          /\ Pair(t) \in Pairs
      <4>1. CASE Decide(t)
        <5>1. task[t] \in TaskType /\ task[t].pc = "ready"
          BY <4>1 DEF TypeOK, Decide
        <5>2. Pair(t) \in Pairs
          BY <5>1 DEF TaskType, Pair, Pairs, InTransaction
        <5> QED BY <2>2, <4>1, <5>2, DecideEvidence DEF DetectionInv
      <4>2. CASE /\ task[t].plan = "create"
                 /\ task'[t].monitor = task[t].monitor
                 /\ task'[t].region = task[t].region
        <5>1. task[t] \in TaskType
          BY DEF TypeOK
        <5>2. Pair(t) \in Pairs
          BY <4>2, <5>1 DEF TaskType, Pair, Pairs
        <5> QED BY <4>2, <5>2 DEF DetectionInv, DetectionNeedsFailures
      <4> QED BY <2>2, <4>1, <4>2, PlanToCreate
    <3>2. Pair(t)' = Pair(t)
      BY <3>1 DEF Pair
    <3>3. FailureThreshold[task[t].monitor] \in Nat /\ failures[Pair(t)] \in Nat
      <4>1. Pair(t)[1] = task[t].monitor
        BY DEF Pair
      <4> QED BY <3>1, <4>1, EvidenceTypes
    <3>4. failures'[Pair(t)] >= failures[Pair(t)]
      BY <2>1, <3>1
    <3>5. failures'[Pair(t)] \in Nat
      BY <3>1 DEF TypeOK
    <3> QED BY <3>1, <3>2, <3>3, <3>4, <3>5
  <2> QED BY <2>1, <2>2 DEF DetectionInv, DetectionNeedsFailures
<1>3. DetectionInv => DetectionNeedsFailures
  BY DEF DetectionInv
<1> QED BY <1>1, <1>2, <1>3, TypeCorrect, PTL DEF Spec
-----------------------------------------------------------------------------
(* What the decisions promise, whatever the thresholds and however long    *)
(* the log of pings is; and that the model may forget all but the newest.  *)

\* The elements of the newest pings.
LEMMA NewestParts ==
  ASSUME NEW S, NEW s \in Seq(S), NEW n \in Nat
  PROVE  /\ Newest(s, n) \in Seq(S)
         /\ Len(s) \in Nat
         /\ n <= Len(s) => Len(Newest(s, n)) = n
         /\ Len(s) <= n => Len(Newest(s, n)) = Len(s)
         /\ \A i \in 1..Len(Newest(s, n)) : Newest(s, n)[i] = s[i]
<1> DEFINE l == Lesser(n, Len(s))
<1>1. Len(s) \in Nat /\ (\A j \in 1..Len(s) : s[j] \in S)
  BY SeqElements
<1>2. l \in 0..Len(s) /\ (n <= Len(s) => l = n) /\ (Len(s) <= n => l = Len(s))
  BY <1>1 DEF Lesser
<1>3. Newest(s, n) = SubSeq(s, 1, l)
  BY DEF Newest
<1> HIDE DEF l
<1>4. \A i \in 1..l : s[i] \in S
  BY <1>1, <1>2
<1>5. /\ SubSeq(s, 1, l) \in Seq(S)
      /\ Len(SubSeq(s, 1, l)) = l
      /\ \A i \in 1..l : SubSeq(s, 1, l)[i] = s[i]
  BY <1>1, <1>2, <1>4, SubSeqProperties
<1> QED BY <1>1, <1>2, <1>3, <1>5

\* Whoever wants the n newest needs no more than the h newest.
LEMMA NewestOfNewest ==
  ASSUME NEW S, NEW s \in Seq(S), NEW h \in Nat, NEW n \in 0..h
  PROVE  Newest(Newest(s, h), n) = Newest(s, n)
<1> DEFINE a == Newest(s, h)
           b == Newest(a, n)
           c == Newest(s, n)
<1>1. /\ a \in Seq(S) /\ Len(s) \in Nat
      /\ h <= Len(s) => Len(a) = h
      /\ Len(s) <= h => Len(a) = Len(s)
      /\ \A i \in 1..Len(a) : a[i] = s[i]
  BY NewestParts
<1>2. n \in Nat /\ n <= h
  OBVIOUS
<1>3. /\ c \in Seq(S)
      /\ n <= Len(s) => Len(c) = n
      /\ Len(s) <= n => Len(c) = Len(s)
      /\ \A i \in 1..Len(c) : c[i] = s[i]
  BY <1>2, NewestParts
<1> HIDE DEF a, c
<1>4. /\ b \in Seq(S) /\ Len(a) \in Nat
      /\ n <= Len(a) => Len(b) = n
      /\ Len(a) <= n => Len(b) = Len(a)
      /\ \A i \in 1..Len(b) : b[i] = a[i]
  BY <1>1, <1>2, NewestParts
<1> HIDE DEF b
<1>5. Len(b) = Len(c) /\ Len(b) \in Nat /\ Len(b) <= Len(a)
  BY <1>1, <1>2, <1>3, <1>4
<1>6. \A i \in 1..Len(b) : b[i] = c[i]
  BY <1>1, <1>3, <1>4, <1>5
<1>7. b = c
  BY <1>3, <1>4, <1>5, <1>6, SeqEqual
<1> QED BY <1>7 DEF a, b, c

\* Two sequences that have the same n newest elements, in so many words.
LEMMA SameNewest ==
  ASSUME NEW S, NEW u \in Seq(S), NEW v \in Seq(S), NEW n \in Nat,
         \/ Len(u) = Len(v)
         \/ n <= Len(u) /\ n <= Len(v),
         \A i \in 1..n : i <= Len(u) => u[i] = v[i]
  PROVE  Newest(u, n) = Newest(v, n)
<1> DEFINE a == Newest(u, n)
           b == Newest(v, n)
<1>1. /\ a \in Seq(S) /\ Len(u) \in Nat
      /\ n <= Len(u) => Len(a) = n
      /\ Len(u) <= n => Len(a) = Len(u)
      /\ \A i \in 1..Len(a) : a[i] = u[i]
  BY NewestParts
<1>2. /\ b \in Seq(S) /\ Len(v) \in Nat
      /\ n <= Len(v) => Len(b) = n
      /\ Len(v) <= n => Len(b) = Len(v)
      /\ \A i \in 1..Len(b) : b[i] = v[i]
  BY NewestParts
<1> HIDE DEF a, b
<1>3. Len(a) = Len(b) /\ Len(a) \in Nat /\ Len(a) <= n /\ Len(a) <= Len(u)
  BY <1>1, <1>2
<1>4. \A i \in 1..Len(a) : a[i] = b[i]
  BY <1>1, <1>2, <1>3
<1>5. a = b
  BY <1>1, <1>2, <1>3, <1>4, SeqEqual
<1> QED BY <1>5 DEF a, b

\* A ping stored among the h newest leaves the same h newest as one stored in
\* the whole log, at its place in either (recorder.go stores pings late, with
\* the time they were made at): cutting the log is not seen by what follows.
THEOREM CutCommutesWithStoring ==
  ASSUME NEW S, NEW s \in Seq(S), NEW h \in Nat, NEW newer \in 0..Len(s), NEW ping \in S
  PROVE  Newest(InsertByTime(Newest(s, h), Lesser(newer, Len(Newest(s, h))), ping), h)
           = Newest(InsertByTime(s, newer, ping), h)
<1> DEFINE a == Newest(s, h)
           n == Lesser(newer, Len(a))
           u == InsertByTime(a, n, ping)
           v == InsertByTime(s, newer, ping)
<1>1. /\ a \in Seq(S) /\ Len(s) \in Nat
      /\ h <= Len(s) => Len(a) = h
      /\ Len(s) <= h => Len(a) = Len(s)
      /\ \A i \in 1..Len(a) : a[i] = s[i]
  BY NewestParts
<1> HIDE DEF a
<1>2. /\ newer \in Nat /\ newer <= Len(s) /\ Len(a) \in Nat
      /\ n \in 0..Len(a)
      /\ newer <= Len(a) => n = newer
      /\ Len(a) <= newer => n = Len(a)
  BY <1>1 DEF Lesser
<1> HIDE DEF n
<1>3. u \in Seq(S) /\ Len(u) = Len(a) + 1
  BY <1>1, <1>2, InsertedParts
<1>3a. \A j \in 1..n : u[j] = a[j]
  BY <1>1, <1>2, InsertedParts
<1>3b. u[n + 1] = ping /\ \A j \in (n + 1)..Len(a) : u[j + 1] = a[j]
  BY <1>1, <1>2, InsertedParts
<1>4. v \in Seq(S) /\ Len(v) = Len(s) + 1
  BY InsertedParts
<1>4a. \A j \in 1..newer : v[j] = s[j]
  BY InsertedParts
<1>4b. v[newer + 1] = ping /\ \A j \in (newer + 1)..Len(s) : v[j + 1] = s[j]
  BY InsertedParts
<1> HIDE DEF u, v
<1>5. Len(u) = Len(v) \/ (h <= Len(u) /\ h <= Len(v))
  BY <1>1, <1>2, <1>3, <1>4
<1>6. ASSUME NEW i \in 1..h, i <= Len(u) PROVE u[i] = v[i]
  <2>1. CASE i <= n
    <3>1. i \in 1..n /\ i \in 1..Len(a) /\ i \in 1..newer
      BY <1>2, <2>1
    <3> QED BY <1>1, <1>3a, <1>4a, <3>1
  <2>2. CASE i = n + 1
    <3>1. n = newer
      BY <1>1, <1>2, <1>6, <2>2
    <3> QED BY <1>3b, <1>4b, <2>2, <3>1
  <2>3. CASE i > n + 1
    <3>1. /\ i - 1 \in (n + 1)..Len(a) /\ (i - 1) + 1 = i
          /\ n = newer /\ i - 1 \in (newer + 1)..Len(s)
          /\ i - 1 \in 1..Len(a)
      BY <1>1, <1>2, <1>3, <1>6, <2>3
    <3>2. u[i] = a[i - 1] /\ v[i] = s[i - 1] /\ a[i - 1] = s[i - 1]
      BY <1>1, <1>3b, <1>4b, <3>1
    <3> QED BY <3>2
  <2> QED BY <1>2, <2>1, <2>2, <2>3
<1>7. Newest(u, h) = Newest(v, h)
  BY <1>3, <1>4, <1>5, <1>6, SameNewest
<1> QED BY <1>7 DEF a, n, u, v
\* What Incidents keeps of the log is all that either query looks at, for any
\* thresholds (ListRecentPingsByMonitorIDAndRegion with window - 1 and with
\* recoveryThreshold - 1 as its limit, monitor_ping.go:232 and :294).
THEOREM HorizonKeepsDecisions ==
  ASSUME NEW f \in Nat \ {0}, NEW r \in Nat \ {0}, NEW log \in Seq(BOOLEAN)
  PROVE  /\ Newest(Newest(log, Horizon(f, r)), Window(f) - 1) = Newest(log, Window(f) - 1)
         /\ Newest(Newest(log, Horizon(f, r)), r - 1) = Newest(log, r - 1)
<1>1. Horizon(f, r) \in Nat
  BY HorizonIsNatural
<1>2. Window(f) - 1 \in 0..Horizon(f, r) /\ r - 1 \in 0..Horizon(f, r)
  BY DEF Horizon, Greater, Window
<1> QED BY <1>1, <1>2, NewestOfNewest

\* A window is at least as long as its threshold.
LEMMA WindowHolds ==
  ASSUME NEW f \in Nat \ {0}
  PROVE  Window(f) \in Nat /\ f <= Window(f)
BY DEF Window

\* The failures in a window are finitely many.
LEMMA FailedAtFinite ==
  ASSUME NEW s \in Seq(BOOLEAN), NEW w \in Nat
  PROVE  /\ Len(s) \in Nat
         /\ FailedAt(s, w) = {k \in 1..Len(s) : k <= w /\ ~s[k]}
         /\ IsFiniteSet(FailedAt(s, w))
         /\ CountFailures(s, w) \in Nat
         /\ CountFailures(s, w) = Cardinality(FailedAt(s, w))
<1>1. Len(s) \in Nat
  BY LenProperties
<1>2. FailedAt(s, w) = {k \in 1..Len(s) : k <= w /\ ~s[k]}
  BY <1>1 DEF FailedAt, Lesser
<1>3. FailedAt(s, w) \in SUBSET (1..Len(s)) /\ IsFiniteSet(1..Len(s))
  BY <1>1, <1>2, FS_Interval
<1>4. IsFiniteSet(FailedAt(s, w))
  BY <1>3, FS_Subset
<1>5. CountFailures(s, w) = Cardinality(FailedAt(s, w))
  BY DEF CountFailures
<1> QED BY <1>1, <1>2, <1>4, <1>5, FS_CardinalityType

\* As many failures in a row as the threshold asks for open an incident,
\* whatever came before them (monitor_ping.go:231-244): the longer window and
\* the comparison of lengths hold nothing back.
THEOREM OutageIsDetected ==
  ASSUME NEW f \in Nat \ {0}, NEW s \in Seq(BOOLEAN), f <= Len(s),
         \A k \in 1..f : ~s[k]
  PROVE  Detected(s, f)
<1> DEFINE w == Window(f)
<1>1. w \in Nat /\ f <= w
  BY WindowHolds
<1> HIDE DEF w
<1>2. /\ Len(s) \in Nat
      /\ FailedAt(s, w) = {k \in 1..Len(s) : k <= w /\ ~s[k]}
      /\ IsFiniteSet(FailedAt(s, w))
      /\ CountFailures(s, w) \in Nat
      /\ CountFailures(s, w) = Cardinality(FailedAt(s, w))
  BY <1>1, FailedAtFinite
<1>3. 1..f \in SUBSET FailedAt(s, w)
  BY <1>1, <1>2
<1>4. Cardinality(1..f) = f
  BY FS_Interval
<1>5. f <= CountFailures(s, w)
  BY <1>2, <1>3, <1>4, FS_Subset
<1> QED BY <1>1, <1>2, <1>5 DEF Detected, w

\* An incident is not opened again by a single failure after its recovery, when
\* the successes that recovery takes are more than the failures a window can
\* lack (monitor_ping.go:231 against :288).  With fewer, it can be: the
\* failures of before the recovery are counted once more.
THEOREM RecoveryHolds ==
  ASSUME NEW f \in Nat, f >= 2, NEW r \in Nat, r > Window(f) - f,
         NEW s \in Seq(BOOLEAN), Recovered(s, r)
  PROVE  ~Detected(<<FALSE>> \o s, f)
<1> DEFINE w == Window(f)
           t == <<FALSE>> \o s
<1>1. w \in Nat /\ f <= w /\ r > w - f
  BY WindowHolds
<1>2. /\ <<FALSE>> \in Seq(BOOLEAN) /\ Len(<<FALSE>>) = 1
  OBVIOUS
<1>3. t \in Seq(BOOLEAN)
  BY <1>2, ConcatParts
<1>4. Len(t) = 1 + Len(s)
  BY <1>2, ConcatParts
<1>5. \A i \in 1..Len(s) : t[1 + i] = s[i]
  BY <1>2, ConcatParts
<1>6. r <= Len(s) /\ \A k \in 1..r : s[k]
  BY DEF Recovered
<1> HIDE DEF w, t
<1>7. /\ Len(t) \in Nat
      /\ FailedAt(t, w) = {k \in 1..Len(t) : k <= w /\ ~t[k]}
      /\ CountFailures(t, w) = Cardinality(FailedAt(t, w))
  BY <1>1, <1>3, FailedAtFinite
<1>8. Len(s) \in Nat
  BY LenProperties
<1>9. FailedAt(t, w) \in SUBSET ({1} \cup ((r + 2)..w))
  <2>1. ASSUME NEW k \in FailedAt(t, w), k # 1 PROVE k \in (r + 2)..w
    <3>1. k \in 1..Len(t) /\ k <= w /\ ~t[k]
      BY <1>7
    <3>2. k - 1 \in 1..Len(s) /\ 1 + (k - 1) = k
      BY <1>4, <1>8, <2>1, <3>1
    <3>3. ~s[k - 1]
      BY <1>5, <3>1, <3>2
    <3>4. ~(k - 1 <= r)
      BY <1>6, <3>2, <3>3
    <3> QED BY <1>1, <1>8, <3>1, <3>4
  <2> QED BY <2>1
<1>10. /\ IsFiniteSet((r + 2)..w)
       /\ Cardinality((r + 2)..w) \in Nat
       /\ Cardinality((r + 2)..w) <= f - 2
  <2>1. r + 2 \in Int /\ w \in Int
    BY <1>1
  <2>2. IsFiniteSet((r + 2)..w)
    BY <2>1, FS_Interval
  <2>3. CASE r + 2 > w
    <3>1. Cardinality((r + 2)..w) = 0
      BY <2>1, <2>3, FS_Interval
    <3> QED BY <2>2, <3>1
  <2>4. CASE ~(r + 2 > w)
    <3>1. Cardinality((r + 2)..w) = w - (r + 2) + 1
      BY <2>1, <2>4, FS_Interval
    <3> QED BY <1>1, <2>2, <2>4, <3>1
  <2> QED BY <2>3, <2>4
<1>11. 1 \notin (r + 2)..w
  BY <1>1
<1>12. /\ IsFiniteSet(((r + 2)..w) \cup {1})
       /\ Cardinality(((r + 2)..w) \cup {1}) = Cardinality((r + 2)..w) + 1
  BY <1>10, <1>11, FS_AddElement
<1>13. FailedAt(t, w) \in SUBSET (((r + 2)..w) \cup {1})
  BY <1>9
<1>14. CountFailures(t, w) <= Cardinality(((r + 2)..w) \cup {1}) /\ CountFailures(t, w) \in Nat
  BY <1>7, <1>12, <1>13, FS_Subset, FS_CardinalityType
<1>15. ~(CountFailures(t, w) >= f)
  BY <1>10, <1>12, <1>14
<1> QED BY <1>15 DEF Detected, w, t
-----------------------------------------------------------------------------
(* One active incident per monitor.  OneActiveIncident fails, and the      *)
(* theorem below says when only: when two transactions about a monitor     *)
(* overlap, or when somebody opens an incident through the API.            *)

\* No two transactions about one monitor are under way at once.
NoOverlap ==
  \A t, u \in Tasks :
    /\ task[t].pc \in InTransaction
    /\ task[u].pc \in InTransaction
    /\ task[t].monitor = task[u].monitor
    => t = u

\* A step opens or reopens an incident only if it commits a worker's.
OnlyWorkersOpen ==
  \/ \E t \in Tasks : CommitIncident(t)
  \/ \A i \in IncidentIds : Open(i)' => Open(i)

\* A transaction that has read of no open incident is right about it still.
OpenAsRead(t) ==
  task[t].pc \in InTransaction /\ task[t].open = None
    => OpenIncidents(task[t].monitor) = {}

\* It plans to open one only when it has read of none.
CreatesUnseen(t) ==
  task[t].pc \in InTransaction /\ task[t].plan = "create" => task[t].open = None

AtMostOne(m) == \A i, j \in OpenIncidents(m) : i = j

SingleInv ==
  /\ \A t \in Tasks : OpenAsRead(t) /\ CreatesUnseen(t)
  /\ \A m \in Monitors : AtMostOne(m)

\* A transaction begins with LoadOpenIncident, and keeps what that has read.
LEMMA TransactionSteps ==
  ASSUME TypeOK, [Next]_vars, NEW t \in Tasks, task'[t].pc \in InTransaction
  PROVE  \/ LoadOpenIncident(t)
         \/ /\ task[t].pc \in InTransaction
            /\ task'[t].monitor = task[t].monitor
            /\ task'[t].open = task[t].open
<1> DEFINE Same == /\ task[t].pc \in InTransaction
                   /\ task'[t].monitor = task[t].monitor
                   /\ task'[t].open = task[t].open
           Outside == task'[t].pc \in {"idle", "queued", "recorded", "committed"}
<1>0. task \in [Tasks -> TaskType] /\ IdleTask.pc = "idle"
  BY DEF TypeOK, IdleTask
<1>00. ASSUME NEW u \in Tasks PROVE Requeued(u).pc = "queued"
  <2>1. task[u] \in TaskType
    BY <1>0
  <2> QED BY <2>1 DEF Requeued, TaskType
<1>01. ASSUME task'[t] = task[t] PROVE Same
  BY <1>01
<1>02. \A x : x \in TaskType => x = [pc |-> x.pc, monitor |-> x.monitor, region |-> x.region,
                                     seen |-> x.seen, ping |-> x.ping, open |-> x.open,
                                     auto |-> x.auto, plan |-> x.plan]
  BY DEF TaskType
<1>1. ASSUME NEW u \in Tasks, NEW m, NEW r, Enqueue(u, m, r) PROVE Same \/ Outside
  <2>1. [IdleTask EXCEPT !.pc = "queued", !.monitor = m, !.region = r, !.seen = status[m]].pc = "queued"
    BY DEF IdleTask
  <2>2. t = u \/ task'[t] = task[t]
    BY <1>0, <1>1 DEF Enqueue
  <2>3. t = u => task'[t].pc = "queued"
    BY <1>0, <1>1, <2>1 DEF Enqueue
  <2> QED BY <1>01, <2>2, <2>3
<1>2. ASSUME NEW u \in Tasks, RunPing(u) PROVE Same \/ Outside
  <2>1. t = u \/ task'[t] = task[t]
    BY <1>0, <1>2 DEF RunPing
  <2>2. t = u => task'[t].pc = "recorded"
    BY <1>0, <1>02, <1>2 DEF RunPing
  <2> QED BY <1>01, <2>1, <2>2
<1>3. ASSUME NEW u \in Tasks, LoadOpenIncident(u) PROVE Same \/ LoadOpenIncident(t)
  <2>1. t = u \/ task'[t] = task[t]
    BY <1>0, <1>3 DEF LoadOpenIncident
  <2> QED BY <1>01, <1>3, <2>1
<1>4. ASSUME NEW u \in Tasks, WriteStatus(u) PROVE Same
  <2>1. t = u \/ task'[t] = task[t]
    BY <1>0, <1>4 DEF WriteStatus
  <2>2. t = u => task[t].pc = "loaded" /\ task'[t].monitor = task[t].monitor /\ task'[t].open = task[t].open
    BY <1>0, <1>02, <1>4 DEF WriteStatus
  <2> QED BY <1>01, <2>1, <2>2 DEF InTransaction
<1>5. ASSUME NEW u \in Tasks, Decide(u) PROVE Same
  <2>1. t = u \/ task'[t] = task[t]
    BY <1>0, <1>5 DEF Decide
  <2>2. t = u => task[t].pc = "ready" /\ task'[t].monitor = task[t].monitor /\ task'[t].open = task[t].open
    BY <1>0, <1>02, <1>5 DEF Decide
  <2> QED BY <1>01, <2>1, <2>2 DEF InTransaction
<1>6. ASSUME NEW u \in Tasks, CommitIncident(u) PROVE Same \/ Outside
  <2>1. \/ task' = [task EXCEPT ![u] = IdleTask]
        \/ \E i : task' = [task EXCEPT ![u].pc = "committed", ![u].open = i]
        \/ task' = [task EXCEPT ![u].pc = "committed"]
    BY <1>6 DEF CommitIncident
  <2>2. t = u \/ task'[t] = task[t]
    BY <1>0, <2>1
  <2>3. t = u => task'[t].pc \in {"idle", "committed"}
    BY <1>0, <1>02, <2>1
  <2> QED BY <1>01, <2>2, <2>3
<1>7. ASSUME NEW u \in Tasks, Notify(u) \/ FailCreate(u) \/ AbortIncident(u) PROVE Same \/ Outside
  <2>1. task' = [task EXCEPT ![u] = IdleTask]
    BY <1>7 DEF Notify, FailCreate, AbortIncident, RollBack
  <2> QED BY <1>0, <1>01, <2>1
<1>8. ASSUME NEW u \in Tasks, MissDeadline(u) PROVE Same \/ Outside
  <2>1. task' = [task EXCEPT ![u] = Requeued(u)]
    BY <1>8 DEF MissDeadline
  <2> QED BY <1>0, <1>00, <1>01, <2>1
<1>9. ASSUME NEW r \in Regions, CrashWorker(r) PROVE Same \/ Outside
  <2>1. task'[t] = Requeued(t) \/ task'[t] = task[t]
    BY <1>9 DEF CrashWorker
  <2> QED BY <1>00, <1>01, <2>1
<1>10. ASSUME \/ \E m \in Monitors : ChangeHealth(m)
              \/ \E p \in Pairs : \E k \in 1..Len(buffer[p]) : Persist(p, k)
              \/ Api
              \/ UNCHANGED vars
       PROVE  Same
  <2>1. UNCHANGED task
    BY <1>10, ApiKeeps DEF ChangeHealth, Persist, vars
  <2> QED BY <1>01, <2>1
<1>11. ~Outside
  BY DEF InTransaction
<1>12. LoadOpenIncident(t) \/ Same \/ Outside
  <2> HIDE DEF Same, Outside
  <2> QED BY <1>1, <1>2, <1>3, <1>4, <1>5, <1>6, <1>7, <1>8, <1>9, <1>10, Zenon DEF Next, Worker
<1> QED BY <1>11, <1>12
\* Only a worker that opens an incident makes a monitor have one more.
LEMMA OpenWriters ==
  ASSUME TypeOK, [Next]_vars, OnlyWorkersOpen
  PROVE  \/ \A m \in Monitors : OpenIncidents(m)' \subseteq OpenIncidents(m)
         \/ \E t \in Tasks, i \in IncidentIds :
              /\ task[t].pc = "decided" /\ task[t].plan = "create"
              /\ task'[t].pc = "committed"
              /\ \A m \in Monitors : OpenIncidents(m)' \subseteq
                   IF m = task[t].monitor THEN OpenIncidents(m) \cup {i} ELSE OpenIncidents(m)
<1> DEFINE Fewer == \A m \in Monitors : OpenIncidents(m)' \subseteq OpenIncidents(m)
<1>0. /\ incident \in [IncidentIds -> IncidentType]
      /\ task \in [Tasks -> TaskType]
  BY DEF TypeOK
<1>1. ASSUME \A i \in IncidentIds : Open(i)' => Open(i),
             \A i \in IncidentIds : Open(i)' => incident'[i].links \subseteq incident[i].links
      PROVE  Fewer
  BY <1>1 DEF OpenIncidents
<1>2. ASSUME UNCHANGED incident PROVE Fewer
  BY <1>2 DEF OpenIncidents, Open, Exists
<1>3. ASSUME NEW t \in Tasks, CommitIncident(t), task[t].plan # "create" PROVE Fewer
  <2>1. CASE UNCHANGED incident
    BY <1>2, <2>1
  <2>2. CASE \E i \in IncidentIds : ResolveIncident(t, i)
    <3>1. PICK i \in IncidentIds : ResolveIncident(t, i)
      BY <2>2
    <3>2. incident' = [incident EXCEPT ![i].status = "resolved", ![i].stamped = TRUE]
      BY <3>1 DEF ResolveIncident
    <3>3. incident'[i].status = "resolved" /\ \A j \in IncidentIds \ {i} : incident'[j] = incident[j]
      BY <1>0, <3>2 DEF IncidentType
    <3>4. \A j \in IncidentIds : Open(j)' => j # i
      BY <3>3 DEF Open
    <3> QED BY <1>1, <3>3, <3>4 DEF Open, Exists
  <2> QED BY <1>3, <2>1, <2>2 DEF CommitIncident, AnnotateIncident
<1>4. ASSUME NEW t \in Tasks, CommitIncident(t), task[t].plan = "create"
      PROVE  \E i \in IncidentIds :
               /\ task[t].pc = "decided" /\ task'[t].pc = "committed"
               /\ \A m \in Monitors : OpenIncidents(m)' \subseteq
                    IF m = task[t].monitor THEN OpenIncidents(m) \cup {i} ELSE OpenIncidents(m)
  <2>1. PICK i \in IncidentIds :
          /\ CreateIncidentIfAbsent(t, i)
          /\ task' = [task EXCEPT ![t].pc = "committed", ![t].open = i]
    BY <1>4 DEF CommitIncident
  <2>2. task[t].pc = "decided" /\ task'[t].pc = "committed"
    BY <1>0, <1>4, <2>1 DEF CommitIncident, TaskType
  <2>3. PICK s \in StartTimes : incident' = [incident EXCEPT ![i] =
          [status |-> "detected", stamped |-> FALSE, auto |-> TRUE,
           links |-> {task[t].monitor}, started |-> s, automatic |-> TRUE]]
    BY <2>1 DEF CreateIncidentIfAbsent
  <2>4. /\ incident'[i].links = {task[t].monitor}
        /\ \A j \in IncidentIds \ {i} : incident'[j] = incident[j]
    BY <1>0, <2>3
  <2>5. ASSUME NEW m \in Monitors, NEW j \in OpenIncidents(m)'
        PROVE  j \in OpenIncidents(m) \/ (j = i /\ m = task[t].monitor)
    <3>1. j \in IncidentIds /\ Open(j)' /\ m \in incident'[j].links
      BY <2>5 DEF OpenIncidents
    <3>2. CASE j = i
      BY <2>4, <3>1, <3>2
    <3>3. CASE j # i
      <4>1. incident'[j] = incident[j]
        BY <2>4, <3>1, <3>3
      <4> QED BY <3>1, <4>1 DEF OpenIncidents, Open, Exists
    <3> QED BY <3>2, <3>3
  <2> QED BY <2>2, <2>5
<1>5. ASSUME \A i \in IncidentIds : Open(i)' => Open(i), NEW q \in Requests, CreateIncident(q)
      PROVE  Fewer
  <2>1. PICK i \in IncidentIds : NextId(i) /\ \E r : incident' = [incident EXCEPT ![i] = r]
    BY <1>5 DEF CreateIncident
  <2>2. ~Open(i) /\ \A j \in IncidentIds \ {i} : incident'[j] = incident[j]
    BY <1>0, <2>1 DEF NextId, FreshIds, Open
  <2> QED BY <1>1, <1>5, <2>2
<1>6. ASSUME \A i \in IncidentIds : Open(i)' => Open(i),
             NEW q \in Requests, NEW i \in IncidentIds,
             \/ CreateIncidentEvent(q, i) \/ UpdateIncident(q, i)
             \/ \E s \in IncidentStatus : UpdateIncidentStatus(q, i, s)
      PROVE  Fewer
  <2>1. \A j \in IncidentIds : incident'[j].links = incident[j].links
    BY <1>6, IncidentEditEffect
  <2> QED BY <1>1, <1>6, <2>1
<1>7. ASSUME \A i \in IncidentIds : Open(i)' => Open(i), NEW m \in Monitors, DeleteMonitor(m)
      PROVE  Fewer
  <2>1. \A j \in IncidentIds : incident'[j].links = incident[j].links \ {m}
    BY <1>0, <1>7 DEF DeleteMonitor, IncidentType
  <2> QED BY <1>1, <1>7, <2>1
<1>8. CASE \E t \in Tasks : CommitIncident(t)
  BY <1>3, <1>4, <1>8
<1>9. CASE (\A i \in IncidentIds : Open(i)' => Open(i)) /\ ~\E t \in Tasks : CommitIncident(t)
  <2> HIDE DEF Fewer
  <2>1. Fewer
    BY <1>2, <1>5, <1>6, <1>7, <1>9, IncidentWriters, Zenon
  <2> QED BY <2>1 DEF Fewer
<1> QED BY <1>8, <1>9 DEF OnlyWorkersOpen

\* Without overlap, what a transaction has read stays true until it ends.
LEMMA SingleStep ==
  ASSUME TypeOK, NoOverlap, SingleInv, [Next]_vars, OnlyWorkersOpen
  PROVE  SingleInv'
<1>0. None \notin IncidentIds
  BY ConstantsAssumption
<1>1. ASSUME NEW t \in Tasks PROVE CreatesUnseen(t)'
  <2>1. SUFFICES ASSUME task'[t].pc \in InTransaction, task'[t].plan = "create"
                 PROVE  task'[t].open = None
    BY DEF CreatesUnseen
  <2>2. CASE Decide(t)
    <3>1. task' = [task EXCEPT ![t].pc = "decided",
                     ![t].plan = IF Successful(t) THEN RecoveryPlan(t) ELSE FailurePlan(t)]
      BY <2>2 DEF Decide
    <3>2. task[t] \in TaskType /\ task \in [Tasks -> TaskType]
      BY DEF TypeOK
    <3>3. /\ task'[t].open = task[t].open
          /\ Successful(t) => task'[t].plan = RecoveryPlan(t)
          /\ ~Successful(t) => task'[t].plan = FailurePlan(t)
      BY <3>1, <3>2 DEF TaskType
    <3>4. RecoveryPlan(t) # "create"
      BY DEF RecoveryPlan
    <3>5. FailurePlan(t) = "create" => task[t].open = None
      BY DEF FailurePlan
    <3> QED BY <2>1, <3>3, <3>4, <3>5
  <2>3. CASE task[t].plan = "create"
    <3>1. task[t].pc \in {"decided", "committed"}
      BY <2>3 DEF TypeOK, TaskType
    <3>2. task[t].pc \in InTransaction /\ task'[t].open = task[t].open
      BY <2>1, <3>1, TransactionSteps DEF LoadOpenIncident
    <3> QED BY <2>3, <3>2 DEF SingleInv, CreatesUnseen
  <2> QED BY <2>1, <2>2, <2>3, PlanToCreate
<1>2. ASSUME NEW t \in Tasks, LoadOpenIncident(t) PROVE OpenAsRead(t)'
  <2>1. PICK i \in IncidentIds \cup {None} :
          /\ GetOpenIncidentByMonitorID(task[t].monitor, i)
          /\ task' = [task EXCEPT ![t].pc = "loaded", ![t].open = i,
                                  ![t].auto = i # None /\ incident[i].auto]
    BY <1>2 DEF LoadOpenIncident
  <2>2. task'[t].open = i /\ task'[t].monitor = task[t].monitor
    BY <2>1 DEF TypeOK, TaskType
  <2>3. i = None => OpenIncidents(task[t].monitor) = {}
    BY <1>0, <2>1 DEF GetOpenIncidentByMonitorID, Latest, OpenIncidents
  <2>4. UNCHANGED incident
    BY <1>2 DEF LoadOpenIncident, database
  <2> QED BY <2>2, <2>3, <2>4 DEF OpenAsRead, OpenIncidents, Open, Exists
<1>3. ASSUME NEW t \in Tasks, ~LoadOpenIncident(t),
             task'[t].pc \in InTransaction, task'[t].open = None
      PROVE  /\ task[t].pc \in InTransaction
             /\ task'[t].monitor = task[t].monitor
             /\ OpenIncidents(task[t].monitor) = {}
  BY <1>3, TransactionSteps DEF SingleInv, OpenAsRead
<1>4. ASSUME NEW t \in Tasks, task'[t].pc \in InTransaction PROVE task'[t].monitor \in Monitors
  <2>1. task[t] \in TaskType /\ task \in [Tasks -> TaskType] /\ None \notin Monitors
    BY ConstantsAssumption DEF TypeOK
  <2>2. task[t].pc # "idle" /\ task'[t].monitor = task[t].monitor
    <3>1. CASE LoadOpenIncident(t)
      BY <2>1, <3>1 DEF LoadOpenIncident, TaskType
    <3> QED BY <1>4, <3>1, TransactionSteps DEF InTransaction
  <2> QED BY <2>1, <2>2 DEF TaskType
<1>5. CASE \A m \in Monitors : OpenIncidents(m)' \subseteq OpenIncidents(m)
  <2>1. ASSUME NEW t \in Tasks PROVE OpenAsRead(t)'
    BY <1>2, <1>3, <1>4, <1>5 DEF OpenAsRead
  <2>2. ASSUME NEW m \in Monitors PROVE AtMostOne(m)'
    BY <1>5 DEF SingleInv, AtMostOne
  <2> QED BY <1>1, <2>1, <2>2 DEF SingleInv
<1>6. ASSUME NEW t \in Tasks, NEW i \in IncidentIds,
             task[t].pc = "decided", task[t].plan = "create", task'[t].pc = "committed",
             \A m \in Monitors : OpenIncidents(m)' \subseteq
               IF m = task[t].monitor THEN OpenIncidents(m) \cup {i} ELSE OpenIncidents(m)
      PROVE  SingleInv'
  <2>1. OpenIncidents(task[t].monitor) = {}
    BY <1>6 DEF SingleInv, OpenAsRead, CreatesUnseen, InTransaction
  <2>2. ASSUME NEW u \in Tasks PROVE OpenAsRead(u)'
    <3>1. SUFFICES ASSUME task'[u].pc \in InTransaction, task'[u].open = None,
                          ~LoadOpenIncident(u)
                   PROVE  OpenIncidents(task[u].monitor)' = {} /\ task'[u].monitor = task[u].monitor
      BY <1>2 DEF OpenAsRead
    <3>2. /\ task[u].pc \in InTransaction /\ OpenIncidents(task[u].monitor) = {}
          /\ task'[u].monitor = task[u].monitor /\ task[u].monitor \in Monitors
      BY <1>3, <1>4, <3>1
    <3>3. u # t
      BY <1>6, <3>1 DEF InTransaction
    <3>4. task[u].monitor # task[t].monitor
      BY <1>6, <3>2, <3>3 DEF NoOverlap, InTransaction
    <3> QED BY <1>6, <3>2, <3>4
  <2>3. ASSUME NEW m \in Monitors PROVE AtMostOne(m)'
    <3>1. CASE m = task[t].monitor
      BY <1>6, <2>1, <3>1 DEF AtMostOne
    <3>2. CASE m # task[t].monitor
      BY <1>6, <3>2 DEF SingleInv, AtMostOne
    <3> QED BY <3>1, <3>2
  <2> QED BY <1>1, <2>2, <2>3 DEF SingleInv
<1> QED BY <1>5, <1>6, OpenWriters

\* A monitor has at most one active incident as long as no two transactions
\* about it overlap and none is opened or reopened through the API: that is
\* all OneActiveIncident fails for (processIncident reads and writes in one
\* transaction, but its read locks nothing: monitor_ping.go:164, 244-252).
THEOREM OneActiveWithoutOverlap ==
  Spec /\ []NoOverlap /\ [][OnlyWorkersOpen]_vars => []OneActiveIncident
<1>1. Init => SingleInv
  <2> SUFFICES ASSUME Init PROVE SingleInv
    OBVIOUS
  <2>1. \A t \in Tasks : task[t].pc = "idle"
    BY DEF Init, IdleTask
  <2>2. \A m \in Monitors : OpenIncidents(m) = {}
    BY DEF Init, OpenIncidents, Open, Exists, NoIncident
  <2> QED BY <2>1, <2>2 DEF SingleInv, OpenAsRead, CreatesUnseen, AtMostOne, InTransaction
<1>2. TypeOK /\ NoOverlap /\ SingleInv /\ [Next /\ OnlyWorkersOpen]_vars => SingleInv'
  <2>1. ASSUME TypeOK, NoOverlap, SingleInv, Next, OnlyWorkersOpen PROVE SingleInv'
    BY <2>1, SingleStep
  <2>2. ASSUME TypeOK, NoOverlap, SingleInv, UNCHANGED vars PROVE SingleInv'
    <3>1. OnlyWorkersOpen
      BY <2>2 DEF OnlyWorkersOpen, vars, Open, Exists
    <3> QED BY <2>2, <3>1, SingleStep
  <2> QED BY <2>1, <2>2
<1>3. SingleInv => OneActiveIncident
  <2> SUFFICES ASSUME SingleInv, NEW m \in Monitors
               PROVE  Cardinality(OpenIncidents(m)) <= 1
    BY DEF OneActiveIncident
  <2>1. CASE OpenIncidents(m) = {}
    BY <2>1, FS_EmptySet
  <2>2. ASSUME NEW i \in OpenIncidents(m) PROVE Cardinality(OpenIncidents(m)) <= 1
    <3>1. OpenIncidents(m) = {i}
      BY DEF SingleInv, AtMostOne
    <3>2. Cardinality({i}) = 1
      BY FS_Singleton
    <3> QED BY <3>1, <3>2
  <2> QED BY <2>1, <2>2
<1> QED BY <1>1, <1>2, <1>3, TypeCorrect, PTL DEF Spec
-----------------------------------------------------------------------------
(* One recovery per incident.  Two transactions can both resolve the       *)
(* incident they both read as open, and both alert; the same two           *)
(* hypotheses rule that out.                                               *)

\* What a transaction has read as open nobody has resolved for it since, and
\* it is about its monitor only.
ResolvesFirst(t) ==
  task[t].pc \in InTransaction /\ task[t].open # None =>
    /\ Exists(task[t].open)
    /\ timeline[task[t].open].autos = 0
    /\ incident[task[t].open].links \subseteq {task[t].monitor}

\* Transactions with the same incident are about the same monitor.
SameMonitor(t, u) ==
  /\ task[t].pc \in InTransaction /\ task[u].pc \in InTransaction
  /\ task[t].open = task[u].open /\ task[t].open # None
  => task[t].monitor = task[u].monitor

\* An open incident has not been resolved by a worker, and is of one monitor.
ResolvedOnce(i) ==
  /\ timeline[i].autos <= 1
  /\ Open(i) => timeline[i].autos = 0 /\ \A m, n \in incident[i].links : m = n

RecoveryInv ==
  /\ \A t \in Tasks : ResolvesFirst(t)
  /\ \A t, u \in Tasks : SameMonitor(t, u)
  /\ \A i \in IncidentIds : ResolvedOnce(i)

\* A step that does not resolve i and opens it for nobody.
LeavesIncident(i) ==
  /\ timeline'[i].autos = timeline[i].autos
  /\ Exists(i) => Exists(i)'
  /\ Open(i)' => Open(i)
  /\ incident'[i].links \subseteq incident[i].links

\* A step that makes i, open only if it is of one monitor.
MakesIncident(i) ==
  /\ ~Exists(i)
  /\ timeline'[i].autos = 0
  /\ Open(i)' => \A m, n \in incident'[i].links : m = n

\* A step in which a worker resolves i.
AutoResolves(i) ==
  /\ \E t \in Tasks : /\ task[t].pc = "decided" /\ task[t].open = i
                      /\ task'[t].pc = "committed"
  /\ timeline'[i].autos = timeline[i].autos + 1
  /\ ~Open(i)'

\* There are no other steps.
LEMMA IncidentSteps ==
  ASSUME TypeOK, [Next]_vars, OnlyWorkersOpen, NEW i \in IncidentIds
  PROVE  LeavesIncident(i) \/ MakesIncident(i) \/ AutoResolves(i)
<1>0. /\ incident \in [IncidentIds -> IncidentType]
      /\ timeline \in [IncidentIds -> TimelineType]
      /\ task \in [Tasks -> TaskType]
      /\ None \notin IncidentIds
  BY ConstantsAssumption DEF TypeOK
<1>1. ASSUME incident'[i] = incident[i], timeline'[i].autos = timeline[i].autos
      PROVE  LeavesIncident(i)
  BY <1>1 DEF LeavesIncident, Open, Exists
<1>2. ASSUME NEW t \in Tasks, CommitIncident(t), task[t].plan = "update"
      PROVE  LeavesIncident(i)
  BY <1>1, <1>2, AnnotationEffect
<1>3. ASSUME NEW t \in Tasks, NEW j \in IncidentIds, CreateIncidentIfAbsent(t, j)
      PROVE  LeavesIncident(i) \/ MakesIncident(i)
  <2>1. PICK s \in StartTimes : incident' = [incident EXCEPT ![j] =
          [status |-> "detected", stamped |-> FALSE, auto |-> TRUE,
           links |-> {task[t].monitor}, started |-> s, automatic |-> TRUE]]
    BY <1>3 DEF CreateIncidentIfAbsent
  <2>2. timeline' = [timeline EXCEPT ![j] =
          [last |-> "detected", message |-> IncidentMessage(t), autos |-> 0, disputed |-> FALSE]]
    BY <1>3 DEF CreateIncidentIfAbsent
  <2>3. CASE i = j
    <3>1. ~Exists(i)
      BY <1>3, <2>3 DEF CreateIncidentIfAbsent, NextId, FreshIds
    <3>2. incident'[i].links = {task[t].monitor} /\ timeline'[i].autos = 0
      BY <1>0, <2>1, <2>2, <2>3
    <3> QED BY <3>1, <3>2 DEF MakesIncident
  <2>4. CASE i # j
    <3>1. incident'[i] = incident[i] /\ timeline'[i] = timeline[i]
      BY <1>0, <2>1, <2>2, <2>4
    <3> QED BY <1>1, <3>1
  <2> QED BY <2>3, <2>4
<1>4. ASSUME NEW t \in Tasks, CommitIncident(t), task[t].plan = "resolve"
      PROVE  LeavesIncident(i) \/ AutoResolves(i)
  <2>1. PICK j \in IncidentIds : ResolveIncident(t, j)
    BY <1>4 DEF CommitIncident
  <2>2. /\ task[t].pc = "decided" /\ task[t].open = j
        /\ task' = [task EXCEPT ![t].pc = "committed"]
    BY <1>4, <2>1 DEF CommitIncident, ResolveIncident
  <2>3. task'[t].pc = "committed"
    BY <1>0, <2>2 DEF TaskType
  <2>4. /\ incident'[j].status = "resolved" /\ timeline'[j].autos = timeline[j].autos + 1
        /\ i # j => incident'[i] = incident[i] /\ timeline'[i] = timeline[i]
    BY <2>1, <2>2, ResolutionEffect
  <2>5. CASE i = j
    BY <2>2, <2>3, <2>4, <2>5 DEF AutoResolves, Open
  <2>6. CASE i # j
    BY <1>1, <2>4, <2>6
  <2> QED BY <2>5, <2>6
<1>5. ASSUME NEW t \in Tasks, CommitIncident(t)
      PROVE  LeavesIncident(i) \/ MakesIncident(i) \/ AutoResolves(i)
  <2>1. \/ UNCHANGED <<incident, timeline>>
        \/ task[t].plan = "update"
        \/ \E j \in IncidentIds : CreateIncidentIfAbsent(t, j)
        \/ task[t].plan = "resolve"
    BY <1>5 DEF CommitIncident
  <2> QED BY <1>1, <1>2, <1>3, <1>4, <1>5, <2>1
<1>6. ASSUME \A j \in IncidentIds : Open(j)' => Open(j), NEW q \in Requests, CreateIncident(q)
      PROVE  LeavesIncident(i) \/ MakesIncident(i)
  <2>1. PICK j \in IncidentIds, s \in IncidentStatus :
          /\ NextId(j)
          /\ \E r : incident' = [incident EXCEPT ![j] = r]
          /\ timeline' = [timeline EXCEPT ![j] =
               [last |-> EventTypeFromStatus(s), message |-> UserMessage, autos |-> 0,
                disputed |-> FALSE]]
    BY <1>6 DEF CreateIncident
  <2>2. CASE i = j
    <3>1. ~Exists(i) /\ timeline'[i].autos = 0
      BY <1>0, <2>1, <2>2 DEF NextId, FreshIds
    <3>2. ~Open(i)'
      BY <1>6, <3>1 DEF Open
    <3> QED BY <3>1, <3>2 DEF MakesIncident
  <2>3. CASE i # j
    <3>1. incident'[i] = incident[i] /\ timeline'[i] = timeline[i]
      BY <1>0, <2>1, <2>3
    <3> QED BY <1>1, <3>1
  <2> QED BY <2>2, <2>3
<1>7. ASSUME \A j \in IncidentIds : Open(j)' => Open(j),
             NEW q \in Requests, NEW j \in IncidentIds,
             \/ CreateIncidentEvent(q, j) \/ UpdateIncident(q, j)
             \/ \E s \in IncidentStatus : UpdateIncidentStatus(q, j, s)
      PROVE  LeavesIncident(i)
  BY <1>7, IncidentEditEffect DEF LeavesIncident
<1>8. ASSUME NEW m \in Monitors, DeleteMonitor(m) PROVE LeavesIncident(i)
  <2>1. timeline' = timeline /\ incident'[i] = [incident[i] EXCEPT !.links = @ \ {m}]
    BY <1>8 DEF DeleteMonitor
  <2>2. incident'[i].status = incident[i].status /\ incident'[i].links = incident[i].links \ {m}
    BY <1>0, <2>1 DEF IncidentType
  <2> QED BY <2>1, <2>2 DEF LeavesIncident, Open, Exists
<1>9. UNCHANGED <<incident, timeline>> => LeavesIncident(i)
  BY <1>1
<1>10. CASE \E t \in Tasks : CommitIncident(t)
  BY <1>5, <1>10
<1>11. CASE (\A j \in IncidentIds : Open(j)' => Open(j)) /\ ~\E t \in Tasks : CommitIncident(t)
  BY <1>6, <1>7, <1>8, <1>9, <1>11, IncidentWriters, Zenon
<1> QED BY <1>10, <1>11 DEF OnlyWorkersOpen
\* Without overlap, nobody resolves what a transaction is about to resolve.
LEMMA RecoveryStep ==
  ASSUME TypeOK, NoOverlap, RecoveryInv, [Next]_vars, OnlyWorkersOpen
  PROVE  RecoveryInv'
<1>0. /\ task \in [Tasks -> TaskType]
      /\ None \notin IncidentIds
      /\ \A i \in IncidentIds : timeline[i].autos \in Nat
  BY ConstantsAssumption DEF TypeOK, TimelineType
<1>1. ASSUME NEW i \in IncidentIds PROVE LeavesIncident(i) \/ MakesIncident(i) \/ AutoResolves(i)
  BY IncidentSteps
<1>2. ASSUME NEW i \in IncidentIds, AutoResolves(i), NEW u \in Tasks,
             task[u].pc \in InTransaction, task[u].open = i
      PROVE  task'[u].pc = "committed" /\ timeline[i].autos = 0
  <2>1. PICK t \in Tasks : task[t].pc = "decided" /\ task[t].open = i /\ task'[t].pc = "committed"
    BY <1>2 DEF AutoResolves
  <2>2. task[t].pc \in InTransaction
    BY <2>1 DEF InTransaction
  <2>3. task[t].monitor = task[u].monitor
    BY <1>0, <1>2, <2>1, <2>2 DEF RecoveryInv, SameMonitor
  <2>4. t = u
    BY <1>2, <2>2, <2>3 DEF NoOverlap
  <2> QED BY <1>0, <1>2, <2>1, <2>4 DEF RecoveryInv, ResolvesFirst
<1>3. ASSUME NEW i \in IncidentIds PROVE ResolvedOnce(i)'
  <2>0. ResolvedOnce(i) /\ timeline[i].autos \in Nat
    BY <1>0 DEF RecoveryInv
  <2>1. CASE LeavesIncident(i)
    BY <2>0, <2>1 DEF LeavesIncident, ResolvedOnce
  <2>2. CASE MakesIncident(i)
    BY <2>2 DEF MakesIncident, ResolvedOnce
  <2>3. CASE AutoResolves(i)
    <3>1. PICK t \in Tasks : task[t].pc = "decided" /\ task[t].open = i
      BY <2>3 DEF AutoResolves
    <3>2. timeline[i].autos = 0
      BY <1>0, <3>1 DEF RecoveryInv, ResolvesFirst, InTransaction
    <3> QED BY <2>3, <3>2 DEF AutoResolves, ResolvedOnce
  <2> QED BY <1>1, <2>1, <2>2, <2>3
<1>4. ASSUME NEW t \in Tasks, LoadOpenIncident(t), task'[t].open # None
      PROVE  /\ task'[t].open \in IncidentIds /\ Open(task'[t].open)
             /\ task'[t].monitor \in incident[task'[t].open].links
             /\ incident[task'[t].open].links \subseteq {task'[t].monitor}
             /\ timeline[task'[t].open].autos = 0
             /\ UNCHANGED <<incident, timeline>>
             /\ \A u \in Tasks \ {t} : task'[u] = task[u]
  <2>1. PICK i \in IncidentIds \cup {None} :
          /\ GetOpenIncidentByMonitorID(task[t].monitor, i)
          /\ task' = [task EXCEPT ![t].pc = "loaded", ![t].open = i,
                                  ![t].auto = i # None /\ incident[i].auto]
    BY <1>4 DEF LoadOpenIncident
  <2>2. task'[t].open = i /\ task'[t].monitor = task[t].monitor
    BY <1>0, <2>1 DEF TaskType
  <2>3. i \in OpenIncidents(task[t].monitor)
    BY <1>4, <2>1, <2>2 DEF GetOpenIncidentByMonitorID, Latest
  <2>4. i \in IncidentIds /\ Open(i) /\ task[t].monitor \in incident[i].links
    BY <2>3 DEF OpenIncidents
  <2>5. timeline[i].autos = 0 /\ \A m, n \in incident[i].links : m = n
    BY <2>4 DEF RecoveryInv, ResolvedOnce
  <2>6. UNCHANGED <<incident, timeline>> /\ \A u \in Tasks \ {t} : task'[u] = task[u]
    BY <1>0, <1>4, <2>1 DEF LoadOpenIncident, database
  <2> QED BY <2>2, <2>4, <2>5, <2>6
<1>5. ASSUME NEW t \in Tasks, ~LoadOpenIncident(t),
             task'[t].pc \in InTransaction, task'[t].open # None
      PROVE  /\ task[t].pc \in InTransaction /\ task[t].open # None
             /\ task[t].open \in IncidentIds
             /\ task'[t].open = task[t].open /\ task'[t].monitor = task[t].monitor
  BY <1>0, <1>5, TransactionSteps DEF TaskType
<1>6. ASSUME NEW t \in Tasks PROVE ResolvesFirst(t)'
  <2> SUFFICES ASSUME task'[t].pc \in InTransaction, task'[t].open # None
               PROVE  /\ incident'[task'[t].open].status # None
                      /\ timeline'[task'[t].open].autos = 0
                      /\ incident'[task'[t].open].links \subseteq {task'[t].monitor}
    BY DEF ResolvesFirst, Exists
  <2>1. CASE LoadOpenIncident(t)
    BY <1>4, <2>1 DEF Open, Exists
  <2>2. CASE ~LoadOpenIncident(t)
    <3>1. PICK i \in IncidentIds :
            /\ task[t].pc \in InTransaction /\ task[t].open = i /\ i # None
            /\ task'[t].open = i /\ task'[t].monitor = task[t].monitor
      BY <1>5, <2>2
    <3>2. Exists(i) /\ timeline[i].autos = 0 /\ incident[i].links \subseteq {task[t].monitor}
      BY <3>1 DEF RecoveryInv, ResolvesFirst
    <3>3. ~MakesIncident(i)
      BY <3>2 DEF MakesIncident
    <3>4. ~AutoResolves(i)
      <4>1. task'[t].pc # "committed"
        BY DEF InTransaction
      <4> QED BY <1>2, <3>1, <4>1
    <3>5. LeavesIncident(i)
      BY <1>1, <3>3, <3>4
    <3>6. Exists(i)' /\ timeline'[i].autos = 0 /\ incident'[i].links \subseteq {task[t].monitor}
      BY <3>2, <3>5 DEF LeavesIncident
    <3>7. incident'[i].status # None
      BY <3>6 DEF Exists
    <3> QED BY <3>1, <3>6, <3>7
  <2> QED BY <2>1, <2>2
<1>7. ASSUME NEW t \in Tasks, NEW u \in Tasks, LoadOpenIncident(t), u # t,
             task'[u].pc \in InTransaction, task'[t].open = task'[u].open, task'[t].open # None
      PROVE  task'[t].monitor = task'[u].monitor
  <2>1. task'[u] = task[u]
    BY <1>4, <1>7
  <2>2. incident[task'[t].open].links \subseteq {task[u].monitor}
    BY <1>7, <2>1 DEF RecoveryInv, ResolvesFirst
  <2>3. task'[t].monitor \in incident[task'[t].open].links
    BY <1>4, <1>7
  <2> QED BY <2>1, <2>2, <2>3
<1>8. ASSUME NEW t \in Tasks, NEW u \in Tasks PROVE SameMonitor(t, u)'
  <2> SUFFICES ASSUME task'[t].pc \in InTransaction, task'[u].pc \in InTransaction,
                      task'[t].open = task'[u].open, task'[t].open # None, t # u
               PROVE  task'[t].monitor = task'[u].monitor
    BY DEF SameMonitor
  <2>1. CASE LoadOpenIncident(t)
    BY <1>7, <2>1
  <2>2. CASE LoadOpenIncident(u)
    BY <1>7, <2>2
  <2>3. CASE ~LoadOpenIncident(t) /\ ~LoadOpenIncident(u)
    <3>1. /\ task[t].pc \in InTransaction /\ task[t].open # None
          /\ task'[t].open = task[t].open /\ task'[t].monitor = task[t].monitor
      BY <1>5, <2>3
    <3>2. /\ task[u].pc \in InTransaction
          /\ task'[u].open = task[u].open /\ task'[u].monitor = task[u].monitor
      BY <1>5, <2>3
    <3>3. SameMonitor(t, u)
      BY DEF RecoveryInv
    <3> QED BY <3>1, <3>2, <3>3 DEF SameMonitor
  <2> QED BY <2>1, <2>2, <2>3
<1> QED BY <1>3, <1>6, <1>8 DEF RecoveryInv

\* An incident is resolved by a worker, and alerted for as resolved, once at
\* most, under the same two hypotheses (MarkIncidentResolved updates by id
\* alone, whatever the row holds by then: monitor_ping.go:319).
THEOREM ResolvedOnceWithoutOverlap ==
  Spec /\ []NoOverlap /\ [][OnlyWorkersOpen]_vars
    => [](\A i \in IncidentIds : timeline[i].autos <= 1 /\ notices[i].resolved <= 1)
<1>1. Init => RecoveryInv
  <2> SUFFICES ASSUME Init PROVE RecoveryInv
    OBVIOUS
  <2>1. \A t \in Tasks : task[t].pc = "idle"
    BY DEF Init, IdleTask
  <2>2. \A i \in IncidentIds : timeline[i].autos = 0 /\ ~Open(i)
    BY DEF Init, Open, Exists, NoIncident, NoTimeline
  <2> QED BY <2>1, <2>2
       DEF RecoveryInv, ResolvesFirst, SameMonitor, ResolvedOnce, InTransaction
<1>2. TypeOK /\ NoOverlap /\ RecoveryInv /\ [Next /\ OnlyWorkersOpen]_vars => RecoveryInv'
  <2>1. ASSUME TypeOK, NoOverlap, RecoveryInv, Next, OnlyWorkersOpen PROVE RecoveryInv'
    BY <2>1, RecoveryStep
  <2>2. ASSUME TypeOK, NoOverlap, RecoveryInv, UNCHANGED vars PROVE RecoveryInv'
    <3>1. OnlyWorkersOpen
      BY <2>2 DEF OnlyWorkersOpen, vars, Open, Exists
    <3> QED BY <2>2, <3>1, RecoveryStep
  <2> QED BY <2>1, <2>2
<1>3. TypeOK /\ RecoveryInv /\ NoticesJustified
        => \A i \in IncidentIds : timeline[i].autos <= 1 /\ notices[i].resolved <= 1
  <2> SUFFICES ASSUME TypeOK, RecoveryInv, NoticesJustified, NEW i \in IncidentIds
               PROVE  timeline[i].autos <= 1 /\ notices[i].resolved <= 1
    OBVIOUS
  <2>1. timeline[i].autos <= 1 /\ timeline[i].autos \in Nat /\ notices[i].resolved \in Nat
    BY DEF RecoveryInv, ResolvedOnce, TypeOK, TimelineType
  <2>2. notices[i].resolved <= timeline[i].autos
    BY DEF NoticesJustified
  <2> QED BY <2>1, <2>2
<1> QED BY <1>1, <1>2, <1>3, TypeCorrect, NoticesAlwaysJustified, PTL DEF Spec
===============================================================================
