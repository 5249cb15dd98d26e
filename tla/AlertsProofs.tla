------------------------------ MODULE AlertsProofs ------------------------------
(***************************************************************************)
(* Proofs about Alerts: its types, and that what is repeated, overtaken or *)
(* never sent is explained.                                                *)
(*                                                                         *)
(* A message is sent by an attempt of its task.  AlertsInv counts: what    *)
(* was sent and what is still being sent is no more than the attempts, and *)
(* each attempt after the first was caused by a fault of that task.        *)
(***************************************************************************)
EXTENDS Alerts, FiniteSetTheorems, SequenceTheorems, TLAPS

Task == [state : {"none", "pending", "active", "done", "archived"}, retried : 0..MaxRetry]
Dispatch ==
  [change : 0..MaxChanges, channel : Channels \cup {None},
   pc : {"idle", "start", "loaded", "nil", "error"}, lease : BOOLEAN]

(* The handlers that may still send a message, and the attempts begun.     *)
Sending(e, c) == {h \in Handlers :
  handler[h].change = e /\ handler[h].channel = c /\ handler[h].pc \in {"start", "loaded"}}
Heard(e, c) == {i \in DOMAIN received[c] : received[c][i] = e}
Attempts(e, c) ==
  IF task[e][c].state = "none" THEN 0
  ELSE IF task[e][c].state = "pending" THEN task[e][c].retried
  ELSE task[e][c].retried + 1

(* What a handler that works on a task knows of it.                        *)
HandlerInv(h) ==
  /\ handler[h].pc # "idle" => handler[h].change \in 1..changes /\ handler[h].channel \in Channels
  /\ handler[h].pc # "idle" /\ ~handler[h].lease =>
       faults[handler[h].change][handler[h].channel] > 0
  /\ handler[h].lease => handler[h].pc # "idle" /\ TaskOf(h).state = "active"
  /\ handler[h].lease /\ handler[h].pc = "error" =>
       TaskOf(h).retried < faults[handler[h].change][handler[h].channel]

(* No task is worked on under two leases.                                  *)
OneLease == \A h, k \in Handlers :
  /\ handler[h].lease /\ handler[k].lease
  /\ handler[h].change = handler[k].change /\ handler[h].channel = handler[k].channel
  => h = k

(* What has become of a change.                                            *)
ChangeInv(e) ==
  /\ e > changes => producer[e] = "none"
  /\ producer[e] \in {"none", "committed"} => \A c \in Channels : task[e][c] = NoTask
  /\ producer[e] = "done" => left[e] = {}
  /\ \A c \in left[e] : task[e][c] = NoTask
  /\ \A c \in owed[e] : c \in hurt[e] \/ c \in left[e] \/ task[e][c].state # "none"
  /\ e < changes => e \in slow \/ Settled(e)

(* Attempts are faults, and messages are attempts.                         *)
Counted(e, c) ==
  /\ task[e][c].retried <= faults[e][c]
  /\ Cardinality(Sending(e, c)) + Times(e, c) <= Attempts(e, c)

AlertsInv ==
  /\ AlertsTypeOK
  /\ \A h \in Handlers : HandlerInv(h)
  /\ OneLease
  /\ \A e \in Changes : ChangeInv(e)
  /\ \A e \in Changes, c \in Channels : Counted(e, c)
  /\ OvertakingIsExplained

--------------------------------------------------------------------------------
\* What replacing one task changes.
LEMMA TaskChange ==
  ASSUME task \in [Changes -> [Channels -> Task]],
         NEW e \in Changes, NEW c \in Channels, NEW t \in Task,
         task' = [task EXCEPT ![e] = [@ EXCEPT ![c] = t]]
  PROVE  /\ task' \in [Changes -> [Channels -> Task]]
         /\ task'[e][c] = t
         /\ \A f \in Changes, d \in Channels : f # e \/ d # c => task'[f][d] = task[f][d]
<1> DEFINE row == [task[e] EXCEPT ![c] = t]
<1>1. row \in [Channels -> Task] /\ row[c] = t /\ \A d \in Channels : d # c => row[d] = task[e][d]
  OBVIOUS
<1>2. task' = [task EXCEPT ![e] = row]
  OBVIOUS
<1> HIDE DEF row
<1> QED  BY <1>1, <1>2

\* What a fault of one task changes.
LEMMA FaultChange ==
  ASSUME AlertsTypeOK, NEW e \in Changes, NEW c \in Channels, FaultAt(e, c)
  PROVE  /\ faults' \in [Changes -> [Channels -> 0..spent']]
         /\ faults'[e][c] = faults[e][c] + 1
         /\ \A f \in Changes, d \in Channels : f # e \/ d # c => faults'[f][d] = faults[f][d]
         /\ spent' \in 0..MaxFaults /\ edits' = edits
<1> DEFINE row == [faults[e] EXCEPT ![c] = faults[e][c] + 1]
<1>1. faults \in [Changes -> [Channels -> 0..spent]] /\ spent \in Nat /\ spent' = spent + 1
      /\ spent' \in 0..MaxFaults /\ edits' = edits
  BY AlertsAssumption DEF AlertsTypeOK, FaultAt, Fault
<1>2. /\ row \in [Channels -> 0..spent'] /\ row[c] = faults[e][c] + 1
      /\ \A d \in Channels : d # c => row[d] = faults[e][d]
  BY <1>1
<1>3. faults' = [faults EXCEPT ![e] = row]
  BY <1>1, SMT DEF FaultAt
<1>4. faults \in [Changes -> [Channels -> 0..spent']]
  BY <1>1
<1> HIDE DEF row
<1> QED  BY <1>1, <1>2, <1>3, <1>4

\* What a step of one handler changes.
LEMMA HandlerChange ==
  ASSUME handler \in [Handlers -> Dispatch], NEW h \in Handlers, NEW d \in Dispatch,
         handler' = [handler EXCEPT ![h] = d]
  PROVE  /\ handler' \in [Handlers -> Dispatch]
         /\ handler'[h] = d
         /\ \A k \in Handlers : k # h => handler'[k] = handler[k]
OBVIOUS

\* Where a handler goes, and what it keeps.
LEMMA GotoChange ==
  ASSUME handler \in [Handlers -> Dispatch], NEW h \in Handlers,
         NEW pc \in {"loaded", "nil", "error"}, Goto(h, pc)
  PROVE  /\ handler' \in [Handlers -> Dispatch]
         /\ handler'[h].pc = pc /\ handler'[h].change = handler[h].change
         /\ handler'[h].channel = handler[h].channel /\ handler'[h].lease = handler[h].lease
         /\ \A k \in Handlers : k # h => handler'[k] = handler[k]
<1> DEFINE d == [handler[h] EXCEPT !.pc = pc]
<1>1. d \in Dispatch /\ d.pc = pc /\ d.change = handler[h].change
      /\ d.channel = handler[h].channel /\ d.lease = handler[h].lease
  BY DEF Dispatch
<1>2. handler' = [handler EXCEPT ![h] = d]
  BY DEF Goto
<1> HIDE DEF d
<1> QED  BY <1>1, <1>2

\* An attempt that failed leaves its task to be tried again, or put aside.
LEMMA AgainTask ==
  ASSUME NEW t \in Task
  PROVE  /\ Again(t) \in Task
         /\ \/ Again(t).state = "pending" /\ Again(t).retried = t.retried + 1
            \/ Again(t).state = "archived" /\ Again(t).retried = t.retried
BY AlertsAssumption DEF Again, Task

\* What a message changes.
LEMMA DeliverChange ==
  ASSUME AlertsTypeOK, NEW h \in Handlers, handler[h].change \in 1..changes,
         handler[h].channel \in Channels, Deliver(h)
  PROVE  /\ received' \in [Channels -> Seq(1..changes)]
         /\ received'[handler[h].channel]
              = Append(received[handler[h].channel], handler[h].change)
         /\ \A d \in Channels : d # handler[h].channel => received'[d] = received[d]
BY DEF AlertsTypeOK, Deliver

--------------------------------------------------------------------------------
\* Where the tasks and the handlers are left alone, so is what counts them.
LEMMA CountedKept ==
  ASSUME UNCHANGED <<task, handler, received>>, NEW e, NEW c, Counted(e, c),
         faults'[e][c] = faults[e][c]
  PROVE  Counted(e, c)'
BY DEF Counted, Sending, Times, Attempts

\* A change that is settled stays so while its tasks do.
LEMMA SettledKept ==
  ASSUME NEW e \in Changes, Settled(e), producer'[e] = "done",
         \A c \in Channels : task'[e][c].state = task[e][c].state
  PROVE  Settled(e)'
BY DEF Settled

\* A monitor changes.
LEMMA ChangeKeeps == AlertsInv /\ Change => AlertsInv'
<1> SUFFICES ASSUME AlertsInv, Change PROVE AlertsInv'
  OBVIOUS
<1>0. changes \in Nat /\ changes < MaxChanges /\ changes' = changes + 1 /\ MaxChanges \in Nat
  BY AlertsAssumption DEF AlertsInv, AlertsTypeOK, Change
<1>1. /\ producer' = [producer EXCEPT ![changes + 1] = "committed"]
      /\ slow' = slow \cup {e \in 1..changes : ~Settled(e)}
      /\ UNCHANGED <<left, monitor, channels, attached, task, handler, received, owed, hurt,
                     faults, spent, edits>>
  BY DEF Change, database, NoFault
<1>2. changes + 1 \in Changes /\ 1..changes \subseteq Changes
  BY <1>0 DEF Changes
<1>3. AlertsTypeOK'
  <2>1. changes' \in 0..MaxChanges /\ received' \in [Channels -> Seq(1..changes')]
    <3>1. Seq(1..changes) \subseteq Seq(1..changes')
      BY <1>0
    <3> QED  BY <1>0, <1>1, <3>1 DEF AlertsInv, AlertsTypeOK
  <2>2. producer' \in [Changes -> {"none", "committed", "enqueuing", "done"}]
    BY <1>1 DEF AlertsInv, AlertsTypeOK
  <2>3. slow' \subseteq Changes
    BY <1>1, <1>2 DEF AlertsInv, AlertsTypeOK
  <2> QED  BY <1>1, <2>1, <2>2, <2>3 DEF AlertsInv, AlertsTypeOK
<1>4. \A h \in Handlers : HandlerInv(h)'
  BY <1>0, <1>1 DEF AlertsInv, HandlerInv, TaskOf
<1>5. OneLease'
  BY <1>1 DEF AlertsInv, OneLease
<1>6. ASSUME NEW e \in Changes PROVE ChangeInv(e)'
  <2>1. CASE e = changes + 1
    <3>1. producer[e] = "none" /\ producer'[e] = "committed"
      BY <1>0, <1>1, <1>2, <2>1 DEF AlertsInv, AlertsTypeOK, ChangeInv
    <3> QED  BY <1>0, <1>1, <2>1, <3>1 DEF AlertsInv, ChangeInv
  <2>2. CASE e # changes + 1
    <3>1. producer'[e] = producer[e] /\ e \in Nat
      BY <1>1, <2>2 DEF AlertsInv, AlertsTypeOK, Changes
    <3>2. Settled(e)' <=> Settled(e)
      BY <1>1, <3>1 DEF Settled
    <3>3. e < changes' => e \in slow' \/ Settled(e)'
      BY <1>0, <1>1, <2>2, <3>1, <3>2 DEF Changes
    <3> QED  BY <1>0, <1>1, <2>2, <3>1, <3>3 DEF AlertsInv, ChangeInv
  <2> QED  BY <2>1, <2>2
<1>7. \A e \in Changes, c \in Channels : Counted(e, c)'
  BY <1>1, CountedKept DEF AlertsInv
<1>8. OvertakingIsExplained'
  BY <1>1 DEF AlertsInv, OvertakingIsExplained
<1> QED  BY <1>3, <1>4, <1>5, <1>6, <1>7, <1>8 DEF AlertsInv

\* The producer's steps that leave the queue alone.
LEMMA ProducerKeeps ==
  ASSUME AlertsInv, NEW e \in Changes,
         \/ ReadChannels(e) \/ EnqueuedAll(e) \/ ProducerStops(e)
         \/ \E c \in Channels : EnqueueFails(e, c)
  PROVE  AlertsInv'
<1>1. /\ UNCHANGED <<changes, monitor, channels, attached, task, handler, received, slow, faults,
                     edits>>
      /\ spent' \in 0..MaxFaults /\ spent <= spent'
  BY AlertsAssumption DEF ReadChannels, EnqueuedAll, ProducerStops, EnqueueFails, database, history,
       NoFault, Fault, AlertsInv, AlertsTypeOK
<1>a. PICK p \in {"enqueuing", "done"} : producer' = [producer EXCEPT ![e] = p]
  <2>1. CASE ReadChannels(e)
    BY <2>1 DEF ReadChannels
  <2>2. CASE EnqueuedAll(e)
    BY <2>2 DEF EnqueuedAll
  <2>3. CASE ProducerStops(e)
    BY <2>3 DEF ProducerStops
  <2>4. ASSUME NEW c \in Channels, EnqueueFails(e, c)
        PROVE  producer' = [producer EXCEPT ![e] = "enqueuing"]
    BY <2>4 DEF EnqueueFails, AlertsInv, AlertsTypeOK
  <2> QED  BY <2>1, <2>2, <2>3, <2>4
<1>b. PICK l \in SUBSET Channels : left' = [left EXCEPT ![e] = l]
  <2>1. CASE ReadChannels(e)
    BY <2>1 DEF ReadChannels, AlertsInv, AlertsTypeOK
  <2>2. CASE EnqueuedAll(e)
    <3>1. left' = [left EXCEPT ![e] = left[e]]
      BY <2>2 DEF EnqueuedAll, AlertsInv, AlertsTypeOK
    <3> QED  BY <3>1 DEF AlertsInv, AlertsTypeOK
  <2>3. CASE ProducerStops(e)
    BY <2>3 DEF ProducerStops
  <2>4. ASSUME NEW c \in Channels, EnqueueFails(e, c)
        PROVE  left' = [left EXCEPT ![e] = left[e] \ {c}] /\ left[e] \ {c} \subseteq Channels
    BY <2>4 DEF EnqueueFails, AlertsInv, AlertsTypeOK
  <2> QED  BY <2>1, <2>2, <2>3, <2>4
<1>c. PICK o \in SUBSET Channels : owed' = [owed EXCEPT ![e] = o]
  <2>1. CASE ReadChannels(e)
    BY <2>1 DEF ReadChannels, AlertsInv, AlertsTypeOK
  <2>2. CASE ~ReadChannels(e)
    <3>1. owed' = owed
      BY <2>2 DEF EnqueuedAll, ProducerStops, EnqueueFails, history
    <3>2. owed' = [owed EXCEPT ![e] = owed[e]] /\ owed[e] \subseteq Channels
      BY <3>1 DEF AlertsInv, AlertsTypeOK
    <3> QED  BY <3>2
  <2> QED  BY <2>1, <2>2
<1>d. PICK u \in SUBSET Channels : hurt' = [hurt EXCEPT ![e] = u]
  <2>1. CASE ReadChannels(e) \/ EnqueuedAll(e)
    <3>1. hurt' = hurt
      BY <2>1 DEF ReadChannels, EnqueuedAll, history
    <3>2. hurt' = [hurt EXCEPT ![e] = hurt[e]] /\ hurt[e] \subseteq Channels
      BY <3>1 DEF AlertsInv, AlertsTypeOK
    <3> QED  BY <3>2
  <2>2. CASE ProducerStops(e)
    <3>1. hurt' = [hurt EXCEPT ![e] = hurt[e] \cup left[e]] /\ hurt[e] \cup left[e] \subseteq Channels
      BY <2>2 DEF ProducerStops, AlertsInv, AlertsTypeOK
    <3> QED  BY <3>1
  <2>3. ASSUME NEW c \in Channels, EnqueueFails(e, c)
        PROVE  hurt' = [hurt EXCEPT ![e] = hurt[e] \cup {c}] /\ hurt[e] \cup {c} \subseteq Channels
    BY <2>3 DEF EnqueueFails, AlertsInv, AlertsTypeOK
  <2> QED  BY <2>1, <2>2, <2>3
<1>2. /\ producer' \in [Changes -> {"none", "committed", "enqueuing", "done"}]
      /\ left' \in [Changes -> SUBSET Channels]
      /\ owed' \in [Changes -> SUBSET Channels]
      /\ hurt' \in [Changes -> SUBSET Channels]
      /\ \A f \in Changes : f # e =>
           /\ producer'[f] = producer[f] /\ left'[f] = left[f]
           /\ owed'[f] = owed[f] /\ hurt'[f] = hurt[f]
  BY <1>a, <1>b, <1>c, <1>d DEF AlertsInv, AlertsTypeOK
<1>3. /\ producer[e] \in {"committed", "enqueuing"} /\ producer'[e] \in {"enqueuing", "done"}
      /\ producer'[e] = "done" => left'[e] = {}
      /\ \A c \in left'[e] : c \in left[e] \/ producer[e] = "committed"
      /\ \A c \in owed'[e] : c \in left'[e] \/ c \in owed[e]
      /\ \A c \in left[e] : c \in left'[e] \/ c \in hurt'[e] \/ owed'[e] = left'[e]
      /\ \A c \in hurt[e] : c \in hurt'[e]
  BY DEF ReadChannels, EnqueuedAll, ProducerStops, EnqueueFails, history, AlertsInv, AlertsTypeOK
<1>4. AlertsTypeOK'
  <2>1. faults' \in [Changes -> [Channels -> 0..spent']]
    BY <1>1, AlertsAssumption DEF AlertsInv, AlertsTypeOK
  <2> QED  BY <1>1, <1>2, <2>1 DEF AlertsInv, AlertsTypeOK
<1>5. (\A h \in Handlers : HandlerInv(h)') /\ OneLease' /\ OvertakingIsExplained'
  BY <1>1 DEF AlertsInv, HandlerInv, TaskOf, OneLease, OvertakingIsExplained
<1>6. ASSUME NEW f \in Changes PROVE ChangeInv(f)'
  <2>1. CASE f = e
    <3>1. ~Settled(e) /\ ChangeInv(e)
      BY <1>3 DEF AlertsInv, Settled
    <3>2. e <= changes
      BY <1>3, <3>1, AlertsAssumption DEF ChangeInv, Changes, AlertsInv, AlertsTypeOK
    <3>3. producer'[e] \notin {"none", "committed"} /\ changes' = changes /\ slow' = slow
      BY <1>1, <1>3
    <3>4. \A c \in left'[e] : task'[e][c] = NoTask
      BY <1>1, <1>2, <1>3, <3>1 DEF ChangeInv
    <3>5. \A c \in owed'[e] : c \in hurt'[e] \/ c \in left'[e] \/ task'[e][c].state # "none"
      BY <1>1, <1>3, <3>1 DEF ChangeInv
    <3>6. e < changes' => e \in slow'
      BY <3>1, <3>3 DEF ChangeInv
    <3>7. ~(e > changes')
      BY <3>2, <3>3, AlertsAssumption DEF Changes, AlertsInv, AlertsTypeOK
    <3> QED  BY <1>3, <2>1, <3>3, <3>4, <3>5, <3>6, <3>7 DEF ChangeInv
  <2>2. CASE f # e
    <3>1. Settled(f)' <=> Settled(f)
      BY <1>1, <1>2, <2>2 DEF Settled
    <3> QED  BY <1>1, <1>2, <2>2, <3>1 DEF AlertsInv, ChangeInv
  <2> QED  BY <2>1, <2>2
<1>7. \A f \in Changes, c \in Channels : Counted(f, c)'
  BY <1>1, CountedKept DEF AlertsInv
<1> QED  BY <1>4, <1>5, <1>6, <1>7 DEF AlertsInv

--------------------------------------------------------------------------------
\* A task that was taken, or given back, is of a change that is not settled.
LEMMA TaskStepKeepsChanges ==
  ASSUME AlertsInv, UNCHANGED <<changes, producer, left, owed, hurt, slow>>,
         NEW e \in Changes, NEW c \in Channels,
         task[e][c].state \in {"pending", "active"}, task'[e][c].state # "none",
         \A f \in Changes, d \in Channels : f # e \/ d # c => task'[f][d] = task[f][d]
  PROVE  \A f \in Changes : ChangeInv(f)'
<1> SUFFICES ASSUME NEW f \in Changes PROVE ChangeInv(f)'
  OBVIOUS
<1>1. ChangeInv(f) /\ left[f] \subseteq Channels /\ owed[f] \subseteq Channels
  BY DEF AlertsInv, AlertsTypeOK
<1>2. CASE f # e
  <2>1. \A d \in Channels : task'[f][d] = task[f][d]
    BY <1>2
  <2>2. Settled(f)' <=> Settled(f)
    BY <2>1 DEF Settled
  <2> QED  BY <1>1, <2>1, <2>2 DEF ChangeInv
<1>3. CASE f = e
  <2>1. task[e][c] # NoTask /\ ~Settled(e)
    BY DEF NoTask, Settled
  <2>2. producer[e] \notin {"none", "committed"} /\ c \notin left[e]
    BY <1>1, <1>3, <2>1 DEF ChangeInv
  <2>3. \A d \in left[e] : task'[e][d] = NoTask
    BY <1>1, <1>3, <2>2 DEF ChangeInv
  <2>4. \A d \in owed[e] : d \in hurt[e] \/ d \in left[e] \/ task'[e][d].state # "none"
    BY <1>1, <1>3 DEF ChangeInv
  <2> QED  BY <1>1, <1>3, <2>1, <2>2, <2>3, <2>4 DEF ChangeInv
<1> QED  BY <1>2, <1>3

\* The changes do not look at the handlers.
LEMMA ChangesKept ==
  ASSUME AlertsInv, UNCHANGED <<changes, producer, left, owed, hurt, slow, task>>
  PROVE  \A f \in Changes : ChangeInv(f)'
BY DEF AlertsInv, ChangeInv, Settled

\* A channel is put into the queue.
LEMMA EnqueueKeeps ==
  ASSUME AlertsInv, NEW e \in Changes, NEW c \in Channels, Enqueue(e, c)
  PROVE  AlertsInv'
<1> DEFINE t == [state |-> "pending", retried |-> 0]
<1>1. /\ UNCHANGED <<changes, producer, monitor, channels, attached, handler, received, owed, hurt,
                     slow, faults, spent, edits>>
      /\ producer[e] = "enqueuing" /\ c \in left[e]
      /\ left' = [left EXCEPT ![e] = left[e] \ {c}]
      /\ task[e][c] = NoTask
  BY DEF Enqueue, database, history, NoFault, AlertsInv, ChangeInv
<1>2. task' = [task EXCEPT ![e] = [@ EXCEPT ![c] = t]] /\ t \in Task
  <2>1. [NoTask EXCEPT !.state = "pending"] = t
    BY DEF NoTask
  <2>2. t \in Task
    BY AlertsAssumption DEF Task
  <2> HIDE DEF t
  <2> QED  BY <2>1, <2>2 DEF Enqueue
<1>3. t.state = "pending" /\ t.retried = 0 /\ NoTask.state = "none" /\ NoTask.retried = 0
  BY DEF NoTask
<1> HIDE DEF t
<1>4. task \in [Changes -> [Channels -> Task]]
  BY DEF AlertsInv, AlertsTypeOK, Task
<1>5. /\ task' \in [Changes -> [Channels -> Task]] /\ task'[e][c] = t
      /\ \A f \in Changes, d \in Channels : f # e \/ d # c => task'[f][d] = task[f][d]
  BY <1>2, <1>4, TaskChange
<1>6. left' \in [Changes -> SUBSET Channels]
  BY <1>1 DEF AlertsInv, AlertsTypeOK
<1>7. AlertsTypeOK'
  BY <1>1, <1>5, <1>6 DEF AlertsInv, AlertsTypeOK, Task
<1>8. ASSUME NEW h \in Handlers PROVE HandlerInv(h)'
  <2>1. HandlerInv(h)
    BY DEF AlertsInv
  <2>2. CASE handler[h].pc = "idle"
    BY <1>1, <2>1, <2>2 DEF HandlerInv
  <2>3. CASE handler[h].pc # "idle"
    <3>1. handler[h].change \in Changes /\ handler[h].channel \in Channels
      BY <2>1, <2>3, AlertsAssumption DEF HandlerInv, Changes, AlertsInv, AlertsTypeOK
    <3>2. CASE handler[h].lease
      <4>1. TaskOf(h)' = TaskOf(h)
        BY <1>1, <1>3, <1>5, <2>1, <3>1, <3>2 DEF HandlerInv, TaskOf
      <4> QED  BY <1>1, <2>1, <4>1 DEF HandlerInv
    <3>3. CASE ~handler[h].lease
      BY <1>1, <2>1, <3>3 DEF HandlerInv
    <3> QED  BY <3>2, <3>3
  <2> QED  BY <2>2, <2>3
<1>9. OneLease' /\ OvertakingIsExplained'
  BY <1>1 DEF AlertsInv, OneLease, OvertakingIsExplained
<1>10. ASSUME NEW f \in Changes PROVE ChangeInv(f)'
  <2>1. ChangeInv(f) /\ owed[f] \subseteq Channels /\ left[f] \subseteq Channels
    BY DEF AlertsInv, AlertsTypeOK
  <2>2. CASE f # e
    <3>1. /\ \A d \in Channels : task'[f][d] = task[f][d]
          /\ left'[f] = left[f]
      BY <1>1, <1>5, <2>2 DEF AlertsInv, AlertsTypeOK
    <3>2. Settled(f)' <=> Settled(f)
      BY <1>1, <3>1 DEF Settled
    <3> QED  BY <1>1, <2>1, <3>1, <3>2 DEF ChangeInv
  <2>3. CASE f = e
    <3>1. left'[e] = left[e] \ {c} /\ ~Settled(e)
      BY <1>1 DEF AlertsInv, AlertsTypeOK, Settled
    <3>2. \A d \in left'[e] : task'[e][d] = NoTask
      BY <1>5, <2>1, <2>3, <3>1 DEF ChangeInv
    <3>3. \A d \in owed[e] : d \in hurt[e] \/ d \in left'[e] \/ task'[e][d].state # "none"
      BY <1>3, <1>5, <2>1, <2>3, <3>1 DEF ChangeInv
    <3> QED  BY <1>1, <2>1, <2>3, <3>1, <3>2, <3>3 DEF ChangeInv
  <2> QED  BY <2>2, <2>3
<1>11. ASSUME NEW f \in Changes, NEW d \in Channels PROVE Counted(f, d)'
  <2>1. Counted(f, d)
    BY DEF AlertsInv
  <2>2. /\ task'[f][d].retried = task[f][d].retried
        /\ Attempts(f, d)' = Attempts(f, d)
    BY <1>1, <1>3, <1>5 DEF Attempts
  <2>3. Sending(f, d)' = Sending(f, d) /\ Times(f, d)' = Times(f, d)
    BY <1>1 DEF Sending, Times
  <2> QED  BY <1>1, <2>1, <2>2, <2>3 DEF Counted
<1> QED  BY <1>7, <1>8, <1>9, <1>10, <1>11 DEF AlertsInv

\* Handlers are finitely many, and so are those that send.
LEMMA SendingFinite ==
  ASSUME NEW e, NEW c
  PROVE  /\ IsFiniteSet(Sending(e, c)) /\ IsFiniteSet(Sending(e, c)')
         /\ Cardinality(Sending(e, c)) \in Nat /\ Cardinality(Sending(e, c)') \in Nat
<1>1. Sending(e, c) \subseteq Handlers /\ Sending(e, c)' \subseteq Handlers
  BY DEF Sending
<1> QED  BY <1>1, FS_Subset, FS_CardinalityType, AlertsAssumption

\* A channel has heard finitely often.
LEMMA HeardFinite ==
  ASSUME AlertsTypeOK, NEW e, NEW c \in Channels
  PROVE  IsFiniteSet(Heard(e, c)) /\ Times(e, c) = Cardinality(Heard(e, c)) /\ Times(e, c) \in Nat
<1>1. received[c] \in Seq(1..changes)
  BY DEF AlertsTypeOK
<1>2. DOMAIN received[c] = 1..Len(received[c]) /\ Len(received[c]) \in Nat
  BY <1>1
<1>3. IsFiniteSet(1..Len(received[c]))
  BY <1>2, FS_Interval
<1>4. Heard(e, c) \subseteq 1..Len(received[c])
  BY <1>2 DEF Heard
<1>5. IsFiniteSet(Heard(e, c)) /\ Cardinality(Heard(e, c)) \in Nat
  BY <1>3, <1>4, FS_Subset, FS_CardinalityType
<1> QED  BY <1>5 DEF Times, Heard

\* One message more is heard once more.
LEMMA HeardOnceMore ==
  ASSUME AlertsTypeOK, NEW h \in Handlers, handler[h].change \in 1..changes,
         handler[h].channel \in Channels, Deliver(h),
         NEW e \in Changes, NEW c \in Channels
  PROVE  Times(e, c)' =
           IF e = handler[h].change /\ c = handler[h].channel THEN Times(e, c) + 1 ELSE Times(e, c)
<1>1. /\ received'[handler[h].channel] = Append(received[handler[h].channel], handler[h].change)
      /\ \A d \in Channels : d # handler[h].channel => received'[d] = received[d]
  BY DeliverChange
<1>2. CASE c # handler[h].channel
  BY <1>1, <1>2 DEF Times
<1>3. CASE c = handler[h].channel
  <2> DEFINE s == received[c]
             n == Len(s) + 1
             x == handler[h].change
  <2>1. s \in Seq(1..changes) /\ received'[c] = Append(s, x)
    BY <1>1, <1>3 DEF AlertsTypeOK
  <2>2. /\ Len(s) \in Nat /\ DOMAIN s = 1..Len(s) /\ DOMAIN Append(s, x) = 1..n
        /\ Append(s, x)[n] = x
        /\ \A i \in 1..Len(s) : Append(s, x)[i] = s[i]
    BY <2>1
  <2>3. CASE e = x
    <3>1. {i \in DOMAIN Append(s, x) : Append(s, x)[i] = e} = Heard(e, c) \cup {n}
      BY <2>2, <2>3 DEF Heard
    <3>2. n \notin Heard(e, c)
      BY <2>2 DEF Heard
    <3>3. IsFiniteSet(Heard(e, c)) /\ Times(e, c) = Cardinality(Heard(e, c))
      BY HeardFinite
    <3>4. Cardinality(Heard(e, c) \cup {n}) = Times(e, c) + 1
      BY <3>2, <3>3, FS_AddElement
    <3>5. Times(e, c)' = Cardinality({i \in DOMAIN Append(s, x) : Append(s, x)[i] = e})
      BY <2>1 DEF Times
    <3> QED  BY <1>3, <2>3, <3>1, <3>4, <3>5
  <2>4. CASE e # x
    <3>1. {i \in DOMAIN Append(s, x) : Append(s, x)[i] = e} = {i \in DOMAIN s : s[i] = e}
      BY <2>2, <2>4
    <3> QED  BY <1>3, <2>1, <2>4, <3>1 DEF Times
  <2> QED  BY <2>3, <2>4
<1> QED  BY <1>2, <1>3

--------------------------------------------------------------------------------
\* A step of one handler changes by at most one how many send.
LEMMA SendingStep ==
  ASSUME NEW h \in Handlers, \A k \in Handlers : k # h => handler'[k] = handler[k],
         NEW e, NEW c
  PROVE  /\ Cardinality(Sending(e, c)') <= Cardinality(Sending(e, c)) + 1
         /\ (h \in Sending(e, c)' => h \in Sending(e, c))
              => Cardinality(Sending(e, c)') <= Cardinality(Sending(e, c))
         /\ h \in Sending(e, c) /\ h \notin Sending(e, c)'
              => Cardinality(Sending(e, c)') + 1 <= Cardinality(Sending(e, c))
<1> DEFINE S == Sending(e, c)
           T == Sending(e, c)'
<1>1. \A k \in Handlers : k # h => (k \in T <=> k \in S)
  BY DEF Sending
<1>2. S \subseteq Handlers /\ T \subseteq Handlers
  BY DEF Sending
<1>3. IsFiniteSet(S) /\ IsFiniteSet(T) /\ Cardinality(S) \in Nat /\ Cardinality(T) \in Nat
  BY SendingFinite
<1> HIDE DEF S, T
<1>4. CASE h \in T /\ h \notin S
  <2>1. T = S \cup {h}
    BY <1>1, <1>2, <1>4
  <2>2. Cardinality(T) = Cardinality(S) + 1
    BY <1>3, <1>4, <2>1, FS_AddElement
  <2> QED  BY <1>3, <1>4, <2>2 DEF S, T
<1>5. CASE h \in S /\ h \notin T
  <2>1. S = T \cup {h}
    BY <1>1, <1>2, <1>5
  <2>2. Cardinality(S) = Cardinality(T) + 1
    BY <1>3, <1>5, <2>1, FS_AddElement
  <2> QED  BY <1>3, <1>5, <2>2 DEF S, T
<1>6. CASE h \in S <=> h \in T
  <2>1. S = T
    BY <1>1, <1>2, <1>6
  <2> QED  BY <1>3, <1>6, <2>1 DEF S, T
<1> QED  BY <1>4, <1>5, <1>6

\* A task is taken: an attempt of it begins.
LEMMA DequeueKeeps ==
  ASSUME AlertsInv, NEW h \in Handlers, NEW e \in Changes, NEW c \in Channels, Dequeue(h, e, c)
  PROVE  AlertsInv'
<1> DEFINE t == [task[e][c] EXCEPT !.state = "active"]
           d == [change |-> e, channel |-> c, pc |-> "start", lease |-> TRUE]
<1>1. /\ UNCHANGED <<changes, producer, left, monitor, channels, attached, received, owed, hurt,
                     slow, faults, spent, edits>>
      /\ handler[h].pc = "idle" /\ task[e][c].state = "pending"
  BY DEF Dequeue, database, history, NoFault
<1>2. task' = [task EXCEPT ![e] = [@ EXCEPT ![c] = t]] /\ handler' = [handler EXCEPT ![h] = d]
  BY DEF Dequeue
<1>3. /\ task \in [Changes -> [Channels -> Task]] /\ handler \in [Handlers -> Dispatch]
      /\ task[e][c] \in Task
  BY DEF AlertsInv, AlertsTypeOK, Task, Dispatch
<1>4. t \in Task /\ t.state = "active" /\ t.retried = task[e][c].retried /\ t.retried \in Nat
  BY <1>3, AlertsAssumption DEF Task
<1>5. /\ d \in Dispatch /\ d.change = e /\ d.channel = c /\ d.pc = "start" /\ d.lease = TRUE
  BY AlertsAssumption DEF Dispatch, Changes
<1> HIDE DEF t, d
<1>6. /\ task' \in [Changes -> [Channels -> Task]] /\ task'[e][c] = t
      /\ \A f \in Changes, x \in Channels : f # e \/ x # c => task'[f][x] = task[f][x]
  BY <1>2, <1>3, <1>4, TaskChange
<1>7. /\ handler' \in [Handlers -> Dispatch] /\ handler'[h] = d
      /\ \A k \in Handlers : k # h => handler'[k] = handler[k]
  BY <1>2, <1>3, <1>5, HandlerChange
<1>8. AlertsTypeOK'
  BY <1>1, <1>6, <1>7 DEF AlertsInv, AlertsTypeOK, Task, Dispatch
<1>9. \A f \in Changes : ChangeInv(f)'
  BY <1>1, <1>4, <1>6, TaskStepKeepsChanges
<1>10. e \in 1..changes
  <2>1. task[e][c] # NoTask /\ ChangeInv(e)
    BY <1>1 DEF NoTask, AlertsInv
  <2> QED  BY <2>1, AlertsAssumption DEF ChangeInv, Changes, AlertsInv, AlertsTypeOK
<1>11. ASSUME NEW k \in Handlers, k # h PROVE HandlerInv(k)' /\ ~(handler[k].lease
                                              /\ handler[k].change = e /\ handler[k].channel = c)
  <2>1. HandlerInv(k) /\ handler'[k] = handler[k]
    BY <1>7, <1>11 DEF AlertsInv
  <2>2. ~(handler[k].lease /\ handler[k].change = e /\ handler[k].channel = c)
    BY <1>1, <2>1 DEF HandlerInv, TaskOf
  <2>3. CASE handler[k].lease
    <3>1. handler[k].change \in Changes /\ handler[k].channel \in Channels
      BY <2>1, <2>3, AlertsAssumption DEF HandlerInv, Changes, AlertsInv, AlertsTypeOK
    <3>2. TaskOf(k)' = TaskOf(k)
      BY <1>6, <2>1, <2>2, <2>3, <3>1 DEF TaskOf
    <3> QED  BY <1>1, <2>1, <2>2, <3>2 DEF HandlerInv
  <2>4. CASE ~handler[k].lease
    BY <1>1, <2>1, <2>4 DEF HandlerInv
  <2> QED  BY <2>2, <2>3, <2>4
<1>12. HandlerInv(h)'
  BY <1>1, <1>4, <1>5, <1>6, <1>7, <1>10 DEF HandlerInv, TaskOf
<1>13. OneLease'
  BY <1>5, <1>7, <1>11 DEF AlertsInv, OneLease
<1>14. ASSUME NEW f \in Changes, NEW x \in Channels PROVE Counted(f, x)'
  <2>1. Counted(f, x) /\ Times(f, x)' = Times(f, x)
    BY <1>1 DEF AlertsInv, Times
  <2>2. Cardinality(Sending(f, x)) \in Nat /\ Cardinality(Sending(f, x)') \in Nat
        /\ Times(f, x) \in Nat
    BY SendingFinite, HeardFinite DEF AlertsInv
  <2>3. CASE f = e /\ x = c
    <3>1. Attempts(e, c)' = Attempts(e, c) + 1
      BY <1>1, <1>4, <1>6 DEF Attempts
    <3>2. Cardinality(Sending(f, x)') <= Cardinality(Sending(f, x)) + 1
      BY <1>7, SendingStep
    <3>3. Attempts(e, c) \in Nat
      BY <1>1, <1>4 DEF Attempts
    <3> QED  BY <1>1, <1>4, <1>6, <2>1, <2>2, <2>3, <3>1, <3>2, <3>3 DEF Counted
  <2>4. CASE ~(f = e /\ x = c)
    <3>1. task'[f][x] = task[f][x] /\ h \notin Sending(f, x)'
      BY <1>5, <1>6, <1>7, <2>4 DEF Sending
    <3>2. Cardinality(Sending(f, x)') <= Cardinality(Sending(f, x))
      BY <1>7, <3>1, SendingStep
    <3>3. Attempts(f, x)' = Attempts(f, x) /\ Attempts(f, x) \in Nat
      BY <1>3, <3>1, AlertsAssumption DEF Attempts, Task
    <3> QED  BY <1>1, <2>1, <2>2, <3>1, <3>2, <3>3 DEF Counted
  <2> QED  BY <2>3, <2>4
<1>15. OvertakingIsExplained'
  BY <1>1 DEF AlertsInv, OvertakingIsExplained
<1> QED  BY <1>8, <1>9, <1>11, <1>12, <1>13, <1>14, <1>15 DEF AlertsInv

\* A handler fetches and sends, or fails to.  A message overtaken by it is of
\* a change that was settled, and so was sent without a lease.
LEMMA GotoKeeps ==
  ASSUME AlertsInv, NEW h \in Handlers, NEW pc \in {"loaded", "nil", "error"}, Goto(h, pc),
         handler[h].pc \in {"start", "loaded"},
         UNCHANGED <<changes, producer, left, monitor, channels, attached, task, owed, hurt, slow>>,
         received' = received \/ (Deliver(h) /\ pc # "loaded"),
         (NoFault /\ pc # "error") \/ FaultAt(handler[h].change, handler[h].channel)
  PROVE  AlertsInv'
<1> DEFINE e == handler[h].change
           c == handler[h].channel
<1>1. handler \in [Handlers -> Dispatch] /\ HandlerInv(h)
  BY DEF AlertsInv, AlertsTypeOK, Dispatch
<1>2. e \in Changes /\ e \in 1..changes /\ c \in Channels
  BY <1>1, AlertsAssumption DEF HandlerInv, Changes, AlertsInv, AlertsTypeOK
<1>3. /\ handler' \in [Handlers -> Dispatch]
      /\ handler'[h].pc = pc /\ handler'[h].change = e /\ handler'[h].channel = c
      /\ handler'[h].lease = handler[h].lease
      /\ \A k \in Handlers : k # h => handler'[k] = handler[k]
  BY <1>1, GotoChange
<1>4. /\ faults' \in [Changes -> [Channels -> 0..spent']] /\ spent' \in 0..MaxFaults
      /\ edits' = edits
      /\ pc = "error" => faults'[e][c] = faults[e][c] + 1
      /\ \A f \in Changes, x \in Channels :
           /\ faults'[f][x] \in Nat /\ faults[f][x] \in Nat /\ faults[f][x] <= faults'[f][x]
  <2>1. faults \in [Changes -> [Channels -> 0..spent]] /\ spent \in 0..MaxFaults /\ spent \in Nat
    BY AlertsAssumption DEF AlertsInv, AlertsTypeOK
  <2>2. CASE NoFault /\ pc # "error"
    BY <2>1, <2>2 DEF NoFault
  <2>3. CASE FaultAt(e, c)
    <3>1. /\ faults' \in [Changes -> [Channels -> 0..spent']]
          /\ faults'[e][c] = faults[e][c] + 1
          /\ \A f \in Changes, d \in Channels : f # e \/ d # c => faults'[f][d] = faults[f][d]
          /\ spent' \in 0..MaxFaults /\ edits' = edits
      BY <1>2, <2>3, FaultChange DEF AlertsInv
    <3>2. spent' \in Nat
      BY <3>1, AlertsAssumption
    <3> QED  BY <2>1, <3>1, <3>2
  <2> QED  BY <2>2, <2>3
<1>5. received' \in [Channels -> Seq(1..changes)]
  BY <1>2, DeliverChange DEF AlertsInv, AlertsTypeOK
<1>6. AlertsTypeOK'
  BY <1>3, <1>4, <1>5 DEF AlertsInv, AlertsTypeOK, Dispatch
<1>7. \A f \in Changes : ChangeInv(f)'
  BY ChangesKept
<1>8. ASSUME NEW k \in Handlers PROVE HandlerInv(k)'
  <2>1. HandlerInv(k)
    BY DEF AlertsInv
  <2>2. handler'[k].change = handler[k].change /\ handler'[k].channel = handler[k].channel
        /\ handler'[k].lease = handler[k].lease
    BY <1>3
  <2>3. CASE handler[k].pc = "idle"
    BY <1>3, <2>1, <2>2, <2>3 DEF HandlerInv
  <2>4. CASE handler[k].pc # "idle"
    <3> DEFINE f == handler[k].change
               x == handler[k].channel
    <3>1. f \in 1..changes /\ x \in Channels /\ f \in Changes
      BY <2>1, <2>4, AlertsAssumption DEF HandlerInv, Changes, AlertsInv, AlertsTypeOK
    <3>2. faults'[f][x] \in Nat /\ faults[f][x] \in Nat /\ faults[f][x] <= faults'[f][x]
      BY <1>4, <3>1
    <3>3. task[f][x].retried \in Nat /\ task[f][x].retried <= faults[f][x]
      BY <3>1, AlertsAssumption DEF AlertsInv, AlertsTypeOK, Counted
    <3>4. TaskOf(k)' = TaskOf(k) /\ TaskOf(k) = task[f][x]
      BY <2>2 DEF TaskOf
    <3>5. handler'[k].pc # "idle"
      BY <1>3, <2>4
    <3>6. ~handler[k].lease => faults'[f][x] > 0
      BY <2>1, <2>4, <3>2 DEF HandlerInv
    <3>7. handler[k].lease /\ handler'[k].pc = "error" => task[f][x].retried < faults'[f][x]
      <4>1. CASE k = h
        BY <1>3, <1>4, <3>2, <3>3, <4>1
      <4>2. CASE k # h
        BY <1>3, <2>1, <3>2, <3>3, <3>4, <4>2 DEF HandlerInv
      <4> QED  BY <4>1, <4>2
    <3>8. handler[k].lease => task[f][x].state = "active"
      BY <2>1, <3>4 DEF HandlerInv
    <3> QED  BY <2>2, <3>1, <3>4, <3>5, <3>6, <3>7, <3>8 DEF HandlerInv
  <2> QED  BY <2>3, <2>4
<1>9. OneLease'
  <2>1. \A k \in Handlers : /\ handler'[k].change = handler[k].change
                            /\ handler'[k].channel = handler[k].channel
                            /\ handler'[k].lease = handler[k].lease
    BY <1>3
  <2> QED  BY <2>1 DEF AlertsInv, OneLease
<1>10. ASSUME NEW f \in Changes, NEW x \in Channels PROVE Counted(f, x)'
  <2>1. Counted(f, x) /\ Attempts(f, x)' = Attempts(f, x) /\ Attempts(f, x) \in Nat
    BY AlertsAssumption DEF AlertsInv, AlertsTypeOK, Attempts
  <2>2. Cardinality(Sending(f, x)) \in Nat /\ Cardinality(Sending(f, x)') \in Nat
        /\ Times(f, x) \in Nat
    BY SendingFinite, HeardFinite DEF AlertsInv
  <2>3. h \in Sending(f, x)' => h \in Sending(f, x)
    BY <1>3 DEF Sending
  <2>4. Cardinality(Sending(f, x)') <= Cardinality(Sending(f, x))
    BY <1>3, <2>3, SendingStep
  <2>5. task[f][x].retried \in Nat /\ task'[f][x].retried <= faults'[f][x]
    BY <1>4, <2>1, AlertsAssumption DEF AlertsInv, AlertsTypeOK, Counted
  <2>6. CASE Deliver(h) /\ pc # "loaded" /\ f = e /\ x = c
    <3>1. Times(f, x)' = Times(f, x) + 1
      BY <1>2, <2>6, HeardOnceMore DEF AlertsInv
    <3>2. h \in Sending(f, x) /\ h \notin Sending(f, x)'
      BY <1>3, <2>6 DEF Sending
    <3>3. Cardinality(Sending(f, x)') + 1 <= Cardinality(Sending(f, x))
      BY <1>3, <3>2, SendingStep
    <3> QED  BY <2>1, <2>2, <2>5, <3>1, <3>3 DEF Counted
  <2>7. CASE ~(Deliver(h) /\ pc # "loaded" /\ f = e /\ x = c)
    <3>1. Times(f, x)' = Times(f, x)
      <4>1. CASE received' = received
        BY <4>1 DEF Times
      <4>2. CASE Deliver(h) /\ pc # "loaded"
        BY <1>2, <2>7, <4>2, HeardOnceMore DEF AlertsInv
      <4> QED  BY <4>1, <4>2
    <3> QED  BY <2>1, <2>2, <2>4, <2>5, <3>1 DEF Counted
  <2> QED  BY <2>6, <2>7
<1>11. OvertakingIsExplained'
  <2> SUFFICES ASSUME NEW x \in Channels, NEW i \in DOMAIN received'[x],
                      NEW j \in DOMAIN received'[x], i < j, received'[x][j] < received'[x][i]
               PROVE  received'[x][j] \in slow \/ faults'[received'[x][j]][x] > 0
    BY DEF OvertakingIsExplained
  <2>1. received[x] \in Seq(1..changes) /\ received'[x] \in Seq(1..changes)
        /\ changes \in 0..MaxChanges /\ 1..changes \subseteq Changes
    BY <1>5, AlertsAssumption DEF AlertsInv, AlertsTypeOK, Changes
  <2>2. received'[x][j] \in Changes /\ received'[x][i] \in 1..changes
        /\ received'[x][j] \in 1..changes
    BY <2>1
  <2>3. CASE received'[x] = received[x]
    <3>1. received[x][j] \in slow \/ faults[received[x][j]][x] > 0
      BY <2>3 DEF AlertsInv, OvertakingIsExplained
    <3> QED  BY <1>4, <2>2, <2>3, <3>1
  <2>4. CASE received'[x] # received[x]
    <3>1. x = c /\ received'[c] = Append(received[c], e)
      BY <1>2, <2>4, DeliverChange DEF AlertsInv
    <3>2. CASE j \in DOMAIN received[c]
      <4>1. i \in DOMAIN received[c] /\ received'[c][i] = received[c][i]
            /\ received'[c][j] = received[c][j]
        BY <2>1, <3>1, <3>2
      <4>a. i < j /\ received[c][j] < received[c][i]
        BY <3>1, <4>1
      <4>2. received[c][j] \in slow \/ faults[received[c][j]][c] > 0
        BY <1>2, <3>2, <4>1, <4>a DEF AlertsInv, OvertakingIsExplained
      <4> QED  BY <1>4, <2>2, <3>1, <4>1, <4>2
    <3>3. CASE j \notin DOMAIN received[c]
      <4>1. received'[c][j] = e
        <5> DEFINE s == received[c]
        <5>1. s \in Seq(1..changes) /\ received'[c] = Append(s, e)
          BY <2>1, <3>1
        <5> HIDE DEF s
        <5>2. /\ Len(s) \in Nat /\ DOMAIN s = 1..Len(s)
              /\ DOMAIN Append(s, e) = 1..(Len(s) + 1)
              /\ Append(s, e)[Len(s) + 1] = e
          BY <5>1
        <5>3. j \in 1..(Len(s) + 1) /\ j \notin 1..Len(s)
          BY <3>1, <3>3, <5>1, <5>2 DEF s
        <5>4. j = Len(s) + 1
          BY <5>2, <5>3
        <5> QED  BY <5>1, <5>2, <5>4
      <4>2. e < changes
        <5> DEFINE later == received'[x][i]
        <5>1. later \in 1..changes /\ changes \in Nat /\ e \in 1..changes
          BY <2>1, <2>2, <3>1, <4>1
        <5>2. e < later
          BY <3>1, <4>1
        <5> HIDE DEF later
        <5> QED  BY <5>1, <5>2
      <4>3. e \in slow \/ Settled(e)
        BY <1>2, <4>2 DEF AlertsInv, ChangeInv
      <4>4. Settled(e) => ~handler[h].lease
        BY <1>1, <1>2 DEF HandlerInv, TaskOf, Settled
      <4>5. ~handler[h].lease => faults'[e][c] > 0
        BY <1>1, <1>2, <1>4 DEF HandlerInv
      <4> QED  BY <3>1, <4>1, <4>3, <4>4, <4>5
    <3> QED  BY <3>2, <3>3
  <2> QED  BY <2>3, <2>4
<1> QED  BY <1>6, <1>7, <1>8, <1>9, <1>10, <1>11 DEF AlertsInv

\* A handler gives its task back to the queue, and ends or goes on without a
\* lease.
LEMMA GiveBackKeeps ==
  ASSUME AlertsInv, NEW h \in Handlers, handler[h].lease, NEW t \in Task, SetTask(h, t),
         \/ t.state = "pending" /\ t.retried = TaskOf(h).retried + 1
         \/ t.state \in {"done", "archived"} /\ t.retried = TaskOf(h).retried,
         UNCHANGED <<changes, producer, left, monitor, channels, attached, received, owed, hurt, slow>>,
         NEW d \in Dispatch, handler' = [handler EXCEPT ![h] = d], ~d.lease,
         \/ /\ NoFault /\ d.pc = "idle"
            /\ t.retried <= faults[handler[h].change][handler[h].channel]
         \/ /\ FaultAt(handler[h].change, handler[h].channel)
            /\ \/ d.pc = "idle"
               \/ d.change = handler[h].change /\ d.channel = handler[h].channel
                    /\ d.pc = handler[h].pc
  PROVE  AlertsInv'
<1> DEFINE e == handler[h].change
           c == handler[h].channel
<1>1. /\ handler \in [Handlers -> Dispatch] /\ HandlerInv(h)
      /\ task \in [Changes -> [Channels -> Task]]
  BY DEF AlertsInv, AlertsTypeOK, Dispatch, Task
<1>2. /\ e \in Changes /\ e \in 1..changes /\ c \in Channels /\ handler[h].pc # "idle"
      /\ task[e][c].state = "active" /\ TaskOf(h) = task[e][c]
  BY <1>1, AlertsAssumption DEF HandlerInv, TaskOf, Changes, AlertsInv, AlertsTypeOK
<1>3. /\ task' \in [Changes -> [Channels -> Task]] /\ task'[e][c] = t
      /\ \A f \in Changes, x \in Channels : f # e \/ x # c => task'[f][x] = task[f][x]
  <2>1. task' = [task EXCEPT ![e] = [@ EXCEPT ![c] = t]]
    BY DEF SetTask
  <2> HIDE DEF e, c
  <2> QED  BY <1>1, <1>2, <2>1, TaskChange
<1>4. /\ handler' \in [Handlers -> Dispatch] /\ handler'[h] = d
      /\ \A k \in Handlers : k # h => handler'[k] = handler[k]
  BY <1>1, HandlerChange
<1>5. /\ faults' \in [Changes -> [Channels -> 0..spent']] /\ spent' \in 0..MaxFaults
      /\ edits' = edits /\ t.retried <= faults'[e][c]
      /\ d.pc # "idle" => faults'[e][c] > 0
      /\ \A f \in Changes, x \in Channels :
           /\ faults'[f][x] \in Nat /\ faults[f][x] \in Nat /\ faults[f][x] <= faults'[f][x]
  <2>1. faults \in [Changes -> [Channels -> 0..spent]] /\ spent \in 0..MaxFaults /\ spent \in Nat
    BY AlertsAssumption DEF AlertsInv, AlertsTypeOK
  <2>2. CASE NoFault /\ d.pc = "idle" /\ t.retried <= faults[e][c]
    BY <2>1, <2>2 DEF NoFault
  <2>3. CASE FaultAt(e, c)
    <3>1. /\ faults' \in [Changes -> [Channels -> 0..spent']]
          /\ faults'[e][c] = faults[e][c] + 1
          /\ \A f \in Changes, x \in Channels : f # e \/ x # c => faults'[f][x] = faults[f][x]
          /\ spent' \in 0..MaxFaults /\ edits' = edits
      BY <1>2, <2>3, FaultChange DEF AlertsInv
    <3>2. spent' \in Nat
      BY <3>1, AlertsAssumption
    <3>3. task[e][c].retried \in Nat /\ task[e][c].retried <= faults[e][c]
      BY <1>2, AlertsAssumption DEF AlertsInv, AlertsTypeOK, Counted
    <3> QED  BY <1>2, <2>1, <3>1, <3>2, <3>3
  <2> QED  BY <2>2, <2>3
<1>6. AlertsTypeOK'
  BY <1>3, <1>4, <1>5 DEF AlertsInv, AlertsTypeOK, Dispatch, Task
<1>7. \A f \in Changes : ChangeInv(f)'
  BY <1>2, <1>3, TaskStepKeepsChanges
<1>8. ASSUME NEW k \in Handlers, k # h PROVE HandlerInv(k)'
  <2>1. HandlerInv(k) /\ handler'[k] = handler[k]
    BY <1>4, <1>8 DEF AlertsInv
  <2>2. CASE handler[k].pc = "idle"
    BY <2>1, <2>2 DEF HandlerInv
  <2>3. CASE handler[k].pc # "idle"
    <3> DEFINE f == handler[k].change
               x == handler[k].channel
    <3>1. f \in 1..changes /\ x \in Channels /\ f \in Changes
      BY <2>1, <2>3, AlertsAssumption DEF HandlerInv, Changes, AlertsInv, AlertsTypeOK
    <3>2. faults'[f][x] \in Nat /\ faults[f][x] \in Nat /\ faults[f][x] <= faults'[f][x]
      BY <1>5, <3>1
    <3>3. CASE handler[k].lease
      <4>1. f # e \/ x # c
        BY <1>8, <3>3 DEF AlertsInv, OneLease
      <4>2. TaskOf(k)' = TaskOf(k) /\ TaskOf(k) = task[f][x]
        BY <1>3, <2>1, <3>1, <4>1 DEF TaskOf
      <4>3. task[f][x].retried \in Nat
        BY <3>1, AlertsAssumption DEF AlertsInv, AlertsTypeOK
      <4> QED  BY <2>1, <3>1, <3>2, <3>3, <4>2, <4>3 DEF HandlerInv
    <3>4. CASE ~handler[k].lease
      BY <2>1, <2>3, <3>1, <3>2, <3>4 DEF HandlerInv
    <3> QED  BY <3>3, <3>4
  <2> QED  BY <2>2, <2>3
<1>9. HandlerInv(h)'
  BY <1>2, <1>4, <1>5 DEF HandlerInv
<1>10. OneLease'
  BY <1>4 DEF AlertsInv, OneLease
<1>11. ASSUME NEW f \in Changes, NEW x \in Channels PROVE Counted(f, x)'
  <2>1. Counted(f, x) /\ Times(f, x)' = Times(f, x)
    BY DEF AlertsInv, Times
  <2>2. Cardinality(Sending(f, x)) \in Nat /\ Cardinality(Sending(f, x)') \in Nat
        /\ Times(f, x) \in Nat
    BY SendingFinite, HeardFinite DEF AlertsInv
  <2>3. h \in Sending(f, x)' => h \in Sending(f, x)
    BY <1>4 DEF Sending
  <2>4. Cardinality(Sending(f, x)') <= Cardinality(Sending(f, x))
    BY <1>4, <2>3, SendingStep
  <2>5. Attempts(f, x)' = Attempts(f, x) /\ Attempts(f, x) \in Nat
    <3>1. task[f][x].retried \in Nat
      BY AlertsAssumption DEF AlertsInv, AlertsTypeOK
    <3>2. CASE f = e /\ x = c
      BY <1>2, <1>3, <3>1, <3>2 DEF Attempts
    <3>3. CASE ~(f = e /\ x = c)
      BY <1>3, <3>1, <3>3 DEF Attempts
    <3> QED  BY <3>2, <3>3
  <2>6. task'[f][x].retried <= faults'[f][x]
    <3>1. CASE f = e /\ x = c
      BY <1>3, <1>5, <3>1
    <3>2. CASE ~(f = e /\ x = c)
      <4>0. task[f][x].retried \in Nat
        BY AlertsAssumption DEF AlertsInv, AlertsTypeOK
      <4>1. task'[f][x].retried = task[f][x].retried /\ task[f][x].retried \in Nat
        BY <1>3, <3>2, <4>0
      <4> QED  BY <1>5, <2>1, <4>1 DEF Counted
    <3> QED  BY <3>1, <3>2
  <2> QED  BY <2>1, <2>2, <2>4, <2>5, <2>6 DEF Counted
<1>12. OvertakingIsExplained'
  <2>1. \A f \in Changes, x \in Channels : faults[f][x] > 0 => faults'[f][x] > 0
    BY <1>5
  <2>2. ASSUME NEW x \in Channels, NEW i \in DOMAIN received[x] PROVE received[x][i] \in Changes
    <3>1. received[x] \in Seq(1..changes) /\ 1..changes \subseteq Changes
      BY AlertsAssumption DEF AlertsInv, AlertsTypeOK, Changes
    <3>2. received[x][i] \in 1..changes
      BY <3>1, LenProperties, ElementOfSeq
    <3> QED  BY <3>1, <3>2
  <2> QED  BY <2>1, <2>2 DEF AlertsInv, OvertakingIsExplained
<1> QED  BY <1>6, <1>7, <1>8, <1>9, <1>10, <1>11, <1>12 DEF AlertsInv

\* A handler returns to its queue, or to nobody.
LEMMA ReturnKeeps ==
  ASSUME AlertsInv, NEW h \in Handlers, Return(h)
  PROVE  AlertsInv'
<1>1. /\ UNCHANGED <<changes, producer, left, monitor, channels, attached, received, owed, hurt, slow>>
      /\ NoFault /\ handler' = [handler EXCEPT ![h] = IdleHandler]
      /\ handler[h].pc \in {"nil", "error"}
  BY DEF Return, database, history
<1>2. IdleHandler \in Dispatch /\ IdleHandler.pc = "idle" /\ ~IdleHandler.lease
  BY AlertsAssumption DEF IdleHandler, Dispatch
<1>3. handler \in [Handlers -> Dispatch] /\ HandlerInv(h)
  BY DEF AlertsInv, AlertsTypeOK, Dispatch
<1>4. CASE handler[h].lease
  <2>1. /\ handler[h].change \in Changes /\ handler[h].channel \in Channels
        /\ TaskOf(h) = task[handler[h].change][handler[h].channel]
    BY <1>1, <1>3, AlertsAssumption DEF HandlerInv, TaskOf, Changes, AlertsInv, AlertsTypeOK
  <2>2. TaskOf(h) \in Task /\ TaskOf(h).retried \in Nat
    BY <2>1, AlertsAssumption DEF AlertsInv, AlertsTypeOK, Task
  <2>3. TaskOf(h).retried <= faults[handler[h].change][handler[h].channel]
    BY <2>1 DEF AlertsInv, Counted
  <2>4. faults[handler[h].change][handler[h].channel] \in Nat
    BY <2>1, AlertsAssumption DEF AlertsInv, AlertsTypeOK
  <2>5. SetTask(h, Outcome(h))
    BY <1>4 DEF Return
  <2>6. /\ Outcome(h) \in Task
        /\ \/ Outcome(h).state = "pending" /\ Outcome(h).retried = TaskOf(h).retried + 1
           \/ Outcome(h).state \in {"done", "archived"} /\ Outcome(h).retried = TaskOf(h).retried
        /\ Outcome(h).retried <= faults[handler[h].change][handler[h].channel]
    <3>1. CASE handler[h].pc = "error"
      <4>1. TaskOf(h).retried < faults[handler[h].change][handler[h].channel]
        BY <1>3, <1>4, <3>1 DEF HandlerInv
      <4>2. Outcome(h) = Again(TaskOf(h))
        BY <3>1 DEF Outcome
      <4> QED  BY <2>2, <2>4, <4>1, <4>2, AgainTask
    <3>2. CASE handler[h].pc # "error"
      <4>1. Outcome(h) = [TaskOf(h) EXCEPT !.state = "done"]
        BY <3>2 DEF Outcome
      <4> QED  BY <2>2, <2>3, <4>1 DEF Task
    <3> QED  BY <3>1, <3>2
  <2> DEFINE t == Outcome(h)
             d == IdleHandler
  <2>7. t \in Task /\ d \in Dispatch /\ SetTask(h, t) /\ handler' = [handler EXCEPT ![h] = d]
        /\ d.pc = "idle" /\ ~d.lease
        /\ \/ t.state = "pending" /\ t.retried = TaskOf(h).retried + 1
           \/ t.state \in {"done", "archived"} /\ t.retried = TaskOf(h).retried
        /\ t.retried <= faults[handler[h].change][handler[h].channel]
    BY <1>1, <1>2, <2>5, <2>6
  <2> HIDE DEF t, d
  <2> QED  BY <1>1, <1>4, <2>7, GiveBackKeeps
<1>5. CASE ~handler[h].lease
  <2>1. UNCHANGED <<task, faults, spent, edits>>
    BY <1>1, <1>5 DEF Return, NoFault
  <2>2. /\ handler' \in [Handlers -> Dispatch] /\ handler'[h] = IdleHandler
        /\ \A k \in Handlers : k # h => handler'[k] = handler[k]
    BY <1>1, <1>2, <1>3, HandlerChange
  <2>3. AlertsTypeOK'
    BY <1>1, <2>1, <2>2 DEF AlertsInv, AlertsTypeOK, Dispatch
  <2>4. \A f \in Changes : ChangeInv(f)'
    BY <1>1, <2>1, ChangesKept
  <2>5. \A k \in Handlers : HandlerInv(k)'
    BY <1>1, <1>2, <2>1, <2>2 DEF AlertsInv, HandlerInv, TaskOf
  <2>6. OneLease'
    BY <1>2, <2>2 DEF AlertsInv, OneLease
  <2>7. ASSUME NEW f \in Changes, NEW x \in Channels PROVE Counted(f, x)'
    <3>1. /\ Counted(f, x) /\ Times(f, x)' = Times(f, x) /\ Attempts(f, x)' = Attempts(f, x)
          /\ Attempts(f, x) \in Nat
      BY <1>1, <2>1, AlertsAssumption DEF AlertsInv, AlertsTypeOK, Times, Attempts
    <3>2. h \notin Sending(f, x)'
      BY <1>2, <2>2 DEF Sending
    <3>3. Cardinality(Sending(f, x)') <= Cardinality(Sending(f, x))
      BY <2>2, <3>2, SendingStep
    <3>4. Cardinality(Sending(f, x)) \in Nat /\ Cardinality(Sending(f, x)') \in Nat
          /\ Times(f, x) \in Nat
      BY SendingFinite, HeardFinite DEF AlertsInv
    <3> QED  BY <2>1, <3>1, <3>3, <3>4 DEF Counted
  <2>8. OvertakingIsExplained'
    BY <1>1, <2>1 DEF AlertsInv, OvertakingIsExplained
  <2> QED  BY <2>3, <2>4, <2>5, <2>6, <2>7, <2>8 DEF AlertsInv
<1> QED  BY <1>4, <1>5

\* A lease runs out: the worker is dead, or does not know it.
LEMMA LeaseExpiresKeeps ==
  ASSUME AlertsInv, NEW h \in Handlers, LeaseExpires(h)
  PROVE  AlertsInv'
<1>1. /\ UNCHANGED <<changes, producer, left, monitor, channels, attached, received, owed, hurt, slow>>
      /\ handler[h].lease /\ SetTask(h, Again(TaskOf(h)))
      /\ FaultAt(handler[h].change, handler[h].channel)
  BY DEF LeaseExpires, database, history
<1>2. handler \in [Handlers -> Dispatch] /\ HandlerInv(h)
  BY DEF AlertsInv, AlertsTypeOK, Dispatch
<1>3. /\ handler[h].change \in Changes /\ handler[h].channel \in Channels
      /\ TaskOf(h) = task[handler[h].change][handler[h].channel]
  BY <1>1, <1>2, AlertsAssumption DEF HandlerInv, TaskOf, Changes, AlertsInv, AlertsTypeOK
<1>4. TaskOf(h) \in Task
  BY <1>3 DEF AlertsInv, AlertsTypeOK, Task
<1> DEFINE t == Again(TaskOf(h))
<1>5. /\ t \in Task /\ SetTask(h, t)
      /\ \/ t.state = "pending" /\ t.retried = TaskOf(h).retried + 1
         \/ t.state \in {"done", "archived"} /\ t.retried = TaskOf(h).retried
  BY <1>1, <1>4, AgainTask
<1> HIDE DEF t
<1>6. PICK d \in Dispatch :
        /\ handler' = [handler EXCEPT ![h] = d] /\ ~d.lease
        /\ \/ d.pc = "idle"
           \/ d.change = handler[h].change /\ d.channel = handler[h].channel /\ d.pc = handler[h].pc
  <2>1. IdleHandler \in Dispatch /\ IdleHandler.pc = "idle" /\ ~IdleHandler.lease
    BY AlertsAssumption DEF IdleHandler, Dispatch
  <2> DEFINE g == [handler[h] EXCEPT !.lease = FALSE]
  <2>2. /\ g \in Dispatch /\ ~g.lease
        /\ g.change = handler[h].change /\ g.channel = handler[h].channel /\ g.pc = handler[h].pc
    BY <1>2 DEF Dispatch
  <2>3. handler' = [handler EXCEPT ![h] = IdleHandler] \/ handler' = [handler EXCEPT ![h] = g]
    BY DEF LeaseExpires
  <2> HIDE DEF g
  <2> QED  BY <2>1, <2>2, <2>3
<1> QED  BY <1>1, <1>5, <1>6, GiveBackKeeps

\* Users edit channels and monitors.
LEMMA EditKeeps ==
  ASSUME AlertsInv,
         \/ \E C \in SUBSET channels : SetChannels(C)
         \/ \E c \in Channels : DeleteNotification(c)
         \/ DeleteMonitor
  PROVE  AlertsInv'
<1>1. /\ UNCHANGED <<changes, producer, left, task, handler, received, owed, hurt, slow, faults, spent>>
      /\ edits' = edits + 1 /\ edits < MaxEdits
      /\ monitor' \in BOOLEAN /\ channels' \subseteq Channels /\ attached' \subseteq channels'
  BY DEF SetChannels, DeleteNotification, DeleteMonitor, Edit, history, AlertsInv, AlertsTypeOK
<1>2. AlertsTypeOK'
  BY <1>1, AlertsAssumption DEF AlertsInv, AlertsTypeOK
<1>3. (\A h \in Handlers : HandlerInv(h)') /\ OneLease' /\ OvertakingIsExplained'
  BY <1>1 DEF AlertsInv, HandlerInv, TaskOf, OneLease, OvertakingIsExplained
<1>4. \A f \in Changes : ChangeInv(f)'
  BY <1>1, ChangesKept
<1>5. \A f \in Changes, c \in Channels : Counted(f, c)'
  BY <1>1, CountedKept DEF AlertsInv
<1> QED  BY <1>2, <1>3, <1>4, <1>5 DEF AlertsInv

\* The invariant holds before the first change.
LEMMA AlertsInvInitially == AlertsInit => AlertsInv
<1> SUFFICES ASSUME AlertsInit PROVE AlertsInv
  OBVIOUS
<1>1. IdleHandler \in Dispatch /\ IdleHandler.pc = "idle" /\ ~IdleHandler.lease
  BY AlertsAssumption DEF IdleHandler, Dispatch
<1>2. NoTask \in Task /\ NoTask.state = "none" /\ NoTask.retried = 0
  BY AlertsAssumption DEF NoTask, Task
<1>3. /\ \A h \in Handlers : handler[h] = IdleHandler
      /\ \A e \in Changes, c \in Channels : task[e][c] = NoTask /\ faults[e][c] = 0
      /\ \A c \in Channels : received[c] = <<>>
      /\ \A e \in Changes : producer[e] = "none" /\ left[e] = {} /\ owed[e] = {}
      /\ changes = 0
  BY DEF AlertsInit
<1>4. AlertsTypeOK
  <2>1. handler \in [Handlers -> Dispatch] /\ task \in [Changes -> [Channels -> Task]]
    BY <1>1, <1>2 DEF AlertsInit
  <2>2. received \in [Channels -> Seq(1..changes)]
    BY DEF AlertsInit
  <2>3. faults \in [Changes -> [Channels -> 0..spent]]
    BY DEF AlertsInit
  <2> QED  BY <2>1, <2>2, <2>3, AlertsAssumption DEF AlertsInit, AlertsTypeOK, Dispatch, Task
<1>5. (\A h \in Handlers : HandlerInv(h)) /\ OneLease
  BY <1>1, <1>3 DEF HandlerInv, OneLease
<1>6. \A e \in Changes : ChangeInv(e)
  BY <1>3, AlertsAssumption DEF ChangeInv, Changes
<1>7. ASSUME NEW e \in Changes, NEW c \in Channels PROVE Counted(e, c)
  <2>1. Sending(e, c) = {}
    BY <1>1, <1>3 DEF Sending
  <2>2. Heard(e, c) = {}
    BY <1>3 DEF Heard
  <2>3. Times(e, c) = 0
    BY <1>4, <2>2, HeardFinite, FS_EmptySet
  <2>4. Cardinality(Sending(e, c)) = 0
    BY <2>1, FS_EmptySet
  <2> QED  BY <1>2, <1>3, <2>3, <2>4 DEF Counted, Attempts
<1>8. OvertakingIsExplained
  BY <1>3 DEF OvertakingIsExplained
<1> QED  BY <1>4, <1>5, <1>6, <1>7, <1>8 DEF AlertsInv

\* Every step keeps the invariant.
LEMMA AlertsInvKept == AlertsInv /\ [AlertsNext]_alertVars => AlertsInv'
<1> SUFFICES ASSUME AlertsInv, [AlertsNext]_alertVars PROVE AlertsInv'
  OBVIOUS
<1>1. CASE UNCHANGED alertVars
  <2>1. UNCHANGED <<changes, producer, left, monitor, channels, attached, task, handler, received,
                    owed, hurt, slow, faults, spent, edits>>
    BY <1>1 DEF alertVars, database, history
  <2>2. AlertsTypeOK' /\ OneLease' /\ OvertakingIsExplained' /\ \A h \in Handlers : HandlerInv(h)'
    BY <2>1 DEF AlertsInv, AlertsTypeOK, OneLease, OvertakingIsExplained, HandlerInv, TaskOf
  <2> QED  BY <2>1, <2>2, ChangesKept, CountedKept DEF AlertsInv
<1>2. CASE Change
  BY <1>2, ChangeKeeps
<1>3. ASSUME NEW e \in Changes,
             \/ ReadChannels(e) \/ EnqueuedAll(e) \/ ProducerStops(e)
             \/ \E c \in Channels : EnqueueFails(e, c)
      PROVE  AlertsInv'
  BY <1>3, ProducerKeeps
<1>4. ASSUME NEW e \in Changes, NEW c \in Channels,
             Enqueue(e, c) \/ \E h \in Handlers : Dequeue(h, e, c)
      PROVE  AlertsInv'
  BY <1>4, EnqueueKeeps, DequeueKeeps
<1>5. ASSUME NEW h \in Handlers, DispatchStep(h) \/ FetchFails(h) \/ SendFails(h) \/ LeaseExpires(h)
      PROVE  AlertsInv'
  <2>1. CASE Return(h) \/ LeaseExpires(h)
    BY <2>1, ReturnKeeps, LeaseExpiresKeeps
  <2>2. CASE Fetch(h) \/ Send(h) \/ FetchFails(h) \/ SendFails(h)
    <3>1. \E pc \in {"loaded", "nil", "error"} :
            /\ Goto(h, pc)
            /\ received' = received \/ (Deliver(h) /\ pc # "loaded")
            /\ (NoFault /\ pc # "error") \/ FaultAt(handler[h].change, handler[h].channel)
      BY <2>2 DEF Fetch, Send, FetchFails, SendFails
    <3>2. /\ handler[h].pc \in {"start", "loaded"}
          /\ UNCHANGED <<changes, producer, left, monitor, channels, attached, task, owed, hurt, slow>>
      BY <2>2 DEF Fetch, Send, FetchFails, SendFails, database, history
    <3> QED  BY <3>1, <3>2, GotoKeeps
  <2> QED  BY <1>5, <2>1, <2>2 DEF DispatchStep
<1>6. CASE \/ \E C \in SUBSET channels : SetChannels(C)
           \/ \E c \in Channels : DeleteNotification(c)
           \/ DeleteMonitor
  BY <1>6, EditKeeps
<1> QED  BY <1>1, <1>2, <1>3, <1>4, <1>5, <1>6 DEF AlertsNext, ProducerStep

--------------------------------------------------------------------------------
\* The invariant holds of every behaviour of the queue and its workers
\* (worker/handler/monitor_ping.go:108, notification_dispatch.go:17).
THEOREM AlertsHold == AlertsSpec => []AlertsInv
BY AlertsInvInitially, AlertsInvKept, PTL DEF AlertsSpec

\* Types of the alerts, for any channels, handlers and retries
\* (notification_dispatch.go:17).
THEOREM AlertsTypeCorrect == AlertsSpec => []AlertsTypeOK
<1>1. AlertsInv => AlertsTypeOK
  BY DEF AlertsInv
<1> QED  BY <1>1, AlertsHold, PTL

\* A message is repeated at most once for each fault of its task, and at most
\* MaxRetry times, for any number of handlers (notification_dispatch.go:57).
THEOREM RepeatsAlwaysExplained == AlertsSpec => []RepeatsAreExplained
<1>1. ASSUME AlertsInv, NEW e \in Changes, NEW c \in Channels
      PROVE  Times(e, c) <= 1 + faults[e][c] /\ Times(e, c) <= 1 + MaxRetry
  <2>1. /\ task[e][c].retried \in 0..MaxRetry /\ task[e][c].retried \in Nat
        /\ faults[e][c] \in Nat /\ MaxRetry \in Nat
    BY <1>1, AlertsAssumption DEF AlertsInv, AlertsTypeOK
  <2>2. Cardinality(Sending(e, c)) \in Nat /\ Times(e, c) \in Nat /\ Counted(e, c)
    BY <1>1, SendingFinite, HeardFinite DEF AlertsInv
  <2>3. Attempts(e, c) <= task[e][c].retried + 1 /\ Attempts(e, c) \in Nat
    BY <2>1 DEF Attempts
  <2> QED  BY <2>1, <2>2, <2>3 DEF Counted
<1>2. AlertsInv => RepeatsAreExplained
  BY <1>1 DEF RepeatsAreExplained
<1> QED  BY <1>2, AlertsHold, PTL

\* Overtaking takes a change that was not all told, or a fault, for any number
\* of changes (monitor_ping.go:128).
THEOREM OvertakingAlwaysExplained == AlertsSpec => []OvertakingIsExplained
<1>1. AlertsInv => OvertakingIsExplained
  BY DEF AlertsInv
<1> QED  BY <1>1, AlertsHold, PTL

\* A channel that was found has its task, unless a fault came between
\* (monitor_ping.go:108).
THEOREM SilenceAlwaysExplained == AlertsSpec => []SilenceIsExplained
<1>1. AlertsInv => SilenceIsExplained
  BY DEF AlertsInv, ChangeInv, SilenceIsExplained
<1> QED  BY <1>1, AlertsHold, PTL
================================================================================
