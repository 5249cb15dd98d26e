-------------------------------- MODULE Alerts --------------------------------
(***************************************************************************)
(* From a committed change of a monitor to the messages in the channels of *)
(* its team: the worker that committed the change puts one task for each   *)
(* channel into the queue (worker/handler/monitor_ping.go), and any worker *)
(* takes the task and sends the message (notification_dispatch.go).        *)
(*                                                                         *)
(* The changes of one monitor are numbered as they were committed: an      *)
(* outage, its recovery, the next outage.  Nothing else orders them.       *)
(*                                                                         *)
(* The queue is asynq's: a task that a handler returns an error for, or    *)
(* whose worker stops renewing its lease, is tried again until it has been *)
(* retried MaxRetry times, and then put aside.  A handler whose lease ran  *)
(* out may still be sending.                                               *)
(***************************************************************************)
EXTENDS Naturals, Sequences, FiniteSets

CONSTANTS
  Channels,    \* the notification channels of the team
  Handlers,    \* how many dispatch tasks are worked on at a time
  MaxChanges,  \* bound: changes of the monitor
  MaxRetry,    \* asynq's retries of a task (25 by default)
  MaxFaults,   \* bound: failures of the worker, the database and the channel
  MaxEdits,    \* bound: channels attached, detached and deleted
  MaxUpsets,   \* bound: both together
  Troubled,    \* bound: the channels whose tasks a fault may hit
  None

ASSUME AlertsAssumption ==
  /\ IsFiniteSet(Channels) /\ IsFiniteSet(Handlers) /\ None \notin Channels
  /\ MaxChanges \in Nat /\ MaxRetry \in Nat /\ MaxFaults \in Nat /\ MaxEdits \in Nat

VARIABLES
  changes,    \* how many changes were committed
  producer,   \* per change: the enqueueNotificationTasks that follows it
  left,       \* per change: the notificationIDs still to be enqueued
  monitor,    \* whether the monitor's row exists
  channels,   \* the rows of notifications
  attached,   \* the rows of monitor_notifications
  task,       \* per change and channel: the task in the queue
  handler,    \* the HandleNotificationDispatch that run
  received,   \* history: what each channel was sent, in order
  owed,       \* history: the notificationIDs each change found
  hurt,       \* history: per change, the channels a fault kept from being enqueued
  slow,       \* history: changes not all told when the next was committed
  faults,     \* history: the faults that hit a task, by change and channel
  spent,      \* how many faults there were
  edits       \* how many edits there were

database == <<monitor, channels, attached>>
history == <<owed, hurt, slow>>
alertVars == <<changes, producer, left, database, task, handler, received, history,
               faults, spent, edits>>

Changes == 1..MaxChanges
IdleHandler == [change |-> 0, channel |-> None, pc |-> "idle", lease |-> FALSE]
NoTask == [state |-> "none", retried |-> 0]

AlertsTypeOK ==
  /\ changes \in 0..MaxChanges
  /\ producer \in [Changes -> {"none", "committed", "enqueuing", "done"}]
  /\ left \in [Changes -> SUBSET Channels]
  /\ monitor \in BOOLEAN
  /\ channels \subseteq Channels
  /\ attached \subseteq channels
  /\ task \in [Changes -> [Channels ->
       [state : {"none", "pending", "active", "done", "archived"}, retried : 0..MaxRetry]]]
  /\ handler \in [Handlers -> [change : 0..MaxChanges, channel : Channels \cup {None},
       pc : {"idle", "start", "loaded", "nil", "error"}, lease : BOOLEAN]]
  /\ received \in [Channels -> Seq(1..changes)]
  /\ spent \in 0..MaxFaults
  /\ edits \in 0..MaxEdits
  /\ owed \in [Changes -> SUBSET Channels]
  /\ hurt \in [Changes -> SUBSET Channels]
  /\ slow \subseteq Changes
  /\ faults \in [Changes -> [Channels -> 0..spent]]

AlertsInit ==
  /\ changes = 0
  /\ producer = [e \in Changes |-> "none"]
  /\ left = [e \in Changes |-> {}]
  /\ monitor = TRUE
  /\ channels = Channels
  /\ attached = Channels
  /\ task = [e \in Changes |-> [c \in Channels |-> NoTask]]
  /\ handler = [h \in Handlers |-> IdleHandler]
  /\ received = [c \in Channels |-> <<>>]
  /\ owed = [e \in Changes |-> {}]
  /\ hurt = [e \in Changes |-> {}]
  /\ slow = {}
  /\ faults = [e \in Changes |-> [c \in Channels |-> 0]]
  /\ spent = 0
  /\ edits = 0

--------------------------------------------------------------------------------
TaskOf(h) == task[handler[h].change][handler[h].channel]
Settled(e) ==
  /\ producer[e] = "done"
  /\ \A c \in Channels : task[e][c].state \in {"none", "done", "archived"}

(* A fault is spent, and the task it hit remembers it.                     *)
Fault ==
  /\ spent < MaxFaults
  /\ spent + edits < MaxUpsets
  /\ spent' = spent + 1
  /\ UNCHANGED edits
FaultAt(e, c) ==
  /\ c \in Troubled
  /\ Fault
  /\ faults' = [faults EXCEPT ![e] = [@ EXCEPT ![c] = faults[e][c] + 1]]
NoFault == UNCHANGED <<faults, spent, edits>>

(* An incident of the monitor is opened or resolved (Incidents.Commit).    *)
Change ==
  /\ monitor
  /\ changes < MaxChanges
  /\ changes' = changes + 1
  /\ producer' = [producer EXCEPT ![changes + 1] = "committed"]
  /\ slow' = slow \cup {e \in 1..changes : ~Settled(e)}
  /\ UNCHANGED <<left, database, task, handler, received, owed, hurt>>
  /\ NoFault

(* GetNotificationIDsByMonitorID.                                          *)
ReadChannels(e) ==
  /\ producer[e] = "committed"
  /\ producer' = [producer EXCEPT ![e] = "enqueuing"]
  /\ left' = [left EXCEPT ![e] = attached]
  /\ owed' = [owed EXCEPT ![e] = attached]
  /\ UNCHANGED <<changes, database, task, handler, received, hurt, slow>>
  /\ NoFault

(* The ids are taken in the order of their rows, which tells nothing.      *)
Enqueue(e, c) ==
  /\ producer[e] = "enqueuing"
  /\ c \in left[e]
  /\ left' = [left EXCEPT ![e] = @ \ {c}]
  /\ task' = [task EXCEPT ![e] = [@ EXCEPT ![c] = [NoTask EXCEPT !.state = "pending"]]]
  /\ UNCHANGED <<changes, producer, database, handler, received, history>>
  /\ NoFault

(* Mutant: the loop is given up at a task the queue refuses.               *)
EnqueueFailsReturns(e, c) ==
  /\ producer[e] = "enqueuing"
  /\ c \in left[e] \cap Troubled
  /\ left' = [left EXCEPT ![e] = {}]
  /\ hurt' = [hurt EXCEPT ![e] = @ \cup {c}]
  /\ UNCHANGED <<changes, producer, database, task, handler, received, owed, slow, faults>>
  /\ Fault

(* The queue refuses one task, and the loop goes on with the next.         *)
EnqueueFails(e, c) ==
  /\ producer[e] = "enqueuing"
  /\ c \in left[e] \cap Troubled
  /\ left' = [left EXCEPT ![e] = @ \ {c}]
  /\ hurt' = [hurt EXCEPT ![e] = @ \cup {c}]
  /\ UNCHANGED <<changes, producer, database, task, handler, received, owed, slow, faults>>
  /\ Fault

EnqueuedAll(e) ==
  /\ producer[e] = "enqueuing"
  /\ left[e] = {}
  /\ producer' = [producer EXCEPT ![e] = "done"]
  /\ UNCHANGED <<changes, left, database, task, handler, received, history>>
  /\ NoFault

(* The read fails, or the worker dies: the change is committed already.    *)
ProducerStops(e) ==
  /\ producer[e] \in {"committed", "enqueuing"}
  /\ producer' = [producer EXCEPT ![e] = "done"]
  /\ left' = [left EXCEPT ![e] = {}]
  /\ hurt' = [hurt EXCEPT ![e] = @ \cup left[e]]
  /\ UNCHANGED <<changes, database, task, handler, received, owed, slow, faults>>
  /\ Fault

--------------------------------------------------------------------------------
(* Mutant: a task is done once it is taken from the queue.                 *)
DequeueAcknowledges(h, e, c) ==
  /\ handler[h].pc = "idle"
  /\ task[e][c].state = "pending"
  /\ task' = [task EXCEPT ![e] = [@ EXCEPT ![c] = [task[e][c] EXCEPT !.state = "done"]]]
  /\ handler' = [handler EXCEPT ![h] =
       [change |-> e, channel |-> c, pc |-> "start", lease |-> TRUE]]
  /\ UNCHANGED <<changes, producer, left, database, received, history>>
  /\ NoFault

Dequeue(h, e, c) ==
  /\ handler[h].pc = "idle"
  /\ task[e][c].state = "pending"
  /\ task' = [task EXCEPT ![e] = [@ EXCEPT ![c] = [task[e][c] EXCEPT !.state = "active"]]]
  /\ handler' = [handler EXCEPT ![h] =
       [change |-> e, channel |-> c, pc |-> "start", lease |-> TRUE]]
  /\ UNCHANGED <<changes, producer, left, database, received, history>>
  /\ NoFault

Goto(h, pc) == handler' = [handler EXCEPT ![h] = [@ EXCEPT !.pc = pc]]

(* fetchMonitorAndNotification; what is gone is not an error.              *)
Fetch(h) ==
  /\ handler[h].pc = "start"
  /\ Goto(h, IF monitor /\ handler[h].channel \in channels THEN "loaded" ELSE "nil")
  /\ UNCHANGED <<changes, producer, left, database, task, received, history>>
  /\ NoFault

FetchFails(h) ==
  /\ handler[h].pc = "start"
  /\ Goto(h, "error")
  /\ UNCHANGED <<changes, producer, left, database, task, received, history>>
  /\ FaultAt(handler[h].change, handler[h].channel)

Deliver(h) ==
  received' = [received EXCEPT ![handler[h].channel] = Append(@, handler[h].change)]

Send(h) ==
  /\ handler[h].pc = "loaded"
  /\ Goto(h, "nil")
  /\ Deliver(h)
  /\ UNCHANGED <<changes, producer, left, database, task, history>>
  /\ NoFault

(* The channel does not take the message, or takes it and its answer is    *)
(* lost.                                                                   *)
SendFails(h) ==
  /\ handler[h].pc = "loaded"
  /\ Goto(h, "error")
  /\ Deliver(h) \/ UNCHANGED received
  /\ UNCHANGED <<changes, producer, left, database, task, history>>
  /\ FaultAt(handler[h].change, handler[h].channel)

Again(t) ==
  IF t.retried < MaxRetry THEN [state |-> "pending", retried |-> t.retried + 1]
  ELSE [t EXCEPT !.state = "archived"]

SetTask(h, t) ==
  task' = [task EXCEPT ![handler[h].change] = [@ EXCEPT ![handler[h].channel] = t]]

(* Mutant: the handler's answer is not looked at.                          *)
OutcomeIgnored(h) == [TaskOf(h) EXCEPT !.state = "done"]

(* Mutant: a handler that has sent the message returns an error.           *)
OutcomeAlwaysRetried(h) == Again(TaskOf(h))

Outcome(h) ==
  IF handler[h].pc = "error" THEN Again(TaskOf(h)) ELSE [TaskOf(h) EXCEPT !.state = "done"]

(* The handler returns: with its lease gone nobody listens.                *)
Return(h) ==
  /\ handler[h].pc \in {"nil", "error"}
  /\ handler' = [handler EXCEPT ![h] = IdleHandler]
  /\ IF handler[h].lease THEN SetTask(h, Outcome(h)) ELSE UNCHANGED task
  /\ UNCHANGED <<changes, producer, left, database, received, history>>
  /\ NoFault

(* The worker dies, or is held up for longer than the lease and goes on.   *)
LeaseExpires(h) ==
  /\ handler[h].lease
  /\ SetTask(h, Again(TaskOf(h)))
  /\ handler' \in {[handler EXCEPT ![h] = IdleHandler],
                   [handler EXCEPT ![h] = [@ EXCEPT !.lease = FALSE]]}
  /\ UNCHANGED <<changes, producer, left, database, received, history>>
  /\ FaultAt(handler[h].change, handler[h].channel)

--------------------------------------------------------------------------------
(* UpdateMonitor, DeleteNotification and DeleteMonitor; the rows of        *)
(* monitor_notifications go with either end.                               *)
Edit ==
  /\ edits < MaxEdits
  /\ spent + edits < MaxUpsets
  /\ edits' = edits + 1
  /\ UNCHANGED <<faults, spent>>
  /\ UNCHANGED <<changes, producer, left, task, handler, received, history>>

SetChannels(C) ==
  /\ monitor
  /\ C # attached
  /\ attached' = C
  /\ Edit
  /\ UNCHANGED <<monitor, channels>>

DeleteNotification(c) ==
  /\ c \in channels
  /\ channels' = channels \ {c}
  /\ attached' = attached \ {c}
  /\ Edit
  /\ UNCHANGED monitor

DeleteMonitor ==
  /\ monitor
  /\ monitor' = FALSE
  /\ attached' = {}
  /\ Edit
  /\ UNCHANGED channels

ProducerStep(e) == ReadChannels(e) \/ EnqueuedAll(e) \/ \E c \in Channels : Enqueue(e, c)

DispatchStep(h) == Fetch(h) \/ Send(h) \/ Return(h)

AlertsNext ==
  \/ Change
  \/ \E e \in Changes :
       \/ ProducerStep(e) \/ ProducerStops(e)
       \/ \E c \in Channels :
            \/ EnqueueFails(e, c)
            \/ \E h \in Handlers : Dequeue(h, e, c)
  \/ \E h \in Handlers :
       DispatchStep(h) \/ FetchFails(h) \/ SendFails(h) \/ LeaseExpires(h)
  \/ \E C \in SUBSET channels : SetChannels(C)
  \/ \E c \in Channels : DeleteNotification(c)
  \/ DeleteMonitor

(* A producing worker goes on unless it dies, a free handler takes some    *)
(* task of the queue, whichever, and a handler goes on: all of them are    *)
(* goroutines that are scheduled, and faults are bounded.                  *)
AlertsFairness ==
  /\ \A e \in Changes : WF_alertVars(ProducerStep(e))
  /\ WF_alertVars(\E h \in Handlers, e \in Changes, c \in Channels : Dequeue(h, e, c))
  /\ \A h \in Handlers : WF_alertVars(DispatchStep(h))

AlertsSpec == AlertsInit /\ [][AlertsNext]_alertVars /\ AlertsFairness

--------------------------------------------------------------------------------
Times(e, c) == Cardinality({i \in DOMAIN received[c] : received[c][i] = e})

(* A message comes again only after a fault that hit its task, once for    *)
(* each, and never more than MaxRetry times (notification_dispatch.go:57). *)
RepeatsAreExplained ==
  \A e \in Changes, c \in Channels :
    /\ Times(e, c) <= 1 + faults[e][c]
    /\ Times(e, c) <= 1 + MaxRetry

(* A channel hears of the recovery before the outage, or of the outage     *)
(* again after it, only if the outage was not all told when the recovery   *)
(* was committed, or its task was hit by a fault (monitor_ping.go:128).    *)
OvertakingIsExplained ==
  \A c \in Channels : \A i, j \in DOMAIN received[c] :
    i < j /\ received[c][j] < received[c][i] =>
      received[c][j] \in slow \/ faults[received[c][j]][c] > 0

(* A channel that was found for a change has its task, unless a fault came *)
(* between; what hits one channel leaves out no other (monitor_ping.go:108)*)
SilenceIsExplained ==
  \A e \in Changes : producer[e] = "done" =>
    \A c \in owed[e] \ hurt[e] : task[e][c].state # "none"

(* In the end every task that was enqueued has ended, and unless it was    *)
(* tried too often, or its channel or monitor is gone, its message has     *)
(* arrived.                                                                *)
AlertArrives ==
  <>[]\A e \in Changes, c \in Channels :
        task[e][c].state # "none" =>
          /\ task[e][c].state \in {"done", "archived"}
          /\ \/ Times(e, c) > 0
             \/ ~monitor \/ c \notin channels
             \/ faults[e][c] > MaxRetry
================================================================================
