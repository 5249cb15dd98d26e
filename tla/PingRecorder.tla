----------------------------- MODULE PingRecorder -----------------------------
(***************************************************************************)
(* The ping recorder of one worker process: handlers offer results to a    *)
(* bounded channel, one goroutine moves them to a batch that it writes in  *)
(* one transaction, and a result that finds the channel full is written by *)
(* a goroutine of its own, which waits for room in the channel if that     *)
(* fails.  The batch is written whole or not at all (COPY).                *)
(*                                                                         *)
(* Not modelled: two results of one monitor and region in the same         *)
(* microsecond, which would share a primary key.                           *)
(***************************************************************************)
EXTENDS Naturals, Sequences, FiniteSets, Functions

CONSTANTS
  Pings,       \* ping results, each recorded at most once
  Monitors,
  MonitorOf,   \* the monitor a ping is of
  Capacity,    \* of the channel (4 * flushSize)
  FlushAt,     \* flushThreshold, 80 % of flushSize
  Faults,      \* the faults considered, of FaultKinds
  MaxFaults    \* bound on faults

FaultKinds == {"error",    \* a statement or the commit fails, nothing is stored
               "unknown",  \* the commit is applied and its answer is lost
               "crash",    \* the worker process dies and is started again
               "delete"}   \* a monitor is deleted through the API

ASSUME RecorderAssumption ==
  /\ MonitorOf \in [Pings -> Monitors]
  /\ Capacity \in Nat \ {0}
  /\ FlushAt \in Nat \ {0}
  /\ Faults \subseteq FaultKinds
  /\ MaxFaults \in Nat

VARIABLES
  live,        \* monitors with a row in the database
  stored,      \* rows of pings
  recorded,    \* pings Record was called for
  buffer,      \* the channel
  senders,     \* pings of goroutines waiting for room in the channel, in order
  overflow,    \* pings of goroutines that have yet to try to write them
  batch,       \* what run() has received and not written
  pc,          \* run(): at its select, or in flush
  doubtful,    \* history: pings whose commit was applied without an answer
  faults       \* faults so far

memory == <<buffer, senders, overflow, batch>>
vars == <<live, stored, recorded, memory, pc, doubtful, faults>>

Held == Range(buffer) \cup Range(senders) \cup overflow \cup Range(batch)

Init ==
  /\ live = Monitors
  /\ stored = {}
  /\ recorded = {}
  /\ buffer = <<>> /\ senders = <<>> /\ overflow = {} /\ batch = <<>>
  /\ pc = "select"
  /\ doubtful = {}
  /\ faults = 0

Fault(kind) ==
  /\ kind \in Faults
  /\ faults < MaxFaults
  /\ faults' = faults + 1

-----------------------------------------------------------------------------

\* A handler never waits: with the channel full it starts a goroutine.
Record(p) ==
  /\ p \notin recorded
  /\ recorded' = recorded \cup {p}
  /\ \/ /\ Len(buffer) < Capacity
        /\ buffer' = Append(buffer, p)
        /\ UNCHANGED overflow
     \/ /\ Len(buffer) = Capacity
        /\ overflow' = overflow \cup {p}
        /\ UNCHANGED buffer
  /\ UNCHANGED <<live, stored, senders, batch, pc, doubtful, faults>>

\* Receiving from a full channel lets its first waiting sender in.
Receive ==
  /\ pc = "select"
  /\ buffer # <<>>
  /\ batch' = Append(batch, Head(buffer))
  /\ \/ /\ senders = <<>>
        /\ buffer' = Tail(buffer)
        /\ UNCHANGED senders
     \/ /\ senders # <<>>
        /\ buffer' = Append(Tail(buffer), Head(senders))
        /\ senders' = Tail(senders)
  /\ pc' = IF Len(batch') >= FlushAt THEN "flush" ELSE "select"
  /\ UNCHANGED <<live, stored, recorded, overflow, doubtful, faults>>

\* Mutant: the ticker leaves a small batch for later.
TickWaits ==
  /\ pc = "select"
  /\ Len(batch) >= FlushAt
  /\ pc' = "flush"
  /\ UNCHANGED <<live, stored, recorded, memory, doubtful, faults>>

\* The ticker (an empty batch is returned at once).
Tick ==
  /\ pc = "select"
  /\ batch # <<>>
  /\ pc' = "flush"
  /\ UNCHANGED <<live, stored, recorded, memory, doubtful, faults>>

\* The foreign key of monitor_id and the primary key let COPY through.
Insertable(S) == \A p \in S : MonitorOf[p] \in live /\ p \notin stored

\* flush answers nil, or fails with nothing stored, or fails with all stored.
Commits(S) ==
  /\ Insertable(S)
  /\ stored' = stored \cup S
  /\ UNCHANGED <<doubtful, faults>>
Fails(S) ==
  /\ \/ (~Insertable(S) /\ UNCHANGED faults)
     \/ Fault("error")
  /\ UNCHANGED <<stored, doubtful>>
FailsInDoubt(S) ==
  /\ Insertable(S)
  /\ Fault("unknown")
  /\ stored' = stored \cup S
  /\ doubtful' = doubtful \cup S

\* Mutant: a failed flush empties the batch all the same.
FlushForgets ==
  /\ pc = "flush"
  /\ (Commits(Range(batch)) \/ Fails(Range(batch)) \/ FailsInDoubt(Range(batch)))
  /\ batch' = <<>>
  /\ pc' = "select"
  /\ UNCHANGED <<live, recorded, buffer, senders, overflow>>

\* run() writes its batch, or keeps all of it.
Flush ==
  /\ pc = "flush"
  /\ \/ Commits(Range(batch)) /\ batch' = <<>>
     \/ Fails(Range(batch)) /\ UNCHANGED batch
     \/ FailsInDoubt(Range(batch)) /\ UNCHANGED batch
  /\ pc' = "select"
  /\ UNCHANGED <<live, recorded, buffer, senders, overflow>>

\* Mutant: the send does not wait for room.
SendAtOnce(p) == buffer' = Append(buffer, p) /\ UNCHANGED senders

\* The blocking send of flushOne.
Send(p) ==
  \/ /\ Len(buffer) < Capacity
     /\ buffer' = Append(buffer, p)
     /\ UNCHANGED senders
  \/ /\ Len(buffer) = Capacity
     /\ senders' = Append(senders, p)
     /\ UNCHANGED buffer

\* Mutant: a ping that could not be written is not sent back.
FlushOneForgets(p) ==
  /\ p \in overflow
  /\ overflow' = overflow \ {p}
  /\ (Commits({p}) \/ Fails({p}) \/ FailsInDoubt({p}))
  /\ UNCHANGED <<live, recorded, buffer, senders, batch, pc>>

\* Mutant: the ping is sent back whatever flush answers.
FlushOneRepeats(p) ==
  /\ p \in overflow
  /\ overflow' = overflow \ {p}
  /\ (Commits({p}) \/ Fails({p}) \/ FailsInDoubt({p}))
  /\ Send(p)
  /\ UNCHANGED <<live, recorded, batch, pc>>

FlushOne(p) ==
  /\ p \in overflow
  /\ overflow' = overflow \ {p}
  /\ \/ Commits({p}) /\ UNCHANGED <<buffer, senders>>
     \/ (Fails({p}) \/ FailsInDoubt({p})) /\ Send(p)
  /\ UNCHANGED <<live, recorded, batch, pc>>

\* Nothing is flushed on the way down.
Crash ==
  /\ Fault("crash")
  /\ buffer' = <<>> /\ senders' = <<>> /\ overflow' = {} /\ batch' = <<>>
  /\ pc' = "select"
  /\ UNCHANGED <<live, stored, recorded, doubtful>>

\* The rows of its pings go with a monitor (ON DELETE CASCADE).
DeleteMonitor(m) ==
  /\ m \in live
  /\ Fault("delete")
  /\ live' = live \ {m}
  /\ stored' = {p \in stored : MonitorOf[p] # m}
  /\ UNCHANGED <<recorded, memory, pc, doubtful>>

Next ==
  \/ \E p \in Pings : Record(p) \/ FlushOne(p)
  \/ Receive \/ Tick \/ Flush \/ Crash
  \/ \E m \in Monitors : DeleteMonitor(m)

Spec == Init /\ [][Next]_vars

\* The goroutines are scheduled and the ticker ticks.  The select chooses at
\* random between a tick and a ping, and pings are finitely many here.
Fairness ==
  /\ WF_vars(Receive) /\ WF_vars(Tick) /\ WF_vars(Flush)
  /\ \A p \in Pings : WF_vars(FlushOne(p))

FairSpec == Spec /\ Fairness

-----------------------------------------------------------------------------
(* Properties *)

\* Every variable has its type; the channel keeps within its capacity and
\* senders wait only for a full one.
TypeOK ==
  /\ live \subseteq Monitors
  /\ stored \subseteq recorded /\ recorded \subseteq Pings
  /\ buffer \in Seq(recorded) /\ senders \in Seq(recorded)
  /\ overflow \subseteq recorded /\ batch \in Seq(recorded)
  /\ Len(buffer) <= Capacity
  /\ senders # <<>> => Len(buffer) = Capacity
  /\ pc \in {"select", "flush"}
  /\ doubtful \subseteq recorded
  /\ faults \in Nat

\* A ping is in one place of the recorder at most, and never both there and in
\* the database unless the answer to its commit was lost: flushOne, run and the
\* waiting senders hand it over without keeping it.
OnePlace ==
  /\ IsInjective(buffer) /\ IsInjective(senders) /\ IsInjective(batch)
  /\ Range(buffer) \cap Range(senders) = {}
  /\ Range(buffer) \cap Range(batch) = {}
  /\ Range(senders) \cap Range(batch) = {}
  /\ overflow \cap (Range(buffer) \cup Range(senders) \cup Range(batch)) = {}
  /\ Held \cap stored \subseteq doubtful

\* A ping leaves the recorder only for the database, or with the process.
NeverDropped ==
  [][(faults' = faults \/ Held' # {}) => Held \subseteq (Held' \cup stored')]_vars

\* Unless a monitor is deleted or the answer to a commit is lost, what is
\* recorded leaves the recorder, whatever else fails: no batch, channel or
\* waiting sender keeps a ping.
Drained ==
  [](live = Monitors /\ doubtful = {}) => \A p \in Pings : (p \in Held) ~> (p \notin Held)

\* The recorder implements what PingLog promises.
Promise == INSTANCE PingLog WITH
  accepted <- recorded,
  pending <- {p \in Held : MonitorOf[p] \in live /\ p \notin stored}
ImplementsPingLog == Promise!Spec

-----------------------------------------------------------------------------

\* agents/backend/monitoring.md: "Each ping result is buffered in
\* `PingRecorder` [...] and written in batches".  One ping of a deleted monitor
\* in a batch keeps every later ping of the worker out of the database.
EveryPingWritten ==
  \A p \in Pings :
    (p \in Held /\ MonitorOf[p] \in live) ~> (p \in stored \/ MonitorOf[p] \notin live)
===============================================================================
