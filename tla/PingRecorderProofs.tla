-------------------------- MODULE PingRecorderProofs --------------------------
(***************************************************************************)
(* Theorems about PingRecorder, for any pings, monitors, capacity and      *)
(* flush threshold and any number of faults: its types, that a ping is in  *)
(* one place, that none is dropped, and that it implements PingLog.        *)
(***************************************************************************)
EXTENDS PingRecorder, SequenceTheorems, TLAPS

(***************************************************************************)
(* Sequences: what sending and taking an element does to its elements.     *)
(***************************************************************************)

\* The empty channel and the empty batch hold nothing.
LEMMA EmptyHoldsNothing == Range(<<>>) = {} /\ IsInjective(<<>>)
BY DEF Range, IsInjective

\* Appending adds one element and repeats none that is new.
LEMMA AppendAddsOne ==
  ASSUME NEW S, NEW s \in Seq(S), NEW p \in S
  PROVE  /\ Append(s, p) \in Seq(S)
         /\ Len(Append(s, p)) = Len(s) + 1
         /\ Range(Append(s, p)) = Range(s) \cup {p}
         /\ (IsInjective(s) /\ p \notin Range(s)) => IsInjective(Append(s, p))
<1>1. Append(s, p) \in Seq(S) /\ Len(Append(s, p)) = Len(s) + 1
  OBVIOUS
<1>2. /\ DOMAIN Append(s, p) = 1 .. Len(s) + 1
      /\ DOMAIN s = 1 .. Len(s)
      /\ \A i \in 1 .. Len(s) : Append(s, p)[i] = s[i]
      /\ Append(s, p)[Len(s) + 1] = p
      /\ Len(s) \in Nat
  OBVIOUS
<1>3. Range(Append(s, p)) = Range(s) \cup {p}
  <2>1. ASSUME NEW x \in Range(Append(s, p)) PROVE x \in Range(s) \cup {p}
    <3>1. PICK i \in 1 .. Len(s) + 1 : x = Append(s, p)[i]
      BY <1>2 DEF Range
    <3>2. CASE i = Len(s) + 1
      BY <1>2, <3>1, <3>2
    <3>3. CASE i # Len(s) + 1
      BY <1>2, <3>1, <3>3 DEF Range
    <3> QED
      BY <3>2, <3>3
  <2>2. ASSUME NEW x \in Range(s) PROVE x \in Range(Append(s, p))
    <3>1. PICK i \in 1 .. Len(s) : x = s[i]
      BY <1>2 DEF Range
    <3>2. i \in 1 .. Len(s) + 1 /\ x = Append(s, p)[i]
      BY <1>2, <3>1
    <3> QED
      BY <1>2, <3>2 DEF Range
  <2>3. p \in Range(Append(s, p))
    BY <1>2 DEF Range
  <2> QED
    BY <2>1, <2>2, <2>3
<1>4. ASSUME IsInjective(s), p \notin Range(s) PROVE IsInjective(Append(s, p))
  <2> SUFFICES ASSUME NEW a \in 1 .. Len(s) + 1, NEW b \in 1 .. Len(s) + 1,
                      Append(s, p)[a] = Append(s, p)[b]
               PROVE  a = b
    BY <1>2 DEF IsInjective
  <2>1. \A i \in 1 .. Len(s) : s[i] # p
    BY <1>2, <1>4 DEF Range
  <2>2. CASE a \in 1 .. Len(s) /\ b \in 1 .. Len(s)
    BY <1>2, <1>4, <2>2 DEF IsInjective
  <2>3. CASE a = Len(s) + 1 \/ b = Len(s) + 1
    BY <1>2, <2>1, <2>3
  <2> QED
    BY <1>2, <2>2, <2>3
<1> QED
  BY <1>1, <1>3, <1>4

\* Taking the head leaves the others, and no second one like it.
LEMMA TailLeavesOthers ==
  ASSUME NEW S, NEW s \in Seq(S), s # <<>>
  PROVE  /\ Head(s) \in S
         /\ Tail(s) \in Seq(S)
         /\ Len(Tail(s)) = Len(s) - 1
         /\ Range(s) = {Head(s)} \cup Range(Tail(s))
         /\ IsInjective(s) => IsInjective(Tail(s)) /\ Head(s) \notin Range(Tail(s))
<1>1. /\ Head(s) \in S
      /\ Tail(s) \in Seq(S)
      /\ Len(Tail(s)) = Len(s) - 1
      /\ \A i \in 1 .. Len(s) - 1 : Tail(s)[i] = s[i + 1]
      /\ Head(s) = s[1]
  OBVIOUS
<1>2. /\ DOMAIN s = 1 .. Len(s)
      /\ DOMAIN Tail(s) = 1 .. Len(s) - 1
      /\ Len(s) \in Nat \ {0}
  <2>1. Len(s) \in Nat \ {0} /\ DOMAIN s = 1 .. Len(s)
    BY EmptySeq, LenProperties
  <2>2. DOMAIN Tail(s) = 1 .. Len(Tail(s))
    BY <1>1, LenProperties
  <2> QED
    BY <1>1, <2>1, <2>2
<1>3. Range(s) = {Head(s)} \cup Range(Tail(s))
  <2>1. ASSUME NEW x \in Range(s) PROVE x \in {Head(s)} \cup Range(Tail(s))
    <3>1. PICK i \in 1 .. Len(s) : x = s[i]
      BY <1>2 DEF Range
    <3>2. CASE i = 1
      BY <1>1, <3>1, <3>2
    <3>3. CASE i # 1
      <4>1. i - 1 \in 1 .. Len(s) - 1 /\ Tail(s)[i - 1] = x
        BY <1>1, <1>2, <3>1, <3>3
      <4> QED
        BY <1>2, <4>1 DEF Range
    <3> QED
      BY <3>2, <3>3
  <2>2. ASSUME NEW x \in Range(Tail(s)) PROVE x \in Range(s)
    <3>1. PICK i \in 1 .. Len(s) - 1 : x = Tail(s)[i]
      BY <1>2 DEF Range
    <3>2. i + 1 \in 1 .. Len(s) /\ x = s[i + 1]
      BY <1>1, <1>2, <3>1
    <3> QED
      BY <1>2, <3>2 DEF Range
  <2>3. Head(s) \in Range(s)
    BY <1>1, <1>2 DEF Range
  <2> QED
    BY <2>1, <2>2, <2>3
<1>4. ASSUME IsInjective(s)
      PROVE  IsInjective(Tail(s)) /\ Head(s) \notin Range(Tail(s))
  <2>1. \A a, b \in 1 .. Len(s) : s[a] = s[b] => a = b
    BY <1>2, <1>4 DEF IsInjective
  <2>2. IsInjective(Tail(s))
    <3> SUFFICES ASSUME NEW a \in 1 .. Len(s) - 1, NEW b \in 1 .. Len(s) - 1,
                        Tail(s)[a] = Tail(s)[b]
                 PROVE  a = b
      BY <1>2 DEF IsInjective
    <3>1. a + 1 \in 1 .. Len(s) /\ b + 1 \in 1 .. Len(s) /\ s[a + 1] = s[b + 1]
      BY <1>1, <1>2
    <3>2. a + 1 = b + 1
      BY <2>1, <3>1
    <3> QED
      BY <3>2
  <2>3. Head(s) \notin Range(Tail(s))
    <3> SUFFICES ASSUME NEW a \in 1 .. Len(s) - 1, Tail(s)[a] = Head(s)
                 PROVE  FALSE
      BY <1>2 DEF Range
    <3>1. a + 1 \in 1 .. Len(s) /\ 1 \in 1 .. Len(s) /\ s[a + 1] = s[1]
      BY <1>1, <1>2
    <3>2. a + 1 = 1
      BY <2>1, <3>1
    <3> QED
      BY <3>2
  <2> QED
    BY <2>2, <2>3
<1> QED
  BY <1>1, <1>3, <1>4

\* The elements of a sequence over S are in S.
LEMMA RangeInSet ==
  ASSUME NEW S, NEW s \in Seq(S)
  PROVE  Range(s) \subseteq S
BY LenProperties, ElementOfSeq DEF Range

(***************************************************************************)
(* Types, and the capacity of the channel.                                 *)
(***************************************************************************)

\* The blocking send keeps the channel within its capacity.
LEMMA SendKeepsTypes ==
  ASSUME TypeOK, NEW p \in recorded, Send(p)
  PROVE  /\ buffer' \in Seq(recorded) /\ senders' \in Seq(recorded)
         /\ Len(buffer') <= Capacity
         /\ senders' # <<>> => Len(buffer') = Capacity
<1>1. /\ buffer \in Seq(recorded) /\ senders \in Seq(recorded)
      /\ Len(buffer) <= Capacity
      /\ senders # <<>> => Len(buffer) = Capacity
      /\ Len(buffer) \in Nat /\ Capacity \in Nat
  BY RecorderAssumption, LenProperties DEF TypeOK
<1>2. CASE Len(buffer) < Capacity /\ buffer' = Append(buffer, p) /\ UNCHANGED senders
  BY <1>1, <1>2, AppendAddsOne
<1>3. CASE Len(buffer) = Capacity /\ senders' = Append(senders, p) /\ UNCHANGED buffer
  BY <1>1, <1>3, AppendAddsOne
<1> QED
  BY <1>2, <1>3 DEF Send

\* What a flush answers leaves the types of what it writes.
LEMMA OutcomeKeepsTypes ==
  ASSUME TypeOK, NEW S \in SUBSET recorded,
         Commits(S) \/ Fails(S) \/ FailsInDoubt(S)
  PROVE  /\ stored' \subseteq recorded
         /\ doubtful' \subseteq recorded
         /\ faults' \in Nat
BY RecorderAssumption DEF TypeOK, Commits, Fails, FailsInDoubt, Fault

\* Every step keeps the types.
LEMMA TypeInductive == TypeOK /\ [Next]_vars => TypeOK'
<1> SUFFICES ASSUME TypeOK, [Next]_vars PROVE TypeOK'
  OBVIOUS
<1>0. /\ buffer \in Seq(recorded) /\ senders \in Seq(recorded) /\ batch \in Seq(recorded)
      /\ overflow \subseteq recorded
      /\ Len(buffer) \in Nat /\ Capacity \in Nat \ {0}
      /\ Len(buffer) <= Capacity
      /\ senders # <<>> => Len(buffer) = Capacity
      /\ Range(batch) \subseteq recorded
      /\ <<>> \in Seq(recorded)
  BY RecorderAssumption, LenProperties, RangeInSet, EmptySeq DEF TypeOK
<1>1. ASSUME NEW p \in Pings, Record(p) PROVE TypeOK'
  <2>1. recorded \subseteq recorded' /\ p \in recorded' /\ recorded' \subseteq Pings
    BY <1>1 DEF Record, TypeOK
  <2>2. /\ buffer \in Seq(recorded') /\ senders \in Seq(recorded')
        /\ batch \in Seq(recorded')
    BY <1>0, <2>1, SeqMonotonic
  <2>3. /\ buffer' \in Seq(recorded') /\ Len(buffer') <= Capacity
        /\ senders' # <<>> => Len(buffer') = Capacity
    <3>1. CASE Len(buffer) < Capacity /\ buffer' = Append(buffer, p)
      <4>1. Append(buffer, p) \in Seq(recorded') /\ Len(Append(buffer, p)) = Len(buffer) + 1
        BY <2>1, <2>2, AppendAddsOne
      <4>2. senders' = <<>>
        BY <1>0, <1>1, <3>1 DEF Record
      <4> QED
        BY <1>0, <3>1, <4>1, <4>2
    <3>2. CASE buffer' = buffer
      BY <1>0, <1>1, <2>2, <3>2 DEF Record
    <3> QED
      BY <1>1, <3>1, <3>2 DEF Record
  <2> QED
    BY <1>1, <2>1, <2>2, <2>3 DEF Record, TypeOK
<1>2. ASSUME NEW p \in Pings, FlushOne(p) PROVE TypeOK'
  <2>1. p \in recorded
    BY <1>0, <1>2 DEF FlushOne
  <2>2. stored' \subseteq recorded /\ doubtful' \subseteq recorded /\ faults' \in Nat
    BY <1>2, <2>1, OutcomeKeepsTypes DEF FlushOne
  <2>3. /\ buffer' \in Seq(recorded) /\ senders' \in Seq(recorded)
        /\ Len(buffer') <= Capacity
        /\ senders' # <<>> => Len(buffer') = Capacity
    BY <1>0, <1>2, <2>1, SendKeepsTypes DEF FlushOne
  <2> QED
    BY <1>2, <2>2, <2>3 DEF FlushOne, TypeOK
<1>3. CASE Receive
  <2>1. /\ Head(buffer) \in recorded /\ Tail(buffer) \in Seq(recorded)
        /\ Len(Tail(buffer)) = Len(buffer) - 1
    BY <1>0, <1>3, TailLeavesOthers DEF Receive
  <2>2. batch' \in Seq(recorded)
    BY <1>0, <1>3, <2>1, AppendAddsOne DEF Receive
  <2>3. /\ buffer' \in Seq(recorded) /\ senders' \in Seq(recorded)
        /\ Len(buffer') <= Capacity
        /\ senders' # <<>> => Len(buffer') = Capacity
    <3>1. CASE senders = <<>> /\ buffer' = Tail(buffer) /\ senders' = senders
      BY <1>0, <2>1, <3>1
    <3>2. CASE /\ senders # <<>> /\ buffer' = Append(Tail(buffer), Head(senders))
               /\ senders' = Tail(senders)
      <4>1. Head(senders) \in recorded /\ Tail(senders) \in Seq(recorded)
        BY <1>0, <3>2, TailLeavesOthers
      <4>2. /\ Append(Tail(buffer), Head(senders)) \in Seq(recorded)
            /\ Len(Append(Tail(buffer), Head(senders))) = Len(buffer)
        BY <1>0, <2>1, <4>1, AppendAddsOne
      <4> QED
        BY <1>0, <3>2, <4>1, <4>2
    <3> QED
      BY <1>3, <3>1, <3>2 DEF Receive
  <2> QED
    BY <1>3, <2>2, <2>3 DEF Receive, TypeOK
<1>4. CASE Tick
  BY <1>4 DEF Tick, memory, TypeOK
<1>5. CASE Flush
  <2>1. stored' \subseteq recorded /\ doubtful' \subseteq recorded /\ faults' \in Nat
    BY <1>0, <1>5, OutcomeKeepsTypes DEF Flush
  <2>2. batch' \in Seq(recorded)
    BY <1>0, <1>5 DEF Flush
  <2> QED
    BY <1>5, <2>1, <2>2 DEF Flush, TypeOK
<1>6. CASE Crash
  BY <1>0, <1>6, EmptySeq DEF Crash, Fault, TypeOK
<1>7. ASSUME NEW m \in Monitors, DeleteMonitor(m) PROVE TypeOK'
  BY <1>7 DEF DeleteMonitor, Fault, memory, TypeOK
<1>8. CASE UNCHANGED vars
  BY <1>8 DEF vars, memory, TypeOK
<1> QED
  BY <1>1, <1>2, <1>3, <1>4, <1>5, <1>6, <1>7, <1>8 DEF Next

\* The channel never holds more than its capacity, senders wait only for a full
\* one, and every variable keeps its type, whatever the capacity and the faults.
THEOREM RecorderTypes == Spec => []TypeOK
<1>1. Init => TypeOK
  BY RecorderAssumption, EmptySeq DEF Init, TypeOK
<1> QED
  BY <1>1, TypeInductive, PTL DEF Spec

(***************************************************************************)
(* Where a ping is.                                                        *)
(***************************************************************************)

\* The blocking send puts one ping, found nowhere, in one place.
LEMMA SendPlacesOne ==
  ASSUME TypeOK, NEW p \in recorded, Send(p)
  PROVE  /\ Range(buffer') \cup Range(senders') = Range(buffer) \cup Range(senders) \cup {p}
         /\ (/\ IsInjective(buffer) /\ IsInjective(senders)
             /\ Range(buffer) \cap Range(senders) = {}
             /\ p \notin Range(buffer) /\ p \notin Range(senders))
            => (/\ IsInjective(buffer') /\ IsInjective(senders')
                /\ Range(buffer') \cap Range(senders') = {})
<1>1. buffer \in Seq(recorded) /\ senders \in Seq(recorded)
  BY DEF TypeOK
<1>2. CASE buffer' = Append(buffer, p) /\ UNCHANGED senders
  BY <1>1, <1>2, AppendAddsOne
<1>3. CASE senders' = Append(senders, p) /\ UNCHANGED buffer
  BY <1>1, <1>3, AppendAddsOne
<1> QED
  BY <1>2, <1>3 DEF Send

\* Receive hands one ping to the batch, and lets at most one sender in.
LEMMA ReceiveMovesOne ==
  ASSUME TypeOK, Receive
  PROVE  /\ Range(batch') = Range(batch) \cup {Head(buffer)}
         /\ Range(buffer) \cup Range(senders)
              = {Head(buffer)} \cup Range(buffer') \cup Range(senders')
         /\ (/\ IsInjective(buffer) /\ IsInjective(senders)
             /\ Range(buffer) \cap Range(senders) = {})
            => (/\ IsInjective(buffer') /\ IsInjective(senders')
                /\ Range(buffer') \cap Range(senders') = {}
                /\ Head(buffer) \notin Range(buffer') \cup Range(senders'))
         /\ (IsInjective(batch) /\ Head(buffer) \notin Range(batch)) => IsInjective(batch')
<1>1. /\ buffer \in Seq(recorded) /\ senders \in Seq(recorded) /\ batch \in Seq(recorded)
      /\ buffer # <<>>
  BY DEF TypeOK, Receive
<1>2. /\ Head(buffer) \in recorded /\ Tail(buffer) \in Seq(recorded)
      /\ Range(buffer) = {Head(buffer)} \cup Range(Tail(buffer))
      /\ IsInjective(buffer)
           => IsInjective(Tail(buffer)) /\ Head(buffer) \notin Range(Tail(buffer))
  BY <1>1, TailLeavesOthers
<1>3. /\ Range(batch') = Range(batch) \cup {Head(buffer)}
      /\ (IsInjective(batch) /\ Head(buffer) \notin Range(batch)) => IsInjective(batch')
  BY <1>1, <1>2, AppendAddsOne DEF Receive
<1>4. CASE senders = <<>> /\ buffer' = Tail(buffer) /\ UNCHANGED senders
  BY <1>2, <1>3, <1>4, EmptyHoldsNothing
<1>5. CASE /\ senders # <<>> /\ buffer' = Append(Tail(buffer), Head(senders))
           /\ senders' = Tail(senders)
  <2>1. /\ Head(senders) \in recorded
        /\ Range(senders) = {Head(senders)} \cup Range(senders')
        /\ IsInjective(senders)
             => IsInjective(senders') /\ Head(senders) \notin Range(senders')
    BY <1>1, <1>5, TailLeavesOthers
  <2>2. /\ Range(buffer') = Range(Tail(buffer)) \cup {Head(senders)}
        /\ (IsInjective(Tail(buffer)) /\ Head(senders) \notin Range(Tail(buffer)))
             => IsInjective(buffer')
    <3>1. \A s \in Seq(recorded), p \in recorded :
            /\ Range(Append(s, p)) = Range(s) \cup {p}
            /\ (IsInjective(s) /\ p \notin Range(s)) => IsInjective(Append(s, p))
      BY AppendAddsOne
    <3>2. buffer' = Append(Tail(buffer), Head(senders))
      BY <1>5
    <3>3. Tail(buffer) \in Seq(recorded) /\ Head(senders) \in recorded
      BY <1>2, <2>1
    <3> QED
      BY <3>1, <3>2, <3>3
  <2> QED
    BY <1>2, <1>3, <2>1, <2>2
<1> QED
  BY <1>3, <1>4, <1>5 DEF Receive

\* Recording adds the ping to what is held.
LEMMA RecordHolds ==
  ASSUME TypeOK, NEW p \in Pings, Record(p)
  PROVE  Held' = Held \cup {p}
<1>1. /\ buffer \in Seq(Pings) /\ p \in Pings
  BY SeqMonotonic DEF TypeOK
<1>2. CASE buffer' = Append(buffer, p) /\ UNCHANGED overflow
  <2>1. Range(buffer') = Range(buffer) \cup {p}
    BY <1>1, <1>2, AppendAddsOne
  <2> QED
    BY <1>2, <2>1 DEF Record, Held
<1>3. CASE overflow' = overflow \cup {p} /\ UNCHANGED buffer
  BY <1>3 DEF Record, Held
<1> QED
  BY <1>2, <1>3 DEF Record

\* Receiving keeps what is held.
LEMMA ReceiveHolds ==
  ASSUME TypeOK, Receive
  PROVE  Held' = Held
<1>1. UNCHANGED overflow
  BY DEF Receive
<1> QED
  BY <1>1, ReceiveMovesOne DEF Held

\* flushOne keeps the ping unless it is written, and no other leaves.
LEMMA FlushOneHolds ==
  ASSUME TypeOK, NEW p \in Pings, FlushOne(p)
  PROVE  \/ Commits({p}) /\ Held' \cup {p} = Held \cup {p}
            /\ UNCHANGED <<buffer, senders, batch>> /\ overflow' = overflow \ {p}
         \/ (Fails({p}) \/ FailsInDoubt({p})) /\ Held' = Held
<1>0. p \in recorded /\ p \in overflow /\ overflow' = overflow \ {p} /\ UNCHANGED batch
  BY DEF FlushOne, TypeOK
<1>1. CASE Commits({p}) /\ UNCHANGED <<buffer, senders>>
  BY <1>0, <1>1 DEF Held
<1>2. CASE (Fails({p}) \/ FailsInDoubt({p})) /\ Send(p)
  <2>1. Range(buffer') \cup Range(senders') = Range(buffer) \cup Range(senders) \cup {p}
    BY <1>0, <1>2, SendPlacesOne
  <2>2. Held' = Held
    BY <1>0, <2>1 DEF Held
  <2> QED
    BY <1>2, <2>2
<1> QED
  BY <1>1, <1>2 DEF FlushOne

\* flush keeps the batch unless all of it is written.
LEMMA FlushHolds ==
  ASSUME Flush
  PROVE  \/ Commits(Range(batch)) /\ Held' \cup Range(batch) = Held
            /\ Range(batch') = {} /\ IsInjective(batch')
         \/ (Fails(Range(batch)) \/ FailsInDoubt(Range(batch))) /\ Held' = Held
            /\ UNCHANGED batch
BY EmptyHoldsNothing DEF Flush, Held

\* Every step of the system keeps each ping in one place.
LEMMA OnePlaceInductive == TypeOK /\ OnePlace /\ [Next]_vars => OnePlace'
<1> SUFFICES ASSUME TypeOK, OnePlace, [Next]_vars PROVE OnePlace'
  OBVIOUS
<1>0. /\ buffer \in Seq(recorded) /\ senders \in Seq(recorded) /\ batch \in Seq(recorded)
      /\ Range(buffer) \subseteq recorded /\ Range(senders) \subseteq recorded
      /\ Range(batch) \subseteq recorded /\ overflow \subseteq recorded
      /\ stored \subseteq recorded /\ recorded \subseteq Pings
  BY RangeInSet DEF TypeOK
<1>a. /\ IsInjective(buffer) /\ IsInjective(senders) /\ IsInjective(batch)
      /\ Range(buffer) \cap Range(senders) = {}
      /\ Range(buffer) \cap Range(batch) = {}
      /\ Range(senders) \cap Range(batch) = {}
      /\ overflow \cap (Range(buffer) \cup Range(senders) \cup Range(batch)) = {}
      /\ Held \cap stored \subseteq doubtful
  BY DEF OnePlace
<1>1. ASSUME NEW p \in Pings, Record(p) PROVE OnePlace'
  <2>1. /\ p \notin Range(buffer) /\ p \notin Range(senders) /\ p \notin Range(batch)
        /\ p \notin overflow /\ p \notin stored
    BY <1>0, <1>1 DEF Record
  <2>2. Held' \cap stored' \subseteq doubtful'
    BY <1>a, <1>1, <2>1, RecordHolds DEF Record
  <2>3. UNCHANGED <<senders, batch>>
    BY <1>1 DEF Record
  <2>4. CASE buffer' = Append(buffer, p) /\ UNCHANGED overflow
    <3>1. buffer \in Seq(Pings)
      BY <1>0, SeqMonotonic
    <3>2. Range(buffer') = Range(buffer) \cup {p} /\ IsInjective(buffer')
      BY <1>a, <2>1, <2>4, <3>1, AppendAddsOne
    <3> QED
      BY <1>a, <2>1, <2>2, <2>3, <2>4, <3>2 DEF OnePlace
  <2>5. CASE overflow' = overflow \cup {p} /\ UNCHANGED buffer
    BY <1>a, <2>1, <2>2, <2>3, <2>5 DEF OnePlace
  <2> QED
    BY <1>1, <2>4, <2>5 DEF Record
<1>2. ASSUME NEW p \in Pings, FlushOne(p) PROVE OnePlace'
  <2>0. /\ p \in overflow /\ p \in recorded /\ overflow' = overflow \ {p} /\ UNCHANGED batch
        /\ p \notin Range(buffer) /\ p \notin Range(senders) /\ p \notin Range(batch)
    BY <1>0, <1>a, <1>2 DEF FlushOne
  <2>1. CASE Commits({p}) /\ UNCHANGED <<buffer, senders>>
    <3>1. Held' = Held \ {p} /\ stored' = stored \cup {p} /\ UNCHANGED doubtful
      BY <2>0, <2>1 DEF Held, Commits
    <3> QED
      BY <1>a, <2>0, <2>1, <3>1 DEF OnePlace
  <2>2. CASE (Fails({p}) \/ FailsInDoubt({p})) /\ Send(p)
    <3>1. /\ Range(buffer') \cup Range(senders') = Range(buffer) \cup Range(senders) \cup {p}
          /\ IsInjective(buffer') /\ IsInjective(senders')
          /\ Range(buffer') \cap Range(senders') = {}
      BY <1>a, <2>0, <2>2, SendPlacesOne
    <3>2. Held' = Held
      BY <2>0, <3>1 DEF Held
    <3>3. /\ stored' \subseteq stored \cup {p}
          /\ doubtful \subseteq doubtful'
          /\ stored' = stored \/ p \in doubtful'
      BY <2>2 DEF Fails, FailsInDoubt
    <3>4. Held' \cap stored' \subseteq doubtful'
      BY <1>a, <3>2, <3>3
    <3> QED
      BY <1>a, <2>0, <3>1, <3>4 DEF OnePlace
  <2> QED
    BY <1>2, <2>1, <2>2 DEF FlushOne
<1>3. CASE Receive
  <2>0. UNCHANGED <<overflow, stored, doubtful>>
    BY <1>3 DEF Receive
  <2>1. Head(buffer) \in Range(buffer)
    BY <1>0, <1>3, TailLeavesOthers DEF Receive
  <2>2. Head(buffer) \notin Range(batch)
    BY <1>a, <2>1
  <2>3. Held' \cap stored' \subseteq doubtful'
    BY <1>a, <1>3, <2>0, ReceiveHolds
  <2> QED
    BY <1>a, <1>3, <2>0, <2>1, <2>2, <2>3, ReceiveMovesOne DEF OnePlace
<1>4. CASE Tick
  BY <1>a, <1>4 DEF Tick, memory, OnePlace, Held
<1>5. CASE Flush
  <2>0. UNCHANGED <<buffer, senders, overflow>>
    BY <1>5 DEF Flush
  <2>1. CASE Commits(Range(batch)) /\ batch' = <<>>
    <3>1. Held' = Held \ Range(batch)
      BY <1>a, <2>0, <2>1, EmptyHoldsNothing DEF Held
    <3>2. stored' = stored \cup Range(batch) /\ UNCHANGED doubtful
      BY <2>1 DEF Commits
    <3>3. Held' \cap stored' \subseteq doubtful'
      BY <1>a, <3>1, <3>2
    <3> QED
      BY <1>a, <2>0, <2>1, <3>3, EmptyHoldsNothing DEF OnePlace
  <2>2. CASE (Fails(Range(batch)) \/ FailsInDoubt(Range(batch))) /\ UNCHANGED batch
    <3>1. Held' = Held
      BY <2>0, <2>2 DEF Held
    <3>2. /\ doubtful \subseteq doubtful'
          /\ stored' \subseteq stored \cup doubtful'
      BY <2>2 DEF Fails, FailsInDoubt
    <3>3. Held' \cap stored' \subseteq doubtful'
      BY <1>a, <3>1, <3>2
    <3> QED
      BY <1>a, <2>0, <2>2, <3>3 DEF OnePlace
  <2> QED
    BY <1>5, <2>1, <2>2 DEF Flush
<1>6. CASE Crash
  BY <1>6, EmptyHoldsNothing DEF Crash, OnePlace, Held
<1>7. ASSUME NEW m \in Monitors, DeleteMonitor(m) PROVE OnePlace'
  <2>1. /\ UNCHANGED <<buffer, senders, overflow, batch, doubtful>>
        /\ stored' \subseteq stored
    BY <1>7 DEF DeleteMonitor, memory
  <2> QED
    BY <1>a, <2>1 DEF OnePlace, Held
<1>8. CASE UNCHANGED vars
  BY <1>a, <1>8 DEF vars, memory, OnePlace, Held
<1> QED
  BY <1>1, <1>2, <1>3, <1>4, <1>5, <1>6, <1>7, <1>8 DEF Next

\* The channel, the waiting senders, the goroutines and the batch never hold one
\* ping twice, and none that is stored but those whose commit went unanswered.
THEOREM PingsInOnePlace == Spec => []OnePlace
<1>1. Init => OnePlace
  BY EmptyHoldsNothing DEF Init, OnePlace, Held
<1> QED
  BY <1>1, RecorderTypes, OnePlaceInductive, PTL DEF Spec

\* A ping leaves the recorder for the database only, or dies with the process.
THEOREM PingsNeverDropped == Spec => NeverDropped
<1> DEFINE Kept == (faults' = faults \/ Held' # {}) => Held \subseteq (Held' \cup stored')
<1>1. TypeOK /\ [Next]_vars => [Kept]_vars
  <2> SUFFICES ASSUME TypeOK, Next PROVE Kept
    OBVIOUS
  <2>1. ASSUME NEW p \in Pings, Record(p) PROVE Kept
    BY <2>1, RecordHolds
  <2>2. ASSUME NEW p \in Pings, FlushOne(p) PROVE Kept
    BY <2>2, FlushOneHolds DEF Commits
  <2>3. CASE Receive
    BY <2>3, ReceiveHolds
  <2>4. CASE Tick
    BY <2>4 DEF Tick, memory, Held
  <2>5. CASE Flush
    BY <2>5, FlushHolds DEF Commits
  <2>6. CASE Crash
    <3>1. Held' = {}
      BY <2>6, EmptyHoldsNothing DEF Crash, Held
    <3>2. faults' # faults
      BY <2>6 DEF Crash, Fault, TypeOK
    <3> QED
      BY <3>1, <3>2
  <2>7. ASSUME NEW m \in Monitors, DeleteMonitor(m) PROVE Kept
    BY <2>7 DEF DeleteMonitor, memory, Held
  <2> QED
    BY <2>1, <2>2, <2>3, <2>4, <2>5, <2>6, <2>7 DEF Next
<1> QED
  BY <1>1, RecorderTypes, PTL DEF Spec, NeverDropped

(***************************************************************************)
(* The recorder implements PingLog.                                        *)
(***************************************************************************)

\* What PingLog calls pending.
Unwritten == {p \in Held : MonitorOf[p] \in live /\ p \notin stored}

\* A flush of pings the recorder holds stores them, or changes nothing.
LEMMA FlushRefines ==
  ASSUME NEW S \in SUBSET Held, UNCHANGED <<live, recorded>>,
         \/ Commits(S) /\ Held' \cup S = Held
         \/ (Fails(S) \/ FailsInDoubt(S)) /\ Held' = Held
  PROVE  [Promise!Next]_Promise!vars
<1>1. CASE Insertable(S) /\ stored' = stored \cup S /\ Held' \cup S = Held \cup S
  <2>1. S \subseteq Unwritten
    BY <1>1 DEF Insertable, Unwritten
  <2>2. Unwritten' = Unwritten \ S
    BY <1>1 DEF Unwritten
  <2>3. CASE S = {}
    BY <1>1, <2>2, <2>3 DEF Promise!vars, Unwritten
  <2>4. CASE S # {}
    <3>1. Promise!Store(S)
      BY <1>1, <2>2, <2>4 DEF Promise!Store, Unwritten
    <3> QED
      BY <2>1, <3>1 DEF Promise!Next, Unwritten
  <2> QED
    BY <2>3, <2>4
<1>2. CASE Fails(S) /\ Held' = Held
  BY <1>2 DEF Fails, Promise!vars
<1> QED
  BY <1>1, <1>2 DEF Commits, FailsInDoubt

\* A worker's recorder does to its pings what PingLog promises and nothing else:
\* each is stored once, or lost with the worker, or gone with its monitor.
THEOREM RecorderImplementsPingLog == Spec => ImplementsPingLog
<1>1. Init => Promise!Init
  BY EmptyHoldsNothing DEF Init, Promise!Init, Held
<1>2. TypeOK /\ [Next]_vars => [Promise!Next]_Promise!vars
  <2> SUFFICES ASSUME TypeOK, [Next]_vars PROVE [Promise!Next]_Promise!vars
    OBVIOUS
  <2>1. ASSUME NEW p \in Pings, Record(p) PROVE [Promise!Next]_Promise!vars
    <3>1. /\ Held' = Held \cup {p} /\ recorded' = recorded \cup {p}
          /\ UNCHANGED <<live, stored>>
          /\ p \notin recorded /\ p \notin stored
      BY <2>1, RecordHolds DEF Record, TypeOK
    <3>2. Unwritten' = IF MonitorOf[p] \in live THEN Unwritten \cup {p} ELSE Unwritten
      BY <3>1 DEF Unwritten
    <3>3. Promise!Accept(p)
      BY <3>1, <3>2 DEF Promise!Accept, Unwritten
    <3> QED
      BY <3>3 DEF Promise!Next
  <2>2. ASSUME NEW p \in Pings, FlushOne(p) PROVE [Promise!Next]_Promise!vars
    <3>1. p \in Held /\ UNCHANGED <<live, recorded>>
      BY <2>2 DEF FlushOne, Held
    <3>2. \/ Commits({p}) /\ Held' \cup {p} = Held
          \/ (Fails({p}) \/ FailsInDoubt({p})) /\ Held' = Held
      BY <2>2, <3>1, FlushOneHolds
    <3> QED
      BY <3>1, <3>2, FlushRefines
  <2>3. CASE Receive
    BY <2>3, ReceiveHolds DEF Receive, Promise!vars
  <2>4. CASE Tick
    BY <2>4 DEF Tick, memory, Held, Promise!vars
  <2>5. CASE Flush
    <3>1. Range(batch) \subseteq Held /\ UNCHANGED <<live, recorded>>
      BY <2>5 DEF Flush, Held
    <3> QED
      BY <2>5, <3>1, FlushHolds, FlushRefines
  <2>6. CASE Crash
    <3>1. Held' = {} /\ UNCHANGED <<live, stored, recorded>>
      BY <2>6, EmptyHoldsNothing DEF Crash, Held
    <3>2. Promise!Lose
      BY <3>1 DEF Promise!Lose
    <3> QED
      BY <3>2 DEF Promise!Next
  <2>7. ASSUME NEW m \in Monitors, DeleteMonitor(m) PROVE [Promise!Next]_Promise!vars
    <3>1. /\ Held' = Held /\ UNCHANGED recorded
          /\ m \in live /\ live' = live \ {m}
          /\ stored' = {p \in stored : MonitorOf[p] # m}
      BY <2>7 DEF DeleteMonitor, memory, Held
    <3>2. stored \subseteq Pings /\ Held \subseteq Pings
      BY RangeInSet DEF TypeOK, Held
    <3>3. stored' = stored \ Promise!Of(m)
      BY <3>1, <3>2 DEF Promise!Of
    <3>4. Unwritten' = Unwritten \ Promise!Of(m)
      BY <3>1, <3>2 DEF Promise!Of, Unwritten
    <3>5. Promise!DeleteMonitor(m)
      BY <3>1, <3>3, <3>4 DEF Promise!DeleteMonitor, Unwritten
    <3> QED
      BY <3>5 DEF Promise!Next
  <2>8. CASE UNCHANGED vars
    BY <2>8 DEF vars, memory, Held, Promise!vars
  <2> QED
    BY <2>1, <2>2, <2>3, <2>4, <2>5, <2>6, <2>7, <2>8 DEF Next
<1> QED
  BY <1>1, <1>2, RecorderTypes, PTL DEF Spec, ImplementsPingLog, Promise!Spec
===============================================================================
