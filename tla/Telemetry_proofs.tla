-------------------------- MODULE Telemetry_proofs --------------------------
(***************************************************************************)
(* Proofs about Telemetry for any queue, any number of rounds and any      *)
(* faults: the type invariant and what a record may contain, however far   *)
(* the event loop falls behind the telemetry task.                         *)
(***************************************************************************)
EXTENDS Telemetry, TLAPS

\* Between two rounds the task stands before the first sensor.
RoundsBeginAtFirst ==
    /\ task # "read" => next = 1
    /\ task = "init" => round = 0

\* No field is from a later round.
NotFromFuture == \A f \in Fields : payload[f] <= round

\* The sensor at position i had its turn in this round.
HadTurn(i) == task \in {"post", "delay"} \/ (task = "read" /\ i < next)

\* A sensor that had its turn in this round left its fields new, or bad.
RoundIsFresh ==
    \A i \in DOMAIN ReadOrder : HadTurn(i) =>
        \A f \in Stores[ReadOrder[i]] : f \in bad \/ payload[f] = round

\* A pending event: what was posted has not gone back since, it was fresh
\* then, and as long as its round lasts the structure is unchanged.
EventInv(e) ==
    /\ \A f \in Fields : e.posted[f] <= payload[f]
    /\ \A f \in Measured : f \in e.bad \/ e.posted[f] >= e.round
    /\ e.round <= round
    /\ e.round = round => task = "delay" /\ e.posted = payload

QueueInv == \A i \in 1..Len(queue) : EventInv(queue[i])

\* A formatted record is at least as new as the last published one.
RecordInv ==
    loop.pc = "publish" =>
        \A f \in RecordFields :
            /\ loop.record.values[f] <= payload[f]
            /\ loop.record.values[f] >= published.values[f]

PublishedInv == \A f \in RecordFields : published.values[f] <= payload[f]

Content == NeverOlderThanPosted /\ OnlyFailedFieldsAreStale /\ RecordIsSnapshot

IInv ==
    /\ TypeOK
    /\ RoundsBeginAtFirst /\ NotFromFuture /\ RoundIsFresh
    /\ QueueInv /\ RecordInv /\ PublishedInv
    /\ Content

\* Every step but a restart, one by one.
Ordinary == \/ InitTelemetry \/ SkipSensor \/ ReadSensor \/ ReadFails
            \/ PostReadings \/ PostOutOfMemory \/ NextRound
            \/ FormatRecord \/ Publish \/ PublishFails \/ UNCHANGED vars

LEMMA Steps == [Next]_vars => Ordinary \/ Restart
  BY DEF Next, TaskStep, LoopStep, Ordinary, InitAborts, ReadAborts, Finished

\* The tables of sensors and fields.
LEMMA Tables ==
    /\ DOMAIN ReadOrder = 1..5 /\ Len(ReadOrder) = 5
    /\ \A i \in 1..5 : ReadOrder[i] \in Sensors
    /\ \A i \in 1..5 : Stores[ReadOrder[i]] \subseteq Fields
    /\ Measured \subseteq Fields /\ RecordFields \subseteq Fields
    /\ \A f \in Measured : \E i \in 1..5 : f \in Stores[ReadOrder[i]]
<1>1. DOMAIN ReadOrder = 1..5 /\ Len(ReadOrder) = 5
  BY DEF ReadOrder
<1>2. Sensors = {"SHT41", "BMP581", "XDB401", "DS18B20", "WindSpeed"}
  BY <1>1 DEF Sensors, ReadOrder
<1>3. \A i \in 1..5 : ReadOrder[i] \in Sensors
  BY <1>1 DEF Sensors
<1>4. \A s \in Sensors : Stores[s] \subseteq Fields
  BY <1>2 DEF Stores, Fields
<1>5. Measured \subseteq Fields
  BY <1>4 DEF Measured
<1>6. RecordFields \subseteq Fields
  BY DEF RecordFields, Fields
<1>7. ASSUME NEW f \in Measured
      PROVE  \E i \in 1..5 : f \in Stores[ReadOrder[i]]
  BY <1>1 DEF Measured, Sensors
<1> QED BY <1>1, <1>3, <1>4, <1>5, <1>6, <1>7

\* The values no round has stored.
LEMMA ZeroTypes ==
    /\ 0 \in Values /\ Zero \in [Fields -> Values]
    /\ NoEvent \in Events /\ NoRecord \in Records
    /\ Waiting \in [pc : {"wait", "publish"}, record : Records, at : Values]
<1>1. 0 \in Values
  BY TelemetryAssumption DEF Values
<1>2. Zero \in [Fields -> Values]
  BY <1>1 DEF Zero
<1>3. NoEvent \in Events
  BY <1>1, <1>2 DEF NoEvent, Event, Events
<1>4. NoRecord \in Records
  BY <1>1, <1>3 DEF NoRecord, Records
<1> QED BY <1>1, <1>2, <1>3, <1>4 DEF Waiting

-----------------------------------------------------------------------------
LEMMA InitTypes == Init => TypeOK
  BY ZeroTypes, Tables, TelemetryAssumption DEF Init, TypeOK

LEMMA RestartTypes == ASSUME TypeOK, Restart PROVE TypeOK'
<1>1. faults' \in 0..MaxFaults
  BY TelemetryAssumption DEF TypeOK, Restart
<1>2. queue' \in Seq(Events) /\ Len(queue') <= QueueSize
  BY TelemetryAssumption DEF Restart
<1>3. next' \in DOMAIN ReadOrder /\ payload' \in [Fields -> Values] /\ round' \in Values
  BY ZeroTypes, Tables DEF Restart
<1>4. /\ loop' \in [pc : {"wait", "publish"}, record : Records, at : Values]
      /\ published' \in Records
  BY ZeroTypes DEF Restart
<1> QED BY <1>1, <1>2, <1>3, <1>4 DEF TypeOK, Restart

\* The steps of both tasks keep the types.
LEMMA OrdinaryTypes == ASSUME TypeOK, Ordinary PROVE TypeOK'
<1> USE DEF TypeOK
<1>0. faults < MaxFaults /\ faults' = faults + 1 => faults' \in 0..MaxFaults
  BY TelemetryAssumption
<1>1. CASE InitTelemetry
  BY <1>1, TelemetryAssumption DEF InitTelemetry, Values
<1>2. ASSUME Advance PROVE task' \in {"read", "post"} \cup {task} /\ next' \in DOMAIN ReadOrder
  BY <1>2, Tables DEF Advance
<1>3. next \in 1..5 /\ Stores[ReadOrder[next]] \subseteq Fields
  BY Tables
<1>4. CASE SkipSensor
  BY <1>2, <1>3, <1>4 DEF SkipSensor
<1>5. CASE ReadSensor
  <2>1. payload' \in [Fields -> Values]
    BY <1>5 DEF ReadSensor
  <2> QED BY <1>2, <1>5, <2>1 DEF ReadSensor
<1>6. CASE ReadFails
  BY <1>0, <1>2, <1>3, <1>6 DEF ReadFails
<1>7. CASE PostReadings
  <2>1. Event(round, payload, bad) \in Events
    BY DEF Event, Events
  <2>2. queue' \in Seq(Events) /\ Len(queue') = Len(queue) + 1
    BY <1>7, <2>1 DEF PostReadings
  <2>3. Len(queue') <= QueueSize
    BY <1>7, <2>2, TelemetryAssumption DEF PostReadings
  <2> QED BY <1>7, <2>2, <2>3 DEF PostReadings
<1>8. CASE PostOutOfMemory
  BY <1>0, <1>8 DEF PostOutOfMemory
<1>9. CASE NextRound
  BY <1>9, TelemetryAssumption DEF NextRound, Values
<1>10. CASE FormatRecord
  <2>1. Formatted \in [RecordFields -> Values]
    BY Tables DEF Formatted
  <2>2. Head(queue) \in Events /\ queue' \in Seq(Events) /\ Len(queue') <= QueueSize
    BY <1>10, TelemetryAssumption DEF FormatRecord
  <2>3. [of |-> Head(queue), values |-> Formatted] \in Records
    BY <2>1, <2>2 DEF Records
  <2>4. loop' \in [pc : {"wait", "publish"}, record : Records, at : Values]
    BY <1>10, <2>3 DEF FormatRecord
  <2> QED BY <1>10, <2>2, <2>4 DEF FormatRecord
<1>11. CASE Publish
  BY <1>11, ZeroTypes DEF Publish
<1>12. CASE PublishFails
  BY <1>0, <1>12, ZeroTypes DEF PublishFails
<1>13. CASE UNCHANGED vars
  BY <1>13 DEF vars
<1> QED BY <1>1, <1>4, <1>5, <1>6, <1>7, <1>8, <1>9, <1>10, <1>11, <1>12, <1>13 DEF Ordinary

-----------------------------------------------------------------------------
RoundInv == RoundsBeginAtFirst /\ NotFromFuture /\ RoundIsFresh

\* Only the telemetry task touches the structure, and only with the number
\* of the current round.
LEMMA PayloadGrows ==
    ASSUME TypeOK, NotFromFuture, Ordinary
    PROVE  /\ \A f \in Fields : payload'[f] >= payload[f]
           /\ payload' # payload => task = "read"
<1> USE DEF TypeOK
<1>1. CASE ReadSensor
  <2>1. ASSUME NEW f \in Fields PROVE payload'[f] >= payload[f]
    <3>1. payload'[f] \in {round, payload[f]}
      BY <1>1 DEF ReadSensor
    <3>2. payload[f] \in Int /\ payload[f] <= round
      BY DEF NotFromFuture, Values
    <3> QED BY <3>1, <3>2
  <2> QED BY <1>1, <2>1 DEF ReadSensor
<1>2. CASE payload' = payload
  <2>1. ASSUME NEW f \in Fields PROVE payload[f] >= payload[f]
    <3>1. payload[f] \in Int
      BY DEF Values
    <3> QED BY <3>1
  <2> QED BY <1>2, <2>1
<1>3. payload' = payload \/ ReadSensor
  BY DEF Ordinary, InitTelemetry, SkipSensor, ReadFails, PostReadings, PostOutOfMemory,
         NextRound, FormatRecord, Publish, PublishFails, vars
<1> QED BY <1>1, <1>2, <1>3

\* A sensor's turn is over: what is known of the sensors before it still
\* holds, and holds of it when its fields are new or bad.
LEMMA TurnOver ==
    ASSUME TypeOK, RoundInv, task = "read", Advance, round' = round,
           bad \subseteq bad',
           \A f \in Fields : payload'[f] \in {payload[f], round},
           \A f \in Stores[ReadOrder[next]] : f \in bad' \/ payload'[f] = round
    PROVE  RoundInv'
<1>1. next \in 1..5
  BY Tables DEF TypeOK
<1>2. RoundsBeginAtFirst'
  BY DEF RoundsBeginAtFirst, Advance
<1>3. NotFromFuture'
  <2>1. ASSUME NEW f \in Fields PROVE payload'[f] <= round
    <3>1. payload[f] <= round /\ round <= round
      BY DEF RoundInv, NotFromFuture, TypeOK, Values
    <3> QED BY <3>1
  <2> QED BY <2>1 DEF NotFromFuture
<1>4. ASSUME NEW i \in 1..5, HadTurn(i)', NEW f \in Stores[ReadOrder[i]]
      PROVE  f \in bad' \/ payload'[f] = round
  <2>1. i = next \/ i < next
    BY <1>1, <1>4, Tables DEF HadTurn, Advance
  <2>2. CASE i = next
    BY <2>2
  <2>3. CASE i < next
    <3>1. f \in bad \/ payload[f] = round
      BY <2>3, Tables DEF RoundInv, RoundIsFresh, HadTurn
    <3>2. f \in Fields
      BY Tables
    <3> QED BY <3>1, <3>2
  <2> QED BY <2>1, <2>2, <2>3
<1>5. RoundIsFresh'
  BY <1>4, Tables DEF RoundIsFresh
<1> QED BY <1>2, <1>3, <1>5 DEF RoundInv

\* What the current round has stored, step by step.
LEMMA RoundStep == ASSUME TypeOK, RoundInv, Ordinary PROVE RoundInv'
<1>1. CASE InitTelemetry
  <2>1. task' = "read" /\ next' = 1 /\ payload' = payload /\ round' = 1 /\ round = 0
    BY <1>1 DEF InitTelemetry, RoundInv, RoundsBeginAtFirst
  <2>2. NotFromFuture'
    BY <2>1 DEF RoundInv, NotFromFuture, TypeOK, Values
  <2> QED BY <2>1, <2>2, Tables
      DEF RoundInv, RoundsBeginAtFirst, RoundIsFresh, HadTurn
<1>2. CASE SkipSensor
  <2>1. \A f \in Fields : payload'[f] \in {payload[f], round}
    BY <1>2 DEF SkipSensor
  <2>2. \A f \in Stores[ReadOrder[next]] : f \in bad'
    BY <1>2 DEF SkipSensor
  <2> QED BY <1>2, <2>1, <2>2, TurnOver DEF SkipSensor
<1>3. CASE ReadSensor
  <2>1. \A f \in Fields : payload'[f] \in {payload[f], round}
    BY <1>3 DEF ReadSensor
  <2>2. \A f \in Stores[ReadOrder[next]] : payload'[f] = round
    BY <1>3, Tables DEF ReadSensor, TypeOK
  <2> QED BY <1>3, <2>1, <2>2, TurnOver DEF ReadSensor
<1>4. CASE ReadFails
  <2>1. \A f \in Fields : payload'[f] \in {payload[f], round}
    BY <1>4 DEF ReadFails
  <2>2. \A f \in Stores[ReadOrder[next]] : f \in bad'
    BY <1>4 DEF ReadFails
  <2> QED BY <1>4, <2>1, <2>2, TurnOver DEF ReadFails
<1>5. CASE PostReadings \/ PostOutOfMemory
  BY <1>5 DEF PostReadings, PostOutOfMemory, RoundInv, RoundsBeginAtFirst, NotFromFuture,
              RoundIsFresh, HadTurn
<1>6. CASE NextRound
  <2>1. task' = "read" /\ next' = 1 /\ payload' = payload /\ round' = round + 1
    BY <1>6 DEF NextRound, RoundInv, RoundsBeginAtFirst
  <2>2. NotFromFuture'
    BY <2>1 DEF RoundInv, NotFromFuture, TypeOK, Values
  <2> QED BY <2>1, <2>2, Tables
      DEF RoundInv, RoundsBeginAtFirst, RoundIsFresh, HadTurn
<1>7. CASE FormatRecord \/ Publish \/ PublishFails \/ UNCHANGED vars
  BY <1>7 DEF FormatRecord, Publish, PublishFails, vars, RoundInv, RoundsBeginAtFirst,
              NotFromFuture, RoundIsFresh, HadTurn
<1> QED BY <1>1, <1>2, <1>3, <1>4, <1>5, <1>6, <1>7 DEF Ordinary

-----------------------------------------------------------------------------
\* A pending event keeps its promise while the structure gets newer and its
\* round is either over or not touched.
LEMMA EventKept ==
    ASSUME NEW e \in Events, TypeOK, TypeOK', EventInv(e),
           \A f \in Fields : payload'[f] >= payload[f],
           round' >= round,
           round' = round /\ task = "delay" => task' = "delay" /\ payload' = payload
    PROVE  EventInv(e)'
<1>1. e.round \in Int /\ round \in Int /\ round' \in Int
  BY DEF TypeOK, Events, Values
<1>2. ASSUME NEW f \in Fields PROVE e.posted[f] <= payload'[f]
  <2>1. e.posted[f] \in Int /\ payload[f] \in Int /\ payload'[f] \in Int
    BY DEF TypeOK, Events, Values
  <2>2. e.posted[f] <= payload[f] /\ payload'[f] >= payload[f]
    BY DEF EventInv
  <2> QED BY <2>1, <2>2
<1>3. e.round <= round
  BY DEF EventInv
<1>4. e.round <= round'
  BY <1>1, <1>3
<1>5. e.round = round' => task' = "delay" /\ e.posted = payload'
  <2>1. e.round = round' => round' = round
    BY <1>1, <1>3
  <2>2. e.round = round => task = "delay" /\ e.posted = payload
    BY DEF EventInv
  <2> QED BY <2>1, <2>2
<1>6. \A f \in Measured : f \in e.bad \/ e.posted[f] >= e.round
  BY DEF EventInv
<1> QED BY <1>2, <1>4, <1>5, <1>6 DEF EventInv

\* A step of any kind lets the structure and the rounds grow, and during the
\* pause between two rounds leaves both alone.
LEMMA Growth ==
    ASSUME TypeOK, RoundInv, Ordinary
    PROVE  /\ \A f \in Fields : payload'[f] >= payload[f]
           /\ round' >= round
           /\ round' = round /\ task = "delay" => task' = "delay" /\ payload' = payload
<1>1. \A f \in Fields : payload'[f] >= payload[f]
  BY PayloadGrows DEF RoundInv
<1>2. round \in Int
  BY DEF TypeOK, Values
<1>3. round' = round \/ round' = round + 1 \/ (round = 0 /\ round' = 1)
  BY DEF Ordinary, InitTelemetry, SkipSensor, ReadSensor, ReadFails, PostReadings,
         PostOutOfMemory, NextRound, FormatRecord, Publish, PublishFails, vars,
         RoundInv, RoundsBeginAtFirst
<1>4. round' >= round
  BY <1>2, <1>3
<1>5. round' = round /\ task = "delay" => task' = "delay" /\ payload' = payload
  BY <1>2 DEF Ordinary, InitTelemetry, SkipSensor, ReadSensor, ReadFails, PostReadings,
         PostOutOfMemory, NextRound, FormatRecord, Publish, PublishFails, vars
<1> QED BY <1>1, <1>4, <1>5

\* The event posted now: every sensor had its turn.
LEMMA PostedEvent ==
    ASSUME NEW e, e.round = round, e.posted = payload, e.bad = bad,
           TypeOK, RoundInv, task = "post", payload' = payload, round' = round, task' = "delay"
    PROVE  EventInv(e)'
<1>1. ASSUME NEW f \in Measured PROVE f \in bad \/ payload[f] >= round
  <2>1. PICK i \in 1..5 : f \in Stores[ReadOrder[i]]
    BY Tables
  <2>2. f \in bad \/ payload[f] = round
    BY <2>1, Tables DEF RoundInv, RoundIsFresh, HadTurn
  <2>3. round \in Int
    BY DEF TypeOK, Values
  <2> QED BY <2>2, <2>3
<1>2. ASSUME NEW f \in Fields PROVE payload[f] <= payload[f]
  <2>1. payload[f] \in Int
    BY DEF TypeOK, Values
  <2> QED BY <2>1
<1>3. round <= round
  BY DEF TypeOK, Values
<1> QED BY <1>1, <1>2, <1>3 DEF EventInv

\* Every pending event keeps its promise.
LEMMA QueueStep ==
    ASSUME TypeOK, TypeOK', RoundInv, QueueInv, Ordinary
    PROVE  QueueInv'
<1>1. ASSUME NEW e \in Events, EventInv(e) PROVE EventInv(e)'
  BY <1>1, EventKept, Growth
<1>2. \A i \in 1..Len(queue) : queue[i] \in Events /\ EventInv(queue[i])
  BY DEF TypeOK, QueueInv
<1>3. CASE PostReadings
  <2>1. Len(queue') = Len(queue) + 1 /\ queue'[Len(queue) + 1] = Event(round, payload, bad)
    BY <1>3 DEF PostReadings, TypeOK
  <2>2. \A i \in 1..Len(queue) : queue'[i] = queue[i]
    BY <1>3 DEF PostReadings, TypeOK
  <2>3. ASSUME NEW i \in 1..Len(queue') PROVE EventInv(queue[i])'
    <3>1. Len(queue) \in Nat
      BY DEF TypeOK
    <3>2. CASE i = Len(queue) + 1
      <4>1. /\ queue'[i].round = round /\ queue'[i].posted = payload /\ queue'[i].bad = bad
            /\ task = "post" /\ payload' = payload /\ round' = round /\ task' = "delay"
        BY <3>2, <2>1, <1>3 DEF Event, PostReadings
      <4>2. \A e : e.round = round /\ e.posted = payload /\ e.bad = bad => EventInv(e)'
        BY <4>1, PostedEvent
      <4> QED BY <4>1, <4>2 DEF EventInv
    <3>3. CASE i \in 1..Len(queue)
      BY <1>1, <1>2, <2>2, <3>3 DEF EventInv
    <3> QED BY <2>1, <3>1, <3>2, <3>3
  <2> QED BY <2>3 DEF QueueInv
<1>4. CASE FormatRecord
  <2>1. Len(queue) \in Nat \ {0} /\ Len(queue') = Len(queue) - 1
    BY <1>4 DEF FormatRecord, TypeOK
  <2>2. \A i \in 1..Len(queue') : i + 1 \in 1..Len(queue) /\ queue'[i] = queue[i + 1]
    BY <1>4, <2>1 DEF FormatRecord, TypeOK
  <2>3. ASSUME NEW i \in 1..Len(queue') PROVE EventInv(queue[i])'
    BY <1>1, <1>2, <2>2 DEF EventInv
  <2> QED BY <2>3 DEF QueueInv
<1>5. CASE queue' = queue
  <2>1. ASSUME NEW i \in 1..Len(queue') PROVE EventInv(queue[i])'
    BY <1>1, <1>2, <1>5 DEF EventInv
  <2> QED BY <2>1 DEF QueueInv
<1>6. PostReadings \/ FormatRecord \/ queue' = queue
  BY DEF Ordinary, InitTelemetry, SkipSensor, ReadSensor, ReadFails, PostOutOfMemory,
         NextRound, Publish, PublishFails, vars
<1> QED BY <1>3, <1>4, <1>5, <1>6

-----------------------------------------------------------------------------
LoopInv == RecordInv /\ PublishedInv /\ Content

\* What a formatted record may contain and what was published before.
LEMMA LoopStepKeeps ==
    ASSUME TypeOK, TypeOK', RoundInv, QueueInv, LoopInv, Ordinary
    PROVE  LoopInv'
<1>1. \A f \in RecordFields : payload'[f] >= payload[f]
  BY Growth, Tables
<1>2. \A f \in RecordFields :
        /\ payload[f] \in Int /\ payload'[f] \in Int
        /\ published.values[f] \in Int /\ loop.record.values[f] \in Int
  BY Tables DEF TypeOK, Records, Values
<1>3. CASE FormatRecord
  <2>1. /\ queue # <<>> /\ loop'.pc = "publish"
        /\ loop'.record.of = Head(queue) /\ loop'.record.values = Formatted
        /\ loop'.at = round /\ payload' = payload /\ published' = published
    BY <1>3 DEF FormatRecord
  <2> DEFINE e == Head(queue)
  <2>2. e \in Events /\ EventInv(e)
    BY <2>1 DEF TypeOK, QueueInv
  <2>3. \A f \in RecordFields : Formatted[f] = payload[f]
    BY DEF Formatted
  <2> HIDE DEF e
  <2>4. NeverOlderThanPosted'
    <3>1. ASSUME NEW f \in RecordFields PROVE payload[f] >= e.posted[f]
      <4>1. e.posted[f] \in Int /\ e.posted[f] <= payload[f]
        BY <2>2, Tables DEF Events, Values, EventInv
      <4> QED BY <4>1, <1>2
    <3> QED BY <2>1, <2>3, <3>1 DEF NeverOlderThanPosted, e
  <2>5. OnlyFailedFieldsAreStale'
    <3>1. ASSUME NEW f \in RecordFields \cap Measured, payload[f] < e.round
          PROVE  f \in e.bad
      <4>1. e.posted[f] \in Int /\ e.round \in Int /\ e.posted[f] <= payload[f]
        BY <2>2, Tables DEF Events, Values, EventInv
      <4>2. f \in e.bad \/ e.posted[f] >= e.round
        BY <2>2 DEF EventInv
      <4> QED BY <3>1, <4>1, <4>2, <1>2
    <3> QED BY <2>1, <2>3, <3>1 DEF OnlyFailedFieldsAreStale, e
  <2>6. RecordIsSnapshot'
    <3>1. round = e.round => e.posted = payload
      BY <2>2 DEF EventInv
    <3> QED BY <2>1, <2>3, <3>1 DEF RecordIsSnapshot, e
  <2>7. RecordInv'
    <3>1. ASSUME NEW f \in RecordFields
          PROVE  payload[f] <= payload[f] /\ payload[f] >= published.values[f]
      BY <1>2 DEF LoopInv, PublishedInv
    <3> QED BY <2>1, <2>3, <3>1 DEF RecordInv
  <2>8. PublishedInv'
    BY <2>1 DEF LoopInv, PublishedInv
  <2> QED BY <2>4, <2>5, <2>6, <2>7, <2>8 DEF LoopInv, Content
<1>4. CASE Publish
  <2>1. loop'.pc = "wait" /\ published' = loop.record /\ payload' = payload /\ loop.pc = "publish"
    BY <1>4 DEF Publish, Waiting
  <2>2. PublishedInv'
    BY <2>1 DEF LoopInv, RecordInv, PublishedInv
  <2>3. RecordInv' /\ Content'
    BY <2>1 DEF RecordInv, Content, NeverOlderThanPosted, OnlyFailedFieldsAreStale,
                RecordIsSnapshot
  <2> QED BY <2>2, <2>3 DEF LoopInv
<1>5. CASE PublishFails
  <2>1. loop'.pc = "wait" /\ published' = published /\ payload' = payload
    BY <1>5 DEF PublishFails, Waiting
  <2>2. PublishedInv'
    BY <2>1 DEF LoopInv, PublishedInv
  <2>3. RecordInv' /\ Content'
    BY <2>1 DEF RecordInv, Content, NeverOlderThanPosted, OnlyFailedFieldsAreStale,
                RecordIsSnapshot
  <2> QED BY <2>2, <2>3 DEF LoopInv
<1>6. CASE loop' = loop /\ published' = published
  <2>1. Content'
    BY <1>6 DEF LoopInv, Content, NeverOlderThanPosted, OnlyFailedFieldsAreStale,
                RecordIsSnapshot
  <2>2. PublishedInv'
    BY <1>1, <1>2, <1>6 DEF LoopInv, PublishedInv
  <2>3. RecordInv'
    BY <1>1, <1>2, <1>6 DEF LoopInv, RecordInv
  <2> QED BY <2>1, <2>2, <2>3 DEF LoopInv
<1>7. FormatRecord \/ Publish \/ PublishFails \/ (loop' = loop /\ published' = published)
  BY DEF Ordinary, InitTelemetry, SkipSensor, ReadSensor, ReadFails, PostReadings,
         PostOutOfMemory, NextRound, vars
<1> QED BY <1>3, <1>4, <1>5, <1>6, <1>7

\* A state in which nothing was read since the start.
Fresh ==
    /\ payload = Zero /\ round = 0 /\ task = "init" /\ next = 1
    /\ queue = <<>> /\ loop = Waiting /\ published = NoRecord

LEMMA FreshInv == Fresh => RoundInv /\ QueueInv /\ LoopInv
<1> SUFFICES ASSUME Fresh PROVE RoundInv /\ QueueInv /\ LoopInv
  OBVIOUS
<1>1. RoundInv
  BY DEF Fresh, RoundInv, RoundsBeginAtFirst, NotFromFuture, RoundIsFresh, HadTurn, Zero
<1>2. QueueInv
  BY DEF Fresh, QueueInv
<1>3. loop.pc = "wait"
  BY DEF Fresh, Waiting
<1>4. RecordInv /\ Content
  BY <1>3 DEF RecordInv, Content, NeverOlderThanPosted, OnlyFailedFieldsAreStale,
              RecordIsSnapshot
<1>5. PublishedInv
  BY Tables DEF Fresh, PublishedInv, NoRecord, Zero
<1> QED BY <1>1, <1>2, <1>4, <1>5 DEF LoopInv

LEMMA InvParts == IInv <=> TypeOK /\ RoundInv /\ QueueInv /\ LoopInv
  BY DEF IInv, RoundInv, LoopInv

LEMMA InitIInv == Init => IInv
  BY InitTypes, FreshInv, InvParts DEF Init, Fresh

\* The invariant is inductive.
LEMMA NextIInv == ASSUME IInv, [Next]_vars PROVE IInv'
<1>1. TypeOK /\ RoundInv /\ QueueInv /\ LoopInv
  BY InvParts
<1>2. CASE Restart
  <2>1. Fresh'
    BY <1>2 DEF Restart, Fresh
  <2>2. RoundInv' /\ QueueInv' /\ LoopInv'
    BY <2>1, FreshInv, PTL
  <2>3. TypeOK'
    BY <1>1, <1>2, RestartTypes
  <2> QED BY <2>2, <2>3, InvParts, PTL
<1>3. CASE Ordinary
  <2>1. TypeOK'
    BY <1>1, <1>3, OrdinaryTypes
  <2>2. RoundInv'
    BY <1>1, <1>3, RoundStep
  <2>3. QueueInv'
    BY <1>1, <1>3, <2>1, QueueStep
  <2>4. LoopInv'
    BY <1>1, <1>3, <2>1, LoopStepKeeps
  <2> QED BY <2>1, <2>2, <2>3, <2>4, InvParts, PTL
<1> QED BY <1>2, <1>3, Steps

LEMMA Invariant == Spec => []IInv
<1>1. IInv /\ [Next]_vars => IInv'
  BY NextIInv
<1> QED BY InitIInv, <1>1, PTL DEF Spec

-----------------------------------------------------------------------------
\* Types, for every queue size, number of rounds and number of faults.
THEOREM TypeCorrect == Spec => []TypeOK
<1>1. IInv => TypeOK
  BY DEF IInv
<1> QED BY Invariant, <1>1, PTL

\* A record is never older than the event that asked for it, however late
\* the event loop reads the telemetry task's structure.
THEOREM LateRecords == Spec => []NeverOlderThanPosted
<1>1. IInv => NeverOlderThanPosted
  BY DEF IInv, Content
<1> QED BY Invariant, <1>1, PTL

\* A missing or failing sensor does not hold back the fields of the others.
THEOREM OthersStayFresh == Spec => []OnlyFailedFieldsAreStale
<1>1. IInv => OnlyFailedFieldsAreStale
  BY DEF IInv, Content
<1> QED BY Invariant, <1>1, PTL

\* A record formatted before the next round begins is what was posted.
THEOREM Snapshots == Spec => []RecordIsSnapshot
<1>1. IInv => RecordIsSnapshot
  BY DEF IInv, Content
<1> QED BY Invariant, <1>1, PTL

\* Published readings never go back to an older one between two restarts.
THEOREM Monotone == Spec => ReadingsNeverGoBack
<1> DEFINE Forward == round' >= round =>
              \A f \in RecordFields : published'.values[f] >= published.values[f]
<1>1. ASSUME IInv, [Next]_vars PROVE Forward
  <2>1. TypeOK /\ RoundInv /\ QueueInv /\ LoopInv
    BY <1>1, InvParts
  <2>2. \A f \in RecordFields : published.values[f] \in Int
    BY <2>1 DEF TypeOK, Records, Values
  <2>3. CASE Restart
    <3>1. ASSUME round' >= round, NEW f \in RecordFields
          PROVE  published'.values[f] >= published.values[f]
      <4>1. round = 0
        BY <2>1, <2>3, <3>1 DEF Restart, TypeOK, Values
      <4>2. payload[f] \in Int /\ payload[f] <= 0
        BY <2>1, <4>1, Tables DEF TypeOK, Values, RoundInv, NotFromFuture
      <4>3. published.values[f] <= 0
        BY <2>1, <2>2, <4>2 DEF LoopInv, PublishedInv
      <4>4. published'.values[f] = 0
        BY <2>3 DEF Restart, NoRecord
      <4> QED BY <2>2, <4>3, <4>4
    <3> QED BY <3>1
  <2>4. CASE Publish
    BY <2>1, <2>4 DEF Publish, LoopInv, RecordInv
  <2>5. CASE published' = published
    BY <2>2, <2>5
  <2>6. Restart \/ Publish \/ published' = published
    BY <1>1, Steps DEF Ordinary, InitTelemetry, SkipSensor, ReadSensor, ReadFails, PostReadings,
           PostOutOfMemory, NextRound, FormatRecord, PublishFails, vars
  <2> QED BY <2>3, <2>4, <2>5, <2>6
<1>2. IInv /\ [Next]_vars => [Forward]_vars
  BY <1>1
<1> QED BY Invariant, <1>2, PTL DEF Spec, ReadingsNeverGoBack
=============================================================================
