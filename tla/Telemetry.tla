----------------------------- MODULE Telemetry -----------------------------
(***************************************************************************)
(* Telemetry: init_telemetry probes and initializes the sensors, the       *)
(* telemetry task (telemetry.cpp) reads them one after the other into one  *)
(* structure on its stack and posts an event with a POINTER to it, and the *)
(* default event loop task (event_handler.cpp) formats the fields it finds *)
(* there when the event's turn comes and publishes the record.             *)
(*                                                                         *)
(* A measured value is abstracted to the number of the round of the task's *)
(* loop that stored it; 0 is the initial value.  On the one core the event *)
(* loop task has the higher priority, so the telemetry task stores nothing *)
(* while a record is being formatted.                                      *)
(***************************************************************************)
EXTENDS Integers, Sequences

CONSTANTS
    QueueSize,   \* CONFIG_ESP_SYSTEM_EVENT_QUEUE_SIZE
    MaxRounds,   \* bound: rounds of the telemetry task between restarts
    MaxFaults    \* bound: failed reads, failed allocations, lost records

ASSUME TelemetryAssumption ==
    /\ QueueSize \in Nat \ {0}
    /\ MaxRounds \in Nat
    /\ MaxFaults \in Nat

VARIABLES
    ready,      \* sensors whose initialized_ flag is set
    payload,    \* telemetryPayload on the telemetry task's stack
    round,      \* number of the current round
    task,       \* the telemetry task: "init", "read", "post" or "delay"
    next,       \* position of the next sensor to read in this round
    bad,        \* history: fields not measured in this round
    queue,      \* events of the default event loop
    loop,       \* the event loop task: waiting, or inside mqtt_publish
    published,  \* the last record handed to the MQTT client
    faults      \* number of faults so far

vars == <<ready, payload, round, task, next, bad, queue, loop, published, faults>>

-----------------------------------------------------------------------------
\* The calls of cbTelemetryTask, in order.
ReadOrder == <<"SHT41", "BMP581", "XDB401", "DS18B20", "WindSpeed">>
Sensors == {ReadOrder[i] : i \in DOMAIN ReadOrder}

Fields == {"air_temperature", "air_humidity", "air_pressure", "water_pressure",
           "soile_temperature", "solar_level", "wind_speed"}

\* The fields of TelemetryData each sensor's read() stores.
Stores == [SHT41     |-> {"air_temperature", "air_humidity"},
           BMP581    |-> {"air_pressure"},
           XDB401    |-> {"water_pressure"},
           DS18B20   |-> {"soile_temperature"},
           WindSpeed |-> {"wind_speed"}]

Measured == UNION {Stores[s] : s \in Sensors}

\* The arguments of the snprintf that formats a record.
RecordFields == {"air_temperature", "air_humidity", "air_pressure",
                 "soile_temperature", "wind_speed", "solar_level"}

Zero == [f \in Fields |-> 0]

\* An event carries the address of telemetryPayload only. What the structure
\* held when the event was posted is history, and so is the round in which a
\* record was formatted.
Event(r, p, b) == [round |-> r, posted |-> p, bad |-> b]
NoEvent == Event(0, Zero, {})
NoRecord == [of |-> NoEvent, values |-> [f \in RecordFields |-> 0]]

Waiting == [pc |-> "wait", record |-> NoRecord, at |-> 0]

Init ==
    /\ ready = {}
    /\ payload = Zero
    /\ round = 0
    /\ task = "init"
    /\ next = 1
    /\ bad = {}
    /\ queue = <<>>
    /\ loop = Waiting
    /\ published = NoRecord
    /\ faults = 0

\* The controller restarts: nothing of this part is kept.
Restart ==
    /\ faults < MaxFaults
    /\ faults' = faults + 1
    /\ ready' = {} /\ payload' = Zero /\ round' = 0
    /\ task' = "init" /\ next' = 1 /\ bad' = {}
    /\ queue' = <<>> /\ loop' = Waiting /\ published' = NoRecord

-----------------------------------------------------------------------------
\* init_telemetry and start_telemetry: a sensor that does not answer its
\* probe, or whose init fails, stays uninitialized; ESP_OK is returned anyway.
InitTelemetry ==
    /\ task = "init"
    /\ MaxRounds > 0
    /\ ready' \in SUBSET Sensors
    /\ task' = "read"
    /\ round' = 1
    /\ UNCHANGED <<payload, next, bad, queue, loop, published, faults>>

\* The ESP_ERROR_CHECKs of init_telemetry and of the sensors' init() abort, as
\* when the SHT41 answered the probe but cannot be initialized.
InitAborts ==
    /\ task = "init"
    /\ Restart

Advance == IF next = Len(ReadOrder)
           THEN task' = "post" /\ next' = 1
           ELSE next' = next + 1 /\ UNCHANGED task

\* read() of a sensor that is not initialized returns at once.
SkipSensor ==
    /\ task = "read"
    /\ ReadOrder[next] \notin ready
    /\ bad' = bad \cup Stores[ReadOrder[next]]
    /\ Advance
    /\ UNCHANGED <<ready, payload, round, queue, loop, published, faults>>

ReadSensor ==
    /\ task = "read"
    /\ ReadOrder[next] \in ready
    /\ payload' = [f \in Fields |->
                     IF f \in Stores[ReadOrder[next]] THEN round ELSE payload[f]]
    /\ Advance
    /\ UNCHANGED <<ready, round, bad, queue, loop, published, faults>>

\* Mutant: a failed read ends the round and the sensors after it are skipped.
ReadFailsEndsRound ==
    /\ task = "read"
    /\ ReadOrder[next] \in ready \ {"XDB401"}
    /\ faults < MaxFaults
    /\ faults' = faults + 1
    /\ bad' = bad \cup Stores[ReadOrder[next]]
    /\ task' = "post" /\ next' = 1
    /\ UNCHANGED <<ready, payload, round, queue, loop, published>>

\* Mutant: a failed read() stores zero in its fields.
ReadFailsZeroes ==
    /\ task = "read"
    /\ ReadOrder[next] \in ready \ {"XDB401"}
    /\ faults < MaxFaults
    /\ faults' = faults + 1
    /\ payload' = [f \in Fields |->
                     IF f \in Stores[ReadOrder[next]] THEN 0 ELSE payload[f]]
    /\ bad' = bad \cup Stores[ReadOrder[next]]
    /\ Advance
    /\ UNCHANGED <<ready, round, queue, loop, published>>

\* A failed read() leaves its field as it was; the result is not looked at.
ReadFails ==
    /\ task = "read"
    /\ ReadOrder[next] \in ready \ {"XDB401"}
    /\ faults < MaxFaults
    /\ faults' = faults + 1
    /\ bad' = bad \cup Stores[ReadOrder[next]]
    /\ Advance
    /\ UNCHANGED <<ready, payload, round, queue, loop, published>>

\* SensorXDB4xx::read wraps its ADC calls in ESP_ERROR_CHECK.
ReadAborts ==
    /\ task = "read"
    /\ ReadOrder[next] = "XDB401" /\ "XDB401" \in ready
    /\ Restart

\* Mutant: the post does not wait and drops the event when the queue is full.
PostDropsWhenFull ==
    /\ task = "post"
    /\ queue' = IF Len(queue) < QueueSize
                THEN Append(queue, Event(round, payload, bad)) ELSE queue
    /\ task' = "delay"
    /\ UNCHANGED <<ready, payload, round, next, bad, loop, published, faults>>

\* Mutant: a post does not respect the size of the queue.
PostOverfills ==
    /\ task = "post"
    /\ queue' = Append(queue, Event(round, payload, bad))
    /\ task' = "delay"
    /\ UNCHANGED <<ready, payload, round, next, bad, loop, published, faults>>

\* Mutant: the task reads on in the same round while the event waits.
PostAndReadOn ==
    /\ task = "post"
    /\ Len(queue) < QueueSize
    /\ queue' = Append(queue, Event(round, payload, bad))
    /\ task' = "read"
    /\ UNCHANGED <<ready, payload, round, next, bad, loop, published, faults>>

\* esp_event_post(..., portMAX_DELAY): blocks while the queue is full.
PostReadings ==
    /\ task = "post"
    /\ Len(queue) < QueueSize
    /\ queue' = Append(queue, Event(round, payload, bad))
    /\ task' = "delay"
    /\ UNCHANGED <<ready, payload, round, next, bad, loop, published, faults>>

\* esp_event_post cannot allocate its copy of the event; the result is
\* ignored.
PostOutOfMemory ==
    /\ task = "post"
    /\ faults < MaxFaults
    /\ faults' = faults + 1
    /\ task' = "delay"
    /\ UNCHANGED <<ready, payload, round, next, bad, queue, loop, published>>

\* Mutant: each round begins with an empty structure.
NextRoundClears ==
    /\ task = "delay"
    /\ round < MaxRounds
    /\ round' = round + 1
    /\ task' = "read"
    /\ payload' = Zero
    /\ bad' = {}
    /\ UNCHANGED <<ready, next, queue, loop, published, faults>>

\* vTaskDelay(TASK_DELAY) is over and the next round begins in the same
\* structure.
NextRound ==
    /\ task = "delay"
    /\ round < MaxRounds
    /\ round' = round + 1
    /\ task' = "read"
    /\ bad' = {}
    /\ UNCHANGED <<ready, payload, next, queue, loop, published, faults>>

-----------------------------------------------------------------------------
\* The fields snprintf finds at the event's address.
Formatted == [f \in RecordFields |-> payload[f]]

\* cbCommonEventHandler, COMMON_EVENT_UPDATED_SENSOR: format the record and
\* call mqtt_publish, which may wait for the MQTT client.
FormatRecord ==
    /\ loop.pc = "wait"
    /\ queue # <<>>
    /\ queue' = Tail(queue)
    /\ loop' = [pc |-> "publish",
                record |-> [of |-> Head(queue), values |-> Formatted],
                at |-> round]
    /\ UNCHANGED <<ready, payload, round, task, next, bad, published, faults>>

Publish ==
    /\ loop.pc = "publish"
    /\ published' = loop.record
    /\ loop' = Waiting
    /\ UNCHANGED <<ready, payload, round, task, next, bad, queue, faults>>

\* esp_mqtt_client_publish returns an error; the record is lost.
PublishFails ==
    /\ loop.pc = "publish"
    /\ faults < MaxFaults
    /\ faults' = faults + 1
    /\ loop' = Waiting
    /\ UNCHANGED <<ready, payload, round, task, next, bad, queue, published>>

-----------------------------------------------------------------------------
TaskStep == \/ InitTelemetry \/ InitAborts
            \/ SkipSensor \/ ReadSensor \/ ReadFails \/ ReadAborts
            \/ PostReadings \/ PostOutOfMemory
            \/ NextRound
LoopStep == FormatRecord \/ Publish \/ PublishFails

\* The bound on rounds is reached and everything posted was handled.
Finished ==
    /\ task = "delay" /\ round = MaxRounds
    /\ queue = <<>> /\ loop = Waiting
    /\ UNCHANGED vars

Next == TaskStep \/ LoopStep \/ Finished

\* Both tasks are scheduled and a call that can return does.
Spec == Init /\ [][Next]_vars /\ WF_vars(TaskStep) /\ WF_vars(LoopStep)

-----------------------------------------------------------------------------
Values == 0..MaxRounds
Events == [round : Values, posted : [Fields -> Values], bad : SUBSET Fields]
Records == [of : Events, values : [RecordFields -> Values]]

\* Type invariant of the telemetry path.
TypeOK ==
    /\ ready \subseteq Sensors
    /\ payload \in [Fields -> Values]
    /\ round \in Values
    /\ task \in {"init", "read", "post", "delay"}
    /\ next \in DOMAIN ReadOrder
    /\ bad \subseteq Fields
    /\ queue \in Seq(Events)
    /\ Len(queue) <= QueueSize
    /\ loop \in [pc : {"wait", "publish"}, record : Records, at : Values]
    /\ published \in Records
    /\ faults \in 0..MaxFaults

\* However late an event is handled, no field of its record is older than it
\* was when the event was posted.
NeverOlderThanPosted ==
    loop.pc = "publish" =>
        \A f \in RecordFields :
            loop.record.values[f] >= loop.record.of.posted[f]

\* A measured field of a record is from the event's round or later, unless its
\* own sensor is missing or failed in that round: one bad sensor does not hold
\* back the readings of the others.
OnlyFailedFieldsAreStale ==
    loop.pc = "publish" =>
        \A f \in RecordFields \cap Measured :
            loop.record.values[f] < loop.record.of.round =>
                f \in loop.record.of.bad

\* In the sequence of published records a field never goes back to an older
\* reading, unless the controller restarted.
ReadingsNeverGoBack ==
    [][round' >= round =>
         \A f \in RecordFields : published'.values[f] >= published.values[f]]_vars

\* A record formatted before the next round began is a snapshot: exactly
\* what the structure held when its event was posted, never a mixture of two
\* rounds, however many events were waiting.
RecordIsSnapshot ==
    (loop.pc = "publish" /\ loop.at = loop.record.of.round) =>
        \A f \in RecordFields :
            loop.record.values[f] = loop.record.of.posted[f]

\* Every round of readings is published, even when the event loop falls
\* behind and the queue is full, unless a fault occurs after it was read.
EveryRoundIsPublished ==
    \A r \in 1..MaxRounds, f \in 0..MaxFaults :
        (task = "post" /\ round = r /\ faults = f)
            ~> (published.of.round = r \/ faults > f)
=============================================================================
