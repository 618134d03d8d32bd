--------------------------- MODULE ConfigDelivery ---------------------------
(***************************************************************************)
(* How a server configuration travels through the controller: the MQTT     *)
(* client hands a message to mqttEventHandler (hmqtt.cpp) in chunks, the   *)
(* handler reassembles it in the one global reassembly_buffer and posts an *)
(* event that carries a POINTER into that buffer, and the default event    *)
(* loop task later hands the pointer to setConfiguration (protocol.cpp),   *)
(* which erases the `config' partition and writes the bytes the pointer    *)
(* refers to by then.                                                      *)
(*                                                                         *)
(* Bytes are abstracted to cells <<n, i>>: the i-th byte of the n-th       *)
(* message the broker began to deliver.                                    *)
(*                                                                         *)
(* The two tasks share one core.  An event waits in the queue while the    *)
(* loop task is blocked in the handler of an earlier one: in mqtt_publish  *)
(* for the client or the network, in esp_wifi_connect for the Wi-Fi task.  *)
(* The flash driver may give up the processor too.  The priorities of the  *)
(* tasks are set outside this code, so nothing is assumed of them: the     *)
(* steps of the two tasks interleave freely.  The erase of the one sector  *)
(* is taken as atomic.                                                     *)
(***************************************************************************)
EXTENDS Integers, Sequences

CONSTANTS
    MaxPayload,     \* MAX_EXPECTED_PAYLOAD_SIZE
    PartitionSize,  \* size of the `config' partition
    MaxChunk,       \* receive buffer of the MQTT client: largest chunk
    MaxLength,      \* longest message the server publishes
    QueueSize,      \* CONFIG_ESP_SYSTEM_EVENT_QUEUE_SIZE
    Paced,          \* TRUE: the server waits until a configuration is stored
    MaxMessages,    \* bound: messages the broker delivers
    MaxFaults,      \* bound: power losses, flash errors, failed allocations
    Junk,           \* content of memory that was never written or was freed
    Erased          \* an erased flash byte

ASSUME SizeAssumption ==
    /\ MaxPayload \in Nat \ {0}
    /\ MaxPayload < 65536
    /\ PartitionSize \in Nat
    /\ MaxChunk \in Nat \ {0}
    /\ MaxLength \in Nat
    /\ QueueSize \in Nat \ {0}
    /\ Paced \in BOOLEAN
    /\ MaxMessages \in Nat
    /\ MaxFaults \in Nat

ASSUME ByteAssumption ==
    /\ Junk # Erased
    /\ Junk \notin Nat \X Nat
    /\ Erased \notin Nat \X Nat

VARIABLES
    session,   \* MQTT session: "down", "connected" or "subscribed"
    sent,      \* history: sent[n] is the length of the n-th message
    incoming,  \* the message being delivered: number and bytes delivered
    total,     \* total_expected_data
    buf,       \* reassembly_buffer: allocation, capacity, size and bytes
    mqtt,      \* the MQTT task: waiting, or inside esp_event_post
    queue,     \* queue of the default event loop: configuration events
    loop,      \* the event loop task and the event it handles
    flash,     \* bytes of the `config' partition
    faults     \* number of faults so far

vars == <<session, sent, incoming, total, buf, mqtt, queue, loop, flash, faults>>

-----------------------------------------------------------------------------
Cells == Nat \X Nat

\* EventData {size, data}: data is the allocation the pointer refers to. The
\* field `of' is history: the message the event was posted for.
EventData == [size : Nat, block : Nat, of : Nat]
NoEvent == [size |-> 0, block |-> 0, of |-> 0]

NoMessage == [id |-> 0, off |-> 0]
Receiving == incoming # NoMessage

\* The bytes an event's pointer refers to now. The vector keeps its storage
\* between messages; storage it gave up for a larger block is free memory.
Pointee(ev) ==
    [i \in 1..MaxPayload |-> IF ev.block = buf.block THEN buf.mem[i] ELSE Junk]

\* Every byte received so far has been disposed of.
PipelineIdle == mqtt.pc = "wait" /\ queue = <<>> /\ loop.pc = "wait"

-----------------------------------------------------------------------------
EmptyBuffer == [block |-> 0, cap |-> 0, size |-> 0,
                mem |-> [i \in 1..MaxPayload |-> Junk]]

\* Mutant: the buffer is not cleared for a new message.
ClearedNot(b) == b

\* reassembly_buffer.clear(): the size is reset, the storage stays.
Cleared(b) == [b EXCEPT !.size = 0]

\* reassembly_buffer.reserve(n) on an empty vector: a new block if n exceeds
\* the capacity.
Reserved(b, n) ==
    IF n > b.cap
    THEN [block |-> b.block + 1, cap |-> n, size |-> b.size,
          mem |-> [i \in 1..MaxPayload |-> Junk]]
    ELSE b

\* reassembly_buffer.insert(end(), chunk, chunk + data_len)
Inserted(b, chunk) ==
    [block |-> b.block, cap |-> b.cap, size |-> b.size + chunk.len,
     mem |-> [i \in 1..MaxPayload |->
                IF b.size < i /\ i <= b.size + chunk.len
                THEN <<chunk.id, chunk.offset + (i - b.size)>>
                ELSE b.mem[i]]]

\* strncmp(event->topic, TOPIC_CONFIGURATION, event->topic_len) == 0. Only
\* the first chunk carries the topic; on a later one topic_len is 0 and the
\* comparison of no characters succeeds.
TopicMatches(chunk) == chunk.topic \in {"/client/configuration", ""}

Init ==
    /\ session = "down"
    /\ sent = <<>>
    /\ incoming = NoMessage
    /\ total = 0
    /\ buf = EmptyBuffer
    /\ mqtt = [pc |-> "wait", ev |-> NoEvent]
    /\ queue = <<>>
    /\ loop = [pc |-> "wait", ev |-> NoEvent]
    /\ flash = [i \in 1..PartitionSize |-> Erased]
    /\ faults = 0

-----------------------------------------------------------------------------
(***************************************************************************)
(* The MQTT task.                                                          *)
(***************************************************************************)

\* MQTT_EVENT_CONNECTED: subscribe with QoS 0; the result is only logged.
Connected ==
    /\ session = "down"
    /\ session' \in {"subscribed", "connected"}
    /\ UNCHANGED <<sent, incoming, total, buf, mqtt, queue, loop, flash, faults>>

\* MQTT_EVENT_DISCONNECTED: only logged. A message being delivered is lost
\* and total_expected_data keeps its value.
Disconnected ==
    /\ session # "down"
    /\ mqtt.pc = "wait"
    /\ session' = "down"
    /\ incoming' = NoMessage
    /\ UNCHANGED <<sent, total, buf, mqtt, queue, loop, flash, faults>>

\* Mutant: no limit on the size of a message.
ExpectedUnlimited(chunk) ==
    IF chunk.offset # 0 THEN total ELSE chunk.total

\* Mutant: aborting an oversize message leaves total_expected_data as it was.
ExpectedNotReset(chunk) ==
    IF chunk.offset # 0 \/ chunk.total > MaxPayload THEN total ELSE chunk.total

\* total_expected_data and reassembly_buffer after the first-chunk block of
\* the handler.
Expected(chunk) ==
    IF chunk.offset # 0 THEN total
    ELSE IF chunk.total > MaxPayload THEN 0 ELSE chunk.total

Opened(chunk) ==
    IF chunk.offset # 0 THEN buf
    ELSE IF chunk.total > MaxPayload THEN Cleared(buf)
    ELSE Reserved(Cleared(buf), chunk.total)

\* The MQTT_EVENT_DATA case up to esp_event_post.
HandleData(chunk) ==
    LET filled == Inserted(Opened(chunk), chunk)
    IN  \/ /\ Expected(chunk) = 0              \* empty, oversize or aborted
           /\ buf' = Opened(chunk)
           /\ total' = 0
           /\ UNCHANGED mqtt
        \/ /\ Expected(chunk) # 0              \* more chunks to come
           /\ filled.size < Expected(chunk)
           /\ buf' = filled
           /\ total' = Expected(chunk)
           /\ UNCHANGED mqtt
        \/ /\ Expected(chunk) # 0              \* message reassembled
           /\ filled.size >= Expected(chunk)
           /\ buf' = filled
           /\ total' = 0
           /\ IF TopicMatches(chunk)
              THEN mqtt' = [pc |-> "post",
                            ev |-> [size |-> filled.size,
                                    block |-> filled.block,
                                    of |-> chunk.id]]
              ELSE UNCHANGED mqtt

\* The client delivers the first chunk of the next message.
FirstChunk(n, k) ==
    /\ session = "subscribed"
    /\ mqtt.pc = "wait"
    /\ ~Receiving
    /\ Paced => PipelineIdle
    /\ Len(sent) < MaxMessages
    /\ k <= n
    /\ n > 0 => k > 0
    /\ sent' = Append(sent, n)
    /\ incoming' = IF k < n THEN [id |-> Len(sent) + 1, off |-> k] ELSE NoMessage
    /\ HandleData([id |-> Len(sent) + 1, offset |-> 0, total |-> n, len |-> k,
                   topic |-> "/client/configuration"])
    /\ UNCHANGED <<session, queue, loop, flash, faults>>

\* The client delivers a further chunk of the message.
LaterChunk(k) ==
    /\ mqtt.pc = "wait"
    /\ Receiving
    /\ incoming.off + k <= sent[incoming.id]
    /\ incoming' = IF incoming.off + k < sent[incoming.id]
                   THEN [incoming EXCEPT !.off = @ + k] ELSE NoMessage
    /\ HandleData([id |-> incoming.id, offset |-> incoming.off,
                   total |-> sent[incoming.id], len |-> k, topic |-> ""])
    /\ UNCHANGED <<session, sent, queue, loop, flash, faults>>

\* esp_event_post(..., portMAX_DELAY): blocks while the queue is full. The copy
\* it makes is event.length() = size + sizeof(EventData) bytes from the address
\* of the event; the bytes behind the event are copied and never looked at.
PostConfiguration ==
    /\ mqtt.pc = "post"
    /\ Len(queue) < QueueSize
    /\ queue' = Append(queue, mqtt.ev)
    /\ mqtt' = [pc |-> "wait", ev |-> NoEvent]
    /\ UNCHANGED <<session, sent, incoming, total, buf, loop, flash, faults>>

\* esp_event_post cannot allocate its copy of the event; the result is
\* ignored and the configuration is dropped.
PostOutOfMemory ==
    /\ mqtt.pc = "post"
    /\ faults < MaxFaults
    /\ faults' = faults + 1
    /\ mqtt' = [pc |-> "wait", ev |-> NoEvent]
    /\ UNCHANGED <<session, sent, incoming, total, buf, queue, loop, flash>>

-----------------------------------------------------------------------------
(***************************************************************************)
(* The event loop task: cbCommonEventHandler calls setConfiguration.       *)
(***************************************************************************)

\* The parameter `uint16_t length' of setConfiguration.
Uint16(n) == n % 65536

\* Mutant: a message that fills the partition exactly is refused.
AcceptSmaller ==
    /\ loop.pc = "wait"
    /\ queue # <<>>
    /\ queue' = Tail(queue)
    /\ IF Uint16(Head(queue).size) >= PartitionSize
       THEN UNCHANGED loop
       ELSE loop' = [pc |-> "erase", ev |-> Head(queue)]
    /\ UNCHANGED <<session, sent, incoming, total, buf, mqtt, flash, faults>>

\* Mutant: the handler needs the client, which the MQTT task holds while it
\* waits for room in the queue.
AcceptNeedsClient ==
    /\ mqtt.pc = "wait"
    /\ loop.pc = "wait"
    /\ queue # <<>>
    /\ queue' = Tail(queue)
    /\ loop' = [pc |-> "erase", ev |-> Head(queue)]
    /\ UNCHANGED <<session, sent, incoming, total, buf, mqtt, flash, faults>>

\* The handler is called and setConfiguration checks the length.
AcceptConfiguration ==
    /\ loop.pc = "wait"
    /\ queue # <<>>
    /\ queue' = Tail(queue)
    /\ IF Uint16(Head(queue).size) > PartitionSize
       THEN UNCHANGED loop
       ELSE loop' = [pc |-> "erase", ev |-> Head(queue)]
    /\ UNCHANGED <<session, sent, incoming, total, buf, mqtt, flash, faults>>

Blank == [i \in 1..PartitionSize |-> Erased]

\* Mutant: the new bytes are written over the old ones.
EraseSkipped ==
    /\ loop.pc = "erase"
    /\ loop' = [loop EXCEPT !.pc = "write"]
    /\ UNCHANGED <<session, sent, incoming, total, buf, mqtt, queue, flash,
                   faults>>

\* esp_partition_erase_range(partition, 0, 4096)
EraseConfiguration ==
    /\ loop.pc = "erase"
    /\ flash' = Blank
    /\ loop' = [loop EXCEPT !.pc = "write"]
    /\ UNCHANGED <<session, sent, incoming, total, buf, mqtt, queue, faults>>

\* The erase reports an error, having erased the sector or not.
EraseFails ==
    /\ loop.pc = "erase"
    /\ faults < MaxFaults
    /\ faults' = faults + 1
    /\ flash' \in {flash, Blank}
    /\ loop' = [pc |-> "wait", ev |-> NoEvent]
    /\ UNCHANGED <<session, sent, incoming, total, buf, mqtt, queue>>

\* The partition after the first n bytes at the event's pointer were written.
Written(ev, n) ==
    [i \in 1..PartitionSize |-> IF i <= n THEN Pointee(ev)[i] ELSE flash[i]]

\* esp_partition_write(partition, 0, buff, length)
WriteConfiguration ==
    /\ loop.pc = "write"
    /\ flash' = Written(loop.ev, Uint16(loop.ev.size))
    /\ loop' = [pc |-> "wait", ev |-> NoEvent]
    /\ UNCHANGED <<session, sent, incoming, total, buf, mqtt, queue, faults>>

\* The write reports an error after some of the bytes.
WriteFails ==
    /\ loop.pc = "write"
    /\ faults < MaxFaults
    /\ faults' = faults + 1
    /\ \E n \in 0..Uint16(loop.ev.size) : flash' = Written(loop.ev, n)
    /\ loop' = [pc |-> "wait", ev |-> NoEvent]
    /\ UNCHANGED <<session, sent, incoming, total, buf, mqtt, queue>>

-----------------------------------------------------------------------------
\* Power is lost, possibly in the middle of an erase or a write, and the
\* controller starts again: only the partition survives.
PowerLoss ==
    /\ faults < MaxFaults
    /\ faults' = faults + 1
    /\ \/ UNCHANGED flash
       \/ loop.pc = "erase" /\ flash' = Blank
       \/ /\ loop.pc = "write"
          /\ \E n \in 0..Uint16(loop.ev.size) : flash' = Written(loop.ev, n)
    /\ session' = "down"
    /\ incoming' = NoMessage
    /\ total' = 0
    /\ buf' = EmptyBuffer
    /\ mqtt' = [pc |-> "wait", ev |-> NoEvent]
    /\ queue' = <<>>
    /\ loop' = [pc |-> "wait", ev |-> NoEvent]
    /\ UNCHANGED sent

PostEvent == PostConfiguration \/ PostOutOfMemory
LoopStep == \/ AcceptConfiguration
            \/ EraseConfiguration \/ EraseFails
            \/ WriteConfiguration \/ WriteFails

Next ==
    \/ Connected
    \/ Disconnected
    \/ \E n \in 0..MaxLength, k \in 0..MaxChunk : FirstChunk(n, k)
    \/ \E k \in 1..MaxChunk : LaterChunk(k)
    \/ PostEvent
    \/ LoopStep
    \/ PowerLoss

\* Both tasks are scheduled: a call that can return does return, and the
\* event loop task runs its handler to the end.
Spec ==
    /\ Init
    /\ [][Next]_vars
    /\ WF_vars(PostEvent)
    /\ WF_vars(LoopStep)

-----------------------------------------------------------------------------
Buffers == [block : Nat, cap : 0..MaxPayload, size : 0..MaxPayload,
            mem : [1..MaxPayload -> Cells \cup {Junk}]]

\* Type invariant of the reassembly, the queue, the event task and the
\* partition.
TypeOK ==
    /\ session \in {"down", "connected", "subscribed"}
    /\ sent \in Seq(Nat)
    /\ incoming \in [id : Nat, off : Nat]
    /\ total \in 0..MaxPayload
    /\ buf \in Buffers
    /\ mqtt \in [pc : {"wait", "post"}, ev : EventData]
    /\ queue \in Seq(EventData)
    /\ Len(queue) <= QueueSize
    /\ loop \in [pc : {"wait", "erase", "write"}, ev : EventData]
    /\ flash \in [1..PartitionSize -> Cells \cup {Junk, Erased}]
    /\ faults \in 0..MaxFaults

\* The event refers to exactly the bytes of the message it was posted for.
WholeMessage(ev) ==
    /\ ev.of \in DOMAIN sent
    /\ ev.size = sent[ev.of]
    /\ \A i \in 1..ev.size : Pointee(ev)[i] = <<ev.of, i>>

\* What mqttEventHandler posts is one complete message, byte for byte: no
\* byte of an earlier message, of one cut off by a lost connection or of one
\* aborted as too large gets into it (hmqtt.cpp, MQTT_EVENT_DATA).
PostedMessageIsWhole == mqtt.pc = "post" => WholeMessage(mqtt.ev)

\* No byte of a message above the limit of hmqtt.cpp ever reaches the buffer
\* or the partition, whatever chunks it is delivered in and whatever was
\* being received before.
OversizeNeverKept ==
    \A n \in DOMAIN sent : sent[n] > MaxPayload =>
        /\ \A i \in 1..MaxPayload : buf.mem[i] \in Cells => buf.mem[i][1] # n
        /\ \A i \in 1..PartitionSize : flash[i] \in Cells => flash[i][1] # n

\* The window an event carries still holds the message it was posted for,
\* from the post until setConfiguration has written it: the "safe, zero-copy
\* span window of the complete buffer" of hmqtt.cpp.
WindowStaysWhole ==
    /\ \A i \in DOMAIN queue : WholeMessage(queue[i])
    /\ loop.pc # "wait" => WholeMessage(loop.ev)

\* The partition holds the first k bytes of message n and nothing else.
HoldsPrefix(n, k) ==
    \A i \in 1..PartitionSize :
        flash[i] = IF i <= k THEN <<n, i>> ELSE Erased

Holds(n) == n \in DOMAIN sent /\ HoldsPrefix(n, sent[n])

\* Every message that completes within the limit is eventually what the
\* partition holds, unless a fault occurs after it was completed (the server
\* waits for the store before it sends the next one).
CompleteIsStored ==
    \A n \in 1..MaxMessages, f \in 0..MaxFaults :
        (mqtt.pc = "post" /\ mqtt.ev.of = n /\ faults = f)
            ~> (Holds(n) \/ faults > f)

\* The partition keeps the promise of the abstract store: only the newest
\* message is written, over an erased partition, and a fault leaves a prefix
\* of it at worst.
Store == INSTANCE ConfigStore WITH Limit <- MaxPayload, content <- flash
StoreSpec == Store!Spec

\* The event of message n is posted, queued or handled.
InPipeline(n) ==
    \/ mqtt.ev.of = n
    \/ loop.ev.of = n
    \/ \E i \in DOMAIN queue : queue[i].of = n

\* Every event leaves the pipeline, written or given up: esp_event_post with
\* portMAX_DELAY returns although the queue was full, and the handler of each
\* event ends, whichever erase or write fails and however many events are
\* ahead. Configuration events only: what else the event loop handles is not
\* part of this model.
PipelineDrains ==
    \A n \in 1..MaxMessages : InPipeline(n) ~> ~InPipeline(n)
=============================================================================
