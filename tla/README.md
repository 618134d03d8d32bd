# A TLA+ verification of smart-irrigate

This directory models the firmware of the irrigation controller (an ESP32-C6
under ESP-IDF and FreeRTOS) in TLA+, checks the models with TLC and proves the
most important facts about them with TLAPS.

## 1. The system

| Component | Source | State it keeps | Operations |
| --- | --- | --- | --- |
| Start-up | `main/entrypoint.cpp` | the boot switch, read once; the LED pattern | `app_main`, `init_gpio`, `init_adc`, the synchronization callback |
| Setup storage | `components/flash/flash.cpp` | NVS partition `setup`: Wi-Fi, MQTT, NTP, time zone strings | `init_flash`, `getStr`, `setStr`, `isStrEmpty` |
| Wi-Fi station | `components/hwifi/hwifi_sta.cpp` | connection, an event group | `init_wifi_sta`, `start_wifi`, event handler, responder task |
| Time | `components/hsntp/hsntp.cpp` | the SNTP service | `init_sntp`, `start_sntp` |
| MQTT client | `components/hmqtt/hmqtt.cpp` | client handle, `reassembly_buffer`, `total_expected_data` | `init_hmqtt`, `start_hmqtt`, `mqttEventHandler`, `mqtt_publish` |
| Application events | `main/event_handler.cpp` | the default event loop's queue | `cbCommonEventHandler` |
| Configuration store | `components/protocol/protocol.cpp` | partition `config` (4 KB) | `setConfiguration` |
| Telemetry | `components/telemetry/` | one `TelemetryData` on the task's stack, one driver object per sensor | `init_telemetry`, `start_telemetry`, the read loop |
| Setup mode | `components/hwifi/soft_ap.cpp`, `ap_webserver.cpp` | the web server's handle and route table | AP events, `/`, `/api`, `/api/restart`, `/api/status`, `/api/set` |
| Android app | `iconnect/app/src/main/java/...` | fields being edited, baseline, status line | `connect`, `set`, `updateField`, `fetchDeviceInfo` |
| Pressure driver | `components/bmp5api/1.5.0/bmp5.c` (Bosch) | none of its own; the sensor's registers and memory | reset, init, power mode, settings, FIFO, interrupts, NVM, data |
| Driver clients | `telemetry/src/sensor_bmp5xx.cpp`, `bmp5_selftest.c`, `examples/` | `initialized_`; loop counters, buffers | initialization, self test, loops that empty the FIFO |

How they interact. Everything runs on one core. The **MQTT task** calls
`mqttEventHandler`; the **telemetry task** reads the sensors; both post events
with *pointers* to their own memory to the **default event loop task**, which
also receives the Wi-Fi and IP events. The event loop task formats telemetry
records, publishes them through the MQTT client, and writes received
configurations to flash. The **main task** brings all this up and then blinks the
LED. The **lwIP task** calls the synchronization callback, which starts the MQTT
client. In setup mode the event loop task starts and stops the **HTTP server
task**, which writes the NVS partition that the next start reads; the other end of its
connections is the coroutine of the Android app. The pressure driver is called by the
telemetry task only, but its sensor goes on measuring between two calls, and keeps its
registers when the controller restarts.

What is hard: memory shared by pointer between tasks whose order nobody fixed;
messages that arrive in pieces over connections that break; flash that is erased
and written in two steps; a start-up whose services call each other back; two
queues on which tasks wait without a time limit; power that may fail at any point.
`PROJECT.json` lists these hazards at the lines where they bite.

What makes each part correct:

* *Configuration*: what is posted is one complete message; an oversize one leaves
  no trace; the partition goes from one configuration to the next through the
  erased state only, and a fault leaves a prefix at worst; each event is written or given
  up, although the MQTT task waits for room in the queue.
* *Telemetry*: a record is never older than its event; only failed sensors leave
  stale fields; published values never go back; no round is lost.
* *Start-up*: the synchronization callback finds the client; no TLS session on an
  unset clock; setup mode is quiet and reachable by the switch from any content of
  the partition; a provisioned controller stays in its session.
* *Setup mode and app*: each documented route is served; a setting nobody edited
  survives; the app never claims `verified` for what the device does not hold; the
  server can be stopped, and is stopped only when it runs.
* *Pressure driver*: a successful call does what it was asked, no more, and returns to
  the mode it found; a failed one leaves every setting old or new; what may only be
  written in standby is never written elsewhere; the mode can always be told.
* *Its clients*: an initialization that counts leaves known settings; no frame is
  printed twice or lost unnoticed, as long as the array of the client has room for what
  was read; a loop that polls comes to its end.

## 2. Modules

| Module | Models |
| --- | --- |
| `ConfigDelivery` | from the chunks of an MQTT message to the bytes in the partition |
| `ConfigStore` | what the partition promises: the abstract specification |
| `Telemetry` | sensors, the shared structure, events, records |
| `Lifecycle` | from power-on to the running controller |
| `SetupMode` | access point, event loop, web server and NVS partition in setup mode: actions only |
| `IConnect` | the Android app, composed with `SetupMode` (EXTENDS) |
| `Bmp5Driver` | the functions of `bmp5.c` as operators on registers and bus |
| `Bmp5` | a host that calls them in any order; the firmware's and two examples' set-up |
| `Bmp5Fifo` | the sensor's FIFO and the four clients that read it |
| `Bmp5SelfTest` | `bmp5_selftest.c`, on `Bmp5Driver` (EXTENDS) |
| `ConfigDelivery_proofs`, `Lifecycle_proofs`, `Telemetry_proofs`, `IConnect_proofs`, `Bmp5Fifo_proofs` | theorems and proofs |
| `Bmp5Calls_proofs` | what each function of `Bmp5Driver` does, as lemmas |
| `Bmp5_proofs`, `Bmp5Setup_proofs` | theorems about `Bmp5`; about the set-up of the FIFO examples |
| `MCConfigDelivery`, `MCTelemetry`, `MCLifecycle`, `MCIConnect`, `MCBmp5`, `MCBmp5Fifo` | instances for TLC |

Definitions whose comment begins with *Mutant* are plausible mistakes, not used by
any specification: each one, put in the place of the definition it varies,
violates one property, which shows that the property depends on that code.

### ConfigDelivery

| Variable | Code |
| --- | --- |
| `buf` | `reassembly_buffer`: `size`, capacity, the current allocation (`block`) and its bytes |
| `total` | `total_expected_data` |
| `mqtt` | the MQTT task, waiting for data or inside `esp_event_post` |
| `queue` | event queue of the default loop, configuration events only |
| `loop` | the event loop task inside `setConfiguration`: before the erase, before the write |
| `flash` | bytes of the `config` partition |
| `sent`, `incoming` | history of the broker's messages and the one under way |
| `session`, `faults` | the MQTT session; faults so far |

A byte is a pair *(message, position)*, so that a property can say where each byte
came from. An event carries the size and the *allocation* it points into; reading
it later yields whatever that memory holds then (`Pointee`), or junk if the vector
has moved. `Connected`, `Disconnected`, `FirstChunk` and `LaterChunk` are the calls
of `mqttEventHandler`; `HandleData` is its DATA case, with the early returns for
oversize and empty messages and the comparison of the topic, which succeeds on
every later chunk because `topic_len` is 0 there. `PostConfiguration` is the
blocking post. `AcceptConfiguration`, `EraseConfiguration` and `WriteConfiguration`
are the steps of `setConfiguration`. An event waits in the queue while the loop task is
blocked in the handler of an earlier one (`mqtt_publish`, `esp_wifi_connect`), and the flash
driver may give up the processor. The priorities of the two tasks are set outside this code,
so the model assumes nothing of them and lets their steps interleave freely. `EraseFails`,
`WriteFails`, `PostOutOfMemory` and `PowerLoss` are the faults.

`Paced` says whether the server waits for a configuration to be stored before it
sends the next. Nothing in the protocol makes it wait; with `Paced = FALSE` the
pointer in a queued event is overwritten (run `config_window`), and that is the
only thing that goes wrong.

Left out: a sector erase that stops half-way (it is atomic here, whether it succeeds, fails
or the power goes), the partition that is not found (the partition table is part of the
image), the content of the configuration, which the firmware does not read yet, and
the bytes `esp_event_post` reads behind the event because `EventData::length()` adds
the size of the payload: they are copied and never looked at.

### ConfigStore

Two variables, three actions: the broker delivers a message, the partition is
erased, the newest message (or a prefix of it) is written over the erased partition.
`ConfigDelivery!StoreSpec` instantiates it with `content <- flash`.

### Telemetry

`payload` is `telemetryPayload`; a value is the number of the round that stored it,
so stale means smaller. `ready` are the drivers' `initialized_` flags. `ReadSensor`,
`SkipSensor`, `ReadFails` and `ReadAborts` are the outcomes of one `read()`, in the
order of `cbTelemetryTask`; `PostReadings` blocks while the queue is full; `NextRound`
is the end of `vTaskDelay`. `FormatRecord` reads the structure when the event's turn
comes, `Publish` hands the record to the client. What the structure held when the event
was posted, and the round in which a record was formatted, are history. The values
themselves (voltage dividers, clamps, formatting) are abstracted.

### Lifecycle

`main` is the position of `app_main`; each service has a variable. A stored string
is *absent*, *empty*, *fits* or *long*: what `isStrEmpty` and `getStr` with its buffer
size tell apart. The three MQTT strings are one key. `client` is *null* when one of them
cannot be loaded or the library cannot make a client. Besides `app_main`, the event
loop (`StaStarted`, `GotIp`, `Dropped`), the responder task, SNTP (`TimeSync`) and the
MQTT client take their steps at any time. A failed `ESP_ERROR_CHECK` restarts the
controller like a power loss; `Restart` keeps the partition and the switch.

### SetupMode and IConnect

| Variable | Code |
| --- | --- |
| `nvs` | the strings of partition `setup`, a value per key |
| `station`, `joined` | the phone's association with the access point |
| `events`, `loop` | Wi-Fi events and the event loop task, which blocks inside `httpd_stop` |
| `handle`, `server` | `server_instance`; the HTTP server task in `select`, in `post_handler`'s receive loop, storing line by line, answering |
| `requests`, `answer` | requests not yet read, the answer on its way |
| `app` | the coroutine of `MainActivity.kt`: the call it waits for, its sequence number, `statusMessage`, what `set` pushed |
| `fields` | the settings on the screen |
| `edits`, `edited`, `gaveUp` | bound and history |

`SetupMode` defines the device's actions and no `Next`; `IConnect` extends it with the
app's and composes both. `Associate` and `Dissociate` are the phone's; `StartServer`,
`StartFails`, `CallStop` and `StopReturns` the handler's (`soft_ap.cpp`); `Refuse`,
`ServeStatus`, `ServeRestart` and `ServeSet` choose a request, `RefuseBody`, `ReceiveBody`,
`ReceiveFails`, `StoreLine`, `StoreFails` and `EndSet` are `post_handler`, one commit per
line. `Routes` lists the five handlers of `register_routes`, of which `Registered` keeps as
many as `MaxUriHandlers` has room for. `ReceiveFails` ends a body whose connection was
reset (the phone left) or closed (`Closed`: the app no longer waits for that push). In the app, `Connect`, `UpdateField` and `Apply` are
the user's, the other actions the points at which a coroutine resumes. `GiveUp` is the
timeout of five seconds or an unreachable device: it may come at any moment, and what was
sent may still be read. `Boot` is the way through `app_main` that matters here.

A value is abstracted to what the code tells apart: empty, ordinary, too long for the 128
bytes of a status report, with a double quote, with a backslash. `Parsed` says what the
app's JSON parser makes of a value printed without escapes; in the instance `a\` is read
as `a`.

A request and its answer carry the number of the call: each call has a connection of its
own, so that a late answer is never taken for a new one.

### Bmp5Driver and Bmp5

`Bmp5Driver` translates `bmp5.c` function by function into operators on a *view* `d`:
registers, NVM, result so far, the number of bytes the bus still carries, and what was read.
After an error every further access does nothing, which is what the nested tests of `rslt`
amount to. A write that fails may have reached the sensor (`took`). A register field is a
field of `reg`; `Actual` is the mode the sensor is in by the datasheet's rule, which the
driver must work out from four registers (`CheckDeepstandbyMode`). Variables the code leaves
unassigned (`*powermode` there) take any value of `Stack`.

`Bmp5` has one action per public function, each with any bus behaviour, plus `FirmwareInit`
(`SensorBMP5xx::init`), `FifoSetup` (`set_config` of the examples `fifo_full_interrupt_press_temp`
and `fifo_threshold_interrupt`, with the members they leave unassigned) and `Measured`, by
which a forced measurement ends. `last` is the last call and what it returned. `last.hot`
records a write, in any of its accesses, to a field that is writable in standby only.

### Bmp5Fifo

`Sample` is the sensor, at any time; `Poll`, `ReadCount`, `ReadData` and `Extract` are the
loop of `get_fifo_data` with `bmp5_get_fifo_len`, `bmp5_get_fifo_data` and
`bmp5_extract_fifo_data`; `PollFails` and `ReadFails` are the same with a bus error. `client`
selects one of the four examples, which differ in the kind of frame, the interrupt, the number
of entries of their `sensor_data` (`room`) and whether a failed read counts as an iteration. A
frame is its number. `bmp5_extract_fifo_data` is not told the size of the array: `Overrun` is
the unpacking of more samples than it has room for, after which nothing is said of the client
(`pc = "lost"`).

### Bmp5SelfTest

The calls of the set-up one by one on `Bmp5Driver`, then the loop of `get_sensor_data`: poll,
wait a millisecond and count, or take a sample; the average is judged in `Analyze`. The bus
breaks and mends at any time.

## 3. Runs

| Run | Instance | Shows |
| --- | --- | --- |
| `config_free` | 3 messages of up to 4 bytes in chunks of up to 2, limit 3, queue of 2, 1 fault, a server that does not wait | `TypeOK`, `PostedMessageIsWhole`, `OversizeNeverKept`, `PipelineDrains` |
| `config_paced` | the same with a server that waits, 2 faults | `StoreSpec` (refinement), `CompleteIsStored` |
| `config_window` | no fault, a server that does not wait | *violated*: `WindowStaysWhole` |
| `telemetry_late` | 4 rounds, queue of 2, 1 fault | `TypeOK`, `NeverOlderThanPosted`, `OnlyFailedFieldsAreStale`, `RecordIsSnapshot`, `ReadingsNeverGoBack`, `EveryRoundIsPublished` |
| `lifecycle_start` | any content of the partition (256), 2 faults | `TypeOK`, `SyncFindsClient`, `SessionNeedsClock`, `SetupIsQuiet`, `SwitchLeadsToSetup` |
| `lifecycle_session` | a provisioned controller, no fault | *violated*: `SessionPersists` |
| `iconnect` | 2 keys, 5 values, room for 5 routes, 2 associations, 4 requests, 1 edit, 1 fault | `TypeOK`, `UntouchedSettingsKept`, `OneServer`, `VerifiedMeansStored`, `ServerStops` |
| `setup_routes` | room for 4 routes as in the code, 1 association, 3 requests, 1 edit, no fault | *violated*: `AnsweredApplySucceeds` |
| `bmp5_driver` | 3 calls, one of them on a bus that fails at any byte | `TypeOK`, `ProtectedOnlyInStandby`, `ThresholdFitsFrames`, `SetIsReadBack`, `PowerModeIsKnown`, `ConfigurationKeepsMode`, `SuccessDoesWhatWasAsked`, `FailedCallLeavesOldOrAsked`, `InterruptsMaskedWhileReconfigured`, `NvmKeepsWhatWasWritten`, `InitializedIsConfigured`, `FifoSetupArmsClient` |
| `bmp5_mode` | 2 calls with the data rate 5 Hz, no fault | *violated*: `PowerModeIsKnown` |
| `bmp5_fifo` | 4 clients with room for 2 or 4 samples, FIFO of 12 bytes, 2 loops, 8 frames, 2 faults | `TypeOK`, `FramesAccountedFor`, `BatchesAreWhole`, `ClientFinishes` |
| `bmp5_selftest` | 3 samples, timeout 2, the bus breaks once | *violated*: `SelfTestEnds` |

### Bounds

*Configuration.* A limit of 3 bytes with chunks of 2 gives messages that are empty, of one
chunk, of several chunks, exactly at the limit and above it; a smaller message after a
larger one reuses the storage, a larger one reallocates it. Three messages let one be
stored while another waits and a third arrives. In `config_free` the server does not wait, so
that one event is being handled, the queue of two is full and the MQTT task is blocked in
`esp_event_post`; in `config_paced` at most one event exists, which is what its properties assume. *Telemetry.* Four rounds fill a queue of two
with one event being published and a fifth sender waiting. The faults are bounded, and the
liveness properties say *unless another fault occurs*, which is checked for each number
of faults so far. In `Lifecycle` everything but the faults is finite.

*Setup mode.* Two keys are enough for a message to be half stored, and the first is the SSID,
which decides the mode at boot. One key may be typed over with an ordinary or a long value,
the other with an empty, a quoted or an escaped one. Four requests are a load, a push, the
verification and one more: a restart, a second push, or a request read late. Two associations
start and stop the server twice. `iconnect` has room for all routes, which the code has not:
`setup_routes` shows what that means, and everything behind it could not be checked otherwise.
No property that depends on that room is claimed to hold: what `iconnect` checks is what a
device with one more entry in its table would keep of its settings, and the theorems about
`IConnect` hold with either number.

*Driver.* Three calls suffice for every pair of settings that disturb each other and a third
call that notices; the longest function moves fewer than 28 bytes (`MaxBytes`), so the bus
fails at each of them; in the longer set-up of the examples it fails after 0, 12, 24 or 36
(`SetupBreaks`), and the
members it leaves unassigned hold another source and the shadow filter (`Unassigned`). Rates are one above and one below the limit of 5 Hz; 5 Hz itself is left to
`bmp5_mode`. The thresholds 16 and 32 are the first ones too large, the out-of-range threshold
98303 uses all of its 17 bits, addresses are one inside and one outside the range, the word
differs in its two bytes, and the temperature is negative.

*FIFO.* 12 bytes hold two frames of both kinds or four of one, so that the FIFO is empty, partly
filled and full in the middle of a read. The rooms 2 and 4 stand for arrays of 16 and 32 entries:
three clients have room for a full FIFO, that of the threshold interrupt for half of one. Two rounds let
a frame be missed between them. Frames beyond the eighth share a number, and `FramesAccountedFor` speaks of the others.

### Deadlock and fairness

Deadlock is checked in every passing run except `bmp5_driver`, whose host has no more
calls after three. In `IConnect` the app that has used its requests may rest (`Finished`).

`ConfigDelivery` and `Telemetry` assume weak fairness of the steps of the
two tasks: FreeRTOS runs a task that is ready, and a blocking post that can return does.
Nothing is assumed of the broker: the arrival of chunks, of the connection and of faults
is not fair. `Telemetry` lets a `Publish` end eventually, because the client's calls have
time limits. `Lifecycle` assumes in addition that the access point, the time server and
the broker answer. `IConnect` assumes it of the event loop task, of the server task and
of the app's coroutine, which has a timeout; not of the user, the phone or the power.
`Bmp5Fifo` assumes that the sensor measures (normal mode) and that the client's loop runs;
a failing bus is not fair and bounded. `Bmp5SelfTest` assumes that the test runs and the
sensor measures, and nothing of the bus. Fairness is on whole tasks wherever a task can
choose between success and failure, so success itself is never assumed; the bound on faults
ends the failures. In `Bmp5Fifo` it is on the steps that succeed, because a bus that fails at
every poll keeps the client from ever finishing: with finitely many faults the two agree.

### What the violations say

* `WindowStaysWhole`: `hmqtt.cpp:94` calls what it passes to the parser a "safe, zero-copy
  span window of the complete buffer". If the event loop task is held up in an earlier handler
  while a second configuration begins to arrive, the second one's bytes, or a mixture of both,
  are written with the first one's length. Only luck in the scheduling and a slow server prevent
  it; no lock, copy or handshake does.
* `SessionPersists`: `vEventResponderTask` (`hwifi_sta.cpp:57`) returns when the IP address
  arrives. FreeRTOS tasks must not return; with `CONFIG_FREERTOS_TASK_FUNCTION_WRAPPER=y` and
  `CONFIG_ESP_SYSTEM_PANIC_PRINT_REBOOT=y` (`sdkconfig`) the controller restarts on every
  connection. `README.md:69` promises a persistent session.
* `AnsweredApplySucceeds`: `ap_webserver.cpp:24` makes room for four handlers and five are
  registered; the fifth is `POST /api/set`, its refusal is not looked at, and every apply of the
  app is answered with *not found*. `README.md:68` says that the server parses these properties
  and commits them.
* `PowerModeIsKnown`: `bmp5_set_osr_odr_press_config` leaves deep standby for rates above 5 Hz
  (`odr <`, `bmp5.c:878`) and `check_deepstandby_mode` recognizes it below (`odr >`,
  `bmp5.c:1597`). After setting exactly 5 Hz in deep standby the mode is neither;
  `bmp5_get_power_mode` returns success with its argument unassigned, against `bmp5.h:242`.
* `SelfTestEnds`: `try_count` counts only statuses that were read. On a bus that stays broken the
  loop goes on for ever, although the comment at `bmp5_selftest.c:270` counts "or status read
  failed".

### What else the models showed

These are in the models, and the properties are stated around them:

* The answer to `/api/restart` is never sent, so that the app reports each restart as failed;
  the device is restarted also after *not accepted*.
* A value of 128 bytes or more is reported as empty, and the next apply writes that back. A
  value with a backslash is misread and written back changed. One with a double quote makes
  every later status report unreadable, and the app has no other way to mend it.
* A push the app gave up on may be read after a newer one was verified.
* A phone that leaves in the middle of a body keeps the server in `post_handler`, and with it the
  event loop in `httpd_stop`, until the connection is reset.
* `SensorBMP5xx::init` counts as done when only the last call failed; the sensor then stays in
  standby with the right settings.
* `set_config` of the FIFO examples returns the result of its last call, whatever failed before;
  the sources it selects include whatever was on the stack. The example for frames of both
  kinds keeps the threshold it finds, and a threshold of 16 or more, left from before, makes
  it refuse the frames without saying so.
* `fifo_threshold_interrupt.c:221` has an array of 16 entries, sized for frames of 6 bytes, but
  line 156 selects frames of pressure only, of which 32 fit the buffer.
  `bmp5_extract_fifo_data` (`bmp5.c:1246`) has no bound: when the loop comes late and more than 16
  frames wait, it writes past the array. `bmp5_fifo` reaches this (`Overrun`), without any fault of
  the bus; the other clients have room for all that fits.
* `set_deep_standby_mode` (`bmp5.c:1612`) writes the rate, then the filter, then the frame
  selection. Broken off in between, with a filter or frames selected, it leaves the sensor in no
  mode that its driver knows, not in the old one, standby or the one asked for. The documentation
  promises nothing of a call that failed. Setting 5 Hz in deep standby does the same, also when the
  call fails after its write.
* The record has no field for the water pressure (`event_handler.cpp:30`), which `README.md:358`
  promises.

## 4. Proofs

Each safety invariant, action property and refinement that a passing run checks is also a
theorem, for every value of the constants (sizes of payload, partition, chunks, queue and
FIFO, number of messages, calls and faults, contents of the partition, settings):

| Theorem | Statement |
| --- | --- |
| `ConfigDelivery_proofs!TypeCorrect` | `Spec => []TypeOK` |
| `ConfigDelivery_proofs!ReassemblyCorrect` | `Spec => []PostedMessageIsWhole` |
| `ConfigDelivery_proofs!OversizeDropped` | `Spec => []OversizeNeverKept` |
| `ConfigDelivery_proofs!Refinement` | `Spec => StoreSpec`, assuming `Paced` |
| `Lifecycle_proofs!TypeCorrect` | `Spec => []TypeOK` |
| `Lifecycle_proofs!SyncAfterClient` | `Spec => []SyncFindsClient` |
| `Lifecycle_proofs!ClockBeforeSession` | `Spec => []SessionNeedsClock` |
| `Lifecycle_proofs!QuietSetup` | `Spec => []SetupIsQuiet` |
| `Telemetry_proofs!TypeCorrect` | `Spec => []TypeOK` |
| `Telemetry_proofs!LateRecords` | `Spec => []NeverOlderThanPosted` |
| `Telemetry_proofs!OthersStayFresh` | `Spec => []OnlyFailedFieldsAreStale` |
| `Telemetry_proofs!Snapshots` | `Spec => []RecordIsSnapshot` |
| `Telemetry_proofs!Monotone` | `Spec => ReadingsNeverGoBack` |
| `IConnect_proofs!TypeCorrect` | `Spec => []TypeOK` |
| `IConnect_proofs!AtMostOneServer` | `Spec => []OneServer` |
| `IConnect_proofs!UntouchedSettings` | `Spec => []UntouchedSettingsKept` |
| `IConnect_proofs!VerifiedIsStored` | `Spec => VerifiedMeansStored` |
| `IConnect_proofs!AppliesFailForAReason` | an answered apply fails only if a value is too long, a quote is stored, or the table has no room for the app's routes |
| `Bmp5Fifo_proofs!TypeCorrect` | `Spec => []TypeOK` |
| `Bmp5Fifo_proofs!WholeBatches` | `Spec => BatchesAreWhole` |
| `Bmp5Fifo_proofs!EveryFrameAccounted` | `Spec => []FramesAccountedFor` |
| `Bmp5_proofs!TypeCorrect` | `Spec => []TypeOK` |
| `Bmp5_proofs!ProtectedInStandby` | `Spec => []ProtectedOnlyInStandby` |
| `Bmp5_proofs!ThresholdFits` | `Spec => []ThresholdFitsFrames` |
| `Bmp5_proofs!ReadBack` | `Spec => []SetIsReadBack` |
| `Bmp5_proofs!SuccessIsExact` | `Spec => SuccessDoesWhatWasAsked` |
| `Bmp5_proofs!FailureIsPartial` | `Spec => FailedCallLeavesOldOrAsked` |
| `Bmp5_proofs!PinChangesMasked` | `Spec => InterruptsMaskedWhileReconfigured` |
| `Bmp5_proofs!NvmKeeps` | `Spec => NvmKeepsWhatWasWritten` |
| `Bmp5_proofs!InitConfigures` | `Spec => InitializedIsConfigured` |
| `Bmp5_proofs!ModeKept` | `Spec => ConfigurationKeepsMode`, assuming that nobody asks for 5 Hz |
| `Bmp5_proofs!ModeReported` | `Spec => PowerModeIsKnown`, assuming the same |
| `Bmp5_proofs!SamplesAreRead` | a temperature that was read is the one measured, with its sign |
| `Bmp5Setup_proofs!SetupArms` | `Spec => FifoSetupArmsClient` |

`ConfigDelivery`. `PostedMessageIsWhole` is not inductive: that the last chunk completes
the message needs to know what the earlier chunks left. The invariant `IInv` adds: the
message under way is the newest (`IncomingInv`); while `total # 0` during a message, the
buffer holds exactly the bytes delivered so far (`ReassemblyInv`); an event about to be
posted refers to the current allocation (`PostInv`); every byte in buffer and partition
belongs to a message within the limit (`BytesInv`); events have legal sizes (`EventsInv`).
`ReassemblyInv` says nothing when `total = 0`, so it survives an aborted message, and the
first chunk establishes it anew whatever a broken connection left behind. The proof has a
lemma per group of actions, and lemmas about `vector::clear`, `reserve` and `insert`.

The refinement needs `PacedInv` as well: with a server that waits, at most one event
exists anywhere in the pipeline, it is the newest message, the buffer still holds it, and
before the write the partition is erased. Then each step of the pipeline is an abstract
`Publish`, `Erase` or `Fill`, or leaves `sent` and `flash` alone. The assumption is
needed: without it `config_window` refutes what the refinement rests on.

`Lifecycle`. The three properties follow from what `app_main` has brought up at each of
its stages (`StagesInv`) and from `ClientBeforeSntp`: SNTP runs only after `init_hmqtt`.
The partition changes only before any service exists, so a loaded time zone stays loaded.

`Telemetry`. What a record may hold depends on what the structure may become while the
event waits. `IInv` says that the structure only grows (`NotFromFuture`, `RoundsBeginAtFirst`),
that a field whose sensor had its turn in this round and did not fail is fresh
(`RoundIsFresh`), that each queued event remembers a structure no newer than the present one
and fresh except for its failed fields (`QueueInv`), and that the record being published and
the last one published lie between (`RecordInv`, `PublishedInv`). `Monotone` follows from
`RecordInv` in the step that publishes. A restart begins anew with zeroes (`FreshInv`).

`IConnect`. `OneServer` needs to know in what order the events come: `HandleInv` says that
they alternate and that the last one agrees with `station`, so that between two starts there is
always a stop, and the handle is null only when no server runs. `UntouchedSettingsKept` needs
that an answer the app acts on is the one to its own request: `MatchInv` bounds the numbers of
everything under way. With it `KeptInv` follows the default of an unedited key around the
circle: partition, answer, screen, pushed body, partition. Two steps break the circle and
are excused: the value too long for the status report and the one the parser changes
(`Survives`).

`VerifiedMeansStored` compares two calls, the push and the verification, through a server that
may still read what an earlier call sent. `QuietInv`: until the app gives up on a request at most
one push is under way, none while it verifies, and the answer to the verification reports the
partition as it is, since nothing can change it in between. `AnswerInv`: what is answered to
a push is about the settings it carried. `AppliesFailForAReason` follows: with any table, and so
with that of the code, an answered apply fails for one of three reasons, of which the code as it
is always meets the third (`setup_routes`).

`Bmp5Fifo`. While the client is between the count and the burst the FIFO can only grow or
stay full, so the count stays within its length (`IInv`); then the burst meets no empty
marker, and outgrows the array only of a client whose array is smaller than a full FIFO.
`FrameArithmetic` ties bytes to frames for every size of FIFO. `FramesAccountedFor`
speaks of what was printed until the client overruns its array; the invariant (`Accounted`) must also place what the client holds
and what the sensor keeps: printed, held, waiting and still to come are four consecutive stretches
of the frames in the order measured, with only dropped frames missing.

`Bmp5`. An action runs through dozens of register accesses, any of which may fail, so the work
is in `Bmp5Calls_proofs`: one lemma per function of `bmp5.c`, all of the same form.
`Does(d, e, w, M, k)` says of a call that took the view `d` to `e` that it moved at most `k`
bytes, that each setting is as before or as `w` asks, that the sensor is in its old mode, in
standby or in one of the modes `M`, that nothing protected was written while it measured,
and that it fails on the bus only if the bus breaks or it needs more bytes than there are. These
statements compose by adding up `k` and uniting `w` and `M`. The second half of a lemma says what
holds on success: the settings asked for (`Has`), and the mode it began in (`KeepsMode`).
The calls preserve one fact about the sensor that its type does not give: a measuring sensor has
deep standby disabled (`Registers`). Without it a sensor whose measurement ends could fall into
deep standby, and a setting would not return to the mode it found. `TypeInv` is that and the
ranges of the registers; every action property follows from it and the lemma of the call. The
budget of faults in `TypeOK` is why the lemmas count bytes: a call that begins with `Plenty` of
them cannot fail on the bus. `ThresholdFitsFrames` is preserved (`FitsStep`) because each call
leaves threshold and kind of frame alone or checks the one against the other, the set-up that
keeps the threshold it finds included. `SetIsReadBack` composes the lemma of the setter with
that of the getter, and puts the 17 bits of the out-of-range threshold together again.
`FailureIsPartial` is about the mode the sensor is really in, which depends on rate, filter and
frame selection besides the register of the mode: a further set of lemmas (`Keeps`, `Aside`,
`Awake`) says of each function what it leaves of those four registers wherever it breaks off, and
`ModeAfterBreak` draws the two causes of an invalid mode from them.
`ConfigurationKeepsMode` and `PowerModeIsKnown` assume that the host never asks for 5 Hz; the
firmware and the FIFO examples ask for 50 Hz, and `bmp5_mode` shows what 5 Hz does.

`Bmp5Setup_proofs`. That the set-up of the examples *succeeds* needs to know which errors the
functions have of their own. `Goes`: none but the bus, if what `bmp5_get_power_mode` answers is a
mode, and the threshold is small enough. `Telling`: after the first call, which sets standby
mode, it does answer one, also when mode and stack were junk before. `Exactly` then follows the
settings through the five calls, and the last one starts the measurement.

Assumptions: `SizeAssumption` (the limit is positive and fits in the `uint16_t` of
`setConfiguration`), `ByteAssumption`, `LifecycleAssumption`, `TelemetryAssumption`,
`SetupAssumption` and `IConnectAssumption` (keys are strings, the empty value is read as it is,
what is typed is a value), `FifoAssumption` (room for a frame, a positive threshold),
`DriverAssumption` and `Bmp5Assumption` (ranges); TLC evaluates them in the runs.

Only model-checked: the liveness properties `PipelineDrains`, `CompleteIsStored`,
`EveryRoundIsPublished`, `SwitchLeadsToSetup`, `ServerStops` and `ClientFinishes`
(fairness is beyond the prover), and the five violations.

## 5. Not modelled

* The event queue that telemetry, configuration, Wi-Fi and IP events share, together with the
  lock of the MQTT client, and its outbox: when the lock is held is decided in the client
  library, which is not in the repository.
* The ROM scan of the DS18B20, the conversions of the analogue sensors and the parser of the
  valve pins: local loops and pure functions. The TSL2591 driver is a stub.
* The pointer lwIP keeps to the NTP server's name in a block of `app_main` that has ended.
* `bmp5_get_osr_odr_eff`, which only reads; the examples that print measurements in a loop of
  their own, and `common.c`, the interface of Bosch's evaluation board.
* `fetchDeviceInfo` and the layout of the app, which change no state of the device.
* `getConfiguration`, `createEmptyConfiguration` and `getPayloadCommand`, which have no caller.
* Test scripts and hardware files, which keep no state of the controller.

## 6. Plan

1. Proofs: the safety part of the liveness properties: that what waits is never forgotten, so that
   a loaded event, a blocked post or a pushed body is always at exactly one place of its way.
2. `Bmp5SelfTest`, which has no theorem yet: what a passed test says of the samples and of the
   sensor it leaves behind.
3. The loops of the remaining examples, as further clients of the driver; the forced mode, whose
   loop waits for ever after one read that failed.
4. `ValvePins` and the conversions of the analogue sensors as functions over bounded inputs.
