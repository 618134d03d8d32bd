----------------------------- MODULE Lifecycle -----------------------------
(***************************************************************************)
(* From power-on to a running controller: app_main (entrypoint.cpp)        *)
(* chooses between setup and operational mode and brings the services up   *)
(* one after the other, while the tasks it started already run beside it:  *)
(* the event loop (hwifi_sta.cpp), the responder task of start_wifi, the   *)
(* SNTP callback and the MQTT client.                                      *)
(*                                                                         *)
(* A stored string is abstracted to what its readers tell apart: "absent", *)
(* "empty", "fits" (in the reader's buffer) or "long" (does not fit).      *)
(***************************************************************************)
EXTENDS Integers

CONSTANTS
    Stored,    \* the possible contents of the setup partition at power-on
    Defaults,  \* the build's default for each key (default_initiate.h)
    MaxFaults  \* bound: power losses, lost connections, failed calls and
               \* movements of the switch

\* The stored keys that steer the start; "mqtt" stands for the three MQTT keys.
Keys == {"wifi_ssid", "ntp_server", "locale_tz", "mqtt"}

ASSUME LifecycleAssumption ==
    /\ Stored \subseteq [Keys -> {"absent", "empty", "fits", "long"}]
    /\ Defaults \in [Keys -> {"empty", "fits", "long"}]
    /\ MaxFaults \in Nat

VARIABLES
    nvs,        \* setup partition: the class of each key's value
    switch,     \* GPIO_CONFIG_MODE_PIN: TRUE is high, no setup requested
    regular,    \* initRegular, read once at boot
    main,       \* where app_main is
    mode,       \* "none", "setup" or "operational"
    wifi,       \* "off", "ap", "started", "connecting" or "online"
    responder,  \* vEventResponderTask: "none", "created" or "waiting"
    gotIp,      \* BIT0 of wifiEventGroup
    sntp,       \* "none", "configured", "running" or "unserved"
    synced,     \* the clock was set since boot
    client,     \* hClient: "none" before init_hmqtt, "null" if it gave up,
                \* then "ready", "started" and "connected"
    telemetry,  \* the telemetry task runs
    faults      \* number of faults so far

vars == <<nvs, switch, regular, main, mode, wifi, responder, gotIp, sntp,
          synced, client, telemetry, faults>>

-----------------------------------------------------------------------------
\* NvsConfig::getStr succeeds: the key exists and the value fits.
Loads(key) == nvs[key] \in {"empty", "fits"}

\* NvsConfig::isStrEmpty
IsStrEmpty(key) == nvs[key] \in {"absent", "empty"}

\* Everything the operational mode needs is stored.
Provisioned == \A key \in Keys : nvs[key] = "fits"

Init ==
    /\ nvs \in Stored
    /\ switch \in BOOLEAN
    /\ regular = TRUE
    /\ main = "boot"
    /\ mode = "none"
    /\ wifi = "off"
    /\ responder = "none"
    /\ gotIp = FALSE
    /\ sntp = "none"
    /\ synced = FALSE
    /\ client = "none"
    /\ telemetry = FALSE
    /\ faults = 0

Fault == faults < MaxFaults /\ faults' = faults + 1

\* The program starts over; the partition and the switch are what they are.
Restart ==
    /\ regular' = TRUE /\ main' = "boot" /\ mode' = "none"
    /\ wifi' = "off" /\ responder' = "none" /\ gotIp' = FALSE
    /\ sntp' = "none" /\ synced' = FALSE /\ client' = "none"
    /\ telemetry' = FALSE
    /\ UNCHANGED <<nvs, switch>>

-----------------------------------------------------------------------------
(***************************************************************************)
(* The main task.                                                          *)
(***************************************************************************)

\* Mutant: the switch is not read.
BootWithoutSwitch ==
    /\ main = "boot"
    /\ main' = "flash"
    /\ UNCHANGED <<nvs, switch, regular, mode, wifi, responder, gotIp, sntp,
                   synced, client, telemetry, faults>>

\* init_gpio, init_adc, and the switch is read.
Boot ==
    /\ main = "boot"
    /\ regular' = switch
    /\ main' = "flash"
    /\ UNCHANGED <<nvs, switch, mode, wifi, responder, gotIp, sntp, synced,
                   client, telemetry, faults>>

\* init_flash: a key that is absent gets its default; a default that cannot
\* be stored is only logged.
InitFlash ==
    /\ main = "flash"
    /\ \E missed \in SUBSET {key \in Keys : nvs[key] = "absent"} :
         /\ IF missed = {} THEN UNCHANGED faults ELSE Fault
         /\ nvs' = [key \in Keys |->
                      IF nvs[key] = "absent" /\ key \notin missed
                      THEN Defaults[key] ELSE nvs[key]]
    /\ main' = "mode"
    /\ UNCHANGED <<switch, regular, mode, wifi, responder, gotIp, sntp, synced,
                   client, telemetry>>

\* The partition could not be read: it is erased and gets the defaults, or
\* ESP_ERROR_CHECK aborts.
InitFlashErases ==
    /\ Fault
    /\ main = "flash"
    /\ nvs' = Defaults
    /\ main' = "mode"
    /\ UNCHANGED <<switch, regular, mode, wifi, responder, gotIp, sntp, synced,
                   client, telemetry>>

InitFlashAborts == Fault /\ main = "flash" /\ Restart

\* Mutant: setup mode goes on with the services of the operational mode.
EnterSetupGoesOn ==
    /\ main = "mode"
    /\ ~regular \/ IsStrEmpty("wifi_ssid")
    /\ mode' = "setup"
    /\ wifi' = "ap"
    /\ responder' = "created"
    /\ main' = "sntp"
    /\ UNCHANGED <<nvs, switch, regular, gotIp, sntp, synced, client,
                   telemetry, faults>>

\* Setup mode: init_wifi_softap and start_wifi, then the LED loop.
EnterSetup ==
    /\ main = "mode"
    /\ ~regular \/ IsStrEmpty("wifi_ssid")
    /\ mode' = "setup"
    /\ wifi' = "ap"
    /\ responder' = "created"
    /\ main' = "blink"
    /\ UNCHANGED <<nvs, switch, regular, gotIp, sntp, synced, client,
                   telemetry, faults>>

\* Operational mode: init_telemetry (always ESP_OK), the application event
\* handler, init_wifi_sta and start_wifi.
EnterOperation ==
    /\ main = "mode"
    /\ regular /\ ~IsStrEmpty("wifi_ssid")
    /\ mode' = "operational"
    /\ wifi' = "started"
    /\ responder' = "created"
    /\ main' = "sntp"
    /\ UNCHANGED <<nvs, switch, regular, gotIp, sntp, synced, client,
                   telemetry, faults>>

\* Mutant: config.start is left at its default and init_sntp starts the service.
InitSntpStarts ==
    /\ main = "sntp"
    /\ sntp' = IF Loads("ntp_server") THEN "running" ELSE sntp
    /\ main' = "mqtt"
    /\ UNCHANGED <<nvs, switch, regular, mode, wifi, responder, gotIp, synced,
                   client, telemetry, faults>>

\* init_sntp registers the server and the callback; without a stored server
\* it is skipped.
InitSntp ==
    /\ main = "sntp"
    /\ sntp' = IF Loads("ntp_server") THEN "configured" ELSE sntp
    /\ main' = "mqtt"
    /\ UNCHANGED <<nvs, switch, regular, mode, wifi, responder, gotIp, synced,
                   client, telemetry, faults>>

\* Mutant: init_hmqtt starts the client itself.
InitMqttStarts ==
    /\ main = "mqtt"
    /\ client' = IF Loads("mqtt") THEN "started" ELSE "null"
    /\ main' = "startSntp"
    /\ UNCHANGED <<nvs, switch, regular, mode, wifi, responder, gotIp, sntp,
                   synced, telemetry, faults>>

\* init_hmqtt returns early unless URL, user name and password load;
\* esp_mqtt_client_init may return null all the same.
InitMqtt ==
    /\ main = "mqtt"
    /\ \/ client' = (IF Loads("mqtt") THEN "ready" ELSE "null") /\ UNCHANGED faults
       \/ Loads("mqtt") /\ client' = "null" /\ Fault
    /\ main' = "startSntp"
    /\ UNCHANGED <<nvs, switch, regular, mode, wifi, responder, gotIp, sntp,
                   synced, telemetry>>

StartSntp ==
    /\ main = "startSntp"
    /\ sntp' = IF sntp = "configured" THEN "running" ELSE "unserved"
    /\ main' = "startTelemetry"
    /\ UNCHANGED <<nvs, switch, regular, mode, wifi, responder, gotIp, synced,
                   client, telemetry, faults>>

\* start_telemetry; a failed xTaskCreate is only logged.
StartTelemetry ==
    /\ main = "startTelemetry"
    /\ \/ telemetry' = TRUE /\ UNCHANGED faults
       \/ telemetry' = FALSE /\ Fault
    /\ main' = "blink"
    /\ UNCHANGED <<nvs, switch, regular, mode, wifi, responder, gotIp, sntp,
                   synced, client>>

MainStep == \/ Boot \/ InitFlash \/ InitFlashErases \/ InitFlashAborts
            \/ EnterSetup \/ EnterOperation
            \/ InitSntp \/ InitMqtt \/ StartSntp \/ StartTelemetry

-----------------------------------------------------------------------------
(***************************************************************************)
(* The event loop task: wifiEventHandlerSTA.                               *)
(***************************************************************************)

\* WIFI_EVENT_STA_START: esp_wifi_connect
StaStarted ==
    /\ wifi = "started"
    /\ wifi' = "connecting"
    /\ UNCHANGED <<nvs, switch, regular, main, mode, responder, gotIp, sntp,
                   synced, client, telemetry, faults>>

\* IP_EVENT_STA_GOT_IP: BIT0 is set in the responder's event group.  An SSID
\* that does not fit was not loaded by init_wifi_sta and no network answers.
GotIp ==
    /\ wifi = "connecting" /\ Loads("wifi_ssid")
    /\ responder # "created"
    /\ wifi' = "online"
    /\ gotIp' = TRUE
    /\ UNCHANGED <<nvs, switch, regular, main, mode, responder, sntp, synced,
                   client, telemetry, faults>>

\* The address arrives before the responder task ran: its event group does
\* not exist and FreeRTOS asserts.
GotIpTooEarly ==
    /\ wifi = "connecting" /\ Loads("wifi_ssid")
    /\ responder = "created"
    /\ Restart
    /\ UNCHANGED faults

\* Mutant: the handler does not reconnect.
DroppedForGood ==
    /\ Fault
    /\ wifi = "online"
    /\ wifi' = "disconnected"
    /\ client' = IF client = "connected" THEN "started" ELSE client
    /\ UNCHANGED <<nvs, switch, regular, main, mode, responder, gotIp, sntp,
                   synced, telemetry>>

\* WIFI_EVENT_STA_DISCONNECTED: esp_wifi_connect again, without a delay.
Dropped ==
    /\ Fault
    /\ wifi = "online"
    /\ wifi' = "connecting"
    /\ client' = IF client = "connected" THEN "started" ELSE client
    /\ UNCHANGED <<nvs, switch, regular, main, mode, responder, gotIp, sntp,
                   synced, telemetry>>

(***************************************************************************)
(* The responder task of start_wifi.                                       *)
(***************************************************************************)

\* xEventGroupCreate, then xEventGroupWaitBits
ResponderWaits ==
    /\ responder = "created"
    /\ responder' = "waiting"
    /\ UNCHANGED <<nvs, switch, regular, main, mode, wifi, gotIp, sntp, synced,
                   client, telemetry, faults>>

\* The wait is over and the task function returns: the wrapper FreeRTOS puts
\* around it (CONFIG_FREERTOS_TASK_FUNCTION_WRAPPER) aborts, and the panic
\* handler reboots (CONFIG_ESP_SYSTEM_PANIC_PRINT_REBOOT).
ResponderReturns ==
    /\ responder = "waiting" /\ gotIp
    /\ Restart
    /\ UNCHANGED faults

(***************************************************************************)
(* SNTP and the MQTT client.                                               *)
(***************************************************************************)

\* continue_after_time_sync_cb, on every synchronization: with a time zone
\* start_hmqtt is called, which does nothing without a client or if it runs.
TimeSync ==
    /\ sntp = "running" /\ wifi = "online"
    /\ synced' = TRUE
    /\ client' = IF Loads("locale_tz") /\ client = "ready"
                 THEN "started" ELSE client
    /\ UNCHANGED <<nvs, switch, regular, main, mode, wifi, responder, gotIp,
                   sntp, telemetry, faults>>

\* The client opens its session with the broker.
SessionOpens ==
    /\ client = "started" /\ wifi = "online"
    /\ client' = "connected"
    /\ UNCHANGED <<nvs, switch, regular, main, mode, wifi, responder, gotIp,
                   sntp, synced, telemetry, faults>>

-----------------------------------------------------------------------------
PowerCycle == Fault /\ Restart

\* The user moves the switch.
MoveSwitch ==
    /\ Fault
    /\ switch' = ~switch
    /\ UNCHANGED <<nvs, regular, main, mode, wifi, responder, gotIp, sntp,
                   synced, client, telemetry>>

\* The LED loop of a controller on which nothing else happens.
Idle ==
    /\ main = "blink"
    /\ UNCHANGED vars

Next ==
    \/ MainStep
    \/ StaStarted \/ GotIp \/ GotIpTooEarly \/ Dropped
    \/ ResponderWaits \/ ResponderReturns
    \/ TimeSync \/ SessionOpens
    \/ PowerCycle \/ MoveSwitch \/ Idle

\* Every task gets the processor; the access point, the time server and the
\* broker answer.
Spec ==
    /\ Init /\ [][Next]_vars
    /\ WF_vars(MainStep)
    /\ WF_vars(StaStarted) /\ WF_vars(GotIp)
    /\ WF_vars(ResponderWaits) /\ WF_vars(ResponderReturns)
    /\ WF_vars(TimeSync) /\ WF_vars(SessionOpens)

-----------------------------------------------------------------------------
\* Type invariant of the start-up.
TypeOK ==
    /\ nvs \in [Keys -> {"absent", "empty", "fits", "long"}]
    /\ switch \in BOOLEAN /\ regular \in BOOLEAN
    /\ main \in {"boot", "flash", "mode", "sntp", "mqtt", "startSntp",
                 "startTelemetry", "blink"}
    /\ mode \in {"none", "setup", "operational"}
    /\ wifi \in {"off", "ap", "started", "connecting", "online"}
    /\ responder \in {"none", "created", "waiting"}
    /\ gotIp \in BOOLEAN
    /\ sntp \in {"none", "configured", "running", "unserved"}
    /\ synced \in BOOLEAN
    /\ client \in {"none", "null", "ready", "started", "connected"}
    /\ telemetry \in BOOLEAN
    /\ faults \in 0..MaxFaults

\* The clock is never synchronized before init_hmqtt is done: the callback
\* that starts the client finds it, and need not wait for the next hourly
\* synchronization.
SyncFindsClient == synced => client # "none"

\* The MQTT client runs only on a set clock and with the time zone loaded:
\* its TLS certificates are checked against the time.
SessionNeedsClock ==
    client \in {"started", "connected"} => synced /\ Loads("locale_tz")

\* Setup mode suspends the operational services, whatever ran before the
\* restart and whenever the switch is moved.
SetupIsQuiet ==
    mode = "setup" => /\ wifi = "ap"
                      /\ sntp = "none" /\ client = "none" /\ ~telemetry

\* A controller that starts with the switch grounded brings up the access
\* point, whatever is stored and however often it restarted before, unless
\* another fault interferes.
SwitchLeadsToSetup ==
    \A f \in 0..MaxFaults :
        (main = "boot" /\ ~switch /\ faults = f)
            ~> ((mode = "setup" /\ wifi = "ap") \/ faults > f)

\* A provisioned controller ends up with a session to the broker that lasts.
SessionPersists ==
    (Provisioned /\ mode = "operational") ~> [](client = "connected")
=============================================================================
