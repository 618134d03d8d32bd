----------------------------- MODULE SetupMode -----------------------------
(***************************************************************************)
(* The device in setup mode: init_flash and NvsConfig (flash.cpp) keep the *)
(* settings in the `setup' partition, wifiEventHandlerSoftAP (soft_ap.cpp) *)
(* starts a web server when the phone associates with the access point and *)
(* stops it when the phone leaves, and the server's task answers one       *)
(* request at a time (ap_webserver.cpp).                                   *)
(*                                                                         *)
(* A setting's value is abstracted to what the code tells apart: Long ones *)
(* do not fit the 128 bytes of a status report, Quoted ones contain a      *)
(* double quote; what a JSON parser makes of backslashes is the constant   *)
(* Parsed.                                                                 *)
(***************************************************************************)
EXTENDS Integers, Sequences, FiniteSets

CONSTANTS
    KeyOrder,         \* keys of a status report, in order; the first is the SSID
    Values,           \* values of a setting; "" is the empty one
    Long,             \* values of 128 bytes and more
    Quoted,           \* values with a double quote
    Parsed,           \* a value printed between quotes, as JSONObject reads it
    Default,          \* default_initiate.h
    MaxUriHandlers,   \* config.max_uri_handlers
    MaxAssociations,  \* bound: how often the phone joins the access point
    MaxFaults         \* bound: power losses, failed writes, failed starts

Keys == {KeyOrder[i] : i \in DOMAIN KeyOrder}
Settings == [Keys -> Values]

ASSUME SetupAssumption ==
    /\ KeyOrder \in Seq(STRING) /\ KeyOrder # <<>>
    /\ "" \in Values \ (Long \cup Quoted)
    /\ Long \subseteq Values /\ Quoted \subseteq Values
    /\ Parsed \in [Values -> Values] /\ Parsed[""] = ""
    /\ Default \in Settings
    /\ MaxUriHandlers \in Nat /\ MaxAssociations \in Nat /\ MaxFaults \in Nat

VARIABLES
    mode,      \* what app_main started: "setup" or "regular"
    nvs,       \* the settings in the `setup' partition
    station,   \* the phone is associated with the access point
    joined,    \* how often it has been
    events,    \* Wi-Fi events waiting for the default event loop
    loop,      \* the event loop task: "wait", or "stop" inside httpd_stop
    handle,    \* server_instance: "null" or "server"
    server,    \* the web server's task
    requests,  \* requests the phone sent and the server has not read
    answer,    \* the answer on its way to the phone
    faults     \* number of faults so far

device == <<mode, nvs, station, joined, events, loop, handle, server,
            requests, answer, faults>>

-----------------------------------------------------------------------------
NoBody == [k \in Keys |-> ""]

\* cut: the phone was gone before it had sent the whole body.
Request(n, kind, body) == [n |-> n, kind |-> kind, body |-> body, cut |-> FALSE]
NoRequest == Request(0, "none", NoBody)
NoAnswer == [n |-> 0, code |-> "none", body |-> NoBody]

\* The routes of register_routes, in order.
Routes == <<"root", "version", "restart", "status", "set">>

\* httpd_register_uri_handler refuses a route once the table is full; the
\* result is not looked at.
Registered == {Routes[i] : i \in {j \in DOMAIN Routes : j <= MaxUriHandlers}}

Server(pc) == [pc |-> pc, req |-> NoRequest, line |-> 1]
Off == Server("off")
Idle == Server("select")

\* getStr into a zeroed buffer of 128 bytes: a value that does not fit is
\* not copied.
GetStr(settings, k) == IF settings[k] \in Long THEN "" ELSE settings[k]

\* get_status_handler: the values are printed between quotes as they are.
StatusReport == [k \in Keys |-> GetStr(nvs, k)]
Readable(settings) == \A k \in Keys : settings[k] \notin Quoted

\* nvsCreateKeyStr of init_flash: keys that are not there get their default.
\* The partition is erased when it cannot be initialized.
StoredAtBoot(erased) == IF erased THEN Default ELSE nvs

DeviceInit ==
    /\ mode = "setup"
    /\ nvs = Default
    /\ station = FALSE /\ joined = 0
    /\ events = <<>> /\ loop = "wait" /\ handle = "null"
    /\ server = Off /\ requests = {} /\ answer = NoAnswer
    /\ faults = 0

\* app_main: setup mode with the button held or without an SSID.
Boot(held, erased) ==
    /\ nvs' = StoredAtBoot(erased)
    /\ mode' = IF held \/ nvs'[KeyOrder[1]] = "" THEN "setup" ELSE "regular"
    /\ station' = FALSE
    /\ events' = <<>> /\ loop' = "wait" /\ handle' = "null"
    /\ server' = Off /\ requests' = {} /\ answer' = NoAnswer

PowerCycle(erased) ==
    /\ faults < MaxFaults
    /\ faults' = faults + 1
    /\ \E held \in BOOLEAN : Boot(held, erased)
    /\ UNCHANGED joined

-----------------------------------------------------------------------------
(***************************************************************************)
(* The access point and the default event loop.                            *)
(***************************************************************************)
Associate ==
    /\ mode = "setup" /\ ~station
    /\ joined < MaxAssociations
    /\ station' = TRUE
    /\ joined' = joined + 1
    /\ events' = Append(events, "connected")
    /\ UNCHANGED <<mode, nvs, loop, handle, server, requests, answer, faults>>

\* What the phone had not sent yet may never come.
Dissociate ==
    /\ station
    /\ station' = FALSE
    /\ events' = Append(events, "disconnected")
    /\ \E lost \in BOOLEAN :
        /\ requests' = {[r EXCEPT !.cut = @ \/ lost] : r \in requests}
        /\ server' = IF server.pc = "recv"
                     THEN [server EXCEPT !.req.cut = @ \/ lost] ELSE server
    /\ answer' = NoAnswer
    /\ UNCHANGED <<mode, nvs, joined, loop, handle, faults>>

\* Mutant: a failed start keeps the old handle.
StartFailsKeepsHandle ==
    /\ loop = "wait" /\ events # <<>> /\ Head(events) = "connected"
    /\ faults < MaxFaults
    /\ faults' = faults + 1
    /\ events' = Tail(events)
    /\ UNCHANGED <<mode, nvs, station, joined, loop, handle, server, requests, answer>>

\* httpd_start fails: start_webserver returns nullptr.
StartFails ==
    /\ loop = "wait" /\ events # <<>> /\ Head(events) = "connected"
    /\ faults < MaxFaults
    /\ faults' = faults + 1
    /\ events' = Tail(events)
    /\ handle' = "null"
    /\ UNCHANGED <<mode, nvs, station, joined, loop, server, requests, answer>>

\* WIFI_EVENT_AP_STACONNECTED.
StartServer ==
    /\ loop = "wait" /\ events # <<>> /\ Head(events) = "connected"
    /\ server = Off
    /\ events' = Tail(events)
    /\ handle' = "server"
    /\ server' = Idle
    /\ UNCHANGED <<mode, nvs, station, joined, loop, requests, answer, faults>>

\* WIFI_EVENT_AP_STADISCONNECTED: httpd_stop(NULL) returns an error, else it
\* waits for the server's task.
CallStop ==
    /\ loop = "wait" /\ events # <<>> /\ Head(events) = "disconnected"
    /\ events' = Tail(events)
    /\ loop' = IF handle = "null" THEN "wait" ELSE "stop"
    /\ UNCHANGED <<mode, nvs, station, joined, handle, server, requests, answer, faults>>

\* The server's task ends between two requests and its sockets are closed.
\* server_instance keeps its value.
StopReturns ==
    /\ loop = "stop"
    /\ server.pc = "select"
    /\ loop' = "wait"
    /\ server' = Off
    /\ requests' = {}
    /\ UNCHANGED <<mode, nvs, station, joined, events, handle, answer, faults>>

LoopStep == StartServer \/ StartFails \/ CallStop \/ StopReturns

-----------------------------------------------------------------------------
(***************************************************************************)
(* The web server's task. Requests on different connections are read in    *)
(* the order in which they become readable, which can be any.              *)
(***************************************************************************)
Answered(req, code, body) ==
    answer' = IF station THEN [n |-> req.n, code |-> code, body |-> body] ELSE NoAnswer

Read(kind, req) ==
    /\ server.pc = "select"
    /\ req \in requests /\ req.kind = kind
    /\ requests' = requests \ {req}

Refuse(kind) ==
    /\ kind \notin Registered
    /\ \E req \in requests :
        /\ Read(kind, req)
        /\ Answered(req, "not found", NoBody)
    /\ UNCHANGED <<mode, nvs, station, joined, events, loop, handle, server, faults>>

ServeStatus ==
    /\ "status" \in Registered
    /\ \E req \in requests :
        /\ Read("status", req)
        /\ Answered(req, IF Readable(StatusReport) THEN "ok" ELSE "garbled",
                    StatusReport)
    /\ UNCHANGED <<mode, nvs, station, joined, events, loop, handle, server, faults>>

\* get_command_restart: esp_restart() does not return, nothing is answered.
ServeRestart ==
    /\ "restart" \in Registered
    /\ \E req \in requests : Read("restart", req)
    /\ \E held \in BOOLEAN : Boot(held, FALSE)
    /\ UNCHANGED <<joined, faults>>

\* post_handler: the headers are there, the body is yet to come.
ServeSet ==
    /\ "set" \in Registered
    /\ \E req \in requests :
        /\ Read("set", req)
        /\ server' = [server EXCEPT !.pc = "recv", !.req = req]
    /\ UNCHANGED <<mode, nvs, station, joined, events, loop, handle, answer, faults>>

\* post_handler refuses a body of 1024 bytes and more, and the server closes
\* the connection. Values that fit a status report do not add up to that.
RefuseBody ==
    /\ "set" \in Registered
    /\ \E req \in requests :
        /\ Read("set", req)
        /\ \E k \in Keys : req.body[k] \in Long
        /\ Answered(req, "closed", NoBody)
    /\ UNCHANGED <<mode, nvs, station, joined, events, loop, handle, server, faults>>

\* Mutant: a body that stops short is parsed as far as it came.
ReceivedShort ==
    /\ server.pc = "recv"
    /\ server' = [server EXCEPT !.pc = "store",
                    !.req.body = IF server.req.cut THEN NoBody ELSE @]
    /\ UNCHANGED <<mode, nvs, station, joined, events, loop, handle, requests, answer, faults>>

\* The receive loop ends when the whole body is there. After a timeout it
\* goes on, however often: while the rest does not come, nothing happens.
ReceiveBody ==
    /\ server.pc = "recv"
    /\ ~server.req.cut
    /\ server' = [server EXCEPT !.pc = "store"]
    /\ UNCHANGED <<mode, nvs, station, joined, events, loop, handle, requests, answer, faults>>

\* recv reports an error or the end of the stream: the phone is back and its
\* stack resets the connection, or the app closed it in mid-body.
ReceiveFails(closed) ==
    /\ server.pc = "recv"
    /\ station /\ (server.req.cut \/ closed)
    /\ server' = Idle
    /\ UNCHANGED <<mode, nvs, station, joined, events, loop, handle, requests, answer, faults>>

\* Mutant: strtok_r is given the body again.
NextLineRestarts == server' = [server EXCEPT !.line = 1]

\* Mutant: the last line is taken for one more.
NextLinePastEnd == server' = IF server.line > Len(KeyOrder)
                             THEN [server EXCEPT !.pc = "answer"]
                             ELSE [server EXCEPT !.line = @ + 1]

NextLine == server' = IF server.line = Len(KeyOrder)
                      THEN [server EXCEPT !.pc = "answer"]
                      ELSE [server EXCEPT !.line = @ + 1]

\* setStr for one line of the body: set and commit.
StoreLine ==
    /\ server.pc = "store"
    /\ nvs' = [nvs EXCEPT ![KeyOrder[server.line]] = server.req.body[KeyOrder[server.line]]]
    /\ NextLine
    /\ UNCHANGED <<mode, station, joined, events, loop, handle, requests, answer, faults>>

\* setStr returns false, which post_handler does not look at.
StoreFails ==
    /\ server.pc = "store"
    /\ faults < MaxFaults
    /\ faults' = faults + 1
    /\ NextLine
    /\ UNCHANGED <<mode, nvs, station, joined, events, loop, handle, requests, answer>>

EndSet ==
    /\ server.pc = "answer"
    /\ Answered(server.req, "ok", NoBody)
    /\ server' = Idle
    /\ UNCHANGED <<mode, nvs, station, joined, events, loop, handle, requests, faults>>

ServerStep == \/ \E kind \in {"status", "set"} : Refuse(kind)
              \/ ServeStatus \/ ServeRestart \/ ServeSet \/ RefuseBody
              \/ ReceiveBody \/ StoreLine \/ EndSet

DeviceFault(closed) == StoreFails \/ ReceiveFails(closed)
Phone == Associate \/ Dissociate
=============================================================================
