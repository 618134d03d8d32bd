------------------------------ MODULE IConnect ------------------------------
(***************************************************************************)
(* The setup app (iconnect: MainActivity.kt, DeviceApi.kt, ConfigValue.kt) *)
(* composed with the device in setup mode: the app loads the settings,     *)
(* the user edits the copy, and `Apply' pushes the whole copy, reads the   *)
(* settings back, compares them and has the device restarted.              *)
(***************************************************************************)
EXTENDS SetupMode

CONSTANTS
    Typed,         \* values the user may type, for each key
    MaxRequests,   \* bound: requests of the app
    MaxEdits       \* bound: changes the user types

ASSUME IConnectAssumption ==
    /\ Typed \in [Keys -> SUBSET Values]
    /\ MaxRequests \in Nat /\ MaxEdits \in Nat

VARIABLES
    app,      \* what the app's coroutine waits for, and the last message
    fields,   \* the settings on the screen, or NoFields
    edits,    \* number of changes typed so far
    edited,   \* history: the keys the user changed on the screen
    gaveUp    \* history: a request of the app was left without an answer

vars == <<device, app, fields, edits, edited, gaveUp>>

\* The device, apart from the two ends of the connection.
tasks == <<mode, nvs, station, joined, events, loop, handle, server, faults>>

NoFields == <<>>
Loaded == fields # NoFields

Init ==
    /\ DeviceInit
    /\ app = [pc |-> "idle", n |-> 0, msg |-> "none", requested |-> NoBody]
    /\ fields = NoFields
    /\ edits = 0 /\ edited = {}
    /\ gaveUp = FALSE

-----------------------------------------------------------------------------
\* A request goes out, if there is a server to connect to, and the coroutine
\* waits for its answer (isLoading).
Send(pc, kind, body, shown) ==
    /\ app.n < MaxRequests
    /\ requests' = IF station /\ server.pc # "off"
                   THEN requests \cup {Request(app.n + 1, kind, body)}
                   ELSE requests
    /\ answer' = NoAnswer
    /\ app' = [shown EXCEPT !.pc = pc, !.n = app.n + 1]

\* connect(), by the button or at the launch of the app.
Connect ==
    /\ app.pc = "idle"
    /\ Send("load", "status", NoBody, [app EXCEPT !.msg = "none"])
    /\ UNCHANGED <<tasks, fields, edits, edited, gaveUp>>

\* updateField: the text fields stay enabled while a request is under way.
UpdateField ==
    /\ Loaded
    /\ edits < MaxEdits
    /\ edits' = edits + 1
    /\ \E k \in Keys : \E v \in Typed[k] :
        /\ v # fields[k]
        /\ fields' = [fields EXCEPT ![k] = v]
        /\ edited' = edited \cup {k}
    /\ UNCHANGED <<device, app, gaveUp>>

\* set(): pushes all the fields of the screen as they are now.
Apply ==
    /\ app.pc = "idle" /\ Loaded
    /\ Send("push", "set", fields, [app EXCEPT !.msg = "none", !.requested = fields])
    /\ UNCHANGED <<tasks, fields, edits, edited, gaveUp>>

Waiting == app.pc # "idle"
Arrived(pc, code) == app.pc = pc /\ answer.n = app.n /\ answer.code = code

EndWith(msg) == app' = [app EXCEPT !.pc = "idle", !.msg = msg, !.requested = NoBody]

\* toConfigFields of what fetchStatus returns.
Fields(body) == [k \in Keys |-> Parsed[body[k]]]

\* fetchStatus of connect() returns.
LoadDone ==
    /\ Arrived("load", "ok")
    /\ fields' = Fields(answer.body)
    /\ answer' = NoAnswer
    /\ EndWith("loaded")
    /\ UNCHANGED <<tasks, requests, edits, edited, gaveUp>>

\* Mutant: set() takes the empty answer to its push for the confirmation.
PushTrusted ==
    /\ Arrived("push", "ok")
    /\ answer' = NoAnswer
    /\ EndWith("verified")
    /\ UNCHANGED <<tasks, requests, fields, edits, edited, gaveUp>>

\* pushStatus returns: read the settings back.
PushDone ==
    /\ Arrived("push", "ok")
    /\ Send("verify", "status", NoBody, app)
    /\ UNCHANGED <<tasks, fields, edits, edited, gaveUp>>

Verdict == IF Fields(answer.body) = app.requested THEN "verified" ELSE "not accepted"

\* fetchStatus of set() returns: show, compare and, with the box checked,
\* go on to the restart, accepted or not.
VerifyDone ==
    /\ Arrived("verify", "ok")
    /\ fields' = Fields(answer.body)
    /\ \/ Send("restart", "restart", NoBody, [app EXCEPT !.msg = Verdict])
       \/ EndWith(Verdict) /\ answer' = NoAnswer /\ UNCHANGED requests
    /\ UNCHANGED <<tasks, edits, edited, gaveUp>>

\* checkSuccess or JSONObject throws.
AnswerFails ==
    /\ Waiting
    /\ answer.n = app.n /\ answer.code \in {"not found", "closed", "garbled"}
    /\ answer' = NoAnswer
    /\ EndWith(CASE app.pc = "load" -> "load failed"
                 [] app.pc = "restart" -> app.msg
                 [] OTHER -> "apply failed")
    /\ UNCHANGED <<tasks, requests, fields, edits, edited, gaveUp>>

\* Unreachable, or no answer for TIMEOUT_MS: the connection is closed. The
\* device may still read what was sent. A restart request that fails leaves the message of the verdict.
GiveUp ==
    /\ Waiting
    /\ answer' = NoAnswer
    /\ EndWith(CASE app.pc = "load" -> "load failed"
                 [] app.pc = "restart" -> app.msg
                 [] OTHER -> "apply failed")
    /\ gaveUp' = (gaveUp \/ app.pc # "restart")
    /\ UNCHANGED <<tasks, requests, fields, edits, edited>>

AppStep == LoadDone \/ PushDone \/ VerifyDone \/ AnswerFails \/ GiveUp
User == Connect \/ UpdateField \/ Apply

appVars == <<app, fields, edits, edited, gaveUp>>

LoopRuns == LoopStep /\ UNCHANGED appVars
ServerRuns == ServerStep /\ UNCHANGED appVars

\* The app gave up on the push the server is receiving and closed its
\* connection.
Closed == app.pc # "push" \/ app.n # server.req.n

PhoneMoves == (Phone \/ DeviceFault(Closed)) /\ UNCHANGED appVars
Outage == (\E erased \in BOOLEAN : PowerCycle(erased)) /\ UNCHANGED appVars

\* The app has used up its requests.
Finished ==
    /\ app.pc = "idle" /\ app.n = MaxRequests
    /\ UNCHANGED vars

Next == User \/ AppStep \/ LoopRuns \/ ServerRuns \/ PhoneMoves \/ Outage \/ Finished

\* The device's two tasks run; the app acts on an answer or gives up.
Spec == Init /\ [][Next]_vars
             /\ WF_vars(LoopRuns) /\ WF_vars(ServerRuns) /\ WF_vars(AppStep)

-----------------------------------------------------------------------------
RequestType == [n : 0..MaxRequests, kind : {"none", "status", "set", "restart"},
                body : Settings, cut : BOOLEAN]

\* Type invariant of the app and the device in setup mode.
TypeOK ==
    /\ mode \in {"setup", "regular"}
    /\ nvs \in Settings
    /\ station \in BOOLEAN
    /\ joined \in 0..MaxAssociations
    /\ events \in Seq({"connected", "disconnected"})
    /\ loop \in {"wait", "stop"}
    /\ handle \in {"null", "server"}
    /\ server \in [pc : {"off", "select", "recv", "store", "answer"},
                   req : RequestType, line : DOMAIN KeyOrder]
    /\ requests \subseteq RequestType
    /\ answer \in [n : 0..MaxRequests, code : {"none", "ok", "not found", "closed", "garbled"},
                   body : Settings]
    /\ faults \in 0..MaxFaults
    /\ app \in [pc : {"idle", "load", "push", "verify", "restart"},
                n : 0..MaxRequests,
                msg : {"none", "loaded", "load failed", "apply failed",
                       "verified", "not accepted"},
                requested : Settings]
    /\ fields \in Settings \cup {NoFields}
    /\ edits \in 0..MaxEdits
    /\ edited \subseteq Keys
    /\ gaveUp \in BOOLEAN

\* The app reads back what is stored.
Survives(value) == value \notin Long /\ Parsed[value] = value

\* When the app says `applied and verified' the partition holds what was
\* pushed, whatever the user typed meanwhile and whichever write failed. Two
\* exceptions: the app gave up on an earlier request, which the device may
\* read after the settings were read back; and a value the app misreads (too
\* long for the status report, or with a backslash) may survive a failed write.
VerifiedMeansStored ==
    [][(app.msg # "verified" /\ app'.msg = "verified" /\ ~gaveUp) =>
         \A k \in Keys : nvs[k] = app.requested[k] \/ ~Survives(nvs[k])]_vars

\* A setting the user never edited keeps its value through any sequence of
\* loads, applies, requests read late, failed writes and power losses,
\* although every apply rewrites all of them. A default the app misreads is
\* the exception.
UntouchedSettingsKept ==
    \A k \in Keys \ edited : Survives(Default[k]) => nvs[k] = Default[k]

\* httpd_stop is called for the server that runs, never for one that was
\* stopped or could not be started, and a server is only started when no
\* other runs.
OneServer ==
    /\ loop = "stop" => server.pc # "off"
    /\ (loop = "wait" /\ events # <<>> /\ Head(events) = "connected") => server.pc = "off"

\* An apply the device answered does not end as failed, unless a value is too
\* long to be sent or a double quote makes the settings unreadable, whatever
\* requests and faults came before: README.md promises that the server parses
\* and commits the settings of the app.
AnsweredApplySucceeds ==
    [][(app.pc \in {"push", "verify"} /\ app'.pc = "idle" /\ app'.msg = "apply failed"
        /\ ~gaveUp') =>
         \E k \in Keys : nvs[k] \in Quoted \/ app.requested[k] \in Long]_vars

\* httpd_stop returns and the event loop goes on, unless the phone left in
\* the middle of a body: then post_handler waits for the rest for ever.
ServerStops == (loop = "stop") ~> (loop = "wait" \/ server.req.cut)
=============================================================================
