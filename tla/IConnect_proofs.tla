--------------------------- MODULE IConnect_proofs ---------------------------
(***************************************************************************)
(* Proofs about the setup app and the device for any settings, any route   *)
(* table and any number of requests, edits, associations and faults.       *)
(***************************************************************************)
EXTENDS IConnect, TLAPS

\* The steps of the device, apart from the app.
Device == \/ LoopStep \/ ServerStep \/ Phone \/ DeviceFault(Closed)
          \/ \E erased \in BOOLEAN : PowerCycle(erased)

LEMMA Steps == [Next]_vars => User \/ AppStep \/ (Device /\ UNCHANGED appVars) \/ UNCHANGED vars
  BY DEF Next, LoopRuns, ServerRuns, PhoneMoves, Outage, Device, Finished

LEMMA Constants ==
    /\ DOMAIN KeyOrder = 1..Len(KeyOrder) /\ Len(KeyOrder) \in Nat \ {0}
    /\ 1 \in DOMAIN KeyOrder
    /\ \A i \in DOMAIN KeyOrder : KeyOrder[i] \in Keys
    /\ "" \in Values /\ NoBody \in Settings
    /\ Default \in Settings
<1>1. KeyOrder \in Seq(STRING) /\ KeyOrder # <<>>
  BY SetupAssumption
<1>2. DOMAIN KeyOrder = 1..Len(KeyOrder) /\ Len(KeyOrder) \in Nat \ {0}
  BY <1>1
<1>3. 1 \in DOMAIN KeyOrder
  BY <1>2
<1>4. \A i \in DOMAIN KeyOrder : KeyOrder[i] \in Keys
  BY DEF Keys
<1>5. "" \in Values
  BY SetupAssumption
<1>6. NoBody \in Settings
  BY <1>5 DEF Settings, NoBody
<1>7. Default \in Settings
  BY SetupAssumption
<1> QED BY <1>2, <1>3, <1>4, <1>5, <1>6, <1>7

LEMMA Bounds ==
    /\ 0 \in 0..MaxRequests /\ 0 \in 0..MaxEdits /\ 0 \in 0..MaxAssociations
    /\ 0 \in 0..MaxFaults
    /\ \A n \in 0..MaxRequests : n < MaxRequests => n + 1 \in 0..MaxRequests
    /\ \A n \in 0..MaxEdits : n < MaxEdits => n + 1 \in 0..MaxEdits
    /\ \A n \in 0..MaxAssociations : n < MaxAssociations => n + 1 \in 0..MaxAssociations
    /\ \A n \in 0..MaxFaults : n < MaxFaults => n + 1 \in 0..MaxFaults
<1>1. MaxRequests \in Nat /\ MaxEdits \in Nat
  BY IConnectAssumption
<1>2. MaxAssociations \in Nat /\ MaxFaults \in Nat
  BY SetupAssumption
<1>3. ASSUME NEW m \in Nat
      PROVE  0 \in 0..m /\ \A n \in 0..m : n < m => n + 1 \in 0..m
  OBVIOUS
<1> QED BY <1>1, <1>2, <1>3

-----------------------------------------------------------------------------
RequestOf(pc) == [pc : pc, req : RequestType, line : DOMAIN KeyOrder]
ServerType == RequestOf({"off", "select", "recv", "store", "answer"})
AnswerType == [n : 0..MaxRequests, code : {"none", "ok", "not found", "closed", "garbled"},
               body : Settings]

AppType == [pc : {"idle", "load", "push", "verify", "restart"}, n : 0..MaxRequests,
            msg : {"none", "loaded", "load failed", "apply failed", "verified", "not accepted"},
            requested : Settings]

LEMMA FieldTypes == \A body \in Settings : Fields(body) \in Settings
  BY SetupAssumption DEF Fields, Settings

LEMMA Blank ==
    /\ NoRequest \in RequestType /\ NoAnswer \in AnswerType
    /\ Off \in ServerType /\ Idle \in ServerType
<1>1. NoRequest \in RequestType /\ NoAnswer \in AnswerType
  BY Constants, Bounds DEF NoRequest, Request, RequestType, NoAnswer, AnswerType
<1>2. Off \in ServerType /\ Idle \in ServerType
  BY <1>1, Constants DEF Off, Idle, Server, ServerType, RequestOf
<1> QED BY <1>1, <1>2

\* A request the app sends, and the ways its coroutine goes on.
LEMMA SendTypes ==
    ASSUME TypeOK, NEW pc \in {"load", "push", "verify", "restart"},
           NEW kind \in {"status", "set", "restart"}, NEW body \in Settings,
           NEW shown, Send(pc, kind, body, shown),
           shown \in AppType
    PROVE  /\ requests' \subseteq RequestType
           /\ answer' \in AnswerType
           /\ app' \in AppType
<1>1. app.n + 1 \in 0..MaxRequests
  <2>1. app.n \in 0..MaxRequests
    BY DEF TypeOK
  <2> QED BY <2>1, Bounds DEF Send
<1>2. Request(app.n + 1, kind, body) \in RequestType
  BY <1>1 DEF Request, RequestType
<1>3. requests' \subseteq RequestType
  BY <1>2 DEF Send, TypeOK
<1>4. answer' \in AnswerType
  BY Blank DEF Send
<1> QED BY <1>1, <1>3, <1>4 DEF Send, AppType

LEMMA EndTypes ==
    ASSUME TypeOK, NEW msg \in {"none", "loaded", "load failed", "apply failed",
                                "verified", "not accepted"}, EndWith(msg)
    PROVE  app' \in AppType
  BY Constants DEF EndWith, TypeOK, AppType

LEMMA InitTypes == Init => TypeOK
<1> SUFFICES ASSUME Init PROVE TypeOK
  OBVIOUS
<1>1. /\ mode = "setup" /\ nvs \in Settings /\ station \in BOOLEAN
      /\ joined \in 0..MaxAssociations /\ faults \in 0..MaxFaults
      /\ loop = "wait" /\ handle = "null" /\ events = <<>>
  BY Constants, Bounds DEF Init, DeviceInit
<1>5. events \in Seq({"connected", "disconnected"})
  BY <1>1
<1>2. server \in ServerType /\ requests \subseteq RequestType /\ answer \in AnswerType
  BY Blank DEF Init, DeviceInit
<1>3. app \in [pc : {"idle"}, n : 0..MaxRequests, msg : {"none"}, requested : Settings]
  BY Constants, Bounds DEF Init
<1>4. fields = NoFields /\ edits \in 0..MaxEdits /\ edited \subseteq Keys /\ gaveUp \in BOOLEAN
  BY Bounds DEF Init
<1> QED BY <1>1, <1>2, <1>3, <1>4, <1>5 DEF TypeOK, ServerType, RequestOf, AnswerType

\* The app and its user keep the types.
LEMMA AppTypes == ASSUME TypeOK, User \/ AppStep PROVE TypeOK'
<1>1. app \in AppType /\ NoBody \in Settings
  BY Constants DEF TypeOK, AppType
<1>2. SUFFICES /\ requests' \subseteq RequestType /\ answer' \in AnswerType /\ app' \in AppType
               /\ fields' \in Settings \cup {NoFields} /\ edits' \in 0..MaxEdits
               /\ edited' \subseteq Keys /\ gaveUp' \in BOOLEAN /\ UNCHANGED tasks
  BY DEF TypeOK, tasks, AnswerType, AppType
<1>3. requests \subseteq RequestType /\ answer \in AnswerType /\ NoAnswer \in AnswerType
  BY Blank DEF TypeOK, AnswerType
<1>4. CASE Connect
  <2>1. [app EXCEPT !.msg = "none"] \in AppType
    BY <1>1 DEF AppType
  <2> QED BY <1>1, <1>4, <2>1, SendTypes DEF Connect, TypeOK
<1>5. CASE UpdateField
  <2>1. edits' \in 0..MaxEdits
    <3>1. edits \in 0..MaxEdits
      BY DEF TypeOK
    <3> QED BY <1>5, <3>1, Bounds DEF UpdateField
  <2>2. fields' \in Settings /\ edited' \subseteq Keys
    <3>1. fields \in [Keys -> Values] /\ edited \subseteq Keys
      BY <1>5 DEF UpdateField, TypeOK, Loaded, Settings
    <3>2. PICK k \in Keys, v \in Values :
             fields' = [fields EXCEPT ![k] = v] /\ edited' = edited \cup {k}
      <4>1. \A k \in Keys : Typed[k] \subseteq Values
        BY IConnectAssumption
      <4> QED BY <1>5, <4>1 DEF UpdateField
    <3> QED BY <3>1, <3>2 DEF Settings
  <2> QED BY <1>1, <1>3, <1>5, <2>1, <2>2 DEF UpdateField, TypeOK, device, tasks
<1>6. CASE Apply
  <2>1. fields \in Settings
    BY <1>6 DEF Apply, Loaded, TypeOK
  <2>2. [app EXCEPT !.msg = "none", !.requested = fields] \in AppType
    BY <1>1, <2>1 DEF AppType
  <2> QED BY <1>6, <2>1, <2>2, SendTypes DEF Apply, TypeOK
<1>7. CASE LoadDone
  BY <1>3, <1>7, EndTypes, FieldTypes DEF LoadDone, TypeOK
<1>8. CASE PushDone
  BY <1>1, <1>8, SendTypes DEF PushDone, TypeOK
<1>9. CASE VerifyDone
  <2>1. Verdict \in {"verified", "not accepted"}
    BY DEF Verdict
  <2>2. [app EXCEPT !.msg = Verdict] \in AppType
    BY <1>1, <2>1 DEF AppType
  <2>3. CASE Send("restart", "restart", NoBody, [app EXCEPT !.msg = Verdict])
    BY <1>1, <1>9, <2>2, <2>3, SendTypes, FieldTypes DEF VerifyDone, TypeOK
  <2>4. CASE EndWith(Verdict) /\ answer' = NoAnswer /\ UNCHANGED requests
    <3>1. app' \in AppType
      BY <2>1, <2>4, EndTypes
    <3> QED BY <1>3, <1>9, <2>4, <3>1, FieldTypes DEF VerifyDone, TypeOK
  <2> QED BY <1>9, <2>3, <2>4 DEF VerifyDone
<1>10. CASE AnswerFails
  <2>1. PICK msg \in {"load failed", "apply failed", app.msg} : EndWith(msg)
    BY <1>10 DEF AnswerFails
  <2>2. app' \in AppType
    <3>1. msg \in {"none", "loaded", "load failed", "apply failed", "verified", "not accepted"}
      BY <1>1 DEF AppType
    <3> QED BY <2>1, <3>1, EndTypes
  <2> QED BY <1>3, <1>10, <2>2 DEF AnswerFails, TypeOK
<1>11. CASE GiveUp
  <2>1. PICK msg \in {"load failed", "apply failed", app.msg} : EndWith(msg)
    BY <1>11 DEF GiveUp
  <2>2. app' \in AppType
    <3>1. msg \in {"none", "loaded", "load failed", "apply failed", "verified", "not accepted"}
      BY <1>1 DEF AppType
    <3> QED BY <2>1, <3>1, EndTypes
  <2>3. gaveUp' \in BOOLEAN
    BY <1>11 DEF GiveUp, TypeOK
  <2> QED BY <1>3, <1>11, <2>2, <2>3 DEF GiveUp, TypeOK
<1> QED BY <1>4, <1>5, <1>6, <1>7, <1>8, <1>9, <1>10, <1>11 DEF User, AppStep

LEMMA NextLineTypes == ASSUME server \in ServerType, NextLine PROVE server' \in ServerType
<1>1. server.line \in 1..Len(KeyOrder) /\ Len(KeyOrder) \in Nat
  BY Constants DEF ServerType, RequestOf
<1>2. ASSUME NEW n \in Nat, NEW i \in 1..n, i # n PROVE i + 1 \in 1..n
  BY <1>2
<1>3. server.line # Len(KeyOrder) => server.line + 1 \in DOMAIN KeyOrder
  <2>1. DOMAIN KeyOrder = 1..Len(KeyOrder)
    BY Constants
  <2> QED BY <1>1, <1>2, <2>1
<1> QED BY <1>3 DEF NextLine, ServerType, RequestOf

LEMMA BootTypes ==
    ASSUME nvs \in Settings, NEW held \in BOOLEAN, NEW erased \in BOOLEAN, Boot(held, erased)
    PROVE  /\ nvs' \in Settings /\ mode' \in {"setup", "regular"} /\ station' = FALSE
           /\ events' = <<>> /\ loop' = "wait" /\ handle' = "null" /\ server' = Off
           /\ requests' = {} /\ answer' = NoAnswer
<1>1. nvs' \in Settings
  BY Constants DEF Boot, StoredAtBoot
<1> QED BY <1>1 DEF Boot

\* What the web server's task may change, and how.
ServerEffect ==
    /\ server' \in ServerType /\ requests' \subseteq RequestType
    /\ answer' \in AnswerType /\ nvs' \in Settings
    /\ mode' \in {"setup", "regular"} /\ station' \in BOOLEAN
    /\ faults' = faults /\ joined' = joined
    /\ \/ UNCHANGED <<events, loop, handle>>
       \/ events' = <<>> /\ loop' = "wait" /\ handle' = "null"

LEMMA ServerTypes ==
    ASSUME server \in ServerType, requests \subseteq RequestType, answer \in AnswerType,
           nvs \in Settings, mode \in {"setup", "regular"}, station \in BOOLEAN, ServerStep
    PROVE  ServerEffect
<1>1. Off \in ServerType /\ Idle \in ServerType /\ NoAnswer \in AnswerType
      /\ NoBody \in Settings /\ Default \in Settings
  BY Blank, Constants
<1>2. ASSUME NEW req \in RequestType, NEW code \in {"ok", "not found", "closed", "garbled"},
             NEW body \in Settings, Answered(req, code, body)
      PROVE  answer' \in AnswerType
  BY <1>1, <1>2 DEF Answered, AnswerType, RequestType
<1>3. ASSUME NEW kind \in {"status", "set"}, Refuse(kind)
      PROVE  answer' \in AnswerType /\ requests' \subseteq RequestType
  <2>1. PICK req \in requests : Read(kind, req) /\ Answered(req, "not found", NoBody)
    BY <1>3 DEF Refuse
  <2> QED BY <1>1, <1>2, <2>1 DEF Read
<1>4. CASE \E kind \in {"status", "set"} : Refuse(kind)
  BY <1>3, <1>4 DEF ServerEffect, Refuse
<1>5. CASE ServeStatus
  <2>1. StatusReport \in Settings
    BY Constants DEF StatusReport, GetStr, Settings
  <2>2. PICK req \in requests :
          /\ Read("status", req)
          /\ Answered(req, IF Readable(StatusReport) THEN "ok" ELSE "garbled", StatusReport)
    BY <1>5 DEF ServeStatus
  <2>3. answer' \in AnswerType /\ requests' \subseteq RequestType
    BY <1>2, <2>1, <2>2 DEF Read
  <2> QED BY <1>5, <2>3 DEF ServerEffect, ServeStatus
<1>6. CASE ServeRestart
  <2>1. PICK held \in BOOLEAN : Boot(held, FALSE)
    BY <1>6 DEF ServeRestart
  <2> QED BY <1>1, <1>6, <2>1, BootTypes DEF ServerEffect, ServeRestart
<1>7. CASE ServeSet
  <2>1. PICK req \in requests :
          Read("set", req) /\ server' = [server EXCEPT !.pc = "recv", !.req = req]
    BY <1>7 DEF ServeSet
  <2>2. server' \in ServerType /\ requests' \subseteq RequestType
    BY <2>1 DEF Read, ServerType, RequestOf
  <2> QED BY <1>7, <2>2 DEF ServerEffect, ServeSet
<1>8. CASE ReceiveBody
  <2>1. server' \in ServerType
    BY <1>8 DEF ReceiveBody, ServerType, RequestOf
  <2> QED BY <1>8, <2>1 DEF ServerEffect, ReceiveBody
<1>9. CASE StoreLine
  <2>1. KeyOrder[server.line] \in Keys /\ server.req.body \in Settings
    BY Constants DEF ServerType, RequestOf, RequestType
  <2>2. nvs' \in Settings
    BY <1>9, <2>1 DEF StoreLine, Settings
  <2> QED BY <1>9, <2>2, NextLineTypes DEF ServerEffect, StoreLine
<1>10. CASE EndSet
  <2>1. server.req \in RequestType
    BY DEF ServerType, RequestOf
  <2> QED BY <1>1, <1>2, <1>10, <2>1 DEF ServerEffect, EndSet
<1>11. CASE RefuseBody
  <2>1. PICK req \in requests :
          Answered(req, "closed", NoBody) /\ requests' = requests \ {req}
    BY <1>11 DEF RefuseBody, Read
  <2>2. answer' \in AnswerType /\ requests' \subseteq RequestType
    BY <1>1, <1>2, <2>1
  <2> QED BY <1>11, <2>2 DEF ServerEffect, RefuseBody
<1> QED BY <1>4, <1>5, <1>6, <1>7, <1>8, <1>9, <1>10, <1>11 DEF ServerStep

\* One step of the device at a time; all of them leave the app alone.
LEMMA DeviceTypes == ASSUME TypeOK, Device, UNCHANGED appVars PROVE TypeOK'
<1>1. /\ server \in ServerType /\ requests \subseteq RequestType /\ answer \in AnswerType
      /\ nvs \in Settings /\ events \in Seq({"connected", "disconnected"})
      /\ station \in BOOLEAN /\ faults \in 0..MaxFaults /\ joined \in 0..MaxAssociations
      /\ mode \in {"setup", "regular"} /\ loop \in {"wait", "stop"}
      /\ handle \in {"null", "server"}
  BY DEF TypeOK, ServerType, RequestOf, AnswerType
<1>2. SUFFICES /\ server' \in ServerType /\ requests' \subseteq RequestType
               /\ answer' \in AnswerType /\ nvs' \in Settings
               /\ events' \in Seq({"connected", "disconnected"})
               /\ station' \in BOOLEAN /\ faults' \in 0..MaxFaults
               /\ joined' \in 0..MaxAssociations
               /\ mode' \in {"setup", "regular"} /\ loop' \in {"wait", "stop"}
               /\ handle' \in {"null", "server"}
  BY DEF TypeOK, ServerType, RequestOf, AnswerType, appVars
<1>3. Off \in ServerType /\ Idle \in ServerType /\ NoAnswer \in AnswerType
      /\ NoBody \in Settings /\ Default \in Settings
  BY Blank, Constants
<1>4. ASSUME faults < MaxFaults, faults' = faults + 1 PROVE faults' \in 0..MaxFaults
  BY <1>1, <1>4, Bounds
<1>5. ASSUME NEW held \in BOOLEAN, NEW erased \in BOOLEAN, Boot(held, erased)
      PROVE  /\ nvs' \in Settings /\ mode' \in {"setup", "regular"} /\ station' = FALSE
             /\ events' = <<>> /\ loop' = "wait" /\ handle' = "null" /\ server' = Off
             /\ requests' = {} /\ answer' = NoAnswer
  BY <1>1, <1>5, BootTypes
<1>15. <<>> \in Seq({"connected", "disconnected"})
  OBVIOUS
<1>6. CASE \E erased \in BOOLEAN : PowerCycle(erased)
  <2>1. PICK held \in BOOLEAN, erased \in BOOLEAN :
           Boot(held, erased) /\ faults < MaxFaults /\ faults' = faults + 1 /\ joined' = joined
    BY <1>6 DEF PowerCycle
  <2>2. events' \in Seq({"connected", "disconnected"}) /\ faults' \in 0..MaxFaults
    BY <1>4, <1>5, <1>15, <2>1
  <2> QED BY <1>1, <1>3, <1>5, <2>1, <2>2
<1>7. CASE Associate
  <2>1. joined' \in 0..MaxAssociations
    BY <1>1, <1>7, Bounds DEF Associate
  <2>2. events' \in Seq({"connected", "disconnected"})
    BY <1>1, <1>7 DEF Associate
  <2> QED BY <1>1, <1>7, <2>1, <2>2 DEF Associate
<1>8. CASE Dissociate
  <2>1. events' \in Seq({"connected", "disconnected"})
    BY <1>1, <1>8 DEF Dissociate
  <2>2. PICK lost \in BOOLEAN :
           /\ requests' = {[r EXCEPT !.cut = @ \/ lost] : r \in requests}
           /\ server' = IF server.pc = "recv"
                        THEN [server EXCEPT !.req.cut = @ \/ lost] ELSE server
    BY <1>8 DEF Dissociate
  <2>3. ASSUME NEW r \in RequestType PROVE [r EXCEPT !.cut = @ \/ lost] \in RequestType
    BY DEF RequestType
  <2>4. requests' \subseteq RequestType
    BY <1>1, <2>2, <2>3
  <2>5. server' \in ServerType
    BY <1>1, <2>2 DEF ServerType, RequestOf, RequestType
  <2> QED BY <1>1, <1>3, <1>8, <2>1, <2>4, <2>5 DEF Dissociate
<1>9. CASE StartServer \/ CallStop
  <2>1. events' = Tail(events) /\ events # <<>>
    BY <1>9 DEF StartServer, CallStop
  <2>2. events' \in Seq({"connected", "disconnected"})
    BY <1>1, <2>1
  <2> QED BY <1>1, <1>3, <1>9, <2>2 DEF StartServer, CallStop
<1>10. CASE StartFails
  <2>1. events' \in Seq({"connected", "disconnected"})
    BY <1>1, <1>10 DEF StartFails
  <2> QED BY <1>1, <1>4, <1>10, <2>1 DEF StartFails
<1>11. CASE StopReturns
  BY <1>1, <1>3, <1>11 DEF StopReturns
<1>12. CASE ServerStep
  <2>1. ServerEffect
    BY <1>1, <1>12, ServerTypes
  <2>2. /\ events' \in Seq({"connected", "disconnected"})
        /\ loop' \in {"wait", "stop"} /\ handle' \in {"null", "server"}
    BY <1>1, <1>15, <2>1 DEF ServerEffect
  <2> QED BY <1>1, <2>1, <2>2 DEF ServerEffect
<1>13. CASE StoreFails
  BY <1>1, <1>4, <1>13, NextLineTypes DEF StoreFails
<1>14. CASE ReceiveFails(Closed)
  BY <1>1, <1>3, <1>14 DEF ReceiveFails
<1> QED BY <1>6, <1>7, <1>8, <1>9, <1>10, <1>11, <1>12, <1>13, <1>14
        DEF Device, LoopStep, Phone, DeviceFault

LEMMA TypesStep == ASSUME TypeOK, [Next]_vars PROVE TypeOK'
<1>1. CASE UNCHANGED vars
  <2>1. /\ UNCHANGED tasks /\ requests' = requests /\ answer' = answer
        /\ app' = app /\ fields' = fields /\ edits' = edits /\ edited' = edited
        /\ gaveUp' = gaveUp
    BY <1>1 DEF vars, device, tasks
  <2>2. /\ requests \subseteq RequestType /\ answer \in AnswerType
        /\ fields \in Settings \cup {NoFields} /\ edits \in 0..MaxEdits
        /\ edited \subseteq Keys /\ gaveUp \in BOOLEAN
    BY DEF TypeOK, AnswerType
  <2>3. /\ requests' \subseteq RequestType /\ answer' \in AnswerType
        /\ fields' \in Settings \cup {NoFields} /\ edits' \in 0..MaxEdits
        /\ edited' \subseteq Keys /\ gaveUp' \in BOOLEAN
    BY <2>1, <2>2
  <2>4. app' = app /\ app \in AppType
    BY <2>1 DEF TypeOK, AppType
  <2> QED BY <2>1, <2>3, <2>4 DEF TypeOK, tasks, AnswerType
<1> QED BY <1>1, Steps, AppTypes, DeviceTypes

-----------------------------------------------------------------------------
(***************************************************************************)
(* The event loop and the web server. Association and dissociation events  *)
(* alternate, and the last one tells whether the phone is there.           *)
(***************************************************************************)
Alternate == \A i \in 1..(Len(events) - 1) : events[i] # events[i + 1]
LastIsNow == events # <<>> => (station <=> events[Len(events)] = "connected")

\* The next thing the event loop hears of, if anything, is an association.
Awaited == IF events = <<>> THEN ~station ELSE events[1] = "connected"

\* A handle that outlived its server is replaced before it is used again, and
\* the server is gone before an association is handled.
HandleInv ==
    /\ Alternate /\ LastIsNow
    /\ loop = "stop" => server.pc # "off" /\ Awaited
    /\ loop = "wait" /\ handle = "server" /\ server.pc = "off" => Awaited
    /\ loop = "wait" /\ Awaited => server.pc = "off"
    /\ handle = "null" => server.pc = "off"

\* An event is taken off the queue, or added to it.
LEMMA Handled ==
    ASSUME events \in Seq({"connected", "disconnected"}), Alternate, LastIsNow,
           events # <<>>, events' = Tail(events), station' = station
    PROVE  /\ Alternate' /\ LastIsNow'
           /\ Awaited' <=> Head(events) = "disconnected"
<1>1. Len(events) \in Nat \ {0} /\ Len(events') = Len(events) - 1
      /\ \A i \in 1..Len(events') : events'[i] = events[i + 1]
      /\ events' \in Seq({"connected", "disconnected"})
      /\ Head(events) = events[1]
      /\ \A j \in 1..Len(events) : events[j] \in {"connected", "disconnected"}
  OBVIOUS
<1>2. Alternate'
  BY <1>1 DEF Alternate
<1>3. CASE events' = <<>>
  <2>1. Len(events) = 1
    <3>1. Len(<<>>) = 0
      OBVIOUS
    <3>2. Len(events') = 0
      BY <1>3, <3>1, Zenon
    <3> QED BY <1>1, <3>2
  <2> QED BY <1>1, <1>2, <1>3, <2>1 DEF LastIsNow, Awaited
<1>4. CASE events' # <<>>
  <2>1. Len(events') \in Nat \ {0}
    BY <1>1, <1>4
  <2>2. events'[Len(events')] = events[Len(events)] /\ events'[1] = events[2]
    BY <1>1, <2>1
  <2>3. events[1] # events[2]
    BY <1>1, <2>1 DEF Alternate
  <2>4. 2 \in 1..Len(events)
    BY <1>1, <2>1
  <2> QED BY <1>1, <1>2, <1>4, <2>2, <2>3, <2>4 DEF LastIsNow, Awaited
<1> QED BY <1>3, <1>4

LEMMA Happened ==
    ASSUME events \in Seq({"connected", "disconnected"}), Alternate, LastIsNow,
           station \in BOOLEAN, station' = ~station,
           events' = Append(events, IF station THEN "disconnected" ELSE "connected")
    PROVE  Alternate' /\ LastIsNow' /\ (Awaited <=> Awaited')
<1> DEFINE now == IF station THEN "disconnected" ELSE "connected"
<1>1. Len(events) \in Nat /\ Len(events') = Len(events) + 1 /\ events' # <<>>
      /\ \A i \in 1..Len(events) : events'[i] = events[i]
      /\ events'[Len(events) + 1] = now
      /\ \A j \in 1..Len(events) : events[j] \in {"connected", "disconnected"}
  OBVIOUS
<1>2. LastIsNow'
  <2>1. events'[Len(events')] = now
    BY <1>1
  <2>2. station' <=> now = "connected"
    OBVIOUS
  <2> QED BY <2>1, <2>2 DEF LastIsNow
<1>3. events # <<>> => Len(events) \in 1..Len(events)
  BY <1>1
<1>4. Alternate'
  <2>1. ASSUME NEW i \in 1..(Len(events') - 1) PROVE events'[i] # events'[i + 1]
    <3>1. CASE i < Len(events)
      BY <1>1, <3>1 DEF Alternate
    <3>2. CASE i = Len(events)
      BY <1>1, <1>3, <3>2 DEF LastIsNow
    <3> QED BY <1>1, <3>1, <3>2
  <2> QED BY <2>1 DEF Alternate
<1>5. Awaited <=> Awaited'
  <2>1. CASE events = <<>>
    BY <1>1, <2>1 DEF Awaited
  <2>2. CASE events # <<>>
    <3>1. events'[1] = events[1]
      BY <1>1, <1>3, <2>2
    <3> QED BY <1>1, <2>2, <3>1 DEF Awaited
  <2> QED BY <2>1, <2>2
<1> QED BY <1>2, <1>4, <1>5

\* What the server's task leaves to the event loop.
LEMMA HandleKept ==
    ASSUME HandleInv, UNCHANGED <<events, loop, handle, station>>,
           server'.pc = "off" <=> server.pc = "off"
    PROVE  HandleInv'
  BY DEF HandleInv, Alternate, LastIsNow, Awaited

LEMMA HandleFresh ==
    ASSUME events = <<>>, station = FALSE, loop = "wait", handle = "null", server.pc = "off"
    PROVE  HandleInv
  BY DEF HandleInv, Alternate, LastIsNow

LEMMA HandleBoot ==
    ASSUME NEW held \in BOOLEAN, NEW erased \in BOOLEAN, Boot(held, erased) PROVE HandleInv'
<1>1. /\ events' = <<>> /\ station' = FALSE /\ loop' = "wait" /\ handle' = "null"
      /\ server'.pc = "off"
  BY DEF Boot, Off, Server
<1> QED BY <1>1 DEF HandleInv, Alternate, LastIsNow

LEMMA HandleStep == ASSUME TypeOK, HandleInv, [Next]_vars PROVE HandleInv'
<1>1. events \in Seq({"connected", "disconnected"}) /\ station \in BOOLEAN
      /\ server \in ServerType
  BY DEF TypeOK, ServerType, RequestOf
<1>2. CASE UNCHANGED vars
  BY <1>2, HandleKept DEF vars, device
<1>3. CASE User \/ AppStep
  <2>1. UNCHANGED <<events, loop, handle, station, server>>
    BY <1>3 DEF User, Connect, UpdateField, Apply, AppStep, LoadDone, PushDone, VerifyDone,
                AnswerFails, GiveUp, tasks, device
  <2> QED BY <2>1, HandleKept
<1>4. CASE \E erased \in BOOLEAN : PowerCycle(erased)
  BY <1>4, HandleBoot DEF PowerCycle
<1>5. CASE Associate
  <2>1. /\ station' = ~station /\ UNCHANGED <<loop, handle, server>>
        /\ events' = Append(events, IF station THEN "disconnected" ELSE "connected")
    BY <1>5 DEF Associate
  <2> QED BY <1>1, <2>1, Happened DEF HandleInv
<1>6. CASE Dissociate
  <2>1. /\ station' = ~station /\ UNCHANGED <<loop, handle>>
        /\ events' = Append(events, IF station THEN "disconnected" ELSE "connected")
    BY <1>6 DEF Dissociate
  <2>2. server'.pc = server.pc
    BY <1>1, <1>6 DEF Dissociate, ServerType, RequestOf
  <2> QED BY <1>1, <2>1, <2>2, Happened DEF HandleInv
<1>7. CASE StartServer
  <2>1. events # <<>> /\ events' = Tail(events) /\ UNCHANGED <<loop, station>>
        /\ server'.pc = "select" /\ loop = "wait" /\ handle' = "server"
        /\ Head(events) = "connected"
    BY <1>7 DEF StartServer, Idle, Server
  <2> QED BY <1>1, <2>1, Handled DEF HandleInv
<1>8. CASE StartFails
  <2>1. events # <<>> /\ events' = Tail(events) /\ UNCHANGED <<loop, station>>
        /\ handle' = "null" /\ loop = "wait" /\ server' = server
        /\ Head(events) = "connected" /\ Head(events) = events[1]
    BY <1>1, <1>8 DEF StartFails
  <2>2. server.pc = "off"
    BY <2>1 DEF HandleInv, Awaited
  <2> QED BY <1>1, <2>1, <2>2, Handled DEF HandleInv
<1>9. CASE CallStop
  <2>1. /\ events # <<>> /\ events' = Tail(events) /\ UNCHANGED <<station, handle, server>>
        /\ Head(events) = "disconnected" /\ loop = "wait" /\ Head(events) = events[1]
        /\ loop' = IF handle = "null" THEN "wait" ELSE "stop"
    BY <1>1, <1>9 DEF CallStop
  <2>2. handle \in {"null", "server"}
    BY DEF TypeOK
  <2>3. loop' = "stop" => server.pc # "off"
    BY <2>1, <2>2 DEF HandleInv, Awaited
  <2> QED BY <1>1, <2>1, <2>2, <2>3, Handled DEF HandleInv
<1>10. CASE StopReturns
  <2>1. loop = "stop" /\ UNCHANGED <<events, station, handle>> /\ loop' = "wait"
        /\ server'.pc = "off"
    BY <1>10 DEF StopReturns, Off, Server
  <2> QED BY <2>1 DEF HandleInv, Alternate, LastIsNow, Awaited
<1>11. CASE ServeRestart
  BY <1>11, HandleBoot DEF ServeRestart
<1>12. CASE \/ \E kind \in {"status", "set"} : Refuse(kind)
            \/ ServeStatus \/ ServeSet \/ RefuseBody \/ ReceiveBody \/ StoreLine \/ StoreFails
            \/ EndSet \/ ReceiveFails(Closed)
  <2>1. UNCHANGED <<events, loop, handle, station>>
    BY <1>12 DEF Refuse, ServeStatus, ServeSet, RefuseBody, ReceiveBody, StoreLine, StoreFails,
                 EndSet, ReceiveFails
  <2>2. server.pc # "off" \/ server' = server
    BY <1>12 DEF Refuse, ServeStatus, ServeSet, RefuseBody, Read, ReceiveBody, StoreLine, StoreFails,
                 EndSet, ReceiveFails
  <2>3. server'.pc # "off" \/ server' = server
    <3>1. CASE \/ \E kind \in {"status", "set"} : Refuse(kind)
               \/ ServeStatus \/ RefuseBody
      BY <3>1 DEF Refuse, ServeStatus, RefuseBody
    <3>2. CASE ServeSet \/ ReceiveBody
      <4>1. server'.pc \in {"recv", "store"}
        BY <1>1, <3>2 DEF ServeSet, ReceiveBody, ServerType, RequestOf
      <4> QED BY <4>1
    <3>3. CASE StoreLine \/ StoreFails
      <4>1. NextLine /\ server.pc = "store"
        BY <3>3 DEF StoreLine, StoreFails
      <4>2. server'.pc \in {"answer", "store"}
        BY <1>1, <4>1 DEF NextLine, ServerType, RequestOf
      <4> QED BY <4>2
    <3>4. CASE EndSet \/ ReceiveFails(Closed)
      BY <3>4 DEF EndSet, ReceiveFails, Idle, Server
    <3> QED BY <1>12, <3>1, <3>2, <3>3, <3>4
  <2> QED BY <2>1, <2>2, <2>3, HandleKept
<1> QED BY <1>2, <1>3, <1>4, <1>5, <1>6, <1>7, <1>8, <1>9, <1>10, <1>11, <1>12, Steps
        DEF Device, LoopStep, Phone, DeviceFault, ServerStep

-----------------------------------------------------------------------------
(***************************************************************************)
(* The settings the user left alone.                                       *)
(***************************************************************************)
\* No request overtakes the one the app waits for, and only a status request
\* is answered to an app that loads or verifies.
Reading == app.pc \in {"load", "verify"}

MatchInv ==
    /\ \A r \in requests : r.n <= app.n /\ (Reading /\ r.n = app.n => r.kind = "status")
    /\ server.pc \in {"recv", "store", "answer"} =>
         server.req.n <= app.n /\ (Reading => server.req.n # app.n)
    /\ answer.n <= app.n

\* Wherever a setting the user left alone can be on its way, it is the default.
KeyKept(k) ==
    /\ nvs[k] = Default[k]
    /\ Loaded => fields[k] = Default[k]
    /\ \A r \in requests : r.kind = "set" => r.body[k] = Default[k]
    /\ server.pc \in {"recv", "store"} => server.req.body[k] = Default[k]
    /\ Reading /\ answer.n = app.n /\ answer.code = "ok" => answer.body[k] = Default[k]

KeptInv == \A k \in Keys \ edited : Survives(Default[k]) => KeyKept(k)

LEMMA Shapes ==
    ASSUME TypeOK
    PROVE  /\ app \in AppType /\ app.n \in Nat
           /\ server \in ServerType /\ server.req \in RequestType /\ server.req.n \in Nat
           /\ requests \subseteq RequestType /\ \A r \in requests : r.n \in Nat
           /\ answer \in AnswerType /\ answer.n \in Nat
<1>1. /\ app \in AppType /\ server \in ServerType
      /\ requests \subseteq RequestType /\ answer \in AnswerType
  BY DEF TypeOK, AppType, ServerType, RequestOf, AnswerType
<1>2. \A n \in 0..MaxRequests : n \in Nat
  BY IConnectAssumption
<1>3. server.req \in RequestType
  BY <1>1 DEF ServerType, RequestOf
<1>4. app.n \in 0..MaxRequests /\ answer.n \in 0..MaxRequests
  BY <1>1 DEF AppType, AnswerType
<1>5. \A r \in RequestType : r.n \in 0..MaxRequests
  BY DEF RequestType
<1> QED BY <1>1, <1>2, <1>3, <1>4, <1>5

\* A request goes out, and the answer to an earlier one is forgotten.
LEMMA SendMatch ==
    ASSUME TypeOK, MatchInv, server' = server, NEW shown \in AppType,
           NEW pc, NEW kind, NEW body, pc \in {"load", "verify"} => kind = "status",
           Send(pc, kind, body, shown)
    PROVE  MatchInv'
<1>1. app'.pc = pc /\ app'.n = app.n + 1 /\ app.n \in Nat
  BY Shapes DEF Send, AppType
<1>2. ASSUME NEW r \in requests'
      PROVE  r.n <= app'.n /\ (Reading' /\ r.n = app'.n => r.kind = "status")
  <2>1. CASE r \in requests
    <3>1. r.n <= app.n /\ r.n \in Nat
      BY <2>1, Shapes DEF MatchInv
    <3> QED BY <1>1, <3>1
  <2>2. CASE r = Request(app.n + 1, kind, body)
    <3>1. r.n = app.n + 1 /\ r.kind = kind
      BY <2>2 DEF Request
    <3> QED BY <1>1, <3>1 DEF Reading
  <2> QED BY <2>1, <2>2 DEF Send
<1>3. server.pc \in {"recv", "store", "answer"} => server.req.n < app.n + 1
  BY <1>1, Shapes DEF MatchInv
<1>4. answer'.n = 0
  BY DEF Send, NoAnswer
<1>5. server.pc \in {"recv", "store", "answer"} => server.req.n <= app'.n /\ server.req.n # app'.n
  BY <1>1, <1>3, Shapes
<1>6. answer'.n <= app'.n
  BY <1>1, <1>4
<1> QED BY <1>2, <1>5, <1>6 DEF MatchInv

\* The app stops waiting.
LEMMA EndMatch ==
    ASSUME TypeOK, MatchInv, server' = server, NEW msg, EndWith(msg),
           requests' = requests, answer' = NoAnswer
    PROVE  MatchInv'
<1>1. app'.pc = "idle" /\ app'.n = app.n /\ app.n \in Nat
  BY Shapes DEF EndWith, AppType
<1>2. ~Reading' /\ answer'.n = 0
  BY <1>1 DEF Reading, NoAnswer
<1>3. answer'.n <= app'.n
  BY <1>1, <1>2
<1> QED BY <1>1, <1>2, <1>3 DEF MatchInv

\* The device reads requests and answers those it has read.
LEMMA DeviceMatch ==
    ASSUME TypeOK, MatchInv, app' = app,
           \A r \in requests' : \E q \in requests : r.n = q.n /\ r.kind = q.kind,
           server'.pc \in {"recv", "store", "answer"} =>
               \/ server.pc \in {"recv", "store", "answer"} /\ server'.req.n = server.req.n
               \/ \E q \in requests : q.kind = "set" /\ server'.req.n = q.n,
           \/ answer' \in {answer, NoAnswer}
           \/ \E q \in requests : answer'.n = q.n
           \/ server.pc = "answer" /\ answer'.n = server.req.n
    PROVE  MatchInv'
<1>1. Reading' = Reading
  BY DEF Reading
<1>2. NoAnswer.n = 0 /\ 0 <= app.n
  BY Shapes DEF NoAnswer
<1>3. answer'.n <= app.n
  BY <1>2 DEF MatchInv
<1>4. \A r \in requests' : r.n <= app.n /\ (Reading /\ r.n = app.n => r.kind = "status")
  BY DEF MatchInv
<1>5. server'.pc \in {"recv", "store", "answer"} =>
        server'.req.n <= app.n /\ (Reading => server'.req.n # app.n)
  BY DEF MatchInv
<1> QED BY <1>1, <1>3, <1>4, <1>5 DEF MatchInv

LEMMA MatchStep == ASSUME TypeOK, MatchInv, [Next]_vars PROVE MatchInv'
<1>1. CASE UNCHANGED vars
  BY <1>1 DEF vars, device, MatchInv, Reading
<1>2. CASE User \/ AppStep
  <2>1. server' = server
    BY <1>2 DEF User, Connect, UpdateField, Apply, AppStep, LoadDone, PushDone, VerifyDone,
                AnswerFails, GiveUp, tasks, device
  <2>2. app \in AppType
    BY Shapes
  <2>3. ASSUME NEW msg PROVE [app EXCEPT !.msg = msg].n = app.n
    BY <2>2 DEF AppType
  <2>4. CASE Connect
    <3>1. [app EXCEPT !.msg = "none"] \in AppType
      BY <2>2 DEF AppType
    <3> QED BY <2>1, <2>4, <3>1, SendMatch DEF Connect
  <2>5. CASE UpdateField
    BY <2>5 DEF UpdateField, device, MatchInv, Reading
  <2>6. CASE Apply
    <3>1. fields \in Settings
      BY <2>6 DEF Apply, Loaded, TypeOK
    <3>2. [app EXCEPT !.msg = "none", !.requested = fields] \in AppType
      BY <2>2, <3>1 DEF AppType
    <3> QED BY <2>1, <2>6, <3>2, SendMatch DEF Apply
  <2>7. CASE LoadDone
    BY <2>1, <2>7, EndMatch DEF LoadDone
  <2>8. CASE PushDone
    BY <2>1, <2>2, <2>8, SendMatch DEF PushDone
  <2>9. CASE VerifyDone
    <3>1. [app EXCEPT !.msg = Verdict] \in AppType
      BY <2>2 DEF AppType, Verdict
    <3> QED BY <2>1, <2>9, <3>1, SendMatch, EndMatch DEF VerifyDone
  <2>10. CASE AnswerFails
    BY <2>1, <2>10, EndMatch DEF AnswerFails
  <2>11. CASE GiveUp
    BY <2>1, <2>11, EndMatch DEF GiveUp
  <2> QED BY <1>2, <2>4, <2>5, <2>6, <2>7, <2>8, <2>9, <2>10, <2>11 DEF User, AppStep
<1>3. CASE Device /\ UNCHANGED appVars
  <2>1. app' = app /\ server \in ServerType
    BY <1>3, Shapes DEF appVars
  <2>2. ASSUME NEW held \in BOOLEAN, NEW erased \in BOOLEAN, Boot(held, erased)
        PROVE  requests' = {} /\ server'.pc = "off" /\ answer' = NoAnswer
    BY <2>2 DEF Boot, Off, Server
  <2>3. CASE \/ \E erased \in BOOLEAN : PowerCycle(erased)
             \/ ServeRestart
    <3>1. requests' = {} /\ server'.pc = "off" /\ answer' = NoAnswer
      BY <2>2, <2>3 DEF PowerCycle, ServeRestart
    <3> QED BY <2>1, <3>1, DeviceMatch
  <2>4. CASE Associate \/ StartServer \/ StartFails \/ CallStop
    <3>1. /\ UNCHANGED <<requests, answer>>
          /\ server' = server \/ server'.pc = "select"
      BY <2>4 DEF Associate, StartServer, StartFails, CallStop, Idle, Server
    <3> QED BY <2>1, <3>1, DeviceMatch
  <2>5. CASE Dissociate
    <3>1. PICK lost \in BOOLEAN :
             /\ requests' = {[r EXCEPT !.cut = @ \/ lost] : r \in requests}
             /\ server' = IF server.pc = "recv"
                          THEN [server EXCEPT !.req.cut = @ \/ lost] ELSE server
      BY <2>5 DEF Dissociate
    <3>2. ASSUME NEW r \in requests
          PROVE  LET c == [r EXCEPT !.cut = @ \/ lost] IN c.n = r.n /\ c.kind = r.kind
      BY Shapes DEF RequestType
    <3>3. server'.pc = server.pc /\ server'.req.n = server.req.n
      BY <2>1, <3>1 DEF ServerType, RequestOf, RequestType
    <3>4. \A r \in requests' : \E q \in requests : r.n = q.n /\ r.kind = q.kind
      BY <3>1, <3>2
    <3>5. answer' = NoAnswer
      BY <2>5 DEF Dissociate
    <3> QED BY <2>1, <3>3, <3>4, <3>5, DeviceMatch
  <2>6. CASE StopReturns
    <3>1. requests' = {} /\ answer' = answer /\ server'.pc = "off"
      BY <2>6 DEF StopReturns, Off, Server
    <3> QED BY <2>1, <3>1, DeviceMatch
  <2>7. CASE ServeStatus \/ RefuseBody \/ \E kind \in {"status", "set"} : Refuse(kind)
    <3>1. PICK req \in requests :
             /\ requests' = requests \ {req} /\ server' = server
             /\ \E code, body : Answered(req, code, body)
      BY <2>7 DEF ServeStatus, RefuseBody, Refuse, Read
    <3>2. answer' = NoAnswer \/ answer'.n = req.n
      BY <3>1 DEF Answered
    <3> QED BY <2>1, <3>1, <3>2, DeviceMatch
  <2>8. CASE ServeSet
    <3>1. PICK req \in requests :
             Read("set", req) /\ server' = [server EXCEPT !.pc = "recv", !.req = req]
      BY <2>8 DEF ServeSet
    <3>2. server'.req.n = req.n /\ req.kind = "set" /\ requests' = requests \ {req}
      BY <2>1, <3>1 DEF Read, ServerType, RequestOf
    <3>3. answer' = answer
      BY <2>8 DEF ServeSet
    <3> QED BY <2>1, <3>2, <3>3, DeviceMatch
  <2>9. CASE ReceiveBody
    <3>1. server'.req = server.req /\ server.pc = "recv" /\ UNCHANGED <<requests, answer>>
      BY <2>1, <2>9 DEF ReceiveBody, ServerType, RequestOf
    <3> QED BY <2>1, <3>1, DeviceMatch
  <2>10. CASE StoreLine \/ StoreFails
    <3>1. NextLine /\ server.pc = "store" /\ UNCHANGED <<requests, answer>>
      BY <2>10 DEF StoreLine, StoreFails
    <3>2. server'.req = server.req
      BY <2>1, <3>1 DEF NextLine, ServerType, RequestOf
    <3> QED BY <2>1, <3>1, <3>2, DeviceMatch
  <2>11. CASE EndSet
    <3>1. server.pc = "answer" /\ server'.pc = "select" /\ requests' = requests
      BY <2>11 DEF EndSet, Idle, Server
    <3>2. answer' = NoAnswer \/ answer'.n = server.req.n
      BY <2>11 DEF EndSet, Answered
    <3> QED BY <2>1, <3>1, <3>2, DeviceMatch
  <2>12. CASE ReceiveFails(Closed)
    <3>1. server'.pc = "select" /\ UNCHANGED <<requests, answer>>
      BY <2>12 DEF ReceiveFails, Idle, Server
    <3> QED BY <2>1, <3>1, DeviceMatch
  <2> QED BY <1>3, <2>3, <2>4, <2>5, <2>6, <2>7, <2>8, <2>9, <2>10, <2>11, <2>12
          DEF Device, LoopStep, ServerStep, Phone, DeviceFault
<1> QED BY <1>1, <1>2, <1>3, Steps

\* The device's part of KeyKept.
LEMMA DeviceKept ==
    ASSUME TypeOK, MatchInv, NEW k \in Keys, Survives(Default[k]), KeyKept(k),
           Device, UNCHANGED appVars
    PROVE  KeyKept(k)'
<1>1. /\ app' = app /\ fields' = fields /\ Reading' = Reading /\ Loaded' = Loaded
      /\ server \in ServerType
  BY Shapes DEF appVars, Reading, Loaded
<1>2. SUFFICES /\ nvs'[k] = Default[k]
               /\ \A r \in requests' : r.kind = "set" => r.body[k] = Default[k]
               /\ server'.pc \in {"recv", "store"} => server'.req.body[k] = Default[k]
               /\ \/ answer' \in {answer, NoAnswer} \/ answer'.code # "ok"
                  \/ answer'.body[k] = Default[k] \/ ~Reading \/ answer'.n # app.n
  <2>1. NoAnswer.code # "ok"
    BY DEF NoAnswer
  <2> QED BY <1>1, <2>1 DEF KeyKept
<1>3. ASSUME NEW held \in BOOLEAN, NEW erased \in BOOLEAN, Boot(held, erased)
      PROVE  requests' = {} /\ server'.pc = "off" /\ answer' = NoAnswer /\ nvs'[k] = Default[k]
  BY <1>3 DEF Boot, Off, Server, StoredAtBoot, KeyKept
<1>4. CASE \/ \E erased \in BOOLEAN : PowerCycle(erased)
           \/ ServeRestart
  BY <1>2, <1>3, <1>4 DEF PowerCycle, ServeRestart
<1>5. CASE Associate \/ StartServer \/ StartFails \/ CallStop
  <2>1. /\ UNCHANGED <<nvs, requests, answer>>
        /\ server' = server \/ server'.pc = "select"
    BY <1>5 DEF Associate, StartServer, StartFails, CallStop, Idle, Server
  <2> QED BY <1>2, <2>1 DEF KeyKept
<1>6. CASE Dissociate
  <2>1. PICK lost \in BOOLEAN :
           /\ requests' = {[r EXCEPT !.cut = @ \/ lost] : r \in requests}
           /\ server' = IF server.pc = "recv"
                        THEN [server EXCEPT !.req.cut = @ \/ lost] ELSE server
    BY <1>6 DEF Dissociate
  <2>2. ASSUME NEW r \in requests
        PROVE  LET c == [r EXCEPT !.cut = @ \/ lost] IN c.body = r.body /\ c.kind = r.kind
    BY Shapes DEF RequestType
  <2>3. server'.pc = server.pc /\ server'.req.body = server.req.body
    BY <1>1, <2>1 DEF ServerType, RequestOf, RequestType
  <2>4. \A r \in requests' : \E q \in requests : r.body = q.body /\ r.kind = q.kind
    BY <2>1, <2>2
  <2>5. answer' = NoAnswer /\ nvs' = nvs
    BY <1>6 DEF Dissociate
  <2> QED BY <1>2, <2>3, <2>4, <2>5 DEF KeyKept
<1>7. CASE StopReturns
  <2>1. requests' = {} /\ answer' = answer /\ server'.pc = "off" /\ nvs' = nvs
    BY <1>7 DEF StopReturns, Off, Server
  <2> QED BY <1>2, <2>1 DEF KeyKept
<1>8. CASE RefuseBody \/ \E kind \in {"status", "set"} : Refuse(kind)
  <2>1. PICK req \in requests, code \in {"not found", "closed"} :
           Answered(req, code, NoBody) /\ requests' = requests \ {req}
    BY <1>8 DEF Refuse, RefuseBody, Read
  <2>2. answer' = NoAnswer \/ answer'.code \in {"not found", "closed"}
    BY <2>1 DEF Answered
  <2>3. UNCHANGED <<nvs, server>>
    BY <1>8 DEF Refuse, RefuseBody
  <2> QED BY <1>2, <2>1, <2>2, <2>3 DEF KeyKept
<1>9. CASE ServeStatus
  <2>1. PICK req \in requests, code \in {"ok", "garbled"} :
           Answered(req, code, StatusReport) /\ requests' = requests \ {req}
    BY <1>9 DEF ServeStatus, Read
  <2>2. StatusReport[k] = Default[k]
    BY DEF StatusReport, GetStr, KeyKept, Survives
  <2>3. answer' = NoAnswer \/ answer'.body[k] = Default[k]
    BY <2>1, <2>2 DEF Answered
  <2>4. UNCHANGED <<nvs, server>>
    BY <1>9 DEF ServeStatus
  <2> QED BY <1>2, <2>1, <2>3, <2>4 DEF KeyKept
<1>10. CASE ServeSet
  <2>1. PICK req \in requests :
           Read("set", req) /\ server' = [server EXCEPT !.pc = "recv", !.req = req]
    BY <1>10 DEF ServeSet
  <2>2. server'.req = req /\ req.kind = "set" /\ requests' = requests \ {req}
    BY <1>1, <2>1 DEF Read, ServerType, RequestOf
  <2>3. UNCHANGED <<nvs, answer>>
    BY <1>10 DEF ServeSet
  <2> QED BY <1>2, <2>2, <2>3 DEF KeyKept
<1>11. CASE ReceiveBody
  <2>1. server'.req = server.req /\ server.pc = "recv" /\ UNCHANGED <<nvs, requests, answer>>
    BY <1>1, <1>11 DEF ReceiveBody, ServerType, RequestOf
  <2> QED BY <1>2, <2>1 DEF KeyKept
<1>12. CASE StoreLine \/ StoreFails
  <2>1. NextLine /\ server.pc = "store" /\ UNCHANGED <<requests, answer>>
    BY <1>12 DEF StoreLine, StoreFails
  <2>2. server'.req = server.req
    BY <1>1, <2>1 DEF NextLine, ServerType, RequestOf
  <2>3. server.req.body[k] = Default[k] /\ nvs[k] = Default[k]
    BY <2>1 DEF KeyKept
  <2>4. nvs \in [Keys -> Values]
    BY DEF TypeOK, Settings
  <2>5. nvs'[k] = Default[k]
    BY <1>12, <2>3, <2>4 DEF StoreLine, StoreFails
  <2> QED BY <1>2, <2>1, <2>2, <2>3, <2>5 DEF KeyKept
<1>13. CASE EndSet
  <2>1. server.pc = "answer" /\ server'.pc = "select" /\ UNCHANGED <<nvs, requests>>
    BY <1>13 DEF EndSet, Idle, Server
  <2>2. answer' = NoAnswer \/ answer'.n = server.req.n
    BY <1>13 DEF EndSet, Answered
  <2>3. Reading => server.req.n # app.n
    BY <2>1 DEF MatchInv
  <2> QED BY <1>2, <2>1, <2>2, <2>3 DEF KeyKept
<1>14. CASE ReceiveFails(Closed)
  <2>1. server'.pc = "select" /\ UNCHANGED <<nvs, requests, answer>>
    BY <1>14 DEF ReceiveFails, Idle, Server
  <2> QED BY <1>2, <2>1 DEF KeyKept
<1> QED BY <1>4, <1>5, <1>6, <1>7, <1>8, <1>9, <1>10, <1>11, <1>12, <1>13, <1>14
        DEF Device, LoopStep, ServerStep, Phone, DeviceFault

\* The app shows what the device answered, and sends what it shows.
LEMMA SendKept ==
    ASSUME NEW k \in Keys, KeyKept(k), UNCHANGED <<nvs, server>>,
           Loaded' => fields'[k] = Default[k],
           NEW shown, NEW pc, NEW kind, NEW body, kind = "set" => body[k] = Default[k],
           Send(pc, kind, body, shown)
    PROVE  KeyKept(k)'
<1>1. Request(app.n + 1, kind, body).kind = kind /\ Request(app.n + 1, kind, body).body = body
  BY DEF Request
<1>2. \A r \in requests' : r.kind = "set" => r.body[k] = Default[k]
  BY <1>1 DEF Send, KeyKept
<1>3. answer'.code # "ok"
  BY DEF Send, NoAnswer
<1> QED BY <1>2, <1>3 DEF KeyKept

LEMMA EndKept ==
    ASSUME NEW k \in Keys, KeyKept(k), UNCHANGED <<nvs, server, requests>>,
           Loaded' => fields'[k] = Default[k], answer' = NoAnswer
    PROVE  KeyKept(k)'
<1>1. answer'.code # "ok"
  BY DEF NoAnswer
<1> QED BY <1>1 DEF KeyKept

LEMMA AppKept ==
    ASSUME TypeOK, NEW k \in Keys \ edited', Survives(Default[k]), KeyKept(k), User \/ AppStep
    PROVE  KeyKept(k)'
<1>1. nvs' = nvs /\ server' = server
  BY DEF User, Connect, UpdateField, Apply, AppStep, LoadDone, PushDone, VerifyDone,
         AnswerFails, GiveUp, tasks, device
<1>2. Loaded' => fields'[k] = Default[k]
  <2>1. CASE UNCHANGED fields
    BY <2>1 DEF KeyKept, Loaded
  <2>2. CASE LoadDone \/ VerifyDone
    BY <2>2 DEF LoadDone, VerifyDone, Arrived, KeyKept, Reading, Fields, Survives
  <2>3. CASE UpdateField
    <3>1. PICK j \in Keys : \E v \in Typed[j] :
             fields' = [fields EXCEPT ![j] = v] /\ edited' = edited \cup {j}
      BY <2>3 DEF UpdateField
    <3>2. fields[k] = Default[k] /\ fields \in [Keys -> Values]
      BY <2>3 DEF UpdateField, KeyKept, Loaded, TypeOK, Settings
    <3> QED BY <3>1, <3>2
  <2> QED BY <2>1, <2>2, <2>3
          DEF User, Connect, Apply, AppStep, PushDone, AnswerFails, GiveUp
<1>3. CASE Connect
  BY <1>1, <1>2, <1>3, SendKept DEF Connect
<1>4. CASE UpdateField
  BY <1>1, <1>2, <1>4 DEF UpdateField, device, KeyKept, Reading
<1>5. CASE Apply
  <2>1. fields[k] = Default[k]
    BY <1>5 DEF Apply, KeyKept
  <2> QED BY <1>1, <1>2, <1>5, <2>1, SendKept DEF Apply
<1>6. CASE LoadDone
  BY <1>1, <1>2, <1>6, EndKept DEF LoadDone
<1>7. CASE PushDone
  BY <1>1, <1>2, <1>7, SendKept DEF PushDone
<1>8. CASE VerifyDone
  BY <1>1, <1>2, <1>8, SendKept, EndKept DEF VerifyDone
<1>9. CASE AnswerFails
  BY <1>1, <1>2, <1>9, EndKept DEF AnswerFails
<1>10. CASE GiveUp
  BY <1>1, <1>2, <1>10, EndKept DEF GiveUp
<1> QED BY <1>3, <1>4, <1>5, <1>6, <1>7, <1>8, <1>9, <1>10 DEF User, AppStep

LEMMA KeptStep == ASSUME TypeOK, MatchInv, KeptInv, [Next]_vars PROVE KeptInv'
<1> SUFFICES ASSUME NEW k \in Keys \ edited', Survives(Default[k]) PROVE KeyKept(k)'
  BY DEF KeptInv
<1>1. edited \subseteq edited'
  BY Steps DEF vars, appVars, User, Connect, UpdateField, Apply, AppStep, LoadDone, PushDone,
               VerifyDone, AnswerFails, GiveUp
<1>2. KeyKept(k)
  BY <1>1 DEF KeptInv
<1>3. CASE UNCHANGED vars
  BY <1>2, <1>3 DEF vars, device, KeyKept, Reading, Loaded
<1> QED BY <1>2, <1>3, Steps, AppKept, DeviceKept

-----------------------------------------------------------------------------
(***************************************************************************)
(* What an answer says about the partition. The app has one request under  *)
(* way at a time; what it stopped waiting for makes the difference.        *)
(***************************************************************************)
Busy == server.pc \in {"recv", "store", "answer"}
Pushes == {r \in requests : r.kind = "set"}

StatusCode(settings) == IF Readable(settings) THEN "ok" ELSE "garbled"
HasLong(body) == \E k \in Keys : body[k] \in Long

\* A push is answered with what happened to the settings it carried.
AnswerInv ==
    /\ answer.code = "not found" => ~({"status", "set"} \subseteq Registered)
    /\ app.pc # "idle" => app.n # 0
    /\ app.pc = "push" =>
         /\ \A r \in requests : r.n = app.n => r.kind = "set" /\ r.body = app.requested
         /\ answer.n = app.n => \/ answer.code \in {"ok", "not found"}
                                \/ answer.code = "closed" /\ HasLong(app.requested)

\* While every push was waited for, there is at most one, and an answer that
\* verifies reports the partition as it is.
QuietInv ==
    ~gaveUp =>
        /\ Pushes # {} \/ Busy => app.pc = "push" /\ answer.n # app.n
        /\ Busy => Pushes = {}
        /\ \A r, q \in Pushes : r = q
        /\ app.pc = "verify" /\ answer.n = app.n /\ answer.code # "not found" =>
             answer.body = StatusReport /\ answer.code = StatusCode(StatusReport)

\* The steps of the device, as far as these invariants tell them apart.
Cleared == /\ requests' = {} /\ ~Busy' /\ answer' \in {answer, NoAnswer}
           /\ nvs' = nvs \/ answer' = NoAnswer
Unseen == UNCHANGED <<nvs, requests, answer>> /\ (Busy' => Busy)
Parted == /\ \E lost \in BOOLEAN : requests' = {[r EXCEPT !.cut = @ \/ lost] : r \in requests}
          /\ (Busy' <=> Busy) /\ answer' = NoAnswer /\ nvs' = nvs
Verdicts(req) == \/ /\ answer'.code = "not found" /\ req.kind \in {"status", "set"} \ Registered
                 \/ answer'.code = "closed" /\ req.kind = "set" /\ HasLong(req.body)
                 \/ /\ req.kind = "status" /\ answer'.body = StatusReport
                    /\ answer'.code = StatusCode(StatusReport)
Answering == \E req \in requests :
                /\ requests' = requests \ {req} /\ ~Busy' /\ nvs' = nvs
                /\ answer' = NoAnswer \/ (answer'.n = req.n /\ Verdicts(req))
Taking == \E req \in requests : /\ requests' = requests \ {req} /\ req.kind = "set"
                                /\ UNCHANGED <<nvs, answer>>
Storing == Busy /\ UNCHANGED <<requests, answer>>
Stored == /\ Busy /\ ~Busy' /\ UNCHANGED <<nvs, requests>>
          /\ answer' = NoAnswer \/ answer'.code = "ok"

LEMMA DeviceSteps ==
    ASSUME TypeOK, Device
    PROVE  Cleared \/ Unseen \/ Parted \/ Answering \/ Taking \/ Storing \/ Stored
<1>1. server \in ServerType /\ ~(server.pc = "select" /\ Busy)
  BY Shapes DEF Busy
<1>2. ASSUME NEW held \in BOOLEAN, NEW erased \in BOOLEAN, Boot(held, erased) PROVE Cleared
  BY <1>2 DEF Boot, Cleared, Busy, Off, Server
<1>3. CASE \E erased \in BOOLEAN : PowerCycle(erased)
  BY <1>2, <1>3 DEF PowerCycle
<1>4. CASE ServeRestart
  BY <1>2, <1>4 DEF ServeRestart
<1>5. CASE StopReturns
  BY <1>5 DEF StopReturns, Cleared, Busy, Off, Server
<1>6. CASE Associate \/ StartServer \/ StartFails \/ CallStop \/ ReceiveFails(Closed)
  BY <1>6 DEF Associate, StartServer, StartFails, CallStop, ReceiveFails, Idle, Server,
              Unseen, Busy
<1>7. CASE ReceiveBody
  BY <1>7 DEF ReceiveBody, Unseen, Busy
<1>8. CASE Dissociate
  <2>1. server'.pc = server.pc
    BY <1>1, <1>8 DEF Dissociate, ServerType, RequestOf
  <2> QED BY <1>8, <2>1 DEF Dissociate, Parted, Busy
<1>9. ASSUME NEW kind \in {"status", "set"}, Refuse(kind) PROVE Answering
  <2>1. PICK req \in requests : Read(kind, req) /\ Answered(req, "not found", NoBody)
    BY <1>9 DEF Refuse
  <2>2. kind \notin Registered /\ server' = server /\ nvs' = nvs
    BY <1>9 DEF Refuse
  <2>3. answer' = NoAnswer \/ (answer'.n = req.n /\ answer'.code = "not found")
    BY <2>1 DEF Answered
  <2> QED BY <1>1, <2>1, <2>2, <2>3 DEF Answering, Verdicts, Read, Busy
<1>10. CASE ServeStatus
  <2>1. PICK req \in requests :
          /\ Read("status", req)
          /\ Answered(req, StatusCode(StatusReport), StatusReport)
    BY <1>10 DEF ServeStatus, StatusCode
  <2>2. server' = server /\ nvs' = nvs
    BY <1>10 DEF ServeStatus
  <2>3. answer' = NoAnswer \/ (/\ answer'.n = req.n /\ answer'.body = StatusReport
                               /\ answer'.code = StatusCode(StatusReport))
    BY <2>1 DEF Answered
  <2> QED BY <1>1, <2>1, <2>2, <2>3 DEF Answering, Verdicts, Read, Busy
<1>11. CASE RefuseBody
  <2>1. PICK req \in requests :
          Read("set", req) /\ HasLong(req.body) /\ Answered(req, "closed", NoBody)
    BY <1>11 DEF RefuseBody, HasLong
  <2>2. server' = server /\ nvs' = nvs
    BY <1>11 DEF RefuseBody
  <2>3. answer' = NoAnswer \/ (answer'.n = req.n /\ answer'.code = "closed")
    BY <2>1 DEF Answered
  <2> QED BY <1>1, <2>1, <2>2, <2>3 DEF Answering, Verdicts, Read, Busy
<1>12. CASE ServeSet
  BY <1>12 DEF ServeSet, Read, Taking
<1>13. CASE StoreLine \/ StoreFails
  BY <1>13 DEF StoreLine, StoreFails, Storing, Busy
<1>14. CASE EndSet
  <2>1. answer' = NoAnswer \/ answer'.code = "ok"
    BY <1>14 DEF EndSet, Answered
  <2> QED BY <1>14, <2>1 DEF EndSet, Idle, Server, Stored, Busy
<1> QED BY <1>3, <1>4, <1>5, <1>6, <1>7, <1>8, <1>9, <1>10, <1>11, <1>12, <1>13, <1>14
        DEF Device, LoopStep, ServerStep, Phone, DeviceFault

LEMMA NoAnswerYet ==
    ASSUME AnswerInv, app.pc # "idle" PROVE NoAnswer.n # app.n /\ NoAnswer.code = "none"
  BY DEF NoAnswer, AnswerInv

\* Copies of the requests that were cut differ in nothing else.
LEMMA PartedRequests ==
    ASSUME TypeOK, Parted
    PROVE  /\ \A r \in requests' : \E q \in requests :
                 r.n = q.n /\ r.kind = q.kind /\ r.body = q.body
           /\ (\A r, q \in Pushes : r = q) => \A r, q \in Pushes' : r = q
           /\ Pushes' # {} => Pushes # {}
<1>1. PICK lost \in BOOLEAN : requests' = {[r EXCEPT !.cut = @ \/ lost] : r \in requests}
  BY DEF Parted
<1>2. ASSUME NEW r \in requests
      PROVE  LET c == [r EXCEPT !.cut = @ \/ lost]
             IN c.n = r.n /\ c.kind = r.kind /\ c.body = r.body
  BY Shapes DEF RequestType
<1>3. \A r \in requests' : \E q \in requests :
         /\ r.n = q.n /\ r.kind = q.kind /\ r.body = q.body
         /\ r = [q EXCEPT !.cut = @ \/ lost]
  BY <1>1, <1>2
<1>4. \A r \in Pushes' : \E q \in Pushes : r = [q EXCEPT !.cut = @ \/ lost]
  BY <1>3 DEF Pushes
<1> QED BY <1>3, <1>4

LEMMA AnswerDevice == ASSUME TypeOK, AnswerInv, Device, UNCHANGED appVars PROVE AnswerInv'
<1> DEFINE PushAnswer == \/ answer'.code \in {"ok", "not found"}
                         \/ answer'.code = "closed" /\ HasLong(app.requested)
<1>1. app' = app /\ NoAnswer.n = 0 /\ NoAnswer.code = "none"
  BY DEF appVars, NoAnswer
<1>2. \A r \in requests' : \E q \in requests : r.n = q.n /\ r.kind = q.kind /\ r.body = q.body
  <2>1. CASE Parted
    BY <2>1, PartedRequests
  <2>2. CASE ~Parted
    <3>1. requests' \subseteq requests
      BY <2>2, DeviceSteps DEF Cleared, Unseen, Answering, Taking, Storing, Stored
    <3> QED BY <3>1
  <2> QED BY <2>1, <2>2
<1>3. \/ answer' \in {answer, NoAnswer} \/ answer'.code = "ok"
      \/ \E req \in requests : answer'.n = req.n /\ Verdicts(req)
  BY DeviceSteps DEF Cleared, Unseen, Parted, Answering, Taking, Storing, Stored
<1>4. CASE \/ answer' \in {answer, NoAnswer} \/ answer'.code = "ok"
  <2>1. answer'.code = "not found" => ~({"status", "set"} \subseteq Registered)
    BY <1>1, <1>4 DEF AnswerInv
  <2>2. app.pc = "push" /\ answer'.n = app.n => PushAnswer
    BY <1>1, <1>4 DEF AnswerInv
  <2> QED BY <1>1, <1>2, <2>1, <2>2 DEF AnswerInv
<1>5. CASE \E req \in requests : answer'.n = req.n /\ Verdicts(req)
  <2>1. PICK req \in requests : answer'.n = req.n /\ Verdicts(req)
    BY <1>5
  <2>2. answer'.code = "not found" => ~({"status", "set"} \subseteq Registered)
    <3>1. StatusCode(StatusReport) # "not found"
      BY DEF StatusCode
    <3> QED BY <2>1, <3>1 DEF Verdicts
  <2>3. app.pc = "push" /\ answer'.n = app.n => PushAnswer
    <3>1. SUFFICES ASSUME app.pc = "push", answer'.n = app.n PROVE PushAnswer
      OBVIOUS
    <3>2. req.kind = "set" /\ req.body = app.requested
      BY <2>1, <3>1 DEF AnswerInv
    <3> QED BY <2>1, <3>2 DEF Verdicts
  <2> QED BY <1>1, <1>2, <2>2, <2>3 DEF AnswerInv
<1> QED BY <1>3, <1>4, <1>5

LEMMA QuietDevice ==
    ASSUME TypeOK, AnswerInv, QuietInv, Device, UNCHANGED appVars PROVE QuietInv'
<1>1. app' = app /\ gaveUp' = gaveUp
  BY DEF appVars
<1> SUFFICES ASSUME ~gaveUp
             PROVE  /\ Pushes' # {} \/ Busy' => app.pc = "push" /\ answer'.n # app.n
                    /\ Busy' => Pushes' = {}
                    /\ \A r, q \in Pushes' : r = q
                    /\ app.pc = "verify" /\ answer'.n = app.n /\ answer'.code # "not found" =>
                         answer'.body = StatusReport' /\ answer'.code = StatusCode(StatusReport')
  BY <1>1 DEF QuietInv
<1>2. nvs' = nvs => StatusReport' = StatusReport
  BY DEF StatusReport
<1>3. requests' \subseteq requests => Pushes' \subseteq Pushes
  BY DEF Pushes
<1>4. /\ Pushes # {} \/ Busy => app.pc = "push" /\ answer.n # app.n
      /\ Busy => Pushes = {}
      /\ \A r, q \in Pushes : r = q
      /\ app.pc = "verify" /\ answer.n = app.n /\ answer.code # "not found" =>
           answer.body = StatusReport /\ answer.code = StatusCode(StatusReport)
  BY DEF QuietInv
<1>5. CASE Cleared
  <2>1. Pushes' = {} /\ ~Busy'
    BY <1>5 DEF Cleared, Pushes
  <2> QED BY <1>2, <1>4, <1>5, <2>1, NoAnswerYet DEF Cleared
<1>6. CASE Unseen
  <2>1. Pushes' = Pushes
    BY <1>6 DEF Unseen, Pushes
  <2> QED BY <1>2, <1>4, <1>6, <2>1 DEF Unseen
<1>7. CASE Parted
  <2>1. (Busy' <=> Busy) /\ answer' = NoAnswer
    BY <1>7 DEF Parted
  <2> QED BY <1>4, <1>7, <2>1, PartedRequests, NoAnswerYet
<1>8. CASE Answering
  <2>1. PICK req \in requests :
           /\ requests' = requests \ {req} /\ ~Busy' /\ nvs' = nvs
           /\ answer' = NoAnswer \/ (answer'.n = req.n /\ Verdicts(req))
    BY <1>8 DEF Answering
  <2>2. Pushes' = Pushes \ {req}
    BY <2>1 DEF Pushes
  <2>3. Pushes' # {} => req.kind # "set" /\ app.pc = "push"
    BY <1>4, <2>1, <2>2 DEF Pushes
  <2>4. ASSUME Pushes' # {} PROVE answer'.n # app.n
    <3>1. req.n # app.n
      BY <2>3, <2>4 DEF AnswerInv
    <3> QED BY <2>1, <2>3, <2>4, <3>1, NoAnswerYet
  <2>5. ASSUME app.pc = "verify", answer'.n = app.n, answer'.code # "not found"
        PROVE  answer'.body = StatusReport /\ answer'.code = StatusCode(StatusReport)
    <3>1. Verdicts(req)
      BY <2>1, <2>5, NoAnswerYet
    <3>2. req.kind # "set"
      BY <1>4, <2>5 DEF Pushes
    <3> QED BY <2>5, <3>1, <3>2 DEF Verdicts
  <2> QED BY <1>2, <1>4, <2>1, <2>2, <2>3, <2>4, <2>5
<1>9. CASE Taking
  <2>1. PICK req \in requests : /\ requests' = requests \ {req} /\ req.kind = "set"
                                /\ UNCHANGED <<nvs, answer>>
    BY <1>9 DEF Taking
  <2>2. req \in Pushes /\ Pushes' = {}
    BY <1>4, <2>1 DEF Pushes
  <2> QED BY <1>2, <1>4, <2>1, <2>2
<1>10. CASE Storing
  <2>1. Pushes' = Pushes /\ answer' = answer /\ Busy
    BY <1>10 DEF Storing, Pushes
  <2> QED BY <1>4, <2>1
<1>11. CASE Stored
  <2>1. Pushes' = Pushes /\ Busy /\ ~Busy'
    BY <1>11 DEF Stored, Pushes
  <2> QED BY <1>4, <2>1
<1> QED BY <1>5, <1>6, <1>7, <1>8, <1>9, <1>10, <1>11, DeviceSteps

\* The app sends a request, ends what it did, or the user types.
LEMMA AppMoves ==
    ASSUME TypeOK, User \/ AppStep
    PROVE  \/ UNCHANGED <<device, app, gaveUp>>
           \/ /\ answer' = NoAnswer /\ UNCHANGED tasks
              /\ gaveUp' \in BOOLEAN /\ (gaveUp => gaveUp')
              /\ \/ /\ app'.pc = "idle" /\ requests' = requests
                    /\ \/ gaveUp' \/ app.pc # "push"
                       \/ answer.n = app.n
                 \/ \E kind \in {"status", "set", "restart"}, body \in Settings :
                      /\ app'.n = app.n + 1
                      /\ requests' \in {requests, requests \cup {Request(app.n + 1, kind, body)}}
                      /\ app.pc = "push" => answer.n = app.n
                      /\ IF kind = "set" THEN app'.pc = "push" /\ app'.requested = body
                         ELSE app'.pc # "push"
<1>1. app \in AppType /\ NoBody \in Settings /\ gaveUp \in BOOLEAN
  BY Constants, Shapes DEF TypeOK
<1>2. ASSUME NEW shown \in AppType, NEW pc \in {"load", "push", "verify", "restart"},
             NEW kind, NEW body, Send(pc, kind, body, shown)
      PROVE  /\ answer' = NoAnswer /\ app'.n = app.n + 1 /\ app'.pc = pc
             /\ app'.requested = shown.requested
             /\ requests' \in {requests, requests \cup {Request(app.n + 1, kind, body)}}
  BY <1>2 DEF Send, AppType
<1>3. \A msg : EndWith(msg) => app'.pc = "idle"
  BY <1>1 DEF EndWith, AppType
<1>4. CASE Connect
  <2>1. [app EXCEPT !.msg = "none"] \in AppType
    BY <1>1 DEF AppType
  <2> QED BY <1>1, <1>2, <1>4, <2>1 DEF Connect
<1>5. CASE UpdateField
  BY <1>5 DEF UpdateField
<1>6. CASE Apply
  <2>1. fields \in Settings
    BY <1>6 DEF Apply, Loaded, TypeOK
  <2>2. /\ [app EXCEPT !.msg = "none", !.requested = fields] \in AppType
        /\ [app EXCEPT !.msg = "none", !.requested = fields].requested = fields
    BY <1>1, <2>1 DEF AppType
  <2> QED BY <1>1, <1>2, <1>6, <2>1, <2>2 DEF Apply
<1>7. CASE LoadDone
  BY <1>1, <1>3, <1>7 DEF LoadDone, Arrived
<1>8. CASE PushDone
  BY <1>1, <1>2, <1>8 DEF PushDone, Arrived
<1>9. CASE VerifyDone
  <2>1. [app EXCEPT !.msg = Verdict] \in AppType
    BY <1>1 DEF AppType, Verdict
  <2>2. app.pc = "verify" /\ UNCHANGED tasks /\ gaveUp' = gaveUp
    BY <1>9 DEF VerifyDone, Arrived
  <2> QED BY <1>1, <1>2, <1>3, <1>9, <2>1, <2>2 DEF VerifyDone
<1>10. CASE AnswerFails
  BY <1>1, <1>3, <1>10 DEF AnswerFails
<1>11. CASE GiveUp
  BY <1>1, <1>3, <1>11 DEF GiveUp
<1> QED BY <1>4, <1>5, <1>6, <1>7, <1>8, <1>9, <1>10, <1>11 DEF User, AppStep

LEMMA AnswerApp ==
    ASSUME TypeOK, MatchInv, AnswerInv, User \/ AppStep PROVE AnswerInv'
<1>1. CASE UNCHANGED <<device, app, gaveUp>>
  BY <1>1 DEF AnswerInv, device
<1>2. CASE answer' = NoAnswer /\ app'.pc = "idle"
  BY <1>2 DEF AnswerInv, NoAnswer
<1>3. ASSUME NEW kind \in {"status", "set", "restart"}, NEW body \in Settings,
             answer' = NoAnswer, app'.n = app.n + 1,
             requests' \in {requests, requests \cup {Request(app.n + 1, kind, body)}},
             IF kind = "set" THEN app'.pc = "push" /\ app'.requested = body
             ELSE app'.pc # "push"
      PROVE  AnswerInv'
  <2>1. app.n \in Nat /\ \A r \in requests : r.n <= app.n /\ r.n \in Nat
    BY Shapes DEF MatchInv
  <2>2. app'.n # 0 /\ answer'.n # app'.n /\ answer'.code # "not found"
    BY <1>3, <2>1 DEF NoAnswer
  <2>3. \A r \in requests' : r.n = app'.n => r = Request(app.n + 1, kind, body)
    BY <1>3, <2>1
  <2>4. \A r \in requests' : app'.pc = "push" /\ r.n = app'.n =>
           r.kind = "set" /\ r.body = app'.requested
    BY <1>3, <2>3 DEF Request
  <2> QED BY <2>2, <2>4 DEF AnswerInv
<1> QED BY <1>1, <1>2, <1>3, AppMoves

LEMMA QuietApp ==
    ASSUME TypeOK, MatchInv, AnswerInv, QuietInv, AnswerInv', User \/ AppStep PROVE QuietInv'
<1>1. CASE UNCHANGED <<device, app, gaveUp>>
  BY <1>1 DEF QuietInv, device, Pushes, Busy, StatusReport, StatusCode, Readable
<1>2. ASSUME answer' = NoAnswer, UNCHANGED tasks, gaveUp => gaveUp', gaveUp \in BOOLEAN,
             ~gaveUp', app.pc # "push" \/ answer.n = app.n
      PROVE  Pushes = {} /\ ~Busy /\ ~Busy'
  BY <1>2 DEF QuietInv, Busy, tasks
<1>3. ASSUME answer' = NoAnswer, app'.pc = "verify" PROVE answer'.n # app'.n
  BY <1>3 DEF NoAnswer, AnswerInv
<1>4. gaveUp \in BOOLEAN
  BY DEF TypeOK
<1>5. CASE /\ answer' = NoAnswer /\ UNCHANGED tasks
           /\ gaveUp' \in BOOLEAN /\ (gaveUp => gaveUp')
           /\ app'.pc = "idle" /\ requests' = requests
           /\ gaveUp' \/ app.pc # "push" \/ answer.n = app.n
  <2>1. Pushes' = Pushes
    BY <1>5 DEF Pushes
  <2>2. ~gaveUp' => Pushes = {} /\ ~Busy'
    BY <1>2, <1>4, <1>5
  <2> QED BY <1>5, <2>1, <2>2 DEF QuietInv
<1>6. ASSUME NEW kind \in {"status", "set", "restart"}, NEW body \in Settings,
             answer' = NoAnswer, UNCHANGED tasks, gaveUp' \in BOOLEAN, gaveUp => gaveUp',
             app'.n = app.n + 1, app.pc = "push" => answer.n = app.n,
             requests' \in {requests, requests \cup {Request(app.n + 1, kind, body)}},
             IF kind = "set" THEN app'.pc = "push" /\ app'.requested = body
             ELSE app'.pc # "push"
      PROVE  QuietInv'
  <2>1. SUFFICES ASSUME ~gaveUp'
                 PROVE  /\ Pushes' # {} \/ Busy' => app'.pc = "push" /\ answer'.n # app'.n
                        /\ Busy' => Pushes' = {}
                        /\ \A r, q \in Pushes' : r = q
                        /\ ~(app'.pc = "verify" /\ answer'.n = app'.n)
    BY DEF QuietInv
  <2>2. Pushes = {} /\ ~Busy'
    BY <1>2, <1>4, <1>6, <2>1
  <2>3. Request(app.n + 1, kind, body).kind = kind
    BY DEF Request
  <2>4. Pushes' \subseteq {Request(app.n + 1, kind, body)} /\ (Pushes' # {} => kind = "set")
    BY <1>6, <2>2, <2>3 DEF Pushes
  <2>5. app'.pc = "push" => answer'.n # app'.n
    BY <1>6 DEF NoAnswer, AnswerInv
  <2> QED BY <1>3, <1>6, <2>2, <2>4, <2>5
<1> QED BY <1>1, <1>5, <1>6, AppMoves

AnswersInv == TypeOK /\ MatchInv /\ AnswerInv /\ QuietInv

LEMMA AnswersStart == Init => AnswersInv
<1> SUFFICES ASSUME Init PROVE AnswersInv
  OBVIOUS
<1>1. /\ requests = {} /\ server.pc = "off" /\ answer.n = 0 /\ answer.code = "none"
      /\ app.n = 0 /\ app.pc = "idle"
  BY DEF Init, DeviceInit, Off, Server, NoAnswer
<1>2. Pushes = {} /\ ~Busy
  BY <1>1 DEF Pushes, Busy
<1> QED BY <1>1, <1>2, InitTypes DEF AnswersInv, MatchInv, AnswerInv, QuietInv

LEMMA AnswersStep == ASSUME AnswersInv, [Next]_vars PROVE AnswersInv'
<1>1. TypeOK /\ MatchInv /\ AnswerInv /\ QuietInv
  BY DEF AnswersInv
<1>2. TypeOK' /\ MatchInv'
  BY <1>1, TypesStep, MatchStep
<1>3. CASE UNCHANGED vars
  <2>1. AnswerInv'
    BY <1>1, <1>3 DEF AnswerInv, vars, device
  <2>2. QuietInv'
    BY <1>1, <1>3 DEF QuietInv, vars, device, Pushes, Busy, StatusReport, StatusCode, Readable
  <2> QED BY <1>2, <2>1, <2>2 DEF AnswersInv
<1>4. CASE User \/ AppStep
  BY <1>1, <1>2, <1>4, AnswerApp, QuietApp DEF AnswersInv
<1>5. CASE Device /\ UNCHANGED appVars
  BY <1>1, <1>2, <1>5, AnswerDevice, QuietDevice DEF AnswersInv
<1> QED BY <1>3, <1>4, <1>5, Steps

-----------------------------------------------------------------------------
\* In every reachable state the variables have their types.
THEOREM TypeCorrect == Spec => []TypeOK
<1>1. Init => TypeOK
  BY InitTypes
<1>2. TypeOK /\ [Next]_vars => TypeOK'
  BY TypesStep
<1> QED BY <1>1, <1>2, PTL DEF Spec

\* httpd_stop is only called while the server runs and httpd_start while none
\* does, however often the phone joins and leaves, however late the event loop hears of it and whichever
\* start fails.
THEOREM AtMostOneServer == Spec => []OneServer
<1>1. Init => HandleInv
  <2> SUFFICES ASSUME Init PROVE HandleInv
    OBVIOUS
  <2>1. /\ events = <<>> /\ station = FALSE /\ loop = "wait" /\ handle = "null"
        /\ server.pc = "off"
    BY DEF Init, DeviceInit, Off, Server
  <2> QED BY <2>1, HandleFresh
<1>2. TypeOK /\ HandleInv /\ [Next]_vars => HandleInv'
  BY HandleStep
<1>3. TypeOK /\ HandleInv => OneServer
  <2> SUFFICES ASSUME TypeOK, HandleInv, events # <<>>, Head(events) = "connected"
               PROVE  Awaited
    BY DEF HandleInv, OneServer
  <2>1. Head(events) = events[1]
    <3>1. events \in Seq({"connected", "disconnected"})
      BY DEF TypeOK
    <3> QED BY <3>1
  <2> QED BY <2>1 DEF Awaited
<1> QED BY <1>1, <1>2, <1>3, TypeCorrect, PTL DEF Spec

\* A setting the user never edits is still the default in the partition after
\* any number of loads, applies, failed writes, power losses and requests the
\* device reads late, whatever the settings and their number.
THEOREM UntouchedSettings == Spec => []UntouchedSettingsKept
<1>1. Init => MatchInv
  <2> SUFFICES ASSUME Init PROVE MatchInv
    OBVIOUS
  <2>1. requests = {} /\ server.pc = "off" /\ answer.n = 0 /\ app.n = 0
    BY DEF Init, DeviceInit, Off, Server, NoAnswer
  <2> QED BY <2>1 DEF MatchInv
<1>2. Init => KeptInv
  <2> SUFFICES ASSUME Init PROVE KeptInv
    OBVIOUS
  <2>1. /\ requests = {} /\ server.pc = "off" /\ answer.code # "ok"
        /\ nvs = Default /\ ~Loaded
    BY DEF Init, DeviceInit, Off, Server, NoAnswer, Loaded
  <2> QED BY <2>1 DEF KeptInv, KeyKept
<1>3. TypeOK /\ MatchInv /\ [Next]_vars => MatchInv'
  BY MatchStep
<1>4. TypeOK /\ MatchInv /\ KeptInv /\ [Next]_vars => KeptInv'
  BY KeptStep
<1>5. KeptInv => UntouchedSettingsKept
  BY DEF KeptInv, KeyKept, UntouchedSettingsKept
<1> QED BY <1>1, <1>2, <1>3, <1>4, <1>5, TypeCorrect, PTL DEF Spec

LEMMA AlwaysAnswers == Spec => []AnswersInv
<1>1. AnswersInv /\ [Next]_vars => AnswersInv'
  BY AnswersStep
<1> QED BY <1>1, AnswersStart, PTL DEF Spec

\* When the app reports a verified apply, each setting in the partition is
\* the one pushed, or one the app cannot read back, whatever the settings are and
\* whatever writes failed; unless the app gave up on an earlier request, which
\* the device may have read since.
THEOREM VerifiedIsStored == Spec => VerifiedMeansStored
<1>1. AnswersInv /\ [Next]_vars =>
        [(app.msg # "verified" /\ app'.msg = "verified" /\ ~gaveUp) =>
           \A k \in Keys : nvs[k] = app.requested[k] \/ ~Survives(nvs[k])]_vars
  <2> SUFFICES ASSUME AnswersInv, Next, app.msg # "verified", app'.msg = "verified", ~gaveUp,
                      NEW k \in Keys, Survives(nvs[k])
               PROVE  nvs[k] = app.requested[k]
    BY DEF vars
  <2>1. app \in AppType
    BY Shapes DEF AnswersInv
  <2>2. VerifyDone /\ Verdict = "verified"
    <3>1. User \/ AppStep
      BY Steps DEF appVars, vars
    <3>2. ASSUME NEW msg, EndWith(msg) PROVE app'.msg = msg
      BY <2>1, <3>2 DEF EndWith, AppType
    <3>3. ASSUME NEW shown \in AppType, NEW pc, NEW kind, NEW body, Send(pc, kind, body, shown)
          PROVE  app'.msg = shown.msg
      BY <3>3 DEF Send, AppType
    <3>4. ~Connect
      <4>1. [app EXCEPT !.msg = "none"] \in AppType /\ [app EXCEPT !.msg = "none"].msg = "none"
        BY <2>1 DEF AppType
      <4> QED BY <3>3, <4>1 DEF Connect
    <3>5. ~Apply
      <4>1. ASSUME Apply PROVE FALSE
        <5>1. fields \in Settings
          BY <4>1 DEF Apply, Loaded, AnswersInv, TypeOK
        <5>2. LET shown == [app EXCEPT !.msg = "none", !.requested = fields]
              IN shown \in AppType /\ shown.msg = "none"
          BY <2>1, <5>1 DEF AppType
        <5> QED BY <3>3, <4>1, <5>2 DEF Apply
      <4> QED BY <4>1
    <3>6. ~UpdateField
      BY DEF UpdateField
    <3>7. ~LoadDone
      BY <3>2 DEF LoadDone
    <3>8. ~PushDone
      BY <2>1, <3>3 DEF PushDone
    <3>9. ~AnswerFails /\ ~GiveUp
      BY <3>2 DEF AnswerFails, GiveUp
    <3>10. VerifyDone
      BY <3>1, <3>4, <3>5, <3>6, <3>7, <3>8, <3>9 DEF User, AppStep
    <3>11. app'.msg = Verdict
      <4>1. LET shown == [app EXCEPT !.msg = Verdict] IN shown \in AppType /\ shown.msg = Verdict
        BY <2>1 DEF AppType, Verdict
      <4> QED BY <3>2, <3>3, <3>10, <4>1 DEF VerifyDone
    <3> QED BY <3>10, <3>11
  <2>3. answer.body = StatusReport
    BY <2>2 DEF VerifyDone, Arrived, AnswersInv, QuietInv
  <2>4. Fields(answer.body) = app.requested
    BY <2>2 DEF Verdict
  <2>5. StatusReport[k] = nvs[k]
    BY DEF StatusReport, GetStr, Survives
  <2>6. app.requested[k] = Parsed[StatusReport[k]]
    BY <2>3, <2>4 DEF Fields
  <2> QED BY <2>5, <2>6 DEF Survives
<1> QED BY <1>1, AlwaysAnswers, PTL DEF Spec, VerifiedMeansStored

\* A step in which an apply that was answered ends as failed.
ApplyFails == /\ app.pc \in {"push", "verify"} /\ app'.pc = "idle"
              /\ app'.msg = "apply failed" /\ ~gaveUp'

LEMMA WhyApplyFails ==
    ASSUME AnswersInv, Next, ApplyFails
    PROVE  \/ \E k \in Keys : nvs[k] \in Quoted \/ app.requested[k] \in Long
           \/ answer.n = app.n /\ answer.code = "not found"
<1>1. app \in AppType /\ gaveUp \in BOOLEAN
  BY Shapes DEF AnswersInv, TypeOK
<1>2. ~gaveUp /\ AnswerFails
  <2>1. User \/ AppStep
    BY Steps DEF appVars, vars, ApplyFails
  <2>2. ~User /\ ~LoadDone
    BY DEF User, Connect, UpdateField, Apply, LoadDone, Arrived, ApplyFails
  <2>3. ~GiveUp
    BY DEF GiveUp, ApplyFails
  <2>4. ~PushDone
    BY <1>1 DEF PushDone, Send, AppType, ApplyFails
  <2>5. ~VerifyDone
    <3>1. ASSUME EndWith(Verdict) PROVE FALSE
      BY <1>1, <3>1 DEF EndWith, AppType, Verdict, ApplyFails
    <3>2. ASSUME Send("restart", "restart", NoBody, [app EXCEPT !.msg = Verdict]) PROVE FALSE
      BY <1>1, <3>2 DEF Send, AppType, ApplyFails
    <3> QED BY <3>1, <3>2 DEF VerifyDone
  <2>6. AnswerFails
    BY <2>1, <2>2, <2>3, <2>4, <2>5 DEF AppStep
  <2> QED BY <2>6 DEF AnswerFails, ApplyFails
<1>3. answer.n = app.n /\ answer.code \in {"not found", "closed", "garbled"}
  BY <1>2 DEF AnswerFails
<1>4. CASE app.pc = "push"
  BY <1>3, <1>4 DEF AnswersInv, AnswerInv, HasLong
<1>5. CASE app.pc = "verify" /\ answer.code # "not found"
  <2>1. ~Readable(StatusReport)
    BY <1>2, <1>3, <1>5 DEF AnswersInv, QuietInv, StatusCode
  <2>2. PICK k \in Keys : GetStr(nvs, k) \in Quoted
    BY <2>1 DEF Readable, StatusReport
  <2>3. nvs[k] \in Quoted
    BY <2>2, SetupAssumption DEF GetStr
  <2> QED BY <2>3
<1> QED BY <1>3, <1>4, <1>5 DEF ApplyFails

\* For any settings, requests and faults: when an apply that was answered
\* ends as failed, a value is too long, a double quote is in the partition, or
\* the table of the server has no room for the app's routes. The table of the
\* code has not, which the run setup_routes shows; nothing else fails it.
THEOREM AppliesFailForAReason ==
    Spec => [][ApplyFails => \/ \E k \in Keys : nvs[k] \in Quoted \/ app.requested[k] \in Long
                             \/ ~({"status", "set"} \subseteq Registered)]_vars
<1>1. AnswersInv /\ [Next]_vars =>
        [ApplyFails => \/ \E k \in Keys : nvs[k] \in Quoted \/ app.requested[k] \in Long
                       \/ ~({"status", "set"} \subseteq Registered)]_vars
  <2>1. AnswersInv /\ {"status", "set"} \subseteq Registered => answer.code # "not found"
    BY DEF AnswersInv, AnswerInv
  <2> QED BY <2>1, WhyApplyFails
<1> QED BY <1>1, AlwaysAnswers, PTL DEF Spec
=============================================================================
