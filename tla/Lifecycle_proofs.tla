-------------------------- MODULE Lifecycle_proofs --------------------------
(***************************************************************************)
(* Proofs about Lifecycle for every content of the setup partition, every  *)
(* set of defaults and any number of faults.                               *)
(***************************************************************************)
EXTENDS Lifecycle, TLAPS

\* The SNTP service runs only after app_main left init_hmqtt behind.
ClientBeforeSntp ==
    sntp = "running" => client # "none"

\* What app_main has done so far, by the point it has reached: before the
\* choice of the mode no service exists, and on the way to the LED loop of the
\* operational mode they come up in order.
StagesInv ==
    /\ main \in {"boot", "flash", "mode"} =>
           /\ mode = "none" /\ wifi = "off"
           /\ sntp = "none" /\ client = "none" /\ ~telemetry
    /\ main \in {"sntp", "mqtt", "startSntp", "startTelemetry"} =>
           mode = "operational"
    /\ main = "mqtt" => sntp \in {"none", "configured"} /\ client = "none"
    /\ main = "sntp" => sntp = "none" /\ client = "none"
    /\ main = "startSntp" =>
           sntp \in {"none", "configured"} /\ client # "none"

\* The partition is written by init_flash only, before any reader of the time
\* zone can have started the client.
OrderInv ==
    /\ StagesInv
    /\ ClientBeforeSntp
    /\ SyncFindsClient
    /\ SessionNeedsClock
    /\ SetupIsQuiet

IInv == TypeOK /\ OrderInv

\* The steps of everyone but app_main.
OtherStep ==
    \/ StaStarted \/ GotIp \/ GotIpTooEarly \/ Dropped
    \/ ResponderWaits \/ ResponderReturns
    \/ TimeSync \/ SessionOpens
    \/ PowerCycle \/ MoveSwitch

\* The inductive invariant holds at power-on.
LEMMA InitIInv == Init => IInv
<1> SUFFICES ASSUME Init PROVE IInv
  OBVIOUS
<1>1. nvs \in [Keys -> {"absent", "empty", "fits", "long"}]
  BY LifecycleAssumption DEF Init
<1>2. faults \in 0..MaxFaults
  BY LifecycleAssumption DEF Init
<1>3. TypeOK
  BY <1>1, <1>2 DEF Init, TypeOK
<1>4. StagesInv /\ SetupIsQuiet
  BY DEF Init, StagesInv, SetupIsQuiet
<1>5. ClientBeforeSntp /\ SyncFindsClient /\ SessionNeedsClock
  BY DEF Init, ClientBeforeSntp, SyncFindsClient, SessionNeedsClock
<1> QED BY <1>3, <1>4, <1>5 DEF IInv, OrderInv

\* A fault is counted up to the bound.
LEMMA FaultCount ==
    ASSUME TypeOK, Fault
    PROVE  faults' \in 0..MaxFaults
  BY LifecycleAssumption DEF TypeOK, Fault

\* The steps of app_main keep the types.
LEMMA MainTypes ==
    ASSUME TypeOK, MainStep
    PROVE  TypeOK'
<1> USE DEF TypeOK
<1>1. CASE Boot
  BY <1>1 DEF Boot
<1>2. CASE InitFlash
  BY <1>2, FaultCount, LifecycleAssumption DEF InitFlash
<1>3. CASE InitFlashErases
  BY <1>3, FaultCount, LifecycleAssumption DEF InitFlashErases
<1>4. CASE InitFlashAborts
  BY <1>4, FaultCount DEF InitFlashAborts, Restart
<1>5. CASE EnterSetup
  BY <1>5 DEF EnterSetup
<1>6. CASE EnterOperation
  BY <1>6 DEF EnterOperation
<1>7. CASE InitSntp
  BY <1>7 DEF InitSntp
<1>8. CASE InitMqtt
  <2>1. faults' \in 0..MaxFaults
    BY <1>8, FaultCount DEF InitMqtt
  <2>2. client' \in {"none", "null", "ready", "started", "connected"}
    BY <1>8 DEF InitMqtt
  <2> QED BY <1>8, <2>1, <2>2 DEF InitMqtt
<1>9. CASE StartSntp
  BY <1>9 DEF StartSntp
<1>10. CASE StartTelemetry
  <2>1. faults' \in 0..MaxFaults
    BY <1>10, FaultCount DEF StartTelemetry
  <2>2. telemetry' \in BOOLEAN
    BY <1>10 DEF StartTelemetry
  <2> QED BY <1>10, <2>1, <2>2 DEF StartTelemetry
<1> QED BY <1>1, <1>2, <1>3, <1>4, <1>5, <1>6, <1>7, <1>8, <1>9, <1>10 DEF MainStep

\* The steps of the other tasks, the power supply and the user keep the types.
LEMMA OtherTypes ==
    ASSUME TypeOK, OtherStep
    PROVE  TypeOK'
<1> USE DEF TypeOK
<1>1. CASE StaStarted
  BY <1>1 DEF StaStarted
<1>2. CASE GotIp
  BY <1>2 DEF GotIp
<1>3. CASE GotIpTooEarly
  BY <1>3 DEF GotIpTooEarly, Restart
<1>4. CASE Dropped
  BY <1>4, FaultCount DEF Dropped
<1>5. CASE ResponderWaits
  BY <1>5 DEF ResponderWaits
<1>6. CASE ResponderReturns
  BY <1>6 DEF ResponderReturns, Restart
<1>7. CASE TimeSync
  BY <1>7 DEF TimeSync
<1>8. CASE SessionOpens
  BY <1>8 DEF SessionOpens
<1>9. CASE PowerCycle
  BY <1>9, FaultCount DEF PowerCycle, Restart
<1>10. CASE MoveSwitch
  BY <1>10, FaultCount DEF MoveSwitch
<1> QED BY <1>1, <1>2, <1>3, <1>4, <1>5, <1>6, <1>7, <1>8, <1>9, <1>10 DEF OtherStep

\* Each step of app_main brings up one service, in the order of the code.
LEMMA MainOrder ==
    ASSUME OrderInv, MainStep
    PROVE  OrderInv'
<1> USE DEF OrderInv, StagesInv, ClientBeforeSntp, SyncFindsClient,
            SessionNeedsClock, SetupIsQuiet, Loads
<1>1. CASE Boot
  BY <1>1 DEF Boot
<1>2. CASE InitFlash
  BY <1>2 DEF InitFlash, Fault
<1>3. CASE InitFlashErases
  BY <1>3 DEF InitFlashErases, Fault
<1>4. CASE InitFlashAborts
  BY <1>4 DEF InitFlashAborts, Restart, Fault
<1>5. CASE EnterSetup
  BY <1>5 DEF EnterSetup
<1>6. CASE EnterOperation
  BY <1>6 DEF EnterOperation
<1>7. CASE InitSntp
  BY <1>7 DEF InitSntp
<1>8. CASE InitMqtt
  BY <1>8 DEF InitMqtt
<1>9. CASE StartSntp
  BY <1>9 DEF StartSntp
<1>10. CASE StartTelemetry
  BY <1>10 DEF StartTelemetry, Fault
<1> QED BY <1>1, <1>2, <1>3, <1>4, <1>5, <1>6, <1>7, <1>8, <1>9, <1>10 DEF MainStep

\* The other steps rely on what app_main has brought up so far.
LEMMA OtherOrder ==
    ASSUME OrderInv, OtherStep
    PROVE  OrderInv'
<1> USE DEF OrderInv, StagesInv, ClientBeforeSntp, SyncFindsClient,
            SessionNeedsClock, SetupIsQuiet, Loads
<1>1. CASE StaStarted
  BY <1>1 DEF StaStarted
<1>2. CASE GotIp
  BY <1>2 DEF GotIp
<1>3. CASE GotIpTooEarly
  BY <1>3 DEF GotIpTooEarly, Restart
<1>4. CASE Dropped
  BY <1>4 DEF Dropped, Fault
<1>5. CASE ResponderWaits
  BY <1>5 DEF ResponderWaits
<1>6. CASE ResponderReturns
  BY <1>6 DEF ResponderReturns, Restart
<1>7. CASE TimeSync
  BY <1>7 DEF TimeSync, Loads
<1>8. CASE SessionOpens
  BY <1>8 DEF SessionOpens, Loads
<1>9. CASE PowerCycle
  BY <1>9 DEF PowerCycle, Restart, Fault
<1>10. CASE MoveSwitch
  BY <1>10 DEF MoveSwitch, Fault
<1> QED BY <1>1, <1>2, <1>3, <1>4, <1>5, <1>6, <1>7, <1>8, <1>9, <1>10 DEF OtherStep

\* Every step keeps the inductive invariant.
LEMMA NextIInv == IInv /\ [Next]_vars => IInv'
<1> SUFFICES ASSUME IInv, [Next]_vars PROVE IInv'
  OBVIOUS
<1>1. CASE MainStep
  BY <1>1, MainTypes, MainOrder DEF IInv
<1>2. CASE OtherStep
  BY <1>2, OtherTypes, OtherOrder DEF IInv
<1>3. CASE UNCHANGED vars
  <2>1. TypeOK'
    BY <1>3 DEF vars, IInv, TypeOK
  <2>2. OrderInv'
    BY <1>3 DEF vars, IInv, OrderInv, StagesInv, ClientBeforeSntp,
                SyncFindsClient, SessionNeedsClock, SetupIsQuiet, Loads
  <2> QED BY <2>1, <2>2 DEF IInv
<1>4. CASE Idle
  BY <1>3, <1>4 DEF Idle
<1> QED BY <1>1, <1>2, <1>3, <1>4 DEF Next, OtherStep

\* The inductive invariant holds in every reachable state.
THEOREM Invariance == Spec => []IInv
  BY InitIInv, NextIInv, PTL DEF Spec

\* The type invariant of the start-up.
THEOREM TypeCorrect == Spec => []TypeOK
<1>1. IInv => TypeOK
  BY DEF IInv
<1> QED BY <1>1, Invariance, PTL

\* However late or early the time server answers, the callback of the first
\* synchronization finds init_hmqtt done.
THEOREM SyncAfterClient == Spec => []SyncFindsClient
<1>1. IInv => SyncFindsClient
  BY DEF IInv, OrderInv
<1> QED BY <1>1, Invariance, PTL

\* The MQTT client never runs before the clock was set and the time zone
\* loaded, through any sequence of restarts and lost connections.
THEOREM ClockBeforeSession == Spec => []SessionNeedsClock
<1>1. IInv => SessionNeedsClock
  BY DEF IInv, OrderInv
<1> QED BY <1>1, Invariance, PTL

\* In setup mode no operational service exists.
THEOREM QuietSetup == Spec => []SetupIsQuiet
<1>1. IInv => SetupIsQuiet
  BY DEF IInv, OrderInv
<1> QED BY <1>1, Invariance, PTL
=============================================================================
