---------------------------- MODULE Bmp5SelfTest ----------------------------
(***************************************************************************)
(* Bosch's self test (bmp5_selftest.c): configure the sensor with the      *)
(* functions of Bmp5Driver, collect samples as they become ready, judge    *)
(* their average and go to standby mode. The bus may break and mend.       *)
(***************************************************************************)
EXTENDS Bmp5Driver

CONSTANTS
    SampleCount,   \* SAMPLE_COUNT
    Timeout,       \* BMP5_SELFTEST_TIMEOUT_MS
    Values,        \* measurements, of pressure or of temperature alike
    MinValue, MaxValue,  \* the plausible ones, without the 0 of a missing one
    MaxFaults      \* bound: times the bus breaks

VARIABLES
    reg,     \* the sensor's registers
    drdy,    \* data-ready bit of the interrupt status
    busUp,   \* transfers succeed
    pc,      \* where the test is
    calls,   \* calls of set-up done
    ready,   \* int_status, as read
    data,    \* data[0..idx-1], 0 where the read failed
    tries,   \* try_count
    rslt,
    faults

vars == <<reg, drdy, busUp, pc, calls, ready, data, tries, rslt, faults>>

Init ==
    /\ reg = ResetValues /\ drdy = FALSE /\ busUp = TRUE
    /\ pc = "config" /\ calls = 0 /\ ready = FALSE /\ data = <<>> /\ tries = 0 /\ rslt = "OK"
    /\ faults = 0

\* The driver's view when a call begins, on a bus that works or does not.
View == [reg |-> reg, nvm |-> <<>>, rslt |-> "OK", left |-> IF busUp THEN 1000 ELSE 0,
         took |-> FALSE, ready |-> TRUE, stack |-> "STANDBY", hot |-> FALSE,
         powermode |-> "STANDBY", data |-> FALSE]

\* The calls of bmp5_init and set_config: 50 Hz, filter coefficient 1,
\* interrupt on data ready, normal mode.
Setup == <<"init", "standby", "get_osr_odr", "set_osr_odr", "set_iir", "interrupt",
           "sources", "normal">>
SetupCall(d, call) ==
    CASE call = "init" -> InitSensor(d)
      [] call = "standby" -> SetPowerMode(d, "STANDBY")
      [] call = "get_osr_odr" -> GetOsrOdrPressConfig(d)
      [] call = "set_osr_odr" -> SetOsrOdrPressConfig(d, [osr |-> 1, odr |-> 15])
      [] call = "set_iir" -> SetIirConfig(d, [shdw |-> 0, iir |-> 1])
      [] call = "interrupt" -> ConfigureInterrupt(d, 1)
      [] call = "sources" -> IntSourceSelect(d, 1)
      [] call = "normal" -> SetPowerMode(d, "NORMAL")

Configure ==
    /\ pc = "config"
    /\ \E d \in {SetupCall(View, Setup[calls + 1])} :
        /\ reg' = d.reg /\ rslt' = d.rslt
        /\ calls' = calls + 1
        /\ pc' = IF d.rslt # "OK" THEN "end"
                 ELSE IF calls' < Len(Setup) THEN "config" ELSE "poll"
    /\ UNCHANGED <<drdy, busUp, ready, data, tries, faults>>

PollStatus ==
    /\ pc = "poll"
    /\ IF busUp THEN rslt' = "OK" /\ ready' = drdy /\ drdy' = FALSE
       ELSE rslt' = "COM_FAIL" /\ UNCHANGED <<ready, drdy>>
    /\ pc' = "polled"
    /\ UNCHANGED <<reg, busUp, calls, data, tries, faults>>

\* A status that could not be read neither waits nor counts.
PollAgain ==
    /\ pc = "polled" /\ rslt # "OK"
    /\ pc' = "poll"
    /\ UNCHANGED <<reg, drdy, busUp, calls, ready, data, tries, rslt, faults>>

WaitForData ==
    /\ pc = "polled" /\ rslt = "OK" /\ ~ready
    /\ tries' = tries + 1
    /\ IF tries' >= Timeout THEN rslt' = "SELFTEST_TIMEOUT" /\ pc' = "end"
       ELSE pc' = "poll" /\ UNCHANGED rslt
    /\ UNCHANGED <<reg, drdy, busUp, calls, ready, data, faults>>

\* The result is kept, but a sample counts even when it could not be read.
TakeSample ==
    /\ pc = "polled" /\ rslt = "OK" /\ ready
    /\ IF busUp THEN rslt' = "OK" /\ \E v \in Values : data' = Append(data, v)
       ELSE rslt' = "COM_FAIL" /\ data' = Append(data, 0)
    /\ pc' = IF Len(data') < SampleCount THEN "poll"
             ELSE IF rslt' = "OK" THEN "analyze" ELSE "end"
    /\ UNCHANGED <<reg, drdy, busUp, calls, ready, tries, faults>>

Total(s) == LET sum[n \in 0..Len(s)] == IF n = 0 THEN 0 ELSE sum[n - 1] + s[n] IN sum[Len(s)]

\* analyze_sensor_data and, when it is content, standby mode.
Analyze ==
    LET plausible == Total(data) \in (MinValue * SampleCount)..(MaxValue * SampleCount)
    IN /\ pc = "analyze"
       /\ pc' = "end"
       /\ IF plausible
          THEN \E d \in {SetPowerMode(View, "STANDBY")} : reg' = d.reg /\ rslt' = d.rslt
          ELSE rslt' = "IMPLAUSIBLE" /\ UNCHANGED reg
       /\ UNCHANGED <<drdy, busUp, calls, ready, data, tries, faults>>

\* The sensor in normal mode has a new measurement.
Measure ==
    /\ reg.mode = "NORMAL" /\ ~drdy
    /\ drdy' = TRUE
    /\ UNCHANGED <<reg, busUp, pc, calls, ready, data, tries, rslt, faults>>

BusBreaks ==
    /\ busUp /\ faults < MaxFaults
    /\ busUp' = FALSE /\ faults' = faults + 1
    /\ UNCHANGED <<reg, drdy, pc, calls, ready, data, tries, rslt>>

BusMends ==
    /\ ~busUp /\ busUp' = TRUE
    /\ UNCHANGED <<reg, drdy, pc, calls, ready, data, tries, rslt, faults>>

Test == Configure \/ PollStatus \/ PollAgain \/ WaitForData \/ TakeSample \/ Analyze
Next == Test \/ Measure \/ BusBreaks \/ BusMends

\* The test runs and the sensor measures; a broken bus need not mend.
Spec == Init /\ [][Next]_vars /\ WF_vars(Test) /\ WF_vars(Measure)

-----------------------------------------------------------------------------
\* The self test ends, with a result or because the overall timeout has been
\* exceeded, also when the status cannot be read any more.
SelfTestEnds == <>(pc = "end")
=============================================================================
