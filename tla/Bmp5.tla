-------------------------------- MODULE Bmp5 --------------------------------
(***************************************************************************)
(* A host that calls the functions of bmp5.c in any order, on a bus that   *)
(* may fail at any byte, the initialization the firmware does              *)
(* (SensorBMP5xx::init, sensor_bmp5xx.cpp) and the set-up of the examples  *)
(* that read the FIFO.                                                     *)
(***************************************************************************)
EXTENDS Bmp5Driver, FiniteSets

CONSTANTS
    Odrs, Osrs,          \* settings the host asks for
    FrameSels, Thresholds, OorThresholds, Addresses, Words, Samples,
    Stack,               \* what an unassigned power mode variable may hold
    Unassigned,          \* the same of members that set_config of the examples does
                         \* not assign: the shadow filter, and the sources but one
    MaxCalls,            \* bound: calls of the host
    MaxFaults,           \* bound: calls in which the bus or the memory fails
    MaxBytes,            \* bound: bytes before the bus fails in a call
    SetupBreaks          \* bound: the same in a set-up of several calls

Unsigned(bits) == 0..(2^bits - 1)

ASSUME Bmp5Assumption ==
    /\ Odrs \subseteq 0..31 /\ FrameSels \subseteq 0..3 /\ Thresholds \subseteq Nat
    /\ Addresses \subseteq 0..255
    /\ OorThresholds \subseteq Unsigned(17) /\ Words \subseteq Unsigned(16)
    /\ MaxCalls \in Nat /\ MaxFaults \in Nat /\ MaxBytes \in Nat
    /\ SetupBreaks \subseteq Nat
    /\ Unassigned \subseteq [shdw : 0..1, others : {0, 2}]

ASSUME SamplesAssumption == Samples \subseteq -(2^23)..(2^23 - 1)

VARIABLES
    reg,          \* the sensor's registers
    nvm,          \* its non-volatile memory
    last,         \* the last call and its outcome
    initialized,  \* SensorBMP5xx::initialized_
    calls, faults

vars == <<reg, nvm, last, initialized, calls, faults>>

NoCall == [fn |-> "none", arg |-> 0, rslt |-> "OK", data |-> FALSE, hot |-> FALSE]

Init ==
    /\ reg = ResetValues
    /\ nvm = [a \in NvmAddresses |-> 0]
    /\ last = NoCall
    /\ initialized = FALSE
    /\ calls = 0 /\ faults = 0

\* The driver's view when a call begins.
View(registers, left, took, ready, stack) ==
    [reg |-> registers, nvm |-> nvm, rslt |-> "OK", left |-> left, took |-> took,
     ready |-> ready, stack |-> stack, hot |-> FALSE, powermode |-> stack, data |-> FALSE]

Plenty == 1000

AttemptsWithin(breaks) ==
    LET sound == {View(reg, Plenty, FALSE, TRUE, s) : s \in Stack}
        failing == {View(reg, l, t, TRUE, s) : l \in breaks, t \in BOOLEAN, s \in Stack}
        notReady == {View(reg, Plenty, FALSE, FALSE, s) : s \in Stack}
    IN IF faults < MaxFaults THEN sound \cup failing \cup notReady ELSE sound

Attempts == AttemptsWithin(0..MaxBytes)

Faulty(d) == d.rslt \in {"COM_FAIL", "NVM_NOT_READY"}

\* The call returned d, and something failed in it or not.
Ends(fn, arg, d, failed) ==
    /\ calls < MaxCalls
    /\ calls' = calls + 1
    /\ reg' = d.reg /\ nvm' = d.nvm
    /\ last' = [fn |-> fn, arg |-> arg, rslt |-> d.rslt, data |-> d.data, hot |-> d.hot]
    /\ faults' = IF failed THEN faults + 1 ELSE faults

Returns(fn, arg, d) == Ends(fn, arg, d, Faulty(d))

Reset == /\ \E d \in Attempts : Returns("soft_reset", 0, SoftReset(d))
         /\ UNCHANGED initialized
SetMode == /\ \E d \in Attempts, m \in PowerModes :
                Returns("set_power_mode", [mode |-> m], SetPowerMode(d, m))
           /\ UNCHANGED initialized
SetOsrOdr == /\ \E d \in Attempts, cfg \in [osr : Osrs, odr : Odrs] :
                  Returns("set_osr_odr", cfg, SetOsrOdrPressConfig(d, cfg))
             /\ UNCHANGED initialized
SetIir == /\ \E d \in Attempts, cfg \in [shdw : {0}, iir : 0..1] :
               Returns("set_iir", cfg, SetIirConfig(d, cfg))
          /\ UNCHANGED initialized
SetFifo == /\ \E d \in Attempts, cfg \in [fifo_mode : {0}, threshold : Thresholds,
                                          frame_sel : FrameSels, fifo_iir : {1}] :
                Returns("set_fifo", cfg, SetFifoConfiguration(d, cfg))
           /\ UNCHANGED initialized
SetOor == /\ \E d \in Attempts, cfg \in [thr : OorThresholds, range : {1}, cnt_lim : {1},
                                         oor_iir : {1}] :
               Returns("set_oor", cfg, SetOorConfiguration(d, cfg))
          /\ UNCHANGED initialized
SetInterrupt == /\ \E d \in Attempts, cfg \in 0..1 :
                     Returns("configure_interrupt", cfg, ConfigureInterrupt(d, cfg))
                /\ UNCHANGED initialized
SelectSources == /\ \E d \in Attempts, s \in 0..1 :
                      Returns("int_source_select", s, IntSourceSelect(d, s))
                 /\ UNCHANGED initialized
ReadNvm == /\ \E d \in Attempts, a \in Addresses : Returns("nvm_read", a, NvmRead(d, a))
           /\ UNCHANGED initialized
WriteNvm == /\ \E d \in Attempts, a \in Addresses, w \in Words :
                 Returns("nvm_write", [a |-> a, w |-> w], NvmWrite(d, a, w))
            /\ UNCHANGED initialized

\* The sensor sends a temperature in two's complement.
ReadData == /\ \E d \in Attempts, t \in Samples, press_en \in BOOLEAN :
                 Returns("get_sensor_data", [t |-> t, press_en |-> press_en],
                         GetSensorData(d, press_en, [t |-> t % 2^24, p |-> 100000]))
            /\ UNCHANGED initialized

FirmwareConfig == [osr |-> 1, odr |-> 15]

\* Mutant: the sensor is set up without a reset.
SensorInitWarm(d) == SetPowerMode(SetOsrOdrPressConfig(InitSensor(d), FirmwareConfig), "NORMAL")

\* 2x and 16x oversampling and pressure, at 50 Hz.
Configured(d) == SetOsrOdrPressConfig(InitSensor(SoftReset(d)), FirmwareConfig)
SensorInit(d) == SetPowerMode(Configured(d), "NORMAL")

\* The result of bmp5_set_power_mode is returned, but does not keep the
\* sensor from counting as initialized.
FirmwareInit ==
    \E d \in Attempts :
        /\ Returns("init", 0, SensorInit(d))
        /\ initialized' = (initialized \/ Configured(d).rslt = "OK")

THRESHOLD_LEVEL == 8

\* The measurement and FIFO settings of set_config in the examples
\* fifo_full_interrupt_press_temp (3) and fifo_threshold_interrupt (2); the
\* former keeps the threshold it finds.
FifoSelected(d, sel) ==
    SetFifoConfiguration(d, [fifo_mode |-> 0, frame_sel |-> sel, fifo_iir |-> 1,
                             threshold |-> IF sel = 3 THEN d.reg.threshold
                                           ELSE THRESHOLD_LEVEL])

FifoConfigured(d, sel, junk) ==
    LET s == GetOsrOdrPressConfig(SetPowerMode(d, "STANDBY"))
        i == SetIirConfig(SetOsrOdrPressConfig(s, FirmwareConfig), [shdw |-> junk.shdw, iir |-> 1])
    IN FifoSelected(GetFifoConfiguration(i), sel)

\* Mutant: the sources are selected before the pin is configured.
SourcesFirst(d, junk) == ConfigureInterrupt(IntSourceSelect(d, 1 + junk.others), 1)

InterruptArmed(d, junk) == IntSourceSelect(ConfigureInterrupt(d, 1), 1 + junk.others)

\* set_config: once the sensor is in standby mode, normal mode is set and
\* that result returned whatever failed before. By then the bus may work again.
FifoSetup ==
    /\ \E d \in AttemptsWithin(SetupBreaks), sel \in {2, 3}, junk \in Unassigned :
       \E s \in {SetPowerMode(d, "STANDBY")},
          a \in {InterruptArmed(FifoConfigured(d, sel, junk), junk)} :
       \E left \in IF Faulty(a) THEN {0, Plenty} ELSE {a.left} :
       \E n \in {SetPowerMode([a EXCEPT !.rslt = "OK", !.left = left], "NORMAL")} :
           IF s.rslt = "OK" THEN Ends("fifo_setup", sel, n, Faulty(a) \/ Faulty(n))
           ELSE Returns("fifo_setup", sel, s)
    /\ UNCHANGED initialized

\* A forced measurement is over.
Measured ==
    /\ reg.mode = "FORCED"
    /\ reg' = [reg EXCEPT !.mode = "STANDBY"]
    /\ last' = NoCall
    /\ UNCHANGED <<nvm, initialized, calls, faults>>

Next == \/ Reset \/ SetMode \/ SetOsrOdr \/ SetIir \/ SetFifo \/ SetOor
        \/ SetInterrupt \/ SelectSources \/ ReadNvm \/ WriteNvm \/ ReadData
        \/ FirmwareInit \/ FifoSetup \/ Measured

Spec == Init /\ [][Next]_vars

-----------------------------------------------------------------------------
Called(fns) == last'.fn \in fns
Succeeded == last'.rslt = "OK"
Known(r) == Actual(r) # "UNDEFINED"

Reported(r) == {GetPowerMode(View(r, Plenty, FALSE, TRUE, s)).powermode : s \in Stack}

\* Type invariant: in particular every byte of a register is one.
TypeOK ==
    /\ DOMAIN reg = DOMAIN ResetValues
    /\ reg.mode \in Measuring \cup {"STANDBY"} /\ reg.deep_dis \in BOOLEAN
    /\ reg.odr \in 0..31 /\ reg.threshold \in 0..31 /\ reg.frame_sel \in 0..3
    /\ reg.oor_lsb \in 0..255 /\ reg.oor_msb \in 0..255 /\ reg.oor_xmsb \in 0..1
    /\ reg.nvm_addr \in 0..63 /\ reg.nvm_data \in Unsigned(16)
    /\ nvm \in [NvmAddresses -> Unsigned(16)]
    /\ last.hot \in BOOLEAN /\ initialized \in BOOLEAN
    /\ calls \in 0..MaxCalls /\ faults \in 0..MaxFaults

\* A successful call never leaves the sensor in a mode that
\* bmp5_get_power_mode cannot tell: unless a failed call did that before, it
\* reports the mode the sensor is in, whatever was on the caller's stack.
PowerModeIsKnown ==
    [][(Known(reg) /\ Succeeded) => Reported(reg') = {Actual(reg')}]_vars

\* Changing a setting takes the sensor to standby mode and back: when the
\* call succeeds the mode is the one before, or standby instead of deep
\* standby where deep standby would undo the setting.
ConfigurationKeepsMode ==
    [][(Known(reg) /\ Succeeded
        /\ Called({"set_osr_odr", "set_iir", "set_fifo", "set_oor", "nvm_read", "nvm_write"})) =>
          \/ Actual(reg') = Actual(reg)
          \/ /\ Actual(reg) = "DEEP_STANDBY" /\ Actual(reg') = "STANDBY"
             /\ ~Called({"nvm_read", "nvm_write"})]_vars

\* The mode apart.
Settings == DOMAIN ResetValues
              \ {"mode", "deep_dis", "cmd", "por", "nvm_addr", "prog_en", "nvm_data"}

\* What set_config of the FIFO examples sets, apart from what is unassigned.
FifoSettings(sel) ==
    [osr |-> FirmwareConfig.osr, odr |-> FirmwareConfig.odr,
     fifo_mode |-> 0, frame_sel |-> sel, fifo_iir |-> 1, iir |-> 1, int_config |-> 1,
     threshold |-> IF sel = 3 THEN reg.threshold ELSE THRESHOLD_LEVEL]

\* The fields a call is asked to change, with their new values. Going back
\* to deep standby after reading or writing the memory sets the rate to 1 Hz.
Asked(fn, arg, deep) ==
    CASE fn = "set_power_mode" ->
            IF arg.mode = "DEEP_STANDBY"
            THEN [odr |-> ODR_01_HZ, iir |-> BYPASS, frame_sel |-> 0]
            ELSE <<>>
      [] fn \in {"set_osr_odr", "set_iir"} -> arg
      [] fn = "set_fifo" -> IF arg.frame_sel = 0 THEN [arg EXCEPT !.threshold = reg.threshold]
                            ELSE arg
      [] fn = "set_oor" -> [oor_iir |-> arg.oor_iir, cnt_lim |-> arg.cnt_lim,
                            oor_range |-> arg.range, oor_lsb |-> arg.thr % 2^8,
                            oor_msb |-> (arg.thr \div 2^8) % 2^8,
                            oor_xmsb |-> arg.thr \div 2^16]
      [] fn = "configure_interrupt" -> [int_config |-> arg, int_source |-> 0]
      [] fn = "int_source_select" -> [int_source |-> arg]
      [] fn = "fifo_setup" -> FifoSettings(arg)
      [] fn \in {"nvm_read", "nvm_write"} /\ deep -> [odr |-> ODR_01_HZ]
      [] OTHER -> <<>>

AskedNow == Asked(last'.fn, last'.arg, Actual(reg) = "DEEP_STANDBY")

\* A reset, or several calls in one step.
Composed == Called({"soft_reset", "init", "fifo_setup"})

\* A successful call changes the settings it is asked to change, to what it
\* is asked, and no other.
SuccessDoesWhatWasAsked ==
    [][(Known(reg) /\ Succeeded /\ ~Composed) =>
         \A f \in Settings : reg'[f] = With(reg, AskedNow)[f]]_vars

\* bmp5_set_power_mode broke off on its way into deep standby mode: deep standby
\* is enabled, but the filter or the frames that keep the sensor from it are
\* not switched off yet, and the power mode is invalid.
HalfAsleep ==
    /\ Called({"set_power_mode"}) /\ last'.arg.mode = "DEEP_STANDBY"
    /\ reg.iir # BYPASS \/ reg.frame_sel # 0
    /\ Actual(reg') = "UNDEFINED"

\* 5 Hz, from which deep standby is not left, was written in deep standby mode.
AwakeAt5Hz ==
    /\ Called({"set_osr_odr"}) /\ last'.arg.odr = ODR_05_HZ
    /\ Actual(reg) = "DEEP_STANDBY" /\ Actual(reg') = "UNDEFINED"

\* Wherever the bus fails in a call, every setting has its old value or the
\* one asked for, and the sensor really is in the mode it was in, in standby
\* or in the mode asked for. The two ways above into an invalid mode are the
\* only ones.
FailedCallLeavesOldOrAsked ==
    [][(Known(reg) /\ ~Succeeded /\ ~Composed) =>
         /\ \A f \in Settings : reg'[f] \in {reg[f], With(reg, AskedNow)[f]}
         /\ \/ Actual(reg') \in {Actual(reg), "STANDBY"}
            \/ Called({"set_power_mode"}) /\ Actual(reg') = last'.arg.mode
            \/ HalfAsleep
            \/ AwakeAt5Hz]_vars

\* Filter, count limit and memory address are never written while the
\* sensor measures, also when the bus fails in the call or before it.
ProtectedOnlyInStandby == ~last.hot

\* The interrupt pin is reconfigured with all its sources off, in every
\* order of calls and wherever the bus fails; set_config of the FIFO
\* examples turns one on in the end.
InterruptsMaskedWhileReconfigured ==
    [][(reg'.int_config # reg.int_config /\ ~Called({"fifo_setup"})) => reg'.int_source = 0]_vars

\* The threshold can be reached with the 16 or 32 frames that fit, whatever
\* was set before, until a call fails between the two registers.
ThresholdFitsFrames ==
    (faults = 0 /\ reg.frame_sel # 0) =>
        reg.threshold < (IF reg.frame_sel = 3 THEN 16 ELSE 32)

Getter(fn, d) == CASE fn = "set_osr_odr" -> GetOsrOdrPressConfig(d).data
                   [] fn = "set_iir" -> GetIirConfig(d).data
                   [] fn = "set_fifo" -> GetFifoConfiguration(d).data
                   [] fn = "set_oor" -> GetOorConfiguration(d).data

\* What a set function accepted, the get function returns, the 17 bits of
\* the out-of-range threshold and its three registers included.
SetIsReadBack ==
    (last.rslt = "OK" /\ last.fn \in {"set_osr_odr", "set_iir", "set_fifo", "set_oor"}
     /\ ~(last.fn = "set_fifo" /\ last.arg.frame_sel = 0)) =>
        Getter(last.fn, View(reg, Plenty, FALSE, TRUE, "STANDBY")) = last.arg

\* Reading the memory returns the word at the address asked for; writing
\* changes that word only, to the one asked for, and always when it succeeds.
NvmKeepsWhatWasWritten ==
    [][/\ Called({"nvm_read"}) /\ Succeeded => last'.data = nvm[last'.arg]
       /\ \A a \in NvmAddresses : nvm'[a] # nvm[a] =>
            Called({"nvm_write"}) /\ last'.arg = [a |-> a, w |-> nvm'[a]]
       /\ Called({"nvm_write"}) /\ Succeeded => nvm'[last'.arg.a] = last'.arg.w]_vars

\* Whatever state the sensor was in, an initialization that counts leaves it
\* with the firmware's settings and no others, measuring when it succeeded.
InitializedIsConfigured ==
    [][(Called({"init"}) /\ (Succeeded \/ initialized' # initialized)) =>
         /\ \A f \in Settings :
              reg'[f] = With(ResetValues, FirmwareConfig)[f]
         /\ Succeeded => Actual(reg') = "NORMAL"]_vars

\* A set-up of a FIFO example in which nothing failed leaves the sensor
\* measuring into the FIFO with the interrupt on, whatever mode and settings
\* it finds; a threshold from before that is too high for both kinds of
\* frames is the exception, which set_config does not report. Sources the
\* client does not wait for may be on as well: set_config never assigns them.
FifoSetupArmsClient ==
    [][(Called({"fifo_setup"}) /\ faults' = faults
        /\ (last'.arg = 3 => reg.threshold < 16)) =>
         /\ Succeeded /\ Actual(reg') = "NORMAL" /\ reg'.int_source \in {1, 3}
         /\ \A f \in Settings \ {"shdw", "int_source"} : reg'[f] = With(reg, AskedNow)[f]]_vars
=============================================================================
