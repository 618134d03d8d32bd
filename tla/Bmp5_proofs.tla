----------------------------- MODULE Bmp5_proofs -----------------------------
(***************************************************************************)
(* Theorems about a host that calls the BMP5 driver. Each call begins in   *)
(* the state of the sensor, does what the lemmas of Bmp5Calls_proofs say   *)
(* and ends in the next state.                                             *)
(***************************************************************************)
EXTENDS Bmp5Calls_proofs

\* A call begins; while no fault is left it cannot fail.
Begun(d) ==
    /\ Viewed(d)
    /\ d.reg = reg /\ d.nvm = nvm /\ d.rslt = "OK" /\ d.hot = FALSE
    /\ d.stack \in Stack
    /\ faults < MaxFaults \/ (d.ready /\ d.left = Plenty)

Sound(d) == d.ready /\ d.left = Plenty

\* What all calls but that of bmp5_nvm_write have in common.
Runs(d, e, k) ==
    /\ Viewed(e)
    /\ e.nvm = d.nvm
    /\ e.hot => d.hot
    /\ e.ready = d.ready /\ e.left >= d.left - k
    /\ (d.ready /\ d.left >= k /\ d.rslt \notin Faults) => e.rslt \notin Faults

TypedState == Registers(reg) /\ Memory(nvm)

\* The registers hold what they can, a protected register was never written
\* while the sensor measured, and the bounds are kept.
TypeInv ==
    /\ TypedState
    /\ last.hot = FALSE
    /\ initialized \in BOOLEAN
    /\ calls \in 0..MaxCalls /\ faults \in 0..MaxFaults

LEMMA ViewBegins ==
    ASSUME NEW l \in Nat, NEW t \in BOOLEAN, NEW y \in BOOLEAN, NEW s \in Stack, TypedState,
           faults < MaxFaults \/ (y /\ l = Plenty)
    PROVE  Begun(View(reg, l, t, y, s)) /\ View(reg, l, t, y, s).took = t
<1> DEFINE d == View(reg, l, t, y, s)
<1>1. /\ DOMAIN d = ViewFields
      /\ d.reg = reg /\ d.nvm = nvm /\ d.rslt = "OK" /\ d.left = l /\ d.took = t
      /\ d.ready = y /\ d.stack = s /\ d.hot = FALSE
  BY DEF View, ViewFields
<1> HIDE DEF d
<1>2. Viewed(d)
  BY <1>1 DEF Viewed, TypedState
<1> QED BY <1>1, <1>2 DEF Begun, d

LEMMA AttemptBegins ==
    ASSUME NEW breaks, breaks \subseteq Nat, NEW d \in AttemptsWithin(breaks), TypedState
    PROVE  Begun(d)
<1>1. Plenty \in Nat
  BY DEF Plenty
<1>2. CASE \E s \in Stack : d = View(reg, Plenty, FALSE, TRUE, s)
  BY <1>1, <1>2, ViewBegins
<1>3. ASSUME faults < MaxFaults, NEW s \in Stack, d = View(reg, Plenty, FALSE, FALSE, s)
      PROVE  Begun(d)
  BY <1>1, <1>3, ViewBegins
<1> DEFINE flags == BOOLEAN
           yes == TRUE
           no == FALSE
           sound == {View(reg, Plenty, FALSE, TRUE, s) : s \in Stack}
           failing == {View(reg, l, t, yes, s) : l \in breaks, t \in flags, s \in Stack}
           notReady == {View(reg, Plenty, no, no, s) : s \in Stack}
<1>4. AttemptsWithin(breaks) =
        IF faults < MaxFaults THEN sound \cup failing \cup notReady ELSE sound
  BY DEF AttemptsWithin
<1> HIDE DEF flags, yes, no
<1>5. CASE d \in sound
  BY <1>2, <1>5
<1>6. CASE d \in failing /\ faults < MaxFaults
  <2>1. PICK l \in breaks, t \in flags, s \in Stack : d = View(reg, l, t, yes, s)
    BY <1>6
  <2>2. l \in Nat /\ t \in BOOLEAN /\ s \in Stack /\ d = View(reg, l, t, TRUE, s)
    BY <2>1 DEF flags, yes
  <2>3. Begun(View(reg, l, t, TRUE, s))
    <3>1. faults < MaxFaults /\ TRUE \in BOOLEAN
      BY <1>6
    <3> HIDE <1>6
    <3> QED BY <2>2, <3>1, ViewBegins, Zenon
  <2> QED BY <2>2, <2>3
<1>7. CASE d \in notReady /\ faults < MaxFaults
  <2>1. PICK s \in Stack : d = View(reg, Plenty, no, no, s)
    BY <1>7
  <2>2. s \in Stack /\ d = View(reg, Plenty, FALSE, FALSE, s)
    BY <2>1 DEF no
  <2> QED BY <1>3, <1>7, <2>2
<1> HIDE DEF sound, failing, notReady
<1> QED BY <1>4, <1>5, <1>6, <1>7

LEMMA CallBegins ==
    ASSUME TypedState
    PROVE  /\ \A d \in Attempts : Begun(d)
           /\ \A d \in AttemptsWithin(SetupBreaks) : Begun(d)
<1>1. 0..MaxBytes \subseteq Nat /\ SetupBreaks \subseteq Nat
  BY Bmp5Assumption
<1> QED BY <1>1, AttemptBegins DEF Attempts

LEMMA DoesRuns ==
    ASSUME NEW d, NEW e, NEW k \in Nat, NEW w, NEW M, Does(d, e, w, M, k)
    PROVE  Runs(d, e, k)
  BY DEF Does, Writes, Runs

LEMMA RunsThen ==
    ASSUME NEW d, NEW e, NEW f, NEW m \in Nat, NEW n \in Nat, Viewed(d),
           Runs(d, e, m), Runs(e, f, n)
    PROVE  Runs(d, f, m + n)
<1>1. d.left \in Nat /\ e.left \in Nat /\ f.left \in Nat
  BY DEF Runs, Viewed
<1> QED BY <1>1 DEF Runs

\* A call that needs no more bytes than there are does not fail on the bus.
LEMMA SoundCall ==
    ASSUME NEW d, Begun(d), NEW e, NEW k \in Nat, k <= Plenty, Runs(d, e, k)
    PROVE  Viewed(e) /\ (e.hot => d.hot) /\ (Faulty(e) => ~Sound(d))
  BY DEF Sound, Runs, Faulty, Faults, Begun

LEMMA SoundWrites ==
    ASSUME NEW d, Begun(d), NEW e, NEW w, NEW M, Writes(d, e, w, M, Plenty)
    PROVE  Viewed(e) /\ (e.hot => d.hot) /\ (Faulty(e) => ~Sound(d))
  BY DEF Sound, Writes, Faulty, Faults, Begun, Plenty

LEMMA CallEnds ==
    ASSUME TypeInv, NEW d, Begun(d), NEW e, Viewed(e), e.hot => d.hot,
           NEW fn, NEW arg, NEW failed, failed => ~Sound(d),
           Ends(fn, arg, e, failed), initialized' \in BOOLEAN
    PROVE  TypeInv'
<1>1. TypedState' /\ last'.hot = FALSE
  BY DEF Ends, Begun, Viewed, TypedState
<1>2. calls' \in 0..MaxCalls
  BY Bmp5Assumption DEF Ends, TypeInv
<1>3. failed => faults < MaxFaults
  BY DEF Begun, Sound
<1>4. faults' \in 0..MaxFaults
  BY <1>3, Bmp5Assumption DEF Ends, TypeInv
<1> QED BY <1>1, <1>2, <1>4 DEF TypeInv

-----------------------------------------------------------------------------
(***************************************************************************)
(* The calls of single functions.                                          *)
(***************************************************************************)
\* The settings set_oor asks for.
OorAsked(oor) ==
    [oor_iir |-> oor.oor_iir, cnt_lim |-> oor.cnt_lim, oor_range |-> oor.range,
     oor_lsb |-> oor.thr % 2^8, oor_msb |-> (oor.thr \div 2^8) % 2^8,
     oor_xmsb |-> oor.thr \div 2^16]

LEMMA AskedFor ==
    ASSUME NEW arg, NEW deep
    PROVE  /\ Asked("set_power_mode", arg, deep) =
                IF arg.mode = "DEEP_STANDBY" THEN DeepSettings ELSE <<>>
           /\ Asked("set_osr_odr", arg, deep) = arg /\ Asked("set_iir", arg, deep) = arg
           /\ Asked("set_fifo", arg, deep) =
                IF arg.frame_sel = 0 THEN [arg EXCEPT !.threshold = reg.threshold] ELSE arg
           /\ Asked("set_oor", arg, deep) = OorAsked(arg)
           /\ Asked("configure_interrupt", arg, deep) = [int_config |-> arg, int_source |-> 0]
           /\ Asked("int_source_select", arg, deep) = [int_source |-> arg]
           /\ \A fn \in {"nvm_read", "nvm_write"} :
                Asked(fn, arg, deep) = IF deep THEN [odr |-> ODR_01_HZ] ELSE <<>>
           /\ Asked("get_sensor_data", arg, deep) = <<>>
           /\ Asked("none", arg, deep) = <<>>
<1>1. Asked("set_power_mode", arg, deep) =
        IF arg.mode = "DEEP_STANDBY" THEN DeepSettings ELSE <<>>
  BY DEF Asked, DeepSettings
<1>2. Asked("set_osr_odr", arg, deep) = arg /\ Asked("set_iir", arg, deep) = arg
  BY DEF Asked
<1>3. Asked("set_fifo", arg, deep) =
        IF arg.frame_sel = 0 THEN [arg EXCEPT !.threshold = reg.threshold] ELSE arg
  BY DEF Asked
<1>4. Asked("set_oor", arg, deep) = OorAsked(arg)
  BY DEF Asked, OorAsked
<1>5. /\ Asked("configure_interrupt", arg, deep) = [int_config |-> arg, int_source |-> 0]
      /\ Asked("int_source_select", arg, deep) = [int_source |-> arg]
  BY DEF Asked
<1>6. ASSUME NEW fn \in {"nvm_read", "nvm_write"}
      PROVE  Asked(fn, arg, deep) = IF deep THEN [odr |-> ODR_01_HZ] ELSE <<>>
  BY DEF Asked
<1>7. Asked("get_sensor_data", arg, deep) = <<>> /\ Asked("none", arg, deep) = <<>>
  BY DEF Asked
<1> QED BY <1>1, <1>2, <1>3, <1>4, <1>5, <1>6, <1>7

LEMMA NothingAsked == DOMAIN <<>> = {} /\ \A r : With(r, <<>>) = [f \in DOMAIN r |-> r[f]]
<1>1. DOMAIN <<>> = {}
  OBVIOUS
<1> QED BY <1>1 DEF With

LEMMA Returned ==
    ASSUME NEW fn, NEW arg, NEW e, Returns(fn, arg, e)
    PROVE  /\ last'.fn = fn /\ last'.arg = arg /\ last'.rslt = e.rslt
           /\ last'.data = e.data /\ last'.hot = e.hot
           /\ reg' = e.reg /\ nvm' = e.nvm
           /\ Ends(last'.fn, last'.arg, e, Faulty(e))
<1>1. Ends(fn, arg, e, Faulty(e))
  BY DEF Returns
<1>2. last'.fn = fn /\ last'.arg = arg /\ last'.rslt = e.rslt
      /\ last'.data = e.data /\ last'.hot = e.hot /\ reg' = e.reg /\ nvm' = e.nvm
  BY <1>1 DEF Ends
<1> QED BY <1>1, <1>2

NvmCalls == {"nvm_read", "nvm_write"}

\* The modes a call may leave the sensor in, the one before and standby aside.
Modes == IF Called({"set_power_mode"}) THEN {last'.arg.mode}
         ELSE IF Known(reg) THEN {} ELSE Stack

\* The mode after a call that succeeded from a valid one.
ModeIsRight ==
    IF Called({"set_power_mode"}) THEN Actual(reg') = last'.arg.mode /\ last'.arg.mode \in PowerModes
    ELSE IF Called(NvmCalls) THEN Actual(reg') = Actual(reg)
    ELSE (Called({"set_osr_odr"}) /\ last'.arg.odr = ODR_05_HZ) \/ KeepsMode(reg, reg')

\* The call of a function answered e, after changing no setting but those of w
\* to what they are in w.
Answers(d, e, w) ==
    /\ Begun(d) /\ Writes(d, e, w, Modes, Plenty)
    /\ Ends(last'.fn, last'.arg, e, Faulty(e))
    /\ initialized' = initialized
    /\ ~Called({"soft_reset", "init", "fifo_setup"})
    /\ ~Called(NvmCalls) => w = AskedNow
    /\ ~Called({"nvm_write"}) => e.nvm = d.nvm
    /\ Known(reg) => \A f \in Settings : With(reg, w)[f] = With(reg, AskedNow)[f]
    /\ e.rslt = "OK" /\ (Known(reg) \/ ~Called(NvmCalls)) => Has(e, w)
    /\ e.rslt = "OK" /\ Known(reg) => ModeIsRight
    /\ Called({"configure_interrupt"}) \/ "int_config" \notin DOMAIN w
    /\ Called({"set_fifo"})
       \/ ("threshold" \notin DOMAIN w /\ ("frame_sel" \in DOMAIN w => w.frame_sel = 0))

LEMMA SetModeAnswers == ASSUME TypedState, SetMode PROVE \E d, e, w : Answers(d, e, w)
<1>1. PICK d \in Attempts, m \in PowerModes :
        Returns("set_power_mode", [mode |-> m], SetPowerMode(d, m))
  BY DEF SetMode
<1> DEFINE e == SetPowerMode(d, m)
           w == IF m = "DEEP_STANDBY" THEN DeepSettings ELSE <<>>
<1>2. /\ last'.fn = "set_power_mode" /\ last'.arg = [mode |-> m] /\ reg' = e.reg
      /\ Ends(last'.fn, last'.arg, e, Faulty(e))
  BY <1>1, Returned
<1>3. AskedNow = w
  BY <1>2, AskedFor DEF AskedNow
<1>4. Begun(d)
  BY <1>1, CallBegins
<1>5. m = "DEEP_STANDBY" => Asks(w, DeepSettings)
  BY DEF Asks
<1>6. Modes = {m}
  BY <1>2 DEF Modes, Called
<1>7. /\ Does(d, e, w, {m}, 12)
      /\ e.rslt = "OK" =>
           /\ (Known(d.reg) \/ m # "STANDBY") => Actual(e.reg) = m
           /\ m = "DEEP_STANDBY" => \A f \in DOMAIN DeepSettings : e.reg[f] = DeepSettings[f]
  BY <1>4, <1>5, SetPowerModeDoes DEF Begun
<1>8. e.rslt = "OK" => Has(e, w)
  BY <1>7, NothingAsked DEF Has
<1>9. /\ "int_config" \notin DOMAIN w /\ "threshold" \notin DOMAIN w
      /\ "frame_sel" \in DOMAIN w => w.frame_sel = 0
  BY NothingAsked DEF DeepSettings
<1> HIDE DEF e, w
<1>10. Writes(d, e, w, {m}, Plenty) /\ e.nvm = d.nvm
  BY <1>4, <1>7, DoesMore DEF Begun, Plenty, Does
<1>11. e.rslt = "OK" /\ Known(reg) => ModeIsRight
  BY <1>1, <1>2, <1>4, <1>7 DEF ModeIsRight, Called, Begun
<1>12. initialized' = initialized
  BY DEF SetMode
<1> QED BY <1>2, <1>3, <1>4, <1>6, <1>8, <1>9, <1>10, <1>11, <1>12 DEF Answers, Called, NvmCalls

\* Outside bmp5_set_power_mode an invalid mode is what the stack holds.
LEMMA StackModes ==
    ASSUME NEW d, Begun(d), ~Called({"set_power_mode"})
    PROVE  ~Known(d.reg) => d.stack \in Modes
  BY DEF Begun, Modes

\* A call with known results, in the terms of Answers.
LEMMA Answering ==
    ASSUME NEW d, Begun(d), NEW e, NEW k \in Nat, k <= Plenty, NEW w, NEW fn, NEW arg,
           Returns(fn, arg, e), initialized' = initialized,
           fn \in {"set_osr_odr", "set_iir", "set_fifo", "set_oor", "configure_interrupt",
                   "int_source_select", "get_sensor_data"},
           Does(d, e, w, Modes, k),
           AskedNow = w, e.rslt = "OK" => Has(e, w),
           e.rslt = "OK" /\ Known(reg) =>
             (fn = "set_osr_odr" /\ arg.odr = ODR_05_HZ) \/ KeepsMode(reg, reg'),
           fn = "configure_interrupt" \/ "int_config" \notin DOMAIN w,
           fn = "set_fifo"
             \/ ("threshold" \notin DOMAIN w /\ ("frame_sel" \in DOMAIN w => w.frame_sel = 0))
    PROVE  Answers(d, e, w)
<1>1. /\ last'.fn = fn /\ last'.arg = arg /\ reg' = e.reg
      /\ Ends(last'.fn, last'.arg, e, Faulty(e))
  BY Returned
<1>2. /\ ~Called({"soft_reset", "init", "fifo_setup"}) /\ ~Called(NvmCalls)
      /\ ~Called({"set_power_mode"}) /\ ~Called({"nvm_write"})
  BY <1>1 DEF Called, NvmCalls
<1>3. Writes(d, e, w, Modes, Plenty) /\ e.nvm = d.nvm
  <2>1. Plenty \in Nat /\ Viewed(d)
    BY DEF Plenty, Begun
  <2>2. Does(d, e, w, Modes, Plenty)
    BY <2>1, DoesMore
  <2> QED BY <2>2 DEF Does
<1>4. e.rslt = "OK" /\ Known(reg) => ModeIsRight
  BY <1>1, <1>2 DEF ModeIsRight, Called
<1>5. fn = "configure_interrupt" => Called({"configure_interrupt"})
  BY <1>1 DEF Called
<1>6. fn = "set_fifo" => Called({"set_fifo"})
  BY <1>1 DEF Called
<1> QED BY <1>1, <1>2, <1>3, <1>4, <1>5, <1>6 DEF Answers

LEMMA SetOsrOdrAnswers == ASSUME TypedState, SetOsrOdr PROVE \E d, e, w : Answers(d, e, w)
<1>1. PICK d \in Attempts, cfg \in [osr : Osrs, odr : Odrs] :
        Returns("set_osr_odr", cfg, SetOsrOdrPressConfig(d, cfg))
  BY DEF SetOsrOdr
<1> DEFINE e == SetOsrOdrPressConfig(d, cfg)
<1>2. last'.fn = "set_osr_odr" /\ last'.arg = cfg /\ reg' = e.reg
  BY <1>1, Returned
<1>3. AskedNow = cfg
  BY <1>2, AskedFor DEF AskedNow
<1>4. Begun(d) /\ Viewed(d) /\ d.reg = reg
  BY <1>1, CallBegins DEF Begun
<1>5. cfg.odr \in 0..31 /\ DOMAIN cfg = {"osr", "odr"}
  BY <1>1, Bmp5Assumption
<1>6. Asks(cfg, OsrOf(cfg)) /\ Asks(cfg, OdrOf(cfg))
  BY <1>5 DEF Asks, OsrOf, OdrOf
<1>7. /\ Does(d, e, cfg, Modes, 19)
      /\ e.rslt = "OK" => Has(e, OsrOf(cfg)) /\ Has(e, OdrOf(cfg))
      /\ e.rslt = "OK" /\ Known(d.reg) /\ cfg.odr # ODR_05_HZ => KeepsMode(d.reg, e.reg)
  BY <1>4, <1>5, <1>6, SetOsrOdrPressConfigDoes
<1> HIDE DEF e
<1>8. e.rslt = "OK" => Has(e, cfg)
  BY <1>5, <1>7 DEF Has, OsrOf, OdrOf
<1>9. initialized' = initialized
  BY DEF SetOsrOdr
<1>10. 19 <= Plenty
  BY DEF Plenty
<1>11. Answers(d, e, cfg)
  BY <1>1, <1>2, <1>3, <1>4, <1>5, <1>7, <1>8, <1>9, <1>10, Answering DEF e
<1> QED BY <1>11

LEMMA SetIirAnswers == ASSUME TypedState, SetIir PROVE \E d, e, w : Answers(d, e, w)
<1>1. PICK d \in Attempts, cfg \in [shdw : {0}, iir : 0..1] :
        Returns("set_iir", cfg, SetIirConfig(d, cfg))
  BY DEF SetIir
<1> DEFINE e == SetIirConfig(d, cfg)
<1>2. last'.fn = "set_iir" /\ last'.arg = cfg /\ reg' = e.reg
  BY <1>1, Returned
<1>3. AskedNow = cfg
  BY <1>2, AskedFor DEF AskedNow
<1>4. Begun(d) /\ Viewed(d) /\ d.reg = reg
  BY <1>1, CallBegins DEF Begun
<1>5. DOMAIN cfg = {"shdw", "iir"}
  BY <1>1
<1>6. Asks(cfg, ShdwOf(cfg)) /\ Asks(cfg, IirOf(cfg))
  BY <1>5 DEF Asks, ShdwOf, IirOf
<1>7. ~Known(d.reg) => d.stack \in Modes
  BY <1>2, <1>4, StackModes DEF Called
<1>8. /\ Configures(d, e, cfg, Modes, 48)
      /\ e.rslt = "OK" => Has(e, ShdwOf(cfg)) /\ Has(e, IirOf(cfg))
  BY <1>4, <1>6, <1>7, SetIirConfigDoes
<1> HIDE DEF e
<1>9. e.rslt = "OK" => Has(e, cfg)
  BY <1>5, <1>8 DEF Has, ShdwOf, IirOf
<1>10. initialized' = initialized
  BY DEF SetIir
<1>11. 48 <= Plenty
  BY DEF Plenty
<1>12. Answers(d, e, cfg)
  BY <1>1, <1>2, <1>3, <1>4, <1>5, <1>8, <1>9, <1>10, <1>11, Answering DEF Configures, e
<1> QED BY <1>12

\* The threshold can be reached with the frames that fit.
Fits(r) == r.frame_sel # 0 => r.threshold < (IF r.frame_sel = 3 THEN 16 ELSE 32)

LEMMA SetFifoAnswers ==
    ASSUME TypedState, SetFifo
    PROVE  \E d, e, w : Answers(d, e, w) /\ (Fits(reg) /\ ~Faulty(e) => Fits(reg'))
<1>1. PICK d \in Attempts, cfg \in [fifo_mode : {0}, threshold : Thresholds,
                                   frame_sel : FrameSels, fifo_iir : {1}] :
        Returns("set_fifo", cfg, SetFifoConfiguration(d, cfg))
  BY DEF SetFifo
<1> DEFINE e == SetFifoConfiguration(d, cfg)
           t == SetFifoThreshold(d, cfg)
<1>2. last'.fn = "set_fifo" /\ last'.arg = cfg /\ reg' = e.reg
  BY <1>1, Returned
<1>3. Begun(d) /\ Viewed(d) /\ d.reg = reg
  BY <1>1, CallBegins DEF Begun
<1>4. AskedNow = t
  BY <1>2, <1>3, AskedFor DEF AskedNow, SetFifoThreshold
<1>5. /\ DOMAIN cfg = {"fifo_mode", "threshold", "frame_sel", "fifo_iir"}
      /\ cfg.frame_sel \in 0..3 /\ cfg.threshold \in Nat
  BY <1>1, Bmp5Assumption
<1>6. /\ DOMAIN t = DOMAIN cfg /\ t.frame_sel = cfg.frame_sel
      /\ t.fifo_iir = cfg.fifo_iir
  BY <1>5 DEF SetFifoThreshold
<1> HIDE DEF t
<1>7. Asks(t, FifoIirOf(cfg)) /\ Asks(t, FifoModeOf(t)) /\ Asks(t, FramesOf(cfg))
  BY <1>5, <1>6 DEF Asks, FifoIirOf, FifoModeOf, FramesOf
<1>8. ~Known(d.reg) => d.stack \in Modes
  BY <1>2, <1>3, StackModes DEF Called
<1>9. /\ Configures(d, e, t, Modes, 50)
      /\ e.rslt = "OK" =>
           /\ Has(e, FifoIirOf(cfg)) /\ Has(e, FifoModeOf(t)) /\ Has(e, FramesOf(cfg))
           /\ cfg.frame_sel # 0 => t.threshold <= MaxThreshold(cfg.frame_sel)
      /\ e.rslt # "OK" /\ e.rslt \notin Faults =>
           e.reg.threshold = d.reg.threshold /\ e.reg.frame_sel = d.reg.frame_sel
  BY <1>3, <1>5, <1>7, <1>8, SetFifoConfigurationDoes DEF t
<1> HIDE DEF e
<1>10. e.rslt = "OK" => Has(e, t)
  BY <1>5, <1>6, <1>9 DEF Has, FifoIirOf, FifoModeOf, FramesOf
<1>11. initialized' = initialized
  BY DEF SetFifo
<1>12. 50 <= Plenty
  BY DEF Plenty
<1>13. Answers(d, e, t)
  BY <1>1, <1>2, <1>3, <1>4, <1>5, <1>6, <1>9, <1>10, <1>11, <1>12, Answering
     DEF Configures, e
<1>14. Fits(reg) /\ ~Faulty(e) => Fits(reg')
  <2>1. CASE e.rslt = "OK"
    <3>1. e.reg.frame_sel = cfg.frame_sel /\ e.reg.threshold = t.threshold
      BY <1>5, <1>6, <1>10, <2>1, SettingNames, FieldNames DEF Has
    <3>2. t.threshold \in Nat
      BY <1>3, <1>5, FieldKinds DEF t, SetFifoThreshold, Viewed
    <3> QED BY <1>2, <1>5, <1>9, <2>1, <3>1, <3>2 DEF Fits, MaxThreshold
  <2>2. CASE e.rslt # "OK"
    BY <1>2, <1>3, <1>9, <2>2 DEF Fits, Faulty, Faults
  <2> QED BY <2>1, <2>2
<1> QED BY <1>13, <1>14

\* A threshold of 17 bits has one bit above its two bytes.
LEMMA SeventeenBits ==
    ASSUME NEW thr \in Unsigned(17)
    PROVE  thr \in Nat /\ thr \div 2^16 = Xmsb(thr)
<1>1. 2^17 = 2 * 2^16
  OBVIOUS
<1>2. thr \in Nat /\ thr < 2 * 2^16
  BY <1>1 DEF Unsigned
<1>3. \A n \in Nat : n = 256 * 256 /\ thr < 2 * n => thr \div n = (thr \div n) % 2
  BY <1>2
<1>4. 2^16 \in Nat /\ 2^16 = 256 * 256
  BY Powers
<1> QED BY <1>2, <1>3, <1>4 DEF Xmsb

LEMMA SetOorAnswers ==
    ASSUME TypedState, SetOor
    PROVE  \E d, e, w : Answers(d, e, w)
<1>1. PICK d \in Attempts, cfg \in [thr : OorThresholds, range : {1}, cnt_lim : {1},
                                   oor_iir : {1}] :
        Returns("set_oor", cfg, SetOorConfiguration(d, cfg))
  BY DEF SetOor
<1> DEFINE e == SetOorConfiguration(d, cfg)
           w == OorAsked(cfg)
<1>2. last'.fn = "set_oor" /\ last'.arg = cfg /\ reg' = e.reg
  BY <1>1, Returned
<1>3. Begun(d) /\ Viewed(d) /\ d.reg = reg
  BY <1>1, CallBegins DEF Begun
<1>4. AskedNow = w
  BY <1>2, AskedFor DEF AskedNow
<1>5. cfg.thr \in Unsigned(17)
  BY <1>1, Bmp5Assumption
<1>6. cfg.thr \in Nat /\ w.oor_xmsb = Xmsb(cfg.thr)
  BY <1>5, SeventeenBits DEF OorAsked
<1>7. /\ DOMAIN w = {"oor_iir", "cnt_lim", "oor_range", "oor_lsb", "oor_msb", "oor_xmsb"}
      /\ w.oor_iir = cfg.oor_iir /\ w.cnt_lim = cfg.cnt_lim /\ w.oor_range = cfg.range
      /\ w.oor_lsb = cfg.thr % 2^8 /\ w.oor_msb = Msb(cfg.thr)
  <2> DEFINE low == cfg.thr % 2^8
             mid == (cfg.thr \div 2^8) % 2^8
             top == cfg.thr \div 2^16
             u == [oor_iir |-> cfg.oor_iir, cnt_lim |-> cfg.cnt_lim, oor_range |-> cfg.range,
                   oor_lsb |-> low, oor_msb |-> mid, oor_xmsb |-> top]
  <2>1. w = u /\ mid = Msb(cfg.thr)
    BY DEF OorAsked, Msb
  <2> HIDE DEF low, mid, top, w
  <2>2. /\ DOMAIN u = {"oor_iir", "cnt_lim", "oor_range", "oor_lsb", "oor_msb", "oor_xmsb"}
        /\ u.oor_iir = cfg.oor_iir /\ u.cnt_lim = cfg.cnt_lim /\ u.oor_range = cfg.range
        /\ u.oor_lsb = low /\ u.oor_msb = mid
    OBVIOUS
  <2> QED BY <2>1, <2>2 DEF low
<1> HIDE DEF w
<1>8. /\ Asks(w, OorIirOf(cfg)) /\ Asks(w, LimitOf(cfg)) /\ Asks(w, LsbOf(cfg))
      /\ Asks(w, MsbOf(cfg)) /\ Asks(w, RangeOf(cfg)) /\ Asks(w, XmsbOf(cfg))
  <2>1. Asks(w, OorIirOf(cfg)) /\ Asks(w, LimitOf(cfg)) /\ Asks(w, RangeOf(cfg))
    BY <1>7 DEF Asks, OorIirOf, LimitOf, RangeOf
  <2> DEFINE low == cfg.thr % 2^8
  <2>2. w.oor_lsb = low /\ LsbOf(cfg) = [oor_lsb |-> low]
    BY <1>7 DEF LsbOf
  <2> HIDE DEF low
  <2>3. Asks(w, LsbOf(cfg))
    BY <1>7, <2>2 DEF Asks
  <2>4. Asks(w, MsbOf(cfg)) /\ Asks(w, XmsbOf(cfg))
    BY <1>6, <1>7 DEF Asks, MsbOf, XmsbOf
  <2> QED BY <2>1, <2>3, <2>4
<1>9. ~Known(d.reg) => d.stack \in Modes
  BY <1>2, <1>3, StackModes DEF Called
<1>10. /\ Does(d, e, w, Modes, 53)
       /\ e.rslt = "OK" =>
            /\ Has(e, OorIirOf(cfg)) /\ Has(e, LimitOf(cfg)) /\ Has(e, LsbOf(cfg))
            /\ Has(e, MsbOf(cfg)) /\ Has(e, RangeOf(cfg)) /\ Has(e, XmsbOf(cfg))
            /\ Known(d.reg) => KeepsMode(d.reg, e.reg) /\ e.reg.deep_dis
  BY <1>3, <1>6, <1>8, <1>9, SetOorConfigurationDoes
<1> HIDE DEF e
<1>11. e.rslt = "OK" => Has(e, w)
  <2> SUFFICES ASSUME e.rslt = "OK", NEW f \in DOMAIN w \cap Settings PROVE e.reg[f] = w[f]
    BY DEF Has
  <2>1. f = "oor_iir" => e.reg[f] = w[f]
    BY <1>7, <1>10 DEF Has, OorIirOf
  <2>2. f = "cnt_lim" => e.reg[f] = w[f]
    BY <1>7, <1>10 DEF Has, LimitOf
  <2>3. f = "oor_range" => e.reg[f] = w[f]
    BY <1>7, <1>10 DEF Has, RangeOf
  <2>4. f = "oor_lsb" => e.reg[f] = w[f]
    <3> DEFINE low == cfg.thr % 2^8
    <3>1. w.oor_lsb = low /\ LsbOf(cfg) = [oor_lsb |-> low]
      BY <1>7 DEF LsbOf
    <3> HIDE DEF low
    <3> QED BY <1>10, <3>1 DEF Has
  <2>5. f = "oor_msb" => e.reg[f] = w[f]
    BY <1>7, <1>10 DEF Has, MsbOf
  <2>6. f = "oor_xmsb" => e.reg[f] = w[f]
    BY <1>6, <1>10 DEF Has, XmsbOf
  <2> QED BY <1>7, <2>1, <2>2, <2>3, <2>4, <2>5, <2>6
<1>12. initialized' = initialized
  BY DEF SetOor
<1>13. 53 <= Plenty
  BY DEF Plenty
<1>14. "int_config" \notin DOMAIN w /\ "threshold" \notin DOMAIN w /\ "frame_sel" \notin DOMAIN w
  BY <1>7
<1>15. Answers(d, e, w)
  BY <1>1, <1>2, <1>3, <1>4, <1>10, <1>11, <1>12, <1>13, <1>14, Answering DEF e
<1> QED BY <1>15

LEMMA SetInterruptAnswers ==
    ASSUME TypedState, SetInterrupt
    PROVE  \E d, e, w : Answers(d, e, w)
                        /\ (reg'.int_config = reg.int_config \/ reg'.int_source = 0)
<1>1. PICK d \in Attempts, cfg \in 0..1 :
        Returns("configure_interrupt", cfg, ConfigureInterrupt(d, cfg))
  BY DEF SetInterrupt
<1> DEFINE e == ConfigureInterrupt(d, cfg)
           w == [int_config |-> cfg, int_source |-> 0]
<1>2. last'.fn = "configure_interrupt" /\ last'.arg = cfg /\ reg' = e.reg
  BY <1>1, Returned
<1>3. Begun(d) /\ Viewed(d) /\ d.reg = reg
  BY <1>1, CallBegins DEF Begun
<1>4. AskedNow = w
  BY <1>2, AskedFor DEF AskedNow
<1>5. Asks(w, SourcesOf(0)) /\ Asks(w, PinOf(cfg))
  BY DEF Asks, SourcesOf, PinOf
<1>6. /\ Does(d, e, w, Modes, 4)
      /\ e.rslt = "OK" => Has(e, SourcesOf(0)) /\ Has(e, PinOf(cfg))
      /\ SamePower(d.reg, e.reg)
      /\ e.reg.int_config = d.reg.int_config \/ e.reg.int_source = 0
  BY <1>3, <1>5, ConfigureInterruptDoes
<1> HIDE DEF e
<1>7. e.rslt = "OK" => Has(e, w)
  BY <1>6 DEF Has, SourcesOf, PinOf
<1>8. KeepsMode(reg, reg')
  BY <1>2, <1>3, <1>6, SamePowerSameMode DEF KeepsMode
<1>9. initialized' = initialized
  BY DEF SetInterrupt
<1>10. 4 <= Plenty
  BY DEF Plenty
<1>11. "threshold" \notin DOMAIN w /\ "frame_sel" \notin DOMAIN w
  OBVIOUS
<1> HIDE DEF w
<1>12. Answers(d, e, w)
  BY <1>1, <1>2, <1>3, <1>4, <1>6, <1>7, <1>8, <1>9, <1>10, <1>11, Answering DEF e
<1> QED BY <1>2, <1>3, <1>6, <1>12

LEMMA SelectSourcesAnswers ==
    ASSUME TypedState, SelectSources
    PROVE  \E d, e, w : Answers(d, e, w)
<1>1. PICK d \in Attempts, s \in 0..1 :
        Returns("int_source_select", s, IntSourceSelect(d, s))
  BY DEF SelectSources
<1> DEFINE e == IntSourceSelect(d, s)
           w == [int_source |-> s]
<1>2. last'.fn = "int_source_select" /\ last'.arg = s /\ reg' = e.reg
  BY <1>1, Returned
<1>3. Begun(d) /\ Viewed(d) /\ d.reg = reg
  BY <1>1, CallBegins DEF Begun
<1>4. AskedNow = w
  BY <1>2, AskedFor DEF AskedNow
<1>5. Asks(w, SourcesOf(s)) /\ w = SourcesOf(s)
  BY DEF Asks, SourcesOf
<1>6. /\ Does(d, e, w, Modes, 2)
      /\ e.rslt = "OK" => Has(e, SourcesOf(s))
      /\ SamePower(d.reg, e.reg)
  BY <1>3, <1>5, IntSourceSelectDoes
<1> HIDE DEF e
<1>7. KeepsMode(reg, reg')
  BY <1>2, <1>3, <1>6, SamePowerSameMode DEF KeepsMode
<1>8. initialized' = initialized
  BY DEF SelectSources
<1>9. 2 <= Plenty
  BY DEF Plenty
<1>10. "int_config" \notin DOMAIN w /\ "threshold" \notin DOMAIN w /\ "frame_sel" \notin DOMAIN w
  OBVIOUS
<1> HIDE DEF w
<1>11. Answers(d, e, w)
  BY <1>1, <1>2, <1>3, <1>4, <1>5, <1>6, <1>7, <1>8, <1>9, <1>10, Answering DEF e
<1> QED BY <1>11

LEMMA ReadDataAnswers ==
    ASSUME TypedState, ReadData
    PROVE  \E d, e, w : Answers(d, e, w)
<1> DEFINE flags == BOOLEAN
           word(t) == [t |-> t % 2^24, p |-> 100000]
<1>1. PICK d \in Attempts, t \in Samples, press_en \in flags :
        Returns("get_sensor_data", [t |-> t, press_en |-> press_en],
                GetSensorData(d, press_en, word(t)))
  BY DEF ReadData
<1> HIDE DEF flags, word
<1> DEFINE e == GetSensorData(d, press_en, word(t))
           w == <<>>
           arg == [t |-> t, press_en |-> press_en]
<1>2. last'.fn = "get_sensor_data" /\ last'.arg = arg /\ reg' = e.reg
  BY <1>1, Returned
<1>3. Begun(d) /\ Viewed(d) /\ d.reg = reg
  BY <1>1, CallBegins DEF Begun
<1>4. AskedNow = w
  BY <1>2, AskedFor DEF AskedNow
<1>5. Reads(d, e, 1)
  BY <1>3, GettersRead
<1> HIDE DEF e, arg
<1>6. Does(d, e, w, Modes, 1)
  BY <1>5, ReadsDoes
<1>7. DOMAIN w = {}
  BY NothingAsked
<1>8. KeepsMode(reg, reg') /\ Has(e, w)
  BY <1>2, <1>3, <1>5, <1>7 DEF KeepsMode, Has, Reads
<1>9. initialized' = initialized
  BY DEF ReadData
<1>10. 1 <= Plenty
  BY DEF Plenty
<1>11. Returns("get_sensor_data", arg, e)
  BY <1>1 DEF e, arg
<1> HIDE DEF w
<1>12. Answers(d, e, w)
  BY <1>3, <1>4, <1>6, <1>7, <1>8, <1>9, <1>10, <1>11, Answering
<1> QED BY <1>12

\* What a call that reads or writes the memory may set, to go back to deep standby.
NvmSets == IF Known(reg) /\ Actual(reg) # "DEEP_STANDBY" THEN <<>> ELSE DeepSettings

LEMMA NvmSetsWhatIsAsked ==
    ASSUME Registers(reg), Called(NvmCalls), Known(reg)
    PROVE  \A f \in Settings : With(reg, NvmSets)[f] = With(reg, AskedNow)[f]
<1>1. AskedNow = IF Actual(reg) = "DEEP_STANDBY" THEN [odr |-> ODR_01_HZ] ELSE <<>>
  <2> DEFINE deep == Actual(reg) = "DEEP_STANDBY"
  <2>1. last'.fn \in NvmCalls
    BY DEF Called
  <2>2. \A x : Asked(last'.fn, last'.arg, x) = IF x THEN [odr |-> ODR_01_HZ] ELSE <<>>
    BY <2>1 DEF Asked, NvmCalls
  <2> QED BY <2>2 DEF AskedNow
<1>2. CASE Actual(reg) # "DEEP_STANDBY"
  BY <1>1, <1>2 DEF NvmSets
<1>3. CASE Actual(reg) = "DEEP_STANDBY"
  <2>1. reg.iir = BYPASS /\ reg.frame_sel = 0
    BY <1>3, FieldKinds DEF Actual, Measuring
  <2>2. NvmSets = DeepSettings
    BY <1>3 DEF NvmSets
  <2>3. AskedNow = [odr |-> ODR_01_HZ]
    BY <1>1, <1>3
  <2> SUFFICES ASSUME NEW f \in Settings
               PROVE  With(reg, NvmSets)[f] = With(reg, AskedNow)[f]
    OBVIOUS
  <2>4. f \in DOMAIN reg
    BY SettingNames DEF Registers
  <2>5. With(reg, NvmSets)[f] = IF f \in DOMAIN DeepSettings THEN DeepSettings[f] ELSE reg[f]
    BY <2>2, <2>4, Merged
  <2>6. With(reg, AskedNow)[f] = IF f = "odr" THEN ODR_01_HZ ELSE reg[f]
    BY <2>3, <2>4 DEF With
  <2>7. /\ DOMAIN DeepSettings = {"odr", "iir", "frame_sel"}
        /\ DeepSettings.odr = ODR_01_HZ /\ DeepSettings.iir = BYPASS
        /\ DeepSettings.frame_sel = 0
    BY DEF DeepSettings
  <2> QED BY <2>1, <2>5, <2>6, <2>7, Zenon
<1> QED BY <1>2, <1>3

\* What the two calls have in common.
LEMMA NvmAnswering ==
    ASSUME TypedState, NEW d, Begun(d), NEW e, NEW fn \in NvmCalls, NEW arg, Returns(fn, arg, e),
           initialized' = initialized, NEW k \in Nat, k <= Plenty, Viewed(e),
           Writes(d, e, NvmSets, Modes, k),
           fn = "nvm_read" => e.nvm = d.nvm,
           e.rslt = "OK" /\ Known(reg) => GoneBack(d, e)
    PROVE  Answers(d, e, NvmSets)
<1> DEFINE w == NvmSets
<1>1. /\ last'.fn = fn /\ last'.arg = arg /\ reg' = e.reg /\ d.reg = reg
      /\ Ends(last'.fn, last'.arg, e, Faulty(e))
  BY Returned DEF Begun
<1>2. /\ ~Called({"soft_reset", "init", "fifo_setup"}) /\ Called(NvmCalls)
      /\ ~Called({"set_power_mode"})
      /\ fn # "nvm_read" => Called({"nvm_write"})
  BY <1>1 DEF Called, NvmCalls
<1>3. Writes(d, e, w, Modes, Plenty)
  <2>1. d.left \in Nat /\ e.left \in Nat /\ Plenty \in Nat
    BY DEF Plenty, Begun, Viewed
  <2> QED BY <2>1 DEF Writes
<1>4. Known(reg) => \A f \in Settings : With(reg, w)[f] = With(reg, AskedNow)[f]
  BY <1>2, NvmSetsWhatIsAsked DEF TypedState
<1>5. e.rslt = "OK" /\ Known(reg) => Has(e, w)
  <2>1. Actual(reg) = "DEEP_STANDBY" => w = DeepSettings
    BY DEF NvmSets
  <2>2. Known(reg) /\ Actual(reg) # "DEEP_STANDBY" => DOMAIN w = {}
    BY NothingAsked DEF NvmSets
  <2> QED BY <1>1, <2>1, <2>2 DEF GoneBack, Has
<1>6. e.rslt = "OK" /\ Known(reg) => ModeIsRight
  BY <1>1, <1>2 DEF ModeIsRight, GoneBack
<1>7. /\ "int_config" \notin DOMAIN w /\ "threshold" \notin DOMAIN w
      /\ "frame_sel" \in DOMAIN w => w.frame_sel = 0
  BY NothingAsked DEF NvmSets, DeepSettings
<1> HIDE DEF w
<1>8. ~Called({"nvm_write"}) => e.nvm = d.nvm
  BY <1>2
<1>9. Answers(d, e, w)
  BY <1>1, <1>2, <1>3, <1>4, <1>5, <1>6, <1>7, <1>8 DEF Answers
<1> QED BY <1>9 DEF w

LEMMA NvmSetsEnough ==
    ASSUME NEW d, Begun(d), ~Called({"set_power_mode"})
    PROVE  /\ ~Known(d.reg) => d.stack \in Modes
           /\ (Known(d.reg) /\ Actual(d.reg) # "DEEP_STANDBY") \/ Asks(NvmSets, DeepSettings)
<1>1. Asks(DeepSettings, DeepSettings)
  BY DEF Asks
<1> QED BY <1>1, StackModes DEF Begun, NvmSets

LEMMA ReadNvmAnswers ==
    ASSUME TypedState, ReadNvm
    PROVE  /\ \E d, e, w : Answers(d, e, w)
           /\ last'.fn = "nvm_read" /\ nvm' = nvm
           /\ last'.rslt = "OK" => last'.data = nvm[last'.arg]
<1>1. PICK d \in Attempts, a \in Addresses : Returns("nvm_read", a, NvmRead(d, a))
  BY DEF ReadNvm
<1> DEFINE e == NvmRead(d, a)
<1>2. /\ last'.fn = "nvm_read" /\ last'.arg = a /\ nvm' = e.nvm
      /\ last'.rslt = e.rslt /\ last'.data = e.data
  BY <1>1, Returned
<1>3. Begun(d) /\ Viewed(d) /\ d.reg = reg /\ d.nvm = nvm
  BY <1>1, CallBegins DEF Begun
<1>4. ~Called({"set_power_mode"})
  BY <1>2 DEF Called
<1>5. /\ Does(d, e, NvmSets, Modes, 35)
      /\ e.rslt = "OK" =>
           /\ a \in NvmAddresses /\ e.data = d.nvm[a]
           /\ Known(d.reg) => GoneBack(d, e)
  BY <1>3, <1>4, NvmSetsEnough, NvmReadDoes
<1> HIDE DEF e
<1>6. 35 <= Plenty /\ initialized' = initialized
  BY DEF Plenty, ReadNvm
<1>7. Returns("nvm_read", a, e) /\ "nvm_read" \in NvmCalls
  BY <1>1 DEF e, NvmCalls
<1>8. Writes(d, e, NvmSets, Modes, 35) /\ e.nvm = d.nvm /\ Viewed(e)
  BY <1>5 DEF Does, Writes
<1>9. Answers(d, e, NvmSets)
  BY <1>3, <1>5, <1>6, <1>7, <1>8, NvmAnswering
<1> QED BY <1>2, <1>3, <1>5, <1>8, <1>9

LEMMA WriteNvmAnswers ==
    ASSUME TypedState, WriteNvm
    PROVE  /\ \E d, e, w : Answers(d, e, w)
           /\ last'.fn = "nvm_write"
           /\ \A a \in NvmAddresses : nvm'[a] # nvm[a] => last'.arg = [a |-> a, w |-> nvm'[a]]
           /\ last'.rslt = "OK" => nvm'[last'.arg.a] = last'.arg.w
<1>1. PICK d \in Attempts, a \in Addresses, x \in Words :
        Returns("nvm_write", [a |-> a, w |-> x], NvmWrite(d, a, x))
  BY DEF WriteNvm
<1> DEFINE e == NvmWrite(d, a, x)
           arg == [a |-> a, w |-> x]
<1>2. last'.fn = "nvm_write" /\ last'.arg = arg /\ nvm' = e.nvm /\ last'.rslt = e.rslt
  BY <1>1, Returned
<1>3. Begun(d) /\ Viewed(d) /\ d.reg = reg /\ d.nvm = nvm
  BY <1>1, CallBegins DEF Begun
<1>4. ~Called({"set_power_mode"})
  BY <1>2 DEF Called
<1>5. x \in Word16
  BY <1>1, Bmp5Assumption DEF Word16
<1>6. /\ Writes(d, e, NvmSets, Modes, 38)
      /\ e.nvm = d.nvm \/ (a \in NvmAddresses /\ e.nvm = [d.nvm EXCEPT ![a] = x])
      /\ e.rslt = "OK" =>
           /\ a \in NvmAddresses /\ e.nvm = [d.nvm EXCEPT ![a] = x]
           /\ Known(d.reg) => GoneBack(d, e)
  <2>1. /\ ~Known(d.reg) => d.stack \in Modes
        /\ (Known(d.reg) /\ Actual(d.reg) # "DEEP_STANDBY") \/ Asks(NvmSets, DeepSettings)
    BY <1>3, <1>4, NvmSetsEnough
  <2> QED BY <1>3, <1>5, <2>1, NvmWriteWrites
<1> HIDE DEF e
<1>7. 38 <= Plenty /\ initialized' = initialized
  BY DEF Plenty, WriteNvm
<1>8. Returns("nvm_write", arg, e) /\ "nvm_write" \in NvmCalls /\ Viewed(e)
  BY <1>1, <1>6 DEF e, NvmCalls, Writes
<1>9. arg.a = a /\ arg.w = x
  OBVIOUS
<1>10. DOMAIN nvm = NvmAddresses
  BY DEF TypedState, Memory
<1>11. \A b \in NvmAddresses : nvm'[b] # nvm[b] => b = a /\ nvm'[b] = x
  BY <1>2, <1>3, <1>6, <1>10
<1>12. last'.rslt = "OK" => nvm'[a] = x
  BY <1>2, <1>3, <1>6, <1>10
<1>13. \A b \in NvmAddresses : nvm'[b] # nvm[b] => last'.arg = [a |-> b, w |-> nvm'[b]]
  BY <1>2, <1>11
<1> HIDE DEF arg
<1>14. Answers(d, e, NvmSets)
  BY <1>3, <1>6, <1>7, <1>8, NvmAnswering
<1> QED BY <1>2, <1>9, <1>12, <1>13, <1>14

-----------------------------------------------------------------------------
(***************************************************************************)
(* The calls made of several functions.                                    *)
(***************************************************************************)
\* What neither initialization nor the set-up of a FIFO example sets before
\* the FIFO is as it was, or as a reset leaves it.
Kept == {"threshold", "frame_sel", "int_config", "int_source"}
SameKept(r, s) == \A f \in Kept : s[f] = r[f]

LEMMA KeptNames == Kept \subseteq Settings /\ Kept \subseteq Fields \ {"por"}
  BY FieldNames, SettingNames DEF Kept

LEMMA KeptFits ==
    ASSUME NEW r, NEW s, SameKept(r, s) \/ SameKept(ResetValues, s)
    PROVE  /\ Fits(r) => Fits(s)
           /\ s.int_config = r.int_config \/ s.int_source = 0
<1>1. CASE SameKept(r, s)
  BY <1>1 DEF SameKept, Kept, Fits
<1>2. CASE SameKept(ResetValues, s)
  <2>1. ResetValues.frame_sel = 0 /\ ResetValues.int_source = 0
    BY DEF ResetValues
  <2> QED BY <1>2, <2>1 DEF SameKept, Kept, Fits
<1> QED BY <1>1, <1>2

LEMMA DoesKeeps ==
    ASSUME NEW d, NEW e, NEW w, NEW M, NEW k, Does(d, e, w, M, k), DOMAIN w \cap Kept = {}
    PROVE  SameKept(d.reg, e.reg)
  BY KeptNames DEF Does, Writes, SameKept

LEMMA ResetAnswers ==
    ASSUME TypedState, Reset
    PROVE  \E d, e :
             /\ Begun(d) /\ Runs(d, e, 3) /\ Ends("soft_reset", 0, e, Faulty(e))
             /\ initialized' = initialized
             /\ SameKept(reg, reg') \/ SameKept(ResetValues, reg')
             /\ e.rslt = "OK" => Actual(reg') = "DEEP_STANDBY"
<1>1. PICK d \in Attempts : Returns("soft_reset", 0, SoftReset(d))
  BY DEF Reset
<1> DEFINE e == SoftReset(d)
<1>2. reg' = e.reg /\ Ends("soft_reset", 0, e, Faulty(e))
  BY <1>1, Returned DEF Returns
<1>3. Begun(d) /\ Viewed(d) /\ d.reg = reg
  BY <1>1, CallBegins DEF Begun
<1>4. Asks(ResetValues, ResetValues)
  BY SettingNames DEF Asks, Fields
<1>5. /\ Does(d, e, ResetValues, {}, 3)
      /\ \/ \A f \in Fields \ {"por"} : e.reg[f] = d.reg[f]
         \/ \A f \in Fields \ {"por"} : e.reg[f] = ResetValues[f]
      /\ e.rslt = "OK" => \A f \in Fields \ {"por"} : e.reg[f] = ResetValues[f]
  BY <1>3, <1>4, SoftResetDoes
<1> HIDE DEF e
<1>6. SameKept(reg, reg') \/ SameKept(ResetValues, reg')
  BY <1>2, <1>3, <1>5, KeptNames DEF SameKept
<1>7. e.rslt = "OK" => Actual(reg') = "DEEP_STANDBY"
  <2>1. e.rslt = "OK" => \A f \in PowerFields : e.reg[f] = ResetValues[f]
    BY <1>5, FieldNames DEF PowerFields
  <2>2. /\ ResetValues.mode = "STANDBY" /\ ~ResetValues.deep_dis
        /\ ResetValues.odr = ODR_01_HZ /\ ResetValues.iir = BYPASS /\ ResetValues.frame_sel = 0
    BY DEF ResetValues
  <2>3. e.rslt = "OK" => /\ e.reg.mode = "STANDBY" /\ ~e.reg.deep_dis
                         /\ e.reg.odr = ODR_01_HZ /\ e.reg.iir = BYPASS /\ e.reg.frame_sel = 0
    BY <2>1, <2>2 DEF PowerFields
  <2> QED BY <1>2, <2>3 DEF Actual, ODR_01_HZ, ODR_05_HZ
<1>8. Runs(d, e, 3)
  BY <1>5, DoesRuns
<1>9. initialized' = initialized
  BY DEF Reset
<1> QED BY <1>2, <1>3, <1>6, <1>7, <1>8, <1>9

\* The sensor has the firmware's settings.
Ready(r) == \A f \in Settings : r[f] = With(ResetValues, FirmwareConfig)[f]

LEMMA ConfiguredRuns ==
    ASSUME NEW d, Viewed(d)
    PROVE  LET e == Configured(d)
           IN  /\ Runs(d, e, 25)
               /\ SameKept(d.reg, e.reg) \/ SameKept(ResetValues, e.reg)
               /\ e.rslt = "OK" => Ready(e.reg)
<1> DEFINE s == SoftReset(d)
           i == InitSensor(s)
           e == SetOsrOdrPressConfig(i, FirmwareConfig)
<1>1. Asks(ResetValues, ResetValues)
  BY SettingNames DEF Asks, Fields
<1>2. /\ Does(d, s, ResetValues, {}, 3)
      /\ \/ \A f \in Fields \ {"por"} : s.reg[f] = d.reg[f]
         \/ \A f \in Fields \ {"por"} : s.reg[f] = ResetValues[f]
      /\ s.rslt = "OK" => \A f \in Fields \ {"por"} : s.reg[f] = ResetValues[f]
  BY <1>1, SoftResetDoes
<1>3. Viewed(s)
  BY <1>2 DEF Does, Writes
<1>4. Reads(s, i, 3)
  BY <1>3, InitSensorReads
<1>5. Viewed(i) /\ i.reg = s.reg /\ (i.rslt = "OK" => s.rslt = "OK")
  BY <1>4 DEF Reads
<1>6. /\ FirmwareConfig.odr \in 0..31 /\ DOMAIN FirmwareConfig = {"osr", "odr"}
      /\ Asks(FirmwareConfig, OsrOf(FirmwareConfig)) /\ Asks(FirmwareConfig, OdrOf(FirmwareConfig))
  BY DEF FirmwareConfig, Asks, OsrOf, OdrOf
<1>7. /\ Does(i, e, FirmwareConfig, {}, 19)
      /\ e.rslt = "OK" => Has(e, OsrOf(FirmwareConfig)) /\ Has(e, OdrOf(FirmwareConfig))
  BY <1>5, <1>6, SetOsrOdrPressConfigDoes
<1> HIDE DEF s, i, e
<1>8. Runs(d, e, 25)
  <2>1. Runs(d, s, 3) /\ Runs(i, e, 19)
    BY <1>2, <1>7, DoesRuns
  <2>2. Runs(s, i, 3)
    BY <1>4 DEF Reads, Runs
  <2>3. Runs(d, i, 6)
    <3>1. Runs(d, i, 3 + 3)
      BY <2>1, <2>2, RunsThen
    <3> QED BY <3>1
  <2>4. Runs(d, e, 6 + 19)
    BY <2>1, <2>3, RunsThen
  <2> QED BY <2>4
<1>9. SameKept(d.reg, e.reg) \/ SameKept(ResetValues, e.reg)
  <2>1. SameKept(d.reg, s.reg) \/ SameKept(ResetValues, s.reg)
    BY <1>2, KeptNames DEF SameKept
  <2>2. SameKept(i.reg, e.reg)
    BY <1>6, <1>7, DoesKeeps DEF Kept
  <2> QED BY <1>5, <2>1, <2>2 DEF SameKept
<1>10. e.rslt = "OK" => Ready(e.reg)
  <2> SUFFICES ASSUME e.rslt = "OK", NEW f \in Settings
               PROVE  e.reg[f] = With(ResetValues, FirmwareConfig)[f]
    BY DEF Ready
  <2>1. s.rslt = "OK"
    BY <1>5, <1>7 DEF Does, Writes
  <2>2. f \in Fields \ {"por"}
    BY SettingNames
  <2>3. i.reg[f] = ResetValues[f]
    BY <1>2, <1>5, <2>1, <2>2
  <2>4. f \in DOMAIN FirmwareConfig => e.reg[f] = FirmwareConfig[f]
    BY <1>6, <1>7 DEF Has, OsrOf, OdrOf
  <2>5. f \notin DOMAIN FirmwareConfig => e.reg[f] = i.reg[f]
    BY <1>7 DEF Does, Writes
  <2> QED BY <2>2, <2>3, <2>4, <2>5, Merged DEF Fields
<1> QED BY <1>8, <1>9, <1>10 DEF Configured, s, i, e

LEMMA FirmwareInitAnswers ==
    ASSUME TypeInv, FirmwareInit
    PROVE  \E d, e :
             /\ Begun(d) /\ Runs(d, e, 37) /\ Ends("init", 0, e, Faulty(e))
             /\ initialized' \in BOOLEAN
             /\ SameKept(reg, reg') \/ SameKept(ResetValues, reg')
             /\ e.rslt = "OK" \/ initialized' # initialized => Ready(reg')
             /\ e.rslt = "OK" => Actual(reg') = "NORMAL"
<1>1. PICK d \in Attempts :
        /\ Returns("init", 0, SensorInit(d))
        /\ initialized' = (initialized \/ Configured(d).rslt = "OK")
  BY DEF FirmwareInit
<1> DEFINE c == Configured(d)
           e == SetPowerMode(c, "NORMAL")
<1>2. reg' = e.reg /\ Ends("init", 0, e, Faulty(e))
  BY <1>1, Returned DEF Returns, SensorInit
<1>3. Begun(d) /\ Viewed(d) /\ d.reg = reg
  BY <1>1, CallBegins DEF Begun, TypeInv
<1>4. /\ Runs(d, c, 25)
      /\ SameKept(d.reg, c.reg) \/ SameKept(ResetValues, c.reg)
      /\ c.rslt = "OK" => Ready(c.reg)
  BY <1>3, ConfiguredRuns
<1>5. initialized' = (initialized \/ c.rslt = "OK") /\ initialized \in BOOLEAN
  BY <1>1 DEF TypeInv
<1> HIDE DEF c
<1>6. /\ Does(c, e, <<>>, {"NORMAL"}, 12)
      /\ e.rslt = "OK" => Actual(e.reg) = "NORMAL"
  <2>1. "NORMAL" # "DEEP_STANDBY" /\ "NORMAL" # "STANDBY" /\ "NORMAL" \in {"NORMAL"}
    OBVIOUS
  <2>2. Viewed(c)
    BY <1>4 DEF Runs
  <2> QED BY <2>1, <2>2, SetPowerModeDoes
<1> HIDE DEF e
<1>7. Runs(d, e, 25 + 12)
  BY <1>3, <1>4, <1>6, DoesRuns, RunsThen
<1>8. /\ \A f \in Settings : e.reg[f] = c.reg[f]
      /\ e.rslt = "OK" => c.rslt = "OK"
  BY <1>6, NothingAsked DEF Does, Writes
<1>9. SameKept(reg, reg') \/ SameKept(ResetValues, reg')
  BY <1>2, <1>3, <1>4, <1>8, KeptNames DEF SameKept
<1>10. e.rslt = "OK" \/ initialized' # initialized => Ready(reg')
  <2>1. initialized' # initialized => c.rslt = "OK"
    BY <1>5
  <2> QED BY <1>2, <1>4, <1>8, <2>1 DEF Ready
<1>11. initialized' \in BOOLEAN
  BY <1>5
<1> QED BY <1>2, <1>3, <1>6, <1>7, <1>9, <1>10, <1>11

LEMMA ConfigureInterruptRslt ==
    ASSUME NEW d, Viewed(d), NEW x
    PROVE  ConfigureInterrupt(d, x).rslt \in {d.rslt, "COM_FAIL"}
<1> DEFINE o == Update(d, [int_source |-> 0])
           g == GetInterruptStatus(o)
           e == SetRegs(g, [int_config |-> x])
<1>1. o = IntSourceSelect(d, 0)
  BY DEF IntSourceSelect
<1>2. Asks(SourcesOf(0), SourcesOf(0)) /\ Asks(PinOf(x), PinOf(x))
  BY DEF Asks, SourcesOf, PinOf
<1>3. /\ o.rslt \in {d.rslt, "COM_FAIL"}
      /\ Does(d, o, SourcesOf(0), {}, 2)
  BY <1>1, <1>2, IntSourceSelectDoes
<1>4. Viewed(o)
  BY <1>3 DEF Does, Writes
<1> HIDE DEF o
<1>5. g.rslt \in {o.rslt, "COM_FAIL"}
  BY <1>4 DEF GetInterruptStatus, GetRegs, Viewed, ViewFields
<1>6. Viewed(g)
  BY <1>4, GetInterruptStatusDoes DEF Does, Writes
<1> HIDE DEF g
<1>7. e.rslt \in {g.rslt, "COM_FAIL"}
  <2> DEFINE u == PinOf(x)
  <2>1. DOMAIN u = {"int_config"} /\ u = [int_config |-> x]
    BY DEF PinOf
  <2> HIDE DEF u
  <2>2. DOMAIN u \cap StandbyOnly = {}
    BY <2>1 DEF StandbyOnly
  <2>3. \A f \in DOMAIN u : InField(f, u[f])
    BY <2>1, FreeFields DEF TypedFields
  <2>4. Asks(u, u) /\ "mode" \notin DOMAIN u /\ "deep_dis" \notin DOMAIN u
    BY <2>1 DEF Asks
  <2>5. Sets(g, SetRegs(g, u), u)
    BY <1>6, <2>2, <2>3, <2>4, UpdateDoes
  <2> QED BY <2>1, <2>5 DEF Sets
<1> QED BY <1>3, <1>5, <1>7 DEF ConfigureInterrupt, o, g

\* The settings set_config of the examples makes before those of the FIFO.
SetupIir(junk) == [shdw |-> junk.shdw, iir |-> 1]
SetupFifo(sel, threshold) ==
    [fifo_mode |-> 0, frame_sel |-> sel, fifo_iir |-> 1, threshold |-> threshold]

BeforeFifo(d, junk) ==
    GetFifoConfiguration(
        SetIirConfig(
            SetOsrOdrPressConfig(GetOsrOdrPressConfig(SetPowerMode(d, "STANDBY")), FirmwareConfig),
            SetupIir(junk)))

LEMMA BeforeFifoRuns ==
    ASSUME NEW d, Viewed(d), NEW junk
    PROVE  LET e == BeforeFifo(d, junk) IN Runs(d, e, 83) /\ SameKept(d.reg, e.reg)
<1> DEFINE s == SetPowerMode(d, "STANDBY")
           g == GetOsrOdrPressConfig(s)
           o == SetOsrOdrPressConfig(g, FirmwareConfig)
           cfg == SetupIir(junk)
           i == SetIirConfig(o, cfg)
           e == GetFifoConfiguration(i)
<1>1. Does(d, s, <<>>, {}, 12)
  BY SetPowerModeDoes DEF Measuring
<1>2. Viewed(s)
  BY <1>1 DEF Does, Writes
<1> HIDE DEF s
<1>3. Reads(s, g, 1) /\ Viewed(g) /\ g.reg = s.reg
  BY <1>2, GettersRead DEF Reads
<1> HIDE DEF g
<1>4. /\ FirmwareConfig.odr \in 0..31 /\ DOMAIN FirmwareConfig = {"osr", "odr"}
      /\ Asks(FirmwareConfig, OsrOf(FirmwareConfig)) /\ Asks(FirmwareConfig, OdrOf(FirmwareConfig))
  BY DEF FirmwareConfig, Asks, OsrOf, OdrOf
<1>5. Does(g, o, FirmwareConfig, {}, 19)
  BY <1>3, <1>4, SetOsrOdrPressConfigDoes
<1>6. Viewed(o)
  BY <1>5 DEF Does, Writes
<1> HIDE DEF o
<1>7. DOMAIN cfg = {"shdw", "iir"} /\ Asks(cfg, ShdwOf(cfg)) /\ Asks(cfg, IirOf(cfg))
  BY DEF SetupIir, Asks, ShdwOf, IirOf
<1> HIDE DEF cfg
<1>8. Does(o, i, cfg, {o.stack}, 48)
  BY <1>6, <1>7, SetIirConfigDoes DEF Configures
<1>9. Viewed(i)
  BY <1>8 DEF Does, Writes
<1> HIDE DEF i
<1>10. Reads(i, e, 3) /\ e.reg = i.reg
  BY <1>9, GettersRead DEF Reads
<1> HIDE DEF e
<1>11. Runs(d, e, 83)
  <2>1. Runs(d, s, 12) /\ Runs(g, o, 19) /\ Runs(o, i, 48)
    BY <1>1, <1>5, <1>8, DoesRuns
  <2>2. Runs(s, g, 1) /\ Runs(i, e, 3)
    BY <1>3, <1>10 DEF Reads, Runs
  <2>3. Runs(d, g, 12 + 1)
    BY <2>1, <2>2, RunsThen
  <2>4. Runs(d, g, 13)
    BY <2>3
  <2>5. Runs(d, o, 13 + 19)
    BY <2>1, <2>4, RunsThen
  <2>6. Runs(d, o, 32)
    BY <2>5
  <2>7. Runs(d, i, 32 + 48)
    BY <2>1, <2>6, RunsThen
  <2>8. Runs(d, i, 80)
    BY <2>7
  <2>9. Runs(d, e, 80 + 3)
    BY <2>2, <2>8, RunsThen
  <2> QED BY <2>9
<1>12. SameKept(d.reg, e.reg)
  <2>1. SameKept(d.reg, s.reg)
    BY <1>1, NothingAsked, DoesKeeps
  <2>2. SameKept(g.reg, o.reg) /\ SameKept(o.reg, i.reg)
    BY <1>4, <1>5, <1>7, <1>8, DoesKeeps DEF Kept
  <2> QED BY <1>3, <1>10, <2>1, <2>2 DEF SameKept
<1> QED BY <1>11, <1>12 DEF BeforeFifo, s, g, o, cfg, i, e

LEMMA FifoConfiguredRuns ==
    ASSUME NEW d, Viewed(d), NEW sel \in {2, 3}, NEW junk
    PROVE  LET e == FifoConfigured(d, sel, junk)
           IN  Runs(d, e, 133) /\ (Fits(d.reg) /\ e.rslt \notin Faults => Fits(e.reg))
<1> DEFINE b == BeforeFifo(d, junk)
           threshold == IF sel = 3 THEN b.reg.threshold ELSE THRESHOLD_LEVEL
           fifo == SetupFifo(sel, threshold)
           e == SetFifoConfiguration(b, fifo)
<1>1. FifoConfigured(d, sel, junk) = e
  BY DEF FifoConfigured, FifoSelected, BeforeFifo, SetupIir, SetupFifo
<1>2. Runs(d, b, 83) /\ SameKept(d.reg, b.reg)
  BY BeforeFifoRuns
<1>3. Viewed(b)
  BY <1>2 DEF Runs
<1> HIDE DEF b
<1>4. threshold \in Nat
  BY <1>3, FieldKinds DEF THRESHOLD_LEVEL, Viewed
<1> HIDE DEF threshold
<1>5. /\ DOMAIN fifo = {"fifo_mode", "frame_sel", "fifo_iir", "threshold"}
      /\ fifo.frame_sel = sel /\ fifo.threshold = threshold
  BY DEF SetupFifo
<1> HIDE DEF fifo
<1>6. fifo = SetFifoThreshold(b, fifo)
  BY <1>5 DEF SetFifoThreshold
<1>7. Asks(fifo, FifoIirOf(fifo)) /\ Asks(fifo, FifoModeOf(fifo)) /\ Asks(fifo, FramesOf(fifo))
  BY <1>5 DEF Asks, FifoIirOf, FifoModeOf, FramesOf
<1>8. /\ Does(b, e, fifo, {b.stack}, 50)
      /\ e.rslt = "OK" =>
           /\ Has(e, FifoModeOf(fifo)) /\ Has(e, FramesOf(fifo))
           /\ fifo.threshold <= MaxThreshold(sel)
      /\ e.rslt # "OK" /\ e.rslt \notin Faults =>
           e.reg.threshold = b.reg.threshold /\ e.reg.frame_sel = b.reg.frame_sel
  <2>1. /\ fifo.frame_sel \in 0..3 /\ fifo.frame_sel # 0 /\ fifo.threshold \in Nat
        /\ "threshold" \in DOMAIN fifo
    BY <1>4, <1>5
  <2>2. b.stack \in {b.stack}
    OBVIOUS
  <2>3. /\ Configures(b, e, fifo, {b.stack}, 50)
        /\ e.rslt = "OK" =>
             /\ Has(e, FifoIirOf(fifo)) /\ Has(e, FifoModeOf(fifo)) /\ Has(e, FramesOf(fifo))
             /\ fifo.frame_sel # 0 => fifo.threshold <= MaxThreshold(fifo.frame_sel)
        /\ e.rslt # "OK" /\ e.rslt \notin Faults =>
             e.reg.threshold = b.reg.threshold /\ e.reg.frame_sel = b.reg.frame_sel
    BY <1>3, <1>6, <1>7, <2>1, <2>2, SetFifoConfigurationDoes
  <2> HIDE DEF e
  <2> QED BY <1>5, <2>1, <2>3 DEF Configures
<1> HIDE DEF e
<1>9. Runs(d, e, 83 + 50)
  BY <1>2, <1>8, DoesRuns, RunsThen
<1>10. Fits(d.reg) /\ e.rslt \notin Faults => Fits(e.reg)
  <2>1. Fits(d.reg) => Fits(b.reg)
    BY <1>2, KeptFits
  <2>2. CASE e.rslt = "OK"
    <3>1. e.reg.frame_sel = sel /\ e.reg.threshold = threshold
      BY <1>5, <1>8, <2>2, KeptNames DEF Has, FifoModeOf, FramesOf, Kept
    <3>2. threshold <= MaxThreshold(sel)
      BY <1>5, <1>8, <2>2
    <3> QED BY <1>4, <3>1, <3>2 DEF Fits, MaxThreshold
  <2>3. CASE e.rslt # "OK"
    BY <1>8, <2>1, <2>3 DEF Fits
  <2> QED BY <2>2, <2>3
<1> QED BY <1>1, <1>9, <1>10

\* The pin and the sources, after the FIFO.
LEMMA InterruptArmedRuns ==
    ASSUME NEW c, Viewed(c), NEW junk
    PROVE  LET a == InterruptArmed(c, junk)
           IN  /\ Runs(c, a, 6)
               /\ SamePower(c.reg, a.reg) /\ a.reg.threshold = c.reg.threshold
               /\ a.rslt \in {c.rslt, "COM_FAIL"}
<1> DEFINE i == ConfigureInterrupt(c, 1)
           sources == 1 + junk.others
           a == IntSourceSelect(i, sources)
           u == [int_config |-> 1, int_source |-> 0]
<1>1. /\ Asks(u, SourcesOf(0)) /\ Asks(u, PinOf(1)) /\ Asks(SourcesOf(sources), SourcesOf(sources))
      /\ "threshold" \notin DOMAIN u /\ "threshold" \notin DOMAIN SourcesOf(sources)
  BY DEF Asks, SourcesOf, PinOf
<1> HIDE DEF u
<1>2. Does(c, i, u, {}, 4) /\ SamePower(c.reg, i.reg)
  BY <1>1, ConfigureInterruptDoes
<1>3. i.rslt \in {c.rslt, "COM_FAIL"}
  BY ConfigureInterruptRslt
<1>4. Viewed(i)
  BY <1>2 DEF Does, Writes
<1> HIDE DEF i, sources
<1>5. /\ Does(i, a, SourcesOf(sources), {}, 2) /\ SamePower(i.reg, a.reg)
      /\ a.rslt \in {i.rslt, "COM_FAIL"}
  BY <1>1, <1>4, IntSourceSelectDoes
<1> HIDE DEF a
<1>6. Runs(c, a, 4 + 2)
  BY <1>2, <1>5, DoesRuns, RunsThen
<1>7. a.reg.threshold = c.reg.threshold
  BY <1>1, <1>2, <1>5, KeptNames DEF Does, Writes, Kept
<1>8. SamePower(c.reg, a.reg)
  BY <1>2, <1>5 DEF SamePower
<1> QED BY <1>3, <1>5, <1>6, <1>7, <1>8 DEF InterruptArmed, i, a, sources

LEMMA FifoSetupAnswers ==
    ASSUME TypedState, FifoSetup
    PROVE  \E d, e, sel, failed :
             /\ Begun(d) /\ Viewed(e) /\ (e.hot => d.hot) /\ (failed => ~Sound(d))
             /\ Ends("fifo_setup", sel, e, failed)
             /\ initialized' = initialized /\ e.nvm = d.nvm
             /\ Fits(reg) /\ ~failed => Fits(reg')
             /\ e.rslt = "OK" => Actual(reg') = "NORMAL"
<1>1. PICK d \in AttemptsWithin(SetupBreaks), sel \in {2, 3}, junk \in Unassigned :
        \E s \in {SetPowerMode(d, "STANDBY")},
           a \in {InterruptArmed(FifoConfigured(d, sel, junk), junk)} :
        \E left \in IF Faulty(a) THEN {0, Plenty} ELSE {a.left} :
        \E n \in {SetPowerMode([a EXCEPT !.rslt = "OK", !.left = left], "NORMAL")} :
            IF s.rslt = "OK" THEN Ends("fifo_setup", sel, n, Faulty(a) \/ Faulty(n))
            ELSE Returns("fifo_setup", sel, s)
  BY DEF FifoSetup
<1>2. Begun(d) /\ Viewed(d) /\ d.reg = reg
  BY <1>1, CallBegins DEF Begun
<1> DEFINE s == SetPowerMode(d, "STANDBY")
           c == FifoConfigured(d, sel, junk)
           a == InterruptArmed(c, junk)
<1>3. PICK left \in IF Faulty(a) THEN {0, Plenty} ELSE {a.left} :
        \E n \in {SetPowerMode([a EXCEPT !.rslt = "OK", !.left = left], "NORMAL")} :
            IF s.rslt = "OK" THEN Ends("fifo_setup", sel, n, Faulty(a) \/ Faulty(n))
            ELSE Returns("fifo_setup", sel, s)
  BY <1>1
<1> DEFINE b == [a EXCEPT !.rslt = "OK", !.left = left]
           n == SetPowerMode(b, "NORMAL")
<1>4. IF s.rslt = "OK" THEN Ends("fifo_setup", sel, n, Faulty(a) \/ Faulty(n))
      ELSE Returns("fifo_setup", sel, s)
  BY <1>3
<1>5. initialized' = initialized
  BY DEF FifoSetup
<1>6. Does(d, s, <<>>, {}, 12)
  BY <1>2, SetPowerModeDoes DEF Measuring
<1>7. Runs(d, c, 133) /\ (Fits(d.reg) /\ c.rslt \notin Faults => Fits(c.reg))
  BY <1>2, FifoConfiguredRuns
<1>8. Viewed(c)
  BY <1>7 DEF Runs
<1> HIDE DEF s, c
<1>9. /\ Runs(c, a, 6)
      /\ SamePower(c.reg, a.reg) /\ a.reg.threshold = c.reg.threshold
      /\ a.rslt \in {c.rslt, "COM_FAIL"}
  BY <1>8, InterruptArmedRuns
<1>10. Runs(d, a, 133 + 6)
  BY <1>2, <1>7, <1>9, RunsThen
<1> HIDE DEF a
<1>11. CASE s.rslt # "OK"
  <2>1. Returns("fifo_setup", sel, s)
    BY <1>4, <1>11
  <2>2. Ends("fifo_setup", sel, s, Faulty(s)) /\ reg' = s.reg
    BY <2>1, Returned DEF Returns
  <2>3. Runs(d, s, 12) /\ 12 <= Plenty
    BY <1>6, DoesRuns DEF Plenty
  <2>4. Viewed(s) /\ (s.hot => d.hot) /\ (Faulty(s) => ~Sound(d)) /\ s.nvm = d.nvm
    BY <1>2, <2>3, SoundCall DEF Runs
  <2>5. Fits(reg) => Fits(reg')
    <3>1. SameKept(d.reg, s.reg)
      BY <1>6, NothingAsked, DoesKeeps
    <3> QED BY <1>2, <2>2, <3>1, KeptFits
  <2> HIDE <1>1, <1>3, <1>4
  <2> QED BY <1>2, <1>5, <1>11, <2>2, <2>4, <2>5
<1>12. CASE s.rslt = "OK"
  <2> DEFINE failed == Faulty(a) \/ Faulty(n)
  <2>1. Ends("fifo_setup", sel, n, failed)
    BY <1>4, <1>12
  <2>2. reg' = n.reg
    BY <2>1 DEF Ends
  <2>3. /\ Viewed(a) /\ (a.hot => d.hot) /\ (Faulty(a) => ~Sound(d)) /\ a.ready = d.ready
        /\ a.nvm = d.nvm
    <3>1. 139 <= Plenty /\ Runs(d, a, 139)
      BY <1>10 DEF Plenty
    <3> QED BY <1>2, <3>1, SoundCall DEF Runs
  <2>4. left \in Nat
    BY <1>3, <2>3 DEF Plenty, Viewed
  <2>5. /\ Viewed(b) /\ b.reg = a.reg /\ b.hot = a.hot /\ b.ready = a.ready
        /\ b.left = left /\ b.rslt = "OK" /\ b.nvm = a.nvm
    BY <2>3, <2>4 DEF Viewed, ViewFields
  <2> HIDE DEF b
  <2>6. /\ Does(b, n, <<>>, {"NORMAL"}, 12)
        /\ n.rslt = "OK" => Actual(n.reg) = "NORMAL"
    <3>1. "NORMAL" # "DEEP_STANDBY" /\ "NORMAL" # "STANDBY" /\ "NORMAL" \in {"NORMAL"}
      OBVIOUS
    <3>2. Viewed(b)
      BY <2>5
    <3> HIDE <1>1, <1>3, <1>4
    <3> QED BY <3>1, <3>2, SetPowerModeDoes
  <2>7. Runs(b, n, 12) /\ Viewed(n)
    BY <2>6, DoesRuns DEF Runs
  <2> HIDE DEF n
  <2>8. Sound(d) => ~failed
    <3> SUFFICES ASSUME Sound(d) PROVE ~Faulty(n)
      BY <2>3
    <3>1. left = a.left /\ a.left >= d.left - 139
      BY <1>3, <1>10, <2>3 DEF Runs
    <3>2. b.left >= 12 /\ b.ready
      BY <2>3, <2>4, <2>5, <3>1 DEF Sound, Plenty
    <3> QED BY <2>5, <2>7, <3>2 DEF Runs, Faults, Faulty
  <2>9. Fits(reg) /\ ~failed => Fits(reg')
    <3>1. SameKept(b.reg, n.reg)
      BY <2>6, NothingAsked, DoesKeeps
    <3>2. Fits(a.reg) => Fits(n.reg)
      BY <2>5, <3>1, KeptFits
    <3>3. Fits(c.reg) => Fits(a.reg)
      BY <1>9 DEF SamePower, Fits
    <3>4. ~failed => c.rslt \notin Faults
      BY <1>9 DEF Faulty, Faults
    <3> QED BY <1>2, <1>7, <2>2, <3>2, <3>3, <3>4
  <2>10. (n.hot => d.hot) /\ n.nvm = d.nvm
    BY <2>3, <2>5, <2>7 DEF Runs
  <2> HIDE DEF failed
  <2> HIDE <1>1, <1>3, <1>4
  <2> QED BY <1>2, <1>5, <2>1, <2>2, <2>6, <2>7, <2>8, <2>9, <2>10
<1> QED BY <1>11, <1>12

-----------------------------------------------------------------------------
(***************************************************************************)
(* The steps.                                                              *)
(***************************************************************************)
SingleCall == SetMode \/ SetOsrOdr \/ SetIir \/ SetFifo \/ SetOor \/ SetInterrupt
              \/ SelectSources \/ ReadNvm \/ WriteNvm \/ ReadData

LEMMA Steps == Next <=> SingleCall \/ Reset \/ FirmwareInit \/ FifoSetup \/ Measured
  BY DEF Next, SingleCall

LEMMA Calls ==
    /\ SetMode => last'.fn = "set_power_mode"
    /\ SetOsrOdr => last'.fn = "set_osr_odr" /\ last'.arg \in [osr : Osrs, odr : Odrs]
    /\ SetIir => last'.fn = "set_iir" /\ last'.arg \in [shdw : {0}, iir : 0..1]
    /\ SetFifo => /\ last'.fn = "set_fifo"
                  /\ last'.arg \in [fifo_mode : {0}, threshold : Thresholds,
                                    frame_sel : FrameSels, fifo_iir : {1}]
    /\ SetOor => /\ last'.fn = "set_oor"
                 /\ last'.arg \in [thr : OorThresholds, range : {1}, cnt_lim : {1},
                                   oor_iir : {1}]
    /\ SetInterrupt => last'.fn = "configure_interrupt"
    /\ SelectSources => last'.fn = "int_source_select"
    /\ ReadNvm => last'.fn = "nvm_read"
    /\ WriteNvm => last'.fn = "nvm_write"
    /\ ReadData => last'.fn = "get_sensor_data"
<1>1. SetMode => last'.fn = "set_power_mode"
  BY Returned DEF SetMode
<1>2. SetOsrOdr => last'.fn = "set_osr_odr" /\ last'.arg \in [osr : Osrs, odr : Odrs]
  BY Returned DEF SetOsrOdr
<1>3. SetIir => last'.fn = "set_iir" /\ last'.arg \in [shdw : {0}, iir : 0..1]
  BY Returned DEF SetIir
<1>4. SetFifo => /\ last'.fn = "set_fifo"
                 /\ last'.arg \in [fifo_mode : {0}, threshold : Thresholds,
                                   frame_sel : FrameSels, fifo_iir : {1}]
  BY Returned DEF SetFifo
<1>5. SetOor => /\ last'.fn = "set_oor"
                /\ last'.arg \in [thr : OorThresholds, range : {1}, cnt_lim : {1},
                                  oor_iir : {1}]
  BY Returned DEF SetOor
<1>6. SetInterrupt => last'.fn = "configure_interrupt"
  BY Returned DEF SetInterrupt
<1>7. SelectSources => last'.fn = "int_source_select"
  BY Returned DEF SelectSources
<1>8. ReadNvm => last'.fn = "nvm_read"
  BY Returned DEF ReadNvm
<1>9. WriteNvm => last'.fn = "nvm_write"
  BY Returned DEF WriteNvm
<1>10. ReadData => last'.fn = "get_sensor_data"
  <2> SUFFICES ASSUME ReadData PROVE last'.fn = "get_sensor_data"
    OBVIOUS
  <2> DEFINE flags == BOOLEAN
  <2>1. PICK d \in Attempts, t \in Samples, press_en \in flags :
          Returns("get_sensor_data", [t |-> t, press_en |-> press_en],
                  GetSensorData(d, press_en, [t |-> t % 2^24, p |-> 100000]))
    BY DEF ReadData
  <2> QED BY <2>1, Returned
<1> QED BY <1>1, <1>2, <1>3, <1>4, <1>5, <1>6, <1>7, <1>8, <1>9, <1>10

LEMMA SingleAnswers ==
    ASSUME TypedState, SingleCall
    PROVE  \E d, e, w : /\ Answers(d, e, w)
                        /\ Called({"set_fifo"}) /\ Fits(reg) /\ ~Faulty(e) => Fits(reg')
                        /\ Called({"configure_interrupt"}) =>
                             reg'.int_config = reg.int_config \/ reg'.int_source = 0
<1>1. CASE SetFifo
  BY <1>1, SetFifoAnswers, Calls DEF Called
<1>2. CASE SetInterrupt
  BY <1>2, SetInterruptAnswers, Calls DEF Called
<1>3. CASE SetMode
  BY <1>3, SetModeAnswers, Calls DEF Called
<1>4. CASE SetOsrOdr
  BY <1>4, SetOsrOdrAnswers, Calls DEF Called
<1>5. CASE SetIir
  BY <1>5, SetIirAnswers, Calls DEF Called
<1>6. CASE SetOor
  BY <1>6, SetOorAnswers, Calls DEF Called
<1>7. CASE SelectSources
  BY <1>7, SelectSourcesAnswers, Calls DEF Called
<1>8. CASE ReadNvm
  BY <1>8, ReadNvmAnswers, Calls DEF Called
<1>9. CASE WriteNvm
  BY <1>9, WriteNvmAnswers, Calls DEF Called
<1>10. CASE ReadData
  BY <1>10, ReadDataAnswers, Calls DEF Called
<1> QED BY <1>1, <1>2, <1>3, <1>4, <1>5, <1>6, <1>7, <1>8, <1>9, <1>10 DEF SingleCall

\* A call ended: what Ends says of the variables.
LEMMA Ended ==
    ASSUME NEW fn, NEW arg, NEW e, NEW failed, Ends(fn, arg, e, failed)
    PROVE  /\ reg' = e.reg /\ nvm' = e.nvm
           /\ last'.fn = fn /\ last'.arg = arg /\ last'.rslt = e.rslt
           /\ last'.data = e.data /\ last'.hot = e.hot
           /\ faults' = IF failed THEN faults + 1 ELSE faults
  BY DEF Ends

\* The end of a forced measurement.
LEMMA MeasuredEnds ==
    ASSUME TypedState, Measured
    PROVE  /\ TypedState' /\ last' = NoCall
           /\ reg.mode = "FORCED" /\ reg'.mode = "STANDBY" /\ reg'.deep_dis
           /\ \A f \in Settings : reg'[f] = reg[f]
           /\ UNCHANGED <<nvm, initialized, calls, faults>>
<1>1. /\ reg.mode = "FORCED" /\ reg' = [reg EXCEPT !.mode = "STANDBY"]
      /\ last' = NoCall /\ UNCHANGED <<nvm, initialized, calls, faults>>
  BY DEF Measured
<1>2. /\ DOMAIN reg = Fields /\ "mode" \in Fields /\ "deep_dis" \in Fields /\ reg.deep_dis
  BY <1>1, FieldNames DEF TypedState, Registers
<1>3. /\ DOMAIN reg' = Fields /\ reg'.mode = "STANDBY"
      /\ \A f \in Fields \ {"mode"} : reg'[f] = reg[f]
  BY <1>1, <1>2
<1>4. Registers(reg')
  <2>1. InField("mode", reg'.mode)
    BY <1>3, FieldKind
  <2>2. \A f \in Fields : InField(f, reg'[f])
    BY <1>3, <2>1 DEF TypedState, Registers
  <2> QED BY <1>3, <2>2 DEF Registers
<1>5. \A f \in Settings : reg'[f] = reg[f]
  BY <1>3, SettingNames
<1>6. reg'.deep_dis
  BY <1>2, <1>3
<1>7. Memory(nvm') /\ nvm' = nvm
  BY <1>1 DEF TypedState
<1> QED BY <1>1, <1>3, <1>4, <1>5, <1>6, <1>7 DEF TypedState

-----------------------------------------------------------------------------
(***************************************************************************)
(* Safety.                                                                 *)
(***************************************************************************)
LEMMA TypeInit == Init => TypeInv
<1> SUFFICES ASSUME Init PROVE TypeInv
  OBVIOUS
<1>1. Registers(ResetValues)
  <2>1. /\ InField("mode", ResetValues.mode) /\ InField("deep_dis", ResetValues.deep_dis)
        /\ InField("odr", ResetValues.odr) /\ InField("threshold", ResetValues.threshold)
        /\ InField("frame_sel", ResetValues.frame_sel)
    BY DEF ResetValues, InField, ODR_01_HZ
  <2>2. /\ InField("oor_lsb", ResetValues.oor_lsb) /\ InField("oor_msb", ResetValues.oor_msb)
        /\ InField("oor_xmsb", ResetValues.oor_xmsb) /\ InField("nvm_addr", ResetValues.nvm_addr)
    BY DEF ResetValues, InField
  <2>3. InField("nvm_data", ResetValues.nvm_data)
    <3>1. ResetValues.nvm_data = 0
      BY DEF ResetValues
    <3>2. 0 \in Word16
      BY Powers DEF Word16, Unsigned
    <3> QED BY <3>1, <3>2, FieldKind
  <2>4. \A f \in Fields : InField(f, ResetValues[f])
    BY <2>1, <2>2, <2>3, FreeFields DEF TypedFields
  <2>5. ResetValues.mode = "STANDBY"
    BY DEF ResetValues
  <2> QED BY <2>4, <2>5 DEF Registers, Fields
<1>2. Memory(nvm)
  <2>1. 0 \in Word16
    BY Powers DEF Word16, Unsigned
  <2> QED BY <2>1 DEF Init, Memory
<1>3. last.hot = FALSE /\ initialized \in BOOLEAN
  BY DEF Init, NoCall
<1> QED BY <1>1, <1>2, <1>3, Bmp5Assumption DEF Init, TypeInv, TypedState

LEMMA TypeStep == TypeInv /\ [Next]_vars => TypeInv'
<1> SUFFICES ASSUME TypeInv, [Next]_vars PROVE TypeInv'
  OBVIOUS
<1>1. TypedState
  BY DEF TypeInv
<1>2. CASE SingleCall
  <2>1. PICK d, e, w : Answers(d, e, w)
    BY <1>1, <1>2, SingleAnswers
  <2>2. Begun(d) /\ Viewed(e) /\ (e.hot => d.hot) /\ (Faulty(e) => ~Sound(d))
    BY <2>1, SoundWrites DEF Answers
  <2>3. Ends(last'.fn, last'.arg, e, Faulty(e)) /\ initialized' \in BOOLEAN
    BY <2>1 DEF Answers, TypeInv
  <2> QED BY <2>2, <2>3, CallEnds
<1>3. CASE Reset
  <2>1. PICK d, e : /\ Begun(d) /\ Runs(d, e, 3) /\ Ends("soft_reset", 0, e, Faulty(e))
                    /\ initialized' = initialized
    BY <1>1, <1>3, ResetAnswers
  <2>2. Viewed(e) /\ (e.hot => d.hot) /\ (Faulty(e) => ~Sound(d))
    BY <2>1, SoundCall DEF Plenty
  <2> QED BY <2>1, <2>2, CallEnds DEF TypeInv
<1>4. CASE FirmwareInit
  <2>1. PICK d, e : /\ Begun(d) /\ Runs(d, e, 37) /\ Ends("init", 0, e, Faulty(e))
                    /\ initialized' \in BOOLEAN
    BY <1>4, FirmwareInitAnswers
  <2>2. Viewed(e) /\ (e.hot => d.hot) /\ (Faulty(e) => ~Sound(d))
    BY <2>1, SoundCall DEF Plenty
  <2> QED BY <2>1, <2>2, CallEnds
<1>5. CASE FifoSetup
  <2>1. PICK d, e, sel, failed :
          /\ Begun(d) /\ Viewed(e) /\ (e.hot => d.hot) /\ (failed => ~Sound(d))
          /\ Ends("fifo_setup", sel, e, failed)
          /\ initialized' = initialized
    BY <1>1, <1>5, FifoSetupAnswers
  <2> QED BY <2>1, CallEnds DEF TypeInv
<1>6. CASE Measured
  BY <1>1, <1>6, MeasuredEnds DEF TypeInv, NoCall
<1>7. CASE UNCHANGED vars
  BY <1>7 DEF vars, TypeInv, TypedState
<1> QED BY <1>2, <1>3, <1>4, <1>5, <1>6, <1>7, Steps

LEMMA TypeAlways == Spec => []TypeInv
<1> QED BY TypeInit, TypeStep, PTL DEF Spec

\* Type correctness, with the budget of faults: a call that begins with
\* enough bytes cannot fail on the bus, so no call counts as failed once
\* MaxFaults calls have.
THEOREM TypeCorrect == Spec => []TypeOK
<1>1. TypeInv => TypeOK
  <2> SUFFICES ASSUME TypeInv PROVE TypeOK
    OBVIOUS
  <2>1. Registers(reg) /\ Memory(nvm)
    BY DEF TypeInv, TypedState
  <2>2. DOMAIN reg = DOMAIN ResetValues
    BY <2>1 DEF Registers, Fields
  <2>3. last.hot \in BOOLEAN
    BY DEF TypeInv
  <2> QED BY <2>1, <2>2, <2>3, FieldKinds DEF TypeOK, TypeInv, Memory, Word16
<1> QED BY <1>1, TypeAlways, PTL

\* In every order of calls and wherever the bus fails, in the call or before
\* it, bmp5.c never writes filter, count limit or memory address while the
\* sensor measures.
THEOREM ProtectedInStandby == Spec => []ProtectedOnlyInStandby
<1>1. TypeInv => ProtectedOnlyInStandby
  BY DEF TypeInv, ProtectedOnlyInStandby
<1> QED BY <1>1, TypeAlways, PTL

FitsInv == faults = 0 => Fits(reg)

LEMMA FitsStep == TypeInv /\ FitsInv /\ [Next]_vars => FitsInv'
<1> SUFFICES ASSUME TypeInv, FitsInv, [Next]_vars, faults' = 0 PROVE Fits(reg')
  BY DEF FitsInv
<1>1. TypedState /\ faults \in Nat
  BY Bmp5Assumption DEF TypeInv
<1>2. CASE SingleCall
  <2>1. PICK d, e, w : /\ Answers(d, e, w)
                       /\ Called({"set_fifo"}) /\ Fits(reg) /\ ~Faulty(e) => Fits(reg')
    BY <1>1, <1>2, SingleAnswers
  <2>2. Ends(last'.fn, last'.arg, e, Faulty(e)) /\ d.reg = reg /\ Writes(d, e, w, Modes, Plenty)
    BY <2>1 DEF Answers, Begun
  <2>3. ~Faulty(e) /\ Fits(reg) /\ reg' = e.reg
    <3>1. faults' = IF Faulty(e) THEN faults + 1 ELSE faults
      BY <2>2, Ended
    <3> QED BY <1>1, <2>2, <3>1, Ended DEF FitsInv
  <2>4. CASE Called({"set_fifo"})
    BY <2>1, <2>3, <2>4
  <2>5. CASE ~Called({"set_fifo"})
    <3>1. "threshold" \notin DOMAIN w /\ ("frame_sel" \in DOMAIN w => w.frame_sel = 0)
      BY <2>1, <2>5 DEF Answers
    <3>2. e.reg.threshold = reg.threshold /\ e.reg.frame_sel \in {reg.frame_sel, 0}
      BY <2>2, <3>1, KeptNames DEF Writes, Kept
    <3> QED BY <2>3, <3>2 DEF Fits
  <2> QED BY <2>4, <2>5
<1>3. CASE Reset
  <2>1. PICK d, e : /\ Ends("soft_reset", 0, e, Faulty(e))
                    /\ SameKept(reg, reg') \/ SameKept(ResetValues, reg')
    BY <1>1, <1>3, ResetAnswers
  <2>2. faults = 0
    BY <1>1, <2>1, Ended
  <2> QED BY <2>1, <2>2, KeptFits DEF FitsInv
<1>4. CASE FirmwareInit
  <2>1. PICK d, e : /\ Ends("init", 0, e, Faulty(e))
                    /\ SameKept(reg, reg') \/ SameKept(ResetValues, reg')
    BY <1>4, FirmwareInitAnswers
  <2>2. faults = 0
    BY <1>1, <2>1, Ended
  <2> QED BY <2>1, <2>2, KeptFits DEF FitsInv
<1>5. CASE FifoSetup
  <2>1. PICK d, e, sel, failed : /\ Ends("fifo_setup", sel, e, failed)
                                 /\ Fits(reg) /\ ~failed => Fits(reg')
    BY <1>1, <1>5, FifoSetupAnswers
  <2>2. faults' = IF failed THEN faults + 1 ELSE faults
    BY <2>1, Ended
  <2> QED BY <1>1, <2>1, <2>2 DEF FitsInv
<1>6. CASE Measured
  <2>1. SameKept(reg, reg') /\ faults' = faults
    BY <1>1, <1>6, MeasuredEnds, KeptNames DEF SameKept
  <2> QED BY <2>1, KeptFits DEF FitsInv
<1>7. CASE UNCHANGED vars
  BY <1>7 DEF vars, FitsInv
<1> QED BY <1>2, <1>3, <1>4, <1>5, <1>6, <1>7, Steps

\* As long as no call failed between two registers, the FIFO can hold as many
\* frames as its threshold asks for, whatever calls came before: the set-up of
\* the examples, which keeps the threshold it finds, included.
THEOREM ThresholdFits == Spec => []ThresholdFitsFrames
<1>1. Init => FitsInv
  <2>1. ResetValues.frame_sel = 0
    BY DEF ResetValues
  <2> QED BY <2>1 DEF Init, FitsInv, Fits
<1>2. FitsInv => ThresholdFitsFrames
  BY DEF FitsInv, Fits, ThresholdFitsFrames
<1> QED BY <1>1, <1>2, FitsStep, TypeAlways, PTL DEF Spec

-----------------------------------------------------------------------------
(***************************************************************************)
(* What a step may do. Each property is a fact of single steps from        *)
(* states with TypeInv; only the calls of single functions, and the end of *)
(* a forced measurement, are not excluded by name from most of them.       *)
(***************************************************************************)
LEMMA NotSingle ==
    ASSUME TypeInv, Reset \/ FirmwareInit \/ FifoSetup
    PROVE  /\ last'.fn \in {"soft_reset", "init", "fifo_setup"}
           /\ nvm' = nvm
<1>1. TypedState
  BY DEF TypeInv
<1>2. CASE Reset
  <2>1. PICK d, e : Begun(d) /\ Runs(d, e, 3) /\ Ends("soft_reset", 0, e, Faulty(e))
    BY <1>1, <1>2, ResetAnswers
  <2> QED BY <2>1, Ended DEF Runs, Begun
<1>3. CASE FirmwareInit
  <2>1. PICK d, e : Begun(d) /\ Runs(d, e, 37) /\ Ends("init", 0, e, Faulty(e))
    BY <1>3, FirmwareInitAnswers
  <2> QED BY <2>1, Ended DEF Runs, Begun
<1>4. CASE FifoSetup
  <2>1. PICK d, e, sel, failed :
          Begun(d) /\ Ends("fifo_setup", sel, e, failed) /\ e.nvm = d.nvm
    BY <1>1, <1>4, FifoSetupAnswers
  <2> QED BY <2>1, Ended DEF Begun
<1> QED BY <1>2, <1>3, <1>4

\* A single call from a valid mode, in terms of the variables.
LEMMA SingleFromKnown ==
    ASSUME TypeInv, SingleCall, Known(reg)
    PROVE  /\ \A f \in Settings : reg'[f] \in {reg[f], With(reg, AskedNow)[f]}
           /\ Succeeded => \A f \in Settings : reg'[f] = With(reg, AskedNow)[f]
           /\ Succeeded => ModeIsRight
<1>1. TypedState
  BY DEF TypeInv
<1>2. PICK d, e, w : Answers(d, e, w)
  BY <1>1, SingleAnswers
<1>3. /\ Writes(d, e, w, Modes, Plenty) /\ d.reg = reg
      /\ Ends(last'.fn, last'.arg, e, Faulty(e))
      /\ \A f \in Settings : With(reg, w)[f] = With(reg, AskedNow)[f]
      /\ e.rslt = "OK" => Has(e, w)
      /\ e.rslt = "OK" => ModeIsRight
  BY <1>2 DEF Answers, Begun
<1>4. reg' = e.reg /\ last'.rslt = e.rslt
  BY <1>3, Ended
<1>5. \A f \in Settings : reg'[f] = reg[f] \/ (f \in DOMAIN w /\ reg'[f] = w[f])
  BY <1>3, <1>4 DEF Writes
<1>6. \A f \in Settings : With(reg, w)[f] = IF f \in DOMAIN w THEN w[f] ELSE reg[f]
  BY <1>1, Merged, SettingNames DEF TypedState, Registers
<1>7. Succeeded => \A f \in Settings : f \in DOMAIN w => reg'[f] = w[f]
  BY <1>3, <1>4 DEF Succeeded, Has
<1>8. \A f \in Settings : reg'[f] \in {reg[f], With(reg, w)[f]}
  BY <1>5, <1>6
<1>9. Succeeded => \A f \in Settings : reg'[f] = With(reg, w)[f]
  BY <1>5, <1>6, <1>7
<1>10. Succeeded => ModeIsRight
  BY <1>3, <1>4 DEF Succeeded
<1> QED BY <1>3, <1>5, <1>8, <1>9, <1>10

\* A call of a function that succeeded changed the settings it was asked to
\* change, to what it was asked, and no other setting.
THEOREM SuccessIsExact == Spec => SuccessDoesWhatWasAsked
<1> DEFINE P == (Known(reg) /\ Succeeded /\ ~Composed) =>
                  \A f \in Settings : reg'[f] = With(reg, AskedNow)[f]
<1>1. TypeInv /\ [Next]_vars => [P]_vars
  <2> SUFFICES ASSUME TypeInv, Next, Known(reg), Succeeded, ~Composed
               PROVE  \A f \in Settings : reg'[f] = With(reg, AskedNow)[f]
    OBVIOUS
  <2>1. CASE SingleCall
    BY <2>1, SingleFromKnown
  <2>2. CASE Measured
    <3>1. last' = NoCall /\ \A f \in Settings : reg'[f] = reg[f]
      BY <2>2, MeasuredEnds DEF TypeInv
    <3>2. AskedNow = <<>>
      BY <3>1, AskedFor DEF AskedNow, NoCall
    <3> QED BY <3>1, <3>2, NothingAsked, SettingNames DEF TypeInv, TypedState, Registers
  <2>3. CASE Reset \/ FirmwareInit \/ FifoSetup
    BY <2>3, NotSingle DEF Composed, Called
  <2> QED BY <2>1, <2>2, <2>3, Steps
<1> QED BY <1>1, TypeAlways, PTL DEF Spec, SuccessDoesWhatWasAsked

\* Where a single call that began in a valid mode leaves the sensor.
ModeAfterBreak ==
    \/ Actual(reg') \in {Actual(reg), "STANDBY"}
    \/ Called({"set_power_mode"}) /\ Actual(reg') = last'.arg.mode
    \/ HalfAsleep
    \/ AwakeAt5Hz

LEMMA SingleBreaks ==
    ASSUME TypeInv, SingleCall, Known(reg)
    PROVE  ModeAfterBreak
<1> DEFINE A == {Actual(reg), "STANDBY"}
<1>1. "UNDEFINED" \notin A /\ "STANDBY" \in A /\ Actual(reg) \in A
  BY DEF Known
<1>2. \A d \in Attempts : Viewed(d) /\ d.reg = reg
  BY CallBegins DEF TypeInv, Begun
<1>3. CASE SetMode
  <2>1. PICK d \in Attempts, m \in PowerModes :
          Returns("set_power_mode", [mode |-> m], SetPowerMode(d, m))
    BY <1>3 DEF SetMode
  <2> DEFINE e == SetPowerMode(d, m)
             B == A \cup {m}
  <2>2. /\ last'.fn = "set_power_mode" /\ last'.arg = [mode |-> m] /\ reg' = e.reg
    BY <2>1, Returned
  <2>3. Shaped(d) /\ d.reg = reg
    BY <1>2 DEF Shaped, Viewed, Registers
  <2>4. Actual(d.reg) \in B /\ "STANDBY" \in B /\ m \in B
    BY <2>3
  <2>5. CASE m # "DEEP_STANDBY"
    <3>1. Keeps(d, e, B)
      BY <2>3, <2>4, <2>5, SetPowerModeKeeps
    <3>2. Actual(e.reg) \in B
      BY <2>4, <3>1 DEF Keeps
    <3> HIDE DEF e
    <3> QED BY <2>2, <3>2 DEF ModeAfterBreak, Called
  <2>6. CASE m = "DEEP_STANDBY"
    <3>1. \/ Actual(e.reg) \in B
          \/ Actual(e.reg) = "UNDEFINED" /\ (reg.iir # BYPASS \/ reg.frame_sel # 0)
      BY <2>3, <2>4, <2>6, SetDeepStandbyBreaks
    <3> HIDE DEF e
    <3> QED BY <2>2, <2>6, <3>1 DEF ModeAfterBreak, HalfAsleep, Called
  <2> QED BY <2>5, <2>6
<1>4. CASE SetOsrOdr
  <2>1. PICK d \in Attempts, cfg \in [osr : Osrs, odr : Odrs] :
          Returns("set_osr_odr", cfg, SetOsrOdrPressConfig(d, cfg))
    BY <1>4 DEF SetOsrOdr
  <2> DEFINE e == SetOsrOdrPressConfig(d, cfg)
  <2>2. last'.fn = "set_osr_odr" /\ last'.arg = cfg /\ reg' = e.reg
    BY <2>1, Returned
  <2>3. cfg.odr \in 0..31
    BY <2>1, Bmp5Assumption
  <2>4. \/ Actual(e.reg) \in A
        \/ /\ cfg.odr = ODR_05_HZ
           /\ Actual(reg) = "DEEP_STANDBY" /\ Actual(e.reg) = "UNDEFINED"
    BY <1>1, <1>2, <2>3, SetOsrOdrKeeps
  <2> HIDE DEF e
  <2> QED BY <2>2, <2>4 DEF ModeAfterBreak, AwakeAt5Hz, Called
<1>5. CASE SetIir
  <2>1. PICK d \in Attempts, cfg \in [shdw : {0}, iir : 0..1] :
          Returns("set_iir", cfg, SetIirConfig(d, cfg))
    BY <1>5 DEF SetIir
  <2>2. Actual(SetIirConfig(d, cfg).reg) \in A
    BY <1>1, <1>2, SetIirKeeps
  <2>3. reg' = SetIirConfig(d, cfg).reg
    BY <2>1, Returned
  <2> QED BY <2>2, <2>3 DEF ModeAfterBreak
<1>6. CASE SetFifo
  <2>1. PICK d \in Attempts, cfg \in [fifo_mode : {0}, threshold : Thresholds,
                                     frame_sel : FrameSels, fifo_iir : {1}] :
          Returns("set_fifo", cfg, SetFifoConfiguration(d, cfg))
    BY <1>6 DEF SetFifo
  <2>2. Actual(SetFifoConfiguration(d, cfg).reg) \in A
    BY <1>1, <1>2, SetFifoKeeps
  <2>3. reg' = SetFifoConfiguration(d, cfg).reg
    BY <2>1, Returned
  <2> QED BY <2>2, <2>3 DEF ModeAfterBreak
<1>7. CASE SetOor
  <2>1. PICK d \in Attempts, cfg \in [thr : OorThresholds, range : {1}, cnt_lim : {1},
                                     oor_iir : {1}] :
          Returns("set_oor", cfg, SetOorConfiguration(d, cfg))
    BY <1>7 DEF SetOor
  <2>2. Actual(SetOorConfiguration(d, cfg).reg) \in A
    BY <1>1, <1>2, SetOorKeeps
  <2>3. reg' = SetOorConfiguration(d, cfg).reg
    BY <2>1, Returned
  <2> QED BY <2>2, <2>3 DEF ModeAfterBreak
<1>8. CASE SetInterrupt
  <2>1. PICK d \in Attempts, cfg \in 0..1 :
          Returns("configure_interrupt", cfg, ConfigureInterrupt(d, cfg))
    BY <1>8 DEF SetInterrupt
  <2>2. Actual(ConfigureInterrupt(d, cfg).reg) \in A
    BY <1>2, InterruptKeeps
  <2>3. reg' = ConfigureInterrupt(d, cfg).reg
    BY <2>1, Returned
  <2> QED BY <2>2, <2>3 DEF ModeAfterBreak
<1>9. CASE SelectSources
  <2>1. PICK d \in Attempts, s \in 0..1 : Returns("int_source_select", s, IntSourceSelect(d, s))
    BY <1>9 DEF SelectSources
  <2>2. Actual(IntSourceSelect(d, s).reg) \in A
    BY <1>2, InterruptKeeps
  <2>3. reg' = IntSourceSelect(d, s).reg
    BY <2>1, Returned
  <2> QED BY <2>2, <2>3 DEF ModeAfterBreak
<1>10. CASE ReadNvm
  <2>1. PICK d \in Attempts, a \in Addresses : Returns("nvm_read", a, NvmRead(d, a))
    BY <1>10 DEF ReadNvm
  <2>2. Actual(NvmRead(d, a).reg) \in A
    BY <1>1, <1>2, NvmKeepsMode
  <2>3. reg' = NvmRead(d, a).reg
    BY <2>1, Returned
  <2> QED BY <2>2, <2>3 DEF ModeAfterBreak
<1>11. CASE WriteNvm
  <2>1. PICK d \in Attempts, a \in Addresses, w \in Words :
          Returns("nvm_write", [a |-> a, w |-> w], NvmWrite(d, a, w))
    BY <1>11 DEF WriteNvm
  <2>2. Actual(NvmWrite(d, a, w).reg) \in A
    BY <1>1, <1>2, NvmKeepsMode
  <2>3. reg' = NvmWrite(d, a, w).reg
    BY <2>1, Returned
  <2> QED BY <2>2, <2>3 DEF ModeAfterBreak
<1>12. CASE ReadData
  <2> DEFINE flags == BOOLEAN
  <2>1. PICK d \in Attempts, t \in Samples, press_en \in flags :
          Returns("get_sensor_data", [t |-> t, press_en |-> press_en],
                  GetSensorData(d, press_en, [t |-> t % 2^24, p |-> 100000]))
    BY <1>12 DEF ReadData
  <2>2. \E x : GetSensorData(d, press_en, [t |-> t % 2^24, p |-> 100000]) = Data(GetRegs(d), x)
    BY DEF GetSensorData
  <2>3. Actual(GetSensorData(d, press_en, [t |-> t % 2^24, p |-> 100000]).reg) = Actual(reg)
    BY <1>2, <2>2, InterruptKeeps
  <2>4. reg' = GetSensorData(d, press_en, [t |-> t % 2^24, p |-> 100000]).reg
    BY <2>1, Returned
  <2> QED BY <2>3, <2>4 DEF ModeAfterBreak
<1> QED BY <1>3, <1>4, <1>5, <1>6, <1>7, <1>8, <1>9, <1>10, <1>11, <1>12 DEF SingleCall

\* Wherever a call of a function broke off, each setting has its old value or
\* the one asked for, and the sensor is in the mode it was in, in standby mode
\* or in the mode asked for. An invalid mode has two causes only: the way into
\* deep standby while the filter or frames are selected, and 5 Hz from there.
THEOREM FailureIsPartial == Spec => FailedCallLeavesOldOrAsked
<1> DEFINE P == (Known(reg) /\ ~Succeeded /\ ~Composed) =>
                  /\ \A f \in Settings : reg'[f] \in {reg[f], With(reg, AskedNow)[f]}
                  /\ \/ Actual(reg') \in {Actual(reg), "STANDBY"}
                     \/ Called({"set_power_mode"}) /\ Actual(reg') = last'.arg.mode
                     \/ HalfAsleep
                     \/ AwakeAt5Hz
<1>1. TypeInv /\ [Next]_vars => [P]_vars
  <2> SUFFICES ASSUME TypeInv, Next, Known(reg), ~Succeeded, ~Composed
               PROVE  P
    OBVIOUS
  <2>1. CASE SingleCall
    BY <2>1, SingleFromKnown, SingleBreaks DEF ModeAfterBreak
  <2>2. CASE Measured
    BY <2>2, MeasuredEnds DEF TypeInv, NoCall, Succeeded
  <2>3. CASE Reset \/ FirmwareInit \/ FifoSetup
    BY <2>3, NotSingle DEF Composed, Called
  <2> QED BY <2>1, <2>2, <2>3, Steps
<1> QED BY <1>1, TypeAlways, PTL DEF Spec, FailedCallLeavesOldOrAsked

\* In every order of calls, and wherever a call breaks off, the interrupt pin
\* changes its configuration only with every source off; only set_config of the
\* FIFO examples, which turns one on after that, is left out.
THEOREM PinChangesMasked == Spec => InterruptsMaskedWhileReconfigured
<1> DEFINE P == (reg'.int_config # reg.int_config /\ ~Called({"fifo_setup"})) =>
                  reg'.int_source = 0
<1>1. TypeInv /\ [Next]_vars => [P]_vars
  <2> SUFFICES ASSUME TypeInv, Next, ~Called({"fifo_setup"})
               PROVE  reg'.int_config = reg.int_config \/ reg'.int_source = 0
    OBVIOUS
  <2>1. TypedState
    BY DEF TypeInv
  <2>2. CASE SingleCall
    <3>1. PICK d, e, w : /\ Answers(d, e, w)
                         /\ Called({"configure_interrupt"}) =>
                              reg'.int_config = reg.int_config \/ reg'.int_source = 0
      BY <2>1, <2>2, SingleAnswers
    <3>2. /\ Ends(last'.fn, last'.arg, e, Faulty(e)) /\ d.reg = reg
          /\ Writes(d, e, w, Modes, Plenty)
          /\ Called({"configure_interrupt"}) \/ "int_config" \notin DOMAIN w
      BY <3>1 DEF Answers, Begun
    <3> QED BY <3>1, <3>2, Ended, KeptNames DEF Writes, Kept
  <2>3. CASE Reset
    BY <2>1, <2>3, ResetAnswers, KeptFits
  <2>4. CASE FirmwareInit
    BY <2>4, FirmwareInitAnswers, KeptFits
  <2>5. CASE FifoSetup
    <3>1. PICK d, e, sel, failed : Ends("fifo_setup", sel, e, failed)
      BY <2>1, <2>5, FifoSetupAnswers
    <3> QED BY <3>1, Ended DEF Called
  <2>6. CASE Measured
    BY <2>1, <2>6, MeasuredEnds, KeptNames DEF Kept
  <2> QED BY <2>2, <2>3, <2>4, <2>5, <2>6, Steps
<1> QED BY <1>1, TypeAlways, PTL DEF Spec, InterruptsMaskedWhileReconfigured

\* bmp5_nvm_read returns the word at the address asked for; bmp5_nvm_write
\* changes no other word, that one only to the value asked for, and always when
\* it succeeds; no other function writes the memory. Wherever the bus fails.
THEOREM NvmKeeps == Spec => NvmKeepsWhatWasWritten
<1> DEFINE P == /\ Called({"nvm_read"}) /\ Succeeded => last'.data = nvm[last'.arg]
                /\ \A a \in NvmAddresses : nvm'[a] # nvm[a] =>
                     Called({"nvm_write"}) /\ last'.arg = [a |-> a, w |-> nvm'[a]]
                /\ Called({"nvm_write"}) /\ Succeeded => nvm'[last'.arg.a] = last'.arg.w
<1>1. TypeInv /\ [Next]_vars => [P]_vars
  <2> SUFFICES ASSUME TypeInv, Next PROVE P
    OBVIOUS
  <2>1. TypedState
    BY DEF TypeInv
  <2>2. CASE ReadNvm
    BY <2>1, <2>2, ReadNvmAnswers DEF Called, Succeeded
  <2>3. CASE WriteNvm
    BY <2>1, <2>3, WriteNvmAnswers DEF Called, Succeeded
  <2>4. CASE SingleCall /\ ~ReadNvm /\ ~WriteNvm
    <3>1. last'.fn \notin {"nvm_read", "nvm_write"}
      BY <2>4, Calls DEF SingleCall
    <3>2. PICK d, e, w : Answers(d, e, w)
      BY <2>1, <2>4, SingleAnswers
    <3>3. Ends(last'.fn, last'.arg, e, Faulty(e)) /\ e.nvm = nvm
      BY <3>1, <3>2 DEF Answers, Begun, Called
    <3> QED BY <3>1, <3>3, Ended DEF Called
  <2>5. CASE Reset \/ FirmwareInit \/ FifoSetup
    BY <2>5, NotSingle DEF Called
  <2>6. CASE Measured
    BY <2>1, <2>6, MeasuredEnds DEF Called, NoCall
  <2> QED BY <2>2, <2>3, <2>4, <2>5, <2>6, Steps
<1> QED BY <1>1, TypeAlways, PTL DEF Spec, NvmKeepsWhatWasWritten

\* Whatever mode and settings SensorBMP5xx::init finds, once it counts as done
\* the sensor has the firmware's settings and no others; when it succeeded the
\* sensor measures.
THEOREM InitConfigures == Spec => InitializedIsConfigured
<1> DEFINE P == (Called({"init"}) /\ (Succeeded \/ initialized' # initialized)) =>
                  /\ \A f \in Settings : reg'[f] = With(ResetValues, FirmwareConfig)[f]
                  /\ Succeeded => Actual(reg') = "NORMAL"
<1>1. TypeInv /\ [Next]_vars => [P]_vars
  <2> SUFFICES ASSUME TypeInv, Next, Called({"init"}) PROVE P
    OBVIOUS
  <2>1. TypedState
    BY DEF TypeInv
  <2>2. CASE SingleCall
    <3>1. PICK d, e, w : Answers(d, e, w)
      BY <2>1, <2>2, SingleAnswers
    <3> QED BY <3>1 DEF Answers, Called
  <2>3. CASE FirmwareInit
    <3>1. PICK d, e : /\ Ends("init", 0, e, Faulty(e))
                      /\ e.rslt = "OK" \/ initialized' # initialized => Ready(reg')
                      /\ e.rslt = "OK" => Actual(reg') = "NORMAL"
      BY <2>3, FirmwareInitAnswers
    <3> QED BY <3>1, Ended DEF Ready, Succeeded
  <2>4. CASE Reset
    BY <2>1, <2>4, ResetAnswers, Ended DEF Called
  <2>5. CASE FifoSetup
    BY <2>1, <2>5, FifoSetupAnswers, Ended DEF Called
  <2>6. CASE Measured
    BY <2>1, <2>6, MeasuredEnds DEF Called, NoCall
  <2> QED BY <2>2, <2>3, <2>4, <2>5, <2>6, Steps
<1> QED BY <1>1, TypeAlways, PTL DEF Spec, InitializedIsConfigured

-----------------------------------------------------------------------------
(***************************************************************************)
(* The mode, and what the get functions report.                            *)
(***************************************************************************)
\* The driver's view of a sensor with registers r and memory m, when nothing fails.
SoundView(r, m, s) ==
    [reg |-> r, nvm |-> m, rslt |-> "OK", left |-> Plenty, took |-> FALSE,
     ready |-> TRUE, stack |-> s, hot |-> FALSE, powermode |-> s, data |-> FALSE]

LEMMA SoundViewed ==
    ASSUME NEW r, Registers(r), NEW m, Memory(m), NEW s
    PROVE  LET v == SoundView(r, m, s)
           IN  /\ Viewed(v) /\ v.reg = r /\ v.rslt = "OK" /\ v.left = Plenty
               /\ v.ready /\ v.stack = s
<1> DEFINE v == SoundView(r, m, s)
<1>1. /\ DOMAIN v = ViewFields
      /\ v.reg = r /\ v.nvm = m /\ v.rslt = "OK" /\ v.left = Plenty /\ v.took = FALSE
      /\ v.ready = TRUE /\ v.stack = s /\ v.hot = FALSE
  BY DEF SoundView, ViewFields
<1>2. Plenty \in Nat
  BY DEF Plenty
<1> HIDE DEF v
<1>3. Viewed(v)
  BY <1>1, <1>2 DEF Viewed
<1> QED BY <1>1, <1>3 DEF v

\* Asking for the mode can only fail on the bus.
LEMMA GetPowerModeRslt ==
    ASSUME NEW d, Viewed(d)
    PROVE  GetPowerMode(d).rslt \in {d.rslt, "COM_FAIL"}
<1>1. \A e : Viewed(e) => GetRegs(e).rslt \in {e.rslt, "COM_FAIL"} /\ Viewed(GetRegs(e))
  <2>1. \A e : Viewed(e) => GetRegs(e).rslt \in {e.rslt, "COM_FAIL"}
    BY DEF GetRegs, Viewed, ViewFields
  <2> QED BY <2>1, GetRegsReads DEF Reads
<1>2. \A e, x : Viewed(e) => Out(e, x).rslt = e.rslt
  BY OutReads
<1> DEFINE e == GetRegs(d)
           f == GetRegs(GetRegs(GetRegs(e)))
<1>3. Viewed(e) /\ e.rslt \in {d.rslt, "COM_FAIL"}
  BY <1>1
<1> HIDE DEF e
<1>4. Viewed(f) /\ f.rslt \in {e.rslt, "COM_FAIL"}
  BY <1>1, <1>3
<1>5. CheckDeepstandbyMode(e).rslt = f.rslt
  BY <1>2, <1>4 DEF CheckDeepstandbyMode
<1> HIDE DEF f
<1> QED BY <1>2, <1>3, <1>4, <1>5 DEF GetPowerMode, e

LEMMA ReportedKnown ==
    ASSUME Memory(nvm), NEW r, Registers(r), Known(r), Stack # {}
    PROVE  Reported(r) = {Actual(r)}
<1> DEFINE v(s) == SoundView(r, nvm, s)
           Told(s) == GetPowerMode(v(s)).powermode
<1>1. Reported(r) = {Told(s) : s \in Stack}
  BY DEF Reported, View, SoundView
<1>2. ASSUME NEW s PROVE Told(s) = Actual(r)
  <2> DEFINE u == v(s)
             g == GetPowerMode(u)
  <2>1. Viewed(u) /\ u.reg = r /\ u.rslt = "OK" /\ u.left = Plenty /\ u.ready
    BY SoundViewed
  <2> HIDE DEF u
  <2>2. /\ Reads(u, g, 4)
        /\ g.rslt = "OK" => g.powermode = (IF Known(u.reg) THEN Actual(u.reg) ELSE u.stack)
    BY <2>1, GetPowerModeReads
  <2>3. g.rslt \in {u.rslt, "COM_FAIL"}
    BY <2>1, GetPowerModeRslt
  <2> HIDE DEF g
  <2>4. g.rslt = "OK"
    BY <2>1, <2>2, <2>3 DEF Reads, Faults, Plenty
  <2> QED BY <2>1, <2>2, <2>4 DEF g, u
<1> HIDE DEF Told
<1> QED BY <1>1, <1>2

\* The mode after a successful call is valid, and the one before unless the
\* call was to change it. 5 Hz is the exception, where bmp5.c compares
\* register values as if they grew with the rate.
LEMMA ModeAfterCall ==
    ASSUME TypeInv, SingleCall, Known(reg), Succeeded, ODR_05_HZ \notin Odrs
    PROVE  /\ Known(reg')
           /\ Called({"set_power_mode"}) \/ KeepsMode(reg, reg')
           /\ Called(NvmCalls) => Actual(reg') = Actual(reg)
<1>1. ModeIsRight
  BY SingleFromKnown
<1>2. Called({"set_osr_odr"}) => last'.arg.odr # ODR_05_HZ
  <2>1. SetMode \/ SetIir \/ SetFifo \/ SetOor \/ SetInterrupt \/ SelectSources
        \/ ReadNvm \/ WriteNvm \/ ReadData => ~Called({"set_osr_odr"})
    BY Calls DEF Called
  <2>2. SetOsrOdr => last'.arg.odr \in Odrs
    BY Calls
  <2> QED BY <2>1, <2>2 DEF SingleCall
<1>3. \A m \in PowerModes : m # "UNDEFINED"
  BY DEF PowerModes, Measuring
<1>4. Called({"set_power_mode"}) => ~Called(NvmCalls)
  BY DEF Called, NvmCalls
<1> QED BY <1>1, <1>2, <1>3, <1>4 DEF ModeIsRight, KeepsMode, Known

\* Each function that takes the sensor to standby mode to write a setting
\* leaves it, when it succeeds, in the mode before, or in standby instead of deep
\* standby, which the setting could undo. Not asked for: 5 Hz.
THEOREM ModeKept ==
    ASSUME ODR_05_HZ \notin Odrs
    PROVE  Spec => ConfigurationKeepsMode
<1> DEFINE P == (Known(reg) /\ Succeeded
                 /\ Called({"set_osr_odr", "set_iir", "set_fifo", "set_oor", "nvm_read",
                            "nvm_write"})) =>
                  \/ Actual(reg') = Actual(reg)
                  \/ /\ Actual(reg) = "DEEP_STANDBY" /\ Actual(reg') = "STANDBY"
                     /\ ~Called({"nvm_read", "nvm_write"})
<1>1. TypeInv /\ [Next]_vars => [P]_vars
  <2> SUFFICES ASSUME TypeInv, Next, Known(reg), Succeeded,
                      Called({"set_osr_odr", "set_iir", "set_fifo", "set_oor", "nvm_read",
                              "nvm_write"})
               PROVE  P
    OBVIOUS
  <2>1. CASE SingleCall
    BY <2>1, ModeAfterCall DEF KeepsMode, NvmCalls, Called
  <2>2. CASE Measured
    BY <2>2, MeasuredEnds DEF TypeInv, NoCall, Called
  <2>3. CASE Reset \/ FirmwareInit \/ FifoSetup
    BY <2>3, NotSingle DEF Called
  <2> QED BY <2>1, <2>2, <2>3, Steps
<1> QED BY <1>1, TypeAlways, PTL DEF Spec, ConfigurationKeepsMode

\* From a mode bmp5_get_power_mode can tell, no call that succeeds, of a single
\* function or of several, and no end of a measurement leads to one it cannot: it
\* reports the mode the sensor is in. Not asked for: 5 Hz.
THEOREM ModeReported ==
    ASSUME ODR_05_HZ \notin Odrs, Stack # {}
    PROVE  Spec => PowerModeIsKnown
<1> DEFINE P == (Known(reg) /\ Succeeded) => Reported(reg') = {Actual(reg')}
<1>1. TypeInv /\ [Next]_vars => [P]_vars
  <2> SUFFICES ASSUME TypeInv, Next, Known(reg), Succeeded
               PROVE  Reported(reg') = {Actual(reg')}
    OBVIOUS
  <2>1. TypedState /\ Memory(nvm) /\ Registers(reg')
    BY TypeStep DEF TypeInv, TypedState
  <2>2. Known(reg')
    <3>1. CASE SingleCall
      BY <3>1, ModeAfterCall
    <3>2. CASE Measured
      BY <2>1, <3>2, MeasuredEnds DEF Known, Actual
    <3>3. CASE Reset
      <4>1. PICK d, e : /\ Ends("soft_reset", 0, e, Faulty(e))
                        /\ e.rslt = "OK" => Actual(reg') = "DEEP_STANDBY"
        BY <2>1, <3>3, ResetAnswers
      <4> QED BY <4>1, Ended DEF Succeeded, Known
    <3>4. CASE FirmwareInit
      <4>1. PICK d, e : /\ Ends("init", 0, e, Faulty(e))
                        /\ e.rslt = "OK" => Actual(reg') = "NORMAL"
        BY <3>4, FirmwareInitAnswers
      <4> QED BY <4>1, Ended DEF Succeeded, Known
    <3>5. CASE FifoSetup
      <4>1. PICK d, e, sel, failed : /\ Ends("fifo_setup", sel, e, failed)
                                     /\ e.rslt = "OK" => Actual(reg') = "NORMAL"
        BY <2>1, <3>5, FifoSetupAnswers
      <4> QED BY <4>1, Ended DEF Succeeded, Known
    <3> QED BY <3>1, <3>2, <3>3, <3>4, <3>5, Steps
  <2> QED BY <2>1, <2>2, ReportedKnown
<1> QED BY <1>1, TypeAlways, PTL DEF Spec, PowerModeIsKnown

\* The data of the get functions, in a sensor with registers r.
LEMMA GetterData ==
    ASSUME NEW r, Registers(r), NEW m, Memory(m), NEW s
    PROVE  LET v == SoundView(r, m, s)
           IN  /\ GetOsrOdrPressConfig(v).data = [osr |-> r.osr, odr |-> r.odr]
               /\ GetIirConfig(v).data = [shdw |-> r.shdw, iir |-> r.iir]
               /\ GetFifoConfiguration(v).data =
                    [fifo_mode |-> r.fifo_mode, threshold |-> r.threshold,
                     frame_sel |-> r.frame_sel, fifo_iir |-> r.fifo_iir]
               /\ GetOorConfiguration(v).data =
                    [oor_iir |-> r.oor_iir, range |-> r.oor_range, cnt_lim |-> r.cnt_lim,
                     thr |-> r.oor_lsb + (2^8 * r.oor_msb) + (2^16 * r.oor_xmsb)]
<1> DEFINE v == SoundView(r, m, s)
           a == GetRegs(v)
           b == GetRegs(a)
           c == GetRegs(b)
<1>1. Viewed(v) /\ v.reg = r /\ v.rslt = "OK" /\ v.left = Plenty
  BY SoundViewed
<1> HIDE DEF v
<1>2. \A e : Viewed(e) /\ e.rslt = "OK" /\ e.left # 0 =>
        /\ Viewed(GetRegs(e)) /\ GetRegs(e).rslt = "OK" /\ GetRegs(e).reg = e.reg
        /\ GetRegs(e).left = e.left - 1
  <2>1. \A e : Viewed(e) /\ e.rslt = "OK" /\ e.left # 0 =>
          GetRegs(e).rslt = "OK" /\ GetRegs(e).left = e.left - 1
    BY DEF GetRegs, Viewed, ViewFields
  <2> QED BY <2>1, GetRegsReads DEF Reads
<1>3. Viewed(a) /\ a.rslt = "OK" /\ a.reg = r /\ a.left = Plenty - 1
  BY <1>1, <1>2 DEF Plenty
<1> HIDE DEF a
<1>4. Viewed(b) /\ b.rslt = "OK" /\ b.reg = r /\ b.left = Plenty - 2
  BY <1>2, <1>3 DEF Plenty
<1> HIDE DEF b
<1>5. Viewed(c) /\ c.rslt = "OK" /\ c.reg = r
  BY <1>2, <1>4 DEF Plenty
<1> HIDE DEF c
<1>6. \A e, x : Viewed(e) /\ e.rslt = "OK" => Data(e, x).data = x
  BY OutReads
<1>7. GetOsrOdrPressConfig(v).data = [osr |-> r.osr, odr |-> r.odr]
  BY <1>3, <1>6 DEF GetOsrOdrPressConfig, a
<1>8. GetIirConfig(v).data = [shdw |-> r.shdw, iir |-> r.iir]
  BY <1>3, <1>6 DEF GetIirConfig, a
<1>9. GetFifoConfiguration(v).data =
        [fifo_mode |-> r.fifo_mode, threshold |-> r.threshold,
         frame_sel |-> r.frame_sel, fifo_iir |-> r.fifo_iir]
  BY <1>5, <1>6 DEF GetFifoConfiguration, a, b, c
<1>10. GetOorConfiguration(v).data =
         [oor_iir |-> r.oor_iir, range |-> r.oor_range, cnt_lim |-> r.cnt_lim,
          thr |-> r.oor_lsb + (2^8 * r.oor_msb) + (2^16 * r.oor_xmsb)]
  BY <1>4, <1>6 DEF GetOorConfiguration, a, b
<1> QED BY <1>7, <1>8, <1>9, <1>10 DEF v

\* The three registers of the threshold hold it.
LEMMA ThresholdRead ==
    ASSUME NEW thr \in Unsigned(17)
    PROVE  (thr % 2^8) + (2^8 * ((thr \div 2^8) % 2^8)) + (2^16 * (thr \div 2^16)) = thr
<1>1. thr \in Nat
  BY SeventeenBits
<1>2. \A n \in Nat : n = 256 * 256 =>
        (thr % 256) + (256 * ((thr \div 256) % 256)) + (n * (thr \div n)) = thr
  BY <1>1
<1>3. 2^16 \in Nat /\ 2^16 = 256 * 256 /\ 2^8 = 256
  BY Powers
<1> QED BY <1>2, <1>3

\* What a set function has just accepted.
LEMMA Accepted ==
    ASSUME TypeInv, SingleCall, Succeeded,
           Called({"set_osr_odr", "set_iir", "set_fifo", "set_oor"})
    PROVE  Registers(reg') /\ Memory(nvm')
           /\ \A f \in DOMAIN AskedNow \cap Settings : reg'[f] = AskedNow[f]
<1>1. PICK d, e, w : Answers(d, e, w)
  BY SingleAnswers DEF TypeInv
<1>2. ~Called(NvmCalls)
  BY DEF Called, NvmCalls
<1>3. /\ Ends(last'.fn, last'.arg, e, Faulty(e)) /\ Writes(d, e, w, Modes, Plenty)
      /\ w = AskedNow /\ (e.rslt = "OK" => Has(e, w))
  BY <1>1, <1>2 DEF Answers
<1>4. reg' = e.reg /\ nvm' = e.nvm /\ e.rslt = "OK" /\ Viewed(e)
  BY <1>3, Ended DEF Succeeded, Writes
<1> QED BY <1>3, <1>4 DEF Has, Viewed

LEMMA ReadBackStep == TypeInv /\ SetIsReadBack /\ [Next]_vars => SetIsReadBack'
<1> DEFINE Setters == {"set_osr_odr", "set_iir", "set_fifo", "set_oor"}
           view == SoundView(reg', nvm', "STANDBY")
           arg == last'.arg
           u == AskedNow
           thr == reg'.oor_lsb + (2^8 * reg'.oor_msb) + (2^16 * reg'.oor_xmsb)
<1> SUFFICES ASSUME TypeInv, SetIsReadBack, [Next]_vars PROVE SetIsReadBack'
  OBVIOUS
<1>1. (Called(Setters) /\ Succeeded /\ ~(last'.fn = "set_fifo" /\ arg.frame_sel = 0)
         => Getter(last'.fn, view) = arg) => SetIsReadBack'
  BY DEF SetIsReadBack, View, SoundView, Called, Succeeded
<1>2. CASE SingleCall
  <2> SUFFICES ASSUME Succeeded, Called(Setters),
                      ~(last'.fn = "set_fifo" /\ arg.frame_sel = 0)
               PROVE  Getter(last'.fn, view) = arg
    BY <1>1
  <2>1. /\ Registers(reg') /\ Memory(nvm')
        /\ \A f \in DOMAIN u \cap Settings : reg'[f] = u[f]
    BY <1>2, Accepted
  <2>2. /\ GetOsrOdrPressConfig(view).data = [osr |-> reg'.osr, odr |-> reg'.odr]
        /\ GetIirConfig(view).data = [shdw |-> reg'.shdw, iir |-> reg'.iir]
        /\ GetFifoConfiguration(view).data =
             [fifo_mode |-> reg'.fifo_mode, threshold |-> reg'.threshold,
              frame_sel |-> reg'.frame_sel, fifo_iir |-> reg'.fifo_iir]
        /\ GetOorConfiguration(view).data =
             [oor_iir |-> reg'.oor_iir, range |-> reg'.oor_range, cnt_lim |-> reg'.cnt_lim,
              thr |-> thr]
    BY <2>1, GetterData
  <2>3. {"osr", "odr", "shdw", "iir", "fifo_mode", "threshold", "frame_sel", "fifo_iir",
         "oor_iir", "cnt_lim", "oor_range", "oor_lsb", "oor_msb", "oor_xmsb"} \subseteq Settings
    BY SettingNames, FieldNames
  <2> HIDE DEF view, u
  <2>4. CASE last'.fn = "set_osr_odr"
    <3>1. arg \in [osr : Osrs, odr : Odrs] /\ u = arg
      BY <1>2, <2>4, Calls, AskedFor DEF SingleCall, u, AskedNow
    <3>2. Getter(last'.fn, view) = [osr |-> reg'.osr, odr |-> reg'.odr]
      BY <2>2, <2>4 DEF Getter
    <3> QED BY <2>1, <2>3, <3>1, <3>2
  <2>5. CASE last'.fn = "set_iir"
    <3>1. arg \in [shdw : {0}, iir : 0..1] /\ u = arg
      BY <1>2, <2>5, Calls, AskedFor DEF SingleCall, u, AskedNow
    <3>2. Getter(last'.fn, view) = [shdw |-> reg'.shdw, iir |-> reg'.iir]
      BY <2>2, <2>5 DEF Getter
    <3> QED BY <2>1, <2>3, <3>1, <3>2
  <2>6. CASE last'.fn = "set_fifo"
    <3>1. /\ arg \in [fifo_mode : {0}, threshold : Thresholds, frame_sel : FrameSels,
                      fifo_iir : {1}]
          /\ u = arg
      BY <1>2, <2>6, Calls, AskedFor DEF SingleCall, u, AskedNow
    <3>2. Getter(last'.fn, view) =
            [fifo_mode |-> reg'.fifo_mode, threshold |-> reg'.threshold,
             frame_sel |-> reg'.frame_sel, fifo_iir |-> reg'.fifo_iir]
      BY <2>2, <2>6 DEF Getter
    <3> QED BY <2>1, <2>3, <3>1, <3>2
  <2>7. CASE last'.fn = "set_oor"
    <3>1. /\ arg \in [thr : OorThresholds, range : {1}, cnt_lim : {1}, oor_iir : {1}]
          /\ u = OorAsked(arg)
      BY <1>2, <2>7, Calls, AskedFor DEF SingleCall, u, AskedNow
    <3>2. Getter(last'.fn, view) =
            [oor_iir |-> reg'.oor_iir, range |-> reg'.oor_range, cnt_lim |-> reg'.cnt_lim,
             thr |-> thr]
      BY <2>2, <2>7 DEF Getter
    <3> DEFINE low == arg.thr % 2^8
               mid == (arg.thr \div 2^8) % 2^8
               top == arg.thr \div 2^16
    <3>3. u = [oor_iir |-> arg.oor_iir, cnt_lim |-> arg.cnt_lim, oor_range |-> arg.range,
               oor_lsb |-> low, oor_msb |-> mid, oor_xmsb |-> top]
      BY <3>1 DEF OorAsked
    <3>4. low + (2^8 * mid) + (2^16 * top) = arg.thr
      BY <3>1, Bmp5Assumption, ThresholdRead
    <3> HIDE DEF low, mid, top
    <3>5. /\ reg'.oor_iir = arg.oor_iir /\ reg'.cnt_lim = arg.cnt_lim
          /\ reg'.oor_range = arg.range
          /\ reg'.oor_lsb = low /\ reg'.oor_msb = mid /\ reg'.oor_xmsb = top
      BY <2>1, <2>3, <3>3
    <3>6. thr = arg.thr
      BY <3>4, <3>5
    <3> HIDE DEF thr
    <3> QED BY <3>1, <3>2, <3>5, <3>6
  <2> QED BY <2>4, <2>5, <2>6, <2>7 DEF Called
<1> HIDE DEF view
<1>3. CASE Reset \/ FirmwareInit \/ FifoSetup
  BY <1>1, <1>3, NotSingle DEF Called
<1>4. CASE Measured
  BY <1>1, <1>4, MeasuredEnds DEF TypeInv, NoCall, Called
<1>5. CASE UNCHANGED vars
  BY <1>5 DEF vars, SetIsReadBack, View
<1> QED BY <1>2, <1>3, <1>4, <1>5, Steps

\* What a set function accepted, the get function returns from the registers:
\* the out-of-range threshold with its 17 bits in three registers, too.
THEOREM ReadBack == Spec => []SetIsReadBack
<1>1. Init => SetIsReadBack
  BY DEF Init, NoCall, SetIsReadBack
<1> QED BY <1>1, ReadBackStep, TypeAlways, PTL DEF Spec

\* The sign of a sample in 24 bits.
LEMMA SignRestored ==
    ASSUME NEW t \in Samples
    PROVE  Signed24(t % 2^24) = t
<1>1. ASSUME NEW h \in Nat, -h <= t, t < h, t \in Int
      PROVE  t % (2 * h) = IF t >= 0 THEN t ELSE t + (2 * h)
  <2>1. \A n \in Nat : t >= 0 /\ t < n => t % n = t
    BY <1>1
  <2>2. \A n \in Nat : t < 0 /\ t + n >= 0 => t % n = t + n
    BY <1>1
  <2> QED BY <1>1, <2>1, <2>2
<1>2. 2^24 = 2 * 2^23 /\ 2^23 \in Nat
  OBVIOUS
<1> DEFINE h == 2^23
           raw == t % 2^24
<1>3. h \in Nat /\ 2^24 = 2 * h
  BY <1>2
<1>4. Samples \subseteq -h..(h - 1)
  BY SamplesAssumption, Zenon
<1>5. Signed24(raw) = IF raw >= h THEN raw - (2 * h) ELSE raw
  BY <1>3 DEF Signed24
<1> HIDE DEF h
<1>6. raw = IF t >= 0 THEN t ELSE t + (2 * h)
  <2>1. t \in Int /\ -h <= t /\ t < h
    BY <1>3, <1>4
  <2> QED BY <1>1, <1>3, <2>1
<1> HIDE DEF raw
<1> QED BY <1>3, <1>4, <1>5, <1>6 DEF raw

\* A temperature that was read is the one the sensor measured, above and
\* below zero, and no pressure is reported while it is not measured.
THEOREM SamplesAreRead ==
    Spec => [][Called({"get_sensor_data"}) /\ Succeeded =>
                 /\ last'.data.temperature = last'.arg.t
                 /\ ~last'.arg.press_en => last'.data.pressure = 0]_vars
<1> DEFINE P == Called({"get_sensor_data"}) /\ Succeeded =>
                  /\ last'.data.temperature = last'.arg.t
                  /\ ~last'.arg.press_en => last'.data.pressure = 0
<1>1. TypeInv /\ [Next]_vars => [P]_vars
  <2> SUFFICES ASSUME TypeInv, Next, Called({"get_sensor_data"}), Succeeded PROVE P
    OBVIOUS
  <2>1. CASE ReadData
    <3> DEFINE flags == BOOLEAN
               word(t) == [t |-> t % 2^24, p |-> 100000]
    <3>1. PICK d \in Attempts, t \in Samples, press_en \in flags :
            Returns("get_sensor_data", [t |-> t, press_en |-> press_en],
                    GetSensorData(d, press_en, word(t)))
      BY <2>1 DEF ReadData
    <3> DEFINE g == GetRegs(d)
               sample == [temperature |-> Signed24(word(t).t),
                          pressure |-> IF press_en THEN word(t).p ELSE 0]
               e == Data(g, sample)
               arg == [t |-> t, press_en |-> press_en]
    <3>2. Returns("get_sensor_data", arg, e)
      BY <3>1 DEF GetSensorData
    <3>3. sample.temperature = t /\ (~press_en => sample.pressure = 0)
      BY SignRestored
    <3>4. arg.t = t /\ arg.press_en = press_en
      OBVIOUS
    <3>5. Viewed(g)
      BY CallBegins, GetRegsReads DEF TypeInv, Begun, Reads
    <3> HIDE DEF flags, word, g, sample, arg
    <3>6. e.rslt = "OK" => e.data = sample
      BY <3>5 DEF Data, Viewed, ViewFields
    <3> HIDE DEF e
    <3>7. last'.arg = arg /\ last'.rslt = e.rslt /\ last'.data = e.data
      BY <3>2, Returned
    <3>8. last'.data = sample /\ last'.arg = arg
      BY <3>6, <3>7 DEF Succeeded
    <3> QED BY <3>3, <3>4, <3>8
  <2>2. CASE SingleCall /\ ~ReadData
    BY <2>2, Calls DEF SingleCall, Called
  <2>3. CASE Measured
    BY <2>3, MeasuredEnds DEF TypeInv, NoCall, Called
  <2>4. CASE Reset \/ FirmwareInit \/ FifoSetup
    BY <2>4, NotSingle DEF Called
  <2> QED BY <2>1, <2>2, <2>3, <2>4, Steps
<1> QED BY <1>1, TypeAlways, PTL DEF Spec
=============================================================================
