-------------------------- MODULE Bmp5Setup_proofs --------------------------
(***************************************************************************)
(* The set-up of the FIFO examples succeeds when nothing fails under it:   *)
(* which error codes the functions it calls can return, and what it leaves *)
(* in the registers.                                                       *)
(***************************************************************************)
EXTENDS Bmp5_proofs

\* A call goes through, or fails on the bus: it has no error of its own.
Goes(d, e) == DOMAIN e = ViewFields /\ e.rslt \in {d.rslt, "COM_FAIL"}

LEMMA GoesThen ==
    ASSUME NEW d, NEW e, NEW f, Goes(d, e), Goes(e, f)
    PROVE  Goes(d, f)
  BY DEF Goes

LEMMA AccessGoes ==
    ASSUME NEW d, DOMAIN d = ViewFields
    PROVE  /\ Goes(d, GetRegs(d)) /\ GetRegs(d).powermode = d.powermode
           /\ \A u : Goes(d, SetRegs(d, u)) /\ SetRegs(d, u).powermode = d.powermode
           /\ \A u : Goes(d, Update(d, u)) /\ Update(d, u).powermode = d.powermode
           /\ \A x : Goes(d, Out(d, x)) /\ Goes(d, Data(d, x))
<1>1. ASSUME NEW y, DOMAIN y = ViewFields
      PROVE  Goes(y, GetRegs(y)) /\ GetRegs(y).powermode = y.powermode
  BY <1>1 DEF Goes, GetRegs, ViewFields
<1>2. ASSUME NEW y, DOMAIN y = ViewFields, NEW u
      PROVE  Goes(y, SetRegs(y, u)) /\ SetRegs(y, u).powermode = y.powermode
  <2> DEFINE g == GetRegs(y)
             hot == y.reg.mode # "STANDBY" /\ DOMAIN u \cap StandbyOnly # {}
             f == [g EXCEPT !.reg = With(@, u), !.hot = @ \/ hot]
  <2>1. SetRegs(y, u) \in {f, g}
    BY DEF SetRegs
  <2>2. Goes(y, g) /\ g.powermode = y.powermode
    BY <1>1, <1>2
  <2> HIDE DEF g, hot
  <2>3. DOMAIN f = ViewFields /\ f.rslt = g.rslt /\ f.powermode = g.powermode
    BY <2>2 DEF Goes, ViewFields
  <2> QED BY <2>1, <2>2, <2>3 DEF Goes
<1>3. \A u : Goes(d, Update(d, u)) /\ Update(d, u).powermode = d.powermode
  BY <1>1, <1>2 DEF Update, Goes
<1>4. \A x : Goes(d, Out(d, x)) /\ Goes(d, Data(d, x))
  BY DEF Goes, Out, Data, ViewFields
<1> QED BY <1>1, <1>2, <1>3, <1>4

LEMMA SetPowerModeGoes ==
    ASSUME NEW d, DOMAIN d = ViewFields, NEW m \in PowerModes
    PROVE  Goes(d, GetPowerMode(d)) /\ Goes(d, SetPowerMode(d, m))
<1>1. ASSUME NEW y, DOMAIN y = ViewFields
      PROVE  Goes(y, GetPowerMode(y))
  <2> DEFINE e == GetRegs(y)
             f == GetRegs(e)
             g == GetRegs(f)
             h == GetRegs(g)
  <2>1. Goes(y, e)
    BY <1>1, AccessGoes
  <2> DEFINE deep == h.reg.odr > ODR_05_HZ /\ h.reg.frame_sel = 0 /\ h.reg.iir = BYPASS
             asked == e.reg.mode = "STANDBY" /\ ~e.reg.deep_dis
  <2>2. \E x : GetPowerMode(y) \in {Out(e, x), Out(h, x)}
    <3>1. CheckDeepstandbyMode(e) = IF deep THEN Out(h, "DEEP_STANDBY") ELSE Out(h, e.stack)
      BY DEF CheckDeepstandbyMode
    <3>2. GetPowerMode(y) = IF asked THEN CheckDeepstandbyMode(e) ELSE Out(e, e.reg.mode)
      BY DEF GetPowerMode
    <3> HIDE DEF e, h, deep, asked
    <3> QED BY <3>1, <3>2
  <2> HIDE DEF e
  <2>3. Goes(e, f)
    BY <2>1, AccessGoes DEF Goes
  <2> HIDE DEF f
  <2>4. Goes(f, g)
    BY <2>3, AccessGoes DEF Goes
  <2> HIDE DEF g
  <2>5. Goes(g, h)
    BY <2>4, AccessGoes DEF Goes
  <2> HIDE DEF h
  <2>6. \A x : Goes(y, Out(e, x)) /\ Goes(y, Out(h, x))
    BY <2>1, <2>3, <2>4, <2>5, AccessGoes DEF Goes
  <2> QED BY <2>2, <2>6
<1>2. ASSUME NEW y, DOMAIN y = ViewFields
      PROVE  Goes(y, FromAnyMode(y))
  BY <1>2, AccessGoes DEF FromAnyMode, WritePowerMode, Goes
<1>3. ASSUME NEW y, DOMAIN y = ViewFields
      PROVE  Goes(y, SetDeepStandbyMode(y))
  <2> DEFINE o == Update(y, [deep_dis |-> FALSE, odr |-> ODR_01_HZ])
             i == Update(o, [iir |-> BYPASS])
             e == Update(i, [frame_sel |-> 0])
  <2>1. Goes(y, o)
    BY <1>3, AccessGoes
  <2>2. SetDeepStandbyMode(y) = e
    BY DEF SetDeepStandbyMode
  <2> HIDE DEF o
  <2>3. Goes(o, i)
    BY <2>1, AccessGoes DEF Goes
  <2> HIDE DEF i
  <2>4. Goes(i, e)
    BY <2>3, AccessGoes DEF Goes
  <2> QED BY <2>1, <2>2, <2>3, <2>4 DEF Goes
<1>4. ASSUME NEW y, DOMAIN y = ViewFields
      PROVE  Goes(y, FromStandby(y, m))
  <2>1. FromStandby(y, m) \in {SetDeepStandbyMode(y), y, WritePowerMode(y, m)}
    BY DEF FromStandby, Measuring, PowerModes
  <2>2. Goes(y, y) /\ Goes(y, WritePowerMode(y, m))
    BY <1>4, AccessGoes DEF WritePowerMode, Goes
  <2> QED BY <1>3, <1>4, <2>1, <2>2
<1> DEFINE g == GetPowerMode(d)
           s == FromAnyMode(g)
<1>5. Goes(d, g)
  BY <1>1
<1> HIDE DEF g
<1>6. Goes(g, s)
  BY <1>2, <1>5 DEF Goes
<1> HIDE DEF s
<1>7. Goes(s, FromStandby(s, m))
  BY <1>4, <1>6 DEF Goes
<1> QED BY <1>5, <1>6, <1>7 DEF SetPowerMode, Goes, g, s

\* What bmp5_get_power_mode answers next is one of the modes.
Telling(d) == d.rslt = "OK" => Known(d.reg) \/ d.stack \in PowerModes

LEMMA StaysTelling ==
    ASSUME NEW d, NEW e, NEW w, NEW M, NEW k, Telling(d), Does(d, e, w, M, k),
           e.rslt = "OK" /\ Known(d.reg) => Known(e.reg)
    PROVE  Telling(e)
  BY DEF Telling, Does, Writes

\* From standby mode set by bmp5_set_power_mode the next answer is a mode,
\* whatever the mode and the stack were before.
LEMMA StandbyTells ==
    ASSUME NEW d, Viewed(d)
    PROVE  Telling(SetPowerMode(d, "STANDBY"))
<1> DEFINE g == GetPowerMode(d)
           s == SetPowerMode(d, "STANDBY")
<1>1. /\ Does(d, s, <<>>, {}, 12)
      /\ s.rslt = "OK" => s.reg.mode = "STANDBY" /\ (Known(d.reg) => s.reg.deep_dis)
  BY SetPowerModeDoes DEF Measuring
<1>2. s = IF g.powermode # "STANDBY" THEN WritePowerMode(g, "STANDBY") ELSE g
  <2>1. \A y : FromStandby(y, "STANDBY") = y
    BY DEF FromStandby, Measuring
  <2>2. s = FromAnyMode(g)
    BY <2>1 DEF SetPowerMode
  <2> HIDE DEF g, s
  <2> QED BY <2>2 DEF FromAnyMode
<1>3. /\ Reads(d, g, 4)
      /\ g.rslt = "OK" => g.powermode = (IF Known(d.reg) THEN Actual(d.reg) ELSE d.stack)
  BY GetPowerModeReads
<1> HIDE DEF g, s
<1> SUFFICES ASSUME s.rslt = "OK", ~Known(d.reg) PROVE Known(s.reg) \/ s.stack \in PowerModes
  <2>1. s.rslt = "OK" /\ Known(d.reg) => Known(s.reg)
    <3>1. s.rslt = "OK" /\ Known(d.reg) => s.reg.mode = "STANDBY" /\ s.reg.deep_dis
      BY <1>1
    <3> QED BY <3>1 DEF Known, Actual
  <2> QED BY <2>1 DEF Telling, s
<1>4. CASE g.powermode # "STANDBY"
  <2>1. Viewed(g) /\ s = WritePowerMode(g, "STANDBY")
    BY <1>2, <1>3, <1>4 DEF Reads
  <2>2. s.reg.mode = "STANDBY" /\ s.reg.deep_dis
    BY <2>1, WritePowerModeDoes
  <2> QED BY <2>2 DEF Known, Actual
<1>5. CASE g.powermode = "STANDBY"
  <2>1. s = g /\ g.rslt = "OK" /\ s.stack = d.stack
    BY <1>2, <1>3, <1>5 DEF Reads
  <2>2. d.stack = "STANDBY"
    BY <1>3, <1>5, <2>1
  <2> QED BY <2>1, <2>2 DEF PowerModes
<1> QED BY <1>4, <1>5

LEMMA ActualMode == ASSUME NEW r, Registers(r), Known(r) PROVE Actual(r) \in PowerModes
  BY FieldKinds DEF Known, Actual, PowerModes

LEMMA SetStandbyModeGoes ==
    ASSUME NEW d, Viewed(d)
    PROVE  Goes(d, SetStandbyMode(d))
<1> DEFINE g == GetPowerMode(d)
<1>1. "STANDBY" \in PowerModes /\ DOMAIN d = ViewFields
  BY DEF PowerModes, Viewed
<1>2. Goes(d, g)
  BY <1>1, SetPowerModeGoes
<1> HIDE DEF g
<1>3. Goes(g, SetPowerMode(g, "STANDBY"))
  BY <1>1, <1>2, SetPowerModeGoes DEF Goes
<1> QED BY <1>2, <1>3, GoesThen DEF SetStandbyMode, g

LEMMA EnterStandbyGoes ==
    ASSUME NEW d, Viewed(d), Telling(d)
    PROVE  LET e == EnterStandby(d)
           IN  Goes(d, e) /\ (e.rslt = "OK" => e.powermode \in PowerModes)
<1> DEFINE g == GetPowerMode(d)
           s == IF g.powermode # "STANDBY" THEN SetPowerMode(g, "STANDBY") ELSE g
           e == [s EXCEPT !.powermode = g.powermode]
<1>1. "STANDBY" \in PowerModes /\ DOMAIN d = ViewFields
  BY DEF PowerModes, Viewed
<1>2. Goes(d, g)
  BY <1>1, SetPowerModeGoes
<1>3. EnterStandby(d) = e
  BY DEF EnterStandby
<1> HIDE DEF g
<1>4. Goes(g, SetPowerMode(g, "STANDBY"))
  BY <1>1, <1>2, SetPowerModeGoes DEF Goes
<1>5. Goes(d, s)
  BY <1>2, <1>4, GoesThen
<1> HIDE DEF s
<1>6. Goes(d, e)
  BY <1>5 DEF Goes, ViewFields
<1>7. /\ Does(d, EnterStandby(d), <<>>, {}, 16)
      /\ EnterStandby(d).rslt = "OK" =>
           EnterStandby(d).powermode = (IF Known(d.reg) THEN Actual(d.reg) ELSE d.stack)
  BY EnterStandbyDoes
<1> HIDE DEF e
<1>8. e.rslt = "OK" => e.powermode \in PowerModes
  BY <1>3, <1>7, ActualMode DEF Telling, Does, Writes, Viewed
<1> QED BY <1>3, <1>6, <1>8

\* Writing protected settings in standby mode has no errors of its own.
LEMMA InStandbyGoes ==
    ASSUME NEW d, Viewed(d), Telling(d), NEW c,
           NEW s, s = IF c THEN SetStandbyMode(d) ELSE d,
           NEW p, Goes(EnterStandby(s), p), p.powermode = EnterStandby(s).powermode
    PROVE  Goes(d, LeaveStandby(p))
<1>1. Goes(d, s)
  BY SetStandbyModeGoes DEF Goes, Viewed
<1>2. Viewed(s) /\ Telling(s)
  <2>1. /\ Does(d, s, <<>>, {}, 16) /\ Viewed(s)
        /\ s.rslt = "OK" /\ Known(d.reg) => Known(s.reg)
    BY StandbyFirst
  <2> QED BY <2>1, StaysTelling
<1> DEFINE g == EnterStandby(s)
<1>3. Goes(s, g) /\ (g.rslt = "OK" => g.powermode \in PowerModes)
  BY <1>2, EnterStandbyGoes
<1> HIDE DEF g
<1>4. Goes(g, p) /\ (p.rslt = "OK" => p.powermode \in PowerModes)
  BY <1>3 DEF g, Goes
<1>5. Goes(p, LeaveStandby(p))
  <2>1. CASE p.rslt = "OK"
    BY <1>4, <2>1, SetPowerModeGoes DEF LeaveStandby, Goes
  <2>2. CASE p.rslt # "OK"
    BY <1>4, <2>2, SetPowerModeStuck DEF Goes
  <2> QED BY <2>1, <2>2
<1> QED BY <1>1, <1>3, <1>4, <1>5 DEF Goes

LEMMA SetOsrOdrGoes ==
    ASSUME NEW d, Viewed(d), NEW cfg
    PROVE  Goes(d, SetOsrOdrPressConfig(d, cfg))
<1> DEFINE s == IF cfg.odr < ODR_05_HZ THEN SetStandbyMode(d) ELSE d
           g == GetRegs(s)
           o == SetRegs(g, [osr |-> cfg.osr])
           e == SetRegs(o, [odr |-> cfg.odr])
<1>1. Goes(d, s)
  BY SetStandbyModeGoes DEF Goes, Viewed
<1> HIDE DEF s
<1>2. Goes(s, g)
  BY <1>1, AccessGoes DEF Goes
<1> HIDE DEF g
<1>3. Goes(g, o)
  BY <1>2, AccessGoes DEF Goes
<1> HIDE DEF o
<1>4. Goes(o, e)
  BY <1>3, AccessGoes DEF Goes
<1> HIDE DEF e
<1>5. Goes(d, e)
  BY <1>1, <1>2, <1>3, <1>4, GoesThen
<1> QED BY <1>5 DEF SetOsrOdrPressConfig, s, g, o, e

LEMMA SetIirGoes ==
    ASSUME NEW d, Viewed(d), Telling(d), NEW cfg
    PROVE  Goes(d, SetIirConfig(d, cfg))
<1> DEFINE s == IF cfg.iir # BYPASS THEN SetStandbyMode(d) ELSE d
           g == EnterStandby(s)
           o == Update(g, [shdw |-> cfg.shdw])
           p == SetRegs(o, [iir |-> cfg.iir])
<1>1. Viewed(s)
  BY StandbyFirst
<1>2. Viewed(g)
  BY <1>1, Parks
<1>3. SetIirConfig(d, cfg) = LeaveStandby(p)
  BY DEF SetIirConfig, WriteIirConfig
<1> HIDE DEF g
<1>4. Goes(g, o) /\ o.powermode = g.powermode
  BY <1>2, AccessGoes DEF Viewed
<1> HIDE DEF o
<1>5. Goes(o, p) /\ p.powermode = o.powermode
  BY <1>4, AccessGoes DEF Goes
<1> HIDE DEF p
<1>6. Goes(g, p)
  BY <1>4, <1>5, GoesThen
<1> QED BY <1>3, <1>4, <1>5, <1>6, InStandbyGoes DEF g

\* The threshold is the only thing bmp5_set_fifo_configuration complains of.
LEMMA SetFifoGoes ==
    ASSUME NEW d, Viewed(d), Telling(d), NEW fifo, fifo.frame_sel # 0, fifo.threshold \in Nat,
           fifo.threshold <= MaxThreshold(fifo.frame_sel)
    PROVE  Goes(d, SetFifoConfiguration(d, fifo))
<1> DEFINE s == IF fifo.frame_sel # 0 THEN SetStandbyMode(d) ELSE d
           g == EnterStandby(s)
           p == Update(g, [fifo_iir |-> fifo.fifo_iir])
           l == LeaveStandby(p)
           r == GetRegs(l)
           x == SetRegs(r, [fifo_mode |-> fifo.fifo_mode, threshold |-> fifo.threshold])
           e == Update(x, [frame_sel |-> fifo.frame_sel])
<1>1. SetFifoConfiguration(d, fifo) = e
  <2>1. ~(fifo.threshold > MaxThreshold(fifo.frame_sel))
    BY DEF MaxThreshold
  <2>2. SetFifoIirConfig(s, fifo.fifo_iir) = l
    BY DEF SetFifoIirConfig
  <2> HIDE DEF l, s
  <2>3. SetFifoThreshold(r, fifo) = fifo /\ WriteFifo(r, fifo) = x
    BY <2>1 DEF SetFifoThreshold, WriteFifo
  <2> QED BY <2>2, <2>3 DEF SetFifoConfiguration, SelectFrames, s
<1>2. Viewed(s)
  BY StandbyFirst
<1>3. Viewed(g)
  BY <1>2, Parks
<1> HIDE DEF g
<1>4. Goes(g, p) /\ p.powermode = g.powermode
  BY <1>3, AccessGoes DEF Viewed
<1> HIDE DEF p
<1>5. Goes(d, l)
  BY <1>4, InStandbyGoes DEF g
<1> HIDE DEF l
<1>6. Goes(l, r)
  BY <1>5, AccessGoes DEF Goes
<1> HIDE DEF r
<1>7. Goes(r, x)
  BY <1>6, AccessGoes DEF Goes
<1> HIDE DEF x
<1>8. Goes(x, e)
  BY <1>7, AccessGoes DEF Goes
<1> HIDE DEF e
<1> QED BY <1>1, <1>5, <1>6, <1>7, <1>8, GoesThen

-----------------------------------------------------------------------------
\* The settings s are those of r with the ones of w.
Exactly(r, s, w) ==
    \A f \in Settings : s[f] = IF f \in DOMAIN w THEN w[f] ELSE r[f]

LEMMA DoneExactly ==
    ASSUME NEW d, NEW e, NEW w, NEW M, NEW k, Does(d, e, w, M, k), Has(e, w)
    PROVE  Exactly(d.reg, e.reg, w)
  BY DEF Does, Writes, Has, Exactly

LEMMA BeforeFifoArms ==
    ASSUME NEW d, Viewed(d), NEW junk
    PROVE  LET s == SetPowerMode(d, "STANDBY")
               e == BeforeFifo(d, junk)
           IN  /\ Goes(d, s) /\ Goes(s, e)
               /\ e.rslt = "OK" => Telling(e)
               /\ e.rslt = "OK" => \E r : /\ Exactly(d.reg, r, FirmwareConfig)
                                          /\ Exactly(r, e.reg, SetupIir(junk))
<1> DEFINE s == SetPowerMode(d, "STANDBY")
           g == GetOsrOdrPressConfig(s)
           o == SetOsrOdrPressConfig(g, FirmwareConfig)
           cfg == SetupIir(junk)
           i == SetIirConfig(o, cfg)
           e == GetFifoConfiguration(i)
<1>1. BeforeFifo(d, junk) = e
  BY DEF BeforeFifo
<1>2. Does(d, s, <<>>, {}, 12) /\ Telling(s)
  BY SetPowerModeDoes, StandbyTells DEF Measuring
<1>3. Goes(d, s)
  <2>1. "STANDBY" \in PowerModes /\ DOMAIN d = ViewFields
    BY DEF PowerModes, Viewed
  <2> QED BY <2>1, SetPowerModeGoes
<1>4. Viewed(s)
  BY <1>2 DEF Does, Writes
<1> HIDE DEF s
<1>5. Reads(s, g, 1) /\ Viewed(g) /\ g.reg = s.reg
  BY <1>4, GettersRead DEF Reads
<1>6. Goes(s, g)
  <2> DEFINE x == GetRegs(s)
             y == [osr |-> x.reg.osr, odr |-> x.reg.odr]
  <2>1. Goes(s, x)
    BY <1>4, AccessGoes DEF Viewed
  <2> HIDE DEF x, y
  <2>2. Goes(x, Data(x, y))
    BY <2>1, AccessGoes DEF Goes
  <2>3. g = Data(x, y)
    BY DEF GetOsrOdrPressConfig, x, y
  <2> HIDE DEF g
  <2> QED BY <2>1, <2>2, <2>3, GoesThen
<1>7. Telling(g)
  BY <1>2, <1>5 DEF Telling, Reads
<1> HIDE DEF g
<1>8. /\ FirmwareConfig.odr \in 0..31 /\ DOMAIN FirmwareConfig = {"osr", "odr"}
      /\ FirmwareConfig.odr # ODR_05_HZ
      /\ Asks(FirmwareConfig, OsrOf(FirmwareConfig)) /\ Asks(FirmwareConfig, OdrOf(FirmwareConfig))
  BY DEF FirmwareConfig, Asks, OsrOf, OdrOf, ODR_05_HZ
<1>9. /\ Does(g, o, FirmwareConfig, {}, 19)
      /\ o.rslt = "OK" => Has(o, OsrOf(FirmwareConfig)) /\ Has(o, OdrOf(FirmwareConfig))
      /\ o.rslt = "OK" /\ Known(g.reg) => KeepsMode(g.reg, o.reg)
  BY <1>5, <1>8, SetOsrOdrPressConfigDoes
<1>10. Goes(g, o)
  BY <1>5, SetOsrOdrGoes
<1> HIDE DEF o
<1>11. Viewed(o) /\ Telling(o)
  BY <1>7, <1>9, StaysTelling DEF Does, Writes, KeepsMode, Known
<1>12. DOMAIN cfg = {"shdw", "iir"} /\ Asks(cfg, ShdwOf(cfg)) /\ Asks(cfg, IirOf(cfg))
  BY DEF SetupIir, Asks, ShdwOf, IirOf
<1>13. Goes(o, i)
  BY <1>11, SetIirGoes
<1> HIDE DEF cfg
<1>14. /\ Configures(o, i, cfg, {o.stack}, 48)
       /\ i.rslt = "OK" => Has(i, ShdwOf(cfg)) /\ Has(i, IirOf(cfg))
  BY <1>11, <1>12, SetIirConfigDoes
<1> HIDE DEF i
<1>15. Viewed(i) /\ Telling(i) /\ Does(o, i, cfg, {o.stack}, 48)
  <2>1. Does(o, i, cfg, {o.stack}, 48) /\ Viewed(i)
    BY <1>14 DEF Configures, Does, Writes
  <2>2. i.rslt = "OK" /\ Known(o.reg) => Known(i.reg)
    BY <1>14 DEF Configures, KeepsMode, Known
  <2> QED BY <1>11, <2>1, <2>2, StaysTelling
<1>16. Reads(i, e, 3) /\ e.reg = i.reg
  BY <1>15, GettersRead DEF Reads
<1>17. Goes(i, e)
  <2> DEFINE x == GetRegs(i)
             y == GetRegs(x)
             z == GetRegs(y)
             v == [fifo_mode |-> z.reg.fifo_mode, threshold |-> z.reg.threshold,
                   frame_sel |-> z.reg.frame_sel, fifo_iir |-> z.reg.fifo_iir]
  <2>1. Goes(i, x)
    BY <1>15, AccessGoes DEF Viewed
  <2> HIDE DEF x
  <2>2. Goes(x, y)
    BY <2>1, AccessGoes DEF Goes
  <2> HIDE DEF y
  <2>3. Goes(y, z)
    BY <2>2, AccessGoes DEF Goes
  <2> HIDE DEF z, v
  <2>4. Goes(z, Data(z, v))
    BY <2>3, AccessGoes DEF Goes
  <2>5. e = Data(z, v)
    BY DEF GetFifoConfiguration, x, y, z, v
  <2> HIDE DEF e
  <2> QED BY <2>1, <2>2, <2>3, <2>4, <2>5, GoesThen
<1> HIDE DEF e
<1>18. Goes(s, e)
  BY <1>6, <1>10, <1>13, <1>17, GoesThen
<1>19. Telling(e)
  BY <1>15, <1>16 DEF Telling, Reads
<1>20. ASSUME e.rslt = "OK"
       PROVE  \E r : Exactly(d.reg, r, FirmwareConfig) /\ Exactly(r, e.reg, cfg)
  <2>1. i.rslt = "OK" /\ o.rslt = "OK"
    BY <1>15, <1>16, <1>20 DEF Reads, Does, Writes
  <2>2. Has(o, FirmwareConfig)
    BY <1>8, <1>9, <2>1 DEF Has, OsrOf, OdrOf
  <2>3. Has(i, cfg)
    BY <1>12, <1>14, <2>1 DEF Has, ShdwOf, IirOf
  <2>4. Exactly(g.reg, o.reg, FirmwareConfig) /\ Exactly(o.reg, i.reg, cfg)
    BY <1>9, <1>15, <2>2, <2>3, DoneExactly
  <2>5. \A f \in Settings : g.reg[f] = d.reg[f]
    BY <1>2, <1>5, NothingAsked DEF Does, Writes
  <2>6. Exactly(d.reg, o.reg, FirmwareConfig)
    BY <2>4, <2>5 DEF Exactly
  <2> QED BY <1>16, <2>4, <2>6
<1> QED BY <1>1, <1>3, <1>18, <1>19, <1>20 DEF s, cfg

LEMMA FifoConfiguredArms ==
    ASSUME NEW d, Viewed(d), NEW sel \in {2, 3}, NEW junk, sel = 3 => d.reg.threshold < 16
    PROVE  LET s == SetPowerMode(d, "STANDBY")
               e == FifoConfigured(d, sel, junk)
               threshold == IF sel = 3 THEN d.reg.threshold ELSE THRESHOLD_LEVEL
           IN  /\ Viewed(e) /\ Goes(d, s) /\ Goes(s, e)
               /\ e.rslt = "OK" => \E q, r : /\ Exactly(d.reg, q, FirmwareConfig)
                                             /\ Exactly(q, r, SetupIir(junk))
                                             /\ Exactly(r, e.reg, SetupFifo(sel, threshold))
<1> DEFINE s == SetPowerMode(d, "STANDBY")
           b == BeforeFifo(d, junk)
           found == IF sel = 3 THEN b.reg.threshold ELSE THRESHOLD_LEVEL
           threshold == IF sel = 3 THEN d.reg.threshold ELSE THRESHOLD_LEVEL
           fifo == SetupFifo(sel, found)
           e == SetFifoConfiguration(b, fifo)
<1>1. FifoConfigured(d, sel, junk) = e
  BY DEF FifoConfigured, FifoSelected, BeforeFifo, SetupIir, SetupFifo
<1>2. /\ Goes(d, s) /\ Goes(s, b)
      /\ b.rslt = "OK" => Telling(b)
      /\ b.rslt = "OK" => \E q : /\ Exactly(d.reg, q, FirmwareConfig)
                                 /\ Exactly(q, b.reg, SetupIir(junk))
  BY BeforeFifoArms
<1>3. Runs(d, b, 83) /\ SameKept(d.reg, b.reg)
  BY BeforeFifoRuns
<1>4. Viewed(b) /\ b.reg.threshold = d.reg.threshold /\ Telling(b)
  BY <1>2, <1>3 DEF Runs, SameKept, Kept, Telling
<1> HIDE DEF s, b
<1>5. found = threshold /\ threshold \in Nat /\ threshold <= MaxThreshold(sel)
  BY <1>4, FieldKinds DEF THRESHOLD_LEVEL, MaxThreshold, Viewed
<1> HIDE DEF found, threshold
<1>6. /\ DOMAIN fifo = {"fifo_mode", "frame_sel", "fifo_iir", "threshold"}
      /\ fifo.frame_sel = sel /\ fifo.threshold = found
      /\ fifo.frame_sel \in 0..3 /\ fifo.frame_sel # 0 /\ fifo.threshold \in Nat
      /\ fifo.threshold <= MaxThreshold(fifo.frame_sel)
  BY <1>5 DEF SetupFifo
<1> HIDE DEF fifo
<1>7. Goes(b, e)
  BY <1>4, <1>6, SetFifoGoes
<1>8. fifo = SetFifoThreshold(b, fifo)
  BY <1>6 DEF SetFifoThreshold
<1>9. Asks(fifo, FifoIirOf(fifo)) /\ Asks(fifo, FifoModeOf(fifo)) /\ Asks(fifo, FramesOf(fifo))
  BY <1>6 DEF Asks, FifoIirOf, FifoModeOf, FramesOf
<1>10. /\ Does(b, e, fifo, {b.stack}, 50)
       /\ e.rslt = "OK" =>
            Has(e, FifoIirOf(fifo)) /\ Has(e, FifoModeOf(fifo)) /\ Has(e, FramesOf(fifo))
  <2>1. "threshold" \in DOMAIN fifo /\ b.stack \in {b.stack}
    BY <1>6
  <2>2. /\ Configures(b, e, fifo, {b.stack}, 50)
        /\ e.rslt = "OK" =>
             Has(e, FifoIirOf(fifo)) /\ Has(e, FifoModeOf(fifo)) /\ Has(e, FramesOf(fifo))
    BY <1>4, <1>6, <1>8, <1>9, <2>1, SetFifoConfigurationDoes
  <2> QED BY <2>2 DEF Configures
<1> HIDE DEF e
<1>11. e.rslt = "OK" => Has(e, fifo)
  BY <1>6, <1>10 DEF Has, FifoIirOf, FifoModeOf, FramesOf
<1>12. e.rslt = "OK" => Exactly(b.reg, e.reg, fifo) /\ b.rslt = "OK"
  BY <1>10, <1>11, DoneExactly DEF Does, Writes
<1>13. Viewed(e) /\ Goes(s, e)
  BY <1>2, <1>7, <1>10, GoesThen DEF Does, Writes
<1>14. fifo = SetupFifo(sel, threshold)
  BY <1>5 DEF fifo
<1> QED BY <1>1, <1>2, <1>12, <1>13, <1>14 DEF s, threshold

Armed(junk) == [int_config |-> 1, int_source |-> 1 + junk.others]

LEMMA InterruptArms ==
    ASSUME NEW c, Viewed(c), NEW junk
    PROVE  LET a == InterruptArmed(c, junk)
           IN  Goes(c, a) /\ (a.rslt = "OK" => Exactly(c.reg, a.reg, Armed(junk)))
<1> DEFINE i == ConfigureInterrupt(c, 1)
           sources == 1 + junk.others
           a == IntSourceSelect(i, sources)
           u == [int_config |-> 1, int_source |-> 0]
           v == SourcesOf(sources)
<1>1. /\ Asks(u, SourcesOf(0)) /\ Asks(u, PinOf(1)) /\ Asks(v, v)
      /\ DOMAIN u = {"int_config", "int_source"} /\ u.int_config = 1
      /\ DOMAIN v = {"int_source"} /\ v.int_source = sources
  BY DEF Asks, SourcesOf, PinOf
<1> HIDE DEF u
<1>2. /\ Does(c, i, u, {}, 4)
      /\ i.rslt = "OK" => Has(i, PinOf(1))
  BY <1>1, ConfigureInterruptDoes
<1>3. i.rslt \in {c.rslt, "COM_FAIL"}
  BY ConfigureInterruptRslt
<1>4. Viewed(i)
  BY <1>2 DEF Does, Writes
<1> HIDE DEF i, sources
<1>5. /\ Does(i, a, v, {}, 2)
      /\ a.rslt = "OK" => Has(a, v)
      /\ a.rslt \in {i.rslt, "COM_FAIL"}
  BY <1>1, <1>4, IntSourceSelectDoes
<1> HIDE DEF a, v
<1>6. Goes(c, a)
  BY <1>3, <1>5 DEF Goes, Does, Writes, Viewed
<1>7. ASSUME a.rslt = "OK" PROVE Exactly(c.reg, a.reg, Armed(junk))
  <2>1. Exactly(i.reg, a.reg, v)
    BY <1>5, <1>7, DoneExactly
  <2>2. i.reg.int_config = 1
    BY <1>2, <1>5, <1>7, KeptNames DEF Does, Writes, Has, PinOf, Kept
  <2>3. \A f \in Settings : f \notin {"int_config", "int_source"} => i.reg[f] = c.reg[f]
    BY <1>1, <1>2 DEF Does, Writes
  <2>4. /\ DOMAIN Armed(junk) = {"int_config", "int_source"}
        /\ Armed(junk).int_config = 1 /\ Armed(junk).int_source = sources
    BY DEF Armed, sources
  <2> QED BY <1>1, <2>1, <2>2, <2>3, <2>4 DEF Exactly
<1> QED BY <1>6, <1>7 DEF InterruptArmed, i, a, sources

\* The settings one after the other are those FifoSettings names.
LEMMA FifoSettingsMade ==
    ASSUME TypedState, NEW sel \in {2, 3}, NEW junk, NEW q, NEW r, NEW s, NEW t,
           Exactly(reg, q, FirmwareConfig), Exactly(q, r, SetupIir(junk)),
           Exactly(r, s, SetupFifo(sel, IF sel = 3 THEN reg.threshold ELSE THRESHOLD_LEVEL)),
           Exactly(s, t, Armed(junk))
    PROVE  \A f \in Settings \ {"shdw", "int_source"} : t[f] = With(reg, FifoSettings(sel))[f]
<1> DEFINE threshold == IF sel = 3 THEN reg.threshold ELSE THRESHOLD_LEVEL
           u == FifoSettings(sel)
           v == SetupFifo(sel, threshold)
           w == SetupIir(junk)
           x == Armed(junk)
<1>1. /\ DOMAIN u = {"osr", "odr", "fifo_mode", "frame_sel", "fifo_iir", "iir", "int_config",
                     "threshold"}
      /\ u.osr = FirmwareConfig.osr /\ u.odr = FirmwareConfig.odr
      /\ u.fifo_mode = 0 /\ u.frame_sel = sel /\ u.fifo_iir = 1 /\ u.iir = 1
      /\ u.int_config = 1 /\ u.threshold = threshold
  BY DEF FifoSettings
<1>2. /\ DOMAIN v = {"fifo_mode", "frame_sel", "fifo_iir", "threshold"}
      /\ v.fifo_mode = 0 /\ v.frame_sel = sel /\ v.fifo_iir = 1 /\ v.threshold = threshold
  BY DEF SetupFifo
<1>3. /\ DOMAIN w = {"shdw", "iir"} /\ w.iir = 1
      /\ DOMAIN x = {"int_config", "int_source"} /\ x.int_config = 1
      /\ DOMAIN FirmwareConfig = {"osr", "odr"}
  BY DEF SetupIir, Armed, FirmwareConfig
<1>4. /\ Exactly(reg, q, FirmwareConfig) /\ Exactly(q, r, w)
      /\ Exactly(r, s, v) /\ Exactly(s, t, x)
  OBVIOUS
<1> HIDE DEF threshold, u, v, w, x
<1> SUFFICES ASSUME NEW f \in Settings, f \notin {"shdw", "int_source"}
             PROVE  t[f] = With(reg, u)[f]
  BY DEF u
<1>5. /\ q[f] = IF f \in DOMAIN FirmwareConfig THEN FirmwareConfig[f] ELSE reg[f]
      /\ r[f] = IF f \in DOMAIN w THEN w[f] ELSE q[f]
      /\ s[f] = IF f \in DOMAIN v THEN v[f] ELSE r[f]
      /\ t[f] = IF f \in DOMAIN x THEN x[f] ELSE s[f]
  BY <1>4 DEF Exactly
<1>6. With(reg, u)[f] = IF f \in DOMAIN u THEN u[f] ELSE reg[f]
  BY Merged, SettingNames DEF TypedState, Registers
<1>7. CASE f \in {"osr", "odr"}
  BY <1>1, <1>2, <1>3, <1>5, <1>6, <1>7
<1>8. CASE f \in {"fifo_mode", "frame_sel", "fifo_iir", "threshold"}
  BY <1>1, <1>2, <1>3, <1>5, <1>6, <1>8
<1>9. CASE f \in {"iir", "int_config"}
  BY <1>1, <1>2, <1>3, <1>5, <1>6, <1>9
<1>10. CASE f \notin DOMAIN u
  BY <1>1, <1>2, <1>3, <1>5, <1>6, <1>10
<1> QED BY <1>1, <1>7, <1>8, <1>9, <1>10

\* The set-up of a client in which nothing failed.
LEMMA FifoSetupDone ==
    ASSUME TypeInv, FifoSetup, faults' = faults, last'.arg = 3 => reg.threshold < 16
    PROVE  /\ Succeeded /\ Actual(reg') = "NORMAL" /\ reg'.int_source \in {1, 3}
           /\ \A f \in Settings \ {"shdw", "int_source"} : reg'[f] = With(reg, AskedNow)[f]
<1>1. PICK d \in AttemptsWithin(SetupBreaks), sel \in {2, 3}, junk \in Unassigned :
        \E s \in {SetPowerMode(d, "STANDBY")},
           a \in {InterruptArmed(FifoConfigured(d, sel, junk), junk)} :
        \E left \in IF Faulty(a) THEN {0, Plenty} ELSE {a.left} :
        \E n \in {SetPowerMode([a EXCEPT !.rslt = "OK", !.left = left], "NORMAL")} :
            IF s.rslt = "OK" THEN Ends("fifo_setup", sel, n, Faulty(a) \/ Faulty(n))
            ELSE Returns("fifo_setup", sel, s)
  BY DEF FifoSetup
<1>2. TypedState /\ faults \in Nat
  BY Bmp5Assumption DEF TypeInv
<1>3. Viewed(d) /\ d.reg = reg /\ d.rslt = "OK"
  BY <1>1, <1>2, CallBegins DEF Begun
<1> DEFINE s == SetPowerMode(d, "STANDBY")
           c == FifoConfigured(d, sel, junk)
           a == InterruptArmed(c, junk)
<1>4. PICK left \in IF Faulty(a) THEN {0, Plenty} ELSE {a.left} :
        \E n \in {SetPowerMode([a EXCEPT !.rslt = "OK", !.left = left], "NORMAL")} :
            IF s.rslt = "OK" THEN Ends("fifo_setup", sel, n, Faulty(a) \/ Faulty(n))
            ELSE Returns("fifo_setup", sel, s)
  BY <1>1
<1> DEFINE b == [a EXCEPT !.rslt = "OK", !.left = left]
           n == SetPowerMode(b, "NORMAL")
           threshold == IF sel = 3 THEN reg.threshold ELSE THRESHOLD_LEVEL
<1>5. IF s.rslt = "OK" THEN Ends("fifo_setup", sel, n, Faulty(a) \/ Faulty(n))
      ELSE Ends("fifo_setup", sel, s, Faulty(s))
  BY <1>4 DEF Returns
<1>6. last'.fn = "fifo_setup" /\ last'.arg = sel
  BY <1>5, Ended
<1>7. /\ Viewed(c) /\ Goes(d, s) /\ Goes(s, c)
      /\ c.rslt = "OK" => \E q, r : /\ Exactly(reg, q, FirmwareConfig)
                                    /\ Exactly(q, r, SetupIir(junk))
                                    /\ Exactly(r, c.reg, SetupFifo(sel, threshold))
  BY <1>3, <1>6, FifoConfiguredArms
<1> HIDE DEF s, c, n, threshold
<1>8. /\ s.rslt = "OK" /\ ~Faulty(a) /\ ~Faulty(n)
      /\ Ends("fifo_setup", sel, n, Faulty(a) \/ Faulty(n))
  <2>1. s.rslt = "OK" \/ Faulty(s)
    BY <1>3, <1>7 DEF Goes, Faulty
  <2>2. CASE s.rslt # "OK"
    <3>1. Ends("fifo_setup", sel, s, Faulty(s)) /\ Faulty(s)
      BY <1>5, <2>1, <2>2
    <3>2. faults' = faults + 1
      BY <3>1, Ended
    <3> QED BY <1>2, <3>2
  <2>3. CASE s.rslt = "OK"
    <3> DEFINE failed == Faulty(a) \/ Faulty(n)
    <3>1. Ends("fifo_setup", sel, n, failed)
      BY <1>5, <2>3
    <3>2. faults' = IF failed THEN faults + 1 ELSE faults
      BY <3>1, Ended
    <3> QED BY <1>2, <2>3, <3>1, <3>2
  <2> QED BY <2>2, <2>3
<1>9. Goes(c, a) /\ (a.rslt = "OK" => Exactly(c.reg, a.reg, Armed(junk)))
  BY <1>7, InterruptArms
<1> HIDE DEF a
<1>10. a.rslt = "OK" /\ c.rslt = "OK"
  BY <1>7, <1>8, <1>9 DEF Goes, Faulty
<1>11. Exactly(c.reg, a.reg, Armed(junk))
  BY <1>9, <1>10
<1>12. Viewed(a)
  BY <1>7, InterruptArmedRuns DEF Runs, a
<1>13. Viewed(b) /\ b.reg = a.reg /\ b.rslt = "OK"
  <2>1. left \in Nat
    BY <1>4, <1>12 DEF Plenty, Viewed
  <2> QED BY <1>12, <2>1 DEF Viewed, ViewFields
<1> HIDE DEF b
<1>14. /\ Does(b, n, <<>>, {"NORMAL"}, 12)
       /\ n.rslt = "OK" => Actual(n.reg) = "NORMAL"
  <2>1. "NORMAL" # "DEEP_STANDBY" /\ "NORMAL" # "STANDBY" /\ "NORMAL" \in {"NORMAL"}
    OBVIOUS
  <2> QED BY <1>13, <2>1, SetPowerModeDoes DEF n
<1>15. Goes(b, n)
  <2>1. "NORMAL" \in PowerModes /\ DOMAIN b = ViewFields
    BY <1>13 DEF PowerModes, Measuring, Viewed
  <2> QED BY <2>1, SetPowerModeGoes DEF n
<1>16. n.rslt = "OK"
  BY <1>8, <1>13, <1>15 DEF Goes, Faulty
<1>17. reg' = n.reg /\ last'.rslt = "OK"
  <2> DEFINE failed == Faulty(a) \/ Faulty(n)
  <2>1. Ends("fifo_setup", sel, n, failed)
    BY <1>8
  <2> QED BY <1>16, <2>1, Ended
<1>18. \A f \in Settings : reg'[f] = a.reg[f]
  BY <1>13, <1>14, <1>17, NothingAsked DEF Does, Writes
<1>19. reg'.int_source \in {1, 3}
  <2>1. junk.others \in {0, 2}
    BY <1>1, Bmp5Assumption
  <2>2. a.reg.int_source = 1 + junk.others
    BY <1>11, KeptNames DEF Exactly, Armed, Kept
  <2> QED BY <1>18, <2>1, <2>2, KeptNames DEF Kept
<1>20. \A f \in Settings \ {"shdw", "int_source"} : reg'[f] = With(reg, AskedNow)[f]
  <2>1. AskedNow = FifoSettings(sel)
    BY <1>6 DEF AskedNow, Asked
  <2>2. PICK q, r : /\ Exactly(reg, q, FirmwareConfig)
                    /\ Exactly(q, r, SetupIir(junk))
                    /\ Exactly(r, c.reg, SetupFifo(sel, threshold))
    BY <1>7, <1>10
  <2>3. \A f \in Settings \ {"shdw", "int_source"} : a.reg[f] = With(reg, FifoSettings(sel))[f]
    BY <1>2, <1>11, <2>2, FifoSettingsMade DEF threshold
  <2> QED BY <1>18, <2>1, <2>3
<1> QED BY <1>14, <1>16, <1>17, <1>19, <1>20 DEF Succeeded

\* set_config of the FIFO examples, when nothing fails under it, leaves the
\* sensor measuring into the FIFO with the interrupt it waits for on, from
\* every mode and all settings it may find, those that calls which broke off
\* left behind included; only a threshold that 16 frames cannot reach is
\* excluded, which the first of the examples does not report.
THEOREM SetupArms == Spec => FifoSetupArmsClient
<1> DEFINE P == (Called({"fifo_setup"}) /\ faults' = faults
                 /\ (last'.arg = 3 => reg.threshold < 16)) =>
                  /\ Succeeded /\ Actual(reg') = "NORMAL" /\ reg'.int_source \in {1, 3}
                  /\ \A f \in Settings \ {"shdw", "int_source"} :
                       reg'[f] = With(reg, AskedNow)[f]
<1>1. TypeInv /\ [Next]_vars => [P]_vars
  <2> SUFFICES ASSUME TypeInv, Next, Called({"fifo_setup"}) PROVE FifoSetup \/ ~Called({"fifo_setup"})
    BY FifoSetupDone
  <2>1. TypedState
    BY DEF TypeInv
  <2>2. CASE SingleCall
    BY <2>2, Calls DEF SingleCall, Called
  <2>3. CASE Measured
    BY <2>1, <2>3, MeasuredEnds DEF NoCall, Called
  <2>4. CASE Reset
    BY <2>1, <2>4, ResetAnswers, Ended DEF Called
  <2>5. CASE FirmwareInit
    BY <2>5, FirmwareInitAnswers, Ended DEF Called
  <2> QED BY <2>2, <2>3, <2>4, <2>5, Steps
<1> QED BY <1>1, TypeAlways, PTL DEF Spec, FifoSetupArmsClient
=============================================================================
