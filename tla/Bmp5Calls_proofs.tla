-------------------------- MODULE Bmp5Calls_proofs --------------------------
(***************************************************************************)
(* What each function of the BMP5 driver does to the driver's view,        *)
(* wherever the bus fails in it: lemmas about the operators of Bmp5Driver. *)
(***************************************************************************)
EXTENDS Bmp5, TLAPS

\* The values of a word of the memory; unexpanded, as the provers spell out numbers.
Word16 == Unsigned(16)

\* The values of a field that is not used as a flag or copied only.
InField(f, v) ==
    /\ f = "mode" => v \in Measuring \cup {"STANDBY"}
    /\ f = "deep_dis" => v \in BOOLEAN
    /\ f = "odr" => v \in 0..31
    /\ f = "threshold" => v \in 0..31
    /\ f = "frame_sel" => v \in 0..3
    /\ f = "oor_lsb" => v \in 0..255
    /\ f = "oor_msb" => v \in 0..255
    /\ f = "oor_xmsb" => v \in 0..1
    /\ f = "nvm_addr" => v \in 0..63
    /\ f = "nvm_data" => v \in Word16

Fields == DOMAIN ResetValues

\* A sensor that measures has deep standby disabled.
Registers(r) ==
    /\ DOMAIN r = Fields
    /\ \A f \in Fields : InField(f, r[f])
    /\ r.mode # "STANDBY" => r.deep_dis

Memory(m) == m \in [NvmAddresses -> Word16]

ViewFields == {"reg", "nvm", "rslt", "left", "took", "ready", "stack", "hot", "powermode", "data"}

Viewed(d) ==
    /\ DOMAIN d = ViewFields
    /\ Registers(d.reg)
    /\ Memory(d.nvm)
    /\ d.left \in Nat /\ d.took \in BOOLEAN /\ d.hot \in BOOLEAN

Faults == {"COM_FAIL", "NVM_NOT_READY"}

\* From d to e at most k bytes were transferred, no setting got a value other
\* than the one w has for it, and the sensor is in its old mode, in standby
\* mode or in one of the modes M.
Writes(d, e, w, M, k) ==
    /\ Viewed(e)
    /\ e.rslt = "OK" => d.rslt = "OK"
    /\ e.hot => d.hot
    /\ e.stack = d.stack /\ e.ready = d.ready /\ e.took = d.took
    /\ e.left >= d.left - k
    /\ (d.ready /\ d.left >= k /\ d.rslt \notin Faults) => e.rslt \notin Faults
    /\ \A f \in Settings : e.reg[f] = d.reg[f] \/ (f \in DOMAIN w /\ e.reg[f] = w[f])
    /\ e.reg.mode \in {d.reg.mode, "STANDBY"} \cup M

\* The same, and the memory is left alone.
Does(d, e, w, M, k) == Writes(d, e, w, M, k) /\ e.nvm = d.nvm

\* Nothing but the bus was used.
Reads(d, e, k) ==
    /\ Viewed(e)
    /\ e.rslt = "OK" => d.rslt = "OK"
    /\ e.reg = d.reg /\ e.hot = d.hot /\ e.nvm = d.nvm
    /\ e.stack = d.stack /\ e.ready = d.ready /\ e.took = d.took
    /\ e.left >= d.left - k
    /\ (d.ready /\ d.left >= k /\ d.rslt \notin Faults) => e.rslt \notin Faults

\* A protected field may be written now.
Parked(d) == d.rslt = "OK" => d.reg.mode = "STANDBY"

LEMMA Powers == 2^8 = 256 /\ 2^16 = 2^8 * 2^8
  OBVIOUS

LEMMA FieldNames ==
    Fields = {"mode", "deep_dis", "odr", "osr", "shdw", "iir", "fifo_iir", "oor_iir",
              "fifo_mode", "threshold", "frame_sel", "int_config", "int_source",
              "oor_lsb", "oor_msb", "oor_xmsb", "oor_range", "cnt_lim",
              "nvm_addr", "prog_en", "nvm_data", "cmd", "por"}
  BY DEF Fields, ResetValues

LEMMA SettingNames ==
    /\ Settings \subseteq Fields
    /\ \A f \in {"mode", "deep_dis", "cmd", "por", "nvm_addr", "prog_en", "nvm_data"} :
         f \notin Settings
    /\ \A f \in Fields \ {"mode", "deep_dis", "cmd", "por", "nvm_addr", "prog_en", "nvm_data"} :
         f \in Settings
  BY DEF Fields, Settings

LEMMA Merged ==
    ASSUME NEW r, NEW u
    PROVE  /\ DOMAIN With(r, u) = DOMAIN r
           /\ \A f \in DOMAIN r : With(r, u)[f] = IF f \in DOMAIN u THEN u[f] ELSE r[f]
  BY DEF With

\* Writing fields of the right kind, neither the mode nor the deep standby bit.
LEMMA MergedRegisters ==
    ASSUME NEW r, Registers(r), NEW u, \A f \in DOMAIN u : InField(f, u[f]),
           "mode" \notin DOMAIN u, "deep_dis" \notin DOMAIN u
    PROVE  Registers(With(r, u))
<1>1. DOMAIN With(r, u) = Fields
  BY Merged DEF Registers
<1>2. \A f \in Fields : InField(f, With(r, u)[f])
  BY Merged DEF Registers
<1>3. With(r, u).mode = r.mode /\ With(r, u).deep_dis = r.deep_dis
  BY Merged, FieldNames DEF Registers
<1> QED BY <1>1, <1>2, <1>3 DEF Registers

LEMMA FieldKind ==
    /\ \A v : InField("mode", v) <=> v \in Measuring \cup {"STANDBY"}
    /\ \A v : InField("deep_dis", v) <=> v \in BOOLEAN
    /\ \A v : InField("odr", v) <=> v \in 0..31
    /\ \A v : InField("threshold", v) <=> v \in 0..31
    /\ \A v : InField("frame_sel", v) <=> v \in 0..3
    /\ \A v : InField("oor_lsb", v) <=> v \in 0..255
    /\ \A v : InField("oor_msb", v) <=> v \in 0..255
    /\ \A v : InField("oor_xmsb", v) <=> v \in 0..1
    /\ \A v : InField("nvm_addr", v) <=> v \in 0..63
    /\ \A v : InField("nvm_data", v) <=> v \in Word16
<1>1. \A v : InField("mode", v) <=> v \in Measuring \cup {"STANDBY"}
  BY DEF InField
<1>2. \A v : InField("deep_dis", v) <=> v \in BOOLEAN
  BY DEF InField
<1>3. \A v : InField("odr", v) <=> v \in 0..31
  BY DEF InField
<1>4. \A v : InField("threshold", v) <=> v \in 0..31
  BY DEF InField
<1>5. \A v : InField("frame_sel", v) <=> v \in 0..3
  BY DEF InField
<1>6. \A v : InField("oor_lsb", v) <=> v \in 0..255
  BY DEF InField
<1>7. \A v : InField("oor_msb", v) <=> v \in 0..255
  BY DEF InField
<1>8. \A v : InField("oor_xmsb", v) <=> v \in 0..1
  BY DEF InField
<1>9. \A v : InField("nvm_addr", v) <=> v \in 0..63
  BY DEF InField
<1>10. \A v : InField("nvm_data", v) <=> v \in Word16
  BY DEF InField
<1> QED BY <1>1, <1>2, <1>3, <1>4, <1>5, <1>6, <1>7, <1>8, <1>9, <1>10

TypedFields == {"mode", "deep_dis", "odr", "threshold", "frame_sel", "oor_lsb", "oor_msb",
                "oor_xmsb", "nvm_addr", "nvm_data"}

LEMMA FreeFields == ASSUME NEW f, f \notin TypedFields, NEW v PROVE InField(f, v)
  BY DEF InField, TypedFields

LEMMA FieldKinds ==
    ASSUME NEW r, Registers(r)
    PROVE  /\ r.mode \in Measuring \cup {"STANDBY"} /\ r.deep_dis \in BOOLEAN
           /\ r.odr \in 0..31 /\ r.threshold \in 0..31 /\ r.frame_sel \in 0..3
           /\ r.oor_lsb \in 0..255 /\ r.oor_msb \in 0..255 /\ r.oor_xmsb \in 0..1
           /\ r.nvm_addr \in 0..63 /\ r.nvm_data \in Word16
<1>1. r.mode \in Measuring \cup {"STANDBY"}
  <2>1. InField("mode", r.mode)
    BY FieldNames DEF Registers
  <2> QED BY <2>1 DEF InField
<1>2. r.deep_dis \in BOOLEAN
  <2>1. InField("deep_dis", r.deep_dis)
    BY FieldNames DEF Registers
  <2> QED BY <2>1 DEF InField
<1>3. r.odr \in 0..31
  <2>1. InField("odr", r.odr)
    BY FieldNames DEF Registers
  <2> QED BY <2>1 DEF InField
<1>4. r.threshold \in 0..31
  <2>1. InField("threshold", r.threshold)
    BY FieldNames DEF Registers
  <2> QED BY <2>1 DEF InField
<1>5. r.frame_sel \in 0..3
  <2>1. InField("frame_sel", r.frame_sel)
    BY FieldNames DEF Registers
  <2> QED BY <2>1 DEF InField
<1>6. r.oor_lsb \in 0..255
  <2>1. InField("oor_lsb", r.oor_lsb)
    BY FieldNames DEF Registers
  <2> QED BY <2>1 DEF InField
<1>7. r.oor_msb \in 0..255
  <2>1. InField("oor_msb", r.oor_msb)
    BY FieldNames DEF Registers
  <2> QED BY <2>1 DEF InField
<1>8. r.oor_xmsb \in 0..1
  <2>1. InField("oor_xmsb", r.oor_xmsb)
    BY FieldNames DEF Registers
  <2> QED BY <2>1 DEF InField
<1>9. r.nvm_addr \in 0..63
  <2>1. InField("nvm_addr", r.nvm_addr)
    BY FieldNames DEF Registers
  <2> QED BY <2>1 DEF InField
<1>10. r.nvm_data \in Word16
  <2>1. InField("nvm_data", r.nvm_data)
    BY FieldNames DEF Registers
  <2> QED BY <2>1 DEF InField
<1> QED BY <1>1, <1>2, <1>3, <1>4, <1>5, <1>6, <1>7, <1>8, <1>9, <1>10

LEMMA ReadsThen ==
    ASSUME NEW d, NEW e, NEW f, NEW m \in Nat, NEW n \in Nat, Viewed(d),
           Reads(d, e, m), Reads(e, f, n)
    PROVE  Reads(d, f, m + n)
  BY DEF Reads, Viewed

LEMMA ReadsDoes ==
    ASSUME NEW d, NEW e, NEW k \in Nat, NEW w, NEW M, Reads(d, e, k)
    PROVE  Does(d, e, w, M, k)
  BY DEF Reads, Does, Writes

LEMMA WritesThen ==
    ASSUME NEW d, NEW e, NEW f, NEW m \in Nat, NEW n \in Nat, NEW w, NEW M, Viewed(d),
           Writes(d, e, w, M, m), Writes(e, f, w, M, n)
    PROVE  Writes(d, f, w, M, m + n)
<1>1. d.left \in Nat /\ e.left \in Nat /\ f.left \in Nat
  BY DEF Writes, Viewed
<1>2. /\ Viewed(f)
      /\ f.rslt = "OK" => d.rslt = "OK"
      /\ f.hot => d.hot
      /\ f.stack = d.stack /\ f.ready = d.ready /\ f.took = d.took
  BY DEF Writes
<1>3. /\ f.left >= d.left - (m + n)
      /\ (d.ready /\ d.left >= m + n /\ d.rslt \notin Faults) => f.rslt \notin Faults
  BY <1>1 DEF Writes
<1>4. \A x \in Settings : f.reg[x] = d.reg[x] \/ (x \in DOMAIN w /\ f.reg[x] = w[x])
  BY DEF Writes
<1>5. f.reg.mode \in {d.reg.mode, "STANDBY"} \cup M
  BY DEF Writes
<1> QED BY <1>2, <1>3, <1>4, <1>5 DEF Writes

LEMMA DoesThen ==
    ASSUME NEW d, NEW e, NEW f, NEW m \in Nat, NEW n \in Nat, NEW w, NEW M, Viewed(d),
           Does(d, e, w, M, m), Does(e, f, w, M, n)
    PROVE  Does(d, f, w, M, m + n)
  BY WritesThen DEF Does

LEMMA GetRegsReads ==
    ASSUME NEW d, Viewed(d)
    PROVE  Reads(d, GetRegs(d), 1)
  BY DEF GetRegs, Reads, Viewed, ViewFields, Faults

\* A write of the fields of u.
Sets(d, e, u) ==
    /\ e.reg \in {d.reg, With(d.reg, u)}
    /\ e.rslt = "OK" => e.reg = With(d.reg, u)
    /\ d.rslt # "OK" => e.reg = d.reg
    /\ e.rslt \in {d.rslt, "COM_FAIL"} /\ e.powermode = d.powermode

LEMMA SetRegsSets ==
    ASSUME NEW d, Viewed(d), NEW u, NEW w, NEW M, Registers(With(d.reg, u)),
           \A f \in DOMAIN u \cap Settings : f \in DOMAIN w /\ w[f] = u[f],
           With(d.reg, u).mode \in {d.reg.mode, "STANDBY"} \cup M,
           Parked(d) \/ DOMAIN u \cap StandbyOnly = {}
    PROVE  Does(d, SetRegs(d, u), w, M, 1) /\ Sets(d, SetRegs(d, u), u)
<1> DEFINE e == GetRegs(d)
           f == [e EXCEPT !.reg = With(@, u),
                          !.hot = @ \/ (d.reg.mode # "STANDBY"
                                        /\ DOMAIN u \cap StandbyOnly # {})]
<1>1. Reads(d, e, 1) /\ e.powermode = d.powermode /\ e.rslt \in {d.rslt, "COM_FAIL"}
  BY GetRegsReads DEF GetRegs, Viewed, ViewFields
<1>2. d.rslt # "OK" => e.rslt # "OK"
  BY <1>1 DEF Reads
<1>3. CASE SetRegs(d, u) = e /\ e.rslt # "OK"
  BY <1>1, <1>3, ReadsDoes DEF Sets, Reads
<1>4. CASE SetRegs(d, u) = f /\ d.rslt = "OK"
  <2> DEFINE r == With(e.reg, u)
             h == e.hot \/ (d.reg.mode # "STANDBY" /\ DOMAIN u \cap StandbyOnly # {})
  <2>1. /\ DOMAIN f = ViewFields
        /\ f.reg = r /\ f.hot = h /\ f.nvm = e.nvm /\ f.left = e.left /\ f.took = e.took
        /\ f.rslt = e.rslt /\ f.stack = e.stack /\ f.ready = e.ready
        /\ f.powermode = e.powermode
    <3> HIDE DEF e, r, h
    <3>1. f = [e EXCEPT !.reg = r, !.hot = h]
      BY DEF r, h
    <3>2. DOMAIN e = ViewFields
      BY <1>1 DEF Reads, Viewed
    <3> HIDE DEF f
    <3> QED BY <3>1, <3>2 DEF ViewFields
  <2> HIDE DEF e, f
  <2>2. e.reg = d.reg /\ r = With(d.reg, u)
    BY <1>1 DEF Reads
  <2>3. h = d.hot
    BY <1>1, <1>4 DEF Parked, Reads, Viewed
  <2>4. \A x \in Settings : r[x] = d.reg[x] \/ (x \in DOMAIN w /\ r[x] = w[x])
    BY <2>2, Merged, SettingNames DEF Registers, Viewed
  <2> HIDE DEF r, h
  <2>5. Does(d, f, w, M, 1)
    <3>1. Viewed(f)
      BY <1>1, <2>1, <2>2, <2>3 DEF Reads, Viewed
    <3>2. f.reg.mode \in {d.reg.mode, "STANDBY"} \cup M
      BY <2>1, <2>2
    <3> QED BY <1>1, <2>1, <2>2, <2>3, <2>4, <3>1, <3>2 DEF Does, Writes, Reads
  <2> QED BY <1>1, <1>4, <2>1, <2>2, <2>5 DEF Sets
<1> QED BY <1>2, <1>3, <1>4 DEF SetRegs

LEMMA UpdateSets ==
    ASSUME NEW d, Viewed(d), NEW u, NEW w, NEW M, Registers(With(d.reg, u)),
           \A f \in DOMAIN u \cap Settings : f \in DOMAIN w /\ w[f] = u[f],
           With(d.reg, u).mode \in {d.reg.mode, "STANDBY"} \cup M,
           Parked(d) \/ DOMAIN u \cap StandbyOnly = {}
    PROVE  Does(d, Update(d, u), w, M, 2) /\ Sets(d, Update(d, u), u)
<1> DEFINE e == GetRegs(d)
<1>1. Reads(d, e, 1) /\ e.powermode = d.powermode /\ e.rslt \in {d.rslt, "COM_FAIL"}
  BY GetRegsReads DEF GetRegs, Viewed, ViewFields
<1> HIDE DEF e
<1>2. Viewed(e) /\ e.reg = d.reg /\ (Parked(e) \/ DOMAIN u \cap StandbyOnly = {})
  BY <1>1 DEF Reads, Parked
<1>3. Does(e, SetRegs(e, u), w, M, 1) /\ Sets(e, SetRegs(e, u), u)
  BY <1>2, SetRegsSets
<1>4. Does(d, SetRegs(e, u), w, M, 1 + 1)
  BY <1>1, <1>3, ReadsDoes, DoesThen
<1>5. Sets(d, SetRegs(e, u), u)
  BY <1>1, <1>3 DEF Sets, Reads
<1> QED BY <1>4, <1>5 DEF Update, e

\* Once a call has failed it does nothing more.
LEMMA Stuck ==
    ASSUME NEW d, d.rslt # "OK"
    PROVE  /\ GetRegs(d) = d
           /\ \A u : SetRegs(d, u) = d /\ Update(d, u) = d
           /\ \A x : Fail(d, x) = d /\ Out(d, x) = d /\ Data(d, x) = d
<1>1. GetRegs(d) = d
  BY DEF GetRegs
<1>2. \A u : SetRegs(d, u) = d
  BY <1>1 DEF SetRegs
<1>3. \A u : Update(d, u) = d
  BY <1>1, <1>2 DEF Update
<1>4. \A x : Fail(d, x) = d /\ Out(d, x) = d /\ Data(d, x) = d
  BY DEF Fail, Out, Data
<1> QED BY <1>1, <1>2, <1>3, <1>4

LEMMA DoesNothing ==
    ASSUME NEW d, Viewed(d), NEW k \in Nat, NEW w, NEW M
    PROVE  Does(d, d, w, M, k)
  BY DEF Does, Writes, Viewed

LEMMA DoesMore ==
    ASSUME NEW d, Viewed(d), NEW e, NEW m \in Nat, NEW n \in Nat, m <= n, NEW w, NEW M,
           Does(d, e, w, M, m)
    PROVE  Does(d, e, w, M, n)
<1>1. d.left \in Nat /\ e.left \in Nat
  BY DEF Does, Writes, Viewed
<1> QED BY <1>1 DEF Does, Writes

LEMMA FailReads ==
    ASSUME NEW d, Viewed(d), NEW error, error # "OK", error = "NVM_NOT_READY" => ~d.ready,
           error # "COM_FAIL"
    PROVE  /\ Reads(d, Fail(d, error), 0) /\ Fail(d, error).rslt # "OK"
           /\ Fail(d, error).powermode = d.powermode
           /\ d.rslt = "OK" => Fail(d, error).rslt = error
<1>1. CASE d.rslt # "OK"
  BY <1>1, Stuck DEF Reads, Viewed
<1>2. CASE d.rslt = "OK"
  <2> DEFINE e == [d EXCEPT !.rslt = error]
  <2>1. Fail(d, error) = e
    BY <1>2 DEF Fail
  <2>2. /\ DOMAIN e = ViewFields /\ e.rslt = error
        /\ e.reg = d.reg /\ e.nvm = d.nvm /\ e.left = d.left /\ e.took = d.took
        /\ e.ready = d.ready /\ e.stack = d.stack /\ e.hot = d.hot
        /\ e.powermode = d.powermode
    BY DEF Viewed, ViewFields
  <2> HIDE DEF e
  <2>3. Viewed(e)
    BY <2>2 DEF Viewed
  <2>4. d.left \in Nat
    BY DEF Viewed
  <2>5. (d.ready /\ d.left >= 0 /\ d.rslt \notin Faults) => e.rslt \notin Faults
    BY <1>2, <2>2 DEF Faults
  <2> QED BY <1>2, <2>1, <2>2, <2>3, <2>4, <2>5 DEF Reads
<1> QED BY <1>1, <1>2

LEMMA OutReads ==
    ASSUME NEW d, Viewed(d), NEW x
    PROVE  /\ Reads(d, Out(d, x), 0) /\ Out(d, x).rslt = d.rslt
           /\ d.rslt = "OK" => Out(d, x).powermode = x
           /\ Reads(d, Data(d, x), 0) /\ Data(d, x).rslt = d.rslt
           /\ Data(d, x).powermode = d.powermode
           /\ d.rslt = "OK" => Data(d, x).data = x
  BY DEF Reads, Out, Data, Viewed, ViewFields, Faults

\* The mode bmp5_get_power_mode reports is the sensor's, or what was on the
\* stack when the mode is invalid.
LEMMA GetPowerModeReads ==
    ASSUME NEW d, Viewed(d)
    PROVE  LET g == GetPowerMode(d)
           IN  /\ Reads(d, g, 4)
               /\ g.rslt = "OK" =>
                    /\ g.powermode = (IF Known(d.reg) THEN Actual(d.reg) ELSE d.stack)
                    /\ g.powermode = "STANDBY" => d.reg.mode = "STANDBY"
<1> DEFINE e == GetRegs(d)
           e1 == GetRegs(e)
           e2 == GetRegs(e1)
           e3 == GetRegs(e2)
<1>1. Reads(d, e, 1)
  BY GetRegsReads
<1>2. CASE e.reg.mode = "STANDBY" /\ ~e.reg.deep_dis
  <2>1. Viewed(e)
    BY <1>1 DEF Reads
  <2>2. Reads(e, e1, 1) /\ Viewed(e1)
    BY <2>1, GetRegsReads DEF Reads
  <2>3. Reads(e1, e2, 1) /\ Viewed(e2)
    BY <2>2, GetRegsReads DEF Reads
  <2>4. Reads(e2, e3, 1) /\ Viewed(e3)
    BY <2>3, GetRegsReads DEF Reads
  <2> HIDE DEF e, e1, e2, e3
  <2>5. Reads(d, e1, 1 + 1)
    BY <1>1, <2>2, ReadsThen
  <2>6. Reads(d, e2, 2 + 1)
    BY <2>3, <2>5, ReadsThen
  <2>7. Reads(d, e3, 3 + 1)
    BY <2>4, <2>6, ReadsThen
  <2> DEFINE deep == e3.reg.odr > ODR_05_HZ /\ e3.reg.frame_sel = 0 /\ e3.reg.iir = BYPASS
             x == IF deep THEN "DEEP_STANDBY" ELSE d.stack
             g == Out(e3, x)
  <2>8. GetPowerMode(d) = g
    BY <1>1, <1>2 DEF GetPowerMode, CheckDeepstandbyMode, Reads, e, e1, e2, e3
  <2>9. e3.reg = d.reg /\ e.reg = d.reg
    BY <1>1, <2>7 DEF Reads
  <2>10. x = IF Known(d.reg) THEN Actual(d.reg) ELSE d.stack
    BY <1>2, <2>9 DEF Known, Actual
  <2> HIDE DEF x
  <2>11. Reads(e3, g, 0) /\ g.rslt = e3.rslt /\ (e3.rslt = "OK" => g.powermode = x)
    BY <2>4, OutReads
  <2> HIDE DEF g
  <2>12. Reads(d, g, 4 + 0)
    BY <2>7, <2>11, ReadsThen
  <2> QED BY <1>2, <2>8, <2>9, <2>10, <2>11, <2>12
<1>3. CASE ~(e.reg.mode = "STANDBY" /\ ~e.reg.deep_dis)
  <2> DEFINE x == e.reg.mode
             g == Out(e, x)
  <2>1. GetPowerMode(d) = g
    BY <1>3 DEF GetPowerMode
  <2> HIDE DEF e
  <2>2. Viewed(e) /\ e.reg = d.reg
    BY <1>1 DEF Reads
  <2> HIDE DEF x
  <2>3. Reads(e, g, 0) /\ g.rslt = e.rslt /\ (e.rslt = "OK" => g.powermode = x)
    BY <2>2, OutReads
  <2> HIDE DEF g
  <2>4. Reads(d, g, 1 + 0)
    BY <1>1, <2>3, ReadsThen
  <2>5. Reads(d, g, 4)
    BY <2>4 DEF Reads, Viewed
  <2>6. x = d.reg.mode /\ x # "UNDEFINED"
    <3>1. d.reg.mode \in Measuring \cup {"STANDBY"}
      BY FieldKinds DEF Viewed
    <3> QED BY <2>2, <3>1 DEF x, Measuring
  <2>7. x = Actual(d.reg) /\ Known(d.reg)
    BY <1>3, <2>2, <2>6 DEF Actual, Known
  <2> QED BY <2>1, <2>3, <2>5, <2>6, <2>7
<1> QED BY <1>2, <1>3

-----------------------------------------------------------------------------
(***************************************************************************)
(* Power modes.                                                            *)
(***************************************************************************)
LEMMA WritePowerModeDoes ==
    ASSUME NEW d, Viewed(d), NEW m \in Measuring \cup {"STANDBY"}, NEW w, NEW M,
           m \in {"STANDBY"} \cup M
    PROVE  LET e == WritePowerMode(d, m)
           IN  /\ Does(d, e, w, M, 2)
               /\ e.rslt = "OK" => e.reg.mode = m /\ e.reg.deep_dis
<1> DEFINE u == [mode |-> m, deep_dis |-> TRUE]
           r == With(d.reg, u)
<1>1. /\ DOMAIN r = Fields
      /\ \A f \in Fields : r[f] = IF f \in {"mode", "deep_dis"} THEN u[f] ELSE d.reg[f]
  BY Merged DEF Viewed, Registers
<1>2. r.mode = m /\ r.deep_dis = TRUE
  BY <1>1, FieldNames
<1>3. Registers(r)
  <2>1. \A f \in Fields : InField(f, r[f])
    <3>1. \A f \in Fields \ {"mode", "deep_dis"} : InField(f, r[f])
      BY <1>1 DEF Viewed, Registers
    <3>2. InField("mode", r.mode) /\ InField("deep_dis", r.deep_dis)
      BY <1>2, FieldKind
    <3> QED BY <3>1, <3>2
  <2> QED BY <1>1, <1>2, <2>1 DEF Registers
<1>4. \A f \in DOMAIN u \cap Settings : f \in DOMAIN w /\ w[f] = u[f]
  BY SettingNames
<1>5. DOMAIN u \cap StandbyOnly = {}
  BY DEF StandbyOnly
<1> HIDE DEF u
<1>6. Does(d, Update(d, u), w, M, 2) /\ Sets(d, Update(d, u), u)
  BY <1>2, <1>3, <1>4, <1>5, UpdateSets
<1> QED BY <1>2, <1>6 DEF WritePowerMode, Sets, u

\* What deep standby mode requires of the settings.
DeepSettings == [odr |-> ODR_01_HZ, iir |-> BYPASS, frame_sel |-> 0]

Asks(w, u) == \A f \in DOMAIN u \cap Settings : f \in DOMAIN w /\ w[f] = u[f]

\* Setting fields other than the mode and the deep standby bit.
LEMMA UpdateDoes ==
    ASSUME NEW d, Viewed(d), NEW u, NEW w, NEW M, Asks(w, u),
           \A f \in DOMAIN u : InField(f, u[f]),
           "mode" \notin DOMAIN u, "deep_dis" \notin DOMAIN u,
           Parked(d) \/ DOMAIN u \cap StandbyOnly = {}
    PROVE  /\ Does(d, Update(d, u), w, M, 2) /\ Sets(d, Update(d, u), u)
           /\ Does(d, SetRegs(d, u), w, M, 1) /\ Sets(d, SetRegs(d, u), u)
           /\ With(d.reg, u).mode = d.reg.mode /\ With(d.reg, u).deep_dis = d.reg.deep_dis
<1>1. Registers(With(d.reg, u))
  BY MergedRegisters DEF Viewed
<1>2. With(d.reg, u).mode = d.reg.mode /\ With(d.reg, u).deep_dis = d.reg.deep_dis
  BY Merged, FieldNames DEF Viewed, Registers
<1> QED BY <1>1, <1>2, UpdateSets, SetRegsSets DEF Asks

LEMMA SetDeepStandbyModeDoes ==
    ASSUME NEW d, Viewed(d), Parked(d), NEW w, NEW M, Asks(w, DeepSettings)
    PROVE  LET e == SetDeepStandbyMode(d)
           IN  /\ Does(d, e, w, M, 6)
               /\ e.rslt = "OK" =>
                    /\ e.reg.mode = "STANDBY" /\ ~e.reg.deep_dis
                    /\ \A f \in DOMAIN DeepSettings : e.reg[f] = DeepSettings[f]
<1>1. CASE d.rslt # "OK"
  <2>1. SetDeepStandbyMode(d) = d
    BY <1>1, Stuck DEF SetDeepStandbyMode
  <2> QED BY <1>1, <2>1, DoesNothing
<1>2. CASE d.rslt = "OK"
  <2> DEFINE v == [deep_dis |-> FALSE, odr |-> ODR_01_HZ]
             r == With(d.reg, v)
             o == Update(d, v)
             b == [iir |-> BYPASS]
             i == Update(o, b)
             s == [frame_sel |-> 0]
             e == Update(i, s)
  <2>1. d.reg.mode = "STANDBY"
    BY <1>2 DEF Parked
  <2>2. /\ DOMAIN r = Fields
        /\ \A f \in Fields : r[f] = IF f \in {"deep_dis", "odr"} THEN v[f] ELSE d.reg[f]
    BY Merged DEF Viewed, Registers
  <2>3. r.mode = "STANDBY" /\ r.deep_dis = FALSE /\ r.odr = ODR_01_HZ
    BY <2>1, <2>2, FieldNames
  <2>4. Registers(r)
    <3>1. \A f \in Fields : InField(f, r[f])
      <4>1. \A f \in Fields \ {"deep_dis", "odr"} : InField(f, r[f])
        BY <2>2 DEF Viewed, Registers
      <4>2. InField("deep_dis", r.deep_dis) /\ InField("odr", r.odr)
        <5> HIDE DEF r, v
        <5>1. FALSE \in BOOLEAN /\ ODR_01_HZ \in 0..31
          BY DEF ODR_01_HZ
        <5> QED BY <2>3, <5>1, FieldKind
      <4> QED BY <4>1, <4>2
    <3> QED BY <2>2, <2>3, <3>1 DEF Registers
  <2>5. Asks(w, v) /\ Asks(w, b) /\ Asks(w, s)
    BY SettingNames DEF Asks, DeepSettings
  <2>6. DOMAIN v \cap StandbyOnly = {}
    BY DEF StandbyOnly
  <2>7. /\ \A f \in DOMAIN b : InField(f, b[f])
        /\ "mode" \notin DOMAIN b /\ "deep_dis" \notin DOMAIN b
        /\ \A f \in DOMAIN s : InField(f, s[f])
        /\ "mode" \notin DOMAIN s /\ "deep_dis" \notin DOMAIN s
        /\ DOMAIN s \cap StandbyOnly = {}
    <3>1. DOMAIN b = {"iir"} /\ DOMAIN s = {"frame_sel"} /\ s.frame_sel = 0
      OBVIOUS
    <3>2. InField("iir", b.iir)
      BY FreeFields DEF TypedFields
    <3> HIDE DEF b, s
    <3>3. InField("frame_sel", s.frame_sel)
      BY <3>1, FieldKind
    <3>4. DOMAIN s \cap StandbyOnly = {}
      BY <3>1 DEF StandbyOnly
    <3> QED BY <3>1, <3>2, <3>3, <3>4
  <2>8. SetDeepStandbyMode(d) = e
    BY DEF SetDeepStandbyMode
  <2>9. b.iir = BYPASS /\ DOMAIN b = {"iir"} /\ s.frame_sel = 0 /\ DOMAIN s = {"frame_sel"}
    OBVIOUS
  <2> HIDE DEF v, b, s
  <2>10. Does(d, o, w, M, 2) /\ Sets(d, o, v)
    BY <2>3, <2>4, <2>5, <2>6, UpdateSets DEF Asks
  <2> HIDE DEF o
  <2>11. Viewed(o) /\ Parked(o)
    BY <2>3, <2>10 DEF Does, Writes, Sets, Parked
  <2>12. Does(o, i, w, M, 2) /\ Sets(o, i, b)
    BY <2>5, <2>7, <2>11, UpdateDoes
  <2> HIDE DEF i
  <2>13. Viewed(i)
    BY <2>12 DEF Does, Writes
  <2>14. Does(i, e, w, M, 2) /\ Sets(i, e, s)
    BY <2>5, <2>7, <2>13, UpdateDoes
  <2> HIDE DEF e
  <2>15. Does(d, i, w, M, 2 + 2)
    BY <2>10, <2>12, DoesThen
  <2>16. Does(d, e, w, M, 4 + 2)
    BY <2>14, <2>15, DoesThen
  <2>17. ASSUME e.rslt = "OK"
         PROVE  /\ e.reg.mode = "STANDBY" /\ ~e.reg.deep_dis
                /\ e.reg.odr = ODR_01_HZ /\ e.reg.iir = BYPASS /\ e.reg.frame_sel = 0
    <3>1. i.rslt = "OK" /\ o.rslt = "OK"
      BY <2>12, <2>14, <2>17 DEF Does, Writes
    <3>2. o.reg = r /\ i.reg = With(r, b) /\ e.reg = With(With(r, b), s)
      BY <2>10, <2>12, <2>14, <2>17, <3>1 DEF Sets
    <3> HIDE DEF r
    <3>3. /\ With(r, b).mode = "STANDBY" /\ ~With(r, b).deep_dis /\ DOMAIN With(r, b) = Fields
          /\ With(r, b).odr = ODR_01_HZ /\ With(r, b).iir = BYPASS
      BY <2>2, <2>3, <2>9, Merged, FieldNames
    <3> QED BY <2>9, <3>2, <3>3, Merged, FieldNames
  <2> QED BY <2>8, <2>16, <2>17 DEF DeepSettings
<1> QED BY <1>1, <1>2

LEMMA FromAnyModeDoes ==
    ASSUME NEW d, Viewed(d), NEW w, NEW M
    PROVE  LET s == FromAnyMode(GetPowerMode(d))
           IN  /\ Does(d, s, w, M, 6)
               /\ s.rslt = "OK" => /\ s.reg.mode = "STANDBY"
                                   /\ Known(d.reg) => s.reg.deep_dis
<1> DEFINE g == GetPowerMode(d)
           s == FromAnyMode(g)
<1>1. /\ Reads(d, g, 4)
      /\ g.rslt = "OK" =>
           /\ g.powermode = (IF Known(d.reg) THEN Actual(d.reg) ELSE d.stack)
           /\ g.powermode = "STANDBY" => d.reg.mode = "STANDBY"
  BY GetPowerModeReads
<1> HIDE DEF g
<1>2. Viewed(g) /\ g.reg = d.reg
  BY <1>1 DEF Reads
<1>3. CASE g.powermode # "STANDBY"
  <2>1. s = WritePowerMode(g, "STANDBY")
    BY <1>3 DEF FromAnyMode
  <2>2. Does(g, s, w, M, 2) /\ (s.rslt = "OK" => s.reg.mode = "STANDBY" /\ s.reg.deep_dis)
    BY <1>2, <2>1, WritePowerModeDoes
  <2>3. Does(d, s, w, M, 4 + 2)
    BY <1>1, <2>2, ReadsDoes, DoesThen
  <2> QED BY <2>2, <2>3 DEF g
<1>4. CASE g.powermode = "STANDBY"
  <2>1. s = g
    BY <1>4 DEF FromAnyMode
  <2>2. Does(d, g, w, M, 6)
    BY <1>1, ReadsDoes, DoesMore
  <2>3. g.rslt = "OK" => g.reg.mode = "STANDBY" /\ (Known(d.reg) => g.reg.deep_dis)
    BY <1>1, <1>2, <1>4 DEF Actual, Known
  <2> QED BY <2>1, <2>2, <2>3 DEF g
<1> QED BY <1>3, <1>4

\* A successful bmp5_set_power_mode leaves the sensor in the mode it was asked
\* for; only standby mode takes a valid mode before for that.
LEMMA SetPowerModeDoes ==
    ASSUME NEW d, Viewed(d), NEW m, NEW w, NEW M,
           m = "DEEP_STANDBY" => Asks(w, DeepSettings),
           m \in Measuring => m \in M
    PROVE  LET e == SetPowerMode(d, m)
           IN  /\ Does(d, e, w, M, 12)
               /\ e.rslt = "OK" =>
                    /\ m \in PowerModes
                    /\ (Known(d.reg) \/ m # "STANDBY") => Actual(e.reg) = m
                    /\ m = "STANDBY" => /\ e.reg.mode = "STANDBY"
                                        /\ Known(d.reg) => e.reg.deep_dis
                    /\ m = "DEEP_STANDBY" =>
                         \A f \in DOMAIN DeepSettings : e.reg[f] = DeepSettings[f]
<1> DEFINE s == FromAnyMode(GetPowerMode(d))
           e == FromStandby(s, m)
<1>1. /\ Does(d, s, w, M, 6)
      /\ s.rslt = "OK" => s.reg.mode = "STANDBY" /\ (Known(d.reg) => s.reg.deep_dis)
  BY FromAnyModeDoes
<1>2. SetPowerMode(d, m) = e
  BY DEF SetPowerMode
<1> HIDE DEF s
<1>3. Viewed(s) /\ Parked(s)
  BY <1>1 DEF Does, Writes, Parked
<1>4. CASE m = "DEEP_STANDBY"
  <2>1. e = SetDeepStandbyMode(s)
    BY <1>4 DEF FromStandby, Measuring
  <2>2. /\ Does(s, e, w, M, 6)
        /\ e.rslt = "OK" => /\ e.reg.mode = "STANDBY" /\ ~e.reg.deep_dis
                            /\ \A f \in DOMAIN DeepSettings : e.reg[f] = DeepSettings[f]
    BY <1>3, <1>4, <2>1, SetDeepStandbyModeDoes
  <2> HIDE DEF e
  <2>3. Does(d, e, w, M, 6 + 6)
    BY <1>1, <2>2, DoesThen
  <2>4. e.rslt = "OK" => Actual(e.reg) = m
    BY <1>4, <2>2 DEF Actual, DeepSettings, ODR_01_HZ, ODR_05_HZ, BYPASS
  <2> QED BY <1>2, <1>4, <2>2, <2>3, <2>4 DEF PowerModes
<1>5. CASE m = "STANDBY"
  <2>1. e = s
    BY <1>5 DEF FromStandby, Measuring
  <2>2. Does(d, s, w, M, 12)
    BY <1>1, DoesMore
  <2> QED BY <1>1, <1>2, <1>5, <2>1, <2>2 DEF PowerModes, Actual
<1>6. CASE m \in Measuring
  <2>1. e = WritePowerMode(s, m) /\ m # "STANDBY" /\ m # "DEEP_STANDBY"
    BY <1>6 DEF FromStandby, Measuring
  <2>2. Does(s, e, w, M, 2) /\ (e.rslt = "OK" => e.reg.mode = m /\ e.reg.deep_dis)
    BY <1>3, <1>6, <2>1, WritePowerModeDoes
  <2> HIDE DEF e
  <2>3. Does(d, e, w, M, 6 + 2)
    BY <1>1, <2>2, DoesThen
  <2>4. Does(d, e, w, M, 12)
    BY <2>3, DoesMore
  <2> QED BY <1>2, <1>6, <2>1, <2>2, <2>4 DEF PowerModes, Actual
<1>7. CASE m \notin PowerModes
  <2>1. e = Fail(s, "INVALID_POWERMODE")
    BY <1>7 DEF FromStandby, PowerModes
  <2>2. Reads(s, e, 0) /\ e.rslt # "OK"
    BY <1>3, <2>1, FailReads
  <2> HIDE DEF e
  <2>3. Does(d, e, w, M, 6 + 0)
    BY <1>1, <2>2, ReadsDoes, DoesThen
  <2>4. Does(d, e, w, M, 12)
    BY <2>3, DoesMore
  <2> QED BY <1>2, <2>2, <2>4
<1> QED BY <1>4, <1>5, <1>6, <1>7 DEF PowerModes

\* Leaving deep standby, which is all set_standby_mode does.
LEMMA SetStandbyModeDoes ==
    ASSUME NEW d, Viewed(d), NEW w, NEW M
    PROVE  LET e == SetStandbyMode(d)
           IN  /\ Does(d, e, w, M, 16)
               /\ e.rslt = "OK" /\ Known(d.reg) =>
                    /\ Actual(e.reg) = IF Actual(d.reg) = "DEEP_STANDBY" THEN "STANDBY"
                                       ELSE Actual(d.reg)
                    /\ e.reg.mode # "STANDBY" \/ e.reg.deep_dis
<1> DEFINE g == GetPowerMode(d)
           e == SetStandbyMode(d)
           p == SetPowerMode(g, "STANDBY")
<1>1. /\ Reads(d, g, 4)
      /\ g.rslt = "OK" =>
           g.powermode = (IF Known(d.reg) THEN Actual(d.reg) ELSE d.stack)
  BY GetPowerModeReads
<1>2. e = IF g.powermode = "DEEP_STANDBY" THEN p ELSE g
  BY DEF SetStandbyMode
<1> HIDE DEF g, e
<1>3. Viewed(g) /\ g.reg = d.reg
  BY <1>1 DEF Reads
<1>4. CASE g.powermode = "DEEP_STANDBY"
  <2>1. /\ Does(g, p, w, M, 12)
        /\ p.rslt = "OK" => /\ Known(g.reg) => Actual(p.reg) = "STANDBY"
                            /\ p.reg.mode = "STANDBY"
                            /\ Known(g.reg) => p.reg.deep_dis
    BY <1>3, SetPowerModeDoes DEF Measuring
  <2> HIDE DEF p
  <2>2. Does(d, p, w, M, 4 + 12)
    BY <1>1, <2>1, ReadsDoes, DoesThen
  <2>3. p.rslt = "OK" => g.rslt = "OK"
    BY <2>1 DEF Does, Writes
  <2> QED BY <1>1, <1>2, <1>3, <1>4, <2>1, <2>2, <2>3 DEF e
<1>5. CASE g.powermode # "DEEP_STANDBY"
  <2>1. Does(d, g, w, M, 16)
    BY <1>1, ReadsDoes, DoesMore
  <2>2. g.rslt = "OK" /\ Known(d.reg) => Actual(d.reg) # "DEEP_STANDBY"
    BY <1>1, <1>5
  <2>3. Known(d.reg) /\ Actual(d.reg) # "DEEP_STANDBY" => d.reg.mode # "STANDBY" \/ d.reg.deep_dis
    BY DEF Known, Actual
  <2> QED BY <1>2, <1>3, <1>5, <2>1, <2>2, <2>3 DEF e
<1> QED BY <1>4, <1>5

\* Before a protected field is written the sensor is in standby mode; the
\* mode before is kept.
LEMMA EnterStandbyDoes ==
    ASSUME NEW d, Viewed(d), NEW w, NEW M
    PROVE  LET e == EnterStandby(d)
           IN  /\ Does(d, e, w, M, 16)
               /\ e.rslt = "OK" =>
                    /\ e.reg.mode = "STANDBY"
                    /\ e.powermode = (IF Known(d.reg) THEN Actual(d.reg) ELSE d.stack)
                    /\ Known(d.reg) => e.reg.deep_dis
<1> DEFINE g == GetPowerMode(d)
           p == SetPowerMode(g, "STANDBY")
           s == IF g.powermode # "STANDBY" THEN p ELSE g
           e == [s EXCEPT !.powermode = g.powermode]
<1>1. /\ Reads(d, g, 4)
      /\ g.rslt = "OK" =>
           /\ g.powermode = (IF Known(d.reg) THEN Actual(d.reg) ELSE d.stack)
           /\ g.powermode = "STANDBY" => d.reg.mode = "STANDBY"
  BY GetPowerModeReads
<1>2. EnterStandby(d) = e
  BY DEF EnterStandby
<1> HIDE DEF g
<1>3. Viewed(g) /\ g.reg = d.reg
  BY <1>1 DEF Reads
<1>4. /\ Does(d, s, w, M, 16)
      /\ s.rslt = "OK" => /\ g.rslt = "OK" /\ s.reg.mode = "STANDBY"
                          /\ Known(d.reg) => s.reg.deep_dis
  <2>1. CASE g.powermode # "STANDBY"
    <3>1. /\ Does(g, p, w, M, 12)
          /\ p.rslt = "OK" => p.reg.mode = "STANDBY" /\ (Known(g.reg) => p.reg.deep_dis)
      BY <1>3, SetPowerModeDoes DEF Measuring
    <3> HIDE DEF p
    <3>2. Does(d, p, w, M, 4 + 12)
      BY <1>1, <3>1, ReadsDoes, DoesThen
    <3>3. p.rslt = "OK" => g.rslt = "OK"
      BY <3>1 DEF Does, Writes
    <3> QED BY <1>3, <2>1, <3>1, <3>2, <3>3
  <2>2. CASE g.powermode = "STANDBY"
    <3>1. Does(d, g, w, M, 16)
      BY <1>1, ReadsDoes, DoesMore
    <3>2. g.rslt = "OK" => g.reg.mode = "STANDBY" /\ (Known(d.reg) => g.reg.deep_dis)
      BY <1>1, <1>3, <2>2 DEF Actual, Known
    <3> QED BY <2>2, <3>1, <3>2
  <2> QED BY <2>1, <2>2
<1> HIDE DEF s
<1>5. DOMAIN s = ViewFields
  BY <1>4 DEF Does, Writes, Viewed
<1>6. /\ DOMAIN e = ViewFields /\ e.powermode = g.powermode
      /\ e.reg = s.reg /\ e.hot = s.hot /\ e.nvm = s.nvm /\ e.left = s.left /\ e.took = s.took
      /\ e.rslt = s.rslt /\ e.stack = s.stack /\ e.ready = s.ready
  BY <1>5 DEF ViewFields
<1> HIDE DEF e
<1>7. Does(d, e, w, M, 16)
  <2>1. Viewed(e)
    BY <1>4, <1>6 DEF Does, Writes, Viewed
  <2> QED BY <1>4, <1>6, <2>1 DEF Does, Writes
<1> QED BY <1>1, <1>2, <1>4, <1>6, <1>7

LEMMA SetPowerModeStuck ==
    ASSUME NEW d, d.rslt # "OK", NEW m
    PROVE  SetPowerMode(d, m) = d /\ LeaveStandby(d) = d /\ GetPowerMode(d) = d
<1>1. GetPowerMode(d) = d
  BY Stuck DEF GetPowerMode, CheckDeepstandbyMode
<1>2. FromAnyMode(d) = d
  BY Stuck DEF FromAnyMode, WritePowerMode
<1>3. SetDeepStandbyMode(d) = d
  BY Stuck DEF SetDeepStandbyMode
<1>4. \A x : FromStandby(d, x) = d
  BY <1>3, Stuck DEF FromStandby, WritePowerMode
<1>5. \A x : SetPowerMode(d, x) = d
  BY <1>1, <1>2, <1>4 DEF SetPowerMode
<1> QED BY <1>1, <1>5 DEF LeaveStandby

\* Going back to a mode that measures.
LEMMA LeaveStandbyDoes ==
    ASSUME NEW d, Viewed(d), NEW w, NEW M,
           d.rslt = "OK" /\ d.powermode \in Measuring => d.powermode \in M
    PROVE  LET e == LeaveStandby(d)
           IN  /\ Does(d, e, w, M, 12)
               /\ e.rslt = "OK" =>
                    IF d.powermode \in {"STANDBY", "DEEP_STANDBY"} THEN e.reg = d.reg
                    ELSE Actual(e.reg) = d.powermode
<1>1. CASE d.powermode \in {"STANDBY", "DEEP_STANDBY"} \/ d.rslt # "OK"
  <2>1. LeaveStandby(d) = d
    BY <1>1, SetPowerModeStuck DEF LeaveStandby
  <2> QED BY <1>1, <2>1, DoesNothing
<1>2. CASE d.powermode \notin {"STANDBY", "DEEP_STANDBY"} /\ d.rslt = "OK"
  <2>1. LeaveStandby(d) = SetPowerMode(d, d.powermode)
    BY <1>2 DEF LeaveStandby
  <2> QED BY <1>2, <2>1, SetPowerModeDoes
<1> QED BY <1>1, <1>2

-----------------------------------------------------------------------------
(***************************************************************************)
(* Settings.                                                               *)
(***************************************************************************)
\* The fields of u have been set.
Has(e, u) == \A f \in DOMAIN u \cap Settings : e.reg[f] = u[f]

LEMMA HasKept ==
    ASSUME NEW d, NEW e, NEW u, NEW w, NEW M, NEW k, Has(d, u), Asks(w, u), Does(d, e, w, M, k)
    PROVE  Has(e, u)
  BY DEF Has, Asks, Does, Writes

LEMMA SetsHas ==
    ASSUME NEW d, Viewed(d), NEW e, NEW u, Sets(d, e, u), e.rslt = "OK"
    PROVE  Has(e, u)
  BY Merged, SettingNames DEF Has, Sets, Viewed, Registers

\* The mode before a call is no mode the call adds.
LEMMA OwnMode ==
    ASSUME NEW d, NEW e, NEW w, NEW M, NEW k, Does(d, e, w, M \cup {d.reg.mode}, k)
    PROVE  Does(d, e, w, M, k)
  BY DEF Does, Writes

LEMMA DoesAsked ==
    ASSUME NEW d, NEW e, NEW u, NEW w, NEW M, NEW k, Does(d, e, u, M, k), Asks(w, u)
    PROVE  Does(d, e, w, M, k)
  BY DEF Does, Writes, Asks

KeepsMode(r, s) ==
    \/ Actual(s) = Actual(r)
    \/ Actual(r) = "DEEP_STANDBY" /\ Actual(s) = "STANDBY"

\* What is done between EnterStandby and LeaveStandby, up to p.
LEMMA InStandby ==
    ASSUME NEW d, Viewed(d), NEW p, NEW w, NEW M, NEW k \in Nat,
           d.rslt = "OK" /\ ~Known(d.reg) => d.stack \in M,
           \A N : Does(EnterStandby(d), p, w, N, k),
           p.powermode = EnterStandby(d).powermode,
           p.rslt = "OK" => /\ p.reg.mode = "STANDBY"
                            /\ p.reg.deep_dis = EnterStandby(d).reg.deep_dis
    PROVE  LET e == LeaveStandby(p)
           IN  /\ Does(d, e, w, M, k + 28)
               /\ Does(p, e, w, M \cup {d.reg.mode}, 12)
               /\ e.rslt = "OK" => p.rslt = "OK"
               /\ e.rslt = "OK" /\ Known(d.reg) => KeepsMode(d.reg, e.reg) /\ e.reg.deep_dis
<1> DEFINE g == EnterStandby(d)
           e == LeaveStandby(p)
           N == M \cup {d.reg.mode}
<1>1. /\ Does(d, g, w, N, 16)
      /\ g.rslt = "OK" =>
           /\ g.reg.mode = "STANDBY"
           /\ g.powermode = (IF Known(d.reg) THEN Actual(d.reg) ELSE d.stack)
           /\ Known(d.reg) => g.reg.deep_dis
  BY EnterStandbyDoes
<1>2. Does(g, p, w, N, k) /\ p.powermode = g.powermode
      /\ (p.rslt = "OK" => p.reg.mode = "STANDBY" /\ p.reg.deep_dis = g.reg.deep_dis)
  OBVIOUS
<1> HIDE DEF g
<1>3. Viewed(p) /\ (p.rslt = "OK" => g.rslt = "OK")
  BY <1>2 DEF Does, Writes
<1>4. p.rslt = "OK" /\ p.powermode \in Measuring => p.powermode \in N
  <2>1. g.rslt = "OK" => d.rslt = "OK"
    BY <1>1 DEF Does, Writes
  <2> QED BY <1>1, <1>2, <1>3, <2>1 DEF Actual, Measuring, N
<1> HIDE DEF N
<1>5. /\ Does(p, e, w, N, 12)
      /\ e.rslt = "OK" =>
           IF p.powermode \in {"STANDBY", "DEEP_STANDBY"} THEN e.reg = p.reg
           ELSE Actual(e.reg) = p.powermode
  BY <1>3, <1>4, LeaveStandbyDoes
<1> HIDE DEF e
<1>6. Does(d, p, w, N, 16 + k)
  BY <1>1, <1>2, DoesThen
<1>7. Does(d, e, w, N, (16 + k) + 12)
  BY <1>5, <1>6, DoesThen
<1>8. Does(d, e, w, N, k + 28)
  BY <1>7
<1>9. Does(d, e, w, M, k + 28)
  BY <1>8, OwnMode DEF N
<1>10. e.rslt = "OK" => p.rslt = "OK"
  BY <1>5 DEF Does, Writes
<1>11. e.rslt = "OK" /\ Known(d.reg) => KeepsMode(d.reg, e.reg)
  BY <1>1, <1>2, <1>3, <1>5, <1>10 DEF KeepsMode, Actual
<1>12. ASSUME e.rslt = "OK", Known(d.reg)
       PROVE  e.reg.deep_dis
  <2>1. p.powermode = Actual(d.reg) /\ p.reg.deep_dis
    BY <1>1, <1>2, <1>3, <1>10, <1>12
  <2>2. p.powermode \in Measuring \cup {"STANDBY", "DEEP_STANDBY"}
    BY <1>12, <2>1, FieldKinds DEF Actual, Known, Viewed
  <2>3. Registers(e.reg)
    BY <1>5 DEF Does, Writes, Viewed
  <2>4. CASE p.powermode \in {"STANDBY", "DEEP_STANDBY"}
    BY <1>5, <1>12, <2>1, <2>4
  <2>5. CASE p.powermode \in Measuring
    BY <1>5, <1>12, <2>3, <2>5 DEF Actual, Registers, Measuring
  <2> QED BY <2>2, <2>4, <2>5
<1> QED BY <1>5, <1>9, <1>10, <1>11, <1>12 DEF e, N

OsrOf(cfg) == [osr |-> cfg.osr]
OdrOf(cfg) == [odr |-> cfg.odr]

\* A rate other than 5 Hz leaves a valid mode as it is, or takes the sensor
\* from deep standby to standby mode.
LEMMA SetOsrOdrPressConfigDoes ==
    ASSUME NEW d, Viewed(d), NEW cfg, cfg.odr \in 0..31,
           NEW w, NEW M, Asks(w, OsrOf(cfg)), Asks(w, OdrOf(cfg))
    PROVE  LET e == SetOsrOdrPressConfig(d, cfg)
           IN  /\ Does(d, e, w, M, 19)
               /\ e.rslt = "OK" => Has(e, OsrOf(cfg)) /\ Has(e, OdrOf(cfg))
               /\ e.rslt = "OK" /\ Known(d.reg) /\ cfg.odr # ODR_05_HZ => KeepsMode(d.reg, e.reg)
<1> DEFINE u == OsrOf(cfg)
           v == OdrOf(cfg)
           s == IF cfg.odr < ODR_05_HZ THEN SetStandbyMode(d) ELSE d
           g == GetRegs(s)
           o == SetRegs(g, u)
           e == SetRegs(o, v)
<1>1. SetOsrOdrPressConfig(d, cfg) = e
  BY DEF SetOsrOdrPressConfig, OsrOf, OdrOf
<1>2. /\ Does(d, s, w, M, 16)
      /\ cfg.odr >= ODR_05_HZ => s = d
      /\ s.rslt = "OK" /\ Known(d.reg) /\ cfg.odr < ODR_05_HZ =>
           /\ Actual(s.reg) = IF Actual(d.reg) = "DEEP_STANDBY" THEN "STANDBY" ELSE Actual(d.reg)
           /\ s.reg.mode # "STANDBY" \/ s.reg.deep_dis
  BY SetStandbyModeDoes, DoesNothing DEF ODR_05_HZ
<1>3. /\ \A f \in DOMAIN u : InField(f, u[f])
      /\ \A f \in DOMAIN v : InField(f, v[f])
      /\ DOMAIN u = {"osr"} /\ DOMAIN v = {"odr"} /\ v.odr = cfg.odr
      /\ DOMAIN u \cap StandbyOnly = {} /\ DOMAIN v \cap StandbyOnly = {}
  <2>1. DOMAIN u = {"osr"} /\ DOMAIN v = {"odr"} /\ v.odr = cfg.odr
    BY DEF OsrOf, OdrOf
  <2>2. InField("osr", u.osr)
    BY FreeFields DEF TypedFields
  <2> HIDE DEF u, v
  <2>3. InField("odr", v.odr)
    BY <2>1, FieldKind
  <2>4. DOMAIN u \cap StandbyOnly = {} /\ DOMAIN v \cap StandbyOnly = {}
    BY <2>1 DEF StandbyOnly
  <2> QED BY <2>1, <2>2, <2>3, <2>4
<1> HIDE DEF u, v, s
<1>4. Viewed(s)
  BY <1>2 DEF Does, Writes
<1>5. Reads(s, g, 1)
  BY <1>4, GetRegsReads
<1> HIDE DEF g
<1>6. Viewed(g) /\ g.reg = s.reg /\ (g.rslt = "OK" => s.rslt = "OK")
  BY <1>5 DEF Reads
<1>7. Does(g, o, w, M, 1) /\ Sets(g, o, u)
  BY <1>3, <1>6, UpdateDoes DEF u
<1> HIDE DEF o
<1>8. Viewed(o)
  BY <1>7 DEF Does, Writes
<1>9. Does(o, e, w, M, 1) /\ Sets(o, e, v)
  BY <1>3, <1>8, UpdateDoes DEF v
<1> HIDE DEF e
<1>10. Does(d, g, w, M, 16 + 1)
  BY <1>2, <1>4, <1>5, ReadsDoes, DoesThen
<1>11. Does(d, o, w, M, 17 + 1)
  BY <1>7, <1>10, DoesThen
<1>12. Does(d, e, w, M, 18 + 1)
  BY <1>9, <1>11, DoesThen
<1>13. ASSUME e.rslt = "OK"
       PROVE  /\ Has(e, u) /\ Has(e, v)
              /\ Known(d.reg) /\ cfg.odr # ODR_05_HZ => KeepsMode(d.reg, e.reg)
  <2>1. o.rslt = "OK" /\ g.rslt = "OK" /\ s.rslt = "OK"
    BY <1>6, <1>7, <1>9, <1>13 DEF Does, Writes
  <2>2. Has(o, u) /\ Has(e, v)
    BY <1>6, <1>7, <1>8, <1>9, <1>13, <2>1, SetsHas
  <2>3. Has(e, u)
    BY <1>9, <2>2, HasKept DEF u
  <2>4. e.reg = With(With(s.reg, u), v)
    BY <1>6, <1>7, <1>9, <1>13, <2>1 DEF Sets
  <2>5. /\ e.reg.mode = s.reg.mode /\ e.reg.deep_dis = s.reg.deep_dis
        /\ e.reg.iir = s.reg.iir /\ e.reg.frame_sel = s.reg.frame_sel /\ e.reg.odr = cfg.odr
    BY <1>3, <1>4, <2>4, Merged, FieldNames DEF Viewed, Registers
  <2>6. CASE cfg.odr < ODR_05_HZ
    BY <1>2, <2>1, <2>5, <2>6, <2>2, <2>3 DEF KeepsMode, Actual
  <2>7. CASE cfg.odr > ODR_05_HZ
    <3>1. s = d
      BY <1>2, <2>7 DEF ODR_05_HZ
    <3>2. Known(d.reg) => Actual(e.reg) = Actual(d.reg)
      BY <2>5, <2>7, <3>1 DEF Actual, Known
    <3> QED BY <2>2, <2>3, <3>2 DEF KeepsMode
  <2>8. cfg.odr < ODR_05_HZ \/ cfg.odr > ODR_05_HZ \/ cfg.odr = ODR_05_HZ
    BY DEF ODR_05_HZ
  <2> QED BY <2>2, <2>3, <2>6, <2>7, <2>8
<1> QED BY <1>1, <1>12, <1>13 DEF u, v

ShdwOf(cfg) == [shdw |-> cfg.shdw]
IirOf(cfg) == [iir |-> cfg.iir]

\* A call that ends in standby mode, with deep standby disabled or not as before.
StaysParked(d, e) ==
    e.rslt = "OK" => e.reg.mode = "STANDBY" /\ e.reg.deep_dis = d.reg.deep_dis

\* Setting fields, protected ones too, in standby mode.
LEMMA ParkedDoes ==
    ASSUME NEW d, Viewed(d), Parked(d), NEW u, NEW w, NEW M, Asks(w, u),
           \A f \in DOMAIN u : InField(f, u[f]),
           "mode" \notin DOMAIN u, "deep_dis" \notin DOMAIN u,
           NEW e, e \in {Update(d, u), SetRegs(d, u)}
    PROVE  /\ Does(d, e, w, M, 2) /\ Viewed(e) /\ Parked(e)
           /\ e.powermode = d.powermode
           /\ e.rslt = "OK" => d.rslt = "OK" /\ Has(e, u)
           /\ StaysParked(d, e)
<1>1. Does(d, e, w, M, 2) /\ Sets(d, e, u)
  BY UpdateDoes, DoesMore
<1>2. With(d.reg, u).mode = d.reg.mode /\ With(d.reg, u).deep_dis = d.reg.deep_dis
  BY Merged, FieldNames DEF Viewed, Registers
<1>3. e.rslt = "OK" => d.rslt = "OK"
  BY <1>1 DEF Does, Writes
<1>4. e.rslt = "OK" => Has(e, u)
  BY <1>1, SetsHas
<1>5. StaysParked(d, e) /\ Parked(e)
  BY <1>1, <1>2, <1>3 DEF StaysParked, Sets, Parked
<1> QED BY <1>1, <1>3, <1>4, <1>5 DEF Does, Writes, Sets

\* Two of them.
LEMMA ParkedTwice ==
    ASSUME NEW d, Viewed(d), Parked(d), NEW u, NEW v, NEW w, NEW M, Asks(w, u), Asks(w, v),
           \A f \in DOMAIN u : InField(f, u[f]), \A f \in DOMAIN v : InField(f, v[f]),
           "mode" \notin DOMAIN u, "deep_dis" \notin DOMAIN u,
           "mode" \notin DOMAIN v, "deep_dis" \notin DOMAIN v,
           NEW o, o = Update(d, u), NEW e, e \in {Update(o, v), SetRegs(o, v)}
    PROVE  /\ Does(d, e, w, M, 4)
           /\ e.powermode = d.powermode
           /\ e.rslt = "OK" => Has(e, u) /\ Has(e, v)
           /\ StaysParked(d, e)
<1>1. /\ Does(d, o, w, M, 2) /\ Viewed(o) /\ Parked(o) /\ o.powermode = d.powermode
      /\ o.rslt = "OK" => Has(o, u)
      /\ StaysParked(d, o)
  BY ParkedDoes
<1>2. /\ Does(o, e, w, M, 2) /\ e.powermode = o.powermode
      /\ e.rslt = "OK" => o.rslt = "OK" /\ Has(e, v)
      /\ StaysParked(o, e)
  BY <1>1, ParkedDoes
<1>3. Does(d, e, w, M, 2 + 2)
  BY <1>1, <1>2, DoesThen
<1>4. e.rslt = "OK" => Has(e, u)
  BY <1>1, <1>2, HasKept
<1> QED BY <1>1, <1>2, <1>3, <1>4 DEF StaysParked

\* From a valid mode, or one that the stack names, a protected setting is
\* changed in standby mode and the mode before taken again.
Configures(d, e, w, M, k) ==
    /\ Does(d, e, w, M, k)
    /\ e.rslt = "OK" /\ Known(d.reg) => KeepsMode(d.reg, e.reg) /\ e.reg.deep_dis

\* Where a setting would undo deep standby, the sensor leaves it first.
LEMMA StandbyFirst ==
    ASSUME NEW d, Viewed(d), NEW c, NEW w, NEW M
    PROVE  LET s == IF c THEN SetStandbyMode(d) ELSE d
           IN  /\ Does(d, s, w, M, 16) /\ Viewed(s)
               /\ s.rslt = "OK" => d.rslt = "OK"
               /\ s.stack = d.stack
               /\ s.rslt = "OK" /\ Known(d.reg) => Known(s.reg) /\ KeepsMode(d.reg, s.reg)
<1>1. CASE c
  <2> DEFINE s == SetStandbyMode(d)
  <2>1. /\ Does(d, s, w, M, 16)
        /\ s.rslt = "OK" /\ Known(d.reg) =>
             Actual(s.reg) = IF Actual(d.reg) = "DEEP_STANDBY" THEN "STANDBY" ELSE Actual(d.reg)
    BY SetStandbyModeDoes
  <2> HIDE DEF s
  <2>2. Viewed(s) /\ s.stack = d.stack /\ (s.rslt = "OK" => d.rslt = "OK")
    BY <2>1 DEF Does, Writes
  <2>3. s.rslt = "OK" /\ Known(d.reg) => Known(s.reg) /\ KeepsMode(d.reg, s.reg)
    BY <2>1 DEF Known, KeepsMode
  <2> QED BY <1>1, <2>1, <2>2, <2>3 DEF s
<1>2. CASE ~c
  <2>1. Does(d, d, w, M, 16)
    BY DoesNothing
  <2> QED BY <1>2, <2>1 DEF KeepsMode
<1> QED BY <1>1, <1>2

\* Changing a protected setting, from s on.
LEMMA StandbyFirstThen ==
    ASSUME NEW d, Viewed(d), NEW s, NEW p, NEW w, NEW M, NEW k \in Nat,
           Does(d, s, w, M, 16), s.stack = d.stack,
           s.rslt = "OK" /\ Known(d.reg) => Known(s.reg) /\ KeepsMode(d.reg, s.reg),
           ~Known(d.reg) => d.stack \in M,
           \A N : Does(EnterStandby(s), p, w, N, k),
           p.powermode = EnterStandby(s).powermode, StaysParked(EnterStandby(s), p)
    PROVE  LET e == LeaveStandby(p)
           IN  /\ Configures(d, e, w, M, k + 44)
               /\ Does(p, e, w, M \cup {s.reg.mode}, 12)
               /\ e.rslt = "OK" => p.rslt = "OK"
<1> DEFINE e == LeaveStandby(p)
<1>1. Viewed(s) /\ (s.rslt = "OK" /\ ~Known(s.reg) => s.stack \in M)
  BY DEF Does, Writes
<1>2. /\ Does(s, e, w, M, k + 28)
      /\ Does(p, e, w, M \cup {s.reg.mode}, 12)
      /\ e.rslt = "OK" => p.rslt = "OK"
      /\ e.rslt = "OK" /\ Known(s.reg) => KeepsMode(s.reg, e.reg) /\ e.reg.deep_dis
  <2>1. p.rslt = "OK" => /\ p.reg.mode = "STANDBY"
                         /\ p.reg.deep_dis = EnterStandby(s).reg.deep_dis
    BY DEF StaysParked
  <2> QED BY <1>1, <2>1, InStandby
<1> HIDE DEF e
<1>3. Does(d, e, w, M, 16 + (k + 28))
  BY <1>2, DoesThen
<1>4. 16 + (k + 28) = k + 44
  OBVIOUS
<1>5. e.rslt = "OK" => s.rslt = "OK"
  BY <1>2 DEF Does, Writes
<1>6. e.rslt = "OK" /\ Known(d.reg) => KeepsMode(d.reg, e.reg) /\ e.reg.deep_dis
  BY <1>2, <1>5 DEF KeepsMode
<1>7. Configures(d, e, w, M, k + 44)
  BY <1>3, <1>4, <1>6 DEF Configures
<1> QED BY <1>2, <1>7 DEF e

LEMMA Parks ==
    ASSUME NEW d, Viewed(d)
    PROVE  Viewed(EnterStandby(d)) /\ Parked(EnterStandby(d))
  BY EnterStandbyDoes DEF Does, Writes, Parked

LEMMA SetIirConfigDoes ==
    ASSUME NEW d, Viewed(d), NEW cfg, NEW w, NEW M, ~Known(d.reg) => d.stack \in M,
           Asks(w, ShdwOf(cfg)), Asks(w, IirOf(cfg))
    PROVE  LET e == SetIirConfig(d, cfg)
           IN  /\ Configures(d, e, w, M, 48)
               /\ e.rslt = "OK" => Has(e, ShdwOf(cfg)) /\ Has(e, IirOf(cfg))
<1> DEFINE u == ShdwOf(cfg)
           v == IirOf(cfg)
           s == IF cfg.iir # BYPASS THEN SetStandbyMode(d) ELSE d
           g == EnterStandby(s)
           o == Update(g, u)
           p == SetRegs(o, v)
           e == LeaveStandby(p)
<1>1. SetIirConfig(d, cfg) = e
  BY DEF SetIirConfig, WriteIirConfig, ShdwOf, IirOf
<1>2. /\ \A f \in DOMAIN u : InField(f, u[f])
      /\ \A f \in DOMAIN v : InField(f, v[f])
      /\ DOMAIN u = {"shdw"} /\ DOMAIN v = {"iir"}
  BY FreeFields DEF ShdwOf, IirOf, TypedFields
<1>3. /\ Does(d, s, w, M, 16) /\ Viewed(s) /\ s.stack = d.stack
      /\ s.rslt = "OK" /\ Known(d.reg) => Known(s.reg) /\ KeepsMode(d.reg, s.reg)
  BY StandbyFirst
<1> HIDE DEF u, v, s
<1>4. Viewed(g) /\ Parked(g)
  BY <1>3, Parks
<1> HIDE DEF g
<1>5. ASSUME NEW N
      PROVE  /\ Does(g, p, w, N, 4) /\ p.powermode = g.powermode
             /\ p.rslt = "OK" => Has(p, u) /\ Has(p, v)
             /\ StaysParked(g, p)
  BY <1>2, <1>4, ParkedTwice DEF u, v
<1> HIDE DEF p
<1>6. /\ Configures(d, e, w, M, 4 + 44)
      /\ Does(p, e, w, M \cup {s.reg.mode}, 12)
      /\ e.rslt = "OK" => p.rslt = "OK"
  BY <1>3, <1>5, StandbyFirstThen DEF g
<1> HIDE DEF e
<1>7. e.rslt = "OK" => Has(e, u) /\ Has(e, v)
  BY <1>5, <1>6, HasKept DEF u, v
<1> QED BY <1>1, <1>6, <1>7 DEF u, v

-----------------------------------------------------------------------------
(***************************************************************************)
(* Interrupts, reset and initialization.                                   *)
(***************************************************************************)
LEMMA GetInterruptStatusDoes ==
    ASSUME NEW d, Viewed(d), NEW w, NEW M
    PROVE  LET e == GetInterruptStatus(d)
           IN  /\ Does(d, e, w, M, 1)
               /\ \A f \in Fields \ {"por"} : e.reg[f] = d.reg[f]
               /\ e.powermode = d.powermode
<1> DEFINE g == GetRegs(d)
           r == [g.reg EXCEPT !["por"] = FALSE]
           e == [g EXCEPT !.data = d.reg.por, !.reg.por = FALSE]
<1>1. Reads(d, g, 1) /\ g.powermode = d.powermode
  BY GetRegsReads DEF GetRegs, Viewed, ViewFields
<1>2. CASE g.rslt = "OK"
  <2>1. GetInterruptStatus(d) = e
    BY <1>2 DEF GetInterruptStatus
  <2> HIDE DEF g
  <2>2. Viewed(g) /\ g.reg = d.reg /\ DOMAIN g = ViewFields
    BY <1>1 DEF Reads, Viewed
  <2>3. /\ DOMAIN e = ViewFields /\ e.reg = r
        /\ e.rslt = g.rslt /\ e.nvm = g.nvm /\ e.left = g.left /\ e.took = g.took
        /\ e.ready = g.ready /\ e.stack = g.stack /\ e.hot = g.hot
        /\ e.powermode = g.powermode
    BY <2>2 DEF ViewFields
  <2> HIDE DEF e
  <2>4. DOMAIN r = Fields /\ \A f \in Fields \ {"por"} : r[f] = d.reg[f]
    BY <2>2 DEF Viewed, Registers
  <2> HIDE DEF r
  <2>5. InField("por", r["por"])
    BY FreeFields DEF TypedFields
  <2>6. r.mode = d.reg.mode /\ r.deep_dis = d.reg.deep_dis
    BY <2>4, FieldNames
  <2>7. Registers(r)
    <3>1. \A f \in Fields : InField(f, r[f])
      BY <2>4, <2>5 DEF Viewed, Registers
    <3> QED BY <2>4, <2>6, <3>1 DEF Viewed, Registers
  <2>8. Viewed(e)
    BY <2>2, <2>3, <2>7 DEF Viewed
  <2>9. Does(d, e, w, M, 1)
    BY <1>1, <2>3, <2>4, <2>6, <2>8, SettingNames DEF Reads, Does, Writes
  <2> QED BY <1>1, <2>1, <2>3, <2>4, <2>9
<1>3. CASE g.rslt # "OK"
  <2>1. GetInterruptStatus(d) = g
    BY <1>3 DEF GetInterruptStatus
  <2> HIDE DEF g
  <2>2. Does(d, g, w, M, 1) /\ g.reg = d.reg
    BY <1>1, ReadsDoes DEF Reads
  <2> QED BY <1>1, <2>1, <2>2
<1> QED BY <1>2, <1>3

LEMMA DummyReadReads ==
    ASSUME NEW d, Viewed(d)
    PROVE  Reads(d, DummyRead(d), 1)
  BY GetRegsReads DEF DummyRead, Reads, Viewed

\* A reset is complete or does nothing.
LEMMA SoftResetDoes ==
    ASSUME NEW d, Viewed(d), NEW w, NEW M, Asks(w, ResetValues)
    PROVE  LET e == SoftReset(d)
           IN  /\ Does(d, e, w, M, 3)
               /\ \/ \A f \in Fields \ {"por"} : e.reg[f] = d.reg[f]
                  \/ \A f \in Fields \ {"por"} : e.reg[f] = ResetValues[f]
               /\ e.rslt = "OK" => \A f \in Fields \ {"por"} : e.reg[f] = ResetValues[f]
<1> DEFINE g == GetRegs(d)
           b == SetRegs(d, ResetValues)
           c == [b EXCEPT !.hot = d.hot]
           y == DummyRead(c)
           s == GetInterruptStatus(y)
           e == IF s.data THEN s ELSE Fail(s, "POR_SOFTRESET")
           Unchanged(x) == \A f \in Fields \ {"por"} : x.reg[f] = d.reg[f]
           Reinitialized(x) == \A f \in Fields \ {"por"} : x.reg[f] = ResetValues[f]
<1>1. SoftReset(d) = e
  BY DEF SoftReset
<1>2. Registers(ResetValues) /\ With(d.reg, ResetValues) = ResetValues
  <2>1. DOMAIN ResetValues = Fields /\ DOMAIN d.reg = Fields
    BY DEF Fields, Viewed, Registers
  <2>2. ResetValues.mode = "STANDBY" /\ ResetValues.deep_dis = FALSE
        /\ ResetValues.odr = 28 /\ ResetValues.threshold = 0 /\ ResetValues.frame_sel = 0
        /\ ResetValues.oor_lsb = 0 /\ ResetValues.oor_msb = 0 /\ ResetValues.oor_xmsb = 0
        /\ ResetValues.nvm_addr = 0 /\ ResetValues.nvm_data = 0
    BY DEF ResetValues, ODR_01_HZ
  <2>3. ASSUME NEW f \in Fields
        PROVE  InField(f, ResetValues[f])
    <3>1. CASE f \notin TypedFields
      BY <3>1, FreeFields
    <3>2. 0 \in Word16
      <4>1. 2^16 = 256 * 256
        BY Powers
      <4> QED BY <4>1 DEF Word16, Unsigned
    <3>3. /\ InField("mode", ResetValues["mode"]) /\ InField("deep_dis", ResetValues["deep_dis"])
      BY <2>2 DEF InField
    <3>7. InField("odr", ResetValues["odr"])
      BY <2>2 DEF InField
    <3>4. /\ InField("threshold", ResetValues["threshold"])
          /\ InField("frame_sel", ResetValues["frame_sel"])
          /\ InField("oor_lsb", ResetValues["oor_lsb"])
      BY <2>2, FieldKind
    <3>5. /\ InField("oor_msb", ResetValues["oor_msb"])
          /\ InField("oor_xmsb", ResetValues["oor_xmsb"])
          /\ InField("nvm_addr", ResetValues["nvm_addr"])
          /\ InField("nvm_data", ResetValues["nvm_data"])
      BY <2>2, <3>2, FieldKind
    <3>6. CASE f \in TypedFields
      BY <3>3, <3>4, <3>5, <3>6, <3>7 DEF TypedFields
    <3> QED BY <3>1, <3>6
  <2>4. With(d.reg, ResetValues) = ResetValues
    <3>1. ResetValues = [f \in Fields |-> ResetValues[f]]
      BY DEF Fields, ResetValues
    <3>2. With(d.reg, ResetValues) = [f \in Fields |-> ResetValues[f]]
      BY <2>1 DEF With
    <3> QED BY <3>1, <3>2
  <2> QED BY <2>1, <2>2, <2>3, <2>4 DEF Registers
<1>3. /\ Reads(d, g, 1)
      /\ d.rslt # "OK" => g = d
  BY GetRegsReads, Stuck
<1>4. /\ DOMAIN b = ViewFields
      /\ b.reg = d.reg \/ b.reg = ResetValues
      /\ b.rslt = "OK" => b.reg = ResetValues
      /\ b.rslt = g.rslt /\ b.nvm = g.nvm /\ b.left = g.left /\ b.took = g.took
      /\ b.ready = g.ready /\ b.stack = g.stack
  <2> DEFINE x == [g EXCEPT !.reg = With(@, ResetValues),
                            !.hot = @ \/ (d.reg.mode # "STANDBY"
                                          /\ DOMAIN ResetValues \cap StandbyOnly # {})]
  <2>1. b = x \/ (b = g /\ g.rslt # "OK")
    BY DEF SetRegs
  <2> HIDE DEF g, b
  <2>2. Viewed(g) /\ g.reg = d.reg
    BY <1>3 DEF Reads
  <2>3. DOMAIN g = ViewFields
    BY <2>2 DEF Viewed
  <2>4. /\ DOMAIN x = ViewFields /\ x.reg = With(g.reg, ResetValues)
        /\ x.rslt = g.rslt /\ x.nvm = g.nvm /\ x.left = g.left /\ x.took = g.took
        /\ x.ready = g.ready /\ x.stack = g.stack
    BY <2>3 DEF ViewFields
  <2> HIDE DEF x
  <2> QED BY <1>2, <2>1, <2>2, <2>3, <2>4
<1> HIDE DEF b, g
<1>5. /\ DOMAIN c = ViewFields /\ c.hot = d.hot
      /\ c.reg = d.reg \/ c.reg = ResetValues
      /\ c.rslt = "OK" => c.reg = ResetValues
      /\ c.rslt = g.rslt /\ c.nvm = g.nvm /\ c.left = g.left /\ c.took = g.took
      /\ c.ready = g.ready /\ c.stack = g.stack
  BY <1>4 DEF ViewFields
<1> HIDE DEF c
<1>6. Viewed(c)
  BY <1>2, <1>3, <1>5 DEF Viewed, Reads
<1>7. /\ Does(d, c, w, M, 1)
      /\ Unchanged(c) \/ Reinitialized(c)
      /\ c.rslt = "OK" => Reinitialized(c)
  <2>1. \A f \in Settings : c.reg[f] = d.reg[f] \/ (f \in DOMAIN w /\ c.reg[f] = w[f])
    BY <1>5, SettingNames DEF Asks, Fields
  <2>2. c.reg.mode \in {d.reg.mode, "STANDBY"} \cup M
    BY <1>5 DEF ResetValues
  <2> QED BY <1>3, <1>5, <1>6, <2>1, <2>2 DEF Does, Writes, Reads
<1>8. Reads(c, y, 1)
  BY <1>6, DummyReadReads
<1> HIDE DEF y
<1>9. Viewed(y) /\ y.reg = c.reg
  BY <1>8 DEF Reads
<1>10. /\ Does(y, s, w, M, 1) /\ Viewed(s)
       /\ \A f \in Fields \ {"por"} : s.reg[f] = y.reg[f]
  <2>1. Does(y, s, w, M, 1) /\ \A f \in Fields \ {"por"} : s.reg[f] = y.reg[f]
    BY <1>9, GetInterruptStatusDoes
  <2> QED BY <2>1 DEF Does, Writes
<1> HIDE DEF s
<1>11. Reads(s, e, 0)
  <2>1. Reads(s, s, 0)
    BY <1>10 DEF Reads, Viewed
  <2>2. Reads(s, Fail(s, "POR_SOFTRESET"), 0)
    BY <1>10, FailReads
  <2> QED BY <2>1, <2>2
<1> HIDE DEF e
<1>12. Does(d, y, w, M, 1 + 1)
  BY <1>7, <1>8, ReadsDoes, DoesThen
<1>13. Does(d, s, w, M, 2 + 1)
  BY <1>10, <1>12, DoesThen
<1>14. Does(d, e, w, M, 3 + 0)
  BY <1>11, <1>13, ReadsDoes, DoesThen
<1>15. \A f \in Fields \ {"por"} : e.reg[f] = c.reg[f]
  BY <1>9, <1>10, <1>11 DEF Reads
<1>16. e.rslt = "OK" => c.rslt = "OK"
  BY <1>8, <1>10, <1>11 DEF Reads, Does, Writes
<1> QED BY <1>1, <1>7, <1>14, <1>15, <1>16

LEMMA InitSensorReads ==
    ASSUME NEW d, Viewed(d)
    PROVE  Reads(d, InitSensor(d), 3)
<1> DEFINE y == DummyRead(d)
           c == GetRegs(y)
           g == GetRegs(c)
           n == NvmReadyCheck(c)
           e == InitSensor(d)
<1>1. Reads(d, y, 1) /\ Viewed(y)
  BY DummyReadReads DEF Reads
<1>2. e = IF ChipId = 0 THEN Fail(c, "INVALID_CHIP_ID") ELSE ValidateChipId(n)
  BY DEF InitSensor
<1> HIDE DEF y, e
<1>3. Reads(y, c, 1) /\ Viewed(c)
  BY <1>1, GetRegsReads DEF Reads
<1>4. n = IF c.ready THEN g ELSE Fail(g, "NVM_NOT_READY")
  BY DEF NvmReadyCheck
<1> HIDE DEF c, n
<1>5. Reads(d, c, 1 + 1)
  BY <1>1, <1>3, ReadsThen
<1>6. Reads(c, g, 1) /\ Viewed(g) /\ g.ready = c.ready
  BY <1>3, GetRegsReads DEF Reads
<1> HIDE DEF g
<1>7. Reads(c, n, 1 + 0) /\ Viewed(n)
  <2>1. CASE ~c.ready
    <3>1. Reads(g, n, 0)
      BY <1>4, <1>6, <2>1, FailReads
    <3> QED BY <1>3, <1>6, <3>1, ReadsThen DEF Reads
  <2>2. CASE c.ready
    BY <1>4, <1>6, <2>2
  <2> QED BY <2>1, <2>2
<1>8. Reads(d, n, 2 + 1)
  BY <1>5, <1>7, ReadsThen
<1>9. CASE ChipId = 0
  <2>1. Reads(c, e, 0)
    BY <1>2, <1>3, <1>9, FailReads
  <2>2. Reads(d, e, 2 + 0)
    BY <1>5, <2>1, ReadsThen
  <2> QED BY <2>2 DEF Reads, Viewed, e
<1>10. CASE ChipId # 0
  <2>1. e = n \/ e = Fail(n, "DEV_NOT_FOUND")
    BY <1>2, <1>10 DEF ValidateChipId
  <2>2. Reads(n, Fail(n, "DEV_NOT_FOUND"), 0)
    BY <1>7, FailReads
  <2>3. Reads(d, Fail(n, "DEV_NOT_FOUND"), 3 + 0)
    BY <1>8, <2>2, ReadsThen
  <2> QED BY <1>8, <2>1, <2>3 DEF e
<1> QED BY <1>9, <1>10

-----------------------------------------------------------------------------
SourcesOf(x) == [int_source |-> x]
PinOf(x) == [int_config |-> x]

\* Two registers in the same power mode.
SamePower(r, s) ==
    /\ s.mode = r.mode /\ s.deep_dis = r.deep_dis
    /\ s.odr = r.odr /\ s.iir = r.iir /\ s.frame_sel = r.frame_sel

LEMMA SamePowerSameMode ==
    ASSUME NEW r, NEW s, SamePower(r, s)
    PROVE  Actual(s) = Actual(r)
  BY DEF SamePower, Actual

PowerFields == {"mode", "deep_dis", "odr", "iir", "frame_sel"}

LEMMA SetsSamePower ==
    ASSUME NEW d, Viewed(d), NEW e, NEW u, Sets(d, e, u), DOMAIN u \cap PowerFields = {}
    PROVE  SamePower(d.reg, e.reg)
<1>1. SamePower(d.reg, With(d.reg, u))
  BY Merged, FieldNames DEF Viewed, Registers, SamePower, PowerFields
<1> QED BY <1>1 DEF Sets, SamePower

LEMMA IntSourceSelectDoes ==
    ASSUME NEW d, Viewed(d), NEW x, NEW w, NEW M, Asks(w, SourcesOf(x))
    PROVE  LET e == IntSourceSelect(d, x)
           IN  /\ Does(d, e, w, M, 2)
               /\ e.rslt = "OK" => Has(e, SourcesOf(x))
               /\ SamePower(d.reg, e.reg)
               /\ e.rslt \in {d.rslt, "COM_FAIL"}
<1> DEFINE u == SourcesOf(x)
           e == Update(d, u)
<1>1. IntSourceSelect(d, x) = e
  BY DEF IntSourceSelect, SourcesOf
<1>2. DOMAIN u = {"int_source"} /\ \A f \in DOMAIN u : InField(f, u[f])
  BY FreeFields DEF SourcesOf, TypedFields
<1>3. DOMAIN u \cap StandbyOnly = {} /\ DOMAIN u \cap PowerFields = {}
  BY <1>2 DEF StandbyOnly, PowerFields
<1> HIDE DEF u
<1>4. Does(d, e, w, M, 2) /\ Sets(d, e, u)
  BY <1>2, <1>3, UpdateDoes DEF u
<1> HIDE DEF e
<1>5. SamePower(d.reg, e.reg)
  BY <1>3, <1>4, SetsSamePower
<1> QED BY <1>1, <1>4, <1>5, SetsHas DEF u, Sets

\* The pin is reconfigured only once all sources are off.
LEMMA ConfigureInterruptDoes ==
    ASSUME NEW d, Viewed(d), NEW x, NEW w, NEW M, Asks(w, SourcesOf(0)), Asks(w, PinOf(x))
    PROVE  LET e == ConfigureInterrupt(d, x)
           IN  /\ Does(d, e, w, M, 4)
               /\ e.rslt = "OK" => Has(e, SourcesOf(0)) /\ Has(e, PinOf(x))
               /\ SamePower(d.reg, e.reg)
               /\ e.reg.int_config = d.reg.int_config \/ e.reg.int_source = 0
<1> DEFINE u == SourcesOf(0)
           v == PinOf(x)
           o == Update(d, u)
           i == GetInterruptStatus(o)
           e == SetRegs(i, v)
<1>1. ConfigureInterrupt(d, x) = e
  BY DEF ConfigureInterrupt, SourcesOf, PinOf
<1>2. /\ DOMAIN u = {"int_source"} /\ u.int_source = 0 /\ DOMAIN v = {"int_config"}
      /\ \A f \in DOMAIN u : InField(f, u[f])
      /\ \A f \in DOMAIN v : InField(f, v[f])
  BY FreeFields DEF SourcesOf, PinOf, TypedFields
<1>3. /\ DOMAIN u \cap StandbyOnly = {} /\ DOMAIN u \cap PowerFields = {}
      /\ DOMAIN v \cap StandbyOnly = {} /\ DOMAIN v \cap PowerFields = {}
  BY <1>2 DEF StandbyOnly, PowerFields
<1> HIDE DEF u, v
<1>4. Does(d, o, w, M, 2) /\ Sets(d, o, u)
  BY <1>2, <1>3, UpdateDoes DEF u
<1> HIDE DEF o
<1>5. Viewed(o)
  BY <1>4 DEF Does, Writes
<1>6. /\ Does(o, i, w, M, 1)
      /\ \A f \in Fields \ {"por"} : i.reg[f] = o.reg[f]
  BY <1>5, GetInterruptStatusDoes
<1> HIDE DEF i
<1>7. Viewed(i)
  BY <1>6 DEF Does, Writes
<1>8. Does(i, e, w, M, 1) /\ Sets(i, e, v)
  BY <1>2, <1>3, <1>7, UpdateDoes DEF v
<1> HIDE DEF e
<1>9. Does(d, i, w, M, 2 + 1)
  BY <1>4, <1>6, DoesThen
<1>10. Does(d, e, w, M, 3 + 1)
  BY <1>8, <1>9, DoesThen
<1>11. SamePower(d.reg, e.reg)
  <2>1. SamePower(d.reg, o.reg) /\ SamePower(i.reg, e.reg)
    BY <1>3, <1>4, <1>5, <1>7, <1>8, SetsSamePower
  <2>2. SamePower(o.reg, i.reg)
    BY <1>6, FieldNames DEF SamePower
  <2> QED BY <2>1, <2>2 DEF SamePower
<1>12. e.rslt = "OK" => Has(e, u) /\ Has(e, v)
  <2>1. e.rslt = "OK" => i.rslt = "OK" /\ o.rslt = "OK"
    BY <1>6, <1>8 DEF Does, Writes
  <2>2. e.rslt = "OK" => Has(o, u) /\ Has(e, v)
    BY <1>4, <1>7, <1>8, <2>1, SetsHas
  <2> QED BY <1>6, <1>8, <2>2, HasKept DEF u
<1>13. e.reg.int_config = d.reg.int_config \/ e.reg.int_source = 0
  <2>1. DOMAIN d.reg = Fields /\ DOMAIN i.reg = Fields /\ DOMAIN o.reg = Fields
    BY <1>5, <1>7 DEF Viewed, Registers
  <2>2. With(d.reg, u).int_config = d.reg.int_config /\ With(d.reg, u).int_source = 0
    BY <1>2, <2>1, Merged, FieldNames
  <2>3. With(i.reg, v).int_source = i.reg.int_source
    BY <1>2, <2>1, Merged, FieldNames
  <2>4. i.reg.int_source = o.reg.int_source /\ i.reg.int_config = o.reg.int_config
    BY <1>6, FieldNames
  <2>5. o.reg.int_config = d.reg.int_config
    BY <1>4, <2>2 DEF Sets
  <2>6. CASE i.rslt # "OK"
    <3>1. e.reg = i.reg
      BY <1>8, <2>6 DEF Sets
    <3> QED BY <2>4, <2>5, <3>1
  <2>7. CASE i.rslt = "OK"
    <3>1. o.rslt = "OK"
      BY <1>6, <2>7 DEF Does, Writes
    <3>2. o.reg.int_source = 0
      BY <1>4, <2>2, <3>1 DEF Sets
    <3>3. e.reg.int_source = 0
      BY <1>8, <2>3, <2>4, <3>2 DEF Sets
    <3> QED BY <3>3
  <2> QED BY <2>6, <2>7
<1> QED BY <1>1, <1>10, <1>11, <1>12, <1>13 DEF u, v

LEMMA GettersRead ==
    ASSUME NEW d, Viewed(d)
    PROVE  /\ Reads(d, GetOsrOdrPressConfig(d), 1)
           /\ Reads(d, GetFifoConfiguration(d), 3)
           /\ \A press_en, raw : Reads(d, GetSensorData(d, press_en, raw), 1)
<1> DEFINE e == GetRegs(d)
           f == GetRegs(e)
           g == GetRegs(f)
<1>1. Reads(d, e, 1) /\ Viewed(e)
  BY GetRegsReads DEF Reads
<1>2. Reads(e, f, 1) /\ Viewed(f)
  BY <1>1, GetRegsReads DEF Reads
<1>3. Reads(f, g, 1) /\ Viewed(g)
  BY <1>2, GetRegsReads DEF Reads
<1>4. \A x : Reads(e, Data(e, x), 0) /\ Reads(g, Data(g, x), 0)
  BY <1>1, <1>3, OutReads
<1> HIDE DEF e, f, g
<1>5. Reads(d, f, 1 + 1)
  BY <1>1, <1>2, ReadsThen
<1>6. Reads(d, g, 2 + 1)
  BY <1>3, <1>5, ReadsThen
<1>7. \A x : Reads(d, Data(e, x), 1 + 0) /\ Reads(d, Data(g, x), 3 + 0)
  BY <1>1, <1>4, <1>6, ReadsThen
<1>8. /\ \E x : GetOsrOdrPressConfig(d) = Data(e, x)
      /\ \E x : GetFifoConfiguration(d) = Data(g, x)
      /\ \A press_en, raw : \E x : GetSensorData(d, press_en, raw) = Data(e, x)
  BY DEF GetOsrOdrPressConfig, GetFifoConfiguration, GetSensorData, e, f, g
<1> QED BY <1>7, <1>8

-----------------------------------------------------------------------------
(***************************************************************************)
(* FIFO and out-of-range settings.                                         *)
(***************************************************************************)
FifoIirOf(fifo) == [fifo_iir |-> fifo.fifo_iir]
FifoModeOf(fifo) == [fifo_mode |-> fifo.fifo_mode, threshold |-> fifo.threshold]
FramesOf(fifo) == [frame_sel |-> fifo.frame_sel]

LEMMA SetFifoIirConfigDoes ==
    ASSUME NEW d, Viewed(d), NEW c, NEW fifo, NEW w, NEW M, ~Known(d.reg) => d.stack \in M,
           Asks(w, FifoIirOf(fifo))
    PROVE  LET s == IF c THEN SetStandbyMode(d) ELSE d
               e == SetFifoIirConfig(s, fifo.fifo_iir)
           IN  /\ Configures(d, e, w, M, 46)
               /\ e.rslt = "OK" => Has(e, FifoIirOf(fifo))
<1> DEFINE u == FifoIirOf(fifo)
           s == IF c THEN SetStandbyMode(d) ELSE d
           g == EnterStandby(s)
           p == Update(g, u)
           e == LeaveStandby(p)
<1>1. SetFifoIirConfig(s, fifo.fifo_iir) = e
  BY DEF SetFifoIirConfig, FifoIirOf
<1>2. DOMAIN u = {"fifo_iir"} /\ \A f \in DOMAIN u : InField(f, u[f])
  BY FreeFields DEF FifoIirOf, TypedFields
<1>3. /\ Does(d, s, w, M, 16) /\ Viewed(s) /\ s.stack = d.stack
      /\ s.rslt = "OK" /\ Known(d.reg) => Known(s.reg) /\ KeepsMode(d.reg, s.reg)
  BY StandbyFirst
<1> HIDE DEF u, s
<1>4. Viewed(g) /\ Parked(g)
  BY <1>3, Parks
<1> HIDE DEF g
<1>5. ASSUME NEW N
      PROVE  /\ Does(g, p, w, N, 2) /\ p.powermode = g.powermode
             /\ p.rslt = "OK" => Has(p, u)
             /\ StaysParked(g, p)
  BY <1>2, <1>4, ParkedDoes DEF u
<1> HIDE DEF p
<1>6. /\ Configures(d, e, w, M, 2 + 44)
      /\ Does(p, e, w, M \cup {s.reg.mode}, 12)
      /\ e.rslt = "OK" => p.rslt = "OK"
  BY <1>3, <1>5, StandbyFirstThen DEF g
<1> HIDE DEF e
<1>7. e.rslt = "OK" => Has(e, u)
  BY <1>5, <1>6, HasKept DEF u
<1> QED BY <1>1, <1>6, <1>7 DEF u, s

\* The FIFO settings: all of them are set, with a threshold that fits the
\* frames, or the call fails; a threshold that does not fit changes neither.
LEMMA SetFifoConfigurationDoes ==
    ASSUME NEW d, Viewed(d), NEW fifo, fifo.frame_sel \in 0..3, fifo.threshold \in Nat,
           "threshold" \in DOMAIN fifo, NEW w, NEW M, ~Known(d.reg) => d.stack \in M,
           NEW t, t = SetFifoThreshold(d, fifo),
           Asks(w, FifoIirOf(fifo)), Asks(w, FifoModeOf(t)), Asks(w, FramesOf(fifo))
    PROVE  LET e == SetFifoConfiguration(d, fifo)
           IN  /\ Configures(d, e, w, M, 50)
               /\ e.rslt = "OK" =>
                    /\ Has(e, FifoIirOf(fifo)) /\ Has(e, FifoModeOf(t)) /\ Has(e, FramesOf(fifo))
                    /\ fifo.frame_sel # 0 => t.threshold <= MaxThreshold(fifo.frame_sel)
               /\ e.rslt # "OK" /\ e.rslt \notin Faults =>
                    e.reg.threshold = d.reg.threshold /\ e.reg.frame_sel = d.reg.frame_sel
<1> DEFINE a == FifoIirOf(fifo)
           u == FifoModeOf(t)
           v == FramesOf(fifo)
           s == IF fifo.frame_sel # 0 THEN SetStandbyMode(d) ELSE d
           l == SetFifoIirConfig(s, fifo.fifo_iir)
           r == GetRegs(l)
           q == WriteFifo(r, t)
           e == Update(q, v)
           tooHigh == fifo.frame_sel # 0 /\ t.threshold > MaxThreshold(fifo.frame_sel)
<1>1. /\ Configures(d, l, w, M, 46) /\ Configures(d, l, a, M, 46)
      /\ l.rslt = "OK" => Has(l, a)
  BY SetFifoIirConfigDoes DEF Asks
<1>2. SetFifoConfiguration(d, fifo) = SelectFrames(r, fifo)
  BY DEF SetFifoConfiguration
<1> HIDE DEF l
<1>3. Viewed(l) /\ l.reg.threshold = d.reg.threshold /\ l.reg.frame_sel = d.reg.frame_sel
  BY <1>1, SettingNames, FieldNames DEF Configures, Does, Writes, FifoIirOf
<1>4. Reads(l, r, 1) /\ Viewed(r) /\ r.reg = l.reg
  BY <1>3, GetRegsReads DEF Reads
<1> HIDE DEF r
<1>5. SetFifoThreshold(r, fifo) = t
  BY <1>3, <1>4 DEF SetFifoThreshold
<1>6. SelectFrames(r, fifo) = e
  BY <1>5 DEF SelectFrames, FramesOf
<1>7. /\ t.frame_sel = fifo.frame_sel
      /\ fifo.frame_sel # 0 => t = fifo
      /\ fifo.frame_sel = 0 => t.threshold = d.reg.threshold
  BY DEF SetFifoThreshold
<1>8. /\ DOMAIN u = {"fifo_mode", "threshold"} /\ u.threshold = t.threshold
      /\ DOMAIN v = {"frame_sel"} /\ v.frame_sel = fifo.frame_sel
      /\ DOMAIN u \cap StandbyOnly = {} /\ DOMAIN v \cap StandbyOnly = {}
  BY DEF FifoModeOf, FramesOf, StandbyOnly
<1> HIDE DEF u, v
<1>9. /\ \A f \in DOMAIN v : InField(f, v[f])
      /\ ~tooHigh => \A f \in DOMAIN u : InField(f, u[f])
  <2>1. InField("frame_sel", v.frame_sel)
    BY <1>8, FieldKind
  <2>2. ~tooHigh => t.threshold \in 0..31
    <3>1. d.reg.threshold \in 0..31
      BY FieldKinds DEF Viewed
    <3> QED BY <1>7, <3>1 DEF MaxThreshold
  <2>3. ~tooHigh => InField("threshold", u.threshold)
    BY <1>8, <2>2, FieldKind
  <2>4. InField("fifo_mode", u.fifo_mode)
    BY FreeFields DEF TypedFields
  <2> QED BY <1>8, <2>1, <2>3, <2>4
<1>10. q = IF tooHigh THEN Fail(r, "INVALID_THRESHOLD") ELSE SetRegs(r, u)
  BY <1>7 DEF WriteFifo, FifoModeOf, u
<1> HIDE DEF q
<1>11. /\ Does(r, q, w, M, 1) /\ Viewed(q)
       /\ q.reg.mode = r.reg.mode /\ q.reg.deep_dis = r.reg.deep_dis
       /\ q.rslt = "OK" => ~tooHigh /\ Has(q, u)
       /\ q.reg.frame_sel = r.reg.frame_sel
       /\ q.rslt # "OK" /\ q.rslt \notin Faults => q.reg = r.reg
  <2>1. CASE tooHigh
    <3>1. Reads(r, q, 0) /\ q.rslt # "OK"
      BY <1>4, <1>10, <2>1, FailReads
    <3>2. Does(r, q, w, M, 1)
      BY <1>4, <3>1, ReadsDoes, DoesMore
    <3> QED BY <3>1, <3>2 DEF Reads
  <2>2. CASE ~tooHigh
    <3>1. /\ Does(r, q, w, M, 1) /\ Sets(r, q, u)
          /\ With(r.reg, u).mode = r.reg.mode /\ With(r.reg, u).deep_dis = r.reg.deep_dis
      BY <1>4, <1>8, <1>9, <1>10, <2>2, UpdateDoes DEF u
    <3>2. With(r.reg, u).frame_sel = r.reg.frame_sel
      BY <1>4, <1>8, Merged, FieldNames DEF Viewed, Registers
    <3>3. q.rslt = "OK" => Has(q, u)
      BY <1>4, <3>1, SetsHas
    <3>4. Viewed(q)
      BY <3>1 DEF Does, Writes
    <3> QED BY <2>2, <3>1, <3>2, <3>3, <3>4 DEF Sets, Faults
  <2> QED BY <2>1, <2>2
<1>12. /\ Does(q, e, w, M, 2) /\ Sets(q, e, v)
       /\ With(q.reg, v).mode = q.reg.mode /\ With(q.reg, v).deep_dis = q.reg.deep_dis
  BY <1>8, <1>9, <1>11, UpdateDoes DEF v
<1> HIDE DEF e
<1>13. Does(d, e, w, M, 50)
  <2>1. Does(d, l, w, M, 46)
    BY <1>1 DEF Configures
  <2>2. Does(d, r, w, M, 46 + 1)
    BY <1>4, <2>1, ReadsDoes, DoesThen
  <2>3. Does(d, q, w, M, 47 + 1)
    BY <1>11, <2>2, DoesThen
  <2>4. Does(d, e, w, M, 48 + 2)
    BY <1>12, <2>3, DoesThen
  <2> QED BY <2>4
<1>14. e.rslt = "OK" => q.rslt = "OK" /\ r.rslt = "OK" /\ l.rslt = "OK"
  BY <1>4, <1>11, <1>12 DEF Does, Writes, Reads
<1>15. ASSUME e.rslt = "OK"
       PROVE  /\ Has(e, a) /\ Has(e, u) /\ Has(e, v) /\ ~tooHigh
              /\ Known(d.reg) => KeepsMode(d.reg, e.reg) /\ e.reg.deep_dis
  <2>1. Has(l, a) /\ Has(q, u) /\ ~tooHigh
    BY <1>1, <1>11, <1>14, <1>15
  <2>2. Has(e, v)
    BY <1>11, <1>12, <1>15, SetsHas
  <2>3. Has(r, a)
    BY <1>4, <2>1 DEF Has
  <2>4. Has(e, a) /\ Has(e, u)
    BY <1>11, <1>12, <2>1, <2>3, HasKept DEF u
  <2>5. e.reg.mode = l.reg.mode /\ e.reg.deep_dis = l.reg.deep_dis
    BY <1>4, <1>11, <1>12 DEF Sets
  <2>6. Known(d.reg) => KeepsMode(d.reg, l.reg) /\ l.reg.deep_dis
    BY <1>1, <1>14, <1>15 DEF Configures
  <2>7. Known(d.reg) => KeepsMode(d.reg, e.reg) /\ e.reg.deep_dis
    BY <2>5, <2>6 DEF KeepsMode, Actual
  <2> QED BY <2>1, <2>2, <2>4, <2>7
<1>16. ASSUME e.rslt # "OK", e.rslt \notin Faults
       PROVE  e.reg.threshold = d.reg.threshold /\ e.reg.frame_sel = d.reg.frame_sel
  <2>1. q.rslt # "OK" /\ q.rslt \notin Faults
    BY <1>12, <1>16 DEF Sets, Faults
  <2>2. e.reg = q.reg /\ q.reg = r.reg
    BY <1>11, <1>12, <2>1 DEF Sets
  <2> QED BY <1>3, <1>4, <2>2
<1>17. Configures(d, e, w, M, 50)
  BY <1>13, <1>15 DEF Configures
<1> QED
  <2>1. SetFifoConfiguration(d, fifo) = e
    BY <1>2, <1>6
  <2>2. fifo.frame_sel # 0 /\ ~tooHigh => t.threshold <= MaxThreshold(fifo.frame_sel)
    BY <1>7 DEF MaxThreshold
  <2> QED BY <1>15, <1>16, <1>17, <2>1, <2>2 DEF u, v

\* Fields that are neither protected nor concern the power mode.
LEMMA FreeDoes ==
    ASSUME NEW d, Viewed(d), NEW u, NEW w, NEW M, Asks(w, u),
           \A f \in DOMAIN u : InField(f, u[f]),
           DOMAIN u \cap StandbyOnly = {}, DOMAIN u \cap PowerFields = {}
    PROVE  LET e == SetRegs(d, u)
           IN  /\ Does(d, e, w, M, 1) /\ Viewed(e)
               /\ SamePower(d.reg, e.reg)
               /\ e.rslt = "OK" => d.rslt = "OK" /\ Has(e, u)
<1> DEFINE e == SetRegs(d, u)
<1>1. "mode" \notin DOMAIN u /\ "deep_dis" \notin DOMAIN u
  BY DEF PowerFields
<1>2. Does(d, e, w, M, 1) /\ Sets(d, e, u)
  BY <1>1, UpdateDoes
<1> HIDE DEF e
<1>3. SamePower(d.reg, e.reg)
  BY <1>2, SetsSamePower
<1>4. e.rslt = "OK" => Has(e, u)
  BY <1>2, SetsHas
<1> QED BY <1>2, <1>3, <1>4 DEF Does, Writes, e

OorIirOf(oor) == [oor_iir |-> oor.oor_iir]
LimitOf(oor) == [cnt_lim |-> oor.cnt_lim]
LsbOf(oor) == [oor_lsb |-> oor.thr % 2^8]
MsbOf(oor) == [oor_msb |-> Msb(oor.thr)]
RangeOf(oor) == [oor_range |-> oor.range]
XmsbOf(oor) == [oor_xmsb |-> Xmsb(oor.thr)]

\* The three parts of a threshold fit their registers.
LEMMA ThresholdBytes ==
    ASSUME NEW thr \in Nat
    PROVE  thr % 2^8 \in 0..255 /\ Msb(thr) \in 0..255 /\ Xmsb(thr) \in 0..1
<1>1. thr % 2^8 \in 0..255 /\ Msb(thr) \in 0..255
  BY Powers DEF Msb
<1>2. \A n \in Nat : n % 2 \in 0..1
  OBVIOUS
<1>3. \A n \in Nat, m \in Nat \ {0} : n \div m \in Nat
  OBVIOUS
<1>4. 2^16 \in Nat \ {0}
  BY Powers
<1> QED BY <1>1, <1>2, <1>3, <1>4 DEF Xmsb

\* One of the four fields without protection.
Plain(u) ==
    /\ \A f \in DOMAIN u : InField(f, u[f])
    /\ DOMAIN u \cap StandbyOnly = {} /\ DOMAIN u \cap PowerFields = {}

LEMMA OorPlain ==
    ASSUME NEW oor, oor.thr \in Nat
    PROVE  Plain(LsbOf(oor)) /\ Plain(MsbOf(oor)) /\ Plain(RangeOf(oor)) /\ Plain(XmsbOf(oor))
<1>1. Plain(LsbOf(oor))
  <2> DEFINE u == LsbOf(oor)
             low == oor.thr % 2^8
  <2>1. DOMAIN u = {"oor_lsb"} /\ u.oor_lsb = low /\ low \in 0..255
    BY ThresholdBytes DEF LsbOf
  <2> HIDE DEF u, low
  <2>2. InField("oor_lsb", u.oor_lsb)
    BY <2>1, FieldKind
  <2>3. DOMAIN u \cap StandbyOnly = {} /\ DOMAIN u \cap PowerFields = {}
    BY <2>1 DEF StandbyOnly, PowerFields
  <2>4. Plain(u)
    BY <2>1, <2>2, <2>3 DEF Plain
  <2> QED BY <2>4 DEF u
<1>2. Plain(MsbOf(oor))
  <2> DEFINE u == MsbOf(oor)
  <2>1. DOMAIN u = {"oor_msb"} /\ u.oor_msb = Msb(oor.thr)
    BY DEF MsbOf
  <2> HIDE DEF u
  <2>2. InField("oor_msb", u.oor_msb)
    BY <2>1, FieldKind, ThresholdBytes
  <2>3. DOMAIN u \cap StandbyOnly = {} /\ DOMAIN u \cap PowerFields = {}
    BY <2>1 DEF StandbyOnly, PowerFields
  <2>4. Plain(u)
    BY <2>1, <2>2, <2>3 DEF Plain
  <2> QED BY <2>4 DEF u
<1>3. Plain(RangeOf(oor))
  <2> DEFINE u == RangeOf(oor)
  <2>1. DOMAIN u = {"oor_range"}
    BY DEF RangeOf
  <2> HIDE DEF u
  <2>2. InField("oor_range", u.oor_range)
    BY FreeFields DEF TypedFields
  <2>3. DOMAIN u \cap StandbyOnly = {} /\ DOMAIN u \cap PowerFields = {}
    BY <2>1 DEF StandbyOnly, PowerFields
  <2>4. Plain(u)
    BY <2>1, <2>2, <2>3 DEF Plain
  <2> QED BY <2>4 DEF u
<1>4. Plain(XmsbOf(oor))
  <2> DEFINE u == XmsbOf(oor)
  <2>1. DOMAIN u = {"oor_xmsb"} /\ u.oor_xmsb = Xmsb(oor.thr)
    BY DEF XmsbOf
  <2> HIDE DEF u
  <2>2. InField("oor_xmsb", u.oor_xmsb)
    BY <2>1, FieldKind, ThresholdBytes
  <2>3. DOMAIN u \cap StandbyOnly = {} /\ DOMAIN u \cap PowerFields = {}
    BY <2>1 DEF StandbyOnly, PowerFields
  <2>4. Plain(u)
    BY <2>1, <2>2, <2>3 DEF Plain
  <2> QED BY <2>4 DEF u
<1> QED BY <1>1, <1>2, <1>3, <1>4

LEMMA SetOorConfigurationDoes ==
    ASSUME NEW d, Viewed(d), NEW oor, oor.thr \in Nat,
           NEW w, NEW M, ~Known(d.reg) => d.stack \in M,
           Asks(w, OorIirOf(oor)), Asks(w, LimitOf(oor)), Asks(w, LsbOf(oor)),
           Asks(w, MsbOf(oor)), Asks(w, RangeOf(oor)), Asks(w, XmsbOf(oor))
    PROVE  LET e == SetOorConfiguration(d, oor)
           IN  /\ Does(d, e, w, M, 53)
               /\ e.rslt = "OK" =>
                    /\ Has(e, OorIirOf(oor)) /\ Has(e, LimitOf(oor)) /\ Has(e, LsbOf(oor))
                    /\ Has(e, MsbOf(oor)) /\ Has(e, RangeOf(oor)) /\ Has(e, XmsbOf(oor))
                    /\ Known(d.reg) => KeepsMode(d.reg, e.reg) /\ e.reg.deep_dis
<1> DEFINE a == OorIirOf(oor)
           b == LimitOf(oor)
           g == EnterStandby(d)
           i == Update(g, a)
           p == Update(i, b)
           n == LeaveStandby(p)
           r == GetRegs(n)
           l == SetRegs(r, LsbOf(oor))
           m == SetRegs(l, MsbOf(oor))
           q == SetRegs(m, RangeOf(oor))
           e == SetRegs(q, XmsbOf(oor))
<1>1. SetOorConfiguration(d, oor) = e
  BY DEF SetOorConfiguration, SetOorIirCountLimit, OorIirOf, LimitOf, LsbOf, MsbOf,
         RangeOf, XmsbOf
<1>2. /\ \A f \in DOMAIN a : InField(f, a[f])
      /\ \A f \in DOMAIN b : InField(f, b[f])
      /\ DOMAIN a = {"oor_iir"} /\ DOMAIN b = {"cnt_lim"}
  BY FreeFields DEF OorIirOf, LimitOf, TypedFields
<1> HIDE DEF a, b
<1>3. Viewed(g) /\ Parked(g)
  BY Parks
<1> HIDE DEF g
<1>4. ASSUME NEW N
      PROVE  /\ Does(g, p, w, N, 4) /\ p.powermode = g.powermode
             /\ p.rslt = "OK" => Has(p, a) /\ Has(p, b)
             /\ StaysParked(g, p)
  BY <1>2, <1>3, ParkedTwice DEF a, b
<1> HIDE DEF p
<1>5. Does(d, d, w, M, 16)
  BY DoesNothing
<1>6. /\ Configures(d, n, w, M, 4 + 44)
      /\ Does(p, n, w, M \cup {d.reg.mode}, 12)
      /\ n.rslt = "OK" => p.rslt = "OK"
  BY <1>4, <1>5, StandbyFirstThen DEF g, KeepsMode
<1> HIDE DEF n
<1>7. n.rslt = "OK" => Has(n, a) /\ Has(n, b)
  BY <1>4, <1>6, HasKept DEF a, b
<1>8. Does(d, n, w, M, 48) /\ Viewed(n)
  BY <1>6 DEF Configures, Does, Writes
<1>9. Reads(n, r, 1) /\ Viewed(r) /\ r.reg = n.reg /\ (r.rslt = "OK" => n.rslt = "OK")
  BY <1>8, GetRegsReads DEF Reads
<1> HIDE DEF r
<1>10. /\ Does(r, l, w, M, 1) /\ Viewed(l) /\ SamePower(r.reg, l.reg)
       /\ l.rslt = "OK" => r.rslt = "OK" /\ Has(l, LsbOf(oor))
  BY <1>9, FreeDoes, OorPlain DEF Plain
<1> HIDE DEF l
<1>11. /\ Does(l, m, w, M, 1) /\ Viewed(m) /\ SamePower(l.reg, m.reg)
       /\ m.rslt = "OK" => l.rslt = "OK" /\ Has(m, MsbOf(oor))
  BY <1>10, FreeDoes, OorPlain DEF Plain
<1> HIDE DEF m
<1>12. /\ Does(m, q, w, M, 1) /\ Viewed(q) /\ SamePower(m.reg, q.reg)
       /\ q.rslt = "OK" => m.rslt = "OK" /\ Has(q, RangeOf(oor))
  BY <1>11, FreeDoes, OorPlain DEF Plain
<1> HIDE DEF q
<1>13. /\ Does(q, e, w, M, 1) /\ SamePower(q.reg, e.reg)
       /\ e.rslt = "OK" => q.rslt = "OK" /\ Has(e, XmsbOf(oor))
  BY <1>12, FreeDoes, OorPlain DEF Plain
<1> HIDE DEF e
<1>14. Does(q, e, w, M, 1) /\ Does(m, e, w, M, 2) /\ Does(l, e, w, M, 3)
       /\ Does(r, e, w, M, 4) /\ Does(d, e, w, M, 53)
  <2>1. Does(m, e, w, M, 1 + 1)
    BY <1>11, <1>12, <1>13, DoesThen
  <2>2. Does(l, e, w, M, 1 + 2)
    BY <1>10, <1>11, <2>1, DoesThen
  <2>3. Does(r, e, w, M, 1 + 3)
    BY <1>9, <1>10, <2>2, DoesThen
  <2>4. Does(d, r, w, M, 48 + 1)
    BY <1>8, <1>9, ReadsDoes, DoesThen
  <2>5. Does(d, e, w, M, 49 + 4)
    BY <2>3, <2>4, DoesThen
  <2> QED BY <1>13, <2>1, <2>2, <2>3, <2>5
<1>15. ASSUME e.rslt = "OK"
       PROVE  /\ Has(e, a) /\ Has(e, b) /\ Has(e, LsbOf(oor))
              /\ Has(e, MsbOf(oor)) /\ Has(e, RangeOf(oor)) /\ Has(e, XmsbOf(oor))
              /\ Known(d.reg) => KeepsMode(d.reg, e.reg) /\ e.reg.deep_dis
  <2>1. q.rslt = "OK" /\ m.rslt = "OK" /\ l.rslt = "OK" /\ r.rslt = "OK" /\ n.rslt = "OK"
    BY <1>9, <1>10, <1>11, <1>12, <1>13, <1>15
  <2>2. Has(r, a) /\ Has(r, b)
    BY <1>7, <1>9, <2>1 DEF Has
  <2>3. Has(e, a) /\ Has(e, b)
    BY <1>14, <2>2, HasKept DEF a, b
  <2>4. Has(e, LsbOf(oor)) /\ Has(e, MsbOf(oor)) /\ Has(e, RangeOf(oor))
    BY <1>10, <1>11, <1>12, <1>14, <2>1, HasKept
  <2>5. SamePower(n.reg, e.reg)
    BY <1>9, <1>10, <1>11, <1>12, <1>13 DEF SamePower
  <2>6. Known(d.reg) => KeepsMode(d.reg, n.reg) /\ n.reg.deep_dis
    BY <1>6, <2>1 DEF Configures
  <2>7. Known(d.reg) => KeepsMode(d.reg, e.reg) /\ e.reg.deep_dis
    BY <2>5, <2>6, SamePowerSameMode DEF KeepsMode, SamePower
  <2> QED BY <1>13, <1>15, <2>3, <2>4, <2>7
<1> QED BY <1>1, <1>14, <1>15 DEF a, b

-----------------------------------------------------------------------------
(***************************************************************************)
(* Non-volatile memory.                                                    *)
(***************************************************************************)
LEMMA TwoBytes ==
    ASSUME NEW m \in 0..255, NEW n \in 0..255
    PROVE  (m * 256) + n \in 0..((256 * 256) - 1)
<1>1. m \in Nat /\ n \in Nat /\ m <= 255 /\ n <= 255
  OBVIOUS
<1>2. m * 256 \in Nat /\ m * 256 <= 255 * 256
  BY <1>1
<1>3. (255 * 256) + 256 = 256 * 256
  OBVIOUS
<1> DEFINE k == m * 256
           t == 255 * 256
           q == 256 * 256
<1>4. k \in Nat /\ k <= t /\ t + 256 = q /\ t \in Nat /\ q \in Nat
  BY <1>2, <1>3
<1> HIDE DEF k, t, q
<1>5. k + n \in 0..(q - 1)
  BY <1>1, <1>4
<1> QED BY <1>5 DEF k, q

\* What the first of the two data registers holds in between is a word too.
LEMMA LowByteWritten ==
    ASSUME NEW x \in Word16, NEW word \in Word16
    PROVE  ((x \div 2^8) * 2^8) + (word % 2^8) \in Word16
<1>1. 2^16 = 256 * 256 /\ 2^8 = 256
  BY Powers
<1>2. x \in Nat /\ x <= (256 * 256) - 1 /\ word \in Nat
  BY <1>1 DEF Word16, Unsigned
<1>3. x \div 256 \in 0..255 /\ word % 256 \in 0..255
  BY <1>2
<1>4. ((x \div 256) * 256) + (word % 256) \in 0..((256 * 256) - 1)
  BY <1>3, TwoBytes
<1> QED BY <1>1, <1>4 DEF Word16, Unsigned

LEMMA NvmReadyReads ==
    ASSUME NEW d, Viewed(d)
    PROVE  LET e == NvmReady(d)
           IN  Reads(d, e, 1) /\ Viewed(e) /\ e.powermode = d.powermode
<1> DEFINE g == GetRegs(d)
           e == NvmReady(d)
<1>1. Reads(d, g, 1) /\ Viewed(g) /\ g.powermode = d.powermode
  BY GetRegsReads DEF GetRegs, Viewed, ViewFields, Reads
<1>2. e = IF d.ready THEN g ELSE Fail(g, "NVM_NOT_READY")
  BY DEF NvmReady
<1> HIDE DEF g, e
<1>3. CASE d.ready
  BY <1>1, <1>2, <1>3 DEF e
<1>4. CASE ~d.ready
  <2>1. Reads(g, e, 0) /\ e.powermode = g.powermode
    BY <1>1, <1>2, <1>4, FailReads DEF Reads
  <2>2. Reads(d, e, 1 + 0)
    BY <1>1, <2>1, ReadsThen
  <2> QED BY <1>1, <2>1, <2>2 DEF Reads, e
<1> QED BY <1>3, <1>4

AddressOf(addr, prog_en) == [nvm_addr |-> addr, prog_en |-> prog_en]
DataOf(word) == [nvm_data |-> word]
CommandOf(command) == [cmd |-> IF command = "first" THEN "first" ELSE "none"]

LEMMA AddressPlain ==
    ASSUME NEW addr \in 0..63, NEW prog_en
    PROVE  LET u == AddressOf(addr, prog_en)
           IN  /\ DOMAIN u = {"nvm_addr", "prog_en"}
               /\ u.nvm_addr = addr /\ u.prog_en = prog_en
               /\ \A f \in DOMAIN u : InField(f, u[f])
               /\ "mode" \notin DOMAIN u /\ "deep_dis" \notin DOMAIN u
               /\ DOMAIN u \cap PowerFields = {}
               /\ \A w : Asks(w, u)
<1> DEFINE u == AddressOf(addr, prog_en)
<1>1. DOMAIN u = {"nvm_addr", "prog_en"} /\ u.nvm_addr = addr /\ u.prog_en = prog_en
  BY DEF AddressOf
<1> HIDE DEF u
<1>2. InField("nvm_addr", u.nvm_addr) /\ InField("prog_en", u.prog_en)
  <2>1. InField("nvm_addr", u.nvm_addr)
    BY <1>1, FieldKind
  <2>2. InField("prog_en", u.prog_en)
    BY FreeFields DEF TypedFields
  <2> QED BY <2>1, <2>2
<1>3. DOMAIN u \cap PowerFields = {} /\ \A w : Asks(w, u)
  BY <1>1, SettingNames DEF PowerFields, Asks
<1> QED BY <1>1, <1>2, <1>3 DEF u

\* In standby mode at the address asked for, or the call fails.
Addressed(d, e, addr, prog_en, w, M) ==
    /\ Does(d, e, w, M, 19)
    /\ e.rslt = "OK" =>
         /\ addr \in NvmAddresses
         /\ e.reg.mode = "STANDBY"
         /\ e.reg.nvm_addr = addr /\ e.reg.prog_en = prog_en
         /\ e.powermode = (IF Known(d.reg) THEN Actual(d.reg) ELSE d.stack)
         /\ Known(d.reg) => e.reg.deep_dis

LEMMA NvmWriteAddrDoes ==
    ASSUME NEW d, Viewed(d), NEW addr, NEW prog_en, NEW w, NEW M
    PROVE  Addressed(d, NvmWriteAddr(d, addr, prog_en), addr, prog_en, w, M)
<1> DEFINE s == EnterStandby(d)
           n == NvmReady(s)
           u == AddressOf(addr, prog_en)
           e == NvmWriteAddr(d, addr, prog_en)
<1>1. CASE addr \notin NvmAddresses
  <2>1. e = Fail(d, "NVM_INVALID_ADDR")
    BY <1>1 DEF NvmWriteAddr
  <2>2. Reads(d, e, 0) /\ e.rslt # "OK"
    BY <2>1, FailReads
  <2> HIDE DEF e
  <2>3. Does(d, e, w, M, 19)
    BY <2>2, ReadsDoes, DoesMore
  <2> QED BY <2>2, <2>3 DEF Addressed, e
<1>2. CASE addr \in NvmAddresses
  <2>1. e = Update(n, u)
    BY <1>2 DEF NvmWriteAddr, SetNvmAddr, AddressOf
  <2>2. addr \in 0..63
    BY <1>2 DEF NvmAddresses
  <2>3. /\ DOMAIN u = {"nvm_addr", "prog_en"}
        /\ u.nvm_addr = addr /\ u.prog_en = prog_en
        /\ \A f \in DOMAIN u : InField(f, u[f])
        /\ "mode" \notin DOMAIN u /\ "deep_dis" \notin DOMAIN u
        /\ Asks(w, u)
    BY <2>2, AddressPlain
  <2> HIDE DEF e, u
  <2>4. /\ Does(d, s, w, M, 16)
        /\ s.rslt = "OK" =>
             /\ s.reg.mode = "STANDBY"
             /\ s.powermode = (IF Known(d.reg) THEN Actual(d.reg) ELSE d.stack)
             /\ Known(d.reg) => s.reg.deep_dis
        /\ Viewed(s) /\ Parked(s)
    BY EnterStandbyDoes, Parks
  <2> HIDE DEF s
  <2>5. Reads(s, n, 1) /\ Viewed(n) /\ n.powermode = s.powermode
    BY <2>4, NvmReadyReads
  <2> HIDE DEF n
  <2>6. Parked(n) /\ n.reg = s.reg /\ (n.rslt = "OK" => s.rslt = "OK")
    BY <2>4, <2>5 DEF Parked, Reads
  <2>7. /\ Does(n, e, w, M, 2) /\ Sets(n, e, u)
        /\ With(n.reg, u).mode = n.reg.mode /\ With(n.reg, u).deep_dis = n.reg.deep_dis
    BY <2>1, <2>3, <2>5, <2>6, UpdateDoes
  <2>8. Does(d, n, w, M, 16 + 1)
    BY <2>4, <2>5, ReadsDoes, DoesThen
  <2>9. Does(d, e, w, M, 17 + 2)
    BY <2>7, <2>8, DoesThen
  <2>10. ASSUME e.rslt = "OK"
         PROVE  /\ e.reg.mode = "STANDBY"
                /\ e.reg.nvm_addr = addr /\ e.reg.prog_en = prog_en
                /\ e.powermode = (IF Known(d.reg) THEN Actual(d.reg) ELSE d.stack)
                /\ Known(d.reg) => e.reg.deep_dis
    <3>1. n.rslt = "OK" /\ s.rslt = "OK"
      BY <2>6, <2>7, <2>10 DEF Does, Writes
    <3>2. e.reg = With(n.reg, u) /\ e.powermode = n.powermode
      BY <2>7, <2>10 DEF Sets
    <3>3. e.reg.nvm_addr = addr /\ e.reg.prog_en = prog_en
      BY <2>3, <2>5, <3>2, Merged, FieldNames DEF Viewed, Registers
    <3> QED BY <2>4, <2>5, <2>6, <2>7, <3>1, <3>2, <3>3
  <2> QED BY <1>2, <2>9, <2>10 DEF Addressed, e
<1> QED BY <1>1, <1>2

\* The commands read the word at the address into the data registers, or
\* write it from there. Neither happens after a failure.
Commanded(d, e, command, w, M) ==
    LET at == d.reg.nvm_addr
        written == [d.nvm EXCEPT ![at] = d.reg.nvm_data]
    IN  /\ Writes(d, e, w, M, 1) /\ Viewed(e)
        /\ e.powermode = d.powermode
        /\ \A f \in Fields \ {"cmd", "nvm_data"} : e.reg[f] = d.reg[f]
        /\ e.rslt = "OK" => e.reg.cmd = CommandOf(command).cmd
        /\ command # "read" => e.reg.nvm_data = d.reg.nvm_data
        /\ command # "write" => e.nvm = d.nvm
        /\ e.nvm # d.nvm => d.rslt = "OK" /\ at \in NvmAddresses /\ e.nvm = written
        /\ e.rslt = "OK" /\ d.reg.cmd = "first" /\ at \in NvmAddresses =>
             /\ command = "read" => e.reg.nvm_data = d.nvm[at]
             /\ command = "write" /\ d.reg.prog_en => e.nvm = written

LEMMA CommandWrites ==
    ASSUME NEW d, Viewed(d), NEW command, NEW w, NEW M
    PROVE  Commanded(d, Command(d, command), command, w, M)
<1> DEFINE u == CommandOf(command)
           c == SetRegs(d, u)
           at == d.reg.nvm_addr
           written == [d.nvm EXCEPT ![at] = d.reg.nvm_data]
           done == d.reg.cmd = "first" /\ c.reg.cmd = "none" /\ c.reg.nvm_addr \in NvmAddresses
           r == [c EXCEPT !.reg.nvm_data = d.nvm[d.reg.nvm_addr]]
           x == [c EXCEPT !.nvm[d.reg.nvm_addr] = d.reg.nvm_data]
           e == Command(d, command)
<1>1. /\ DOMAIN u = {"cmd"} /\ u.cmd = (IF command = "first" THEN "first" ELSE "none")
      /\ DOMAIN u \cap StandbyOnly = {} /\ DOMAIN u \cap PowerFields = {}
      /\ \A f \in DOMAIN u : InField(f, u[f])
      /\ Asks(w, u) /\ "mode" \notin DOMAIN u /\ "deep_dis" \notin DOMAIN u
  <2>1. DOMAIN u = {"cmd"} /\ u.cmd = (IF command = "first" THEN "first" ELSE "none")
    BY DEF CommandOf
  <2> HIDE DEF u
  <2>2. InField("cmd", u.cmd)
    BY FreeFields DEF TypedFields
  <2> QED BY <2>1, <2>2, SettingNames DEF StandbyOnly, PowerFields, Asks
<1>2. e = IF done /\ command = "read" THEN r
          ELSE IF done /\ command = "write" /\ c.reg.prog_en THEN x ELSE c
  BY DEF Command, CommandOf
<1> HIDE DEF u, e
<1>3. Does(d, c, w, M, 1) /\ Sets(d, c, u)
  BY <1>1, UpdateDoes
<1> HIDE DEF c
<1>4. /\ Viewed(c) /\ c.nvm = d.nvm /\ c.powermode = d.powermode
      /\ DOMAIN c = ViewFields /\ DOMAIN c.reg = Fields
      /\ Writes(d, c, w, M, 1)
  BY <1>3 DEF Does, Writes, Viewed, Registers, Sets
<1>5. \A f \in Fields \ {"cmd"} : c.reg[f] = d.reg[f]
  <2>1. \A f \in Fields \ {"cmd"} : With(d.reg, u)[f] = d.reg[f]
    BY <1>1, Merged DEF Viewed, Registers
  <2> QED BY <1>3, <2>1 DEF Sets
<1>6. c.rslt = "OK" => c.reg.cmd = u.cmd
  <2>1. With(d.reg, u).cmd = u.cmd
    BY <1>1, Merged, FieldNames DEF Viewed, Registers
  <2> QED BY <1>3, <2>1 DEF Sets
<1>7. done => d.rslt = "OK" /\ at \in NvmAddresses
  <2>1. c.reg.nvm_addr = at
    BY <1>5, FieldNames
  <2>2. d.rslt # "OK" => c.reg = d.reg
    BY <1>3 DEF Sets
  <2> QED BY <2>1, <2>2
<1>8. c.rslt = "OK" /\ d.reg.cmd = "first" /\ at \in NvmAddresses /\ command # "first" => done
  <2>1. c.reg.nvm_addr = at
    BY <1>5, FieldNames
  <2> QED BY <1>1, <1>6, <2>1
<1>9. CASE done /\ command = "read"
  <2> DEFINE y == d.nvm[d.reg.nvm_addr]
             s == [c.reg EXCEPT !.nvm_data = y]
  <2>1. e = r
    BY <1>2, <1>9
  <2>2. /\ DOMAIN e = ViewFields /\ e.reg = s
        /\ e.rslt = c.rslt /\ e.nvm = c.nvm /\ e.left = c.left /\ e.took = c.took
        /\ e.ready = c.ready /\ e.stack = c.stack /\ e.hot = c.hot
        /\ e.powermode = c.powermode
    BY <1>4, <2>1 DEF ViewFields
  <2>3. y \in Word16
    BY <1>7, <1>9 DEF Viewed, Memory
  <2>4. /\ DOMAIN s = Fields /\ s.nvm_data = y
        /\ \A f \in Fields \ {"nvm_data"} : s[f] = c.reg[f]
    BY <1>4, FieldNames
  <2> HIDE DEF s, y, r
  <2>5. Registers(s)
    <3>1. InField("nvm_data", s.nvm_data)
      BY <2>3, <2>4, FieldKind
    <3>2. \A f \in Fields \ {"nvm_data"} : InField(f, s[f])
      BY <1>4, <2>4 DEF Viewed, Registers
    <3>3. s.mode = c.reg.mode /\ s.deep_dis = c.reg.deep_dis
      BY <2>4, FieldNames
    <3>4. c.reg.mode # "STANDBY" => c.reg.deep_dis
      BY <1>4 DEF Viewed, Registers
    <3> QED BY <2>4, <3>1, <3>2, <3>3, <3>4 DEF Registers
  <2>6. Viewed(e)
    BY <1>4, <2>2, <2>5 DEF Viewed
  <2>7. Writes(d, e, w, M, 1)
    <3>1. \A f \in Settings : e.reg[f] = c.reg[f]
      BY <2>2, <2>4, SettingNames
    <3>2. e.reg.mode = c.reg.mode
      BY <2>2, <2>4, FieldNames
    <3> QED BY <1>4, <2>2, <2>6, <3>1, <3>2 DEF Writes
  <2>8. \A f \in Fields \ {"cmd", "nvm_data"} : e.reg[f] = d.reg[f]
    BY <1>5, <2>2, <2>4
  <2>9. e.rslt = "OK" => e.reg.cmd = u.cmd
    BY <1>6, <2>2, <2>4, FieldNames
  <2> QED BY <1>4, <1>9, <2>2, <2>4, <2>6, <2>7, <2>8, <2>9 DEF Commanded, e, u, y
<1>10. CASE done /\ command = "write" /\ c.reg.prog_en
  <2>1. e = x
    BY <1>2, <1>10
  <2>2. /\ DOMAIN e = ViewFields /\ e.nvm = written
        /\ e.rslt = c.rslt /\ e.reg = c.reg /\ e.left = c.left /\ e.took = c.took
        /\ e.ready = c.ready /\ e.stack = c.stack /\ e.hot = c.hot
        /\ e.powermode = c.powermode
    BY <1>4, <2>1 DEF ViewFields
  <2>3. Memory(written)
    <3>1. d.reg.nvm_data \in Word16
      BY FieldKinds DEF Viewed
    <3> QED BY <3>1, <1>7, <1>10 DEF Viewed, Memory
  <2> HIDE DEF x, written
  <2>4. Viewed(e)
    BY <1>4, <2>2, <2>3 DEF Viewed
  <2>5. Writes(d, e, w, M, 1)
    BY <1>4, <2>2, <2>4 DEF Writes
  <2>6. e.reg.nvm_data = d.reg.nvm_data
    BY <1>5, <2>2, FieldNames
  <2>7. /\ e.powermode = d.powermode
        /\ \A f \in Fields \ {"cmd", "nvm_data"} : e.reg[f] = d.reg[f]
        /\ e.rslt = "OK" => e.reg.cmd = u.cmd
    BY <1>4, <1>5, <1>6, <2>2
  <2> QED BY <1>7, <1>10, <2>2, <2>4, <2>5, <2>6, <2>7 DEF Commanded, e, u, written
<1>11. CASE ~(done /\ command = "read") /\ ~(done /\ command = "write" /\ c.reg.prog_en)
  <2>1. e = c
    BY <1>2, <1>11
  <2>2. c.reg.nvm_data = d.reg.nvm_data /\ c.reg.prog_en = d.reg.prog_en
    BY <1>5, FieldNames
  <2> QED BY <1>4, <1>5, <1>6, <1>8, <1>11, <2>1, <2>2 DEF Commanded, e, u
<1> QED BY <1>9, <1>10, <1>11

\* What a call has read.
SameData(d, e) == DOMAIN e = ViewFields /\ e.data = d.data

LEMMA AccessSameData ==
    ASSUME NEW d, DOMAIN d = ViewFields
    PROVE  /\ SameData(d, GetRegs(d))
           /\ \A u : SameData(d, SetRegs(d, u))
           /\ \A u : SameData(d, Update(d, u))
           /\ \A x : SameData(d, Fail(d, x)) /\ SameData(d, Out(d, x))
<1>1. ASSUME NEW y, DOMAIN y = ViewFields
      PROVE  SameData(y, GetRegs(y))
  BY <1>1 DEF SameData, GetRegs, ViewFields
<1>2. ASSUME NEW y, DOMAIN y = ViewFields, NEW u
      PROVE  SameData(y, SetRegs(y, u))
  <2> DEFINE g == GetRegs(y)
             hot == y.reg.mode # "STANDBY" /\ DOMAIN u \cap StandbyOnly # {}
             f == [g EXCEPT !.reg = With(@, u), !.hot = @ \/ hot]
  <2>1. SetRegs(y, u) \in {f, g}
    BY DEF SetRegs
  <2>2. DOMAIN g = ViewFields /\ g.data = y.data
    BY <1>1, <1>2 DEF SameData
  <2> HIDE DEF g, hot
  <2>3. DOMAIN f = ViewFields /\ f.data = g.data
    BY <2>2 DEF ViewFields
  <2> QED BY <2>1, <2>2, <2>3 DEF SameData
<1>3. \A u : SameData(d, Update(d, u))
  BY <1>1, <1>2 DEF Update, SameData
<1>4. \A x : SameData(d, Fail(d, x)) /\ SameData(d, Out(d, x))
  BY DEF SameData, Fail, Out, ViewFields
<1> QED BY <1>1, <1>2, <1>3, <1>4

LEMMA SetPowerModeSameData ==
    ASSUME NEW d, DOMAIN d = ViewFields, NEW m
    PROVE  SameData(d, SetPowerMode(d, m))
<1>1. ASSUME NEW y, DOMAIN y = ViewFields
      PROVE  SameData(y, GetPowerMode(y))
  <2> DEFINE e == GetRegs(y)
             f == GetRegs(e)
             g == GetRegs(f)
             h == GetRegs(g)
  <2>1. SameData(y, e)
    BY <1>1, AccessSameData
  <2> DEFINE deep == h.reg.odr > ODR_05_HZ /\ h.reg.frame_sel = 0 /\ h.reg.iir = BYPASS
             asked == e.reg.mode = "STANDBY" /\ ~e.reg.deep_dis
  <2>2. \E x : GetPowerMode(y) \in {Out(e, x), Out(h, x)}
    <3>1. CheckDeepstandbyMode(e) = IF deep THEN Out(h, "DEEP_STANDBY") ELSE Out(h, e.stack)
      BY DEF CheckDeepstandbyMode
    <3>2. GetPowerMode(y) = IF asked THEN CheckDeepstandbyMode(e) ELSE Out(e, e.reg.mode)
      BY DEF GetPowerMode
    <3> HIDE DEF e, h, deep, asked
    <3> QED BY <3>1, <3>2
  <2> HIDE DEF e
  <2>3. SameData(e, f)
    BY <2>1, AccessSameData DEF SameData
  <2> HIDE DEF f
  <2>4. SameData(f, g)
    BY <2>3, AccessSameData DEF SameData
  <2> HIDE DEF g
  <2>5. SameData(g, h)
    BY <2>4, AccessSameData DEF SameData
  <2> HIDE DEF h
  <2>6. \A x : SameData(y, Out(e, x)) /\ SameData(y, Out(h, x))
    BY <2>1, <2>3, <2>4, <2>5, AccessSameData DEF SameData
  <2> QED BY <2>2, <2>6
<1>2. ASSUME NEW y, DOMAIN y = ViewFields
      PROVE  SameData(y, FromAnyMode(y))
  BY <1>2, AccessSameData DEF FromAnyMode, WritePowerMode, SameData
<1>3. ASSUME NEW y, DOMAIN y = ViewFields
      PROVE  SameData(y, SetDeepStandbyMode(y))
  <2> DEFINE o == Update(y, [deep_dis |-> FALSE, odr |-> ODR_01_HZ])
             i == Update(o, [iir |-> BYPASS])
             e == Update(i, [frame_sel |-> 0])
  <2>1. SameData(y, o)
    BY <1>3, AccessSameData
  <2>2. SetDeepStandbyMode(y) = e
    BY DEF SetDeepStandbyMode
  <2> HIDE DEF o
  <2>3. SameData(o, i)
    BY <2>1, AccessSameData DEF SameData
  <2> HIDE DEF i
  <2>4. SameData(i, e)
    BY <2>3, AccessSameData DEF SameData
  <2> QED BY <2>1, <2>2, <2>3, <2>4 DEF SameData
<1>4. ASSUME NEW y, DOMAIN y = ViewFields
      PROVE  SameData(y, FromStandby(y, m))
  <2>1. FromStandby(y, m) \in {SetDeepStandbyMode(y), y, WritePowerMode(y, m),
                               Fail(y, "INVALID_POWERMODE")}
    BY DEF FromStandby, Measuring
  <2>2. SameData(y, y) /\ SameData(y, WritePowerMode(y, m))
        /\ SameData(y, Fail(y, "INVALID_POWERMODE"))
    BY <1>4, AccessSameData DEF WritePowerMode, SameData
  <2> QED BY <1>3, <1>4, <2>1, <2>2
<1> DEFINE g == GetPowerMode(d)
           s == FromAnyMode(g)
<1>5. SameData(d, g)
  BY <1>1
<1> HIDE DEF g
<1>6. SameData(g, s)
  BY <1>2, <1>5 DEF SameData
<1> HIDE DEF s
<1>7. SameData(s, FromStandby(s, m))
  BY <1>4, <1>6 DEF SameData
<1> QED BY <1>5, <1>6, <1>7 DEF SetPowerMode, SameData, g, s

\* The mode d had before is taken again after g.
GoneBack(d, e) ==
    /\ Actual(e.reg) = Actual(d.reg)
    /\ Actual(d.reg) = "DEEP_STANDBY" => Has(e, DeepSettings)

LEMMA RestoredDoes ==
    ASSUME NEW d, Viewed(d), NEW g, Viewed(g), NEW powermode, NEW w, NEW M,
           g.rslt = "OK" =>
             /\ g.reg.mode = "STANDBY"
             /\ powermode = (IF Known(d.reg) THEN Actual(d.reg) ELSE d.stack)
             /\ Known(d.reg) => g.reg.deep_dis,
           ~Known(d.reg) => d.stack \in M,
           (Known(d.reg) /\ Actual(d.reg) # "DEEP_STANDBY") \/ Asks(w, DeepSettings)
    PROVE  LET e == Restored(g, powermode)
           IN  /\ Does(g, e, w, M \cup {d.reg.mode}, 12)
               /\ SameData(g, e)
               /\ e.rslt = "OK" /\ Known(d.reg) => GoneBack(d, e)
<1> DEFINE e == Restored(g, powermode)
           p == SetPowerMode(g, powermode)
           N == M \cup {d.reg.mode}
<1>1. SameData(g, g) /\ SameData(g, p)
  BY SetPowerModeSameData DEF Viewed, SameData
<1>2. e = IF powermode = "STANDBY" THEN g ELSE p
  BY DEF Restored
<1> HIDE DEF e, p, N
<1>3. CASE g.rslt # "OK"
  <2>1. p = g
    BY <1>3, SetPowerModeStuck DEF p
  <2>2. Does(g, g, w, N, 12)
    BY DoesNothing
  <2> QED BY <1>1, <1>2, <1>3, <2>1, <2>2 DEF e, N
<1>4. CASE g.rslt = "OK" /\ powermode = "STANDBY"
  <2>1. Does(g, g, w, N, 12)
    BY DoesNothing
  <2>2. Known(d.reg) => Actual(g.reg) = "STANDBY" /\ Actual(d.reg) = "STANDBY"
    BY <1>4 DEF Actual
  <2> QED BY <1>1, <1>2, <1>4, <2>1, <2>2 DEF GoneBack, e, N
<1>5. CASE g.rslt = "OK" /\ powermode # "STANDBY"
  <2>1. powermode = "DEEP_STANDBY" => Asks(w, DeepSettings)
    BY <1>5
  <2>2. powermode \in Measuring => powermode \in N
    BY <1>5 DEF N, Actual, Measuring
  <2>3. /\ Does(g, p, w, N, 12)
        /\ p.rslt = "OK" =>
             /\ Actual(p.reg) = powermode
             /\ powermode = "DEEP_STANDBY" =>
                  \A f \in DOMAIN DeepSettings : p.reg[f] = DeepSettings[f]
    BY <1>5, <2>1, <2>2, SetPowerModeDoes DEF p
  <2>4. p.rslt = "OK" /\ Known(d.reg) => GoneBack(d, p)
    BY <1>5, <2>3 DEF GoneBack, Has
  <2> QED BY <1>1, <1>2, <1>5, <2>3, <2>4 DEF e, N
<1> QED BY <1>3, <1>4, <1>5

LEMMA NvmReadDoes ==
    ASSUME NEW d, Viewed(d), NEW addr, NEW w, NEW M, ~Known(d.reg) => d.stack \in M,
           (Known(d.reg) /\ Actual(d.reg) # "DEEP_STANDBY") \/ Asks(w, DeepSettings)
    PROVE  LET e == NvmRead(d, addr)
           IN  /\ Does(d, e, w, M, 35)
               /\ e.rslt = "OK" =>
                    /\ addr \in NvmAddresses /\ e.data = d.nvm[addr]
                    /\ Known(d.reg) => GoneBack(d, e)
<1> DEFINE N == M \cup {d.reg.mode}
           a == NvmWriteAddr(d, addr, FALSE)
           f == Command(a, "first")
           r == Command(f, "read")
           c == NvmReady(r)
           h == GetRegs(c)
           g == Data(h, h.reg.nvm_data)
           e == Restored(g, a.powermode)
<1>1. NvmRead(d, addr) = e
  BY DEF NvmRead, GetNvmData
<1>2. /\ Does(d, a, w, N, 19) /\ Viewed(a) /\ a.nvm = d.nvm
      /\ a.rslt = "OK" =>
           /\ addr \in NvmAddresses
           /\ a.reg.mode = "STANDBY"
           /\ a.reg.nvm_addr = addr
           /\ a.powermode = (IF Known(d.reg) THEN Actual(d.reg) ELSE d.stack)
           /\ Known(d.reg) => a.reg.deep_dis
  <2>1. Addressed(d, a, addr, FALSE, w, N)
    BY NvmWriteAddrDoes
  <2> HIDE DEF a
  <2> QED BY <2>1 DEF Addressed, Does, Writes
<1> HIDE DEF a, N
<1>3. /\ Does(a, f, w, N, 1) /\ Viewed(f) /\ f.nvm = a.nvm
      /\ f.rslt = "OK" => f.reg.cmd = "first" /\ a.rslt = "OK"
      /\ \A x \in Fields \ {"cmd", "nvm_data"} : f.reg[x] = a.reg[x]
  <2>1. Commanded(a, f, "first", w, N)
    BY <1>2, CommandWrites
  <2> HIDE DEF f
  <2> QED BY <2>1 DEF Commanded, Does, Writes, CommandOf
<1> HIDE DEF f
<1>4. /\ Does(f, r, w, N, 1) /\ Viewed(r) /\ r.nvm = f.nvm
      /\ r.rslt = "OK" => f.rslt = "OK"
      /\ \A x \in Fields \ {"cmd", "nvm_data"} : r.reg[x] = f.reg[x]
      /\ r.rslt = "OK" /\ f.reg.cmd = "first" /\ f.reg.nvm_addr \in NvmAddresses =>
           r.reg.nvm_data = f.nvm[f.reg.nvm_addr]
  <2>1. Commanded(f, r, "read", w, N)
    BY <1>3, CommandWrites
  <2> HIDE DEF r
  <2> QED BY <2>1 DEF Commanded, Does, Writes
<1> HIDE DEF r
<1>5. Reads(r, c, 1) /\ Viewed(c)
  BY <1>4, NvmReadyReads
<1> HIDE DEF c
<1>6. Reads(c, h, 1) /\ Viewed(h)
  BY <1>5, GetRegsReads DEF Reads
<1> HIDE DEF h
<1>7. /\ Reads(h, g, 0) /\ Viewed(g) /\ g.rslt = h.rslt
      /\ h.rslt = "OK" => g.data = h.reg.nvm_data
  BY <1>6, OutReads DEF Reads
<1> HIDE DEF g
<1>8. Reads(r, g, 2)
  <2>1. Reads(r, h, 1 + 1)
    BY <1>4, <1>5, <1>6, ReadsThen
  <2>2. Reads(r, g, 2 + 0)
    BY <1>4, <1>7, <2>1, ReadsThen
  <2> QED BY <2>2
<1>9. ASSUME g.rslt = "OK"
      PROVE  /\ g.reg.mode = "STANDBY"
             /\ a.powermode = (IF Known(d.reg) THEN Actual(d.reg) ELSE d.stack)
             /\ Known(d.reg) => g.reg.deep_dis
             /\ addr \in NvmAddresses /\ g.data = d.nvm[addr]
  <2>1. r.rslt = "OK" /\ f.rslt = "OK" /\ a.rslt = "OK" /\ h.rslt = "OK"
    BY <1>3, <1>4, <1>7, <1>8, <1>9 DEF Reads
  <2>2. g.reg.mode = a.reg.mode /\ g.reg.deep_dis = a.reg.deep_dis
        /\ f.reg.nvm_addr = a.reg.nvm_addr
    BY <1>3, <1>4, <1>8, FieldNames DEF Reads
  <2>3. g.data = r.reg.nvm_data
    BY <1>5, <1>6, <1>7, <2>1 DEF Reads
  <2> QED BY <1>2, <1>3, <1>4, <2>1, <2>2, <2>3
<1>10. /\ Does(g, e, w, N, 12) /\ SameData(g, e)
       /\ e.rslt = "OK" /\ Known(d.reg) => GoneBack(d, e)
  BY <1>7, <1>9, RestoredDoes DEF N
<1> HIDE DEF e
<1>11. Does(d, e, w, M, 35)
  <2>1. Does(d, f, w, N, 19 + 1)
    BY <1>2, <1>3, DoesThen
  <2>2. Does(d, r, w, N, 20 + 1)
    BY <1>4, <2>1, DoesThen
  <2>3. Does(d, g, w, N, 21 + 2)
    BY <1>8, <2>2, ReadsDoes, DoesThen
  <2>4. Does(d, e, w, N, 23 + 12)
    BY <1>10, <2>3, DoesThen
  <2> QED BY <2>4, OwnMode DEF N
<1>12. e.rslt = "OK" => g.rslt = "OK"
  BY <1>10 DEF Does, Writes
<1> QED BY <1>1, <1>9, <1>10, <1>11, <1>12 DEF SameData

\* Only the word at the address is written, and only to what was asked.
LEMMA NvmWriteWrites ==
    ASSUME NEW d, Viewed(d), NEW addr, NEW word \in Word16,
           NEW w, NEW M, ~Known(d.reg) => d.stack \in M,
           (Known(d.reg) /\ Actual(d.reg) # "DEEP_STANDBY") \/ Asks(w, DeepSettings)
    PROVE  LET e == NvmWrite(d, addr, word)
           IN  /\ Writes(d, e, w, M, 38)
               /\ e.nvm = d.nvm
                  \/ (addr \in NvmAddresses /\ e.nvm = [d.nvm EXCEPT ![addr] = word])
               /\ e.rslt = "OK" =>
                    /\ addr \in NvmAddresses /\ e.nvm = [d.nvm EXCEPT ![addr] = word]
                    /\ Known(d.reg) => GoneBack(d, e)
<1> DEFINE N == M \cup {d.reg.mode}
           written == [d.nvm EXCEPT ![addr] = word]
           n == NvmWriteAddr(d, addr, TRUE)
           a == GetRegs(n)
           low == ((a.reg.nvm_data \div 2^8) * 2^8) + (word % 2^8)
           l == SetRegs(a, DataOf(low))
           t == SetRegs(l, DataOf(word))
           f == Command(t, "first")
           x == Command(f, "write")
           c == NvmReady(x)
           u == AddressOf(32, FALSE)
           g == SetRegs(c, u)
           e == Restored(g, a.powermode)
           Kept(y) == /\ y.reg.mode = n.reg.mode /\ y.reg.deep_dis = n.reg.deep_dis
                      /\ y.reg.nvm_addr = n.reg.nvm_addr /\ y.reg.prog_en = n.reg.prog_en
<1>1. NvmWrite(d, addr, word) = e
  BY DEF NvmWrite, DataOf, AddressOf
<1>2. /\ Does(d, n, w, N, 19) /\ Viewed(n) /\ n.nvm = d.nvm
      /\ n.rslt = "OK" =>
           /\ addr \in NvmAddresses
           /\ n.reg.mode = "STANDBY"
           /\ n.reg.nvm_addr = addr /\ n.reg.prog_en
           /\ n.powermode = (IF Known(d.reg) THEN Actual(d.reg) ELSE d.stack)
           /\ Known(d.reg) => n.reg.deep_dis
  <2>1. Addressed(d, n, addr, TRUE, w, N)
    BY NvmWriteAddrDoes
  <2> HIDE DEF n
  <2> QED BY <2>1 DEF Addressed, Does, Writes
<1> HIDE DEF n, N
<1>3. Reads(n, a, 1) /\ Viewed(a) /\ a.powermode = n.powermode /\ Kept(a)
  BY <1>2, GetRegsReads DEF Reads, GetRegs, Viewed, ViewFields
<1> HIDE DEF a
<1>4. ASSUME NEW y, Viewed(y), NEW v \in Word16
      PROVE  LET z == SetRegs(y, DataOf(v))
             IN  /\ Does(y, z, w, N, 1) /\ Viewed(z)
                 /\ \A b \in Fields \ {"nvm_data"} : z.reg[b] = y.reg[b]
                 /\ z.rslt = "OK" => y.rslt = "OK" /\ z.reg.nvm_data = v
  <2> DEFINE i == DataOf(v)
             z == SetRegs(y, i)
  <2>1. DOMAIN i = {"nvm_data"} /\ i.nvm_data = v
    BY DEF DataOf
  <2> HIDE DEF i
  <2>2. InField("nvm_data", i.nvm_data)
    BY <2>1, FieldKind
  <2>3. /\ \A b \in DOMAIN i : InField(b, i[b])
        /\ DOMAIN i \cap StandbyOnly = {} /\ Asks(w, i)
        /\ "mode" \notin DOMAIN i /\ "deep_dis" \notin DOMAIN i
    BY <2>1, <2>2, SettingNames DEF StandbyOnly, Asks
  <2>4. Does(y, z, w, N, 1) /\ Sets(y, z, i)
    BY <1>4, <2>3, UpdateDoes
  <2> HIDE DEF z
  <2>5. /\ \A b \in Fields \ {"nvm_data"} : With(y.reg, i)[b] = y.reg[b]
        /\ With(y.reg, i).nvm_data = v
    BY <1>4, <2>1, Merged, FieldNames DEF Viewed, Registers
  <2>6. \A b \in Fields \ {"nvm_data"} : z.reg[b] = y.reg[b]
    BY <2>4, <2>5 DEF Sets
  <2>7. z.rslt = "OK" => z.reg.nvm_data = v
    BY <2>4, <2>5 DEF Sets
  <2> QED BY <2>4, <2>6, <2>7 DEF Does, Writes, z, i
<1>5. low \in Word16
  <2>1. a.reg.nvm_data \in Word16
    BY <1>3, FieldKinds DEF Viewed
  <2> QED BY <2>1, LowByteWritten
<1> HIDE DEF low
<1>6. Does(a, l, w, N, 1) /\ Viewed(l) /\ Kept(l) /\ (l.rslt = "OK" => a.rslt = "OK")
  <2>1. /\ Does(a, l, w, N, 1) /\ Viewed(l)
        /\ \A b \in Fields \ {"nvm_data"} : l.reg[b] = a.reg[b]
        /\ l.rslt = "OK" => a.rslt = "OK"
    BY <1>3, <1>4, <1>5
  <2> QED BY <1>3, <2>1, FieldNames
<1> HIDE DEF l
<1>7. /\ Does(l, t, w, N, 1) /\ Viewed(t) /\ Kept(t)
      /\ t.rslt = "OK" => l.rslt = "OK" /\ t.reg.nvm_data = word
  <2>1. /\ Does(l, t, w, N, 1) /\ Viewed(t)
        /\ \A b \in Fields \ {"nvm_data"} : t.reg[b] = l.reg[b]
        /\ t.rslt = "OK" => l.rslt = "OK" /\ t.reg.nvm_data = word
    BY <1>4, <1>6
  <2> QED BY <1>6, <2>1, FieldNames
<1> HIDE DEF t
<1>8. /\ Does(t, f, w, N, 1) /\ Viewed(f) /\ Kept(f) /\ f.nvm = t.nvm
      /\ f.rslt = "OK" => t.rslt = "OK" /\ f.reg.cmd = "first"
      /\ f.reg.nvm_data = t.reg.nvm_data
  <2>1. /\ Does(t, f, w, N, 1) /\ Viewed(f) /\ f.nvm = t.nvm
        /\ f.rslt = "OK" => t.rslt = "OK" /\ f.reg.cmd = "first"
        /\ f.reg.nvm_data = t.reg.nvm_data
        /\ \A b \in Fields \ {"cmd", "nvm_data"} : f.reg[b] = t.reg[b]
    <3>1. Commanded(t, f, "first", w, N)
      BY <1>7, CommandWrites
    <3> HIDE DEF f
    <3> QED BY <3>1 DEF Commanded, Does, Writes, CommandOf
  <2> QED BY <1>7, <2>1, FieldNames
<1> HIDE DEF f
<1>9. Does(d, f, w, N, 23)
  <2>1. Does(d, a, w, N, 19 + 1)
    BY <1>2, <1>3, ReadsDoes, DoesThen
  <2>2. Does(d, l, w, N, 20 + 1)
    BY <1>6, <2>1, DoesThen
  <2>3. Does(d, t, w, N, 21 + 1)
    BY <1>7, <2>2, DoesThen
  <2>4. Does(d, f, w, N, 22 + 1)
    BY <1>8, <2>3, DoesThen
  <2> QED BY <2>4
<1>10. f.rslt = "OK" =>
         /\ n.rslt = "OK" /\ f.reg.nvm_data = word /\ f.reg.cmd = "first"
         /\ addr \in NvmAddresses /\ f.reg.nvm_addr = addr /\ f.reg.prog_en
         /\ f.nvm = d.nvm
  BY <1>2, <1>3, <1>6, <1>7, <1>8, <1>9 DEF Reads, Does
<1>11. /\ Writes(f, x, w, N, 1) /\ Viewed(x) /\ Kept(x)
       /\ x.nvm = d.nvm \/ (addr \in NvmAddresses /\ x.nvm = written)
       /\ x.rslt = "OK" => f.rslt = "OK" /\ x.nvm = written
  <2> DEFINE at == f.reg.nvm_addr
             done == [f.nvm EXCEPT ![at] = f.reg.nvm_data]
  <2>1. /\ Writes(f, x, w, N, 1) /\ Viewed(x)
        /\ \A b \in Fields \ {"cmd", "nvm_data"} : x.reg[b] = f.reg[b]
        /\ x.nvm # f.nvm => f.rslt = "OK" /\ x.nvm = done
        /\ x.rslt = "OK" /\ f.reg.cmd = "first" /\ at \in NvmAddresses /\ f.reg.prog_en =>
             x.nvm = done
    <3>1. Commanded(f, x, "write", w, N)
      BY <1>8, CommandWrites
    <3> HIDE DEF x
    <3> QED BY <3>1 DEF Commanded
  <2> HIDE DEF x
  <2>2. x.rslt = "OK" => f.rslt = "OK"
    BY <2>1 DEF Writes
  <2>3. f.rslt = "OK" => done = written
    BY <1>10
  <2> HIDE DEF done, written
  <2>4. Kept(x)
    BY <1>8, <2>1, FieldNames
  <2>5. f.nvm = d.nvm
    BY <1>9 DEF Does
  <2> QED BY <1>10, <2>1, <2>2, <2>3, <2>4, <2>5
<1> HIDE DEF x, written
<1>12. Reads(x, c, 1) /\ Viewed(c) /\ Kept(c)
  BY <1>11, NvmReadyReads DEF Reads
<1> HIDE DEF c
<1>13. c.rslt = "OK" => x.rslt = "OK" /\ c.reg.mode = "STANDBY"
  BY <1>2, <1>10, <1>11, <1>12 DEF Reads
<1>14. /\ Does(c, g, w, N, 1) /\ Viewed(g)
       /\ g.rslt = "OK" => c.rslt = "OK"
       /\ g.reg.mode = c.reg.mode /\ g.reg.deep_dis = c.reg.deep_dis
  <2>1. /\ \A b \in DOMAIN u : InField(b, u[b])
        /\ "mode" \notin DOMAIN u /\ "deep_dis" \notin DOMAIN u /\ Asks(w, u)
    <3>1. 32 \in 0..63
      OBVIOUS
    <3> QED BY <3>1, AddressPlain
  <2>2. Parked(c)
    BY <1>13 DEF Parked
  <2> HIDE DEF u
  <2>3. /\ Does(c, g, w, N, 1) /\ Sets(c, g, u)
        /\ With(c.reg, u).mode = c.reg.mode /\ With(c.reg, u).deep_dis = c.reg.deep_dis
    BY <1>12, <2>1, <2>2, UpdateDoes
  <2> QED BY <2>3 DEF Does, Writes, Sets
<1> HIDE DEF g
<1>15. g.rslt = "OK" =>
         /\ n.rslt = "OK" /\ x.rslt = "OK"
         /\ g.reg.mode = "STANDBY" /\ g.reg.deep_dis = n.reg.deep_dis
  BY <1>10, <1>11, <1>12, <1>13, <1>14 DEF Reads
<1>16. /\ Does(g, e, w, N, 12)
       /\ e.rslt = "OK" /\ Known(d.reg) => GoneBack(d, e)
  <2>1. g.rslt = "OK" =>
          /\ g.reg.mode = "STANDBY"
          /\ a.powermode = (IF Known(d.reg) THEN Actual(d.reg) ELSE d.stack)
          /\ Known(d.reg) => g.reg.deep_dis
    BY <1>2, <1>3, <1>15
  <2> QED BY <1>14, <2>1, RestoredDoes DEF N
<1> HIDE DEF e
<1>17. Writes(d, e, w, M, 38)
  <2>1. Writes(d, x, w, N, 23 + 1)
    BY <1>9, <1>11, WritesThen DEF Does
  <2>2. Writes(d, c, w, N, 24 + 1)
    BY <1>12, <2>1, ReadsDoes, WritesThen DEF Does
  <2>3. Writes(d, g, w, N, 25 + 1)
    BY <1>14, <2>2, WritesThen DEF Does
  <2>4. Writes(d, e, w, N, 26 + 12)
    BY <1>16, <2>3, WritesThen DEF Does
  <2> QED BY <2>4 DEF N, Writes
<1>18. e.nvm = x.nvm /\ (e.rslt = "OK" => g.rslt = "OK")
  BY <1>12, <1>14, <1>16 DEF Reads, Does, Writes
<1> QED BY <1>1, <1>2, <1>11, <1>15, <1>16, <1>17, <1>18 DEF written

-----------------------------------------------------------------------------
(***************************************************************************)
(* The mode a call leaves the sensor in wherever it broke off. Only the    *)
(* fields of Actual count here, and whether deep standby is disabled.      *)
(***************************************************************************)
\* A view with all its fields, and all registers.
Shaped(d) == DOMAIN d = ViewFields /\ DOMAIN d.reg = Fields

\* Deep standby is disabled, or the sensor measures: no setting changes the mode.
Awake(r) == r.mode # "STANDBY" \/ r.deep_dis

\* A call that began in one of the modes A is in one of them wherever it broke off.
Keeps(d, e, A) ==
    /\ Shaped(e)
    /\ e.rslt = "OK" => d.rslt = "OK"
    /\ Actual(d.reg) \in A => Actual(e.reg) \in A

LEMMA KeepsThen ==
    ASSUME NEW d, NEW e, NEW f, NEW A, Keeps(d, e, A), Keeps(e, f, A)
    PROVE  Keeps(d, f, A)
  BY DEF Keeps

LEMMA GetRegsShape ==
    ASSUME NEW d, Shaped(d)
    PROVE  LET e == GetRegs(d)
           IN  /\ Shaped(e) /\ e.reg = d.reg /\ e.powermode = d.powermode
               /\ e.rslt = "OK" => d.rslt = "OK"
  BY DEF GetRegs, Shaped, ViewFields

\* A write that may have been taken although the call failed.
LEMMA SetRegsShape ==
    ASSUME NEW d, Shaped(d), NEW u, NEW e, e \in {SetRegs(d, u), Update(d, u)}
    PROVE  /\ Shaped(e) /\ e.powermode = d.powermode
           /\ e.reg \in {d.reg, With(d.reg, u)}
           /\ e.rslt = "OK" => d.rslt = "OK" /\ e.reg = With(d.reg, u)
           /\ d.rslt # "OK" => e.reg = d.reg
<1>1. ASSUME NEW y, Shaped(y)
      PROVE  LET f == SetRegs(y, u)
             IN  /\ Shaped(f) /\ f.powermode = y.powermode
                 /\ f.reg \in {y.reg, With(y.reg, u)}
                 /\ f.rslt = "OK" => y.rslt = "OK" /\ f.reg = With(y.reg, u)
                 /\ y.rslt # "OK" => f.reg = y.reg
  <2> DEFINE g == GetRegs(y)
             hot == y.reg.mode # "STANDBY" /\ DOMAIN u \cap StandbyOnly # {}
             r == With(g.reg, u)
             h == g.hot \/ hot
             f == [g EXCEPT !.reg = r, !.hot = h]
  <2>1. SetRegs(y, u) = IF g.rslt = "OK" \/ (y.rslt = "OK" /\ y.took) THEN f ELSE g
    BY DEF SetRegs
  <2>2. Shaped(g) /\ g.reg = y.reg /\ g.powermode = y.powermode /\ (g.rslt = "OK" => y.rslt = "OK")
    BY <1>1, GetRegsShape
  <2>3. DOMAIN r = Fields /\ r = With(y.reg, u)
    BY <2>2, Merged DEF Shaped
  <2> HIDE DEF g, r, h
  <2>4. f.reg = r /\ f.powermode = g.powermode /\ f.rslt = g.rslt /\ DOMAIN f = ViewFields
    BY <2>2 DEF Shaped, ViewFields
  <2> HIDE DEF f
  <2> QED BY <2>1, <2>2, <2>3, <2>4 DEF Shaped
<1> DEFINE g == GetRegs(d)
<1>2. Shaped(g) /\ g.reg = d.reg /\ g.powermode = d.powermode /\ (g.rslt = "OK" => d.rslt = "OK")
  BY GetRegsShape
<1>3. d.rslt # "OK" => g.rslt # "OK"
  BY <1>2
<1>4. Update(d, u) = SetRegs(g, u)
  BY DEF Update
<1> HIDE DEF g
<1>5. CASE e = SetRegs(d, u)
  BY <1>1, <1>5
<1>6. CASE e = SetRegs(g, u)
  BY <1>1, <1>2, <1>3, <1>6
<1> QED BY <1>4, <1>5, <1>6

\* Writing fields that have no part in the mode, or any setting while awake.
LEMMA SettingKeeps ==
    ASSUME NEW d, Shaped(d), NEW u, NEW A, NEW e, e \in {SetRegs(d, u), Update(d, u)},
           \/ DOMAIN u \cap PowerFields = {}
           \/ /\ "mode" \notin DOMAIN u /\ "deep_dis" \notin DOMAIN u
              /\ d.rslt = "OK" => Awake(d.reg)
    PROVE  /\ Keeps(d, e, A) /\ e.powermode = d.powermode
           /\ (d.rslt = "OK" => Awake(d.reg)) => (e.rslt = "OK" => Awake(e.reg))
<1>1. /\ Shaped(e) /\ e.powermode = d.powermode
      /\ e.reg \in {d.reg, With(d.reg, u)}
      /\ e.rslt = "OK" => d.rslt = "OK" /\ e.reg = With(d.reg, u)
      /\ d.rslt # "OK" => e.reg = d.reg
  BY SetRegsShape
<1> DEFINE r == With(d.reg, u)
<1>2. \A f \in Fields : r[f] = IF f \in DOMAIN u THEN u[f] ELSE d.reg[f]
  BY Merged DEF Shaped
<1> HIDE DEF r
<1>3. r.mode = d.reg.mode /\ r.deep_dis = d.reg.deep_dis
  BY <1>2, FieldNames DEF PowerFields
<1>4. d.rslt = "OK" => Actual(r) = Actual(d.reg)
  <2>1. CASE DOMAIN u \cap PowerFields = {}
    <3>1. r.odr = d.reg.odr /\ r.iir = d.reg.iir /\ r.frame_sel = d.reg.frame_sel
      BY <1>2, <2>1, FieldNames DEF PowerFields
    <3> QED BY <1>3, <3>1 DEF Actual
  <2>2. CASE d.rslt = "OK" => Awake(d.reg)
    BY <1>3, <2>2 DEF Awake, Actual
  <2> QED BY <2>1, <2>2
<1> QED BY <1>1, <1>3, <1>4 DEF Keeps, Awake, r

LEMMA WriteModeKeeps ==
    ASSUME NEW d, Shaped(d), NEW A, NEW m \in A, m \in Measuring \cup {"STANDBY"}
    PROVE  LET e == WritePowerMode(d, m)
           IN  /\ Keeps(d, e, A)
               /\ e.reg.iir = d.reg.iir /\ e.reg.frame_sel = d.reg.frame_sel
<1> DEFINE u == [mode |-> m, deep_dis |-> TRUE]
           r == With(d.reg, u)
           e == Update(d, u)
<1>1. \A f \in Fields : r[f] = IF f \in {"mode", "deep_dis"} THEN u[f] ELSE d.reg[f]
  BY Merged DEF Shaped
<1>2. r.mode = m /\ r.deep_dis = TRUE /\ r.iir = d.reg.iir /\ r.frame_sel = d.reg.frame_sel
  BY <1>1, FieldNames
<1> HIDE DEF u
<1>3. Shaped(e) /\ e.reg \in {d.reg, r} /\ (e.rslt = "OK" => d.rslt = "OK")
  BY SetRegsShape
<1> HIDE DEF r, e
<1>4. Actual(r) = m
  BY <1>2 DEF Actual
<1>5. Keeps(d, e, A) /\ e.reg.iir = d.reg.iir /\ e.reg.frame_sel = d.reg.frame_sel
  BY <1>2, <1>3, <1>4 DEF Keeps
<1> QED BY <1>5 DEF WritePowerMode, e, u

LEMMA GetPowerModeShape ==
    ASSUME NEW d, Shaped(d)
    PROVE  LET g == GetPowerMode(d)
           IN Shaped(g) /\ g.reg = d.reg /\ (g.rslt = "OK" => d.rslt = "OK")
<1> DEFINE e == GetRegs(d)
           f == GetRegs(e)
           g == GetRegs(f)
           h == GetRegs(g)
           deep == h.reg.odr > ODR_05_HZ /\ h.reg.frame_sel = 0 /\ h.reg.iir = BYPASS
           asked == e.reg.mode = "STANDBY" /\ ~e.reg.deep_dis
<1>1. \E x : GetPowerMode(d) \in {Out(e, x), Out(h, x)}
  <2>1. CheckDeepstandbyMode(e) = IF deep THEN Out(h, "DEEP_STANDBY") ELSE Out(h, e.stack)
    BY DEF CheckDeepstandbyMode
  <2>2. GetPowerMode(d) = IF asked THEN CheckDeepstandbyMode(e) ELSE Out(e, e.reg.mode)
    BY DEF GetPowerMode
  <2> HIDE DEF e, h, deep, asked
  <2> QED BY <2>1, <2>2
<1>2. Shaped(e) /\ e.reg = d.reg /\ (e.rslt = "OK" => d.rslt = "OK")
  BY GetRegsShape
<1> HIDE DEF e
<1>3. Shaped(f) /\ f.reg = d.reg /\ (f.rslt = "OK" => d.rslt = "OK")
  BY <1>2, GetRegsShape
<1> HIDE DEF f
<1>4. Shaped(g) /\ g.reg = d.reg /\ (g.rslt = "OK" => d.rslt = "OK")
  BY <1>3, GetRegsShape
<1> HIDE DEF g
<1>5. Shaped(h) /\ h.reg = d.reg /\ (h.rslt = "OK" => d.rslt = "OK")
  BY <1>4, GetRegsShape
<1> HIDE DEF h
<1>6. ASSUME NEW y, Shaped(y), NEW x
      PROVE  Shaped(Out(y, x)) /\ Out(y, x).reg = y.reg /\ Out(y, x).rslt = y.rslt
  BY <1>6 DEF Shaped, Out, ViewFields
<1> QED BY <1>1, <1>2, <1>5, <1>6

\* bmp5_set_power_mode up to standby mode.
LEMMA FromAnyModeKeeps ==
    ASSUME NEW d, Shaped(d), NEW A, "STANDBY" \in A
    PROVE  LET s == FromAnyMode(GetPowerMode(d))
           IN  /\ Keeps(d, s, A)
               /\ s.reg.iir = d.reg.iir /\ s.reg.frame_sel = d.reg.frame_sel
<1> DEFINE g == GetPowerMode(d)
<1>1. Shaped(g) /\ g.reg = d.reg /\ (g.rslt = "OK" => d.rslt = "OK")
  BY GetPowerModeShape
<1> HIDE DEF g
<1>2. LET e == WritePowerMode(g, "STANDBY")
      IN Keeps(g, e, A) /\ e.reg.iir = g.reg.iir /\ e.reg.frame_sel = g.reg.frame_sel
  BY <1>1, WriteModeKeeps
<1>3. FromAnyMode(g) \in {g, WritePowerMode(g, "STANDBY")}
  BY DEF FromAnyMode
<1> QED BY <1>1, <1>2, <1>3 DEF Keeps, g

\* To a mode other than deep standby it passes standby mode only.
LEMMA SetPowerModeKeeps ==
    ASSUME NEW d, Shaped(d), NEW A, "STANDBY" \in A, NEW m \in A, m # "DEEP_STANDBY"
    PROVE  Keeps(d, SetPowerMode(d, m), A)
<1> DEFINE s == FromAnyMode(GetPowerMode(d))
<1>1. Keeps(d, s, A)
  BY FromAnyModeKeeps
<1>2. SetPowerMode(d, m) = FromStandby(s, m)
  BY DEF SetPowerMode
<1> HIDE DEF s
<1>3. FromStandby(s, m) =
        IF m = "STANDBY" THEN s
        ELSE IF m \in Measuring THEN WritePowerMode(s, m) ELSE Fail(s, "INVALID_POWERMODE")
  BY DEF FromStandby, Measuring
<1>4. Keeps(s, s, A) /\ Keeps(s, Fail(s, "INVALID_POWERMODE"), A)
  BY <1>1 DEF Keeps, Shaped, Fail, ViewFields
<1>5. m \in Measuring => Keeps(s, WritePowerMode(s, m), A)
  BY <1>1, WriteModeKeeps DEF Keeps
<1> QED BY <1>1, <1>2, <1>3, <1>4, <1>5, KeepsThen

\* On the way to deep standby the mode becomes invalid where the settings
\* do not allow it yet.
LEMMA SetDeepStandbyBreaks ==
    ASSUME NEW d, Shaped(d), NEW A, "STANDBY" \in A, "DEEP_STANDBY" \in A, Actual(d.reg) \in A
    PROVE  LET e == SetPowerMode(d, "DEEP_STANDBY")
           IN  /\ Shaped(e)
               /\ \/ Actual(e.reg) \in A
                  \/ /\ Actual(e.reg) = "UNDEFINED"
                     /\ d.reg.iir # BYPASS \/ d.reg.frame_sel # 0
<1> DEFINE s == FromAnyMode(GetPowerMode(d))
           v == [deep_dis |-> FALSE, odr |-> ODR_01_HZ]
           o == Update(s, v)
           b == [iir |-> BYPASS]
           i == Update(o, b)
           z == [frame_sel |-> 0]
           e == Update(i, z)
<1>1. Keeps(d, s, A) /\ s.reg.iir = d.reg.iir /\ s.reg.frame_sel = d.reg.frame_sel
  BY FromAnyModeKeeps
<1>2. SetPowerMode(d, "DEEP_STANDBY") = e
  BY DEF SetPowerMode, FromStandby, SetDeepStandbyMode, Measuring
<1> HIDE DEF s
<1>3. Shaped(s) /\ Actual(s.reg) \in A
  BY <1>1 DEF Keeps
<1> DEFINE Slept(r) == r.mode = s.reg.mode /\ r.deep_dis = FALSE /\ r.odr = ODR_01_HZ
           Less(r) == r.iir \in {s.reg.iir, BYPASS} /\ r.frame_sel \in {s.reg.frame_sel, 0}
           Half(r) == DOMAIN r = Fields /\ (r = s.reg \/ (Slept(r) /\ Less(r)))
<1>4. Slept(With(s.reg, v)) /\ Less(With(s.reg, v))
  <2>1. \A f \in Fields : With(s.reg, v)[f] = IF f \in {"deep_dis", "odr"} THEN v[f] ELSE s.reg[f]
    BY <1>3, Merged DEF Shaped
  <2> QED BY <2>1, FieldNames
<1>5. Shaped(o) /\ o.reg \in {s.reg, With(s.reg, v)} /\ (o.rslt = "OK" => Slept(o.reg))
  BY <1>3, <1>4, SetRegsShape
<1>6. ASSUME NEW r, DOMAIN r = Fields, Less(r)
      PROVE  Less(With(r, b)) /\ Less(With(r, z))
  <2>1. /\ \A f \in Fields : With(r, b)[f] = IF f = "iir" THEN BYPASS ELSE r[f]
        /\ \A f \in Fields : With(r, z)[f] = IF f = "frame_sel" THEN 0 ELSE r[f]
    BY <1>6, Merged
  <2> QED BY <1>6, <2>1, FieldNames
<1>7. ASSUME NEW r, DOMAIN r = Fields, Slept(r)
      PROVE  Slept(With(r, b)) /\ Slept(With(r, z))
  <2>1. /\ \A f \in Fields : With(r, b)[f] = IF f = "iir" THEN BYPASS ELSE r[f]
        /\ \A f \in Fields : With(r, z)[f] = IF f = "frame_sel" THEN 0 ELSE r[f]
    BY <1>7, Merged
  <2> QED BY <1>7, <2>1, FieldNames
<1>8. Less(s.reg) /\ Less(o.reg)
  BY <1>4, <1>5
<1>9. /\ Shaped(i) /\ i.reg \in {o.reg, With(o.reg, b)}
      /\ i.rslt = "OK" => o.rslt = "OK" /\ i.reg = With(o.reg, b)
      /\ o.rslt # "OK" => i.reg = o.reg
  BY <1>5, SetRegsShape
<1>10. /\ Shaped(e) /\ e.reg \in {i.reg, With(i.reg, z)}
       /\ i.rslt # "OK" => e.reg = i.reg
  BY <1>9, SetRegsShape
<1> HIDE DEF o, b, i, z, e, v
<1>11. Less(i.reg) /\ (i.rslt = "OK" => Slept(i.reg)) /\ (i.reg = s.reg \/ Slept(i.reg))
  <2>1. o.rslt = "OK" => Slept(o.reg) /\ Slept(With(o.reg, b))
    BY <1>5, <1>7 DEF Shaped
  <2>2. o.reg = s.reg \/ Slept(o.reg)
    BY <1>4, <1>5
  <2>3. Less(With(o.reg, b))
    BY <1>5, <1>6, <1>8 DEF Shaped
  <2> HIDE DEF Slept, Less
  <2> QED BY <1>8, <1>9, <2>1, <2>2, <2>3
<1>12. Less(e.reg) /\ (e.reg = s.reg \/ Slept(e.reg))
  <2>1. i.rslt = "OK" => Slept(With(i.reg, z))
    BY <1>7, <1>9, <1>11 DEF Shaped
  <2>2. Less(With(i.reg, z))
    BY <1>6, <1>9, <1>11 DEF Shaped
  <2> HIDE DEF Slept, Less
  <2> QED BY <1>10, <1>11, <2>1, <2>2
<1>13. CASE e.reg = s.reg
  BY <1>2, <1>3, <1>10, <1>13
<1>14. CASE Slept(e.reg) /\ s.reg.mode # "STANDBY"
  BY <1>2, <1>3, <1>10, <1>14 DEF Actual
<1>15. CASE Slept(e.reg) /\ s.reg.mode = "STANDBY"
  <2>1. CASE e.reg.iir = BYPASS /\ e.reg.frame_sel = 0
    BY <1>2, <1>10, <1>15, <2>1 DEF Actual, ODR_01_HZ, ODR_05_HZ
  <2>2. CASE ~(e.reg.iir = BYPASS /\ e.reg.frame_sel = 0)
    <3>1. Actual(e.reg) = "UNDEFINED"
      BY <1>15, <2>2 DEF Actual
    <3>2. d.reg.iir # BYPASS \/ d.reg.frame_sel # 0
      BY <1>1, <1>12, <2>2
    <3> QED BY <1>2, <1>10, <3>1, <3>2
  <2> QED BY <2>1, <2>2
<1> QED BY <1>12, <1>13, <1>14, <1>15

LEMMA SetStandbyModeKeeps ==
    ASSUME NEW d, Shaped(d), NEW A, "STANDBY" \in A
    PROVE  Keeps(d, SetStandbyMode(d), A)
<1> DEFINE g == GetPowerMode(d)
<1>1. Shaped(g) /\ g.reg = d.reg /\ (g.rslt = "OK" => d.rslt = "OK")
  BY GetPowerModeShape
<1> HIDE DEF g
<1>2. Keeps(g, SetPowerMode(g, "STANDBY"), A)
  BY <1>1, SetPowerModeKeeps
<1>3. SetStandbyMode(d) \in {g, SetPowerMode(g, "STANDBY")}
  BY DEF SetStandbyMode, g
<1> QED BY <1>1, <1>2, <1>3 DEF Keeps

LEMMA EnterStandbyKeeps ==
    ASSUME NEW d, Shaped(d), NEW A, "STANDBY" \in A
    PROVE  Keeps(d, EnterStandby(d), A)
<1> DEFINE g == GetPowerMode(d)
           s == IF g.powermode # "STANDBY" THEN SetPowerMode(g, "STANDBY") ELSE g
           e == [s EXCEPT !.powermode = g.powermode]
<1>1. Shaped(g) /\ g.reg = d.reg /\ (g.rslt = "OK" => d.rslt = "OK")
  BY GetPowerModeShape
<1>2. EnterStandby(d) = e
  BY DEF EnterStandby
<1> HIDE DEF g
<1>3. Keeps(g, SetPowerMode(g, "STANDBY"), A)
  BY <1>1, SetPowerModeKeeps
<1>4. Keeps(d, s, A)
  BY <1>1, <1>3 DEF Keeps
<1> HIDE DEF s
<1>5. Keeps(d, e, A)
  BY <1>4 DEF Keeps, Shaped, ViewFields
<1> QED BY <1>2, <1>5

\* Where a protected setting is changed: s has left deep standby if it must,
\* standby mode is entered, p done in it, and the mode before taken again.
LEMMA InStandbyKeeps ==
    ASSUME NEW d, Viewed(d), NEW A, "STANDBY" \in A, "UNDEFINED" \notin A, Actual(d.reg) \in A,
           NEW c, NEW s, s = IF c THEN SetStandbyMode(d) ELSE d,
           NEW p, p.powermode = EnterStandby(s).powermode,
           LET g == EnterStandby(s)
           IN (g.rslt = "OK" => Awake(g.reg)) => Keeps(g, p, A)
    PROVE  LET e == LeaveStandby(p) IN Shaped(e) /\ Actual(e.reg) \in A
<1>1. Viewed(s) /\ Actual(s.reg) \in A
  <2>1. Keeps(d, SetStandbyMode(d), A)
    BY SetStandbyModeKeeps DEF Shaped, Viewed, Registers
  <2>2. Viewed(s)
    BY StandbyFirst
  <2> QED BY <2>1, <2>2 DEF Keeps
<1> DEFINE g == EnterStandby(s)
<1>2. Keeps(s, g, A)
  BY <1>1, EnterStandbyKeeps DEF Shaped, Viewed, Registers
<1>3. g.rslt = "OK" => Awake(g.reg) /\ g.powermode \in A
  <2>1. Known(s.reg)
    BY <1>1 DEF Known
  <2> QED BY <1>1, <2>1, EnterStandbyDoes DEF Awake
<1>4. Keeps(g, p, A) /\ p.powermode = g.powermode
  BY <1>3
<1> HIDE DEF g
<1>5. Shaped(p) /\ Actual(p.reg) \in A /\ (p.rslt = "OK" => p.powermode \in A)
  BY <1>1, <1>2, <1>3, <1>4 DEF Keeps
<1>6. CASE p.rslt # "OK" \/ p.powermode \in {"STANDBY", "DEEP_STANDBY"}
  <2>1. LeaveStandby(p) = p
    BY <1>6, SetPowerModeStuck DEF LeaveStandby
  <2> QED BY <1>5, <2>1
<1>7. CASE p.rslt = "OK" /\ p.powermode \notin {"STANDBY", "DEEP_STANDBY"}
  <2>1. LeaveStandby(p) = SetPowerMode(p, p.powermode)
    BY <1>7 DEF LeaveStandby
  <2>2. Keeps(p, SetPowerMode(p, p.powermode), A)
    BY <1>5, <1>7, SetPowerModeKeeps
  <2> QED BY <1>5, <2>1, <2>2 DEF Keeps
<1> QED BY <1>6, <1>7

LEMMA SetIirKeeps ==
    ASSUME NEW d, Viewed(d), NEW A, "STANDBY" \in A, "UNDEFINED" \notin A, Actual(d.reg) \in A,
           NEW cfg
    PROVE  Actual(SetIirConfig(d, cfg).reg) \in A
<1> DEFINE u == ShdwOf(cfg)
           v == IirOf(cfg)
           s == IF cfg.iir # BYPASS THEN SetStandbyMode(d) ELSE d
           g == EnterStandby(s)
           o == Update(g, u)
           p == SetRegs(o, v)
<1>1. SetIirConfig(d, cfg) = LeaveStandby(p)
  BY DEF SetIirConfig, WriteIirConfig, ShdwOf, IirOf
<1>2. DOMAIN u = {"shdw"} /\ DOMAIN v = {"iir"}
  BY DEF ShdwOf, IirOf
<1>3. Viewed(s)
  BY StandbyFirst
<1> HIDE DEF s
<1>4. Shaped(g)
  BY <1>3, Parks DEF Shaped, Viewed, Registers
<1> HIDE DEF u, v, g
<1>5. Keeps(g, o, A) /\ o.powermode = g.powermode
      /\ ((g.rslt = "OK" => Awake(g.reg)) => (o.rslt = "OK" => Awake(o.reg)))
  BY <1>2, <1>4, SettingKeeps DEF PowerFields
<1> HIDE DEF o
<1>6. p.powermode = o.powermode
  BY <1>5, SetRegsShape DEF Keeps
<1>7. (o.rslt = "OK" => Awake(o.reg)) => Keeps(o, p, A)
  BY <1>2, <1>5, SettingKeeps DEF Keeps
<1> HIDE DEF p
<1>8. (g.rslt = "OK" => Awake(g.reg)) => Keeps(g, p, A)
  BY <1>5, <1>7, KeepsThen
<1> QED BY <1>1, <1>5, <1>6, <1>8, InStandbyKeeps DEF g, s

LEMMA SetFifoKeeps ==
    ASSUME NEW d, Viewed(d), NEW A, "STANDBY" \in A, "UNDEFINED" \notin A, Actual(d.reg) \in A,
           NEW fifo
    PROVE  Actual(SetFifoConfiguration(d, fifo).reg) \in A
<1> DEFINE a == FifoIirOf(fifo)
           s == IF fifo.frame_sel # 0 THEN SetStandbyMode(d) ELSE d
           g == EnterStandby(s)
           p == Update(g, a)
           l == LeaveStandby(p)
           r == GetRegs(l)
           t == SetFifoThreshold(r, fifo)
           u == FifoModeOf(t)
           q == WriteFifo(r, t)
           v == FramesOf(fifo)
           e == Update(q, v)
<1>1. SetFifoConfiguration(d, fifo) = e /\ l = SetFifoIirConfig(s, fifo.fifo_iir)
  BY DEF SetFifoConfiguration, SetFifoIirConfig, SelectFrames, FifoIirOf, FramesOf
<1>2. DOMAIN a = {"fifo_iir"} /\ DOMAIN u = {"fifo_mode", "threshold"} /\ DOMAIN v = {"frame_sel"}
  BY DEF FifoIirOf, FifoModeOf, FramesOf
<1>3. /\ Configures(d, l, a, {d.stack}, 46)
  BY <1>1, SetFifoIirConfigDoes DEF Asks
<1>4. Viewed(s)
  BY StandbyFirst
<1> HIDE DEF s
<1>5. Shaped(g)
  BY <1>4, Parks DEF Shaped, Viewed, Registers
<1> HIDE DEF a, u, v, g
<1>6. Keeps(g, p, A) /\ p.powermode = g.powermode
  BY <1>2, <1>5, SettingKeeps DEF PowerFields
<1> HIDE DEF p
<1>7. Shaped(l) /\ Actual(l.reg) \in A
  BY <1>6, InStandbyKeeps DEF g, s
<1>8. l.rslt = "OK" => Awake(l.reg)
  <2>1. Known(d.reg)
    BY DEF Known
  <2> QED BY <1>3, <2>1 DEF Configures, Awake
<1> HIDE DEF l
<1>9. Shaped(r) /\ r.reg = l.reg /\ (r.rslt = "OK" => l.rslt = "OK")
  BY <1>7, GetRegsShape
<1> HIDE DEF r, t
<1>10. Keeps(r, SetRegs(r, u), A) /\ (SetRegs(r, u).rslt = "OK" => Awake(SetRegs(r, u).reg))
  BY <1>2, <1>8, <1>9, SettingKeeps DEF PowerFields
<1>11. Keeps(r, q, A) /\ (q.rslt = "OK" => Awake(q.reg))
  <2>1. q \in {Fail(r, "INVALID_THRESHOLD"), SetRegs(r, u)}
    BY DEF WriteFifo, FifoModeOf, u
  <2>2. /\ Keeps(r, Fail(r, "INVALID_THRESHOLD"), A)
        /\ Fail(r, "INVALID_THRESHOLD").rslt # "OK"
    BY <1>9 DEF Keeps, Shaped, Fail, ViewFields
  <2> HIDE DEF q
  <2> QED BY <1>10, <2>1, <2>2
<1> HIDE DEF q
<1>12. Keeps(q, e, A)
  BY <1>2, <1>11, SettingKeeps DEF Keeps
<1> QED BY <1>1, <1>7, <1>9, <1>11, <1>12 DEF Keeps

LEMMA SetOorKeeps ==
    ASSUME NEW d, Viewed(d), NEW A, "STANDBY" \in A, "UNDEFINED" \notin A, Actual(d.reg) \in A,
           NEW oor
    PROVE  Actual(SetOorConfiguration(d, oor).reg) \in A
<1> DEFINE a == OorIirOf(oor)
           b == LimitOf(oor)
           g == EnterStandby(d)
           i == Update(g, a)
           p == Update(i, b)
           c == LeaveStandby(p)
           r == GetRegs(c)
           l == SetRegs(r, LsbOf(oor))
           m == SetRegs(l, MsbOf(oor))
           w == SetRegs(m, RangeOf(oor))
           e == SetRegs(w, XmsbOf(oor))
<1>1. SetOorConfiguration(d, oor) = e
  BY DEF SetOorConfiguration, SetOorIirCountLimit, OorIirOf, LimitOf, LsbOf, MsbOf, RangeOf, XmsbOf
<1>2. /\ DOMAIN a \cap PowerFields = {} /\ DOMAIN b \cap PowerFields = {}
      /\ DOMAIN LsbOf(oor) \cap PowerFields = {} /\ DOMAIN MsbOf(oor) \cap PowerFields = {}
      /\ DOMAIN RangeOf(oor) \cap PowerFields = {} /\ DOMAIN XmsbOf(oor) \cap PowerFields = {}
  BY DEF OorIirOf, LimitOf, LsbOf, MsbOf, RangeOf, XmsbOf, PowerFields
<1>3. Shaped(g)
  BY Parks DEF Shaped, Viewed, Registers
<1> HIDE DEF a, b, g
<1>4. Keeps(g, i, A) /\ i.powermode = g.powermode
  BY <1>2, <1>3, SettingKeeps
<1> HIDE DEF i
<1>5. Keeps(i, p, A) /\ p.powermode = i.powermode
  BY <1>2, <1>4, SettingKeeps DEF Keeps
<1> HIDE DEF p
<1>6. Shaped(c) /\ Actual(c.reg) \in A
  <2>1. Keeps(g, p, A) /\ p.powermode = g.powermode
    BY <1>4, <1>5, KeepsThen
  <2> DEFINE no == FALSE
  <2>2. d = IF no THEN SetStandbyMode(d) ELSE d
    OBVIOUS
  <2> HIDE DEF no
  <2> QED BY <2>1, <2>2, InStandbyKeeps DEF g
<1> HIDE DEF c
<1>7. Shaped(r) /\ r.reg = c.reg
  BY <1>6, GetRegsShape
<1> HIDE DEF r
<1>8. Keeps(r, l, A)
  BY <1>2, <1>7, SettingKeeps
<1> HIDE DEF l
<1>9. Keeps(l, m, A)
  BY <1>2, <1>8, SettingKeeps DEF Keeps
<1> HIDE DEF m
<1>10. Keeps(m, w, A)
  BY <1>2, <1>9, SettingKeeps DEF Keeps
<1> HIDE DEF w
<1>11. Keeps(w, e, A)
  BY <1>2, <1>10, SettingKeeps DEF Keeps
<1> HIDE DEF e
<1> QED BY <1>1, <1>6, <1>7, <1>8, <1>9, <1>10, <1>11 DEF Keeps

\* At 5 Hz deep standby is not left.
LEMMA SetOsrOdrKeeps ==
    ASSUME NEW d, Viewed(d), NEW A, "STANDBY" \in A, "UNDEFINED" \notin A, Actual(d.reg) \in A,
           NEW cfg, cfg.odr \in 0..31
    PROVE  LET e == SetOsrOdrPressConfig(d, cfg)
           IN  \/ Actual(e.reg) \in A
               \/ /\ cfg.odr = ODR_05_HZ
                  /\ Actual(d.reg) = "DEEP_STANDBY" /\ Actual(e.reg) = "UNDEFINED"
<1> DEFINE u == OsrOf(cfg)
           v == OdrOf(cfg)
           s == IF cfg.odr < ODR_05_HZ THEN SetStandbyMode(d) ELSE d
           g == GetRegs(s)
           o == SetRegs(g, u)
           e == SetRegs(o, v)
           r == With(o.reg, v)
<1>1. SetOsrOdrPressConfig(d, cfg) = e
  BY DEF SetOsrOdrPressConfig, OsrOf, OdrOf
<1>2. DOMAIN u = {"osr"} /\ DOMAIN v = {"odr"} /\ v.odr = cfg.odr
  BY DEF OsrOf, OdrOf
<1>3. Shaped(d) /\ Known(d.reg)
  BY DEF Shaped, Viewed, Registers, Known
<1>4. Keeps(d, s, A) /\ (cfg.odr >= ODR_05_HZ => s = d)
      /\ (cfg.odr < ODR_05_HZ /\ s.rslt = "OK" => Awake(s.reg))
  <2>1. Keeps(d, d, A) /\ Keeps(d, SetStandbyMode(d), A)
    BY <1>3, SetStandbyModeKeeps DEF Keeps
  <2>2. SetStandbyMode(d).rslt = "OK" => Awake(SetStandbyMode(d).reg)
    BY <1>3, SetStandbyModeDoes DEF Awake
  <2> QED BY <2>1, <2>2 DEF ODR_05_HZ
<1> HIDE DEF u, v, s
<1>5. Shaped(g) /\ g.reg = s.reg /\ (g.rslt = "OK" => s.rslt = "OK")
  BY <1>4, GetRegsShape DEF Keeps
<1> HIDE DEF g
<1>6. /\ Keeps(g, o, A)
      /\ (g.rslt = "OK" => Awake(g.reg)) => (o.rslt = "OK" => Awake(o.reg))
      /\ DOMAIN u \cap PowerFields = {}
  BY <1>2, <1>5, SettingKeeps DEF PowerFields
<1>7. /\ Shaped(o) /\ Actual(o.reg) \in A
      /\ cfg.odr >= ODR_05_HZ => Actual(o.reg) = Actual(d.reg)
  <2>1. Shaped(o) /\ Actual(o.reg) \in A
    BY <1>4, <1>5, <1>6 DEF Keeps
  <2>2. Keeps(g, o, {Actual(d.reg)})
    BY <1>2, <1>5, SettingKeeps DEF PowerFields
  <2> QED BY <1>4, <1>5, <2>1, <2>2 DEF Keeps
<1> HIDE DEF o
<1>8. CASE cfg.odr < ODR_05_HZ
  <2>1. Keeps(o, e, A)
    BY <1>2, <1>4, <1>5, <1>6, <1>7, <1>8, SettingKeeps
  <2> QED BY <1>1, <1>7, <2>1 DEF Keeps
<1>9. CASE cfg.odr >= ODR_05_HZ
  <2>1. e.reg \in {o.reg, r}
    BY <1>7, SetRegsShape
  <2>2. /\ r.mode = o.reg.mode /\ r.deep_dis = o.reg.deep_dis /\ r.odr = cfg.odr
        /\ r.iir = o.reg.iir /\ r.frame_sel = o.reg.frame_sel
    <3>1. \A f \in Fields : r[f] = IF f \in DOMAIN v THEN v[f] ELSE o.reg[f]
      BY <1>7, Merged DEF Shaped
    <3> QED BY <1>2, <3>1, FieldNames
  <2> HIDE DEF r, e
  <2>3. CASE Actual(r) = Actual(o.reg)
    BY <1>1, <1>7, <2>1, <2>3
  <2>4. CASE Actual(r) # Actual(o.reg)
    <3>1. Actual(o.reg) # "UNDEFINED"
      BY <1>7
    <3>2. o.reg.mode = "STANDBY" /\ ~o.reg.deep_dis
      BY <2>2, <2>4 DEF Actual
    <3>3. Actual(o.reg) = "DEEP_STANDBY" /\ o.reg.iir = BYPASS /\ o.reg.frame_sel = 0
      BY <3>1, <3>2 DEF Actual
    <3>4. ~(cfg.odr > ODR_05_HZ) /\ Actual(r) = "UNDEFINED"
      BY <2>2, <2>4, <3>2, <3>3 DEF Actual
    <3>5. cfg.odr = ODR_05_HZ
      BY <1>9, <3>4 DEF ODR_05_HZ
    <3> QED BY <1>1, <1>7, <1>9, <2>1, <3>3, <3>4, <3>5
  <2> QED BY <2>3, <2>4
<1> QED BY <1>8, <1>9 DEF ODR_05_HZ

\* A step with no part in the mode.
Aside(d, e) ==
    /\ Shaped(e) /\ SamePower(d.reg, e.reg) /\ e.powermode = d.powermode
    /\ e.rslt = "OK" => d.rslt = "OK"

LEMMA AsideThen ==
    ASSUME NEW d, NEW e, NEW f, Aside(d, e), Aside(e, f)
    PROVE  Aside(d, f)
  BY DEF Aside, SamePower

LEMMA AccessAside ==
    ASSUME NEW d, Shaped(d)
    PROVE  /\ Aside(d, GetRegs(d))
           /\ \A u : DOMAIN u \cap PowerFields = {} =>
                Aside(d, SetRegs(d, u)) /\ Aside(d, Update(d, u))
           /\ \A x : Aside(d, Fail(d, x)) /\ Aside(d, Data(d, x))
           /\ Aside(d, NvmReady(d))
<1>1. ASSUME NEW y, Shaped(y)
      PROVE  Aside(y, GetRegs(y)) /\ \A x : Aside(y, Fail(y, x)) /\ Aside(y, Data(y, x))
  BY <1>1, GetRegsShape DEF Aside, SamePower, Shaped, Fail, Data, ViewFields
<1>2. ASSUME NEW u, DOMAIN u \cap PowerFields = {}, NEW e, e \in {SetRegs(d, u), Update(d, u)}
      PROVE  Aside(d, e)
  <2>1. /\ Shaped(e) /\ e.powermode = d.powermode
        /\ e.reg \in {d.reg, With(d.reg, u)} /\ (e.rslt = "OK" => d.rslt = "OK")
    BY <1>2, SetRegsShape
  <2>2. SamePower(d.reg, With(d.reg, u))
    BY <1>2, Merged, FieldNames DEF Shaped, SamePower, PowerFields
  <2> QED BY <2>1, <2>2 DEF Aside, SamePower
<1>3. Aside(d, NvmReady(d))
  <2>1. Aside(d, GetRegs(d)) /\ Aside(GetRegs(d), Fail(GetRegs(d), "NVM_NOT_READY"))
    BY <1>1 DEF Aside
  <2>2. NvmReady(d) \in {GetRegs(d), Fail(GetRegs(d), "NVM_NOT_READY")}
    BY DEF NvmReady
  <2> QED BY <2>1, <2>2, AsideThen
<1> QED BY <1>1, <1>2, <1>3

LEMMA CommandAside ==
    ASSUME NEW d, Shaped(d), NEW command
    PROVE  Aside(d, Command(d, command))
<1> DEFINE u == CommandOf(command)
           c == SetRegs(d, u)
           r == [c EXCEPT !.reg.nvm_data = d.nvm[d.reg.nvm_addr]]
           x == [c EXCEPT !.nvm[d.reg.nvm_addr] = d.reg.nvm_data]
<1>1. DOMAIN u \cap PowerFields = {}
  BY DEF CommandOf, PowerFields
<1>2. Command(d, command) \in {r, x, c}
  BY DEF Command, CommandOf
<1> HIDE DEF u
<1>3. Aside(d, c)
  BY <1>1, AccessAside
<1> HIDE DEF c
<1>4. DOMAIN r = ViewFields /\ DOMAIN r.reg = Fields /\ SamePower(c.reg, r.reg)
      /\ r.powermode = c.powermode /\ r.rslt = c.rslt
  <2> DEFINE q == [c.reg EXCEPT !.nvm_data = d.nvm[d.reg.nvm_addr]]
  <2>1. DOMAIN q = Fields /\ \A f \in Fields \ {"nvm_data"} : q[f] = c.reg[f]
    BY <1>3 DEF Aside, Shaped
  <2>2. r = [c EXCEPT !.reg = q]
    OBVIOUS
  <2> HIDE DEF q, r
  <2>3. DOMAIN r = ViewFields /\ r.reg = q /\ r.powermode = c.powermode /\ r.rslt = c.rslt
    BY <1>3, <2>2 DEF Aside, Shaped, ViewFields
  <2> QED BY <2>1, <2>3, FieldNames DEF SamePower
<1>5. DOMAIN x = ViewFields /\ x.reg = c.reg /\ x.powermode = c.powermode /\ x.rslt = c.rslt
  <2> DEFINE q == [c.nvm EXCEPT ![d.reg.nvm_addr] = d.reg.nvm_data]
  <2>1. x = [c EXCEPT !.nvm = q]
    OBVIOUS
  <2> HIDE DEF q, x
  <2> QED BY <1>3, <2>1 DEF Aside, Shaped, ViewFields
<1> HIDE DEF r, x
<1> QED BY <1>2, <1>3, <1>4, <1>5 DEF Aside, SamePower, Shaped

\* After the address is set, nothing has a part in the mode until it is restored.
LEMMA RestoredKeeps ==
    ASSUME NEW d, Viewed(d), NEW A, A = {Actual(d.reg), "STANDBY"}, "UNDEFINED" \notin A,
           NEW addr, NEW prog_en, NEW a, a = NvmWriteAddr(d, addr, prog_en),
           NEW g, Shaped(a) => Aside(a, g)
    PROVE  Actual(Restored(g, a.powermode).reg) \in A
<1> DEFINE s == EnterStandby(d)
           n == NvmReady(s)
           u == [nvm_addr |-> addr, prog_en |-> prog_en]
           w == <<>>
<1>1. Shaped(d) /\ Known(d.reg) /\ "STANDBY" \in A /\ Actual(d.reg) \in A
  BY DEF Shaped, Viewed, Registers, Known
<1>2. Addressed(d, a, addr, prog_en, w, {})
  BY NvmWriteAddrDoes
<1>3. a.rslt = "OK" => a.powermode = Actual(d.reg)
  BY <1>1, <1>2 DEF Addressed
<1>4. a.reg.iir = d.reg.iir /\ a.reg.frame_sel = d.reg.frame_sel
  <2>1. DOMAIN w = {}
    OBVIOUS
  <2> HIDE DEF w
  <2> QED BY <1>2, <2>1, SettingNames, FieldNames DEF Addressed, Does, Writes
<1>5. Shaped(a) /\ Actual(a.reg) \in A
  <2>1. Keeps(d, s, A)
    BY <1>1, EnterStandbyKeeps
  <2> HIDE DEF s
  <2>2. Aside(s, n)
    BY <2>1, AccessAside DEF Keeps
  <2> HIDE DEF n
  <2>3. DOMAIN u \cap PowerFields = {}
    BY DEF PowerFields
  <2>4. a \in {Fail(d, "NVM_INVALID_ADDR"), Update(n, u)}
    BY DEF NvmWriteAddr, SetNvmAddr, n, s
  <2> HIDE DEF u
  <2>5. Aside(n, Update(n, u)) /\ Aside(d, Fail(d, "NVM_INVALID_ADDR"))
    BY <1>1, <2>2, <2>3, AccessAside DEF Aside
  <2> QED BY <1>1, <2>1, <2>2, <2>4, <2>5, SamePowerSameMode DEF Aside, Keeps
<1>6. Aside(a, g) /\ Actual(g.reg) \in A
  BY <1>5, SamePowerSameMode DEF Aside
<1>7. CASE a.powermode = "STANDBY" \/ g.rslt # "OK"
  <2>1. Restored(g, a.powermode) = g
    BY <1>7, SetPowerModeStuck DEF Restored
  <2> QED BY <1>6, <2>1
<1>8. CASE a.powermode # "STANDBY" /\ g.rslt = "OK"
  <2>1. Restored(g, a.powermode) = SetPowerMode(g, Actual(d.reg))
    BY <1>3, <1>6, <1>8 DEF Restored, Aside
  <2>2. CASE Actual(d.reg) # "DEEP_STANDBY"
    <3>1. Keeps(g, SetPowerMode(g, Actual(d.reg)), A)
      BY <1>1, <1>6, <2>2, SetPowerModeKeeps DEF Aside
    <3> QED BY <1>6, <2>1, <3>1 DEF Keeps
  <2>3. CASE Actual(d.reg) = "DEEP_STANDBY"
    <3>1. d.reg.iir = BYPASS /\ d.reg.frame_sel = 0
      <4>1. d.reg.mode # "DEEP_STANDBY"
        BY FieldKinds DEF Viewed, Measuring
      <4> QED BY <2>3, <4>1 DEF Actual
    <3>2. g.reg.iir = BYPASS /\ g.reg.frame_sel = 0
      BY <1>4, <1>6, <3>1 DEF Aside, SamePower
    <3> QED BY <1>1, <1>6, <2>1, <2>3, <3>2, SetDeepStandbyBreaks DEF Aside
  <2> QED BY <2>2, <2>3
<1> QED BY <1>7, <1>8

LEMMA NvmKeepsMode ==
    ASSUME NEW d, Viewed(d), NEW A, A = {Actual(d.reg), "STANDBY"}, "UNDEFINED" \notin A,
           NEW addr, NEW word
    PROVE  /\ Actual(NvmRead(d, addr).reg) \in A
           /\ Actual(NvmWrite(d, addr, word).reg) \in A
<1>1. Actual(NvmRead(d, addr).reg) \in A
  <2> DEFINE a == NvmWriteAddr(d, addr, FALSE)
             f == Command(a, "first")
             r == Command(f, "read")
             n == NvmReady(r)
             h == GetRegs(n)
             g == Data(h, h.reg.nvm_data)
  <2>1. NvmRead(d, addr) = Restored(g, a.powermode)
    BY DEF NvmRead, GetNvmData
  <2>2. Shaped(a) => Aside(a, g)
    <3> SUFFICES ASSUME Shaped(a) PROVE Aside(a, g)
      OBVIOUS
    <3> HIDE DEF a
    <3>1. Aside(a, f)
      BY CommandAside
    <3> HIDE DEF f
    <3>2. Aside(f, r)
      BY <3>1, CommandAside DEF Aside
    <3> HIDE DEF r
    <3>3. Aside(r, n)
      BY <3>2, AccessAside DEF Aside
    <3> HIDE DEF n
    <3>4. Aside(n, h)
      BY <3>3, AccessAside DEF Aside
    <3> HIDE DEF h
    <3>5. Aside(h, g)
      BY <3>4, AccessAside DEF Aside
    <3> HIDE DEF g
    <3> QED BY <3>1, <3>2, <3>3, <3>4, <3>5, AsideThen
  <2> DEFINE no == FALSE
  <2>3. a = NvmWriteAddr(d, addr, no)
    OBVIOUS
  <2> HIDE DEF a, g, no
  <2> QED BY <2>1, <2>2, <2>3, RestoredKeeps
<1>2. Actual(NvmWrite(d, addr, word).reg) \in A
  <2> DEFINE y == NvmWriteAddr(d, addr, TRUE)
             a == GetRegs(y)
             low == [nvm_data |-> ((a.reg.nvm_data \div 2^8) * 2^8) + (word % 2^8)]
             l == SetRegs(a, low)
             whole == [nvm_data |-> word]
             w == SetRegs(l, whole)
             f == Command(w, "first")
             c == Command(f, "write")
             n == NvmReady(c)
             none == [nvm_addr |-> 32, prog_en |-> FALSE]
             g == SetRegs(n, none)
  <2>1. NvmWrite(d, addr, word) = Restored(g, a.powermode)
    BY DEF NvmWrite
  <2>2. /\ DOMAIN low \cap PowerFields = {} /\ DOMAIN whole \cap PowerFields = {}
        /\ DOMAIN none \cap PowerFields = {}
    BY DEF PowerFields
  <2> HIDE DEF low, whole, none
  <2>3. Shaped(y) => Aside(y, g) /\ a.powermode = y.powermode
    <3> SUFFICES ASSUME Shaped(y) PROVE Aside(y, g) /\ a.powermode = y.powermode
      OBVIOUS
    <3> HIDE DEF y
    <3>1. Aside(y, a)
      BY AccessAside
    <3> HIDE DEF a
    <3>2. Aside(a, l)
      BY <2>2, <3>1, AccessAside DEF Aside
    <3> HIDE DEF l
    <3>3. Aside(l, w)
      BY <2>2, <3>2, AccessAside DEF Aside
    <3> HIDE DEF w
    <3>4. Aside(w, f)
      BY <3>3, CommandAside DEF Aside
    <3> HIDE DEF f
    <3>5. Aside(f, c)
      BY <3>4, CommandAside DEF Aside
    <3> HIDE DEF c
    <3>6. Aside(c, n)
      BY <3>5, AccessAside DEF Aside
    <3> HIDE DEF n
    <3>7. Aside(n, g)
      BY <2>2, <3>6, AccessAside DEF Aside
    <3> HIDE DEF g
    <3>8. Aside(y, c)
      BY <3>1, <3>2, <3>3, <3>4, <3>5, AsideThen
    <3> QED BY <3>1, <3>6, <3>7, <3>8, AsideThen DEF Aside
  <2> DEFINE yes == TRUE
  <2>4. y = NvmWriteAddr(d, addr, yes)
    OBVIOUS
  <2>5. Shaped(y)
    <3> HIDE DEF yes, y
    <3>1. Addressed(d, y, addr, yes, <<>>, {})
      BY <2>4, NvmWriteAddrDoes
    <3> QED BY <3>1 DEF Addressed, Does, Writes, Viewed, Registers, Shaped
  <2> HIDE DEF a, g, y, yes
  <2> QED BY <2>1, <2>3, <2>4, <2>5, RestoredKeeps
<1> QED BY <1>1, <1>2

LEMMA InterruptKeeps ==
    ASSUME NEW d, Viewed(d), NEW x
    PROVE  /\ Actual(ConfigureInterrupt(d, x).reg) = Actual(d.reg)
           /\ Actual(IntSourceSelect(d, x).reg) = Actual(d.reg)
           /\ Actual(Data(GetRegs(d), x).reg) = Actual(d.reg)
<1>1. Shaped(d)
  BY DEF Shaped, Viewed, Registers
<1> DEFINE off == [int_source |-> 0]
           u == [int_source |-> x]
           v == [int_config |-> x]
           o == Update(d, off)
           i == GetInterruptStatus(o)
           c == SetRegs(i, v)
<1>2. /\ DOMAIN off \cap PowerFields = {} /\ DOMAIN u \cap PowerFields = {}
      /\ DOMAIN v \cap PowerFields = {}
  BY DEF PowerFields
<1>3. ConfigureInterrupt(d, x) = c /\ IntSourceSelect(d, x) = Update(d, u)
  BY DEF ConfigureInterrupt, IntSourceSelect
<1> HIDE DEF off, u, v
<1>4. Aside(d, o) /\ Aside(d, Update(d, u)) /\ Aside(d, GetRegs(d))
  BY <1>1, <1>2, AccessAside
<1> HIDE DEF o
<1>5. Shaped(i) /\ SamePower(o.reg, i.reg)
  <2> DEFINE g == GetRegs(o)
             q == [g.reg EXCEPT !.por = FALSE]
             y == [g EXCEPT !.data = o.reg.por, !.reg = q]
  <2>1. Shaped(g) /\ g.reg = o.reg
    BY <1>4, GetRegsShape DEF Aside
  <2>2. i \in {g, y}
    BY DEF GetInterruptStatus
  <2> HIDE DEF g
  <2>3. DOMAIN q = Fields /\ \A f \in Fields \ {"por"} : q[f] = g.reg[f]
    BY <2>1 DEF Shaped
  <2> HIDE DEF q
  <2>4. DOMAIN y = ViewFields /\ y.reg = q
    BY <2>1 DEF Shaped, ViewFields
  <2> HIDE DEF y, i
  <2> QED BY <2>1, <2>2, <2>3, <2>4, FieldNames DEF Shaped, SamePower
<1> HIDE DEF i
<1>6. Aside(i, c)
  BY <1>2, <1>5, AccessAside
<1> HIDE DEF c
<1>7. Actual(c.reg) = Actual(d.reg) /\ Actual(Update(d, u).reg) = Actual(d.reg)
  BY <1>4, <1>5, <1>6, SamePowerSameMode DEF Aside
<1>8. Aside(GetRegs(d), Data(GetRegs(d), x))
  BY <1>4, AccessAside DEF Aside
<1> QED BY <1>3, <1>4, <1>7, <1>8, SamePowerSameMode DEF Aside
=============================================================================
