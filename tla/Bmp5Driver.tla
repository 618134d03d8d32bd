----------------------------- MODULE Bmp5Driver -----------------------------
(***************************************************************************)
(* Bosch's driver of the BMP5 pressure sensor (bmp5api, bmp5.c) as         *)
(* functions of the driver's view `d': the sensor's registers, how many    *)
(* more bytes the bus carries before it fails, the result so far and what  *)
(* was read. Once the result is not "OK" every further access is left out, *)
(* which is what the nested tests of rslt in the code amount to.           *)
(*                                                                         *)
(* A bit field is a field of `reg'; the two oversampling rates and the     *)
(* pressure enable bit are one value, and so are the temperature and the   *)
(* pressure half of each filter setting. Pointers are never null.          *)
(***************************************************************************)
EXTENDS Integers, Sequences

CONSTANTS Spi, ChipId   \* dev->intf is SPI; the value of the CHIP_ID register

ASSUME DriverAssumption == Spi \in BOOLEAN /\ ChipId \in 0..255

Measuring == {"NORMAL", "FORCED", "CONTINUOUS"}
PowerModes == Measuring \cup {"STANDBY", "DEEP_STANDBY"}
ODR_05_HZ == 24
ODR_01_HZ == 28
BYPASS == 0

\* What a soft reset leaves in the registers.
ResetValues ==
    [mode |-> "STANDBY", deep_dis |-> FALSE, odr |-> ODR_01_HZ, osr |-> 0,
     shdw |-> 1, iir |-> BYPASS, fifo_iir |-> 0, oor_iir |-> 0,
     fifo_mode |-> 0, threshold |-> 0, frame_sel |-> 0,
     int_config |-> 0, int_source |-> 0,
     oor_lsb |-> 0, oor_msb |-> 0, oor_xmsb |-> 0, oor_range |-> 0, cnt_lim |-> 0,
     nvm_addr |-> 0, prog_en |-> FALSE, nvm_data |-> 0, cmd |-> "none", por |-> TRUE]

\* Fields the datasheet lets the host write in standby mode only.
StandbyOnly == {"iir", "shdw", "fifo_iir", "oor_iir", "cnt_lim", "nvm_addr", "prog_en"}

\* The mode the sensor is in, "UNDEFINED" where the comments of bmp5.c call
\* the power mode invalid: deep standby not disabled, but asked to filter,
\* to fill its FIFO or to measure at 5 Hz and more.
Actual(reg) ==
    IF reg.mode # "STANDBY" \/ reg.deep_dis THEN reg.mode
    ELSE IF reg.odr > ODR_05_HZ /\ reg.iir = BYPASS /\ reg.frame_sel = 0
         THEN "DEEP_STANDBY" ELSE "UNDEFINED"

-----------------------------------------------------------------------------
(***************************************************************************)
(* Register access. When the bus fails at a byte of a write, the sensor    *)
(* may have taken that byte (took) or not.                                 *)
(***************************************************************************)
\* The registers with the fields of u.
With(registers, u) ==
    [f \in DOMAIN registers |-> IF f \in DOMAIN u THEN u[f] ELSE registers[f]]

\* bmp5_get_regs.
GetRegs(d) == IF d.rslt # "OK" THEN d
              ELSE IF d.left = 0 THEN [d EXCEPT !.rslt = "COM_FAIL"]
              ELSE [d EXCEPT !.left = @ - 1]

\* bmp5_set_regs for the register with the fields of u; a burst over several
\* registers fails byte by byte.
SetRegs(d, u) ==
    LET e == GetRegs(d)
    IN IF e.rslt = "OK" \/ (d.rslt = "OK" /\ d.took)
       THEN [e EXCEPT !.reg = With(@, u),
                      !.hot = @ \/ (d.reg.mode # "STANDBY"
                                    /\ DOMAIN u \cap StandbyOnly # {})]
       ELSE e

\* Read a register, set some of its bits, write it back.
Update(d, u) == SetRegs(GetRegs(d), u)

Fail(d, error) == IF d.rslt = "OK" THEN [d EXCEPT !.rslt = error] ELSE d
Out(d, powermode) == IF d.rslt = "OK" THEN [d EXCEPT !.powermode = powermode] ELSE d
Data(d, data) == IF d.rslt = "OK" THEN [d EXCEPT !.data = data] ELSE d

\* Reading INT_STATUS clears it.
GetInterruptStatus(d) ==
    LET e == GetRegs(d)
    IN IF e.rslt = "OK" THEN [e EXCEPT !.data = d.reg.por, !.reg.por = FALSE] ELSE e

DummyRead(d) == IF Spi THEN GetRegs(d) ELSE d

SoftReset(d) ==
    LET c == [SetRegs(d, ResetValues) EXCEPT !.hot = d.hot]
        s == GetInterruptStatus(DummyRead(c))
    IN IF s.data THEN s ELSE Fail(s, "POR_SOFTRESET")

\* nvm_ready_check reads the status register.
NvmReadyCheck(d) ==
    LET e == GetRegs(d) IN IF d.ready THEN e ELSE Fail(e, "NVM_NOT_READY")

ValidateChipId(d) == IF ChipId \in {80, 81} THEN d ELSE Fail(d, "DEV_NOT_FOUND")

\* bmp5_init
InitSensor(d) ==
    LET c == GetRegs(DummyRead(d))
    IN IF ChipId = 0 THEN Fail(c, "INVALID_CHIP_ID") ELSE ValidateChipId(NvmReadyCheck(c))

-----------------------------------------------------------------------------
(***************************************************************************)
(* Power modes.                                                            *)
(***************************************************************************)
\* Unless all four settings allow deep standby, *powermode is not assigned
\* and the caller has what was on its stack.
CheckDeepstandbyMode(d) ==
    LET e == GetRegs(GetRegs(GetRegs(d)))
    IN IF e.reg.odr > ODR_05_HZ /\ e.reg.frame_sel = 0 /\ e.reg.iir = BYPASS
       THEN Out(e, "DEEP_STANDBY") ELSE Out(e, d.stack)

GetPowerMode(d) ==
    LET e == GetRegs(d)
    IN IF e.reg.mode = "STANDBY" /\ ~e.reg.deep_dis THEN CheckDeepstandbyMode(e)
       ELSE Out(e, e.reg.mode)

\* set_power_mode
WritePowerMode(d, powermode) == Update(d, [mode |-> powermode, deep_dis |-> TRUE])

\* Mutant: the filter is left as it is.
SetDeepStandbyKeepsFilter(d) ==
    LET o == Update(d, [deep_dis |-> FALSE, odr |-> ODR_01_HZ])
    IN Update(GetRegs(o), [frame_sel |-> 0])

SetDeepStandbyMode(d) ==
    LET o == Update(d, [deep_dis |-> FALSE, odr |-> ODR_01_HZ])
        i == Update(o, [iir |-> BYPASS])
    IN Update(i, [frame_sel |-> 0])

FromAnyMode(d) == IF d.powermode # "STANDBY" THEN WritePowerMode(d, "STANDBY") ELSE d

FromStandby(d, powermode) ==
    CASE powermode = "DEEP_STANDBY" -> SetDeepStandbyMode(d)
      [] powermode = "STANDBY" -> d
      [] powermode \in Measuring -> WritePowerMode(d, powermode)
      [] OTHER -> Fail(d, "INVALID_POWERMODE")

\* bmp5_set_power_mode goes through standby mode.
SetPowerMode(d, powermode) == FromStandby(FromAnyMode(GetPowerMode(d)), powermode)

\* Mutant: the test is the wrong way round.
SetStandbyModeSwapped(d) ==
    LET g == GetPowerMode(d)
    IN IF g.powermode # "DEEP_STANDBY" THEN SetPowerMode(g, "STANDBY") ELSE g

SetStandbyMode(d) ==
    LET g == GetPowerMode(d)
    IN IF g.powermode = "DEEP_STANDBY" THEN SetPowerMode(g, "STANDBY") ELSE g

\* bmp5_set_iir_config, set_fifo_iir_config, set_oor_iir_count_limit and
\* nvm_write_addr write in standby mode and keep the mode before.
EnterStandby(d) ==
    LET g == GetPowerMode(d)
        s == IF g.powermode # "STANDBY" THEN SetPowerMode(g, "STANDBY") ELSE g
    IN [s EXCEPT !.powermode = g.powermode]

\* The first three go back to it, except to deep standby.
LeaveStandby(d) ==
    IF d.powermode \in {"STANDBY", "DEEP_STANDBY"} THEN d ELSE SetPowerMode(d, d.powermode)

-----------------------------------------------------------------------------
(***************************************************************************)
(* Measurement settings, filter and interrupts.                            *)
(***************************************************************************)
GetOsrOdrPressConfig(d) == LET e == GetRegs(d) IN Data(e, [osr |-> e.reg.osr, odr |-> e.reg.odr])

\* Mutant: the rate is written before deep standby is left.
SetOsrOdrFirst(d, cfg) ==
    LET o == SetRegs(SetRegs(GetRegs(d), [osr |-> cfg.osr]), [odr |-> cfg.odr])
    IN IF cfg.odr < ODR_05_HZ THEN SetStandbyMode(o) ELSE o

\* The register value of 5 Hz is greater than those of higher rates.
SetOsrOdrPressConfig(d, cfg) ==
    LET s == IF cfg.odr < ODR_05_HZ THEN SetStandbyMode(d) ELSE d
    IN SetRegs(SetRegs(GetRegs(s), [osr |-> cfg.osr]), [odr |-> cfg.odr])

GetIirConfig(d) == LET e == GetRegs(d) IN Data(e, [shdw |-> e.reg.shdw, iir |-> e.reg.iir])

\* set_iir_config
WriteIirConfig(d, cfg) == SetRegs(Update(d, [shdw |-> cfg.shdw]), [iir |-> cfg.iir])

SetIirConfig(d, cfg) ==
    LET s == IF cfg.iir # BYPASS THEN SetStandbyMode(d) ELSE d
    IN LeaveStandby(WriteIirConfig(EnterStandby(s), cfg))

IntSourceSelect(d, sources) == Update(d, [int_source |-> sources])

\* Mutant: the sources stay on.
ConfigureInterruptUnmasked(d, cfg) ==
    SetRegs(GetInterruptStatus(GetRegs(d)), [int_config |-> cfg])

ConfigureInterrupt(d, cfg) ==
    LET off == Update(d, [int_source |-> 0])
    IN SetRegs(GetInterruptStatus(off), [int_config |-> cfg])

Signed24(raw) == IF raw >= 2^23 THEN raw - 2^24 ELSE raw

\* bmp5_get_sensor_data, in units of 1/65536 degree and 1/64 Pa.
GetSensorData(d, press_en, raw) ==
    Data(GetRegs(d), [temperature |-> Signed24(raw.t),
                      pressure |-> IF press_en THEN raw.p ELSE 0])

-----------------------------------------------------------------------------
(***************************************************************************)
(* FIFO and out-of-range settings.                                         *)
(***************************************************************************)
GetFifoConfiguration(d) ==
    LET e == GetRegs(GetRegs(GetRegs(d)))
    IN Data(e, [fifo_mode |-> e.reg.fifo_mode, threshold |-> e.reg.threshold,
                frame_sel |-> e.reg.frame_sel, fifo_iir |-> e.reg.fifo_iir])

\* Mutant: the limit for a single kind of frame.
MaxThresholdSingle(frame_sel) == 31

\* 32 frames of temperature (1) or of pressure (2), 16 frames of both (3).
MaxThreshold(frame_sel) == IF frame_sel = 3 THEN 15 ELSE 31

\* set_fifo_threshold; without frames to store the threshold is kept.
SetFifoThreshold(d, fifo) ==
    IF fifo.frame_sel = 0 THEN [fifo EXCEPT !.threshold = d.reg.threshold] ELSE fifo

SetFifoIirConfig(d, fifo_iir) ==
    LeaveStandby(Update(EnterStandby(d), [fifo_iir |-> fifo_iir]))

WriteFifo(d, fifo) ==
    IF fifo.frame_sel # 0 /\ fifo.threshold > MaxThreshold(fifo.frame_sel)
    THEN Fail(d, "INVALID_THRESHOLD")
    ELSE SetRegs(d, [fifo_mode |-> fifo.fifo_mode, threshold |-> fifo.threshold])

SelectFrames(d, fifo) ==
    Update(WriteFifo(d, SetFifoThreshold(d, fifo)), [frame_sel |-> fifo.frame_sel])

SetFifoConfiguration(d, fifo) ==
    LET s == IF fifo.frame_sel # 0 THEN SetStandbyMode(d) ELSE d
    IN SelectFrames(GetRegs(SetFifoIirConfig(s, fifo.fifo_iir)), fifo)

GetOorConfiguration(d) ==
    LET e == GetRegs(GetRegs(d))
    IN Data(e, [oor_iir |-> e.reg.oor_iir, range |-> e.reg.oor_range, cnt_lim |-> e.reg.cnt_lim,
                thr |-> e.reg.oor_lsb + (2^8 * e.reg.oor_msb) + (2^16 * e.reg.oor_xmsb)])

SetOorIirCountLimit(d, oor) ==
    LET i == Update(EnterStandby(d), [oor_iir |-> oor.oor_iir])
    IN LeaveStandby(Update(i, [cnt_lim |-> oor.cnt_lim]))

\* Mutant: the bits above the second byte are not masked out.
MsbUnmasked(thr) == thr \div 2^8

Msb(thr) == (thr \div 2^8) % 2^8

\* Mutant: the 17th bit is forgotten.
XmsbDropped(thr) == 0

Xmsb(thr) == (thr \div 2^16) % 2

\* A threshold of 17 bits in three of the four registers of one burst.
SetOorConfiguration(d, oor) ==
    LET r == GetRegs(SetOorIirCountLimit(d, oor))
        l == SetRegs(r, [oor_lsb |-> oor.thr % 2^8])
        m == SetRegs(l, [oor_msb |-> Msb(oor.thr)])
        p == SetRegs(m, [oor_range |-> oor.range])
    IN SetRegs(p, [oor_xmsb |-> Xmsb(oor.thr)])

-----------------------------------------------------------------------------
(***************************************************************************)
(* Non-volatile memory: d.nvm, a word for each address the user may use.   *)
(***************************************************************************)
NvmAddresses == 32..34

\* A command takes effect after the first one of its sequence.
Command(d, command) ==
    LET e == SetRegs(d, [cmd |-> IF command = "first" THEN "first" ELSE "none"])
        done == d.reg.cmd = "first" /\ e.reg.cmd = "none" /\ e.reg.nvm_addr \in NvmAddresses
    IN IF done /\ command = "read" THEN [e EXCEPT !.reg.nvm_data = d.nvm[d.reg.nvm_addr]]
       ELSE IF done /\ command = "write" /\ e.reg.prog_en
            THEN [e EXCEPT !.nvm[d.reg.nvm_addr] = d.reg.nvm_data]
       ELSE e

\* get_nvm_status and the test of it.
NvmReady(d) == IF d.ready THEN GetRegs(d) ELSE Fail(GetRegs(d), "NVM_NOT_READY")

\* Mutant: the program bit is left alone.
SetNvmAddrOnly(d, addr, prog_en) == Update(NvmReady(d), [nvm_addr |-> addr])

SetNvmAddr(d, addr, prog_en) == Update(NvmReady(d), [nvm_addr |-> addr, prog_en |-> prog_en])

\* Mutant: the address is written whatever the mode.
NvmWriteAddrAnyMode(d, addr, prog_en) ==
    IF addr \notin NvmAddresses THEN Fail(d, "NVM_INVALID_ADDR")
    ELSE SetNvmAddr(GetPowerMode(d), addr, prog_en)

\* nvm_write_addr hands out the mode before.
NvmWriteAddr(d, addr, prog_en) ==
    IF addr \notin NvmAddresses THEN Fail(d, "NVM_INVALID_ADDR")
    ELSE SetNvmAddr(EnterStandby(d), addr, prog_en)

Restored(d, powermode) == IF powermode = "STANDBY" THEN d ELSE SetPowerMode(d, powermode)

GetNvmData(d) == LET e == GetRegs(NvmReady(d)) IN Data(e, e.reg.nvm_data)

\* bmp5_nvm_read
NvmRead(d, addr) ==
    LET a == NvmWriteAddr(d, addr, FALSE)
    IN Restored(GetNvmData(Command(Command(a, "first"), "read")), a.powermode)

\* bmp5_nvm_write; in the end the address register gets the last command
\* with the program bit cleared, 0xA0, which reads as address 0x20.
NvmWrite(d, addr, word) ==
    LET a == GetRegs(NvmWriteAddr(d, addr, TRUE))
        l == SetRegs(a, [nvm_data |-> ((a.reg.nvm_data \div 2^8) * 2^8) + (word % 2^8)])
        w == SetRegs(l, [nvm_data |-> word])
        c == NvmReady(Command(Command(w, "first"), "write"))
        e == SetRegs(c, [nvm_addr |-> 32, prog_en |-> FALSE])
    IN Restored(e, a.powermode)
=============================================================================
