--------------------------------- MODULE Board ---------------------------------
(***************************************************************************)
(* How a program opens the board (sw/fwComm.c, sw/scopeSup.c and the       *)
(* drivers of the chips): the clock generator, gain stages, front end, DAC *)
(* and ADC are set up by the first program after power-up, which leaves a  *)
(* flag in a register of the FPGA; a later program finds the flag and      *)
(* leaves the chips alone. Every transfer may get lost, with what it was   *)
(* to do done or not, and a program may be killed between any two of them. *)
(*                                                                         *)
(* The state of the chips is a function of fields. A request is a list of  *)
(* steps, a transfer each: what it sets, where the code goes when it       *)
(* fails, and a name when what is read decides where the code goes on. A   *)
(* register that is read to be written with some bits changed is a step.   *)
(***************************************************************************)
EXTENDS Integers, Sequences, FiniteSets, SequencesExt, TLC

CONSTANTS
  Configs,       (* boards: [version, otpFits, unit]                         *)
  BoardRequests, (* what the programs may be asked for                       *)
  DivRegs,       (* registers of an output divider                           *)
  FbRegs,        (* registers of the feedback divider                        *)
  FB,            (* the feedback divider                                     *)
  IdivMax, FdivMax, FdivMaxCasc,   (* limits of the output dividers          *)
  DacMax, DacMax8,                 (* the converter's last tick; of 8 bits   *)
  MaxBoardOps, MaxBoardFaults

ASSUME BoardAssumption ==
  /\ {DivRegs, FbRegs, FB, IdivMax, FdivMax, FdivMaxCasc, DacMax} \subseteq Nat \ {0}
  /\ DacMax8 \in 1 .. DacMax /\ MaxBoardOps \in Nat /\ MaxBoardFaults \in Nat

VARIABLES
  config,   \* the board
  hw,       \* its chips and registers: field -> value
  scp,      \* what the program that has the board open knows
  request,  \* the request under way, or the last one
  bpc,      \* its next step, 0 if none is under way
  bres,     \* how the last one ended: "ok", "failed", "died"
  whole,    \* history: the last initialization begun since power-up ended, front end and all
  start,    \* history: what there was when the request began, and the faults left
  bops, bfaults
bVars == <<config, hw, scp, request, bpc, bres, whole, start, bops, bfaults>>
-------------------------------------------------------------------------------
BoardChannels == 1 .. 2
FecBits  == {"term", "att", "ac", "rng"}
F(n, i)    == <<n, i, "">>
Fec(b, ch) == <<"fec", ch, b>>
Div(o, k)  == <<"div", o, k>>
OtpDiv     == <<0, 1>>

\* Fields of the clock generator at power-up, of the front end, and of the FPGA.
PowerUp ==
  [f \in {F("cfg", o) : o \in 1 .. 4} |-> FALSE]
    @@ [f \in {F("spre", o) : o \in 1 .. 4} |-> FALSE]
    @@ [f \in {F(n, o) : n \in {"buf", "rstb"}, o \in 1 .. 4} |-> TRUE]
    @@ [f \in {F("mux", o) : o \in 1 .. 4} |-> "NORMAL"]
    @@ [f \in {Div(o, k) : o \in 1 .. 4, k \in 1 .. DivRegs} |-> OtpDiv]
    @@ [f \in {F("fb", k) : k \in 1 .. FbRegs} \cup {F("vco", 0)} |-> "otp"]
    @@ [f \in {Fec(b, ch) : b \in FecBits, ch \in BoardChannels} |-> "none"]
    @@ [f \in {F("pga", ch) : ch \in BoardChannels} |-> "none"]
    @@ [f \in {F("tick", ch) : ch \in BoardChannels} |-> (DacMax + 1) \div 2]
    @@ [f \in {F(n, 0) : n \in {"dir", "vref", "rng", "init", "adcMux", "adcTiming", "adcInput"}} |-> FALSE]
    @@ (F("cal", 0) :> TRUE)

Closed == [open |-> FALSE, forced |-> FALSE, freq |-> FALSE, fec |-> FALSE, was |-> FALSE, ans |-> FALSE,
           unit |-> <<0, 0>>, cal |-> <<0, 0>>, maxTicks |-> 0, volt |-> 0]

\* BoardSteps. fail and nak: "next", "bail" (the request fails), "abort" (the program ends),
\* or the step with that name at it.
Wr(set)   == [do |-> "wr", what |-> "", ch |-> 0, set |-> set, fail |-> "bail", nak |-> "", at |-> ""]
Rd(what, fail) == [Wr(<<>>) EXCEPT !.do = "rd", !.what = what, !.fail = fail]
Go(what)  == [Wr(<<>>) EXCEPT !.do = "go", !.what = what]
At(name, steps)      == <<[steps[1] EXCEPT !.at = name]>> \o Tail(steps)
Failing(label, steps) == [i \in DOMAIN steps |-> [steps[i] EXCEPT !.fail = label]]
-------------------------------------------------------------------------------
(* versaClkSup.c                                                           *)

versaClkSetOutCfg(o) == <<Wr(F("cfg", o) :> TRUE)>>

versaClkSetFODRoute(o, rte) ==
  <<Wr(F("spre", o) :> (rte \in {"CASC_FOD", "CASC_OUT"})), Wr(F("buf", o) :> (rte = "NORMAL")),
    Wr(F("mux", o) :> rte @@ F("rstb", o) :> FALSE)>>

\* The divider is taken out of reset if it is in use.
versaClkSetOutDiv(o, d) ==
  [k \in 1 .. DivRegs |-> Wr(Div(o, k) :> d)] \o <<[Wr(<<>>) EXCEPT !.what = "release", !.ch = o]>>

versaClkVCOCal   == <<Wr(F("cal", 0) :> FALSE), Wr(F("cal", 0) :> TRUE @@ F("vco", 0) :> "calc")>>
versaClkSetFBDiv == [k \in 1 .. FbRegs |-> Wr(F("fb", k) :> "calc")] \o versaClkVCOCal
-------------------------------------------------------------------------------
(* scopeSup.c                                                              *)

OUT_EXT(v)  == IF v = 0 THEN 1 ELSE 2
OUT_ADC(v)  == IF v = 0 THEN 2 ELSE 3
OutCfg(v)   == IF v = 0 THEN <<1, 2, 4>> ELSE <<1, 2, 3>>
ADC_DIV  == <<10, 1>>
FOD1_DIV == <<1300, 1>>
EXT_DIV  == <<500, 1>>

boardClkInit(v) ==
  <<Go("hasFreq")>>
    \o FlattenSeq([i \in 1 .. 3 |-> versaClkSetOutCfg(OutCfg(v)[i])])
    \o versaClkSetFODRoute(OUT_ADC(v), "NORMAL") \o versaClkSetFODRoute(OUT_EXT(v), "CASC_FOD")
    \o (IF v = 0 THEN <<>> ELSE versaClkSetFODRoute(1, "NORMAL"))
    \o <<Rd("fb", "bail")>> \o versaClkSetFBDiv
    \o At("outDiv", versaClkSetOutDiv(OUT_ADC(v), ADC_DIV))
    \o (IF v = 0 THEN <<>> ELSE versaClkSetOutDiv(1, FOD1_DIV))
    \o versaClkSetOutDiv(OUT_EXT(v), EXT_DIV)

\* lmh6882SetAttDb, ad8370SetAttDb
pgaSetAttDb(ch, att) == Wr(F("pga", ch) :> att)
pgaInit              == [ch \in BoardChannels |-> pgaSetAttDb(ch, "max")]

\* A front end of version 1 has no bits that could be set.
writeBit(ch, which, on) == Wr(Fec(which, ch) :> on)
FecSet(v, bits) ==
  IF v = 1 THEN <<>>
  ELSE FlattenSeq([ch \in BoardChannels |-> [i \in 1 .. 4 |-> writeBit(ch, bits[i][1], bits[i][2])]])
tca6408FECSupCreate(v) ==
  IF v = 0 THEN <<>>
  ELSE <<Rd("dir", "fecDone")>>
         \o Failing("next", FecSet(v, <<<<"term", "0">>, <<"ac", "1">>, <<"att", "20">>, <<"rng", "1">>>>))
         \o Failing("fecDone", <<Wr(F("dir", 0) :> TRUE)>>) \o At("fecThere", <<Go("fecThere")>>)
fecInit(v) ==
  IF v = 0 THEN <<>>
  ELSE <<Go("needsFec")>> \o FecSet(v, <<<<"term", "0">>, <<"att", "20">>, <<"ac", "0">>, <<"rng", "1">>>>)

dac47cxReset ==
  Wr([f \in {F("tick", ch) : ch \in BoardChannels} |-> (DacMax + 1) \div 2] @@ F("vref", 0) :> FALSE)
dac47cxDetectMax       == <<dac47cxReset, Rd("max", "bail")>>
dac47cxSetRefSelection == Wr(F("vref", 0) :> TRUE)
saveDacMax             == Wr(F("rng", 0) :> TRUE)
\* A DAC that does not answer is taken for none at all.
dacInit ==
  LET dac(step) == [step EXCEPT !.nak = "initDone"]
  IN  <<dac(dac47cxReset)>> \o [i \in 1 .. 2 |-> dac(dac47cxDetectMax[i])]
        \o <<saveDacMax, dac(dac47cxSetRefSelection)>>

max195xxReset     == Wr([f \in {F(n, 0) : n \in {"adcMux", "adcTiming", "adcInput"}} |-> FALSE])
max195xxDLLLocked == Rd("locked", "bail")
max195xxSetMuxMode == Wr(F("adcMux", 0) :> TRUE)
max195xxSetTiming  == Wr(F("adcTiming", 0) :> TRUE)
\* max195xxSetCMVolt on a board of version 0, max195xxEnableClkTermination on others.
max195xxSetInput   == Wr(F("adcInput", 0) :> TRUE)
adcInit(v) ==
  <<max195xxReset, max195xxDLLLocked, max195xxSetMuxMode>>
    \o (IF v > 1 THEN <<>> ELSE <<max195xxSetTiming>>) \o <<max195xxSetInput>>

Flag(on) == Wr(F("init", 0) :> on)
\* -- mutant: the flag is set before the ADC is set up
FlagBeforeAdc(v) ==
  boardClkInit(v) \o pgaInit \o fecInit(v) \o At("fecInitDone", dacInit)
    \o <<[Flag(TRUE) EXCEPT !.fail = "next", !.what = "mark"]>> \o adcInit(v)
InitBoard(v) ==
  boardClkInit(v) \o pgaInit \o fecInit(v) \o At("fecInitDone", dacInit) \o adcInit(v)
    \o <<[Flag(TRUE) EXCEPT !.fail = "next", !.what = "mark"]>>

\* Whether the flag can be written is tried by writing it.
scope_is_initialized ==
  <<Rd("csr", "dll"), [Flag(TRUE) EXCEPT !.fail = "pll"], Rd("stuck", "restore"),
    [Flag(FALSE) EXCEPT !.fail = "abort"], Go("no")>>
    \o At("restore", <<[Flag(FALSE) EXCEPT !.fail = "abort"], Go("abort")>>)
    \o At("pll", <<Rd("lock", "dll")>>) \o At("dll", <<Rd("lock", "no")>>) \o At("known", <<Go("next")>>)

scope_init(v, force) ==
  (IF force THEN <<>> ELSE scope_is_initialized \o <<Go("initialized")>>) \o At("init", InitBoard(v))
    \o At("initDone", <<Go("next")>>)

scope_set_cal_data ==
  FlattenSeq([ch \in BoardChannels |-> <<[Rd("dacGet", "bail") EXCEPT !.ch = ch],
                                    [Wr(<<>>) EXCEPT !.what = "dacCal", !.ch = ch]>>])

\* Without a version the command to close the board with is not known: the program ends.
fw_get_version == Rd("version", "abort")
fw_has_buf     == Rd("mem", "bail")
fw_open_fd     == <<fw_get_version, fw_has_buf, Rd("spi", "next")>>
scope_open(v) ==
  fw_open_fd \o <<fw_has_buf, Rd("freq", "next"), Go("env"), Rd("pll", "next")>>
    \o At("env", <<Go("next")>>) \o tca6408FECSupCreate(v) \o At("fecDone", <<Go("forced")>>)
    \o scope_is_initialized \o <<Go("was")>> \o scope_init(v, FALSE)
    \o <<Rd("rng", "bail"), Rd("acq", "next"), Rd("unit", "next"), Go("cal")>> \o scope_set_cal_data

\* The board is asked to load its FPGA again when the program closes it.
fw_reconfigure_fpga_on_close == <<Rd("supported", "closed")>>
fw_close(reconfigure) ==
  (IF reconfigure THEN fw_reconfigure_fpga_on_close ELSE <<>>) \o <<Rd("bb", "next")>>
    \o (IF reconfigure THEN <<[Wr(F("init", 0) :> FALSE @@ F("rng", 0) :> FALSE) EXCEPT !.what = "reload", !.fail = "next"]>> ELSE <<>>)
    \o At("closed", <<Go("next")>>)
-------------------------------------------------------------------------------
(* The clock output: n is the frequency of the PLL over the one asked for. *)

\* -- mutant: the remainder is not rounded
RoundedDown(idiv, t) == [pre |-> t, post |-> idiv \div t, err |-> idiv % t]
Rounded(idiv, t) ==
  LET post == idiv \div t
      err  == idiv % t
  IN  IF err > t \div 2 /\ post < IdivMax
      THEN [pre |-> t, post |-> post + 1, err |-> t - err] ELSE [pre |-> t, post |-> post, err |-> err]
brute_force_find_dividers(idiv) ==
  LET all == {Rounded(idiv, t) : t \in {t \in 1 .. IdivMax : t >= idiv \div IdivMax /\ idiv \div t <= IdivMax}}
  IN  CHOOSE d \in all : \A e \in all : d.err < e.err \/ (d.err = e.err /\ d.pre <= e.pre)

\* The first stage, of the PLL, with the least fraction.
FractionFirst(n) ==
  LET frac(post) == <<n % (4 * post), 4 * post>>
      less(a, b) == a[1] * b[2] < b[1] * a[2]
      posts == {p \in 1 .. IdivMax : 4 * p * FdivMaxCasc >= n}
  IN  CHOOSE p \in posts :
        \A q \in posts : ~less(frac(q), frac(p)) /\ (less(frac(p), frac(q)) \/ p <= q)

RefDivider(n) == (n + 4 * FB - 1) \div (4 * FB)
TooFar(n)     == n < 2 \/ (n > 4 * IdivMax * FdivMaxCasc /\ RefDivider(n) > IdivMax * IdivMax)

scope_set_clock_out_freq(n) ==
  <<Rd("fbdiv", "bail")>> \o
  CASE TooFar(n) -> <<Go("bail")>>
    [] ~TooFar(n) /\ n > 4 * IdivMax * FdivMaxCasc ->
         LET d == brute_force_find_dividers(RefDivider(n))
         IN  versaClkSetFODRoute(2, "CASC_FOD") \o versaClkSetFODRoute(1, "CASC_FOD")
               \o versaClkSetOutDiv(2, <<d.post, 1>>) \o versaClkSetOutDiv(1, <<d.pre, 1>>)
    [] ~TooFar(n) /\ n \in 2 * FdivMax + 1 .. 4 * IdivMax * FdivMaxCasc ->
         LET post == FractionFirst(n)
         IN  versaClkSetFODRoute(2, "CASC_FOD") \o versaClkSetFODRoute(1, "NORMAL")
               \o versaClkSetOutDiv(2, <<post, 1>>) \o versaClkSetOutDiv(1, <<n, 4 * post>>)
    [] OTHER -> versaClkSetFODRoute(2, "NORMAL") \o versaClkSetOutDiv(2, <<n, 2>>)
scope_clock_out_off        == versaClkSetFODRoute(2, "OFF") \o versaClkSetFODRoute(1, "OFF")
scope_set_clock_out_to_ref == versaClkSetFODRoute(2, "CASC_OUT") \o versaClkSetFODRoute(1, "CASC_OUT")

\* check_clock_out_board_version
ClockOut(v, steps) == IF v = 0 THEN <<Go("bail")>> ELSE steps

\* Requests: [kind, force, ch, n]; n is a frequency, or a voltage.
StepsOf(v, r) ==
  CASE r.kind = "open"  -> scope_open(v)
    [] r.kind = "init"  -> scope_init(v, r.force)
    [] r.kind = "close" -> fw_close(r.force)
    [] r.kind = "dac"   -> <<[Wr(<<>>) EXCEPT !.what = "dacVolt", !.ch = r.ch]>>
    [] r.kind = "clock" -> ClockOut(v, scope_set_clock_out_freq(r.n))
    [] r.kind = "off"   -> ClockOut(v, scope_clock_out_off)
    [] r.kind = "ref"   -> ClockOut(v, scope_set_clock_out_to_ref)
BoardPrograms == [v \in {c.version : c \in Configs} |-> [r \in BoardRequests |-> StepsOf(v, r)]]
BoardSteps    == BoardPrograms[config.version][request]
ThisStep     == BoardSteps[bpc]

\* What is read of the clock output: the routes and the dividers, each by its registers.
versaClkGetFODRoute(o)  == hw[F("mux", o)]
versaClkGetOutDivFlt(o) == hw[Div(o, 1)]
Fod(o) ==
  LET d == versaClkGetOutDivFlt(o)
  IN  CASE versaClkGetFODRoute(o) = "CASC_OUT" -> <<1, 1>>
        [] versaClkGetFODRoute(o) = "OFF"      -> <<0, 0>>
        [] OTHER -> <<2 * d[1], d[2]>>
scope_get_clock_out_freq ==
  LET cascaded(o) == versaClkGetFODRoute(o) \in {"CASC_FOD", "CASC_OUT"}
      fod1 == IF cascaded(2) THEN Fod(1) ELSE <<1, 1>>
  IN  [source |-> IF cascaded(2) /\ cascaded(1) THEN "ref" ELSE "pll",
       num |-> fod1[1] * Fod(2)[1], den |-> fod1[2] * Fod(2)[2]]
-------------------------------------------------------------------------------
(* What steps do.                                                          *)

\* The output of the clock generator that feeds the ADC runs; its divider is right.
AdcClockRuns ==
  LET o == OUT_ADC(config.version)
  IN  hw[F("mux", o)] = "NORMAL" /\ hw[F("buf", o)] /\ hw[F("rstb", o)] /\ hw[F("cal", 0)]
FbFits ==
  \/ config.otpFits /\ \A k \in 1 .. FbRegs : hw[F("fb", k)] = "otp"
  \/ \A k \in 1 .. FbRegs : hw[F("fb", k)] = "calc"

\* Voltages are in ticks; the amplifier of later boards inverts.
Sgn == IF config.version = 0 THEN 1 ELSE -1
dacTick2Volt(tick) == Sgn * tick
dacVolt2Tick(volt) ==
  LET t == Sgn * volt IN IF t < 0 THEN 0 ELSE IF t > scp.maxTicks THEN scp.maxTicks ELSE t
AbsOf(x) == IF x < 0 THEN -x ELSE x
dacGetVoltRange(cal) ==
  LET lo == IF Sgn = 1 THEN 0 ELSE -scp.maxTicks
      maxOff == IF AbsOf(cal[1]) < AbsOf(cal[2]) THEN AbsOf(cal[2]) ELSE AbsOf(cal[1])
  IN  <<lo + maxOff, lo + scp.maxTicks - maxOff>>
dacSetVolt(ch, volt, cal) ==
  LET range == dacGetVoltRange(cal)
      v == IF volt < range[1] THEN range[1] ELSE volt
      w == IF v > range[2] THEN range[2] ELSE v
  IN  F("tick", ch) :> dacVolt2Tick(w - cal[ch])

NewCal(ch) == [scp.cal EXCEPT ![ch] = scp.unit[ch]]
Sets(s) ==
  CASE s.what = "release" -> F("rstb", s.ch) :> (hw[F("mux", s.ch)] \in {"NORMAL", "CASC_FOD"})
    [] s.what = "dacVolt" -> dacSetVolt(s.ch, request.n, scp.cal)
    [] s.what = "dacCal"  -> dacSetVolt(s.ch, scp.volt, NewCal(s.ch))
    [] OTHER -> s.set

\* -- mutant: the calibration is applied anew to a board that was set up before
CalOfOpen == <<0, 0>>
CalAtOpen == IF scp.was THEN scp.unit ELSE <<0, 0>>

\* What the program knows when a step has succeeded.
Heard(s) ==
  CASE s.what = "freq"     -> [scp EXCEPT !.freq = TRUE]
    [] s.what = "env"      -> [scp EXCEPT !.forced = request.force]
    [] s.what = "pll"      -> [scp EXCEPT !.forced = ~AdcClockRuns]
    [] s.what = "fecThere" -> [scp EXCEPT !.fec = TRUE]
    [] s.what = "was"      -> [scp EXCEPT !.was = scp.ans]
    [] s.what = "rng"      -> [scp EXCEPT !.maxTicks = IF hw[F("rng", 0)] THEN DacMax ELSE DacMax8]
    [] s.what = "unit"     -> [scp EXCEPT !.unit = config.unit]
    [] s.what = "cal"      -> [scp EXCEPT !.cal = CalAtOpen]
    [] s.what = "dacGet"   -> [scp EXCEPT !.volt = dacTick2Volt(hw[F("tick", s.ch)]) + scp.cal[s.ch]]
    [] s.what = "dacCal"   -> [scp EXCEPT !.cal = NewCal(s.ch)]
    [] OTHER -> scp

\* Where the code goes then.
Goes(s) ==
  CASE s.what = "csr" /\ hw[F("init", 0)] -> "yes"
    [] s.what = "lock"                    -> IF AdcClockRuns THEN "yes" ELSE "no"
    [] s.what = "env" /\ request.force    -> "env"
    [] s.what = "dir" /\ hw[F("dir", 0)]  -> "fecThere"
    [] s.what = "forced" /\ scp.forced    -> "init"
    [] s.what = "initialized" /\ scp.ans  -> "initDone"
    [] s.what = "hasFreq" /\ ~scp.freq    -> "bail"
    [] s.what = "fb" /\ FbFits            -> "outDiv"
    [] s.what = "needsFec" /\ ~scp.fec    -> "fecInitDone"
    [] s.what = "locked" /\ ~AdcClockRuns -> "bail"
    [] s.what \in {"yes", "no", "bail", "abort"} -> s.what
    [] OTHER -> "next"
-------------------------------------------------------------------------------
FbOf  == {hw[F("fb", k)] : k \in 1 .. FbRegs}
Ticks == [ch \in BoardChannels |-> hw[F("tick", ch)]]

BoardInit ==
  /\ config \in Configs /\ hw = PowerUp /\ scp = Closed
  /\ request \in {r \in BoardRequests : r.kind = "open" /\ ~r.force} /\ bpc = 0 /\ bres = "none"
  /\ whole = FALSE /\ start = [flag |-> FALSE, whole |-> FALSE, fb |-> {"otp"}, vco |-> "otp", ticks |-> Ticks, faults |-> MaxBoardFaults]
  /\ bops = MaxBoardOps /\ bfaults = MaxBoardFaults

BoardBegin(r) ==
  /\ bpc = 0 /\ bops > 0 /\ scp.open = (r.kind # "open")
  /\ request' = r /\ bpc' = 1 /\ bres' = "none" /\ bops' = bops - 1
  /\ start' = [flag |-> hw[F("init", 0)], whole |-> whole, fb |-> FbOf, vco |-> hw[F("vco", 0)], ticks |-> Ticks, faults |-> bfaults]
  /\ UNCHANGED <<config, hw, scp, whole, bfaults>>

\* The program goes on at a label; it gives up the board when it cannot open it, when it
\* closes it, and when it ends itself.
IsAt(i, label) == BoardSteps[i].at = label
Target(label) ==
  IF label = "next" THEN bpc + 1
  ELSE LET name == IF label \in {"yes", "no"} THEN "known" ELSE label
       IN  CHOOSE i \in bpc + 1 .. Len(BoardSteps) :
             IsAt(i, name) /\ \A j \in bpc + 1 .. i - 1 : ~IsAt(j, name)
Fails(how) ==
  /\ bpc' = 0 /\ bres' = how
  /\ scp' = IF how = "died" \/ request.kind = "open" THEN Closed ELSE scp
Completes(known) ==
  /\ bpc' = 0 /\ bres' = "ok"
  /\ scp' = IF request.kind = "close" THEN Closed ELSE [known EXCEPT !.open = TRUE]
GoTo(label, known) ==
  CASE label = "bail"  -> Fails("failed")
    [] label = "abort" -> Fails("died")
    [] label = "next" /\ bpc = Len(BoardSteps) -> Completes(known)
    [] OTHER -> bpc' = Target(label) /\ UNCHANGED bres
                /\ scp' = IF label \in {"yes", "no"} THEN [known EXCEPT !.ans = (label = "yes")] ELSE known

Wholeness(s) ==
  whole' = CASE s.what \in {"hasFreq", "reload"} -> FALSE
             [] s.what = "mark"    -> scp.fec \/ config.version = 0
             [] OTHER -> whole

BoardStep ==
  /\ bpc > 0
  /\ hw' = Sets(ThisStep) @@ hw /\ GoTo(Goes(ThisStep), Heard(ThisStep)) /\ Wholeness(ThisStep)
  /\ UNCHANGED <<config, request, start, bops, bfaults>>

\* A transfer is lost, or its reply when it has been done.
Lose ==
  /\ bpc > 0 /\ ThisStep.do # "go" /\ bfaults > 0 /\ bfaults' = bfaults - 1
  /\ hw' \in {hw, Sets(ThisStep) @@ hw} /\ GoTo(ThisStep.fail, scp) /\ Wholeness(ThisStep)
  /\ UNCHANGED <<config, request, start, bops>>

\* A chip does not answer to its address.
Nak ==
  /\ bpc > 0 /\ ThisStep.nak # "" /\ bfaults > 0 /\ bfaults' = bfaults - 1
  /\ GoTo(ThisStep.nak, scp)
  /\ UNCHANGED <<config, hw, request, whole, start, bops>>

Killed ==
  /\ bpc > 0 /\ bfaults > 0 /\ bfaults' = bfaults - 1 /\ Fails("died")
  /\ UNCHANGED <<config, hw, request, whole, start, bops>>

PowerCycle ==
  /\ bpc = 0 /\ ~scp.open /\ hw # PowerUp
  /\ hw' = PowerUp /\ whole' = FALSE
  /\ UNCHANGED <<config, scp, request, bpc, bres, start, bops, bfaults>>

BoardNext == (\E r \in BoardRequests : BoardBegin(r)) \/ BoardStep \/ Lose \/ Nak \/ Killed \/ PowerCycle
-------------------------------------------------------------------------------
Undisturbed == start.faults = bfaults
DivOf(o) == {hw[Div(o, k)] : k \in 1 .. DivRegs}

\* A board is set up for the program that has it open.
AdcClockIsRight ==
  AdcClockRuns /\ DivOf(OUT_ADC(config.version)) = {ADC_DIV} /\ FbOf = {hw[F("vco", 0)]}
    /\ (~config.otpFits => hw[F("vco", 0)] = "calc")
Configured ==
  /\ AdcClockIsRight /\ \A i \in DOMAIN OutCfg(config.version) : hw[F("cfg", OutCfg(config.version)[i])]
  /\ \A ch \in BoardChannels : hw[F("pga", ch)] # "none"
  /\ config.version > 0 => scp.fec /\ hw[F("dir", 0)]
  /\ config.version > 1 => \A ch \in BoardChannels : \A b \in FecBits : hw[Fec(b, ch)] # "none"
  /\ hw[F("vref", 0)] /\ scp.maxTicks = DacMax
  /\ hw[F("adcMux", 0)] /\ hw[F("adcInput", 0)] /\ (config.version < 2 => hw[F("adcTiming", 0)])

\* scope_open has returned a handle, and no transfer was lost on the way: the clocks,
\* gains, front end, DAC and ADC are set up, whether this program did it, or it trusted
\* the flag that an earlier one left (scopeSup.c 682-770), whatever had become of the
\* programs before. Not so, and therefore left out, when it was the flag of an
\* initialization that was not whole (697-712 and the README), and when a program ended
\* between the feedback divider and the calibration of the VCO (versaClkSup.c 79-86).
ReadyMeansConfigured ==
  /\ bpc = 0 /\ request.kind = "open" /\ bres = "ok" /\ Undisturbed
  /\ start.flag => start.whole
  /\ start.fb = {start.vco} \/ Cardinality(start.fb) > 1
  => Configured

InReach(ticks) ==
  \A ch \in BoardChannels :
    LET range == dacGetVoltRange(config.unit)
        volt  == dacTick2Volt(ticks[ch]) + config.unit[ch]
    IN  range[1] <= volt /\ volt <= range[2]
\* Opening a board that is set up already does not move the offsets an earlier program
\* left in the DAC: they are read in volts, the calibration is put in place, and what
\* is written back is the same tick, unless the calibration puts it out of the range
\* that all channels have in common (scopeSup.c 1049-1062, 348-373).
DacKept ==
  bpc = 0 /\ request.kind = "open" /\ bres = "ok" /\ Undisturbed /\ scp.was /\ scp.maxTicks = DacMax /\ InReach(start.ticks)
    => Ticks = start.ticks

\* The second output of the clock generator, as its switches are.
NoClock == <<"none", 0, 1>>
Divide(f, d) == <<f[1], f[2] * 2 * d[1], f[3] * d[2]>>
Stage(o, prev) ==
  LET chained == IF hw[F("spre", o)] THEN prev ELSE NoClock
      in      == IF hw[F("buf", o)] THEN <<"pll", 1, 1>> ELSE chained
  IN  CASE hw[F("mux", o)] = "OFF"      -> NoClock
        [] hw[F("mux", o)] = "CASC_OUT" -> chained
        [] OTHER -> IF hw[F("rstb", o)] /\ Cardinality(DivOf(o)) = 1 THEN Divide(in, hw[Div(o, 1)]) ELSE NoClock
Out2 == Stage(2, Stage(1, <<"ref", 1, 1>>))

Same(f, g) == f[1] = g[1] /\ f[2] * g[3] = g[2] * f[3]
Nearest(k, n) == \A p, q \in 1 .. IdivMax : AbsOf(k - n) <= AbsOf(p * q - n)
Reported(f) ==
  LET got == scope_get_clock_out_freq
  IN  IF f = NoClock THEN got.den = 0 ELSE Same(f, <<got.source, got.num, got.den>>)
\* When a request for the clock output has succeeded, whatever routes and dividers were
\* left there by requests that failed half way: the output is off, the reference, or
\* the PLL divided by exactly n, or the reference divided by the product of two
\* dividers next to what is asked for (scopeSup.c 2259-2458); and
\* scope_get_clock_out_freq tells what the output does (2197-2257).
ClockAsAsked ==
  bpc = 0 /\ bres = "ok" /\ request.kind \in {"off", "ref", "clock"} =>
    /\ Reported(Out2)
    /\
       CASE request.kind = "off" -> Out2 = NoClock
         [] request.kind = "ref" -> Out2 = <<"ref", 1, 1>>
         [] request.kind = "clock" ->
              IF Out2[1] = "pll" THEN Same(Out2, <<"pll", request.n, 1>>)
              ELSE Out2[1] = "ref" /\ Out2[2] % (4 * Out2[3]) = 0 /\ Nearest(Out2[2] \div (4 * Out2[3]), RefDivider(request.n))
===============================================================================
