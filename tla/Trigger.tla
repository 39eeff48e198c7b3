------------------------------- MODULE Trigger -------------------------------
(***************************************************************************)
(* The trigger of hdl/MaxAdc.vhd (P_TRG, P_TICK) with the recorder it      *)
(* stops (P_WR_COMB, P_WR_SEQ), in the clock domain of the memory.         *)
(*                                                                         *)
(* The trigger is computed from a registered copy of the selected channel  *)
(* and is a register itself; the samples are delayed as much, so that the  *)
(* recorder sees a trigger together with the sample that caused it.  The   *)
(* readout is reduced to the moment it releases the memory.                *)
(*                                                                         *)
(* Samples, levels and hysteresis are numbers of the same width: the       *)
(* samples and levels signed, the hysteresis unsigned.                     *)
(***************************************************************************)
EXTENDS MaxAdcWriter, Sequences

CONSTANTS
  Samples,      (* what the ADC may deliver: both channels, DOR bit, extTrg *)
  LvlMin, LvlMax, (* range of a signed sample                              *)
  Decimated,    (* the levels wrDecm takes: only TRUE without decimation   *)
  TickPeriod,   (* MS_TICK_PERIOD_C                                        *)
  AUTO_TIME_STOP (* AUTO_TIME_STOP_C, also the largest autoTimeMs           *)

LvlRange == LvlMax - LvlMin + 1

ASSUME TriggerAssumption ==
  /\ \A s \in Samples : /\ {s.CHA, s.CHB} \subseteq LvlMin .. LvlMax
                        /\ {s.dor, s.ext} \subseteq BOOLEAN
  /\ \A p \in Parms : /\ p.src \in {"CHA", "CHB", "EXT"} /\ p.rising \in BOOLEAN
                      /\ p.lvl \in LvlMin .. LvlMax /\ p.hyst \in 0 .. LvlRange - 1
                      /\ p.autoTimeMs \in 0 .. AUTO_TIME_STOP
  /\ TickPeriod \in Nat \ {0} /\ AUTO_TIME_STOP \in Nat
  /\ LvlMax \in Nat /\ LvlMin = 0 - LvlMax - 1

VARIABLES
  lstTrg, armLvl,                          \* of rWr
  rTrg,
  msTickCounter, msTimer, msTimerExpired,
  hist                                     \* history: the newest samples recorded

trgVars == <<rWr, lstTrg, armLvl, rTrg, msTickCounter, msTimer, msTimerExpired, hist>>

lparms     == rWr.parms
SMPL_INIT  == [CHA |-> 0, CHB |-> 0, dor |-> FALSE, ext |-> FALSE]
TRG_REG_INIT == [trg |-> FALSE, extTrg |-> FALSE, armed |-> FALSE, trgSmpl |-> 0,
                 smplDly |-> <<SMPL_INIT, SMPL_INIT>>]

TrgInit ==
  /\ \E p \in Parms : rWr = WR_REG_INIT(p)
  /\ lstTrg = FALSE /\ armLvl = 0 /\ rTrg = TRG_REG_INIT
  /\ msTickCounter = TickPeriod - 1 /\ msTimer = AUTO_TIME_STOP /\ msTimerExpired = FALSE
  /\ hist = <<>>
-----------------------------------------------------------------------------
(* P_TRG.                                                                  *)

Beyond(v, p) == (v >= p.lvl) = p.rising

\* The level which arms the trigger saturates; but it is computed with one bit
\* more than a level has, which does not hold every sum of a signed and an
\* unsigned number of that width: what is saturated may have wrapped.
ArmSum(p)    == IF p.rising THEN p.lvl - p.hyst ELSE p.lvl + p.hyst
Wrapped(a)   == ((a + LvlRange) % (2 * LvlRange)) - LvlRange
Saturated(a) == IF a < LvlMin THEN LvlMin ELSE IF a > LvlMax THEN LvlMax ELSE a
ArmLevel(p)  == Saturated(Wrapped(ArmSum(p)))

\* A level that is passed while the buffer fills disarms instead.
LevelTrg == lparms.src \in {"CHA", "CHB"} /\ Beyond(rTrg.trgSmpl, lparms) /\ rTrg.armed

rinTrgOneDelay(s) ==                     \* mutant: the samples are one cycle early
  [rTrg EXCEPT
    !.trgSmpl = IF lparms.src = "CHB" THEN s.CHB ELSE s.CHA,
    !.armed   = IF LevelTrg /\ rWr.state = "FILL" THEN FALSE
                ELSE @ \/ (rTrg.trgSmpl < armLvl) = lparms.rising,
    !.extTrg  = (s.ext = lparms.rising),
    !.trg     = IF lparms.src = "EXT" THEN rTrg.extTrg
                ELSE IF LevelTrg THEN rWr.state # "FILL" ELSE @,
    !.smplDly = <<s, s>>]
rinTrg(s) ==
  [rTrg EXCEPT
    !.trgSmpl = IF lparms.src = "CHB" THEN s.CHB ELSE s.CHA,
    !.armed   = IF LevelTrg /\ rWr.state = "FILL" THEN FALSE
                ELSE @ \/ (rTrg.trgSmpl < armLvl) = lparms.rising,
    !.extTrg  = (s.ext = lparms.rising),
    !.trg     = IF lparms.src = "EXT" THEN rTrg.extTrg
                ELSE IF LevelTrg THEN rWr.state # "FILL" ELSE @,
    !.smplDly = <<s, rTrg.smplDly[1]>>]

Disarmed(r) == [r EXCEPT !.armed = FALSE, !.trg = FALSE, !.extTrg = FALSE]

\* What is written to the buffer, and whether a trigger belongs to it.
wdat == rTrg.smplDly[2]
trg  == ~lstTrg /\ rTrg.trg
-----------------------------------------------------------------------------
(* P_TICK: runs with every edge; FILL winds the timer up.                  *)

TickStopsAtOne ==                        \* mutant: the last millisecond is not counted
  LET tick == msTickCounter = 0
      runs == tick /\ msTimer # AUTO_TIME_STOP
  IN  IF rWr.state = "FILL"
      THEN msTimerExpired' = FALSE /\ msTimer' = lparms.autoTimeMs /\ msTickCounter' = 0
      ELSE /\ msTimerExpired' = (msTimerExpired \/ (runs /\ msTimer = 1))
           /\ msTimer' = IF runs THEN (msTimer - 1) % (AUTO_TIME_STOP + 1) ELSE msTimer
           /\ msTickCounter' = IF tick THEN TickPeriod - 1 ELSE msTickCounter - 1
Tick ==
  LET tick == msTickCounter = 0
      runs == tick /\ msTimer # AUTO_TIME_STOP
  IN  IF rWr.state = "FILL"
      THEN msTimerExpired' = FALSE /\ msTimer' = lparms.autoTimeMs /\ msTickCounter' = 0
      ELSE /\ msTimerExpired' = (msTimerExpired \/ (runs /\ msTimer = 0))
           /\ msTimer' = IF runs THEN (msTimer - 1) % (AUTO_TIME_STOP + 1) ELSE msTimer
           /\ msTickCounter' = IF tick THEN TickPeriod - 1 ELSE msTickCounter - 1
-----------------------------------------------------------------------------
(* P_WR_SEQ.                                                               *)

\* The newest MemDepth + 1 samples of this recording: one more than can be
\* read out.
Recorded(s) ==
  LET h == Append(hist, s)
  IN  IF Len(h) > MemDepth + 1 THEN Tail(h) ELSE h

NewParms(p) ==
  /\ ParmEdge(p)
  /\ rTrg' = Disarmed(rTrg)
  /\ IF rWr.state = "HOLD" THEN UNCHANGED <<lstTrg, armLvl, hist>>
     ELSE lstTrg' = FALSE /\ armLvl' = 0 /\ hist' = <<>>
  /\ Tick

Sampled(s, released) ==
  /\ rWr.state # "INIT"
  /\ DecmEdge(trg, msTimerExpired, wdat.dor, IF released THEN rWr.tgl ELSE ~rWr.tgl)
  /\ armLvl' = ArmLevel(lparms)
  /\ rTrg' = IF rWr.state = "HOLD" THEN Disarmed(rinTrg(s)) ELSE rinTrg(s)
  /\ lstTrg' = IF Recording THEN rTrg.trg ELSE lstTrg
  /\ hist' = IF Recording THEN Recorded(wdat)
             ELSE IF rWr'.state = "FILL" THEN <<>> ELSE hist
  /\ Tick

\* No sample: without wrDecm, and until the first parameters arrive.
Idle ==
  /\ FALSE \in Decimated \/ rWr.state = "INIT"
  /\ rTrg' = IF rWr.state = "HOLD" THEN Disarmed(rTrg) ELSE rTrg
  /\ UNCHANGED <<rWr, lstTrg, armLvl, hist>>
  /\ Tick

TrgNext ==
  \/ \E p \in Parms : NewParms(p)
  \/ \E s \in Samples, released \in BOOLEAN : Sampled(s, released)
  \/ Idle

TrgSpec == TrgInit /\ [][TrgNext]_trgVars
-----------------------------------------------------------------------------
(* Properties.                                                             *)

Stopped == rWr.state \in {"STOP1", "STOP2"}

\* The place in hist of the sample before which the window holds nprets ones.
TrgIdx == Len(hist) - (lparms.nsamples - lparms.nprets)

Fires(p, s) == CASE p.src = "CHA" -> Beyond(s.CHA, p)
                 [] p.src = "CHB" -> Beyond(s.CHB, p)
                 [] p.src = "EXT" -> s.ext = p.rising

\* The sample before which the window holds nprets ones is beyond the level.
BeyondAtTrigger == TrgIdx \in 2 .. Len(hist) /\ Fires(lparms, hist[TrgIdx])

\* It is the first one: the one before it was not beyond the level.
FirstAtTrigger == ~Fires(lparms, hist[TrgIdx - 1])

\* Level and hysteresis whose sum (difference) wraps before it is saturated: it
\* ends up on the other side of the level, and everything arms the trigger.
Overflows(p) == p.src # "EXT" /\ ArmSum(p) \notin (0 - LvlRange) .. (LvlRange - 1)

\* A restart clears the trigger, the level that arms it is 0 at first, and the
\* pipeline may hold a sample of another channel: what it then takes for an
\* edge is over when FILL ends.
Refilled(p) ==
  IF p.src = "EXT" THEN p.nprets >= 2
  ELSE \/ p.nprets >= 1
       \/ /\ IF p.rising THEN p.lvl >= 0 ELSE p.lvl <= 0
          /\ \A q \in Parms : q.src = "CHB" <=> p.src = "CHB"

\* "trigger edge": unless the trigger was automatic it was an edge and the window
\* lies where it was: neither the delay of the trigger nor the end of FILL nor a
\* restart shifts it, and a level without an edge does not trigger.  With a sum
\* that wraps it may: then only the sample at the trigger is beyond the level.
TriggerIsEdge ==
  Stopped /\ ~rWr.autTrg /\ Refilled(lparms) =>
    BeyondAtTrigger /\ (Overflows(lparms) \/ FirstAtTrigger)

\* The newest n samples recorded.
Newest(n) == {hist[i] : i \in {j \in 1 .. Len(hist) : j > Len(hist) - n}}

\* The over-range flag of the reply is set when one of the newest nsamples
\* samples was out of range, and only then.  The readout has nsamples + 1: the
\* flag does not tell about the oldest one, and with nsamples = 0 is never set.
OverRangeExact ==
  Stopped => (rWr.ovrA # 0 <=> \E s \in Newest(lparms.nsamples) : s.dor)

\* "remember overrange 'seen' during the last MEM_DEPTH_G samples": a readout of
\* the whole memory has the flag set when one of its samples was out of range.
OverRangeOfMemory ==
  Stopped /\ lparms.nsamples = MemDepth - 1 =>
    (rWr.ovrA # 0 <=> \E s \in Newest(MemDepth) : s.dor)

\* Clocks run and samples keep coming; the rest is the code's doing.
TrgFairSpec ==
  TrgSpec /\ WF_trgVars(TrgNext) /\ SF_trgVars(\E s \in Samples, released \in BOOLEAN : Sampled(s, released))

\* "manual/immediate trigger is achieved by setting autoTimeMs to 0": unless
\* switched off the timer ends every recording that waits for a trigger.
AutoTriggers ==
  rWr.state = "RUN" /\ lparms.autoTimeMs # AUTO_TIME_STOP ~> rWr.state # "RUN"
=============================================================================
