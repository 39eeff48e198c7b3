----------------------------- MODULE MaxAdcWriter -----------------------------
(***************************************************************************)
(* The recording state machine of hdl/MaxAdc.vhd (P_WR_COMB, P_WR_SEQ).    *)
(*                                                                         *)
(* It fills the buffer with the samples that precede the trigger (FILL),   *)
(* keeps recording until the trigger and then until the buffer is complete *)
(* (RUN), tells the buffer how many samples are valid (STOP1, STOP2) and   *)
(* waits until the reader hands the buffer back (HOLD).                    *)
(*                                                                         *)
(* The operators describe one edge of the ADC clock; modules that compose  *)
(* the recorder with a trigger or with a buffer state when it comes.       *)
(***************************************************************************)
EXTENDS SampleMemory

CONSTANT Parms        \* sets of parameters, as far as the recorder uses them

\* "validity of parameters must be checked by provider": nsamples is the
\* number of samples - 1.
ASSUME ParmsAssumption ==
  \A p \in Parms : p.nsamples \in 0 .. MemDepth - 1 /\ p.nprets \in 0 .. p.nsamples

VARIABLE rWr

WrStates == {"INIT", "FILL", "RUN", "STOP1", "STOP2", "HOLD"}

\* NUM_ADDR_BITS_C is numBits(MEM_DEPTH_G) here: the recorder can count to
\* MemDepth.  Channel A stands for both in the over-range counter.
WrType ==
  [state : WrStates, wasTrg : BOOLEAN, autTrg : BOOLEAN, nsmpls : 0 .. MemDepth,
   ovrA : 0 .. MemDepth, tgl : BOOLEAN, parms : Parms]

WR_REG_INIT(p) ==
  [state |-> "INIT", wasTrg |-> FALSE, autTrg |-> FALSE, nsmpls |-> 0,
   ovrA |-> 0, tgl |-> FALSE, parms |-> p]

WR_REG_START(r, p) == [WR_REG_INIT(p) EXCEPT !.state = "FILL", !.tgl = r.tgl]

Recording == rWr.state \in {"FILL", "RUN"}
memFull   == rWr.state = "HOLD"

\* What is offered to the buffer at an edge: nothing, a sample, or one of the
\* two words that carry the number of samples.
wrEna(wrDecm) == ~memFull /\ wrDecm
wrCmd         == rWr.state \in {"STOP1", "STOP2"}
wrCmdDat      == IF rWr.state = "STOP1" THEN rWr.nsmpls % LoWord
                                        ELSE rWr.nsmpls \div LoWord
-----------------------------------------------------------------------------
ovrNextSticky(dor) ==                           \* mutant: never forgotten
  IF dor THEN rWr.parms.nsamples ELSE rWr.ovrA
\* How many more samples remember the newest one that was out of range.
ovrNext(dor) == IF dor THEN rWr.parms.nsamples
                ELSE IF rWr.ovrA # 0 THEN rWr.ovrA - 1 ELSE 0

FillEdge(dor) ==
  LET full == rWr.nsmpls >= rWr.parms.nprets
  IN  /\ rWr.state = "FILL"
      /\ rWr' = [rWr EXCEPT
           !.state  = IF full THEN "RUN" ELSE @,
           !.nsmpls = IF full THEN rWr.parms.nprets ELSE @ + 1,
           !.ovrA   = ovrNext(dor)]

\* trg: the trigger condition came true in this cycle; expired: msTimerExpired.
RunEdge(trg, expired, dor) ==
  LET was == rWr.wasTrg \/ trg \/ expired
  IN  /\ rWr.state = "RUN"
      /\ rWr' = [rWr EXCEPT
           !.state  = IF was /\ rWr.nsmpls = rWr.parms.nsamples THEN "STOP1" ELSE @,
           !.wasTrg = was,
           !.autTrg = IF ~rWr.wasTrg /\ was THEN expired ELSE @,
           !.nsmpls = IF was THEN @ + 1 ELSE @,
           !.ovrA   = ovrNext(dor)]

StopEdge ==
  \/ rWr.state = "STOP1" /\ rWr' = [rWr EXCEPT !.state = "STOP2"]
  \/ rWr.state = "STOP2" /\ rWr' = [rWr EXCEPT !.state = "HOLD", !.tgl = ~@]

\* The buffer is the reader's until rdTgl follows.
HoldEdge(rdTgl) ==
  /\ rWr.state = "HOLD"
  /\ rWr' = IF rdTgl = rWr.tgl
            THEN [rWr EXCEPT !.state = "FILL", !.nsmpls = 0, !.wasTrg = FALSE,
                             !.autTrg = FALSE, !.ovrA = 0]
            ELSE rWr

\* New parameters restart the recording: never between the two stop words,
\* and in HOLD only the parameters change.
ParmEdgeInHold(p) ==                            \* mutant: restarts in HOLD
  /\ rWr.state \notin {"STOP1", "STOP2"}
  /\ rWr' = WR_REG_START(rWr, p)
ParmEdge(p) ==
  /\ rWr.state \notin {"STOP1", "STOP2"}
  /\ rWr' = IF rWr.state = "HOLD" THEN [rWr EXCEPT !.parms = p]
                                  ELSE WR_REG_START(rWr, p)

\* An edge without new parameters; without wrDecm nothing moves.
DecmEdge(trg, expired, dor, rdTgl) ==
  \/ FillEdge(dor)
  \/ RunEdge(trg, expired, dor)
  \/ StopEdge
  \/ HoldEdge(rdTgl)
=============================================================================
