----------------------------- MODULE Acquisition -----------------------------
(***************************************************************************)
(* The acquisition of hdl/MaxAdc.vhd with the block-RAM buffer: recorder   *)
(* (MaxAdcWriter), buffer (SampleBufferBRAM) and readout (MaxAdcReader) in *)
(* two clock domains.                                                      *)
(*                                                                         *)
(* Two pairs of toggles hand the memory over: recorder and readout have    *)
(* one, the two sides of the buffer another.  Each toggle reaches the      *)
(* other clock through a two-stage synchronizer.                           *)
(*                                                                         *)
(* A step is a rising edge of one clock or of both; when both rise         *)
(* together a synchronizer samples the old or the new level.               *)
(***************************************************************************)
EXTENDS MaxAdcWriter, SampleBufferBRAM, MaxAdcReader

CONSTANTS
  Cmds,      (* the commands the host uses, a subset of Commands           *)
  Decimated, (* the levels wrDecm takes: only TRUE without decimation      *)
  WrPerRd,   (* bound: memory clock edges in one period of the bus clock   *)
  RdPerWr    (* bound: bus clock edges in one period of the memory clock   *)

ASSUME EnvAssumption ==
  /\ Cmds \subseteq Commands
  /\ Decimated \in {{TRUE}, BOOLEAN}
  /\ WrPerRd \in Nat \ {0} /\ RdPerWr \in Nat \ {0}

VARIABLES
  rdTgl, wrTgl,           \* U_RD_SYNC, U_WR_SYNC of MaxAdc: <<stage 1, stage 2>>
  rdTglSync, wrTglSync,   \* U_WR_SYNC, U_RD_SYNC of the buffer
  sinceStart,             \* edges the trigger pipeline advanced since it was held
  wrLead, rdLead,         \* edges of one clock since the last of the other
  got,                    \* history: words taken in this readout
  flushed                 \* history: a flush was asked for

wrVars == <<rWr, bWr, waddr, ram, rdTgl, rdTglSync, sinceStart>>
rdVars == <<rRd, bRd, wrTgl, wrTglSync, got, flushed>>
vars   == <<wrVars, rdVars, rdata, wrLead, rdLead>>

\* No trigger is seen before the trigger pipeline advanced this often since it
\* was held: the registers rTrg.extTrg and rTrg.trg are held low until recording
\* starts.  Between decimated samples the timer may end the recording earlier,
\* with no samples before the trigger at the first sample after FILL.
TRG_LATENCY == IF FALSE \in Decimated THEN 1 ELSE 2

Init ==
  /\ \E p \in Parms : rWr = WR_REG_INIT(p)
  /\ rRd = RD_REG_INIT
  /\ BufInit
  /\ rdTgl = <<FALSE, FALSE>> /\ wrTgl = <<FALSE, FALSE>>
  /\ rdTglSync = <<FALSE, FALSE>> /\ wrTglSync = <<FALSE, FALSE>>
  /\ sinceStart = 0 /\ wrLead = 0 /\ rdLead = 0
  /\ got = 0 /\ flushed = FALSE
-----------------------------------------------------------------------------
(* The memory clock.                                                       *)

\* P_WR_SEQ: new parameters (parm) come first; the trigger pipeline is held
\* while the recorder is in HOLD.
WrSeq(wrDecm, parm, trg) ==
  \/ /\ parm
     /\ \E p \in Parms : ParmEdge(p)
     /\ sinceStart' = 0
  \/ /\ ~parm /\ wrDecm /\ rWr.state # "INIT"
     /\ DecmEdge(trg, FALSE, FALSE, rdTgl[2])
     /\ sinceStart' = IF ~Recording THEN 0
                      ELSE IF sinceStart < TRG_LATENCY THEN sinceStart + 1 ELSE sinceStart
  \/ /\ ~parm /\ (~wrDecm \/ rWr.state = "INIT")
     /\ UNCHANGED <<rWr, sinceStart>>

Offered(wrDecm) == wrEna(wrDecm) /\ ~wrCmd

MemClk(wrDecm, parm, trg) ==
  /\ wrLead < WrPerRd
  /\ trg => ~parm /\ wrDecm /\ sinceStart = TRG_LATENCY   \* looked at with a sample
  /\ WrSeq(wrDecm, parm, trg)
  /\ BufWrComb(wrEna(wrDecm), wrCmd, wrCmdDat, rdTglSync[2])
  /\ BufWrRam(wrEna(wrDecm), wrCmd)

WrSync(maxAdcTgl, bufTgl) ==
  /\ rdTgl' = <<maxAdcTgl, rdTgl[1]>>
  /\ rdTglSync' = <<bufTgl, rdTglSync[1]>>
-----------------------------------------------------------------------------
(* The bus clock.                                                          *)

\* A frame may hold several commands: the multiplexer hands on its next byte
\* one cycle after the one before, so that a command may directly follow a
\* flush, which the buffer does not show before the next edge.
BusClk(cmd, rdyOb) ==
  LET ena == rdEna(rdyOb)
  IN  /\ rdLead < RdPerWr
      /\ RdComb(cmd, rdyOb, rdEmp, rdLst(rRd.flush), wrTgl[2])
      /\ BufRdComb(ena, rRd.flush, wrTglSync[2])
      /\ got' = IF rRd.state # "READ" THEN 0
                ELSE IF ena /\ got < MemDepth THEN got + 1 ELSE got
      /\ flushed' = (flushed \/ rRd'.flush)

RdSync(maxAdcTgl, bufTgl) ==
  /\ wrTgl' = <<maxAdcTgl, wrTgl[1]>>
  /\ wrTglSync' = <<bufTgl, wrTglSync[1]>>
-----------------------------------------------------------------------------
WrEdge(wrDecm, parm, trg) ==
  /\ MemClk(wrDecm, parm, trg)
  /\ WrSync(rRd.tgl, bRd.tgl)
  /\ rdata' = Aged(rdata, Offered(wrDecm))
  /\ wrLead' = wrLead + 1 /\ rdLead' = 0
  /\ UNCHANGED rdVars

RdEdge(cmd, rdyOb) ==
  /\ BusClk(cmd, rdyOb)
  /\ RdSync(rWr.tgl, bWr.tgl)
  /\ rdata' = rdataNext(rdEna(rdyOb), rRd.flush)
  /\ rdLead' = rdLead + 1 /\ wrLead' = 0
  /\ UNCHANGED wrVars

BothEdges(wrDecm, parm, trg, cmd, rdyOb) ==
  /\ MemClk(wrDecm, parm, trg)
  /\ BusClk(cmd, rdyOb)
  /\ \E a \in {rRd.tgl, rRd.tgl'}, b \in {bRd.tgl, bRd.tgl'} : WrSync(a, b)
  /\ \E a \in {rWr.tgl, rWr.tgl'}, b \in {bWr.tgl, bWr.tgl'} : RdSync(a, b)
  /\ rdata' = Aged(rdataNext(rdEna(rdyOb), rRd.flush), Offered(wrDecm))
  /\ wrLead' = 0 /\ rdLead' = 0

\* The readout looks at a command in ECHO, and takes it with its echo.
CmdsOrNone(rdyOb) ==
  IF rRd.state = "ECHO" /\ rdyOb THEN Cmds \union {NoCmd} ELSE {NoCmd}

Next ==
  \/ \E wrDecm \in Decimated, parm, trg \in BOOLEAN : WrEdge(wrDecm, parm, trg)
  \/ \E rdyOb \in BOOLEAN : \E cmd \in CmdsOrNone(rdyOb) : RdEdge(cmd, rdyOb)
  \/ \E wrDecm \in Decimated, parm, trg, rdyOb \in BOOLEAN : \E cmd \in CmdsOrNone(rdyOb) :
       BothEdges(wrDecm, parm, trg, cmd, rdyOb)

Spec == Init /\ [][Next]_vars
-----------------------------------------------------------------------------
(* Properties.                                                             *)

\* Type correctness.
TypeOK ==
  /\ rWr \in WrType /\ rRd \in RdType /\ BufTypeOK
  /\ {rdTgl, wrTgl, rdTglSync, wrTglSync} \subseteq BOOLEAN \X BOOLEAN
  /\ sinceStart \in 0 .. TRG_LATENCY /\ got \in 0 .. MemDepth /\ flushed \in BOOLEAN
  /\ wrLead \in 0 .. WrPerRd /\ rdLead \in 0 .. RdPerWr

\* The number of samples recorded.
Size == rWr.nsmpls

\* "this last sample still is stored and ... rWr.nsmpls = nsamples + 1": a
\* readout yields the samples of the recording in the order they were taken,
\* the oldest first, and ends with the newest: nothing of an earlier recording,
\* no sample twice.
WindowStored ==
  rRd.state \in {"HDR", "READ"} /\ bRd.state = "READ" =>
    /\ rdata = Size - 1 - got
    /\ bRd.raddr = waddr <=> got = Size - 1

\* The same as long as the memory is only released by complete readouts.
WindowIntact == ~flushed => WindowStored

\* "we can never get here when rdEmp is '1'": no word is taken from an empty
\* buffer, also not by a reply that a command right behind a flush started and
\* that finds the buffer empty until the next recording has ended: of the two
\* reasons the code gives ("first time we enter rdEmp is '0' since ECHO state")
\* only the second one holds for it.
ReadNotEmpty ==
  rRd.state = "READ" /\ rRd.byteCnt = 0 => ~rdEmp

\* "while the write is halted the reader may access these signals": the read
\* side uses the write address and the number of samples without any
\* synchronizer, so the write side must not move while it does.
HaltedWhileReading ==
  bRd.state # "WAITRD" \/ wrTglSync[2] # bRd.tgl => bWr.state = "HALT"

\* New parameters never restart the recorder between the moment it announced
\* the number of samples and the moment the readout released the memory.
ReleaseBeforeRestart ==
  [][rWr.state \in {"STOP1", "STOP2", "HOLD"} /\ rWr'.state \in {"INIT", "FILL", "RUN"}
       => rWr.state = "HOLD" /\ rdTgl[2] = rWr.tgl /\ rRd.tgl = rWr.tgl]_vars
-----------------------------------------------------------------------------
(* Liveness.  Both clocks run, decimated samples keep coming, the host     *)
(* keeps asking for the buffer and takes the bytes of the reply.           *)

\* A sample arrives at an edge without new parameters.
SampleEdge ==
  \/ \E trg \in BOOLEAN : WrEdge(TRUE, FALSE, trg)
  \/ \E trg, rdyOb \in BOOLEAN : \E cmd \in CmdsOrNone(rdyOb) : BothEdges(TRUE, FALSE, trg, cmd, rdyOb)

\* A byte is taken; ReadCmdEdge: with the command to read.
BusEdge(cmd) ==
  \/ RdEdge(cmd, TRUE)
  \/ \E wrDecm \in Decimated, parm, trg \in BOOLEAN : BothEdges(wrDecm, parm, trg, cmd, TRUE)
ByteEdge    == \E cmd \in CmdsOrNone(TRUE) : BusEdge(cmd)
ReadCmdEdge == rRd.state = "ECHO" /\ BusEdge("READ")

FairSpec ==
  Spec /\ SF_vars(SampleEdge) /\ SF_vars(ByteEdge) /\ SF_vars(ReadCmdEdge)

\* A complete recording becomes readable, and once it was read the recorder
\* goes on: neither pair of toggles gets stuck or out of step with the other.
Recycles == /\ rWr.state = "STOP2" ~> ~rdEmp
            /\ rWr.state = "HOLD" ~> rWr.state = "FILL"
=============================================================================
