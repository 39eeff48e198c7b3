-------------------------- MODULE GenericFifoAsync --------------------------
(***************************************************************************)
(* The dual-clock FIFO of hdl/GenericFifoAsync.vhd.                        *)
(*                                                                         *)
(* Two sides, each with a clock of its own, share a memory of Depth words. *)
(* A side sees the other one's pointer only as a Gray code which went      *)
(* through a two-stage synchronizer (hdl/SynchronizerBit.vhd).  All Depth  *)
(* entries are used: equal pointers mean "full" or "empty", and each side  *)
(* keeps a registered flag to tell which.  A reset requested on the read   *)
(* side travels to the write side and back.                                *)
(*                                                                         *)
(* A step is a rising edge of one clock or of both.  When both clocks rise *)
(* together, every bit a first synchronizer stage samples resolves to its  *)
(* old or to its new value (Sampled).                                      *)
(*                                                                         *)
(* A Gray code is the set of the positions of its 1 bits.                  *)
(***************************************************************************)
EXTENDS Integers, Sequences

CONSTANTS
  Data,      (* the words                                                  *)
  NoData,    (* what an output register holds before its first word        *)
  Depth,     (* 2**LD_DEPTH_G                                              *)
  bin2Gray,  (* the Gray code of every pointer value                       *)
  OutReg,    (* OUT_REG_G                                                  *)
  RdRst,     (* the levels rdRst takes: only FALSE when left open          *)
  WrPerRd,   (* bound: at most this many write edges in one read period    *)
  RdPerWr    (* bound: at most this many read edges in one write period    *)

Idx    == 0 .. Depth - 1
Inc(p) == IF p = Depth - 1 THEN 0 ELSE p + 1

\* What a synchronizer stage that samples while its input changes from old
\* to new may resolve to: every bit is either its old or its new value.
Sampled(old, new) ==
  {c \in SUBSET (old \union new) : old \intersect new \subseteq c}

\* The conversion to the Gray code, for pointers of ld bits, and the table of
\* the codes for bin2Gray.  The exclusive or of two codes is the symmetric
\* difference; Bin2Gray is that of a pointer and itself shifted right by one.
Xor(a, b)   == (a \ b) \union (b \ a)
Shr(a, n)   == {j - n : j \in {k \in a : k >= n}}
Bits(x, ld) == {j \in 0 .. ld - 1 : (x \div 2^j) % 2 = 1}

Bin2Gray(bits)    == Xor(bits, Shr(bits, 1))
Bin2GrayTable(ld) == [x \in 0 .. 2^ld - 1 |-> Bin2Gray(Bits(x, ld))]

ASSUME ConstantAssumption ==
  /\ Depth \in Nat /\ Depth >= 2
  /\ NoData \notin Data
  /\ OutReg \in BOOLEAN
  /\ RdRst \in {{FALSE}, BOOLEAN}
  /\ WrPerRd \in Nat \ {0}
  /\ RdPerWr \in Nat \ {0}

\* The reset loop relies on the write side having acted on the reset before
\* the read side resumes: while a reset is possible, the read clock has at
\* most two edges in a write period.  The code states no such limit.
ASSUME ClockAssumption == RdRst = {FALSE} \/ RdPerWr <= 2

\* What bin2Gray is used for: the codes of distinct pointers differ, and a
\* code sampled while its pointer is incremented is the old or the new one.
ASSUME GrayAssumption ==
  /\ DOMAIN bin2Gray = Idx
  /\ \A i, j \in Idx : bin2Gray[i] = bin2Gray[j] => i = j
  /\ \A i \in Idx : Sampled(bin2Gray[i], bin2Gray[Inc(i)])
                      = {bin2Gray[i], bin2Gray[Inc(i)]}

GRAY_INIT == bin2Gray[0]
PTR_INIT  == 1

VARIABLES
  mem,
  \* write clock
  full, wrPtr, wrPtrGray,       \* wrPtr is one count ahead of wrPtrGray
  rdGrayMeta, rdGraySynced,     \* U_SYNC_2_WR: rdPtrGray seen by the writer
  rstMeta, wrRst,               \* U_SYNC_2_WR_RST: rdRstLoc seen by it
  \* read clock
  empty, memVld, rdDatLoc, rdPtr, rdPtrGray,
  outVld, outReg,               \* G_OUT_REG
  wrGrayMeta, wrGraySynced,     \* U_SYNC_2_RD: wrPtrGray seen by the reader
  rtnMeta, wrRstRtn,            \* U_SYNC_2_RD_RST: wrRst seen by it
  rdRstLoc, rdRstReq,
  \* the clocks: edges of one since the last edge of the other
  wrLead, rdLead,
  \* history: the words accepted and neither taken nor flushed yet
  sent

wrRegs   == <<full, wrPtr, wrPtrGray, mem>>
wrSyncs  == <<rdGrayMeta, rdGraySynced, rstMeta, wrRst>>
rdRegs   == <<empty, memVld, rdDatLoc, rdPtr, rdPtrGray, outVld, outReg>>
rdSyncs  == <<wrGrayMeta, wrGraySynced, rtnMeta, wrRstRtn>>
rdReset  == <<rdRstLoc, rdRstReq>>
clocks   == <<wrLead, rdLead>>
vars     == <<wrRegs, wrSyncs, rdRegs, rdSyncs, rdReset, clocks, sent>>

Init ==
  /\ mem = [i \in Idx |-> NoData]
  /\ full = FALSE /\ wrPtr = PTR_INIT /\ wrPtrGray = GRAY_INIT
  /\ rdGrayMeta = GRAY_INIT /\ rdGraySynced = GRAY_INIT
  /\ rstMeta = FALSE /\ wrRst = FALSE
  /\ empty = TRUE /\ memVld = FALSE /\ rdDatLoc = NoData
  /\ rdPtr = PTR_INIT /\ rdPtrGray = GRAY_INIT
  /\ outVld = FALSE /\ outReg = NoData
  /\ wrGrayMeta = GRAY_INIT /\ wrGraySynced = GRAY_INIT
  /\ rtnMeta = FALSE /\ wrRstRtn = FALSE
  /\ rdRstLoc = FALSE /\ rdRstReq = FALSE
  /\ wrLead = 0 /\ rdLead = 0
  /\ sent = <<>>
-----------------------------------------------------------------------------
(* The ports.                                                              *)

wrFul    == full
wrEmp    == ~full /\ rdGraySynced = wrPtrGray
wrRstOut == wrRst
rdFul    == ~empty /\ wrGraySynced = rdPtrGray
rdEmp    == IF OutReg THEN ~outVld ELSE ~memVld
rdDat    == IF OutReg THEN outReg ELSE rdDatLoc
rdRstOut == rdRstLoc \/ rdRstReq
-----------------------------------------------------------------------------
(* The write side.                                                         *)

\* wrEna and not full: the test is on the registered flag, so an entry freed
\* in this very cycle is not used yet.
AcceptedWhenFull(wrEna) == ~wrRst /\ wrEna      \* mutant: full is not tested
Accepted(wrEna)         == ~wrRst /\ wrEna /\ ~full

\* The read pointer has moved: not full.
fullNow      == full /\ rdGraySynced = wrPtrGray

WrStore(wrDat) ==
  /\ wrPtrGray' = bin2Gray[wrPtr]
  /\ wrPtr' = Inc(wrPtr)
  /\ mem' = [mem EXCEPT ![wrPtr] = wrDat]

WrSeq(wrEna, wrDat) ==
  \/ /\ wrRst
     /\ full' = FALSE /\ wrPtrGray' = GRAY_INIT /\ wrPtr' = PTR_INIT
     /\ UNCHANGED mem
  \/ /\ ~wrRst /\ ~Accepted(wrEna)
     /\ full' = fullNow
     /\ UNCHANGED <<wrPtr, wrPtrGray, mem>>
  \/ /\ Accepted(wrEna)
     /\ full' = (bin2Gray[wrPtr] = rdGraySynced)
     /\ WrStore(wrDat)

\* The synchronizers of the write side; gray and rst are what their first
\* stages sample.  The pointer's is held in reset, the reset's never is.
WrSync(gray, rst) ==
  /\ rdGrayMeta'   = IF wrRst THEN GRAY_INIT ELSE gray
  /\ rdGraySynced' = IF wrRst THEN GRAY_INIT ELSE rdGrayMeta
  /\ rstMeta'      = rst
  /\ wrRst'        = rstMeta
-----------------------------------------------------------------------------
(* The read side.                                                          *)

\* The stage behind the memory may move its word on.
rdEnaLoc(rdEna)       == IF OutReg THEN ~outVld \/ rdEna ELSE rdEna

\* The write pointer has moved: not empty.
emptyNowStuck == empty                          \* mutant: empty never falls
emptyNow      == empty /\ wrGraySynced = rdPtrGray

RdSeqReset ==
  /\ rdRstLoc
  /\ empty' = TRUE /\ memVld' = FALSE
  /\ rdPtrGray' = GRAY_INIT /\ rdPtr' = PTR_INIT
  /\ UNCHANGED rdDatLoc

RdSeqRun(rdEna) ==
  LET nowVld   == memVld /\ ~rdEnaLoc(rdEna)
      fetch    == ~nowVld /\ ~emptyNow
  IN  /\ ~rdRstLoc
      /\ memVld' = (nowVld \/ fetch)
      /\ \/ /\ fetch
            /\ empty'     = (bin2Gray[rdPtr] = wrGraySynced)
            /\ rdPtrGray' = bin2Gray[rdPtr]
            /\ rdPtr'     = Inc(rdPtr)
            /\ rdDatLoc'  = mem[rdPtr]
         \/ /\ ~fetch
            /\ empty' = emptyNow
            /\ UNCHANGED <<rdPtrGray, rdPtr, rdDatLoc>>

RdOutReg(rdEna) ==
  LET load == rdEnaLoc(rdEna) /\ memVld
  IN  IF ~OutReg THEN UNCHANGED <<outVld, outReg>>
      ELSE IF rdRstLoc THEN outVld' = FALSE /\ UNCHANGED outReg
      ELSE /\ outVld' = (load \/ (outVld /\ ~rdEna))
           /\ outReg' = IF load THEN rdDatLoc ELSE outReg

RdSyncEarly(gray, rst) ==                       \* mutant: one stage for the reset
  /\ wrGrayMeta'   = IF rdRstLoc THEN GRAY_INIT ELSE gray
  /\ wrGraySynced' = IF rdRstLoc THEN GRAY_INIT ELSE wrGrayMeta
  /\ rtnMeta'      = rst
  /\ wrRstRtn'     = rst
RdSync(gray, rst) ==
  /\ wrGrayMeta'   = IF rdRstLoc THEN GRAY_INIT ELSE gray
  /\ wrGraySynced' = IF rdRstLoc THEN GRAY_INIT ELSE wrGrayMeta
  /\ rtnMeta'      = rst
  /\ wrRstRtn'     = rtnMeta

RdRstSeqForgets(rdRst) ==                       \* mutant: the request is not kept
  \/ /\ wrRstRtn
     /\ rdRstLoc' = FALSE
     /\ rdRstReq' = rdRst
  \/ /\ ~wrRstRtn /\ (rdRstReq \/ rdRst)
     /\ rdRstLoc' = TRUE
     /\ rdRstReq' = FALSE
  \/ /\ ~wrRstRtn /\ ~(rdRstReq \/ rdRst)
     /\ UNCHANGED rdReset

\* P_RD_RST: a request made while the previous one returns is remembered.
RdRstSeq(rdRst) ==
  \/ /\ wrRstRtn
     /\ rdRstLoc' = FALSE
     /\ rdRstReq' = (rdRstReq \/ rdRst)
  \/ /\ ~wrRstRtn /\ (rdRstReq \/ rdRst)
     /\ rdRstLoc' = TRUE
     /\ rdRstReq' = FALSE
  \/ /\ ~wrRstRtn /\ ~(rdRstReq \/ rdRst)
     /\ UNCHANGED rdReset

RdSeq(rdEna) == (RdSeqReset \/ RdSeqRun(rdEna)) /\ RdOutReg(rdEna)
-----------------------------------------------------------------------------
(* Clock edges.                                                            *)

Taken(rdEna) == ~rdRstLoc /\ rdEna /\ ~rdEmp

\* The history of the accepted words after an edge of the read clock, and
\* after one of the write clock.
SentAfterRd(s, rdEna) ==
  IF rdRstLoc THEN <<>> ELSE IF Taken(rdEna) THEN Tail(s) ELSE s

SentAfterWr(s, wrEna, wrDat) ==
  IF wrRst THEN <<>> ELSE IF Accepted(wrEna) THEN Append(s, wrDat) ELSE s

WrEdge(wrEna, wrDat) ==
  /\ wrLead < WrPerRd
  /\ wrLead' = wrLead + 1 /\ rdLead' = 0
  /\ WrSync(rdPtrGray, rdRstLoc)
  /\ WrSeq(wrEna, wrDat)
  /\ sent' = SentAfterWr(sent, wrEna, wrDat)
  /\ UNCHANGED <<rdRegs, rdSyncs, rdReset>>

RdEdge(rdEna, rdRst) ==
  /\ rdLead < RdPerWr
  /\ rdLead' = rdLead + 1 /\ wrLead' = 0
  /\ RdSync(wrPtrGray, wrRst)
  /\ RdSeq(rdEna)
  /\ RdRstSeq(rdRst)
  /\ sent' = SentAfterRd(sent, rdEna)
  /\ UNCHANGED <<wrRegs, wrSyncs>>

BothEdges(wrEna, wrDat, rdEna, rdRst) ==
  /\ wrLead < WrPerRd /\ rdLead < RdPerWr
  /\ wrLead' = 0 /\ rdLead' = 0
  /\ WrSeq(wrEna, wrDat)
  /\ RdSeq(rdEna)
  /\ RdRstSeq(rdRst)
  /\ \E gray \in Sampled(rdPtrGray, rdPtrGray'), rst \in {rdRstLoc, rdRstLoc'} :
       WrSync(gray, rst)
  /\ \E gray \in Sampled(wrPtrGray, wrPtrGray'), rst \in {wrRst, wrRst'} :
       RdSync(gray, rst)
  /\ sent' = SentAfterWr(SentAfterRd(sent, rdEna), wrEna, wrDat)

Next ==
  \/ \E wrEna \in BOOLEAN, wrDat \in Data : WrEdge(wrEna, wrDat)
  \/ \E rdEna \in BOOLEAN, rdRst \in RdRst : RdEdge(rdEna, rdRst)
  \/ \E wrEna, rdEna \in BOOLEAN, rdRst \in RdRst, wrDat \in Data :
       BothEdges(wrEna, wrDat, rdEna, rdRst)

Spec == Init /\ [][Next]_vars
-----------------------------------------------------------------------------
(* Properties.                                                             *)

Codes == {bin2Gray[i] : i \in Idx}
Words == Data \union {NoData}

\* Type correctness.  The first synchronizer stages hold any set of code
\* bits: a pointer reset while it is sampled may leave a value that was never
\* a pointer.
TypeOK ==
  /\ mem \in [Idx -> Words]
  /\ full \in BOOLEAN /\ wrPtr \in Idx /\ wrPtrGray \in Codes
  /\ rdGrayMeta \in SUBSET UNION Codes /\ rdGraySynced \in SUBSET UNION Codes
  /\ rstMeta \in BOOLEAN /\ wrRst \in BOOLEAN
  /\ empty \in BOOLEAN /\ memVld \in BOOLEAN /\ rdDatLoc \in Words
  /\ rdPtr \in Idx /\ rdPtrGray \in Codes
  /\ outVld \in BOOLEAN /\ outReg \in Words
  /\ wrGrayMeta \in SUBSET UNION Codes /\ wrGraySynced \in SUBSET UNION Codes
  /\ rtnMeta \in BOOLEAN /\ wrRstRtn \in BOOLEAN
  /\ rdRstLoc \in BOOLEAN /\ rdRstReq \in BOOLEAN
  /\ wrLead \in 0 .. WrPerRd /\ rdLead \in 0 .. RdPerWr
  /\ sent \in Seq(Data)

\* A reset holds one of the two sides.
Resetting == rdRstLoc \/ wrRst

\* How many words left the memory and were not taken, and how many it holds.
NHeld == (IF outVld THEN 1 ELSE 0) + (IF memVld THEN 1 ELSE 0)
InMem == Len(sent) - NHeld

\* The index i entries after p.
At(p, i) == IF p + i < Depth THEN p + i ELSE p + i - Depth

\* Whatever the clocks do, the FIFO holds exactly the accepted words, oldest
\* first: a full memory is never written, an empty one is never read, and
\* after a reset nothing of what was accepted before it is left.
InOrder ==
  ~Resetting =>
    /\ InMem \in 0 .. Depth
    /\ At(rdPtr, InMem) = wrPtr
    /\ outVld => sent[1] = outReg
    /\ memVld => sent[NHeld] = rdDatLoc
    /\ \A i \in 0 .. InMem - 1 : sent[NHeld + i + 1] = mem[At(rdPtr, i)]

\* The reader only ever sees the oldest word.
HeadOffered == ~Resetting /\ ~rdEmp => sent # <<>> /\ rdDat = Head(sent)

\* "empty flag from write side (might be too optimistic ...)": once the write
\* side reports empty the memory is empty, and the full flag seen from the
\* read side likewise means that every entry is in use.
FlagsSound ==
  ~Resetting => /\ wrEmp => InMem = 0
                /\ rdFul => InMem = Depth
-----------------------------------------------------------------------------
(* Liveness.  Clocks do not stop, and with WrPerRd and RdPerWr finite none  *)
(* of the two can stop alone; the user of the read side keeps taking words. *)

TakingEdge ==
  \E rdRst \in RdRst :
    \/ RdEdge(TRUE, rdRst)
    \/ \E wrEna \in BOOLEAN, wrDat \in Data : BothEdges(wrEna, wrDat, TRUE, rdRst)

FairSpec == Spec /\ WF_vars(Next) /\ SF_vars(TakingEdge)

\* An accepted word reaches the output unless a reset discards it, and the
\* writer does not stay blocked: neither side waits on a stale pointer
\* forever.
Delivered ==
  /\ sent # <<>> ~> (~rdEmp \/ Resetting)
  /\ full ~> ~full

\* A reset which was requested starts, one which started ends on both sides.
ResetCompletes ==
  /\ rdRstReq ~> rdRstLoc
  /\ Resetting ~> ~Resetting
=============================================================================
