----------------------------- MODULE AcqParmPath -----------------------------
(***************************************************************************)
(* Acquisition parameters on their way from the command bus to the         *)
(* recorder: the multiplexer, CommandAcqParm and the hand-over between the *)
(* clocks.  Who sends requests and takes replies may stall at every cycle. *)
(***************************************************************************)
EXTENDS CommandMux, CommandAcqParm, ParmsHandshake

CONSTANTS
  Requests,     (* the frames, each a sequence of bytes                     *)
  StallAtAck    (* whether the reply may be stalled when the recorder's     *)
                (* acknowledge is there                                     *)

ASSUME PathAssumption == Requests \subseteq Seq(Byte) \ {<<>>} /\ StallAtAck \in BOOLEAN

VARIABLES
  todo,         \* what remains to be sent of a frame
  frame,        \* history: what the multiplexer took of the frame it is at
  answer,       \* history: what was replied to it
  before        \* history: mask and parameters when it began

history == <<frame, answer, before>>
vars    == <<mux, acq, busSide, ready, memSide, todo, history>>

Init ==
  /\ MuxInit /\ AcqInit /\ HskInit
  /\ todo = <<>> /\ frame = <<>> /\ answer = <<>>
  /\ before = [mask |-> acq.mask, p |-> acq.p]

Offered(offer) ==
  IF offer /\ todo # <<>> THEN <<[dat |-> Head(todo), lst |-> Len(todo) = 1]>> ELSE <<>>

\* An edge of the bus clock.
BusClk(offer, rdyOb) ==
  LET busIb == Offered(offer)
      toAcq == ToHandler("ACQ_PARMS", busIb)
      rOb   == HandlerRdyOb("ACQ_PARMS", rdyOb)
      acqOb == AcqOb(toAcq, parmsAck)
      into  == IF muxRdyIb(AcqRdyIb(rOb)) THEN busIb ELSE <<>>
      out   == IF rdyOb THEN muxOb(acqOb) ELSE <<>>
      begin == mux.state = "IDLE" /\ into # <<>>
  IN  /\ StallAtAck \/ rdyOb \/ ~(acq.state = "TRIG" /\ parmsAck = acq.trg)
      /\ MuxEdge(busIb, AcqRdyIb(rOb), acqOb, rdyOb)
      /\ AcqEdge(toAcq, rOb, parmsAck)
      /\ HskEdge(acq.trg)
      /\ todo'   = IF into = <<>> THEN todo ELSE Tail(todo)
      /\ frame'  = IF into = <<>> THEN frame
                   ELSE IF begin THEN <<into[1].dat>> ELSE Append(frame, into[1].dat)
      /\ answer' = IF begin THEN <<>> ELSE IF out = <<>> THEN answer ELSE Append(answer, out[1])
      /\ before' = IF begin THEN [mask |-> acq.mask, p |-> acq.p] ELSE before
      /\ UNCHANGED <<ready, memSide>>

\* An edge of the recorder's clock.
MemClk(stopping) ==
  /\ MemEdge(acq.trg, acq.p, stopping)
  /\ UNCHANGED <<mux, acq, busSide, ready, todo, history>>

NewFrame ==
  /\ todo = <<>> /\ todo' \in Requests
  /\ UNCHANGED <<mux, acq, busSide, ready, memSide, history>>

Ready == BecomeReady /\ UNCHANGED <<mux, acq, busSide, memSide, todo, history>>

Next ==
  \/ \E offer, rdyOb \in BOOLEAN : BusClk(offer, rdyOb)
  \/ \E stopping \in BOOLEAN : MemClk(stopping)
  \/ NewFrame \/ Ready

Spec     == Init /\ [][Next]_vars
FairSpec == Spec /\ WF_vars(BusClk(TRUE, TRUE)) /\ WF_vars(MemClk(FALSE))
-----------------------------------------------------------------------------
(* What a frame does and is answered with.                                 *)

MaskOf(f) == [i \in 0 .. MASK_LEN - 1 |-> IF i + 2 <= Len(f) THEN f[i + 2] ELSE before.mask[i]]
Values(f) == Len(f) - 1 - MASK_LEN       \* bytes of parameters, if positive

SetBy(f) ==
  [i \in 0 .. CMD_LEN - 1 |->
     IF i < Values(f) /\ Sets(MaskOf(f), i) THEN f[2 + MASK_LEN + i] ELSE before.p[i]]
ParmsOf(f) == IF Values(f) <= 0 \/ Get(MaskOf(f)) THEN before.p ELSE Validated(SetBy(f))

\* Byte i of the reply, unless it is the last one.
Old(f, i) == IF i = 1 THEN f[1]
             ELSE IF i <= MASK_LEN + 1 THEN before.mask[i - 2]
             ELSE before.p[i - MASK_LEN - 2]

Answer(f) ==
  [i \in 1 .. Len(f) |->
     [lst |-> i = Len(f),
      dat |-> IF i = Len(f) /\ Values(f) > 0 THEN ParmsOf(f)[Values(f) - 1] ELSE Old(f, i)]]
-----------------------------------------------------------------------------
(* Properties.                                                             *)

\* Type correctness.
TypeOK == MuxTypeOK /\ AcqTypeOK /\ HskTypeOK /\ taken \in Bus(ParmRec)

\* The parameters have no synchronizers: from when the recorder may take them
\* until it told so the provider neither changes nor takes new ones.
HeldWhileTaken == acqTglIb # acqTglOb => acq.state = "TRIG"

\* The recorder only ever works with parameters that fit together ("assume
\* validity of parameters has been checked by the provider!").
RecorderValid == taken # <<>> => taken[1][NSM] < MEM_DEPTH_G /\ taken[1][NPT] <= taken[1][NSM]

\* A reply comes exactly as long as its request, with the mask and the
\* parameters of before, the last byte already the new one, and when it ends
\* the new parameters are in force, also in a recorder that was ready.
AnsweredWhenApplied ==
  [][answer' # answer /\ answer' # <<>> /\ answer'[Len(answer')].lst =>
       /\ answer' = Answer(frame')
       /\ acq'.p = ParmsOf(frame')
       /\ hsk.state = "RUN" /\ Values(frame') > 0 /\ ~Get(MaskOf(frame')) => taken = <<acq.p>>]_vars

\* Every request is answered completely, whatever the recorder is doing ("hold
\* off sending last byte until trigger is acked").
AnswerEnds == mux.state = "WAI" ~> mux.state = "IDLE"
=============================================================================
