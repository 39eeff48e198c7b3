---------------------------- MODULE CommandAcqParm ----------------------------
(***************************************************************************)
(* hdl/CommandAcqParm.vhd: reads and sets the acquisition parameters.      *)
(*                                                                         *)
(*   request  command, mask, parameters      reply  command, what they were*)
(*                                                                         *)
(* The mask says which parameters are set; an empty one only reads.  New   *)
(* parameters are validated and handed to the recorder, and the last byte  *)
(* of the reply waits until the recorder has them.                         *)
(*                                                                         *)
(* Of the parameters there are nprets and nsamples - 1, a byte each.       *)
(***************************************************************************)
EXTENDS SimpleBus

CONSTANTS
  MASK_LEN,     (* bytes of the mask; the bits are in the first one         *)
  MEM_DEPTH_G

NPT == 0
NSM == 1
CMD_LEN == 2

ASSUME AcqAssumption ==
  MASK_LEN \in Nat \ {0} /\ NumBytes >= 4 /\ MEM_DEPTH_G \in 1 .. NumBytes

VARIABLE acq

ParmRec == [0 .. CMD_LEN - 1 -> Byte]

AcqInit == acq = [state |-> "ECHO", mask |-> [i \in 0 .. MASK_LEN - 1 |-> 0],
                  p |-> [i \in 0 .. CMD_LEN - 1 |-> IF i = NSM THEN MEM_DEPTH_G - 1 ELSE 0],
                  count |-> 0, trg |-> FALSE]

AcqTypeOK == acq \in [state : {"ECHO", "MASK", "PROC", "VALID", "TRIG"},
                      mask : [0 .. MASK_LEN - 1 -> Byte], p : ParmRec,
                      count : 0 .. IF MASK_LEN > CMD_LEN THEN MASK_LEN - 1 ELSE CMD_LEN - 1,
                      trg : BOOLEAN]

Get(mask)     == \A i \in DOMAIN mask : mask[i] = 0
Sets(mask, i) == (mask[0] \div 2^i) % 2 = 1

Last(mIb) == acq.count = CMD_LEN - 1 \/ mIb[1].lst

\* What is offered to the multiplexer.  The last byte is held off when
\* parameters are set.
AcqOb(mIb, ack) ==
  CASE acq.state = "ECHO" -> mIb
    [] acq.state = "MASK" /\ mIb # <<>> -> <<[mIb[1] EXCEPT !.dat = acq.mask[acq.count]]>>
    [] acq.state = "PROC" /\ mIb # <<>> ->
         IF Last(mIb) /\ ~Get(acq.mask) THEN <<>>
         ELSE <<[dat |-> acq.p[acq.count], lst |-> Last(mIb)]>>
    [] acq.state = "TRIG" /\ ack = acq.trg -> <<[dat |-> acq.p[acq.count], lst |-> TRUE]>>
    [] OTHER -> <<>>

AcqRdyIb(rOb) == rOb

EchoEdge(taken) ==
  /\ acq.state = "ECHO"
  /\ acq' = IF taken = <<>> THEN acq ELSE [acq EXCEPT !.state = "MASK", !.count = 0]

MaskEdge(taken) ==
  LET full == acq.count = MASK_LEN - 1
  IN  /\ acq.state = "MASK"
      /\ acq' = IF taken = <<>> THEN acq
                ELSE [acq EXCEPT !.mask[acq.count] = taken[1].dat,
                                 !.count = IF full THEN 0 ELSE @ + 1,
                                 !.state = IF taken[1].lst THEN "ECHO"
                                           ELSE IF full THEN "PROC" ELSE @]

ProcEdgeUnmasked(taken) ==                     \* mutant: sets what is not in the mask
  /\ acq.state = "PROC"
  /\ acq' = IF taken = <<>> THEN acq
            ELSE [acq EXCEPT
              !.p[acq.count] = IF ~Get(acq.mask) THEN taken[1].dat ELSE @,
              !.state = IF ~Last(taken) THEN @ ELSE IF Get(acq.mask) THEN "ECHO" ELSE "VALID",
              !.count = IF Last(taken) THEN @ ELSE @ + 1]
ProcEdgeShort(taken) ==                        \* mutant: only a full request is handed over
  /\ acq.state = "PROC"
  /\ acq' = IF taken = <<>> THEN acq
            ELSE [acq EXCEPT
              !.p[acq.count] = IF Sets(acq.mask, acq.count) THEN taken[1].dat ELSE @,
              !.state = IF ~Last(taken) THEN @
                        ELSE IF Get(acq.mask) \/ acq.count < CMD_LEN - 1 THEN "ECHO" ELSE "VALID",
              !.count = IF Last(taken) THEN @ ELSE @ + 1]
ProcEdge(taken) ==
  /\ acq.state = "PROC"
  /\ acq' = IF taken = <<>> THEN acq
            ELSE [acq EXCEPT
              !.p[acq.count] = IF Sets(acq.mask, acq.count) THEN taken[1].dat ELSE @,
              !.state = IF ~Last(taken) THEN @ ELSE IF Get(acq.mask) THEN "ECHO" ELSE "VALID",
              !.count = IF Last(taken) THEN @ ELSE @ + 1]

AtMost(x, max) == IF x > max THEN max ELSE x

ValidatedOld(p) ==                             \* mutant: the old number of samples
  [p EXCEPT ![NSM] = AtMost(@, MEM_DEPTH_G - 1), ![NPT] = AtMost(@, p[NSM])]
Validated(p) ==
  LET nsm == AtMost(p[NSM], MEM_DEPTH_G - 1)
  IN  [p EXCEPT ![NSM] = nsm, ![NPT] = AtMost(@, nsm)]

ValidEdge ==
  /\ acq.state = "VALID"
  /\ acq' = [acq EXCEPT !.p = Validated(@), !.trg = ~@, !.state = "TRIG"]

\* The byte is offered for one cycle; whether it is taken is not looked at.
TrigEdgeEarly(ack) ==                          \* mutant: does not wait for the recorder
  acq.state = "TRIG" /\ acq' = [acq EXCEPT !.state = "ECHO"]
TrigEdge(ack) ==
  /\ acq.state = "TRIG"
  /\ acq' = IF ack = acq.trg THEN [acq EXCEPT !.state = "ECHO"] ELSE acq

AcqEdge(mIb, rOb, ack) ==
  LET taken == IF rOb THEN mIb ELSE <<>>
  IN  EchoEdge(taken) \/ MaskEdge(taken) \/ ProcEdge(taken) \/ ValidEdge \/ TrigEdge(ack)
=============================================================================
