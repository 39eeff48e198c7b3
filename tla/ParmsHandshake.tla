---------------------------- MODULE ParmsHandshake ----------------------------
(***************************************************************************)
(* The hand-over of the parameters from the bus clock to the recorder's    *)
(* clock, hdl/MaxAdc.vhd (P_PARMS_HSK_COMB, P_WR_SEQ): the provider flips  *)
(* parmsTgl, the recorder takes the parameters and lets acqTglOb follow.   *)
(* The parameters themselves cross without synchronizers.                  *)
(*                                                                         *)
(* The recorder may become ready (its clock, its memory) long after the    *)
(* first parameters were set.  Until then they are acknowledged locally.   *)
(* INIT_ACQ_POL_G is '0', its default everywhere.                          *)
(***************************************************************************)
EXTENDS Integers, Sequences

VARIABLES
  hsk,          \* rParmsHsk
  ready,        \* readyForParams
  tglSync, ackSync, rdySync,   \* the synchronizers, two stages each
  acqTglOb,
  taken         \* the parameters the recorder works with: <<>> or <<parms>>

busSide == <<hsk, ackSync, rdySync>>
memSide == <<tglSync, acqTglOb, taken>>

HskInit ==
  /\ hsk = [state |-> "LOCAL", tgl |-> FALSE, pol |-> FALSE]
  /\ ready = FALSE /\ acqTglOb = FALSE /\ taken = <<>>
  /\ tglSync = <<FALSE, FALSE>> /\ ackSync = <<FALSE, FALSE>> /\ rdySync = <<FALSE, FALSE>>

HskTypeOK ==
  /\ hsk \in [state : {"LOCAL", "RUN"}, tgl : BOOLEAN, pol : BOOLEAN]
  /\ {ready, acqTglOb} \subseteq BOOLEAN
  /\ {tglSync, ackSync, rdySync} \subseteq BOOLEAN \X BOOLEAN

Shifted(sync, d) == <<d, sync[1]>>

acqTglIb == tglSync[2]

Xor(a, b) == a # b

parmsTglLoc(parmsTgl) == hsk.state = "RUN" /\ Xor(parmsTgl, hsk.pol)

parmsAck == IF hsk.state = "LOCAL" THEN hsk.tgl ELSE Xor(ackSync[2], hsk.pol)

\* Running starts between two hand-overs; the toggle it starts from is
\* remembered as the recorder's initial one.
HskEdge(parmsTgl) ==
  /\ hsk' = IF hsk.state = "LOCAL" /\ rdySync[2] /\ parmsTgl = hsk.tgl
            THEN [state |-> "RUN", tgl |-> parmsTgl, pol |-> hsk.tgl]
            ELSE [hsk EXCEPT !.tgl = parmsTgl]
  /\ ackSync' = Shifted(ackSync, acqTglOb)
  /\ rdySync' = Shifted(rdySync, ready)

\* stopping: the recorder is between its two stop words.
MemEdge(parmsTgl, parms, stopping) ==
  /\ tglSync' = Shifted(tglSync, parmsTglLoc(parmsTgl))
  /\ IF acqTglIb # acqTglOb /\ ~stopping
     THEN acqTglOb' = acqTglIb /\ taken' = <<parms>>
     ELSE UNCHANGED <<acqTglOb, taken>>

BecomeReady == ~ready /\ ready' = TRUE
=============================================================================
