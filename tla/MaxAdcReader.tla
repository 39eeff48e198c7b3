----------------------------- MODULE MaxAdcReader -----------------------------
(***************************************************************************)
(* The readout state machine of hdl/MaxAdc.vhd (P_RD_COMB): it answers the *)
(* commands of the acquisition block, byte by byte, and hands the buffer   *)
(* back when its last byte was taken or when it is to be flushed.          *)
(*                                                                         *)
(* The operators describe one edge of the bus clock.  The contents of the  *)
(* bytes are left out, not which byte of which word they are.              *)
(***************************************************************************)
EXTENDS Integers

CONSTANT NBytes        \* 2**LD_BCNT_C: the bytes of one word of the buffer

\* Two channels of one or two bytes.
ASSUME ReaderAssumption == NBytes \in {2, 4}

VARIABLE rRd

\* Commands; what is none of the first three flushes a buffer that is ready.
Commands == {"MSIZE", "SFREQ", "READ", "FLUSH"}
NoCmd    == "none"

RdType ==
  [state : {"ECHO", "MSIZE", "HDR", "READ"}, byteCnt : 0 .. NBytes - 1,
   vld : BOOLEAN, lst : BOOLEAN, tgl : BOOLEAN, flush : BOOLEAN]

RD_REG_INIT == [state |-> "ECHO", byteCnt |-> 0, vld |-> TRUE, lst |-> FALSE,
                tgl |-> FALSE, flush |-> FALSE]

\* The register after an edge unless a state says otherwise.
rRdNext(rdyOb) ==
  IF rdyOb THEN [rRd EXCEPT !.byteCnt = (@ - 1) % NBytes, !.vld = FALSE, !.flush = FALSE]
           ELSE [rRd EXCEPT !.flush = FALSE]

\* A command is echoed, and taken with its echo; rdEmp is the buffer's.
EchoEdge(cmd, rdyOb, rdEmp, wrTgl) ==
  LET v == [rRd EXCEPT !.byteCnt = 0, !.vld = TRUE, !.lst = FALSE, !.flush = FALSE]
  IN  /\ rRd.state = "ECHO"
      /\ rRd' = IF ~rdyOb \/ cmd = NoCmd THEN v
                ELSE IF cmd = "MSIZE" THEN [v EXCEPT !.state = "MSIZE"]
                ELSE IF cmd = "SFREQ" THEN [v EXCEPT !.state = "MSIZE", !.lst = TRUE]
                ELSE IF rdEmp THEN v
                ELSE IF cmd = "READ" THEN [v EXCEPT !.state = "HDR"]
                ELSE [v EXCEPT !.flush = TRUE, !.tgl = wrTgl]

MsizeEdge(rdyOb) ==
  /\ rRd.state = "MSIZE"
  /\ rRd' = IF ~rdyOb THEN rRdNext(rdyOb)
            ELSE IF rRd.lst THEN [rRdNext(rdyOb) EXCEPT !.state = "ECHO"]
            ELSE [rRdNext(rdyOb) EXCEPT !.vld = TRUE, !.lst = (rRd.byteCnt # 0)]

HdrEdge(rdyOb) ==
  /\ rRd.state = "HDR"
  /\ rRd' = IF rdyOb THEN [rRdNext(rdyOb) EXCEPT !.state = "READ", !.vld = TRUE]
                     ELSE rRdNext(rdyOb)

\* The last byte of a word is loaded when the word is taken from the buffer.
rdEna(rdyOb) == rRd.state = "READ" /\ rdyOb /\ rRd.byteCnt = 0

ReadEdgeEarly(rdyOb, rdEmp, rdLst, wrTgl) ==    \* mutant: released with the last word
  LET v == [rRdNext(rdyOb) EXCEPT !.byteCnt = IF rdEmp THEN rRd.byteCnt ELSE @,
                                  !.vld = IF rdyOb THEN ~rdEmp ELSE @]
  IN  /\ rRd.state = "READ"
      /\ rRd' = IF ~rdyOb THEN v
                ELSE IF rRd.byteCnt = 0
                     THEN [v EXCEPT !.lst = rdLst, !.tgl = IF rdLst THEN wrTgl ELSE @]
                ELSE IF rRd.lst THEN [v EXCEPT !.state = "ECHO"]
                ELSE v
ReadEdgeKeeps(rdyOb, rdEmp, rdLst, wrTgl) ==    \* mutant: the memory is not released
  LET v == [rRdNext(rdyOb) EXCEPT !.byteCnt = IF rdEmp THEN rRd.byteCnt ELSE @,
                                  !.vld = IF rdyOb THEN ~rdEmp ELSE @]
  IN  /\ rRd.state = "READ"
      /\ rRd' = IF ~rdyOb THEN v
                ELSE IF rRd.byteCnt = 0 THEN [v EXCEPT !.lst = rdLst]
                ELSE IF rRd.lst THEN [v EXCEPT !.state = "ECHO"]
                ELSE v
ReadEdgeCounts(rdyOb, rdEmp, rdLst, wrTgl) ==   \* mutant: counts bytes it does not have
  LET v == [rRdNext(rdyOb) EXCEPT !.vld = IF rdyOb THEN ~rdEmp ELSE @]
  IN  /\ rRd.state = "READ"
      /\ rRd' = IF ~rdyOb THEN v
                ELSE IF rRd.byteCnt = 0 THEN [v EXCEPT !.lst = rdLst]
                ELSE IF rRd.lst THEN [v EXCEPT !.state = "ECHO", !.tgl = wrTgl]
                ELSE v
ReadEdge(rdyOb, rdEmp, rdLst, wrTgl) ==
  LET v == [rRdNext(rdyOb) EXCEPT !.byteCnt = IF rdEmp THEN rRd.byteCnt ELSE @,
                                  !.vld = IF rdyOb THEN ~rdEmp ELSE @]
  IN  /\ rRd.state = "READ"
      /\ rRd' = IF ~rdyOb THEN v
                ELSE IF rRd.byteCnt = 0 THEN [v EXCEPT !.lst = rdLst]
                ELSE IF rRd.lst THEN [v EXCEPT !.state = "ECHO", !.tgl = wrTgl]
                ELSE v

RdComb(cmd, rdyOb, rdEmp, rdLst, wrTgl) ==
  \/ EchoEdge(cmd, rdyOb, rdEmp, wrTgl)
  \/ MsizeEdge(rdyOb)
  \/ HdrEdge(rdyOb)
  \/ ReadEdge(rdyOb, rdEmp, rdLst, wrTgl)
=============================================================================
