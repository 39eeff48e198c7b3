-------------------------- MODULE SimpleBusPipeStage --------------------------
(***************************************************************************)
(* The pipeline stage of hdl/SimpleBusPipeStage.vhd: two registers, so     *)
(* that neither valid nor ready is combinatorial through it.  rdyIb only   *)
(* falls when both are in use, a cycle after the consumer stalled.         *)
(***************************************************************************)
EXTENDS Sequences

CONSTANT Beats

VARIABLES buf, ovfl     \* each <<>> or <<beat>>

pipe == <<buf, ovfl>>

PipeInit == buf = <<>> /\ ovfl = <<>>

rdyIb == buf = <<>> \/ ovfl = <<>>
busOb == buf

EdgeLoses(busIb, rdyOb) ==              \* mutant: the overflow is overwritten
  \/ /\ rdyOb \/ buf = <<>>
     /\ buf' = IF buf # <<>> /\ ovfl # <<>> THEN ovfl ELSE busIb
     /\ ovfl' = IF buf # <<>> THEN <<>> ELSE ovfl
  \/ /\ ~rdyOb /\ buf # <<>>
     /\ ovfl' = busIb
     /\ UNCHANGED buf
Edge(busIb, rdyOb) ==
  \/ /\ rdyOb \/ buf = <<>>
     /\ buf' = IF buf # <<>> /\ ovfl # <<>> THEN ovfl ELSE busIb
     /\ ovfl' = IF buf # <<>> THEN <<>> ELSE ovfl
  \/ /\ ~rdyOb /\ buf # <<>>
     /\ ovfl' = IF ovfl = <<>> THEN busIb ELSE ovfl
     /\ UNCHANGED buf

\* A producer keeps to the protocol by itself: what it offers while rdyIb is
\* low is not taken.
Next == \E rdyOb \in {TRUE, FALSE}, busIb \in {<<>>} \union {<<b>> : b \in Beats} :
          Edge(busIb, rdyOb)

Spec == PipeInit /\ [][Next]_pipe
-----------------------------------------------------------------------------
(* Properties.                                                             *)

\* The overflow register is only used behind a full one ("assumption is that
\* ovfl.vld cannot be '1' here"), so the order of the beats is known.
OvflBehindBuf == ovfl # <<>> => buf # <<>>

\* A stage is a queue of two beats: none is lost, repeated or overtaken,
\* however the consumer stalls.
Queue       == INSTANCE StreamQueue WITH q <- buf \o ovfl, Cap <- 2
IsQueue     == Queue!Spec
=============================================================================
