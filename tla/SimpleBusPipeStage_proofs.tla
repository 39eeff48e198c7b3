----------------------- MODULE SimpleBusPipeStage_proofs -----------------------
(***************************************************************************)
(* The pipeline stage implements a queue of two beats, for every set of    *)
(* beats.                                                                  *)
(***************************************************************************)
EXTENDS SimpleBusPipeStage, Integers, SequenceTheorems, TLAPS

Word == {<<>>} \union {<<b>> : b \in Beats}

\* The inductive invariant: a register holds at most one beat, and the second
\* one is only in use behind the first.
PipeInv == buf \in Word /\ ovfl \in Word /\ OvflBehindBuf

LEMMA PipeInvInit == PipeInit => PipeInv
  BY DEF PipeInit, PipeInv, Word, OvflBehindBuf

LEMMA PipeInvStep == PipeInv /\ [Next]_pipe => PipeInv'
<1> SUFFICES ASSUME PipeInv, [Next]_pipe PROVE PipeInv'
  OBVIOUS
<1>1. CASE Next
  <2>1. PICK rdy \in {TRUE, FALSE}, busIb \in Word : Edge(busIb, rdy)
    BY <1>1 DEF Next, Word
  <2>2. buf' \in Word /\ ovfl' \in Word
    BY <2>1 DEF Edge, PipeInv, Word
  <2>3. OvflBehindBuf'
    BY <2>1 DEF Edge, PipeInv, OvflBehindBuf
  <2> QED
    BY <2>2, <2>3 DEF PipeInv
<1>2. CASE UNCHANGED pipe
  BY <1>2 DEF pipe, PipeInv, OvflBehindBuf
<1> QED
  BY <1>1, <1>2

\* What the overflow register is used for: only behind a full buffer
\* (hdl/SimpleBusPipeStage.vhd, "assumption is that ovfl.vld cannot be '1'
\* here").
THEOREM OvflIsBehindBuf == Spec => []OvflBehindBuf
<1>1. PipeInv => OvflBehindBuf
  BY DEF PipeInv
<1> QED
  BY PipeInvInit, PipeInvStep, <1>1, PTL DEF Spec

\* The operations of a queue on at most two beats.
LEMMA EmptyWord == \A w \in Word : w \o <<>> = w /\ <<>> \o w = w
  BY DEF Word
LEMMA OneBeat == \A b : /\ Len(<<b>>) = 1 /\ Tail(<<b>>) = <<>> /\ <<b>> # <<>>
                        /\ Append(<<>>, b) = <<b>>
  OBVIOUS
LEMMA TwoBeats == \A b, c : /\ <<b>> \o <<c>> = <<b, c>> /\ Append(<<b>>, c) = <<b, c>>
                            /\ Tail(<<b, c>>) = <<c>> /\ <<b, c>> # <<>>
<1> TAKE b, c
<1> DEFINE S == {b, c}
<1>1. <<b>> \in Seq(S) /\ <<c>> \in Seq(S) /\ <<b, c>> \in Seq(S)
  OBVIOUS
<1>2. <<b>> \o <<c>> = Append(<<b>>, c)
  BY <1>1, AppendIsConcat
<1>3. Append(<<b>>, c) = <<b, c>>
  <2>1. Append(<<b>>, c) \in Seq(S)
    BY <1>1, AppendProperties
  <2>2. Len(Append(<<b>>, c)) = 2 /\ Append(<<b>>, c)[1] = b /\ Append(<<b>>, c)[2] = c
    BY <1>1, AppendProperties
  <2>3. Len(<<b, c>>) = 2 /\ <<b, c>>[1] = b /\ <<b, c>>[2] = c
    OBVIOUS
  <2>4. \A i \in 1 .. 2 : Append(<<b>>, c)[i] = <<b, c>>[i]
    BY <2>2, <2>3
  <2> QED
    BY <1>1, <2>1, <2>2, <2>3, <2>4, SeqEqual
<1>4. Tail(<<b, c>>) = <<c>> /\ <<b, c>> # <<>>
  OBVIOUS
<1> QED
  BY <1>2, <1>3, <1>4

LEMMA QueueStep == PipeInv /\ [Next]_pipe => [Queue!Next]_(buf \o ovfl)
<1> SUFFICES ASSUME PipeInv, [Next]_pipe PROVE [Queue!Next]_(buf \o ovfl)
  OBVIOUS
<1> USE EmptyWord, OneBeat, TwoBeats DEF Queue!Next, Queue!Put, Queue!Take, Queue!TakePut
<1>1. CASE UNCHANGED pipe
  BY <1>1 DEF pipe
<1>2. CASE Next
  <2>1. PICK rdy \in {TRUE, FALSE}, busIb \in Word : Edge(busIb, rdy)
    BY <1>2 DEF Next, Word
  <2>2. CASE buf = <<>>
    <3>1. ovfl = <<>> /\ buf' = busIb /\ ovfl' = <<>>
      BY <2>1, <2>2 DEF Edge, PipeInv, OvflBehindBuf
    <3>2. (buf \o ovfl = <<>>) /\ (buf' \o ovfl' = busIb)
      BY <2>2, <3>1
    <3> QED
      BY <3>2 DEF Word
  <2>3. CASE buf # <<>> /\ ovfl # <<>>
    <3>1. PICK b \in Beats, c \in Beats : buf = <<b>> /\ ovfl = <<c>>
      BY <2>3 DEF PipeInv, Word
    <3>2. buf \o ovfl = <<b, c>>
      BY <3>1
    <3>3. CASE rdy
      <4>1. buf' = <<c>> /\ ovfl' = <<>>
        BY <2>1, <2>3, <3>1, <3>3 DEF Edge
      <4>2. buf' \o ovfl' = <<c>>
        BY <4>1 DEF Word
      <4> QED
        BY <3>2, <4>2
    <3>4. CASE ~rdy
      BY <2>1, <2>3, <3>4 DEF Edge
    <3> QED
      BY <3>3, <3>4
  <2>4. CASE buf # <<>> /\ ovfl = <<>>
    <3>1. PICK b \in Beats : buf = <<b>>
      BY <2>4 DEF PipeInv, Word
    <3>2. buf \o ovfl = <<b>>
      BY <2>4, <3>1 DEF Word
    <3>3. CASE rdy
      <4>1. buf' = busIb /\ ovfl' = <<>>
        BY <2>1, <2>4, <3>3 DEF Edge
      <4>2. buf' \o ovfl' = busIb
        BY <4>1
      <4> QED
        BY <3>2, <4>2 DEF Word
    <3>4. CASE ~rdy
      <4>1. buf' = <<b>> /\ ovfl' = busIb
        BY <2>1, <2>4, <3>1, <3>4 DEF Edge
      <4>2. CASE busIb = <<>>
        BY <3>2, <4>1, <4>2 DEF Word
      <4>3. CASE busIb # <<>>
        <5>1. PICK c \in Beats : busIb = <<c>>
          BY <4>3 DEF Word
        <5>2. buf' \o ovfl' = <<b, c>>
          BY <4>1, <5>1
        <5> QED
          BY <3>2, <5>1, <5>2
      <4> QED
        BY <4>2, <4>3
    <3> QED
      BY <3>3, <3>4
  <2> QED
    BY <2>2, <2>3, <2>4
<1> QED
  BY <1>1, <1>2

\* A stage neither loses, repeats nor reorders a beat, however the consumer
\* stalls: it is a queue of two beats (hdl/SimpleBusPipeStage.vhd, P_COMB).
THEOREM StageIsQueue == Spec => IsQueue
<1>1. PipeInit => Queue!Init
  BY DEF PipeInit, Queue!Init
<1> QED
  BY PipeInvInit, PipeInvStep, QueueStep, <1>1, PTL DEF Spec, IsQueue, Queue!Spec
=============================================================================
