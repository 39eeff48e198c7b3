----------------------------- MODULE Trigger_proofs -----------------------------
(***************************************************************************)
(* Theorems about Trigger, for every size of the memory, every set of      *)
(* parameters, any samples and strobes.                                    *)
(*                                                                         *)
(* Places in the recording are counted from the newest sample: k samples   *)
(* ago.  The counters of the recorder tell how long ago something was: the *)
(* over-range counter the newest sample out of range, the number of        *)
(* samples the trigger.  What the registers of the trigger pipeline say    *)
(* about the samples in it, and about the newest one recorded, holds once  *)
(* enough samples went through since the restart.                          *)
(***************************************************************************)
EXTENDS Trigger, TLAPS

Smpls == Samples \union {SMPL_INIT}

TrgType == [trg : BOOLEAN, extTrg : BOOLEAN, armed : BOOLEAN, trgSmpl : Int,
            smplDly : Smpls \X Smpls]

TypeOK ==
  /\ rWr \in WrType /\ lstTrg \in BOOLEAN /\ armLvl \in Int /\ rTrg \in TrgType
  /\ msTickCounter \in 0 .. TickPeriod - 1 /\ msTimer \in 0 .. AUTO_TIME_STOP
  /\ msTimerExpired \in BOOLEAN
  /\ hist \in Seq(Smpls) /\ Len(hist) <= MemDepth + 1

\* The recorder counts what it has recorded.
Counted ==
  /\ rWr.state = "INIT" => hist = <<>> /\ rWr.ovrA = 0
  /\ rWr.state = "FILL" =>
       ~rWr.wasTrg /\ rWr.nsmpls <= lparms.nprets /\ Len(hist) = rWr.nsmpls
  /\ rWr.state = "RUN" =>
       /\ Len(hist) > rWr.nsmpls
       /\ IF rWr.wasTrg THEN lparms.nprets < rWr.nsmpls /\ rWr.nsmpls <= lparms.nsamples
                        ELSE rWr.nsmpls = lparms.nprets
  /\ Stopped => Len(hist) > rWr.nsmpls /\ rWr.nsmpls = lparms.nsamples + 1

Ago(h, k) == h[Len(h) - k]

\* An over-range counter o for the recording h, when n samples are counted.
OverIs(h, n, o) ==
  /\ o <= n
  /\ o = 0 => \A k \in 0 .. Len(h) - 1 : k < n => ~Ago(h, k).dor
  /\ o # 0 => /\ n - o < Len(h) /\ Ago(h, n - o).dor
              /\ \A j \in 0 .. n - o - 1 : ~Ago(h, j).dor

OverCounted == Recording \/ Stopped => OverIs(hist, lparms.nsamples, rWr.ovrA)

OneChannel == \A p, q \in Parms : p.src = "CHB" <=> q.src = "CHB"

Channel(p, s) == IF p.src = "CHB" THEN s.CHB ELSE s.CHA

\* The sample the level trigger looks at is the newer one of the pipeline,
\* once one went through since the channel was chosen.
SampleKept ==
  OneChannel \/ (Recording /\ Len(hist) >= 1) =>
    rTrg.trgSmpl = Channel(lparms, rTrg.smplDly[1])

\* The external trigger: three registers, each about a sample of its own.
ExtPipe ==
  Recording /\ lparms.src = "EXT" =>
    /\ Len(hist) >= 1 => (rTrg.extTrg <=> Fires(lparms, rTrg.smplDly[1]))
    /\ Len(hist) >= 2 => (rTrg.trg <=> Fires(lparms, wdat))
    /\ Len(hist) >= 3 => (lstTrg <=> Fires(lparms, Ago(hist, 0)))

ZeroArms(p) == IF p.rising THEN p.lvl >= 0 ELSE p.lvl <= 0

\* A sample before the edge: not beyond the level, if that is what arms.
Below(p, s) == Overflows(p) \/ ~Fires(p, s)

\* The level trigger: armed as long as it did not fire means that the older one
\* of the pipeline is not beyond the level.
LevelPipe ==
  Recording /\ lparms.src # "EXT" =>
    /\ armLvl = ArmLevel(lparms) \/ (armLvl = 0 /\ Len(hist) = 0)
    /\ Len(hist) = 0 => ~rTrg.armed
    /\ rWr.state = "FILL" => ~rTrg.trg
    /\ rTrg.armed /\ ~rTrg.trg /\ (Len(hist) >= 2 \/ (ZeroArms(lparms) /\ OneChannel)) =>
         Below(lparms, wdat)
    /\ trg /\ Refilled(lparms) => Fires(lparms, wdat) /\ Below(lparms, Ago(hist, 0))

\* In the recording h the sample k ago is the first one beyond the level.
EdgeIs(p, h, k) == k + 1 < Len(h) /\ Fires(p, Ago(h, k)) /\ Below(p, Ago(h, k + 1))

\* Where the edge is while the window fills up.
EdgeKept ==
  Stopped \/ (rWr.state = "RUN" /\ rWr.wasTrg) =>
    (~rWr.autTrg /\ Refilled(lparms) =>
       EdgeIs(lparms, hist, rWr.nsmpls - lparms.nprets - 1))

IInv ==
  TypeOK /\ Counted /\ OverCounted /\ SampleKept /\ ExtPipe /\ LevelPipe /\ EdgeKept
-----------------------------------------------------------------------------
(* Samples and parameters.                                                 *)

LEMMA ParmIs ==
  ASSUME NEW p \in Parms
  PROVE  /\ p.nsamples \in 0 .. MemDepth - 1 /\ p.nprets \in 0 .. p.nsamples
         /\ p.src \in {"CHA", "CHB", "EXT"} /\ p.rising \in BOOLEAN
         /\ p.lvl \in LvlMin .. LvlMax /\ p.lvl \in Int /\ p.hyst \in Nat
         /\ p.hyst \in 0 .. LvlRange - 1 /\ p.autoTimeMs \in 0 .. AUTO_TIME_STOP
         /\ MemDepth \in Nat \ {0} /\ LvlMax \in Nat /\ LvlMin = 0 - LvlMax - 1 /\ LvlRange = 2 * LvlMax + 2
  BY ParmsAssumption, TriggerAssumption, MemoryAssumption DEF LvlRange

LEMMA SmplIs ==
  ASSUME NEW s \in Smpls
  PROVE  s.CHA \in Int /\ s.CHB \in Int /\ s.dor \in BOOLEAN /\ s.ext \in BOOLEAN
<1>1. CASE s \in Samples
  BY <1>1, TriggerAssumption
<1>2. CASE s = SMPL_INIT
  BY <1>2 DEF SMPL_INIT
<1> QED
  BY <1>1, <1>2 DEF Smpls

LEMMA BeyondIs ==
  ASSUME NEW p \in Parms, NEW v \in Int
  PROVE  /\ p.rising => (Beyond(v, p) <=> v >= p.lvl)
         /\ ~p.rising => (Beyond(v, p) <=> v < p.lvl)
<1>1. p.rising \in BOOLEAN /\ p.lvl \in Int
  BY ParmIs
<1>2. CASE p.rising = TRUE
  BY <1>1, <1>2 DEF Beyond
<1>3. CASE p.rising = FALSE
  BY <1>1, <1>3 DEF Beyond
<1> QED
  BY <1>1, <1>2, <1>3

\* A sum that does not wrap is saturated as it is.
LEMMA NotWrapped ==
  ASSUME NEW a \in (0 - LvlRange) .. LvlRange - 1, LvlRange \in Nat
  PROVE  Wrapped(a) = a
<1>1. a + LvlRange \in 0 .. 2 * LvlRange - 1
  OBVIOUS
<1>2. (a + LvlRange) % (2 * LvlRange) = a + LvlRange
  <2> DEFINE x == a + LvlRange
             m == 2 * LvlRange
  <2>1. m \in Nat \ {0} /\ x \in 0 .. m - 1
    BY <1>1
  <2> HIDE DEF x, m
  <2>2. x % m = x
    BY <2>1
  <2> QED
    BY <2>2 DEF x, m
<1> QED
  BY <1>2 DEF Wrapped

LEMMA WrappedIs ==
  ASSUME NEW a \in Int, LvlRange \in Nat \ {0}
  PROVE  Wrapped(a) \in Int
<1>1. 2 * LvlRange \in Nat \ {0} /\ a + LvlRange \in Int
  OBVIOUS
<1>2. (a + LvlRange) % (2 * LvlRange) \in Int
  BY <1>1
<1> QED
  BY <1>2 DEF Wrapped

\* What arms the trigger is not beyond the level, unless the sum wraps.
LEMMA ArmsBefore ==
  ASSUME NEW p \in Parms, p.src # "EXT", NEW v \in Int, NEW a \in Int,
         a = ArmLevel(p) \/ (a = 0 /\ ZeroArms(p)), (v < a) = p.rising
  PROVE  Overflows(p) \/ ~Beyond(v, p)
<1>1. /\ p.rising \in BOOLEAN /\ p.lvl \in LvlMin .. LvlMax /\ p.lvl \in Int /\ p.hyst \in Nat
      /\ LvlMax \in Nat /\ LvlMin = 0 - LvlMax - 1 /\ LvlRange \in Nat
  BY ParmIs
<1> SUFFICES ASSUME ~Overflows(p) PROVE ~Beyond(v, p)
  OBVIOUS
<1>2. a = Saturated(ArmSum(p)) \/ (a = 0 /\ ZeroArms(p))
  <2>1. ArmSum(p) \in (0 - LvlRange) .. LvlRange - 1
    BY DEF Overflows
  <2> QED
    BY <1>1, <2>1, NotWrapped DEF ArmLevel
<1>3. CASE p.rising = TRUE
  <2>1. v < a
    BY <1>3
  <2>2. a <= p.lvl
    BY <1>1, <1>2, <1>3 DEF Saturated, ArmSum, ZeroArms
  <2> QED
    BY <1>1, <1>3, <2>1, <2>2, BeyondIs
<1>4. CASE p.rising = FALSE
  <2>1. ~(v < a)
    BY <1>4
  <2>2. a >= p.lvl
    BY <1>1, <1>2, <1>4 DEF Saturated, ArmSum, ZeroArms
  <2> QED
    BY <1>1, <1>4, <2>1, <2>2, BeyondIs
<1> QED
  BY <1>1, <1>3, <1>4

LEMMA ArmLevelIs ==
  ASSUME NEW p \in Parms PROVE ArmLevel(p) \in Int
<1>1. ArmSum(p) \in Int /\ LvlRange \in Nat \ {0} /\ LvlMin \in Int /\ LvlMax \in Int
  BY ParmIs DEF ArmSum
<1>2. Wrapped(ArmSum(p)) \in Int
  BY <1>1, WrappedIs
<1> QED
  BY <1>1, <1>2 DEF ArmLevel, Saturated

LEMMA FiresIs ==
  ASSUME NEW p \in Parms, NEW s \in Smpls
  PROVE  /\ Channel(p, s) \in Int
         /\ p.src # "EXT" => (Fires(p, s) <=> Beyond(Channel(p, s), p))
         /\ p.src = "EXT" => (Fires(p, s) <=> s.ext = p.rising)
<1>1. p.src \in {"CHA", "CHB", "EXT"}
  BY ParmIs
<1>2. Channel(p, s) \in Int
  BY SmplIs DEF Channel
<1>3. CASE p.src = "CHA"
  BY <1>2, <1>3 DEF Fires, Channel
<1>4. CASE p.src = "CHB"
  BY <1>2, <1>4 DEF Fires, Channel
<1>5. CASE p.src = "EXT"
  BY <1>2, <1>5 DEF Fires, Channel
<1> QED
  BY <1>1, <1>3, <1>4, <1>5
-----------------------------------------------------------------------------
(* One more sample in the recording.                                       *)

Grown(h, r, s) ==
  /\ r \in Seq(Smpls) /\ Len(r) = IF Len(h) > MemDepth THEN Len(h) ELSE Len(h) + 1
  /\ Ago(r, 0) = s
  /\ \A k \in 1 .. Len(r) - 1 : Ago(r, k) = Ago(h, k - 1)

LEMMA RecordedGrows ==
  ASSUME hist \in Seq(Smpls), Len(hist) <= MemDepth + 1, NEW s \in Smpls
  PROVE  Grown(hist, Recorded(s), s)
<1>1. MemDepth \in Nat \ {0}
  BY MemoryAssumption
<1> DEFINE h == Append(hist, s)
<1>2. h \in Seq(Smpls) /\ Len(h) = Len(hist) + 1 /\ h[Len(hist) + 1] = s
      /\ \A i \in 1 .. Len(hist) : h[i] = hist[i]
  OBVIOUS
<1>3. Len(hist) \in Nat
  OBVIOUS
<1> HIDE DEF h
<1>4. CASE Len(hist) > MemDepth
  <2>1. Recorded(s) = Tail(h)
    BY <1>1, <1>2, <1>3, <1>4 DEF Recorded, h
  <2>2. Len(h) > 1
    BY <1>1, <1>2, <1>3, <1>4
  <2>3. /\ Tail(h) \in Seq(Smpls) /\ Len(Tail(h)) = Len(h) - 1
        /\ \A i \in 1 .. Len(h) - 1 : Tail(h)[i] = h[i + 1]
    BY <1>2, <2>2
  <2> HIDE DEF Ago
  <2>4. Ago(Tail(h), 0) = s
    BY <1>2, <1>3, <2>2, <2>3 DEF Ago
  <2>5. ASSUME NEW k \in 1 .. Len(hist) - 1 PROVE Ago(Tail(h), k) = Ago(hist, k - 1)
    <3>1. Len(hist) - k \in 1 .. Len(h) - 1 /\ Len(hist) - k + 1 \in 1 .. Len(hist)
          /\ Len(Tail(h)) - k = Len(hist) - k /\ Len(hist) - (k - 1) = Len(hist) - k + 1
      BY <1>2, <1>3, <2>3
    <3>2. Tail(h)[Len(hist) - k] = hist[Len(hist) - k + 1]
      BY <1>2, <2>3, <3>1
    <3> QED
      BY <3>1, <3>2 DEF Ago
  <2> QED
    BY <1>2, <1>3, <1>4, <2>1, <2>3, <2>4, <2>5 DEF Grown
<1>5. CASE ~(Len(hist) > MemDepth)
  <2>1. Recorded(s) = h
    BY <1>1, <1>2, <1>3, <1>5 DEF Recorded, h
  <2>2. Ago(h, 0) = s
    BY <1>2, <1>3 DEF Ago
  <2>3. ASSUME NEW k \in 1 .. Len(hist) PROVE Ago(h, k) = Ago(hist, k - 1)
    <3>1. Len(h) - k = Len(hist) - (k - 1) /\ Len(hist) - (k - 1) \in 1 .. Len(hist)
      BY <1>2, <1>3
    <3> QED
      BY <1>2, <3>1 DEF Ago
  <2> QED
    BY <1>2, <1>3, <1>5, <2>1, <2>2, <2>3 DEF Grown
<1> QED
  BY <1>4, <1>5

LEMMA OverGrows ==
  ASSUME NEW h \in Seq(Smpls), Len(h) <= MemDepth + 1, NEW r, NEW s \in Smpls, Grown(h, r, s),
         NEW n \in 0 .. MemDepth - 1, NEW o \in Nat, OverIs(h, n, o)
  PROVE  /\ s.dor => OverIs(r, n, n)
         /\ ~s.dor /\ o # 0 => OverIs(r, n, o - 1)
         /\ ~s.dor /\ o = 0 => OverIs(r, n, 0)
<1>1. /\ Len(r) = IF Len(h) > MemDepth THEN Len(h) ELSE Len(h) + 1
      /\ Ago(r, 0) = s
      /\ \A k \in 1 .. Len(r) - 1 : Ago(r, k) = Ago(h, k - 1)
      /\ Len(h) \in Nat /\ Len(h) <= MemDepth + 1 /\ MemDepth \in Nat \ {0}
  BY MemoryAssumption DEF Grown
<1>2. /\ o <= n
      /\ o = 0 => \A k \in 0 .. Len(h) - 1 : k < n => ~Ago(h, k).dor
      /\ o # 0 => /\ n - o < Len(h) /\ Ago(h, n - o).dor
                  /\ \A j \in 0 .. n - o - 1 : ~Ago(h, j).dor
  BY DEF OverIs
<1>3. ASSUME s.dor PROVE OverIs(r, n, n)
  <2>1. n - n = 0
    OBVIOUS
  <2>2. n - n < Len(r) /\ Ago(r, n - n).dor
    BY <1>1, <1>3, <2>1
  <2>3. n = 0 => \A k \in 0 .. Len(r) - 1 : k < n => ~Ago(r, k).dor
    OBVIOUS
  <2>4. \A j \in 0 .. n - n - 1 : ~Ago(r, j).dor
    BY <2>1
  <2> QED
    BY <2>2, <2>3, <2>4 DEF OverIs
<1>4. ASSUME ~s.dor, o = 0 PROVE OverIs(r, n, 0)
  <2>1. ASSUME NEW k \in 0 .. Len(r) - 1, k < n PROVE ~Ago(r, k).dor
    <3>1. CASE k = 0
      BY <1>1, <1>4, <3>1
    <3>2. CASE k # 0
      <4>1. k \in 1 .. Len(r) - 1 /\ k - 1 \in 0 .. Len(h) - 1 /\ k - 1 < n
        BY <1>1, <2>1, <3>2
      <4> QED
        BY <1>1, <1>2, <1>4, <4>1
    <3> QED
      BY <3>1, <3>2
  <2> QED
    BY <2>1 DEF OverIs
<1>5. ASSUME ~s.dor, o # 0 PROVE OverIs(r, n, o - 1)
  <2>1. n - o \in Nat /\ n - o < Len(h) /\ n - (o - 1) = (n - o) + 1
    BY <1>1, <1>2, <1>5
  <2>2. ASSUME NEW j \in 0 .. n - o, j < Len(r) PROVE ~Ago(r, j).dor
    <3>1. CASE j = 0
      BY <1>1, <1>5, <3>1
    <3>2. CASE j # 0
      <4>1. j \in 1 .. Len(r) - 1 /\ j - 1 \in 0 .. n - o - 1
        BY <1>1, <2>2, <3>2
      <4> QED
        BY <1>1, <1>2, <1>5, <4>1
    <3> QED
      BY <3>1, <3>2
  <2>3. CASE o = 1
    <3>1. ASSUME NEW k \in 0 .. Len(r) - 1, k < n PROVE ~Ago(r, k).dor
      <4>1. k \in 0 .. n - o /\ k < Len(r)
        BY <1>1, <2>3, <3>1
      <4> QED
        BY <2>2, <4>1
    <3> QED
      BY <2>3, <3>1 DEF OverIs
  <2>4. CASE o # 1
    <3>1. n - (o - 1) < Len(r) /\ n - (o - 1) \in 1 .. Len(r) - 1
      BY <1>1, <1>2, <2>1, <2>4
    <3>2. Ago(r, n - (o - 1)) = Ago(h, n - o)
      BY <1>1, <2>1, <3>1
    <3>3. Ago(r, n - (o - 1)).dor
      BY <1>2, <1>5, <3>2
    <3>4. \A j \in 0 .. n - (o - 1) - 1 : ~Ago(r, j).dor
      <4> TAKE j \in 0 .. n - (o - 1) - 1
      <4>1. j \in 0 .. n - o /\ j < Len(r)
        BY <1>1, <2>1, <3>1
      <4> QED
        BY <2>2, <4>1
    <3>5. o - 1 # 0 /\ o - 1 <= n
      BY <1>2, <1>5, <2>4
    <3> QED
      BY <3>1, <3>3, <3>4, <3>5 DEF OverIs
  <2> QED
    BY <2>3, <2>4
<1> QED
  BY <1>3, <1>4, <1>5

LEMMA OverEmpty == ASSUME NEW n \in Nat PROVE OverIs(<<>>, n, 0)
  BY DEF OverIs

LEMMA EdgeGrows ==
  ASSUME NEW p, NEW h \in Seq(Smpls), NEW r, NEW s, Grown(h, r, s), NEW k \in Nat, EdgeIs(p, h, k),
         k + 2 < Len(r)
  PROVE  EdgeIs(p, r, k + 1)
<1>1. /\ \A i \in 1 .. Len(r) - 1 : Ago(r, i) = Ago(h, i - 1)
      /\ Len(r) \in Nat
  BY DEF Grown
<1>2. k + 1 \in 1 .. Len(r) - 1 /\ k + 2 \in 1 .. Len(r) - 1 /\ (k + 1) - 1 = k /\ (k + 2) - 1 = k + 1
      /\ (k + 1) + 1 = k + 2
  BY <1>1
<1>3. Ago(r, k + 1) = Ago(h, k) /\ Ago(r, k + 2) = Ago(h, k + 1)
  BY <1>1, <1>2
<1> QED
  BY <1>2, <1>3 DEF EdgeIs
-----------------------------------------------------------------------------
(* What an edge does to the recorder, field by field.                      *)

LEMMA OvrNextIs ==
  ASSUME TypeOK, NEW d \in BOOLEAN
  PROVE  /\ ovrNext(d) \in 0 .. MemDepth
         /\ d => ovrNext(d) = lparms.nsamples
         /\ ~d /\ rWr.ovrA # 0 => ovrNext(d) = rWr.ovrA - 1
         /\ ~d /\ rWr.ovrA = 0 => ovrNext(d) = 0
<1>1. lparms \in Parms /\ rWr.ovrA \in 0 .. MemDepth
  BY DEF TypeOK, WrType, lparms
<1>2. lparms.nsamples \in 0 .. MemDepth - 1 /\ MemDepth \in Nat
  BY <1>1, ParmIs
<1> QED
  BY <1>1, <1>2 DEF ovrNext, lparms

LEMMA FillEdgeIs ==
  ASSUME TypeOK, Counted, NEW d \in BOOLEAN, FillEdge(d)
  PROVE  /\ rWr.state = "FILL" /\ rWr' \in WrType
         /\ rWr'.parms = lparms /\ rWr'.ovrA = ovrNext(d) /\ ~rWr'.wasTrg
         /\ rWr.nsmpls >= lparms.nprets => rWr'.state = "RUN" /\ rWr'.nsmpls = lparms.nprets
         /\ rWr.nsmpls < lparms.nprets => rWr'.state = "FILL" /\ rWr'.nsmpls = rWr.nsmpls + 1
<1>1. rWr.state = "FILL" /\ ~rWr.wasTrg
  BY DEF FillEdge, Counted
<1>2. rWr \in WrType /\ ovrNext(d) \in 0 .. MemDepth
  BY OvrNextIs DEF TypeOK
<1>3. lparms.nprets \in 0 .. MemDepth - 1 /\ rWr.nsmpls \in 0 .. MemDepth /\ MemDepth \in Nat
  <2>1. lparms \in Parms /\ rWr.nsmpls \in 0 .. MemDepth
    BY <1>2 DEF WrType, lparms
  <2> QED
    BY <2>1, ParmIs
<1>4. CASE rWr.nsmpls >= lparms.nprets
  <2>1. rWr' = [rWr EXCEPT !.state = "RUN", !.nsmpls = lparms.nprets, !.ovrA = ovrNext(d)]
    BY <1>4 DEF FillEdge, lparms
  <2>2. rWr' \in WrType
    <3>1. lparms.nprets \in 0 .. MemDepth
      BY <1>3
    <3> QED
      BY <1>2, <2>1, <3>1 DEF WrType, WrStates
  <2>3. /\ rWr'.state = "RUN" /\ rWr'.nsmpls = lparms.nprets /\ rWr'.ovrA = ovrNext(d)
        /\ rWr'.parms = rWr.parms
    BY <1>2, <2>1 DEF WrType
  <2>4. rWr'.wasTrg = rWr.wasTrg
    BY <1>2, <2>1 DEF WrType
  <2> QED
    BY <1>1, <1>3, <1>4, <2>2, <2>3, <2>4 DEF lparms
<1>5. CASE rWr.nsmpls < lparms.nprets
  <2>1. rWr' = [rWr EXCEPT !.state = "FILL", !.nsmpls = @ + 1, !.ovrA = ovrNext(d)]
    <3>1. ~(rWr.nsmpls >= rWr.parms.nprets)
      BY <1>3, <1>5 DEF lparms
    <3> QED
      BY <1>1, <3>1 DEF FillEdge
  <2>2. rWr.nsmpls + 1 \in 0 .. MemDepth
    BY <1>3, <1>5
  <2>3. rWr' \in WrType
    BY <1>2, <2>1, <2>2 DEF WrType, WrStates
  <2>4. /\ rWr'.state = "FILL" /\ rWr'.nsmpls = rWr.nsmpls + 1 /\ rWr'.ovrA = ovrNext(d)
        /\ rWr'.parms = rWr.parms
    BY <1>2, <2>1 DEF WrType
  <2>5. rWr'.wasTrg = rWr.wasTrg
    BY <1>2, <2>1 DEF WrType
  <2> QED
    BY <1>1, <1>3, <1>5, <2>3, <2>4, <2>5 DEF lparms
<1> QED
  BY <1>3, <1>4, <1>5

LEMMA RunEdgeIs ==
  ASSUME TypeOK, Counted, NEW t \in BOOLEAN, NEW e \in BOOLEAN, NEW d \in BOOLEAN, RunEdge(t, e, d)
  PROVE  /\ rWr.state = "RUN" /\ rWr' \in WrType
         /\ rWr'.parms = lparms /\ rWr'.ovrA = ovrNext(d)
         /\ rWr.wasTrg \/ t \/ e =>
              /\ rWr'.wasTrg /\ rWr'.nsmpls = rWr.nsmpls + 1
              /\ rWr'.state = IF rWr.nsmpls = lparms.nsamples THEN "STOP1" ELSE "RUN"
              /\ ~rWr.wasTrg => rWr'.autTrg = e
              /\ rWr.wasTrg => rWr'.autTrg = rWr.autTrg
         /\ ~(rWr.wasTrg \/ t \/ e) =>
              ~rWr'.wasTrg /\ rWr'.nsmpls = rWr.nsmpls /\ rWr'.state = "RUN"
<1>1. rWr.state = "RUN"
  BY DEF RunEdge
<1>2. rWr \in WrType /\ ovrNext(d) \in 0 .. MemDepth
  BY OvrNextIs DEF TypeOK
<1>3. /\ lparms.nsamples \in 0 .. MemDepth - 1 /\ lparms.nprets \in 0 .. lparms.nsamples
      /\ rWr.nsmpls \in 0 .. MemDepth /\ MemDepth \in Nat
      /\ rWr.wasTrg \in BOOLEAN /\ rWr.autTrg \in BOOLEAN
  <2>1. lparms \in Parms /\ rWr.nsmpls \in 0 .. MemDepth /\ rWr.wasTrg \in BOOLEAN /\ rWr.autTrg \in BOOLEAN
    BY <1>2 DEF WrType, lparms
  <2> QED
    BY <2>1, ParmIs
<1>4. rWr.nsmpls <= lparms.nsamples
  BY <1>1, <1>3 DEF Counted
<1> DEFINE st == IF rWr.nsmpls = lparms.nsamples THEN "STOP1" ELSE "RUN"
<1>5. CASE rWr.wasTrg \/ t \/ e
  <2>1. PICK a \in BOOLEAN :
          /\ rWr' = [rWr EXCEPT !.state = st, !.wasTrg = TRUE, !.autTrg = a, !.nsmpls = @ + 1,
                                !.ovrA = ovrNext(d)]
          /\ ~rWr.wasTrg => a = e
          /\ rWr.wasTrg => a = rWr.autTrg
    <3>1. CASE rWr.wasTrg = TRUE
      <4>1. rWr' = [rWr EXCEPT !.state = st, !.wasTrg = TRUE, !.autTrg = rWr.autTrg, !.nsmpls = @ + 1,
                               !.ovrA = ovrNext(d)]
        BY <1>1, <3>1 DEF RunEdge, lparms
      <4> QED
        BY <1>3, <3>1, <4>1
    <3>2. CASE rWr.wasTrg = FALSE
      <4>1. (rWr.wasTrg \/ t \/ e) = TRUE
        BY <1>5
      <4>2. rWr' = [rWr EXCEPT !.state = st, !.wasTrg = TRUE, !.autTrg = e, !.nsmpls = @ + 1,
                               !.ovrA = ovrNext(d)]
        BY <1>1, <1>5, <3>2, <4>1 DEF RunEdge, lparms
      <4> QED
        BY <1>3, <3>2, <4>2
    <3> QED
      BY <1>3, <3>1, <3>2
  <2>2. rWr.nsmpls + 1 \in 0 .. MemDepth /\ st \in {"STOP1", "RUN"}
    BY <1>3, <1>4
  <2> HIDE DEF st
  <2>3. rWr' \in WrType
    BY <1>2, <2>1, <2>2 DEF WrType, WrStates
  <2>4. /\ rWr'.state = st /\ rWr'.nsmpls = rWr.nsmpls + 1 /\ rWr'.ovrA = ovrNext(d)
        /\ rWr'.parms = rWr.parms
    BY <1>2, <2>1 DEF WrType
  <2>5. rWr'.wasTrg = TRUE /\ rWr'.autTrg = a
    BY <1>2, <2>1 DEF WrType
  <2> QED
    BY <1>1, <1>5, <2>1, <2>3, <2>4, <2>5 DEF lparms, st
<1>6. CASE ~(rWr.wasTrg \/ t \/ e)
  <2>1. rWr' = [rWr EXCEPT !.wasTrg = FALSE, !.ovrA = ovrNext(d)]
    <3>1. (rWr.wasTrg \/ t \/ e) = FALSE
      BY <1>6
    <3> QED
      BY <1>1, <1>2, <1>6, <3>1 DEF RunEdge, WrType
  <2>2. rWr' \in WrType
    BY <1>2, <2>1 DEF WrType
  <2>3. /\ rWr'.state = rWr.state /\ rWr'.nsmpls = rWr.nsmpls /\ rWr'.ovrA = ovrNext(d)
        /\ rWr'.parms = rWr.parms
    BY <1>2, <2>1 DEF WrType
  <2>4. rWr'.wasTrg = FALSE
    BY <1>2, <2>1 DEF WrType
  <2> QED
    BY <1>1, <1>6, <2>2, <2>3, <2>4 DEF lparms
<1> QED
  BY <1>5, <1>6

LEMMA StopEdgeIs ==
  ASSUME TypeOK, StopEdge
  PROVE  /\ rWr' \in WrType /\ rWr'.parms = lparms /\ rWr'.ovrA = rWr.ovrA
         /\ rWr'.nsmpls = rWr.nsmpls /\ rWr'.autTrg = rWr.autTrg
         /\ rWr.state \in {"STOP1", "STOP2"}
         /\ rWr.state = "STOP1" => rWr'.state = "STOP2"
         /\ rWr.state = "STOP2" => rWr'.state = "HOLD"
<1>1. rWr \in WrType
  BY DEF TypeOK
<1>2. CASE rWr.state = "STOP1"
  <2>1. rWr' = [rWr EXCEPT !.state = "STOP2"]
    BY <1>2 DEF StopEdge
  <2> QED
    BY <1>1, <1>2, <2>1 DEF WrType, WrStates, lparms
<1>3. CASE rWr.state = "STOP2"
  <2>1. PICK b \in BOOLEAN : rWr' = [rWr EXCEPT !.state = "HOLD", !.tgl = b]
    BY <1>1, <1>3 DEF StopEdge, WrType
  <2> QED
    BY <1>1, <1>3, <2>1 DEF WrType, WrStates, lparms
<1> QED
  BY <1>2, <1>3 DEF StopEdge

LEMMA HoldEdgeIs ==
  ASSUME TypeOK, NEW tgl, HoldEdge(tgl)
  PROVE  /\ rWr.state = "HOLD" /\ rWr' \in WrType /\ rWr'.parms = lparms
         /\ rWr'.state \in {"HOLD", "FILL"}
         /\ rWr'.state = "FILL" => rWr'.nsmpls = 0 /\ ~rWr'.wasTrg /\ rWr'.ovrA = 0
<1>1. rWr \in WrType /\ rWr.state = "HOLD"
  BY DEF TypeOK, HoldEdge
<1>2. CASE tgl = rWr.tgl
  <2>1. rWr' = [rWr EXCEPT !.state = "FILL", !.nsmpls = 0, !.wasTrg = FALSE, !.autTrg = FALSE,
                           !.ovrA = 0]
    BY <1>2 DEF HoldEdge
  <2>2. rWr' = [state |-> "FILL", wasTrg |-> FALSE, autTrg |-> FALSE, nsmpls |-> 0, ovrA |-> 0,
                tgl |-> rWr.tgl, parms |-> rWr.parms]
    BY <1>1, <2>1 DEF WrType
  <2> QED
    BY <1>1, <2>2, MemoryAssumption DEF WrType, WrStates, lparms
<1>3. CASE tgl # rWr.tgl
  BY <1>1, <1>3 DEF HoldEdge, lparms
<1> QED
  BY <1>2, <1>3

LEMMA ParmEdgeIs ==
  ASSUME TypeOK, NEW p \in Parms, ParmEdge(p)
  PROVE  /\ rWr' \in WrType /\ rWr'.parms = p /\ ~Stopped
         /\ rWr.state = "HOLD" => rWr'.state = "HOLD"
         /\ rWr.state # "HOLD" =>
              rWr'.state = "FILL" /\ rWr'.nsmpls = 0 /\ ~rWr'.wasTrg /\ rWr'.ovrA = 0
<1>1. rWr \in WrType /\ ~Stopped
  BY DEF TypeOK, ParmEdge, Stopped
<1>2. CASE rWr.state = "HOLD"
  <2>1. rWr' = [rWr EXCEPT !.parms = p]
    BY <1>2 DEF ParmEdge
  <2> QED
    BY <1>1, <1>2, <2>1 DEF WrType
<1>3. CASE rWr.state # "HOLD"
  <2>1. rWr' = [state |-> "FILL", wasTrg |-> FALSE, autTrg |-> FALSE, nsmpls |-> 0, ovrA |-> 0,
                tgl |-> rWr.tgl, parms |-> p]
    BY <1>3 DEF ParmEdge, WR_REG_START, WR_REG_INIT
  <2> QED
    BY <1>1, <1>3, <2>1, MemoryAssumption DEF WrType, WrStates
<1> QED
  BY <1>2, <1>3
-----------------------------------------------------------------------------
(* What an edge does to the trigger pipeline.                              *)

LEMMA LevelTrgIs ==
  ASSUME TypeOK
  PROVE  /\ LevelTrg \in BOOLEAN
         /\ lparms.src # "EXT" => (LevelTrg <=> Beyond(rTrg.trgSmpl, lparms) /\ rTrg.armed)
<1>1. lparms.src \in {"CHA", "CHB", "EXT"}
  BY ParmIs DEF TypeOK, WrType, lparms
<1> QED
  BY <1>1 DEF LevelTrg

LEMMA RinTrgIs ==
  ASSUME TypeOK, NEW s \in Samples
  PROVE  LET r == rinTrg(s)
         IN  /\ r \in TrgType
             /\ r.trgSmpl = Channel(lparms, s) /\ r.smplDly = <<s, rTrg.smplDly[1]>>
             /\ r.extTrg = (s.ext = lparms.rising)
             /\ lparms.src = "EXT" => r.trg = rTrg.extTrg
             /\ lparms.src # "EXT" /\ LevelTrg => r.trg = (rWr.state # "FILL")
             /\ lparms.src # "EXT" /\ ~LevelTrg => r.trg = rTrg.trg
             /\ LevelTrg /\ rWr.state = "FILL" => r.armed = FALSE
             /\ ~(LevelTrg /\ rWr.state = "FILL") =>
                  r.armed = (rTrg.armed \/ (rTrg.trgSmpl < armLvl) = lparms.rising)
<1>1. /\ rTrg \in TrgType /\ rTrg.trg \in BOOLEAN /\ rTrg.extTrg \in BOOLEAN /\ rTrg.smplDly[1] \in Smpls
      /\ lparms \in Parms
  BY DEF TypeOK, TrgType, WrType, lparms
<1>2. s \in Smpls /\ Channel(lparms, s) \in Int
  BY <1>1, FiresIs DEF Smpls
<1> DEFINE v == IF lparms.src = "CHB" THEN s.CHB ELSE s.CHA
           a == IF LevelTrg /\ rWr.state = "FILL" THEN FALSE
                ELSE rTrg.armed \/ (rTrg.trgSmpl < armLvl) = lparms.rising
           e == (s.ext = lparms.rising)
           t == IF lparms.src = "EXT" THEN rTrg.extTrg
                ELSE IF LevelTrg THEN rWr.state # "FILL" ELSE rTrg.trg
           q == <<s, rTrg.smplDly[1]>>
           r == rinTrg(s)
<1>3. r = [rTrg EXCEPT !.trgSmpl = v, !.armed = a, !.extTrg = e, !.trg = t, !.smplDly = q]
  BY DEF rinTrg
<1>4. a \in BOOLEAN
  OBVIOUS
<1>5. e \in BOOLEAN
  OBVIOUS
<1>6. t \in BOOLEAN
  BY <1>1
<1>7. q \in Smpls \X Smpls /\ v = Channel(lparms, s)
  BY <1>1, <1>2 DEF Channel
<1>8. /\ LevelTrg /\ rWr.state = "FILL" => a = FALSE
      /\ ~(LevelTrg /\ rWr.state = "FILL") => a = (rTrg.armed \/ (rTrg.trgSmpl < armLvl) = lparms.rising)
  OBVIOUS
<1>9. /\ lparms.src = "EXT" => t = rTrg.extTrg
      /\ lparms.src # "EXT" /\ LevelTrg => t = (rWr.state # "FILL")
      /\ lparms.src # "EXT" /\ ~LevelTrg => t = rTrg.trg
  OBVIOUS
<1>10. e = (s.ext = lparms.rising)
  OBVIOUS
<1>11. q = <<s, rTrg.smplDly[1]>>
  OBVIOUS
<1> HIDE DEF v, a, e, t, q, r
<1>12. r \in TrgType
  BY <1>1, <1>2, <1>3, <1>4, <1>5, <1>6, <1>7 DEF TrgType
<1>13. r.trgSmpl = v /\ r.smplDly = q
  BY <1>1, <1>3 DEF TrgType
<1>14. r.armed = a
  BY <1>1, <1>3 DEF TrgType
<1>15. r.extTrg = e
  BY <1>1, <1>3 DEF TrgType
<1>16. r.trg = t
  BY <1>1, <1>3 DEF TrgType
<1> QED
  BY <1>7, <1>8, <1>9, <1>10, <1>11, <1>12, <1>13, <1>14, <1>15, <1>16 DEF r

LEMMA DisarmedIs ==
  ASSUME NEW r \in TrgType
  PROVE  LET d == Disarmed(r)
         IN  /\ d \in TrgType /\ d.trgSmpl = r.trgSmpl /\ d.smplDly = r.smplDly
             /\ d.armed = FALSE /\ d.trg = FALSE /\ d.extTrg = FALSE
<1> DEFINE d == Disarmed(r)
<1>1. PICK z \in BOOLEAN : z = FALSE
  OBVIOUS
<1>2. d = [r EXCEPT !.armed = z, !.trg = z, !.extTrg = z]
  BY <1>1 DEF Disarmed
<1> HIDE DEF d
<1>3. d \in TrgType
  BY <1>2 DEF TrgType
<1>4. d.trgSmpl = r.trgSmpl /\ d.smplDly = r.smplDly
  BY <1>2 DEF TrgType
<1>5. d.armed = z /\ d.trg = z /\ d.extTrg = z
  BY <1>2 DEF TrgType
<1> QED
  BY <1>1, <1>3, <1>4, <1>5 DEF d

LEMMA TickIs ==
  ASSUME TypeOK, Tick
  PROVE  /\ msTickCounter' \in 0 .. TickPeriod - 1 /\ msTimer' \in 0 .. AUTO_TIME_STOP
         /\ msTimerExpired' \in BOOLEAN
<1>1. /\ msTickCounter \in 0 .. TickPeriod - 1 /\ msTimer \in 0 .. AUTO_TIME_STOP
      /\ msTimerExpired \in BOOLEAN /\ lparms.autoTimeMs \in 0 .. AUTO_TIME_STOP
      /\ TickPeriod \in Nat \ {0} /\ AUTO_TIME_STOP \in Nat
  BY ParmIs, TriggerAssumption DEF TypeOK, WrType, lparms
<1>2. (msTimer - 1) % (AUTO_TIME_STOP + 1) \in 0 .. AUTO_TIME_STOP
  BY <1>1
<1>3. CASE rWr.state = "FILL"
  <2>1. msTimerExpired' = FALSE /\ msTimer' = lparms.autoTimeMs /\ msTickCounter' = 0
    BY <1>3 DEF Tick
  <2>2. 0 \in 0 .. TickPeriod - 1
    BY <1>1
  <2>3. FALSE \in BOOLEAN
    OBVIOUS
  <2>4. msTimer' \in 0 .. AUTO_TIME_STOP /\ msTickCounter' \in 0 .. TickPeriod - 1
    BY <1>1, <2>1, <2>2
  <2>5. msTimerExpired' \in BOOLEAN
    BY <2>1, <2>3
  <2> QED
    BY <2>4, <2>5
<1>4. CASE rWr.state # "FILL"
  <2>1. msTimerExpired' \in BOOLEAN
    BY <1>4 DEF Tick
  <2>2. msTimer' \in {(msTimer - 1) % (AUTO_TIME_STOP + 1), msTimer}
    BY <1>4 DEF Tick
  <2>3. msTickCounter' = IF msTickCounter = 0 THEN TickPeriod - 1 ELSE msTickCounter - 1
    BY <1>4 DEF Tick
  <2>4. msTimer' \in 0 .. AUTO_TIME_STOP
    BY <1>1, <1>2, <2>2
  <2>5. msTickCounter' \in 0 .. TickPeriod - 1
    BY <1>1, <2>3
  <2> QED
    BY <2>1, <2>4, <2>5
<1> QED
  BY <1>3, <1>4
-----------------------------------------------------------------------------
(* One sample is recorded.                                                 *)

LEMMA Typed ==
  ASSUME TypeOK
  PROVE  /\ lparms \in Parms /\ rWr \in WrType /\ rTrg \in TrgType
         /\ rWr.nsmpls \in 0 .. MemDepth /\ rWr.ovrA \in 0 .. MemDepth
         /\ wdat \in Smpls /\ rTrg.smplDly[1] \in Smpls /\ rTrg.trgSmpl \in Int
         /\ trg \in BOOLEAN /\ lstTrg \in BOOLEAN /\ rTrg.trg \in BOOLEAN
         /\ hist \in Seq(Smpls) /\ Len(hist) \in Nat /\ Len(hist) <= MemDepth + 1
         /\ MemDepth \in Nat \ {0}
         /\ lparms.nsamples \in 0 .. MemDepth - 1 /\ lparms.nprets \in 0 .. lparms.nsamples
<1>1. rWr \in WrType /\ rTrg \in TrgType /\ hist \in Seq(Smpls) /\ Len(hist) <= MemDepth + 1
  BY DEF TypeOK
<1>2. lparms \in Parms /\ rWr.nsmpls \in 0 .. MemDepth /\ rWr.ovrA \in 0 .. MemDepth
  BY <1>1 DEF WrType, lparms
<1>3. wdat \in Smpls /\ rTrg.smplDly[1] \in Smpls /\ rTrg.trgSmpl \in Int
  BY <1>1 DEF TrgType, wdat
<1>4. lstTrg \in BOOLEAN /\ rTrg.trg \in BOOLEAN
  BY <1>1 DEF TypeOK, TrgType
<1>5. trg \in BOOLEAN
  BY DEF trg
<1> QED
  BY <1>1, <1>2, <1>3, <1>4, <1>5, ParmIs

\* Where FILL cannot have left anything over, all samples are of one channel,
\* or there are enough of them.
LEMMA RefilledIs ==
  ASSUME NEW p \in Parms, Refilled(p)
  PROVE  /\ p.src = "EXT" => p.nprets >= 2
         /\ p.src # "EXT" => p.nprets >= 1 \/ (ZeroArms(p) /\ OneChannel)
  BY DEF Refilled, ZeroArms, OneChannel

\* What the recorder takes for a trigger is an edge.
LEMMA TriggerMeans ==
  ASSUME IInv, rWr.state = "RUN", trg, Refilled(lparms)
  PROVE  Fires(lparms, wdat) /\ Below(lparms, Ago(hist, 0))
<1>1. TypeOK /\ Counted /\ ExtPipe /\ LevelPipe /\ Recording
  BY DEF IInv, Recording
<1>2. CASE lparms.src = "EXT"
  <2>1. Len(hist) >= 3
    <3>1. lparms.nprets >= 2
      BY <1>1, <1>2, Typed, RefilledIs
    <3>2. rWr.nsmpls >= lparms.nprets /\ Len(hist) > rWr.nsmpls
      BY <1>1, Typed DEF Counted
    <3> QED
      BY <1>1, <3>1, <3>2, Typed
  <2>2. (rTrg.trg <=> Fires(lparms, wdat)) /\ (lstTrg <=> Fires(lparms, Ago(hist, 0)))
    BY <1>1, <1>2, <2>1, Typed DEF ExtPipe
  <2> QED
    BY <2>2 DEF trg, Below
<1>3. CASE lparms.src # "EXT"
  BY <1>1, <1>3 DEF LevelPipe
<1> QED
  BY <1>2, <1>3

LEMMA RecordEdge ==
  ASSUME IInv, NEW s \in Samples, NEW released \in BOOLEAN, Sampled(s, released), Recording
  PROVE  /\ rWr' \in WrType /\ lparms' = lparms /\ rWr'.state \in {"FILL", "RUN", "STOP1"}
         /\ rWr'.state = "FILL" => rWr.state = "FILL"
         /\ Grown(hist, hist', wdat)
         /\ rTrg' = rinTrg(s) /\ lstTrg' = rTrg.trg /\ armLvl' = ArmLevel(lparms)
         /\ Counted'
         /\ \/ FillEdge(wdat.dor)
            \/ RunEdge(trg, msTimerExpired, wdat.dor)
<1>1. TypeOK /\ Counted
  BY DEF IInv
<1>2. wdat.dor \in BOOLEAN /\ trg \in BOOLEAN /\ msTimerExpired \in BOOLEAN /\ wdat \in Smpls
  BY <1>1, Typed, SmplIs DEF TypeOK
<1>3. Grown(hist, hist', wdat)
  BY <1>1, <1>2, RecordedGrows, Typed DEF Sampled
<1>4. /\ Len(hist') = IF Len(hist) > MemDepth THEN Len(hist) ELSE Len(hist) + 1
      /\ Len(hist) \in Nat /\ Len(hist) <= MemDepth + 1 /\ MemDepth \in Nat \ {0}
      /\ rWr.nsmpls \in 0 .. MemDepth
      /\ lparms.nsamples \in 0 .. MemDepth - 1 /\ lparms.nprets \in 0 .. lparms.nsamples
  BY <1>1, <1>3, Typed DEF Grown
<1>5. rTrg' = rinTrg(s) /\ lstTrg' = rTrg.trg /\ armLvl' = ArmLevel(lparms)
  BY DEF Sampled, Recording
<1>6. FillEdge(wdat.dor) \/ RunEdge(trg, msTimerExpired, wdat.dor)
  BY DEF Sampled, Recording, DecmEdge, StopEdge, HoldEdge
<1>7. CASE FillEdge(wdat.dor)
  <2>1. /\ rWr.state = "FILL" /\ rWr' \in WrType
        /\ rWr'.parms = lparms /\ ~rWr'.wasTrg
        /\ rWr.nsmpls >= lparms.nprets => rWr'.state = "RUN" /\ rWr'.nsmpls = lparms.nprets
        /\ rWr.nsmpls < lparms.nprets => rWr'.state = "FILL" /\ rWr'.nsmpls = rWr.nsmpls + 1
    BY <1>1, <1>2, <1>7, FillEdgeIs
  <2>2. rWr.nsmpls <= lparms.nprets /\ Len(hist) = rWr.nsmpls
    BY <1>1, <2>1 DEF Counted
  <2>3. Counted'
    BY <1>4, <2>1, <2>2 DEF Counted, Stopped, lparms
  <2>4. rWr'.state \in {"FILL", "RUN"}
    BY <1>4, <2>1
  <2> QED
    BY <1>3, <1>5, <1>6, <2>1, <2>3, <2>4 DEF lparms
<1>8. CASE RunEdge(trg, msTimerExpired, wdat.dor)
  <2> DEFINE was == rWr.wasTrg \/ trg \/ msTimerExpired
  <2>1. /\ rWr.state = "RUN" /\ rWr' \in WrType /\ rWr'.parms = lparms
        /\ was => /\ rWr'.wasTrg /\ rWr'.nsmpls = rWr.nsmpls + 1
                  /\ rWr'.state = IF rWr.nsmpls = lparms.nsamples THEN "STOP1" ELSE "RUN"
        /\ ~was => ~rWr'.wasTrg /\ rWr'.nsmpls = rWr.nsmpls /\ rWr'.state = "RUN"
    BY <1>1, <1>2, <1>8, RunEdgeIs
  <2>2. /\ Len(hist) > rWr.nsmpls
        /\ IF rWr.wasTrg THEN lparms.nprets < rWr.nsmpls /\ rWr.nsmpls <= lparms.nsamples
                         ELSE rWr.nsmpls = lparms.nprets
    BY <1>1, <2>1 DEF Counted
  <2>3. ~was => ~rWr.wasTrg
    OBVIOUS
  <2> HIDE DEF was
  <2>4. ASSUME was PROVE Counted'
    BY <1>4, <2>1, <2>2, <2>4 DEF Counted, Stopped, lparms
  <2>5. ASSUME ~was PROVE Counted'
    BY <1>4, <2>1, <2>2, <2>3, <2>5 DEF Counted, Stopped, lparms
  <2>6. rWr'.state \in {"RUN", "STOP1"}
    BY <2>1
  <2> QED
    BY <1>3, <1>5, <1>6, <2>1, <2>4, <2>5, <2>6 DEF lparms
<1> QED
  BY <1>6, <1>7, <1>8

LEMMA RecordOver ==
  ASSUME IInv, NEW s \in Samples, NEW released \in BOOLEAN, Sampled(s, released), Recording
  PROVE  OverCounted'
<1>1. TypeOK /\ Counted /\ OverIs(hist, lparms.nsamples, rWr.ovrA)
  BY DEF IInv, OverCounted
<1>2. wdat.dor \in BOOLEAN /\ trg \in BOOLEAN /\ msTimerExpired \in BOOLEAN /\ wdat \in Smpls
  BY <1>1, Typed, SmplIs DEF TypeOK
<1>3. Grown(hist, hist', wdat) /\ lparms' = lparms
  BY RecordEdge
<1>4. rWr'.ovrA = ovrNext(wdat.dor)
  BY <1>1, <1>2, RecordEdge, FillEdgeIs, RunEdgeIs
<1>5. /\ wdat.dor => rWr'.ovrA = lparms.nsamples
      /\ ~wdat.dor /\ rWr.ovrA # 0 => rWr'.ovrA = rWr.ovrA - 1
      /\ ~wdat.dor /\ rWr.ovrA = 0 => rWr'.ovrA = 0
  BY <1>1, <1>2, <1>4, OvrNextIs
<1>6. /\ wdat.dor => OverIs(hist', lparms.nsamples, lparms.nsamples)
      /\ ~wdat.dor /\ rWr.ovrA # 0 => OverIs(hist', lparms.nsamples, rWr.ovrA - 1)
      /\ ~wdat.dor /\ rWr.ovrA = 0 => OverIs(hist', lparms.nsamples, 0)
  BY <1>1, <1>2, <1>3, OverGrows, Typed
<1>7. OverIs(hist', lparms.nsamples, rWr'.ovrA)
  BY <1>5, <1>6
<1> QED
  BY <1>3, <1>7 DEF OverCounted

LEMMA RecordPipe ==
  ASSUME IInv, NEW s \in Samples, NEW released \in BOOLEAN, Sampled(s, released), Recording
  PROVE  SampleKept' /\ ExtPipe' /\ LevelPipe'
<1> DEFINE p == lparms
           v == rTrg.trgSmpl
           older == rTrg.smplDly[1]
<1>1. TypeOK /\ Counted /\ SampleKept /\ ExtPipe /\ LevelPipe
  BY DEF IInv
<1>2. /\ p \in Parms /\ wdat \in Smpls /\ older \in Smpls /\ v \in Int /\ s \in Smpls /\ armLvl \in Int
      /\ Len(hist) \in Nat /\ Len(hist) <= MemDepth + 1 /\ MemDepth \in Nat \ {0}
  BY <1>1, Typed DEF TypeOK, Smpls
<1>3. /\ lparms' = p /\ rWr'.state \in {"FILL", "RUN", "STOP1"} /\ Grown(hist, hist', wdat)
      /\ rWr'.state = "FILL" => rWr.state = "FILL"
      /\ rTrg' = rinTrg(s) /\ lstTrg' = rTrg.trg /\ armLvl' = ArmLevel(p)
  BY RecordEdge
<1>4. /\ rTrg'.trgSmpl = Channel(p, s) /\ rTrg'.smplDly = <<s, older>>
      /\ rTrg'.extTrg = (s.ext = p.rising)
      /\ p.src = "EXT" => rTrg'.trg = rTrg.extTrg
      /\ p.src # "EXT" /\ LevelTrg => rTrg'.trg = (rWr.state # "FILL")
      /\ p.src # "EXT" /\ ~LevelTrg => rTrg'.trg = rTrg.trg
      /\ LevelTrg /\ rWr.state = "FILL" => rTrg'.armed = FALSE
      /\ ~(LevelTrg /\ rWr.state = "FILL") =>
           rTrg'.armed = (rTrg.armed \/ (v < armLvl) = p.rising)
  BY <1>1, <1>3, RinTrgIs
<1>5. rTrg'.smplDly[1] = s /\ wdat' = older
  BY <1>4 DEF wdat
<1>6. /\ Len(hist') = IF Len(hist) > MemDepth THEN Len(hist) ELSE Len(hist) + 1
      /\ Ago(hist', 0) = wdat
  BY <1>3 DEF Grown
<1>7. /\ Len(hist') >= 1
      /\ Len(hist') >= 2 => Len(hist) >= 1
      /\ Len(hist') >= 3 => Len(hist) >= 2
  BY <1>2, <1>6
<1>8. (OneChannel \/ Len(hist) >= 1) => v = Channel(p, older)
  BY <1>1 DEF SampleKept
<1> HIDE DEF p, v, older
<1>9. SampleKept'
  BY <1>3, <1>4, <1>5 DEF SampleKept
<1>10. ASSUME p.src = "EXT"
       PROVE  /\ rTrg'.extTrg <=> Fires(p, s)
              /\ Len(hist') >= 2 => (rTrg'.trg <=> Fires(p, older))
              /\ Len(hist') >= 3 => (lstTrg' <=> Fires(p, wdat))
  <2>1. Fires(p, s) <=> s.ext = p.rising
    BY <1>2, <1>10, FiresIs
  <2>2. rTrg'.extTrg <=> Fires(p, s)
    BY <1>4, <2>1
  <2>3. /\ Len(hist) >= 1 => (rTrg.extTrg <=> Fires(p, older))
        /\ Len(hist) >= 2 => (rTrg.trg <=> Fires(p, wdat))
    BY <1>1, <1>10 DEF ExtPipe, p, older
  <2>4. Len(hist') >= 2 => (rTrg'.trg <=> Fires(p, older))
    BY <1>4, <1>7, <1>10, <2>3
  <2>5. Len(hist') >= 3 => (lstTrg' <=> Fires(p, wdat))
    BY <1>3, <1>7, <2>3
  <2> QED
    BY <2>2, <2>4, <2>5
<1>11. ExtPipe'
  BY <1>3, <1>5, <1>6, <1>10 DEF ExtPipe
<1>12. ASSUME p.src # "EXT"
       PROVE  /\ rWr'.state = "FILL" => ~rTrg'.trg
              /\ rTrg'.armed /\ ~rTrg'.trg /\ (Len(hist') >= 2 \/ (ZeroArms(p) /\ OneChannel)) =>
                   Below(p, older)
              /\ rTrg'.trg /\ ~lstTrg' /\ Refilled(p) /\ Recording' => Fires(p, older) /\ Below(p, wdat)
  <2>1. LevelTrg <=> Beyond(v, p) /\ rTrg.armed
    BY <1>1, <1>12, LevelTrgIs DEF p, v
  <2>2. /\ armLvl = ArmLevel(p) \/ (armLvl = 0 /\ Len(hist) = 0)
        /\ rWr.state = "FILL" => ~rTrg.trg
        /\ rTrg.armed /\ ~rTrg.trg /\ (Len(hist) >= 2 \/ (ZeroArms(p) /\ OneChannel)) => Below(p, wdat)
    BY <1>1, <1>12 DEF LevelPipe, p
  <2>3. rWr'.state = "FILL" => ~rTrg'.trg
    <3>1. CASE LevelTrg
      BY <1>3, <1>4, <1>12, <3>1
    <3>2. CASE ~LevelTrg
      BY <1>3, <1>4, <1>12, <2>2, <3>2
    <3> QED
      BY <3>1, <3>2
  <2>4. (OneChannel \/ Len(hist) >= 1) => (Fires(p, older) <=> Beyond(v, p))
    BY <1>2, <1>8, <1>12, FiresIs
  <2>5. ASSUME rTrg'.armed, ~rTrg'.trg, Len(hist') >= 2 \/ (ZeroArms(p) /\ OneChannel)
        PROVE  Below(p, older)
    <3>1. ~LevelTrg
      <4>1. CASE LevelTrg /\ rWr.state = "FILL"
        BY <1>4, <2>5, <4>1
      <4>2. CASE LevelTrg /\ rWr.state # "FILL"
        BY <1>4, <1>12, <2>5, <4>2
      <4> QED
        BY <4>1, <4>2
    <3>2. rTrg.armed \/ (v < armLvl) = p.rising
      BY <1>4, <2>5, <3>1
    <3>3. CASE rTrg.armed
      BY <1>7, <2>1, <2>4, <2>5, <3>1, <3>3 DEF Below
    <3>4. CASE (v < armLvl) = p.rising
      <4>1. armLvl = ArmLevel(p) \/ (armLvl = 0 /\ ZeroArms(p))
        BY <1>2, <1>7, <2>2, <2>5
      <4>2. Overflows(p) \/ ~Beyond(v, p)
        BY <1>2, <1>12, <3>4, <4>1, ArmsBefore
      <4> QED
        BY <1>7, <2>4, <2>5, <4>2 DEF Below
    <3> QED
      BY <3>2, <3>3, <3>4
  <2>6. ASSUME rTrg'.trg, ~lstTrg', Refilled(p), Recording'
        PROVE  Fires(p, older) /\ Below(p, wdat)
    <3>1. ~rTrg.trg
      BY <1>3, <2>6
    <3>2. LevelTrg /\ rWr.state # "FILL"
      <4>1. CASE ~LevelTrg
        BY <1>4, <1>12, <2>6, <3>1, <4>1
      <4>2. CASE LevelTrg
        BY <1>4, <1>12, <2>6, <4>2
      <4> QED
        BY <4>1, <4>2
    <3>3. Beyond(v, p) /\ rTrg.armed
      BY <2>1, <3>2
    <3>4. rWr.state = "RUN"
      BY <3>2 DEF Recording
    <3>5. Len(hist) >= 1 /\ (Len(hist) >= 2 \/ (ZeroArms(p) /\ OneChannel))
      <4>1. Len(hist) > rWr.nsmpls /\ rWr.nsmpls >= p.nprets
        BY <1>1, <3>4, Typed DEF Counted, p
      <4>2. p.nprets >= 1 \/ (ZeroArms(p) /\ OneChannel)
        BY <1>2, <1>12, <2>6, RefilledIs
      <4>3. p.nprets \in Nat /\ rWr.nsmpls \in Nat
        BY <1>1, Typed DEF p
      <4> QED
        BY <1>2, <4>1, <4>2, <4>3
    <3> QED
      BY <2>2, <2>4, <3>1, <3>3, <3>5
  <2> QED
    BY <2>3, <2>5, <2>6
<1>13. LevelPipe'
  <2> SUFFICES ASSUME Recording', lparms'.src # "EXT"
               PROVE  /\ armLvl' = ArmLevel(lparms')
                      /\ Len(hist') # 0
                      /\ rWr'.state = "FILL" => ~rTrg'.trg
                      /\ rTrg'.armed /\ ~rTrg'.trg
                           /\ (Len(hist') >= 2 \/ (ZeroArms(lparms') /\ OneChannel)) =>
                           Below(lparms', wdat')
                      /\ trg' /\ Refilled(lparms') =>
                           Fires(lparms', wdat') /\ Below(lparms', Ago(hist', 0))
    BY DEF LevelPipe
  <2>1. p.src # "EXT"
    BY <1>3
  <2>2. trg' <=> ~lstTrg' /\ rTrg'.trg
    BY DEF trg
  <2> QED
    BY <1>3, <1>5, <1>6, <1>7, <1>12, <2>1, <2>2
<1> QED
  BY <1>9, <1>11, <1>13

LEMMA RecordKeepsEdge ==
  ASSUME IInv, NEW s \in Samples, NEW released \in BOOLEAN, Sampled(s, released), Recording
  PROVE  EdgeKept'
<1>1. TypeOK /\ Counted /\ EdgeKept
  BY DEF IInv
<1>2. /\ lparms' = lparms /\ Grown(hist, hist', wdat) /\ Counted'
      /\ rWr'.state \in {"FILL", "RUN", "STOP1"}
      /\ FillEdge(wdat.dor) \/ RunEdge(trg, msTimerExpired, wdat.dor)
  BY RecordEdge
<1>3. /\ hist \in Seq(Smpls) /\ Len(hist) \in Nat /\ MemDepth \in Nat \ {0} /\ lparms \in Parms
      /\ lparms.nsamples \in 0 .. MemDepth - 1 /\ lparms.nprets \in 0 .. lparms.nsamples
      /\ rWr.nsmpls \in 0 .. MemDepth /\ wdat \in Smpls /\ trg \in BOOLEAN
      /\ wdat.dor \in BOOLEAN /\ msTimerExpired \in BOOLEAN
  BY <1>1, Typed, SmplIs DEF TypeOK
<1>4. /\ Ago(hist', 0) = wdat
      /\ Len(hist') \in Nat
      /\ \A k \in 1 .. Len(hist') - 1 : Ago(hist', k) = Ago(hist, k - 1)
  BY <1>2 DEF Grown
<1>5. CASE FillEdge(wdat.dor)
  <2>1. ~rWr'.wasTrg /\ rWr'.state \in {"FILL", "RUN"}
    <3>1. /\ ~rWr'.wasTrg
          /\ rWr.nsmpls >= lparms.nprets => rWr'.state = "RUN"
          /\ rWr.nsmpls < lparms.nprets => rWr'.state = "FILL"
      BY <1>1, <1>3, <1>5, FillEdgeIs
    <3> QED
      BY <1>3, <3>1
  <2> QED
    BY <2>1 DEF EdgeKept, Stopped
<1>6. CASE RunEdge(trg, msTimerExpired, wdat.dor)
  <2>1. /\ rWr.state = "RUN"
        /\ rWr.wasTrg \/ trg \/ msTimerExpired =>
             /\ rWr'.nsmpls = rWr.nsmpls + 1
             /\ ~rWr.wasTrg => rWr'.autTrg = msTimerExpired
             /\ rWr.wasTrg => rWr'.autTrg = rWr.autTrg
        /\ ~(rWr.wasTrg \/ trg \/ msTimerExpired) => ~rWr'.wasTrg /\ rWr'.state = "RUN"
    BY <1>1, <1>3, <1>6, RunEdgeIs
  <2> SUFFICES ASSUME (Stopped \/ (rWr.state = "RUN" /\ rWr.wasTrg))', ~rWr'.autTrg, Refilled(lparms)
               PROVE  EdgeIs(lparms, hist', rWr'.nsmpls - lparms.nprets - 1)
    BY <1>2 DEF EdgeKept
  <2>2. rWr.wasTrg \/ trg \/ msTimerExpired
    BY <2>1 DEF Stopped
  <2>3. rWr'.nsmpls = rWr.nsmpls + 1 /\ Len(hist') > rWr.nsmpls + 1
    <3>1. rWr'.state \in {"RUN", "STOP1", "STOP2"}
      BY DEF Stopped
    <3>2. Len(hist') > rWr'.nsmpls
      BY <1>2, <3>1 DEF Counted, Stopped
    <3> QED
      BY <2>1, <2>2, <3>2
  <2>4. IF rWr.wasTrg THEN lparms.nprets < rWr.nsmpls ELSE rWr.nsmpls = lparms.nprets
    BY <1>1, <2>1 DEF Counted
  <2>5. CASE rWr.wasTrg
    <3> DEFINE k == rWr.nsmpls - lparms.nprets - 1
    <3>1. ~rWr.autTrg
      BY <2>1, <2>5
    <3>2. EdgeIs(lparms, hist, k)
      BY <1>1, <2>1, <2>5, <3>1 DEF EdgeKept
    <3> DEFINE n == rWr.nsmpls
               q == lparms.nprets
               l == Len(hist')
    <3>5. n \in Nat /\ q \in Nat /\ l \in Nat /\ q < n /\ l > n + 1 /\ rWr'.nsmpls = n + 1 /\ k = n - q - 1
      <4>1. n \in Nat /\ q \in Nat /\ l \in Nat
        BY <1>3, <1>4
      <4>2. q < n
        BY <2>4, <2>5
      <4> QED
        BY <2>3, <4>1, <4>2
    <3> HIDE DEF k, n, q, l
    <3>6. k \in Nat /\ k + 2 < l /\ rWr'.nsmpls - q - 1 = k + 1
      BY <3>5
    <3>3. k \in Nat /\ k + 2 < Len(hist') /\ rWr'.nsmpls - lparms.nprets - 1 = k + 1
      BY <3>6 DEF l, q
    <3> HIDE DEF k
    <3>4. EdgeIs(lparms, hist', k + 1)
      BY <1>2, <1>3, <3>2, <3>3, EdgeGrows
    <3> QED
      BY <3>3, <3>4
  <2>6. CASE ~rWr.wasTrg
    <3>1. trg
      BY <2>1, <2>2, <2>6
    <3>2. Fires(lparms, wdat) /\ Below(lparms, Ago(hist, 0))
      BY <2>1, <3>1, TriggerMeans
    <3>3. rWr'.nsmpls - lparms.nprets - 1 = 0 /\ 1 < Len(hist')
      BY <1>3, <1>4, <2>3, <2>4, <2>6
    <3>4. Ago(hist', 1) = Ago(hist, 0)
      BY <1>4, <3>3
    <3>5. EdgeIs(lparms, hist', 0)
      BY <1>4, <3>2, <3>3, <3>4 DEF EdgeIs
    <3> QED
      BY <3>3, <3>5
  <2> QED
    BY <2>5, <2>6
<1> QED
  BY <1>2, <1>5, <1>6
-----------------------------------------------------------------------------
(* Every step.                                                             *)

\* A recording begins: nothing is left of the one before.
LEMMA Restarts ==
  ASSUME lparms' \in Parms, rWr'.state = "FILL", rWr'.nsmpls = 0, ~rWr'.wasTrg, rWr'.ovrA = 0,
         hist' = <<>>, ~rTrg'.armed, ~rTrg'.trg, armLvl' = 0 \/ armLvl' = ArmLevel(lparms')
  PROVE  Counted' /\ OverCounted' /\ ExtPipe' /\ LevelPipe' /\ EdgeKept'
<1>1. lparms'.nprets \in Nat /\ lparms'.nsamples \in Nat
  BY ParmIs
<1>2. Len(hist') = 0
  OBVIOUS
<1>3. Counted'
  BY <1>1, <1>2 DEF Counted, Stopped
<1>4. OverCounted'
  BY <1>1, OverEmpty DEF OverCounted
<1>5. ExtPipe'
  BY <1>2 DEF ExtPipe
<1>6. ~trg'
  BY DEF trg
<1>7. LevelPipe'
  BY <1>2, <1>6 DEF LevelPipe
<1>8. EdgeKept'
  BY DEF EdgeKept, Stopped
<1> QED
  BY <1>3, <1>4, <1>5, <1>7, <1>8

\* Nothing is claimed about the pipeline while nothing is recorded.
LEMMA Quiet ==
  ASSUME ~Recording'
  PROVE  ExtPipe' /\ LevelPipe'
  BY DEF ExtPipe, LevelPipe

LEMMA NewParmsStep ==
  ASSUME IInv, NEW p \in Parms, NewParms(p)
  PROVE  IInv'
<1>1. TypeOK /\ SampleKept
  BY DEF IInv
<1>2. /\ rWr' \in WrType /\ lparms' = p /\ ~Stopped
      /\ rWr.state = "HOLD" => rWr'.state = "HOLD"
      /\ rWr.state # "HOLD" =>
           rWr'.state = "FILL" /\ rWr'.nsmpls = 0 /\ ~rWr'.wasTrg /\ rWr'.ovrA = 0
  BY <1>1, ParmEdgeIs DEF NewParms, lparms
<1>3. /\ rTrg' \in TrgType /\ rTrg'.trgSmpl = rTrg.trgSmpl /\ rTrg'.smplDly = rTrg.smplDly
      /\ ~rTrg'.armed /\ ~rTrg'.trg
  BY <1>1, DisarmedIs DEF NewParms, TypeOK
<1>4. /\ rWr.state = "HOLD" => UNCHANGED <<lstTrg, armLvl, hist>>
      /\ rWr.state # "HOLD" => lstTrg' = FALSE /\ armLvl' = 0 /\ hist' = <<>>
  BY DEF NewParms
<1>5. TypeOK'
  <2>1. /\ msTickCounter' \in 0 .. TickPeriod - 1 /\ msTimer' \in 0 .. AUTO_TIME_STOP
        /\ msTimerExpired' \in BOOLEAN
    BY <1>1, TickIs DEF NewParms
  <2>2. armLvl' \in Int
    BY <1>1, <1>4 DEF TypeOK
  <2>4. hist' \in Seq(Smpls) /\ Len(hist') <= MemDepth + 1
    <3>1. CASE rWr.state = "HOLD"
      BY <1>1, <1>4, <3>1 DEF TypeOK
    <3>2. CASE rWr.state # "HOLD"
      <4>1. hist' = <<>>
        BY <1>4, <3>2
      <4>2. <<>> \in Seq(Smpls) /\ Len(<<>>) = 0
        OBVIOUS
      <4>3. 0 <= MemDepth + 1
        BY MemoryAssumption
      <4> QED
        BY <4>1, <4>2, <4>3
    <3> QED
      BY <3>1, <3>2
  <2>3. lstTrg' \in BOOLEAN
    BY <1>1, <1>4 DEF TypeOK
  <2> QED
    BY <1>2, <1>3, <2>1, <2>2, <2>3, <2>4 DEF TypeOK
<1>6. SampleKept'
  <2>1. Recording' => Len(hist') = 0
    BY <1>2, <1>4 DEF Recording
  <2>2. ASSUME OneChannel PROVE rTrg'.trgSmpl = Channel(p, rTrg'.smplDly[1])
    <3>1. lparms \in Parms
      BY <1>1, Typed
    <3>2. rTrg.trgSmpl = Channel(lparms, rTrg.smplDly[1])
      BY <1>1, <2>2 DEF SampleKept
    <3>3. lparms.src = "CHB" <=> p.src = "CHB"
      BY <2>2, <3>1 DEF OneChannel
    <3> QED
      BY <1>3, <3>2, <3>3 DEF Channel
  <2> QED
    BY <1>2, <2>1, <2>2 DEF SampleKept
<1>7. CASE rWr.state # "HOLD"
  <2>1. Counted' /\ OverCounted' /\ ExtPipe' /\ LevelPipe' /\ EdgeKept'
    BY <1>2, <1>3, <1>4, <1>7, Restarts
  <2> QED
    BY <1>5, <1>6, <2>1 DEF IInv
<1>8. CASE rWr.state = "HOLD"
  <2>1. rWr'.state = "HOLD"
    BY <1>2, <1>8
  <2>2. ~Recording' /\ ~Stopped' /\ Counted'
    BY <2>1 DEF Recording, Stopped, Counted
  <2>3. OverCounted' /\ EdgeKept'
    BY <2>1, <2>2 DEF OverCounted, EdgeKept
  <2> QED
    BY <1>5, <1>6, <2>2, <2>3, Quiet DEF IInv
<1> QED
  BY <1>7, <1>8

LEMMA SampledTypes ==
  ASSUME IInv, NEW s \in Samples, NEW released \in BOOLEAN, Sampled(s, released)
  PROVE  TypeOK' /\ lparms' = lparms
<1>1. TypeOK /\ Counted
  BY DEF IInv
<1>2. /\ wdat \in Smpls /\ trg \in BOOLEAN /\ msTimerExpired \in BOOLEAN /\ wdat.dor \in BOOLEAN
      /\ lparms \in Parms /\ hist \in Seq(Smpls) /\ Len(hist) <= MemDepth + 1 /\ MemDepth \in Nat \ {0}
  BY <1>1, Typed, SmplIs DEF TypeOK
<1>3. rWr' \in WrType /\ lparms' = lparms
  <2>1. CASE Recording
    BY <2>1, RecordEdge
  <2>2. CASE StopEdge
    BY <1>1, <2>2, StopEdgeIs DEF lparms
  <2>3. CASE HoldEdge(IF released THEN rWr.tgl ELSE ~rWr.tgl)
    BY <1>1, <2>3, HoldEdgeIs DEF lparms
  <2> QED
    BY <2>1, <2>2, <2>3 DEF Sampled, DecmEdge, FillEdge, RunEdge, Recording
<1>4. rTrg' \in TrgType
  <2>1. rinTrg(s) \in TrgType
    BY <1>1, RinTrgIs
  <2> QED
    BY <2>1, DisarmedIs DEF Sampled
<1>5. armLvl' \in Int
  BY <1>2, ArmLevelIs DEF Sampled
<1>6. lstTrg' \in BOOLEAN
  BY <1>1, Typed DEF Sampled
<1>7. hist' \in Seq(Smpls) /\ Len(hist') <= MemDepth + 1
  <2>1. CASE Recording
    BY <1>2, <2>1, RecordEdge DEF Grown
  <2>2. CASE ~Recording
    BY <1>2, <2>2 DEF Sampled
  <2> QED
    BY <2>1, <2>2
<1>8. /\ msTickCounter' \in 0 .. TickPeriod - 1 /\ msTimer' \in 0 .. AUTO_TIME_STOP
      /\ msTimerExpired' \in BOOLEAN
  BY <1>1, TickIs DEF Sampled
<1> QED
  BY <1>3, <1>4, <1>5, <1>6, <1>7, <1>8 DEF TypeOK

LEMMA SampledStep ==
  ASSUME IInv, NEW s \in Samples, NEW released \in BOOLEAN, Sampled(s, released)
  PROVE  IInv'
<1>1. TypeOK /\ Counted /\ OverCounted /\ EdgeKept
  BY DEF IInv
<1>2. TypeOK' /\ lparms' = lparms /\ lparms \in Parms
  BY <1>1, SampledTypes, Typed
<1>3. CASE Recording
  BY <1>2, <1>3, RecordEdge, RecordOver, RecordPipe, RecordKeepsEdge DEF IInv
<1>4. ASSUME ~Recording
      PROVE  /\ SampleKept' /\ armLvl' = ArmLevel(lparms)
             /\ rWr.state = "HOLD" => ~rTrg'.armed /\ ~rTrg'.trg
  <2> DEFINE r == rinTrg(s)
  <2>1. r \in TrgType /\ r.trgSmpl = Channel(lparms, s) /\ r.smplDly = <<s, rTrg.smplDly[1]>>
    BY <1>1, RinTrgIs
  <2>2. rTrg' = IF rWr.state = "HOLD" THEN Disarmed(r) ELSE r
    BY DEF Sampled
  <2> HIDE DEF r
  <2>3. rTrg'.trgSmpl = Channel(lparms, s) /\ rTrg'.smplDly[1] = s
    <3>1. r.smplDly[1] = s
      BY <2>1
    <3>2. CASE rWr.state = "HOLD"
      <4>1. Disarmed(r).trgSmpl = r.trgSmpl /\ Disarmed(r).smplDly = r.smplDly
        BY <2>1, DisarmedIs
      <4> QED
        BY <2>1, <2>2, <3>1, <3>2, <4>1
    <3>3. CASE rWr.state # "HOLD"
      BY <2>1, <2>2, <3>1, <3>3
    <3> QED
      BY <3>2, <3>3
  <2>4. SampleKept'
    BY <1>2, <2>3 DEF SampleKept
  <2>5. rWr.state = "HOLD" => ~rTrg'.armed /\ ~rTrg'.trg
    BY <2>1, <2>2, DisarmedIs
  <2> QED
    BY <2>4, <2>5 DEF Sampled
<1>5. CASE StopEdge
  <2>1. /\ rWr'.ovrA = rWr.ovrA /\ rWr'.nsmpls = rWr.nsmpls /\ rWr'.autTrg = rWr.autTrg
        /\ rWr.state \in {"STOP1", "STOP2"} /\ rWr'.state \in {"STOP2", "HOLD"}
    BY <1>1, <1>5, StopEdgeIs
  <2>2. ~Recording /\ ~Recording' /\ Stopped
    BY <2>1 DEF Recording, Stopped
  <2>3. hist' = hist
    BY <2>1, <2>2 DEF Sampled
  <2>4. Counted'
    BY <1>1, <1>2, <2>1, <2>2, <2>3 DEF Counted, Stopped
  <2>5. OverCounted'
    BY <1>1, <1>2, <2>1, <2>2, <2>3 DEF OverCounted
  <2>6. EdgeKept'
    BY <1>1, <1>2, <2>1, <2>2, <2>3 DEF EdgeKept
  <2> QED
    BY <1>2, <1>4, <2>2, <2>4, <2>5, <2>6, Quiet DEF IInv
<1>6. CASE HoldEdge(IF released THEN rWr.tgl ELSE ~rWr.tgl)
  <2>1. /\ rWr.state = "HOLD" /\ rWr'.state \in {"HOLD", "FILL"}
        /\ rWr'.state = "FILL" => rWr'.nsmpls = 0 /\ ~rWr'.wasTrg /\ rWr'.ovrA = 0
    BY <1>1, <1>6, HoldEdgeIs
  <2>2. ~Recording
    BY <2>1 DEF Recording
  <2>3. CASE rWr'.state = "FILL"
    <3>1. hist' = <<>>
      BY <2>2, <2>3 DEF Sampled
    <3>2. Counted' /\ OverCounted' /\ ExtPipe' /\ LevelPipe' /\ EdgeKept'
      BY <1>2, <1>4, <2>1, <2>2, <2>3, <3>1, Restarts
    <3> QED
      BY <1>2, <1>4, <2>2, <3>2 DEF IInv
  <2>4. CASE rWr'.state = "HOLD"
    <3>1. ~Recording' /\ ~Stopped' /\ Counted'
      BY <2>4 DEF Recording, Stopped, Counted
    <3>2. OverCounted' /\ EdgeKept'
      BY <2>4, <3>1 DEF OverCounted, EdgeKept
    <3> QED
      BY <1>2, <1>4, <2>2, <3>1, <3>2, Quiet DEF IInv
  <2> QED
    BY <2>1, <2>3, <2>4
<1> QED
  BY <1>3, <1>5, <1>6 DEF Sampled, DecmEdge, FillEdge, RunEdge, Recording

LEMMA IdleStep ==
  ASSUME IInv, Idle
  PROVE  IInv'
<1>1. TypeOK
  BY DEF IInv
<1>2. UNCHANGED <<rWr, lstTrg, armLvl, hist>> /\ lparms' = lparms
  BY DEF Idle, lparms
<1>3. rTrg' = IF rWr.state = "HOLD" THEN Disarmed(rTrg) ELSE rTrg
  BY DEF Idle
<1>4. rTrg' \in TrgType /\ rTrg'.trgSmpl = rTrg.trgSmpl /\ rTrg'.smplDly = rTrg.smplDly
  BY <1>1, <1>3, DisarmedIs DEF TypeOK
<1>5. TypeOK'
  <2>1. /\ msTickCounter' \in 0 .. TickPeriod - 1 /\ msTimer' \in 0 .. AUTO_TIME_STOP
        /\ msTimerExpired' \in BOOLEAN
    BY <1>1, TickIs DEF Idle
  <2> QED
    BY <1>1, <1>2, <1>4, <2>1 DEF TypeOK
<1>6. Counted' /\ OverCounted' /\ EdgeKept'
  BY <1>2 DEF IInv, Counted, OverCounted, EdgeKept, Stopped, Recording
<1>7. SampleKept'
  BY <1>2, <1>4 DEF IInv, SampleKept, Recording
<1>8. CASE rWr.state = "HOLD"
  <2>1. ~Recording'
    BY <1>2, <1>8 DEF Recording
  <2> QED
    BY <1>5, <1>6, <1>7, <2>1, Quiet DEF IInv
<1>9. CASE rWr.state # "HOLD"
  <2>1. rTrg' = rTrg
    BY <1>3, <1>9
  <2>2. ExtPipe' /\ LevelPipe'
    BY <1>2, <2>1 DEF IInv, ExtPipe, LevelPipe, Recording, wdat, trg
  <2> QED
    BY <1>5, <1>6, <1>7, <2>2 DEF IInv
<1> QED
  BY <1>8, <1>9

LEMMA InitIInv == TrgInit => IInv
<1> SUFFICES ASSUME TrgInit PROVE IInv
  OBVIOUS
<1>1. PICK p \in Parms : rWr = WR_REG_INIT(p)
  BY DEF TrgInit
<1>2. rWr = [state |-> "INIT", wasTrg |-> FALSE, autTrg |-> FALSE, nsmpls |-> 0, ovrA |-> 0,
             tgl |-> FALSE, parms |-> p]
  BY <1>1 DEF WR_REG_INIT
<1>3. rWr \in WrType
  BY <1>2, MemoryAssumption DEF WrType, WrStates
<1>4. rWr.state = "INIT" /\ rWr.ovrA = 0 /\ lparms = p
  BY <1>2 DEF lparms
<1>5. SMPL_INIT \in Smpls /\ SMPL_INIT.CHA = 0 /\ SMPL_INIT.CHB = 0
  BY DEF Smpls, SMPL_INIT
<1>6. /\ rTrg \in TrgType /\ rTrg.trgSmpl = 0 /\ rTrg.smplDly[1] = SMPL_INIT
  <2>1. PICK z \in BOOLEAN : z = FALSE
    OBVIOUS
  <2>2. rTrg = [trg |-> z, extTrg |-> z, armed |-> z, trgSmpl |-> 0, smplDly |-> <<SMPL_INIT, SMPL_INIT>>]
    BY <2>1 DEF TrgInit, TRG_REG_INIT
  <2> QED
    BY <1>5, <2>2 DEF TrgType
<1>7. hist = <<>> /\ armLvl = 0 /\ lstTrg = FALSE
  BY DEF TrgInit
<1>8. /\ msTickCounter \in 0 .. TickPeriod - 1 /\ msTimer \in 0 .. AUTO_TIME_STOP
      /\ msTimerExpired \in BOOLEAN
  <2>1. TickPeriod - 1 \in 0 .. TickPeriod - 1 /\ AUTO_TIME_STOP \in 0 .. AUTO_TIME_STOP
    BY TriggerAssumption
  <2>2. FALSE \in BOOLEAN
    OBVIOUS
  <2>3. msTickCounter = TickPeriod - 1 /\ msTimer = AUTO_TIME_STOP
    BY DEF TrgInit
  <2>4. msTimerExpired = FALSE
    BY DEF TrgInit
  <2>5. msTimerExpired \in BOOLEAN
    BY <2>2, <2>4
  <2> QED
    BY <2>1, <2>3, <2>5
<1>9. TypeOK
  <2>1. <<>> \in Seq(Smpls) /\ Len(<<>>) = 0
    OBVIOUS
  <2>2. hist \in Seq(Smpls) /\ Len(hist) <= MemDepth + 1
    BY <1>7, <2>1, MemoryAssumption
  <2>3. lstTrg \in BOOLEAN
    BY <1>7
  <2>4. armLvl \in Int
    BY <1>7
  <2> QED
    BY <1>3, <1>6, <1>8, <2>2, <2>3, <2>4 DEF TypeOK
<1>10. ~Recording /\ ~Stopped
  BY <1>4 DEF Recording, Stopped
<1>11. Counted
  BY <1>4, <1>7, <1>10 DEF Counted
<1>12. OverCounted /\ ExtPipe /\ LevelPipe
  BY <1>10 DEF OverCounted, ExtPipe, LevelPipe
<1>13. EdgeKept
  BY <1>4, <1>10 DEF EdgeKept
<1>14. SampleKept
  BY <1>5, <1>6 DEF SampleKept, Channel
<1> QED
  BY <1>9, <1>11, <1>12, <1>13, <1>14 DEF IInv

LEMMA NextIInv == IInv /\ [TrgNext]_trgVars => IInv'
<1> SUFFICES ASSUME IInv, [TrgNext]_trgVars PROVE IInv'
  OBVIOUS
<1>1. CASE \E p \in Parms : NewParms(p)
  BY <1>1, NewParmsStep
<1>2. CASE \E s \in Samples, released \in BOOLEAN : Sampled(s, released)
  BY <1>2, SampledStep
<1>3. CASE Idle
  BY <1>3, IdleStep
<1>4. CASE UNCHANGED trgVars
  BY <1>4 DEF trgVars, IInv, TypeOK, Counted, OverCounted, SampleKept, ExtPipe, LevelPipe, EdgeKept,
              Recording, Stopped, lparms, wdat, trg
<1> QED
  BY <1>1, <1>2, <1>3, <1>4 DEF TrgNext

THEOREM Invariance == TrgSpec => []IInv
<1> QED
  BY InitIInv, NextIInv, PTL DEF TrgSpec

\* Every value of the state is of its type.
THEOREM TypeCorrect == TrgSpec => []TypeOK
<1>1. IInv => TypeOK
  BY DEF IInv
<1> QED
  BY <1>1, Invariance, PTL

LEMMA EdgeFound == IInv => TriggerIsEdge
<1> SUFFICES ASSUME IInv, Stopped, ~rWr.autTrg, Refilled(lparms)
             PROVE  BeyondAtTrigger /\ (Overflows(lparms) \/ FirstAtTrigger)
  BY DEF TriggerIsEdge
<1>1. TypeOK /\ Counted /\ EdgeKept
  BY DEF IInv
<1> DEFINE n == lparms.nsamples
           q == lparms.nprets
           l == Len(hist)
           k == n - q
<1>2. n \in Nat /\ q \in Nat /\ q <= n /\ l \in Nat
  BY <1>1, Typed
<1>3. rWr.nsmpls = n + 1
  BY <1>1 DEF Counted
<1>4. EdgeIs(lparms, hist, rWr.nsmpls - q - 1)
  BY <1>1 DEF EdgeKept
<1> HIDE DEF n, q, l, k
<1>5. rWr.nsmpls - q - 1 = k /\ k \in Nat
  BY <1>2, <1>3 DEF k
<1>6. k + 1 < l /\ Fires(lparms, hist[l - k]) /\ Below(lparms, hist[l - (k + 1)])
  BY <1>4, <1>5 DEF EdgeIs, Ago, l, q
<1>7. TrgIdx = l - k
  BY DEF TrgIdx, l, k, n, q
<1>8. l - k \in 2 .. l /\ l - (k + 1) = (l - k) - 1
  BY <1>2, <1>5, <1>6
<1> QED
  BY <1>6, <1>7, <1>8 DEF BeyondAtTrigger, FirstAtTrigger, Below, l

\* Whatever the parameters are, once the readout may take the window: unless
\* the trigger was automatic the window lies where the samples first went beyond
\* the level (or the external line was found high).
THEOREM WindowAtTheEdge == TrgSpec => []TriggerIsEdge
<1> QED
  BY EdgeFound, Invariance, PTL

LEMMA OverRangeFound == IInv => OverRangeExact
<1> SUFFICES ASSUME IInv, Stopped
             PROVE  rWr.ovrA # 0 <=> \E s \in Newest(lparms.nsamples) : s.dor
  BY DEF OverRangeExact
<1>1. TypeOK /\ OverIs(hist, lparms.nsamples, rWr.ovrA)
  BY DEF IInv, OverCounted
<1> DEFINE n == lparms.nsamples
           o == rWr.ovrA
           l == Len(hist)
<1>2. n \in Nat /\ l \in Nat /\ o \in Nat
  BY <1>1, Typed
<1>3. ASSUME o = 0, NEW s \in Newest(n) PROVE ~s.dor
  <2>1. PICK i \in 1 .. l : i > l - n /\ s = hist[i]
    BY DEF Newest
  <2>2. l - i \in 0 .. l - 1 /\ l - i < n /\ l - (l - i) = i
    BY <1>2, <2>1
  <2>3. ~Ago(hist, l - i).dor
    BY <1>1, <1>3, <2>2 DEF OverIs
  <2> QED
    BY <2>1, <2>2, <2>3 DEF Ago
<1>4. ASSUME o # 0 PROVE \E s \in Newest(n) : s.dor
  <2>1. o <= n /\ n - o < l /\ Ago(hist, n - o).dor
    BY <1>1, <1>4 DEF OverIs
  <2>2. l - (n - o) \in 1 .. l /\ l - (n - o) > l - n
    BY <1>2, <1>4, <2>1
  <2>3. hist[l - (n - o)] \in Newest(n)
    BY <2>2 DEF Newest
  <2> QED
    BY <2>1, <2>3 DEF Ago
<1> QED
  BY <1>3, <1>4

\* The flag in the reply is about the newest nsamples samples, all of the window
\* but its oldest one, however long the recording went on before the trigger.
THEOREM OverRangeOfTheNewest == TrgSpec => []OverRangeExact
<1> QED
  BY OverRangeFound, Invariance, PTL
=============================================================================
