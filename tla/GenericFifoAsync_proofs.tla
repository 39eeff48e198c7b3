----------------------- MODULE GenericFifoAsync_proofs ----------------------
(***************************************************************************)
(* Proofs about GenericFifoAsync, for every Depth, every set of words and  *)
(* every ratio of the clocks that ClockAssumption allows.                  *)
(*                                                                         *)
(* The inductive invariant has two parts.  RstInv follows a reset around   *)
(* the loop: the five registers it passes fill and empty in order, and by  *)
(* the time the read side resumes the write side has been cleared.  RunInv *)
(* says what the pointers mean while no side is in reset: each side's copy *)
(* of the other one's pointer is an earlier value of it, and the full and  *)
(* empty flags tell a copy that is equal to the own pointer because the    *)
(* memory is full from one that is equal because it is empty.              *)
(***************************************************************************)
EXTENDS GenericFifoAsync, TLAPS

Prev(p) == IF p = 0 THEN Depth - 1 ELSE p - 1

\* The code of a pointer register, which is one count ahead of its code.
GrayOf(p) == bin2Gray[Prev(p)]

\* p is k increments behind q.
Behind(p, k, q) == p + k = q \/ p + k = q + Depth

\* The writer's two copies of the read pointer, k1 and k2 words behind: at
\* least as many as there are, and Depth only if the writer knows it is full.
WrView(n) ==
  \E r1, r2 \in Idx, k1, k2 \in 0 .. Depth :
    /\ rdGrayMeta = GrayOf(r1) /\ Behind(r1, k1, wrPtr)
    /\ rdGraySynced = GrayOf(r2) /\ Behind(r2, k2, wrPtr)
    /\ n <= k1 /\ k1 <= k2
    /\ k2 = Depth => full

\* The reader's two copies of the write pointer: at most as many words as
\* there are, and none only if the reader knows it is empty.
RdView(n) ==
  \E w1, w2 \in Idx, k1, k2 \in 0 .. Depth :
    /\ wrGrayMeta = GrayOf(w1) /\ Behind(rdPtr, k1, w1)
    /\ wrGraySynced = GrayOf(w2) /\ Behind(rdPtr, k2, w2)
    /\ k2 <= k1 /\ k1 <= n
    /\ k2 = 0 => empty

\* The words of s after the first h are the entries of the memory m from p on.
InMemory(s, m, p, h) == \A i \in 0 .. Len(s) - h - 1 : s[h + i + 1] = m[At(p, i)]

Contents ==
  /\ outVld => sent[1] = outReg
  /\ memVld => sent[NHeld] = rdDatLoc
  /\ InMemory(sent, mem, rdPtr, NHeld)

RunInv ==
  /\ InMem \in 0 .. Depth
  /\ Behind(rdPtr, InMem, wrPtr)
  /\ WrView(InMem)
  /\ RdView(InMem)
  /\ Contents

\* Cleared: what a side looks like once an edge found it in reset.
WrClear ==
  /\ ~full /\ wrPtr = PTR_INIT
  /\ rdGrayMeta = GRAY_INIT /\ rdGraySynced = GRAY_INIT
  /\ sent = <<>>

RdClear ==
  /\ empty /\ ~memVld /\ ~outVld /\ rdPtr = PTR_INIT
  /\ wrGrayMeta = GRAY_INIT /\ wrGraySynced = GRAY_INIT

\* The reset on its way: rdRstLoc, rstMeta, wrRst, rtnMeta, wrRstRtn.
RstInv ==
  /\ RdRst = {FALSE} => ~rdRstLoc /\ ~rdRstReq /\ ~wrRst
  /\ rdRstLoc =>                         \* rising: filled from the left
       /\ wrRst => rstMeta
       /\ rtnMeta => wrRst
       /\ wrRstRtn => rtnMeta
       /\ rtnMeta => RdClear
  /\ ~rdRstLoc =>                        \* falling: emptied from the left
       /\ rstMeta => wrRst
       /\ wrRst => rtnMeta
       /\ rtnMeta => wrRstRtn
       /\ wrRst => RdClear
  /\ wrRst => \/ WrClear
              \/ (wrRstRtn => rdLead >= 1) /\ (~rdRstLoc => rdLead >= 2)

IInv ==
  /\ TypeOK
  /\ wrPtrGray = GrayOf(wrPtr)
  /\ rdPtrGray = GrayOf(rdPtr)
  /\ ~OutReg => ~outVld
  /\ RstInv
  /\ ~Resetting => RunInv
-----------------------------------------------------------------------------
(* Pointers and their codes.                                               *)

LEMMA PrevInc ==
  ASSUME NEW p \in Idx
  PROVE  /\ Inc(p) \in Idx /\ Prev(p) \in Idx
         /\ Prev(Inc(p)) = p /\ Inc(Prev(p)) = p
  BY ConstantAssumption DEF Idx, Inc, Prev

\* Comparing two codes is comparing the pointers.
LEMMA GrayInjective ==
  ASSUME NEW p \in Idx, NEW q \in Idx, GrayOf(p) = GrayOf(q)
  PROVE  p = q
<1>1. Prev(p) \in Idx /\ Prev(q) \in Idx /\ Inc(Prev(p)) = p /\ Inc(Prev(q)) = q
  BY PrevInc
<1>2. Prev(p) = Prev(q)
  BY <1>1, GrayAssumption DEF GrayOf
<1>3. QED
  BY <1>1, <1>2

LEMMA GrayNext ==
  ASSUME NEW p \in Idx
  PROVE  bin2Gray[p] = GrayOf(Inc(p)) /\ GrayOf(p) \in Codes
  BY PrevInc DEF GrayOf, Codes

\* What a synchronizer samples while the pointer stands still or advances by
\* one is a code of that pointer, before or after.
LEMMA SampledPointer ==
  ASSUME NEW p \in Idx, NEW q \in {p, Inc(p)},
         NEW g \in Sampled(GrayOf(p), GrayOf(q))
  PROVE  g = GrayOf(p) \/ g = GrayOf(q)
<1>1. CASE q = p
  BY <1>1 DEF Sampled
<1>2. CASE q = Inc(p)
  <2>1. Prev(p) \in Idx /\ Inc(Prev(p)) = p /\ Prev(Inc(p)) = p
    BY PrevInc
  <2>2. Sampled(bin2Gray[Prev(p)], bin2Gray[p])
          = {bin2Gray[Prev(p)], bin2Gray[p]}
    BY <2>1, GrayAssumption
  <2>3. QED
    BY <1>2, <2>1, <2>2 DEF GrayOf
<1>3. QED
  BY <1>1, <1>2
-----------------------------------------------------------------------------
(* The moves of a word through the memory.                                 *)

LEMMA MemoryAppend ==
  ASSUME NEW s \in Seq(Data), NEW m \in [Idx -> Words], NEW p \in Idx,
         NEW h \in Nat, NEW q \in Idx, NEW w \in Data,
         NEW m2, m2 = [m EXCEPT ![q] = w],
         InMemory(s, m, p, h),
         Len(s) - h \in 0 .. Depth - 1,
         Behind(p, Len(s) - h, q)
  PROVE  /\ InMemory(Append(s, w), m2, p, h)
         /\ Append(s, w) \in Seq(Data) /\ Len(Append(s, w)) = Len(s) + 1
         /\ \A i \in 1 .. Len(s) : Append(s, w)[i] = s[i]
<1> DEFINE n == Len(s) - h
<1>1. /\ Len(s) \in Nat /\ Depth \in Nat /\ n \in Nat
      /\ p \in 0 .. Depth - 1 /\ q \in 0 .. Depth - 1
  BY ConstantAssumption DEF Idx
<1>2. /\ Append(s, w) \in Seq(Data) /\ Len(Append(s, w)) = Len(s) + 1
      /\ \A i \in 1 .. Len(s) : Append(s, w)[i] = s[i]
      /\ Append(s, w)[Len(s) + 1] = w
  OBVIOUS
<1>3. q = At(p, n) /\ \A i \in 0 .. n - 1 : At(p, i) \in Idx /\ At(p, i) # q
  BY <1>1 DEF At, Behind, Idx
<1>4. ASSUME NEW i \in 0 .. n
      PROVE  Append(s, w)[h + i + 1] = m2[At(p, i)]
  <2>1. CASE i = n
    <3>1. h + i + 1 = Len(s) + 1
      BY <1>1, <2>1
    <3>2. QED
      BY <1>2, <1>3, <2>1, <3>1
  <2>2. CASE i \in 0 .. n - 1
    <3>1. s[h + i + 1] = m[At(p, i)]
      BY <2>2 DEF InMemory
    <3>2. Append(s, w)[h + i + 1] = s[h + i + 1]
      BY <1>1, <1>2, <2>2
    <3>3. QED
      BY <1>3, <2>2, <3>1, <3>2
  <2>3. i = n \/ i \in 0 .. n - 1
    BY <1>1
  <2>4. QED
    BY <2>1, <2>2, <2>3
<1>5. Len(Append(s, w)) - h - 1 = n
  BY <1>1, <1>2
<1> HIDE DEF n
<1>6. QED
  BY <1>2, <1>4, <1>5 DEF InMemory

LEMMA MemoryTail ==
  ASSUME NEW s \in Seq(Data), NEW m, NEW p, NEW h \in 1 .. Len(s),
         InMemory(s, m, p, h)
  PROVE  /\ InMemory(Tail(s), m, p, h - 1)
         /\ s # <<>> /\ Tail(s) \in Seq(Data) /\ Len(Tail(s)) = Len(s) - 1
         /\ \A i \in 1 .. Len(s) - 1 : Tail(s)[i] = s[i + 1]
<1>1. /\ s # <<>> /\ Tail(s) \in Seq(Data) /\ Len(Tail(s)) = Len(s) - 1
      /\ \A i \in 1 .. Len(s) - 1 : Tail(s)[i] = s[i + 1]
      /\ Len(s) \in Nat
  OBVIOUS
<1>2. ASSUME NEW i \in 0 .. Len(Tail(s)) - (h - 1) - 1
      PROVE  Tail(s)[(h - 1) + i + 1] = m[At(p, i)]
  <2>1. i \in 0 .. Len(s) - h - 1
    BY <1>1
  <2>2. s[h + i + 1] = m[At(p, i)]
    BY <2>1 DEF InMemory
  <2>3. Tail(s)[h + i] = s[h + i + 1]
    BY <1>1, <2>1
  <2>4. QED
    BY <2>1, <2>2, <2>3
<1>3. QED
  BY <1>1, <1>2 DEF InMemory

LEMMA MemoryFetch ==
  ASSUME NEW s \in Seq(Data), NEW m, NEW p \in Idx, NEW h \in Nat,
         InMemory(s, m, p, h), Len(s) - h \in 1 .. Depth
  PROVE  s[h + 1] = m[p] /\ InMemory(s, m, Inc(p), h + 1)
<1>1. Len(s) \in Nat /\ Depth \in Nat /\ p \in 0 .. Depth - 1
  BY ConstantAssumption DEF Idx
<1>2. s[h + 1] = m[p]
  <2>1. At(p, 0) = p /\ 0 \in 0 .. Len(s) - h - 1 /\ h + 0 + 1 = h + 1
    BY <1>1 DEF At
  <2>2. QED
    BY <2>1 DEF InMemory
<1>3. ASSUME NEW i \in 0 .. Len(s) - (h + 1) - 1
      PROVE  s[(h + 1) + i + 1] = m[At(Inc(p), i)]
  <2>1. i + 1 \in 0 .. Len(s) - h - 1
    BY <1>1
  <2>2. s[h + (i + 1) + 1] = m[At(p, i + 1)]
    BY <2>1 DEF InMemory
  <2>3. At(p, i + 1) = At(Inc(p), i)
    BY <1>1 DEF At, Inc
  <2>4. h + (i + 1) + 1 = (h + 1) + i + 1
    BY <1>1
  <2>5. QED
    BY <2>2, <2>3, <2>4
<1>4. QED
  BY <1>2, <1>3 DEF InMemory
-----------------------------------------------------------------------------
(* One edge of the read clock while the read side runs.                    *)

\* A fetch is only made when the memory holds a word, and the empty flag is
\* right about the copy of the write pointer afterwards.
LEMMA FetchSafe ==
  ASSUME TypeOK, rdPtrGray = GrayOf(rdPtr), ~rdRstLoc,
         NEW rdEna \in BOOLEAN, RdSeqRun(rdEna),
         NEW w \in Idx, NEW k \in 0 .. Depth,
         wrGraySynced = GrayOf(w), Behind(rdPtr, k, w), k = 0 => empty
  PROVE  /\ rdPtrGray' = GrayOf(rdPtr') /\ rdPtr' \in Idx
         /\ \/ /\ rdPtr' = rdPtr /\ memVld' = (memVld /\ ~rdEnaLoc(rdEna))
               /\ rdDatLoc' = rdDatLoc
               /\ k = 0 => empty'
            \/ /\ rdPtr' = Inc(rdPtr) /\ memVld' = TRUE
               /\ ~(memVld /\ ~rdEnaLoc(rdEna))
               /\ rdDatLoc' = mem[rdPtr]
               /\ k - 1 \in 0 .. Depth /\ Behind(rdPtr', k - 1, w)
               /\ k - 1 = 0 => empty'
<1>1. rdPtr \in Idx /\ Inc(rdPtr) \in Idx /\ bin2Gray[rdPtr] = GrayOf(Inc(rdPtr))
  BY PrevInc, GrayNext DEF TypeOK
<1>2. rdPtr \in 0 .. Depth - 1 /\ w \in 0 .. Depth - 1 /\ Depth \in Nat /\ Depth >= 2 /\ k \in Int
  BY <1>1, ConstantAssumption DEF Idx
<1>3. (wrGraySynced = rdPtrGray) <=> (w = rdPtr)
  BY <1>1, GrayInjective
<1>4. (wrGraySynced = bin2Gray[rdPtr]) <=> (w = Inc(rdPtr))
  BY <1>1, GrayInjective
<1>5. w = rdPtr <=> k = 0 \/ k = Depth
  BY <1>2 DEF Behind
<1>6. k # 0 => k - 1 \in 0 .. Depth /\ Behind(Inc(rdPtr), k - 1, w)
  BY <1>2 DEF Behind, Inc
<1>7. k # 0 => (w = Inc(rdPtr) <=> k = 1)
  BY <1>2 DEF Behind, Inc
<1> DEFINE nowVld   == memVld /\ ~rdEnaLoc(rdEna)
           nowEmpty == empty /\ wrGraySynced = rdPtrGray
<1>8. CASE ~nowVld /\ ~nowEmpty
  <2>1. /\ empty' = (bin2Gray[rdPtr] = wrGraySynced) /\ rdPtrGray' = bin2Gray[rdPtr]
        /\ rdPtr' = Inc(rdPtr) /\ rdDatLoc' = mem[rdPtr] /\ memVld' = TRUE
    BY <1>8 DEF RdSeqRun, emptyNow
  <2>2. k # 0
    BY <1>3, <1>5, <1>8
  <2>3. k - 1 = 0 => empty'
    <3>1. k - 1 = 0 => w = Inc(rdPtr)
      BY <1>2, <1>7
    <3>2. w = Inc(rdPtr) => empty'
      BY <1>4, <2>1
    <3>3. QED
      BY <3>1, <3>2
  <2>4. rdPtrGray' = GrayOf(rdPtr') /\ rdPtr' \in Idx
    BY <1>1, <2>1
  <2>5. k - 1 \in 0 .. Depth /\ Behind(rdPtr', k - 1, w)
    BY <1>6, <2>1, <2>2
  <2>6. QED
    BY <1>8, <2>1, <2>3, <2>4, <2>5
<1>9. CASE nowVld \/ nowEmpty
  <2>1. /\ empty' = nowEmpty /\ rdPtrGray' = rdPtrGray /\ rdPtr' = rdPtr
        /\ rdDatLoc' = rdDatLoc /\ memVld' = nowVld
    BY <1>9 DEF RdSeqRun, emptyNow
  <2>2. k = 0 => empty'
    <3>1. k = 0 => wrGraySynced = rdPtrGray
      BY <1>3, <1>5
    <3>2. QED
      BY <2>1, <3>1
  <2>3. QED
    BY <1>1, <2>1, <2>2
<1>10. QED
  BY <1>8, <1>9

\* The words move in order; s is what is left of the accepted ones.
LEMMA ReadStep ==
  ASSUME TypeOK, RunInv, rdPtrGray = GrayOf(rdPtr), ~OutReg => ~outVld, ~rdRstLoc,
         NEW rdEna \in BOOLEAN, RdSeqRun(rdEna), RdOutReg(rdEna),
         NEW s, s = SentAfterRd(sent, rdEna)
  PROVE  /\ s \in Seq(Data)
         /\ ~OutReg => ~outVld'
         /\ rdPtr' \in {rdPtr, Inc(rdPtr)} /\ rdPtr' \in Idx
         /\ rdPtrGray' = GrayOf(rdPtr')
         /\ Len(s) - NHeld' \in 0 .. InMem /\ Behind(rdPtr', Len(s) - NHeld', wrPtr)
         /\ outVld' => s[1] = outReg'
         /\ memVld' => s[NHeld'] = rdDatLoc'
         /\ InMemory(s, mem, rdPtr', NHeld')
         /\ NHeld' \in 0 .. Len(s)
         /\ \E w1, w2 \in Idx, k1, k2 \in 0 .. Depth :
              /\ wrGrayMeta = GrayOf(w1) /\ Behind(rdPtr', k1, w1)
              /\ wrGraySynced = GrayOf(w2) /\ Behind(rdPtr', k2, w2)
              /\ k2 <= k1 /\ k1 <= Len(s) - NHeld'
              /\ k2 = 0 => empty'
<1> DEFINE h == IF Taken(rdEna) THEN NHeld - 1 ELSE NHeld
           nowVld == memVld /\ ~rdEnaLoc(rdEna)
<1>1. /\ sent \in Seq(Data) /\ Len(sent) \in Nat /\ NHeld \in 0 .. 2 /\ InMem \in 0 .. Depth
      /\ NHeld \in 0 .. Len(sent) /\ Len(sent) = NHeld + InMem
      /\ Depth \in Nat /\ rdPtr \in 0 .. Depth - 1 /\ wrPtr \in 0 .. Depth - 1
      /\ rdPtr \in Idx /\ Inc(rdPtr) \in Idx
      /\ outVld \in BOOLEAN /\ memVld \in BOOLEAN /\ OutReg \in BOOLEAN
  <2>1. NHeld \in 0 .. 2
    BY DEF NHeld
  <2>2. sent \in Seq(Data) /\ Len(sent) \in Nat /\ InMem \in 0 .. Depth
    BY DEF TypeOK, RunInv
  <2>3. rdPtr \in Idx /\ Inc(rdPtr) \in Idx /\ wrPtr \in Idx
    BY PrevInc DEF TypeOK
  <2>4. Depth \in Nat /\ rdPtr \in 0 .. Depth - 1 /\ wrPtr \in 0 .. Depth - 1
    BY <2>3, ConstantAssumption DEF Idx
  <2>5. NHeld \in 0 .. Len(sent) /\ Len(sent) = NHeld + InMem
    BY <2>1, <2>2, <2>4 DEF InMem
  <2>6. outVld \in BOOLEAN /\ memVld \in BOOLEAN /\ OutReg \in BOOLEAN
    BY ConstantAssumption DEF TypeOK
  <2>7. QED
    BY <2>1, <2>2, <2>3, <2>4, <2>5, <2>6
<1>2. /\ s \in Seq(Data) /\ h \in 0 .. 2 /\ Len(s) = h + InMem
      /\ InMemory(s, mem, rdPtr, h)
      /\ Taken(rdEna) => \A i \in 1 .. Len(s) : s[i] = sent[i + 1]
      /\ ~Taken(rdEna) => s = sent
  <2>1. CASE Taken(rdEna)
    <3>1. s = Tail(sent) /\ NHeld >= 1 /\ h = NHeld - 1
      BY <1>1, <2>1 DEF SentAfterRd, Taken, rdEmp, NHeld
    <3>2. InMemory(sent, mem, rdPtr, NHeld) /\ NHeld \in 1 .. Len(sent)
      BY <1>1, <3>1 DEF RunInv, Contents
    <3>3. /\ InMemory(Tail(sent), mem, rdPtr, NHeld - 1)
          /\ Tail(sent) \in Seq(Data) /\ Len(Tail(sent)) = Len(sent) - 1
          /\ \A i \in 1 .. Len(sent) - 1 : Tail(sent)[i] = sent[i + 1]
      BY <1>1, <3>2, MemoryTail
    <3>4. QED
      BY <1>1, <2>1, <3>1, <3>3
  <2>2. CASE ~Taken(rdEna)
    BY <1>1, <2>2 DEF SentAfterRd, Taken, RunInv, Contents
  <2>3. QED
    BY <2>1, <2>2
\* the registers, after the user took a word and the output register loaded
<1>3. /\ outVld' \in BOOLEAN
      /\ ~OutReg => ~outVld'
      /\ h = (IF outVld' THEN 1 ELSE 0) + (IF nowVld THEN 1 ELSE 0)
      /\ outVld' => s[1] = outReg'
      /\ nowVld => s[h] = rdDatLoc
  <2>1. /\ outVld => sent[1] = outReg
        /\ memVld => sent[NHeld] = rdDatLoc
    BY DEF RunInv, Contents
  <2>2. CASE ~OutReg
    <3>1. ~outVld /\ outVld' = outVld /\ outReg' = outReg
      BY <2>2 DEF RdOutReg
    <3>2. QED
      BY <1>1, <1>2, <2>1, <2>2, <3>1 DEF NHeld, Taken, rdEmp, rdEnaLoc
  <2>3. CASE OutReg /\ ~outVld
    <3>1. (outVld' <=> memVld) /\ outVld' \in BOOLEAN /\ (memVld => outReg' = rdDatLoc) /\ ~nowVld
      BY <2>3 DEF RdOutReg, rdEnaLoc
    <3>2. ~Taken(rdEna) /\ s = sent /\ h = NHeld /\ NHeld = IF memVld THEN 1 ELSE 0
      BY <1>1, <1>2, <2>3 DEF Taken, rdEmp, NHeld
    <3>3. QED
      BY <1>1, <2>1, <2>3, <3>1, <3>2
  <2>4. CASE OutReg /\ outVld /\ rdEna
    <3>1. (outVld' <=> memVld) /\ outVld' \in BOOLEAN /\ (memVld => outReg' = rdDatLoc) /\ ~nowVld
      BY <2>4 DEF RdOutReg, rdEnaLoc
    <3>2. Taken(rdEna) /\ h = (IF memVld THEN 1 ELSE 0) /\ NHeld = h + 1
      BY <1>1, <2>4 DEF Taken, rdEmp, NHeld
    <3>3. memVld => s[1] = rdDatLoc
      BY <1>1, <1>2, <2>1, <3>2
    <3>4. h = (IF outVld' THEN 1 ELSE 0) + (IF nowVld THEN 1 ELSE 0)
      BY <3>1, <3>2
    <3>5. outVld' => s[1] = outReg'
      BY <3>1, <3>3
    <3>6. QED
      BY <2>4, <3>1, <3>4, <3>5
  <2>5. CASE OutReg /\ outVld /\ ~rdEna
    <3>1. outVld' /\ outVld' \in BOOLEAN /\ outReg' = outReg /\ (nowVld <=> memVld)
      BY <2>5 DEF RdOutReg, rdEnaLoc
    <3>2. ~Taken(rdEna) /\ s = sent /\ h = NHeld
      BY <1>2, <2>5 DEF Taken
    <3>3. QED
      BY <1>1, <2>1, <2>5, <3>1, <3>2 DEF NHeld
  <2>6. QED
    BY <1>1, <2>2, <2>3, <2>4, <2>5
<1>4. PICK w1, w2 \in Idx, k1, k2 \in 0 .. Depth :
         /\ wrGrayMeta = GrayOf(w1) /\ Behind(rdPtr, k1, w1)
         /\ wrGraySynced = GrayOf(w2) /\ Behind(rdPtr, k2, w2)
         /\ k2 <= k1 /\ k1 <= InMem
         /\ k2 = 0 => empty
  BY DEF RunInv, RdView
<1>5. /\ rdPtrGray' = GrayOf(rdPtr') /\ rdPtr' \in Idx
      /\ \/ /\ rdPtr' = rdPtr /\ memVld' = nowVld
            /\ rdDatLoc' = rdDatLoc
            /\ k2 = 0 => empty'
         \/ /\ rdPtr' = Inc(rdPtr) /\ memVld' = TRUE
            /\ ~nowVld
            /\ rdDatLoc' = mem[rdPtr]
            /\ k2 - 1 \in 0 .. Depth /\ Behind(rdPtr', k2 - 1, w2)
            /\ k2 - 1 = 0 => empty'
  BY <1>4, FetchSafe
<1>6. Behind(rdPtr, InMem, wrPtr)
  BY DEF RunInv
<1> HIDE DEF h, nowVld
<1>7. CASE rdPtr' = rdPtr /\ memVld' = nowVld /\ rdDatLoc' = rdDatLoc /\ (k2 = 0 => empty')
  <2>1. NHeld' = h
    BY <1>3, <1>7 DEF NHeld
  <2>2. Len(s) - NHeld' = InMem /\ NHeld' \in 0 .. Len(s)
    BY <1>1, <1>2, <2>1
  <2>3. memVld' => s[NHeld'] = rdDatLoc'
    BY <1>3, <1>7, <2>1
  <2>4. InMemory(s, mem, rdPtr', NHeld')
    BY <1>2, <1>7, <2>1
  <2>5. Len(s) - NHeld' \in 0 .. InMem /\ Behind(rdPtr', Len(s) - NHeld', wrPtr)
    BY <1>1, <1>6, <1>7, <2>2
  <2>6. QED
    BY <1>1, <1>2, <1>3, <1>4, <1>5, <1>7, <2>2, <2>3, <2>4, <2>5
<1>8. CASE /\ rdPtr' = Inc(rdPtr) /\ memVld' = TRUE /\ ~nowVld /\ rdDatLoc' = mem[rdPtr]
           /\ k2 - 1 \in 0 .. Depth /\ Behind(rdPtr', k2 - 1, w2)
           /\ k2 - 1 = 0 => empty'
  <2>1. NHeld' = h + 1 /\ h \in Nat
    BY <1>2, <1>3, <1>8 DEF NHeld
  <2>2. InMem \in 1 .. Depth
    BY <1>1, <1>4, <1>8
  <2>3. Len(s) - NHeld' = InMem - 1 /\ NHeld' \in 0 .. Len(s) /\ Len(s) - h \in 1 .. Depth
    BY <1>1, <1>2, <2>1, <2>2
  <2>4. s[h + 1] = mem[rdPtr] /\ InMemory(s, mem, Inc(rdPtr), h + 1)
    <3>1. /\ s \in Seq(Data) /\ rdPtr \in Idx /\ h \in Nat
          /\ InMemory(s, mem, rdPtr, h) /\ Len(s) - h \in 1 .. Depth
      BY <1>1, <1>2, <2>1, <2>3
    <3>2. QED
      BY ONLY <3>1, MemoryFetch
  <2>5. /\ memVld' => s[NHeld'] = rdDatLoc'
        /\ InMemory(s, mem, rdPtr', NHeld')
    BY <1>8, <2>1, <2>4
  <2>6. Behind(rdPtr', InMem - 1, wrPtr)
    BY <1>1, <1>6, <1>8, <2>2 DEF Behind, Inc
  <2>7. k1 - 1 \in 0 .. Depth /\ Behind(rdPtr', k1 - 1, w1)
    <3>1. w1 \in 0 .. Depth - 1 /\ k1 >= 1
      BY <1>1, <1>4, <1>8 DEF Idx
    <3>2. QED
      BY <1>1, <1>4, <1>8, <3>1 DEF Behind, Inc
  <2>8. k2 - 1 <= k1 - 1 /\ k1 - 1 <= Len(s) - NHeld'
    BY <1>1, <1>4, <2>3
  <2>9. Len(s) - NHeld' \in 0 .. InMem /\ Behind(rdPtr', Len(s) - NHeld', wrPtr)
    BY <2>2, <2>3, <2>6
  <2>10. QED
    BY <1>1, <1>2, <1>3, <1>4, <1>5, <1>8, <2>3, <2>5, <2>7, <2>8, <2>9
<1>9. QED
  BY <1>5, <1>7, <1>8
-----------------------------------------------------------------------------
(* One edge of the write clock while the write side runs.                  *)

\* A word is only accepted when the memory has room for it, and the full flag
\* is right about the copy of the read pointer afterwards.
LEMMA AcceptSafe ==
  ASSUME TypeOK, wrPtrGray = GrayOf(wrPtr), ~wrRst,
         NEW wrEna \in BOOLEAN, NEW wrDat \in Data, WrSeq(wrEna, wrDat),
         NEW r \in Idx, NEW k \in 0 .. Depth,
         rdGraySynced = GrayOf(r), Behind(r, k, wrPtr), k = Depth => full
  PROVE  /\ wrPtrGray' = GrayOf(wrPtr') /\ wrPtr' \in Idx
         /\ \/ /\ ~Accepted(wrEna) /\ wrPtr' = wrPtr /\ mem' = mem
               /\ k = Depth => full'
            \/ /\ Accepted(wrEna) /\ wrPtr' = Inc(wrPtr)
               /\ mem' = [mem EXCEPT ![wrPtr] = wrDat]
               /\ k < Depth
               /\ k + 1 = Depth => full'
<1>1. wrPtr \in Idx /\ Inc(wrPtr) \in Idx /\ bin2Gray[wrPtr] = GrayOf(Inc(wrPtr))
  BY PrevInc, GrayNext DEF TypeOK
<1>2. wrPtr \in 0 .. Depth - 1 /\ r \in 0 .. Depth - 1 /\ Depth \in Nat /\ Depth >= 2 /\ k \in Int
  BY <1>1, ConstantAssumption DEF Idx
<1>3. CASE ~Accepted(wrEna)
  <2>1. full' = (full /\ rdGraySynced = wrPtrGray) /\ UNCHANGED <<wrPtr, wrPtrGray, mem>>
    BY <1>3 DEF WrSeq, WrStore, fullNow
  <2>2. k = Depth => r = wrPtr
    BY <1>2 DEF Behind
  <2>3. k = Depth => full /\ rdGraySynced = wrPtrGray
    BY <2>2
  <2>4. k = Depth => full'
    BY <2>1, <2>3
  <2>5. QED
    BY <1>1, <1>3, <2>1, <2>4
<1>4. CASE Accepted(wrEna)
  <2>1. /\ full' = (bin2Gray[wrPtr] = rdGraySynced) /\ wrPtrGray' = bin2Gray[wrPtr]
        /\ wrPtr' = Inc(wrPtr) /\ mem' = [mem EXCEPT ![wrPtr] = wrDat]
    BY <1>4 DEF WrSeq, WrStore, fullNow, Accepted
  <2>2. k < Depth
    BY <1>2, <1>4 DEF Accepted
  <2>3. k + 1 = Depth => r = Inc(wrPtr)
    BY <1>2 DEF Behind, Inc
  <2>4. k + 1 = Depth => bin2Gray[wrPtr] = rdGraySynced
    BY <1>1, <2>3
  <2>5. k + 1 = Depth => full'
    BY <2>1, <2>4
  <2>6. QED
    BY <1>1, <1>4, <2>1, <2>2, <2>5
<1>5. QED
  BY <1>3, <1>4

\* p, h and s are the read side's pointer and words held and the words left
\* after a possible edge of the read clock at the same time; a is 1 when a
\* word is accepted.
LEMMA WriteStep ==
  ASSUME TypeOK, RunInv, wrPtrGray = GrayOf(wrPtr), ~wrRst,
         NEW wrEna \in BOOLEAN, NEW wrDat \in Data, WrSeq(wrEna, wrDat),
         NEW s \in Seq(Data), NEW p \in Idx, NEW h \in 0 .. Len(s),
         Len(s) - h \in 0 .. InMem, Behind(p, Len(s) - h, wrPtr),
         InMemory(s, mem, p, h),
         NEW s2, s2 = SentAfterWr(s, wrEna, wrDat)
  PROVE  /\ s2 \in Seq(Data)
         /\ \A i \in 1 .. Len(s) : s2[i] = s[i]
         /\ InMemory(s2, mem', p, h)
         /\ wrPtrGray' = GrayOf(wrPtr') /\ wrPtr' \in {wrPtr, Inc(wrPtr)} /\ wrPtr' \in Idx
         /\ \E a \in {0, 1} :
              /\ Len(s2) = Len(s) + a
              /\ Behind(rdPtr, InMem + a, wrPtr')
              /\ Behind(p, Len(s) - h + a, wrPtr')
              /\ \E r1, r2 \in Idx, k1, k2 \in 0 .. Depth :
                   /\ rdGrayMeta = GrayOf(r1) /\ Behind(r1, k1, wrPtr')
                   /\ rdGraySynced = GrayOf(r2) /\ Behind(r2, k2, wrPtr')
                   /\ InMem + a <= k1 /\ k1 <= k2
                   /\ k2 = Depth => full'
<1>1. PICK r1, r2 \in Idx, k1, k2 \in 0 .. Depth :
         /\ rdGrayMeta = GrayOf(r1) /\ Behind(r1, k1, wrPtr)
         /\ rdGraySynced = GrayOf(r2) /\ Behind(r2, k2, wrPtr)
         /\ InMem <= k1 /\ k1 <= k2
         /\ k2 = Depth => full
  BY DEF RunInv, WrView
<1>2. /\ wrPtrGray' = GrayOf(wrPtr') /\ wrPtr' \in Idx
      /\ \/ /\ ~Accepted(wrEna) /\ wrPtr' = wrPtr /\ mem' = mem
            /\ k2 = Depth => full'
         \/ /\ Accepted(wrEna) /\ wrPtr' = Inc(wrPtr)
            /\ mem' = [mem EXCEPT ![wrPtr] = wrDat]
            /\ k2 < Depth
            /\ k2 + 1 = Depth => full'
  BY <1>1, AcceptSafe
<1>3. /\ InMem \in 0 .. Depth /\ Behind(rdPtr, InMem, wrPtr)
      /\ wrPtr \in Idx /\ rdPtr \in Idx /\ mem \in [Idx -> Words]
      /\ wrPtr \in 0 .. Depth - 1 /\ rdPtr \in 0 .. Depth - 1 /\ p \in 0 .. Depth - 1
      /\ r1 \in 0 .. Depth - 1 /\ r2 \in 0 .. Depth - 1
      /\ Depth \in Nat /\ h \in Nat /\ Len(s) \in Nat
  BY ConstantAssumption DEF TypeOK, RunInv, Idx
<1>4. CASE ~Accepted(wrEna) /\ wrPtr' = wrPtr /\ mem' = mem /\ (k2 = Depth => full')
  <2>1. s2 = s
    BY <1>4 DEF SentAfterWr
  <2>2. /\ Len(s2) = Len(s) + 0 /\ Len(s) - h + 0 = Len(s) - h /\ InMem + 0 = InMem
    BY <1>3, <2>1
  <2>3. QED
    BY <1>1, <1>2, <1>3, <1>4, <2>1, <2>2
<1>5. CASE /\ Accepted(wrEna) /\ wrPtr' = Inc(wrPtr)
           /\ mem' = [mem EXCEPT ![wrPtr] = wrDat] /\ k2 < Depth
           /\ k2 + 1 = Depth => full'
  <2>1. s2 = Append(s, wrDat)
    BY <1>5 DEF SentAfterWr
  <2>2. InMem < Depth /\ k1 < Depth /\ Len(s) - h \in 0 .. Depth - 1
    BY <1>1, <1>3, <1>5
  <2>3. /\ InMemory(s2, mem', p, h)
        /\ s2 \in Seq(Data) /\ Len(s2) = Len(s) + 1
        /\ \A i \in 1 .. Len(s) : s2[i] = s[i]
    <3>1. PICK m2 : m2 = [mem EXCEPT ![wrPtr] = wrDat]
      OBVIOUS
    <3>2. /\ s \in Seq(Data) /\ p \in Idx /\ wrDat \in Data /\ h \in Nat
          /\ mem \in [Idx -> Words] /\ wrPtr \in Idx
          /\ Len(s) - h \in 0 .. Depth - 1
          /\ InMemory(s, mem, p, h) /\ Behind(p, Len(s) - h, wrPtr)
      BY <1>3, <2>2
    <3>3. InMemory(Append(s, wrDat), m2, p, h)
      BY ONLY <3>1, <3>2, MemoryAppend
    <3>4. /\ Append(s, wrDat) \in Seq(Data) /\ Len(Append(s, wrDat)) = Len(s) + 1
          /\ \A i \in 1 .. Len(s) : Append(s, wrDat)[i] = s[i]
      BY ONLY <3>2
    <3>5. QED
      BY <1>5, <2>1, <3>1, <3>3, <3>4
  <2>4. /\ Behind(rdPtr, InMem + 1, wrPtr')
        /\ Behind(p, Len(s) - h + 1, wrPtr')
    <3>1. ASSUME NEW q \in 0 .. Depth - 1, NEW k \in 0 .. Depth - 1, Behind(q, k, wrPtr)
          PROVE  Behind(q, k + 1, wrPtr')
      BY <1>3, <1>5, <3>1 DEF Behind, Inc
    <3>2. InMem \in 0 .. Depth - 1
      BY <1>3, <2>2
    <3>3. QED
      BY <1>3, <2>2, <3>1, <3>2
  <2>5. /\ k1 + 1 \in 0 .. Depth /\ Behind(r1, k1 + 1, wrPtr')
        /\ k2 + 1 \in 0 .. Depth /\ Behind(r2, k2 + 1, wrPtr')
        /\ InMem + 1 <= k1 + 1 /\ k1 + 1 <= k2 + 1
    BY <1>1, <1>3, <1>5, <2>2 DEF Behind, Inc
  <2>6. QED
    BY <1>1, <1>2, <1>5, <2>3, <2>4, <2>5
<1>6. QED
  BY <1>2, <1>4, <1>5
-----------------------------------------------------------------------------
(* Resets.                                                                 *)

LEMMA GrayInit == PTR_INIT \in Idx /\ GrayOf(PTR_INIT) = GRAY_INIT
  BY ConstantAssumption DEF PTR_INIT, GRAY_INIT, GrayOf, Prev, Idx

LEMMA WrClears ==
  ASSUME wrRst, NEW wrEna, NEW wrDat, WrSeq(wrEna, wrDat),
         NEW g, NEW rst, WrSync(g, rst), sent' = <<>>
  PROVE  WrClear'
  BY DEF WrSeq, WrStore, fullNow, WrSync, WrClear, Accepted

LEMMA RdClears ==
  ASSUME rdRstLoc, ~OutReg => ~outVld,
         NEW rdEna, RdSeq(rdEna), NEW g, NEW rst, RdSync(g, rst)
  PROVE  RdClear'
<1>1. empty' /\ ~memVld' /\ rdPtr' = PTR_INIT
  BY DEF RdSeq, RdSeqReset, RdSeqRun, emptyNow
<1>2. ~outVld'
  BY DEF RdSeq, RdOutReg
<1>3. wrGrayMeta' = GRAY_INIT /\ wrGraySynced' = GRAY_INIT
  BY DEF RdSync
<1>4. QED
  BY <1>1, <1>2, <1>3 DEF RdClear

\* A read side that finished its reset before the write side stays empty.
LEMMA RdStaysClear ==
  ASSUME ~rdRstLoc, RdClear, rdPtrGray = GrayOf(rdPtr),
         NEW rdEna, RdSeq(rdEna), NEW rst, RdSync(GRAY_INIT, rst)
  PROVE  RdClear'
<1>1. rdPtrGray = GRAY_INIT
  BY GrayInit DEF RdClear
<1>2. RdSeqRun(rdEna) /\ RdOutReg(rdEna)
  BY DEF RdSeq, RdSeqReset
<1>3. empty' /\ ~memVld' /\ rdPtr' = PTR_INIT
  BY <1>1, <1>2 DEF RdSeqRun, emptyNow, RdClear
<1>4. ~outVld'
  BY <1>2 DEF RdOutReg, RdClear
<1>5. wrGrayMeta' = GRAY_INIT /\ wrGraySynced' = GRAY_INIT
  BY DEF RdSync, RdClear
<1>6. QED
  BY <1>3, <1>4, <1>5 DEF RdClear

\* Two cleared sides make an empty FIFO.
LEMMA ClearRun == WrClear /\ RdClear => RunInv
<1> SUFFICES ASSUME WrClear, RdClear PROVE RunInv
  OBVIOUS
<1>1. PTR_INIT \in Idx /\ GrayOf(PTR_INIT) = GRAY_INIT
  BY GrayInit
<1>2. NHeld = 0 /\ InMem = 0
  BY DEF NHeld, InMem, WrClear, RdClear
<1>3. 0 \in 0 .. Depth /\ 0 # Depth
  BY ConstantAssumption
<1>4. Behind(PTR_INIT, 0, PTR_INIT)
  BY DEF Behind, PTR_INIT
<1>5. WrView(0) /\ RdView(0)
  BY <1>1, <1>3, <1>4 DEF WrView, RdView, WrClear, RdClear
<1>6. Contents
  BY <1>2 DEF Contents, InMemory, WrClear, RdClear
<1>7. QED
  BY <1>2, <1>3, <1>4, <1>5, <1>6 DEF RunInv, WrClear, RdClear

\* Each pointer register stays one count ahead of its code.
LEMMA WrGrayStep ==
  ASSUME wrPtr \in Idx, wrPtrGray = GrayOf(wrPtr),
         NEW wrEna, NEW wrDat, WrSeq(wrEna, wrDat)
  PROVE  wrPtr' \in Idx /\ wrPtrGray' = GrayOf(wrPtr')
  BY PrevInc, GrayNext, GrayInit DEF WrSeq, WrStore, fullNow

LEMMA RdGrayStep ==
  ASSUME rdPtr \in Idx, rdPtrGray = GrayOf(rdPtr),
         NEW rdEna, RdSeq(rdEna)
  PROVE  rdPtr' \in Idx /\ rdPtrGray' = GrayOf(rdPtr')
  BY PrevInc, GrayNext, GrayInit DEF RdSeq, RdSeqReset, RdSeqRun, emptyNow

LEMMA InitIInv == Init => IInv
<1> SUFFICES ASSUME Init PROVE IInv
  OBVIOUS
<1>1. PTR_INIT \in Idx /\ GrayOf(PTR_INIT) = GRAY_INIT /\ GRAY_INIT \in Codes
  BY GrayInit, GrayNext
<1>2. GRAY_INIT \in SUBSET UNION Codes
  BY <1>1
<1>3. TypeOK
  <2>1. mem \in [Idx -> Words] /\ rdDatLoc \in Words /\ outReg \in Words
    BY DEF Init, Words
  <2>2. wrLead \in 0 .. WrPerRd /\ rdLead \in 0 .. RdPerWr
    BY ConstantAssumption DEF Init
  <2>3. sent \in Seq(Data)
    BY DEF Init
  <2>4. QED
    BY <1>1, <1>2, <2>1, <2>2, <2>3 DEF Init, TypeOK
<1>4. WrClear /\ RdClear
  BY DEF Init, WrClear, RdClear
<1>5. RunInv
  BY <1>4, ClearRun
<1>6. RstInv
  BY DEF Init, RstInv
<1>7. QED
  BY <1>1, <1>3, <1>5, <1>6 DEF IInv, Init

\* Outside RunInv nothing is taken: a reset leaves the read side empty.
LEMMA TakenWords ==
  ASSUME IInv, NEW rdEna, Taken(rdEna)
  PROVE  sent # <<>>
<1>1. ~rdRstLoc /\ ~rdEmp
  BY DEF Taken
<1>2. ~wrRst
  BY <1>1 DEF IInv, RstInv, RdClear, rdEmp
<1>3. RunInv /\ TypeOK
  BY <1>1, <1>2 DEF IInv, Resetting
<1>4. NHeld >= 1 /\ InMem >= 0
  BY <1>1, <1>3, ConstantAssumption DEF RunInv, NHeld, rdEmp, TypeOK
<1>5. Len(sent) \in Nat /\ NHeld \in Nat
  BY <1>3 DEF TypeOK, NHeld
<1>6. Len(sent) >= 1
  BY <1>4, <1>5 DEF InMem
<1>7. QED
  BY <1>6
-----------------------------------------------------------------------------
(* Type correctness.                                                       *)

LEMMA TypeWr ==
  ASSUME TypeOK, wrPtrGray = GrayOf(wrPtr),
         NEW wrEna \in BOOLEAN, NEW wrDat \in Data, WrSeq(wrEna, wrDat),
         NEW g \in SUBSET UNION Codes, NEW rst \in BOOLEAN, WrSync(g, rst)
  PROVE  /\ mem' \in [Idx -> Words]
         /\ full' \in BOOLEAN /\ wrPtr' \in Idx /\ wrPtrGray' \in Codes
         /\ rdGrayMeta' \in SUBSET UNION Codes /\ rdGraySynced' \in SUBSET UNION Codes
         /\ rstMeta' \in BOOLEAN /\ wrRst' \in BOOLEAN
<1>1. wrPtr' \in Idx /\ wrPtrGray' \in Codes
  BY WrGrayStep, GrayNext DEF TypeOK
<1>2. mem' \in [Idx -> Words] /\ full' \in BOOLEAN
  BY DEF WrSeq, WrStore, fullNow, TypeOK, Words
<1>3. GRAY_INIT \in SUBSET UNION Codes
  BY GrayInit, GrayNext
<1>4. /\ rdGrayMeta' \in SUBSET UNION Codes /\ rdGraySynced' \in SUBSET UNION Codes
      /\ rstMeta' \in BOOLEAN /\ wrRst' \in BOOLEAN
  BY <1>3 DEF WrSync, TypeOK
<1>5. QED
  BY <1>1, <1>2, <1>4

LEMMA TypeRd ==
  ASSUME TypeOK, rdPtrGray = GrayOf(rdPtr),
         NEW rdEna \in BOOLEAN, RdSeq(rdEna), NEW rdRst \in BOOLEAN, RdRstSeq(rdRst),
         NEW g \in SUBSET UNION Codes, NEW rst \in BOOLEAN, RdSync(g, rst)
  PROVE  /\ empty' \in BOOLEAN /\ memVld' \in BOOLEAN /\ rdDatLoc' \in Words
         /\ rdPtr' \in Idx /\ rdPtrGray' \in Codes
         /\ outVld' \in BOOLEAN /\ outReg' \in Words
         /\ wrGrayMeta' \in SUBSET UNION Codes /\ wrGraySynced' \in SUBSET UNION Codes
         /\ rtnMeta' \in BOOLEAN /\ wrRstRtn' \in BOOLEAN
         /\ rdRstLoc' \in BOOLEAN /\ rdRstReq' \in BOOLEAN
<1>1. rdPtr' \in Idx /\ rdPtrGray' \in Codes
  BY RdGrayStep, GrayNext DEF TypeOK
<1>2. empty' \in BOOLEAN /\ memVld' \in BOOLEAN /\ rdDatLoc' \in Words
  BY DEF RdSeq, RdSeqReset, RdSeqRun, emptyNow, TypeOK
<1>3. outVld' \in BOOLEAN /\ outReg' \in Words
  BY DEF RdSeq, RdOutReg, TypeOK
<1>4. GRAY_INIT \in SUBSET UNION Codes
  BY GrayInit, GrayNext
<1>5. /\ wrGrayMeta' \in SUBSET UNION Codes /\ wrGraySynced' \in SUBSET UNION Codes
      /\ rtnMeta' \in BOOLEAN /\ wrRstRtn' \in BOOLEAN
  BY <1>4 DEF RdSync, TypeOK
<1>6. rdRstLoc' \in BOOLEAN /\ rdRstReq' \in BOOLEAN
  BY DEF RdRstSeq, TypeOK, rdReset
<1>7. QED
  BY <1>1, <1>2, <1>3, <1>5, <1>6

LEMMA TypeSentRd ==
  ASSUME IInv, NEW rdEna
  PROVE  SentAfterRd(sent, rdEna) \in Seq(Data)
<1>1. sent \in Seq(Data) /\ <<>> \in Seq(Data)
  BY DEF IInv, TypeOK
<1>2. CASE Taken(rdEna)
  <2>1. sent # <<>>
    BY <1>2, TakenWords
  <2>2. QED
    BY <1>1, <2>1 DEF SentAfterRd
<1>3. QED
  BY <1>1, <1>2 DEF SentAfterRd

LEMMA TypeSentWr ==
  ASSUME NEW s \in Seq(Data), NEW wrEna, NEW wrDat \in Data
  PROVE  SentAfterWr(s, wrEna, wrDat) \in Seq(Data)
  BY DEF SentAfterWr

LEMMA SampledType ==
  ASSUME NEW a \in SUBSET UNION Codes, NEW b \in SUBSET UNION Codes, NEW g \in Sampled(a, b)
  PROVE  g \in SUBSET UNION Codes
  BY DEF Sampled

LEMMA LevelType == RdRst \subseteq BOOLEAN
<1>1. CASE RdRst = {FALSE}
  BY <1>1
<1>2. CASE RdRst = BOOLEAN
  BY <1>2
<1>3. QED
  BY <1>1, <1>2, ConstantAssumption

LEMMA TypeStep ==
  ASSUME IInv, Next
  PROVE  TypeOK'
<1>1. wrLead \in 0 .. WrPerRd /\ rdLead \in 0 .. RdPerWr /\ WrPerRd \in Nat \ {0} /\ RdPerWr \in Nat \ {0}
  BY ConstantAssumption DEF IInv, TypeOK
<1>2. /\ TypeOK /\ wrPtrGray = GrayOf(wrPtr) /\ rdPtrGray = GrayOf(rdPtr)
      /\ wrPtrGray \in SUBSET UNION Codes /\ rdPtrGray \in SUBSET UNION Codes
      /\ wrRst \in BOOLEAN /\ rstMeta \in BOOLEAN /\ rdRstLoc \in BOOLEAN
      /\ sent \in Seq(Data)
  BY DEF IInv, TypeOK
<1>3. ASSUME NEW wrEna \in BOOLEAN, NEW wrDat \in Data, WrEdge(wrEna, wrDat)
      PROVE  TypeOK'
  <2>1. wrLead' \in 0 .. WrPerRd /\ rdLead' \in 0 .. RdPerWr
    BY <1>1, <1>3 DEF WrEdge
  <2>2. sent' \in Seq(Data)
    BY <1>2, <1>3, TypeSentWr DEF WrEdge
  <2>3. WrSeq(wrEna, wrDat) /\ WrSync(rdPtrGray, rdRstLoc)
    BY <1>3 DEF WrEdge
  <2>4. /\ mem' \in [Idx -> Words]
        /\ full' \in BOOLEAN /\ wrPtr' \in Idx /\ wrPtrGray' \in Codes
        /\ rdGrayMeta' \in SUBSET UNION Codes /\ rdGraySynced' \in SUBSET UNION Codes
        /\ rstMeta' \in BOOLEAN /\ wrRst' \in BOOLEAN
    BY <1>2, <2>3, TypeWr
  <2>5. UNCHANGED <<rdRegs, rdSyncs, rdReset>>
    BY <1>3 DEF WrEdge
  <2>6. QED
    BY <1>2, <2>1, <2>2, <2>4, <2>5 DEF TypeOK, rdRegs, rdSyncs, rdReset
<1>4. ASSUME NEW rdEna \in BOOLEAN, NEW rdRst \in RdRst, RdEdge(rdEna, rdRst)
      PROVE  TypeOK'
  <2>1. wrLead' \in 0 .. WrPerRd /\ rdLead' \in 0 .. RdPerWr
    BY <1>1, <1>4 DEF RdEdge
  <2>2. sent' \in Seq(Data)
    BY <1>4, TypeSentRd DEF RdEdge
  <2>3. RdSeq(rdEna) /\ RdRstSeq(rdRst) /\ RdSync(wrPtrGray, wrRst) /\ rdRst \in BOOLEAN
    BY <1>4, LevelType DEF RdEdge
  <2>4. /\ empty' \in BOOLEAN /\ memVld' \in BOOLEAN /\ rdDatLoc' \in Words
        /\ rdPtr' \in Idx /\ rdPtrGray' \in Codes
        /\ outVld' \in BOOLEAN /\ outReg' \in Words
        /\ wrGrayMeta' \in SUBSET UNION Codes /\ wrGraySynced' \in SUBSET UNION Codes
        /\ rtnMeta' \in BOOLEAN /\ wrRstRtn' \in BOOLEAN
        /\ rdRstLoc' \in BOOLEAN /\ rdRstReq' \in BOOLEAN
    BY <1>2, <2>3, TypeRd
  <2>5. UNCHANGED <<wrRegs, wrSyncs>>
    BY <1>4 DEF RdEdge
  <2>6. QED
    BY <1>2, <2>1, <2>2, <2>4, <2>5 DEF TypeOK, wrRegs, wrSyncs
<1>5. ASSUME NEW wrEna \in BOOLEAN, NEW wrDat \in Data, NEW rdEna \in BOOLEAN,
             NEW rdRst \in RdRst, BothEdges(wrEna, wrDat, rdEna, rdRst)
      PROVE  TypeOK'
  <2>1. wrLead' \in 0 .. WrPerRd /\ rdLead' \in 0 .. RdPerWr
    BY <1>1, <1>5 DEF BothEdges
  <2>2. sent' \in Seq(Data)
    BY <1>5, TypeSentRd, TypeSentWr DEF BothEdges
  <2>3. /\ WrSeq(wrEna, wrDat) /\ RdSeq(rdEna) /\ RdRstSeq(rdRst)
        /\ rdRst \in BOOLEAN
    BY <1>5, LevelType DEF BothEdges
  <2>4. wrPtrGray' \in SUBSET UNION Codes /\ rdPtrGray' \in SUBSET UNION Codes
    BY <1>2, <2>3, WrGrayStep, RdGrayStep, GrayNext DEF TypeOK
  <2>5. rdRstLoc' \in BOOLEAN /\ wrRst' \in BOOLEAN
    BY <1>2, <1>5, <2>3 DEF RdRstSeq, TypeOK, rdReset, BothEdges, WrSync
  <2>6. PICK g \in Sampled(rdPtrGray, rdPtrGray'), rst \in {rdRstLoc, rdRstLoc'} : WrSync(g, rst)
    BY <1>5 DEF BothEdges
  <2>7. PICK g2 \in Sampled(wrPtrGray, wrPtrGray'), rst2 \in {wrRst, wrRst'} : RdSync(g2, rst2)
    BY <1>5 DEF BothEdges
  <2>8. /\ g \in SUBSET UNION Codes /\ g2 \in SUBSET UNION Codes
        /\ rst \in BOOLEAN /\ rst2 \in BOOLEAN
    BY <1>2, <2>4, <2>5, SampledType
  <2>9. /\ mem' \in [Idx -> Words]
        /\ full' \in BOOLEAN /\ wrPtr' \in Idx /\ wrPtrGray' \in Codes
        /\ rdGrayMeta' \in SUBSET UNION Codes /\ rdGraySynced' \in SUBSET UNION Codes
        /\ rstMeta' \in BOOLEAN /\ wrRst' \in BOOLEAN
    BY <1>2, <2>3, <2>6, <2>8, TypeWr
  <2>10. /\ empty' \in BOOLEAN /\ memVld' \in BOOLEAN /\ rdDatLoc' \in Words
         /\ rdPtr' \in Idx /\ rdPtrGray' \in Codes
         /\ outVld' \in BOOLEAN /\ outReg' \in Words
         /\ wrGrayMeta' \in SUBSET UNION Codes /\ wrGraySynced' \in SUBSET UNION Codes
         /\ rtnMeta' \in BOOLEAN /\ wrRstRtn' \in BOOLEAN
         /\ rdRstLoc' \in BOOLEAN /\ rdRstReq' \in BOOLEAN
    BY <1>2, <2>3, <2>7, <2>8, TypeRd
  <2>11. QED
    BY <2>1, <2>2, <2>9, <2>10 DEF TypeOK
<1>6. QED
  BY <1>3, <1>4, <1>5 DEF Next
-----------------------------------------------------------------------------
(* A reset on its way around the loop.                                     *)

\* When the read side has been released, the write side has been cleared: it
\* had an edge since, or else a third edge of the read clock would be due.
LEMMA WrClearFirst ==
  ASSUME IInv, wrRst, ~rdRstLoc, rdLead < RdPerWr
  PROVE  WrClear /\ wrPtrGray = GRAY_INIT
<1>1. RdPerWr <= 2
  BY ClockAssumption DEF IInv, RstInv
<1>2. rdLead \in Int /\ RdPerWr \in Int
  BY ConstantAssumption DEF IInv, TypeOK
<1>3. ~(rdLead >= 2)
  BY <1>1, <1>2
<1>4. WrClear
  BY <1>3 DEF IInv, RstInv
<1>5. QED
  BY <1>4, GrayInit DEF IInv, WrClear

LEMMA RdClearStep ==
  ASSUME IInv, Resetting, rdLead < RdPerWr,
         NEW rdEna, RdSeq(rdEna), NEW rst,
         NEW g \in Sampled(wrPtrGray, GRAY_INIT), RdSync(g, rst)
  PROVE  RdClear'
<1>1. CASE rdRstLoc
  BY <1>1, RdClears DEF IInv
<1>2. CASE ~rdRstLoc
  <2>1. wrRst
    BY <1>2 DEF Resetting
  <2>2. g = GRAY_INIT
    BY <1>2, <2>1, WrClearFirst DEF Sampled
  <2>3. RdClear /\ rdPtrGray = GrayOf(rdPtr)
    BY <1>2, <2>1 DEF IInv, RstInv
  <2>4. QED
    BY <1>2, <2>2, <2>3, RdStaysClear
<1>3. QED
  BY <1>1, <1>2

\* While the write side is in reset an edge of the read clock takes nothing.
LEMMA SentStaysClear ==
  ASSUME IInv, wrRst, WrClear, NEW rdEna
  PROVE  SentAfterRd(sent, rdEna) = <<>>
<1>1. CASE rdRstLoc
  BY <1>1 DEF SentAfterRd
<1>2. CASE ~rdRstLoc
  <2>1. rdEmp
    BY <1>2 DEF IInv, RstInv, RdClear, rdEmp
  <2>2. QED
    BY <1>2, <2>1 DEF SentAfterRd, Taken, WrClear
<1>3. QED
  BY <1>1, <1>2

\* The four ways the request register and the returned reset can meet.
LEMMA RdRstNext ==
  ASSUME IInv, NEW rdRst \in RdRst, RdRstSeq(rdRst)
  PROVE  /\ rdRstLoc' \in BOOLEAN
         /\ wrRstRtn => ~rdRstLoc'
         /\ ~wrRstRtn /\ rdRstLoc => rdRstLoc'
         /\ RdRst = {FALSE} => ~rdRstLoc' /\ ~rdRstReq'
<1>1. rdRst \in BOOLEAN /\ rdRstLoc \in BOOLEAN /\ rdRstReq \in BOOLEAN
  BY LevelType DEF IInv, TypeOK
<1>2. RdRst = {FALSE} => ~rdRst /\ ~rdRstLoc /\ ~rdRstReq
  BY DEF IInv, RstInv
<1>3. QED
  BY <1>1, <1>2 DEF RdRstSeq, rdReset

LEMMA RstStepWr ==
  ASSUME IInv, NEW wrEna \in BOOLEAN, NEW wrDat \in Data, WrEdge(wrEna, wrDat)
  PROVE  RstInv'
<1>1. /\ rdRstLoc' = rdRstLoc /\ rdRstReq' = rdRstReq
      /\ rtnMeta' = rtnMeta /\ wrRstRtn' = wrRstRtn
      /\ rstMeta' = rdRstLoc /\ wrRst' = rstMeta /\ rdLead' = 0
  BY DEF WrEdge, rdReset, rdSyncs, WrSync
<1>2. RdClear' <=> RdClear
  BY DEF WrEdge, rdRegs, rdSyncs, RdClear
<1>3. wrRst => WrClear'
  BY WrClears DEF WrEdge, SentAfterWr
<1>4. RstInv
  BY DEF IInv
<1>5. RdRst = {FALSE} => ~rdRstLoc' /\ ~rdRstReq' /\ ~wrRst'
  BY <1>1, <1>4 DEF RstInv
<1>6. /\ rdRstLoc' => /\ wrRst' => rstMeta'
                      /\ rtnMeta' => wrRst'
                      /\ wrRstRtn' => rtnMeta'
                      /\ rtnMeta' => RdClear'
      /\ ~rdRstLoc' => /\ rstMeta' => wrRst'
                       /\ wrRst' => rtnMeta'
                       /\ rtnMeta' => wrRstRtn'
                       /\ wrRst' => RdClear'
  BY <1>1, <1>2, <1>4 DEF RstInv
<1>7. wrRst' => \/ WrClear'
                \/ ~wrRstRtn' /\ rdRstLoc'
  BY <1>1, <1>3, <1>4 DEF RstInv
<1>8. QED
  BY <1>5, <1>6, <1>7 DEF RstInv

LEMMA RstStepRd ==
  ASSUME IInv, NEW rdEna \in BOOLEAN, NEW rdRst \in RdRst, RdEdge(rdEna, rdRst)
  PROVE  RstInv'
<1>1. /\ rtnMeta' = wrRst /\ wrRstRtn' = rtnMeta
      /\ rstMeta' = rstMeta /\ wrRst' = wrRst /\ rdLead' = rdLead + 1
  BY DEF RdEdge, wrSyncs, RdSync
<1>2. /\ rdRstLoc' \in BOOLEAN
      /\ wrRstRtn => ~rdRstLoc'
      /\ ~wrRstRtn /\ rdRstLoc => rdRstLoc'
      /\ RdRst = {FALSE} => ~rdRstLoc' /\ ~rdRstReq'
  BY RdRstNext DEF RdEdge
<1>3. Resetting => RdClear'
  <2>1. wrPtrGray \in Sampled(wrPtrGray, GRAY_INIT)
    BY DEF Sampled
  <2>2. QED
    BY <2>1, RdClearStep DEF RdEdge
<1>4. RstInv
  BY DEF IInv
<1>5. wrRst /\ WrClear => WrClear'
  <2>1. wrRst /\ WrClear => sent' = <<>>
    BY SentStaysClear DEF RdEdge
  <2>2. QED
    BY <2>1 DEF WrClear, RdEdge, wrRegs, wrSyncs
<1>6. rdLead' \in Int /\ rdLead \in 0 .. RdPerWr /\ rdLead' = rdLead + 1 /\ RdPerWr \in Int
  BY <1>1, ConstantAssumption DEF IInv, TypeOK
<1>7. RdRst = {FALSE} => ~rdRstLoc' /\ ~rdRstReq' /\ ~wrRst'
  BY <1>1, <1>2, <1>4 DEF RstInv
<1>8. /\ rdRstLoc' => /\ wrRst' => rstMeta'
                      /\ rtnMeta' => wrRst'
                      /\ wrRstRtn' => rtnMeta'
                      /\ rtnMeta' => RdClear'
      /\ ~rdRstLoc' => /\ rstMeta' => wrRst'
                       /\ wrRst' => rtnMeta'
                       /\ rtnMeta' => wrRstRtn'
                       /\ wrRst' => RdClear'
  BY <1>1, <1>2, <1>3, <1>4 DEF RstInv, Resetting
<1>9. ASSUME wrRst'
      PROVE  \/ WrClear'
             \/ (wrRstRtn' => rdLead' >= 1) /\ (~rdRstLoc' => rdLead' >= 2)
  <2>1. CASE WrClear
    BY <1>1, <1>5, <1>9, <2>1
  <2>2. CASE ~WrClear
    <3>1. wrRst /\ rdRstLoc
      BY <1>1, <1>9, <2>2, WrClearFirst DEF RdEdge
    <3>2. wrRstRtn => rdLead >= 1
      BY <1>4, <2>2, <3>1 DEF RstInv
    <3>3. ~rdRstLoc' => wrRstRtn
      BY <1>2, <3>1
    <3>4. rdLead' >= 1 /\ (rdLead >= 1 => rdLead' >= 2)
      BY <1>6
    <3>5. QED
      BY <3>2, <3>3, <3>4
  <2>3. QED
    BY <2>1, <2>2
<1>10. QED
  BY <1>7, <1>8, <1>9 DEF RstInv

LEMMA ClearStepBoth ==
  ASSUME IInv, NEW wrEna \in BOOLEAN, NEW wrDat \in Data, NEW rdEna \in BOOLEAN,
         NEW rdRst \in RdRst, BothEdges(wrEna, wrDat, rdEna, rdRst)
  PROVE  (Resetting => RdClear') /\ (wrRst => WrClear')
<1>1. PICK g1 \in Sampled(rdPtrGray, rdPtrGray'), rst1 \in {rdRstLoc, rdRstLoc'} :
        WrSync(g1, rst1)
  BY DEF BothEdges
<1>2. PICK g2 \in Sampled(wrPtrGray, wrPtrGray'), rst2 \in {wrRst, wrRst'} :
        RdSync(g2, rst2)
  BY DEF BothEdges
<1>3. Resetting => RdClear'
  <2>1. CASE rdRstLoc
    BY <1>2, <2>1, RdClears DEF IInv, BothEdges
  <2>2. CASE ~rdRstLoc /\ wrRst
    <3>1. wrPtrGray' = GRAY_INIT
      BY <2>2 DEF BothEdges, WrSeq, WrStore, fullNow, Accepted
    <3>2. QED
      BY <1>2, <2>2, <3>1, RdClearStep DEF BothEdges, Resetting
  <2>3. QED
    BY <2>1, <2>2 DEF Resetting
<1>4. wrRst => WrClear'
  BY <1>1, WrClears DEF BothEdges, SentAfterWr
<1>5. QED
  BY <1>3, <1>4

LEMMA RstStepBoth ==
  ASSUME IInv, NEW wrEna \in BOOLEAN, NEW wrDat \in Data, NEW rdEna \in BOOLEAN,
         NEW rdRst \in RdRst, BothEdges(wrEna, wrDat, rdEna, rdRst)
  PROVE  RstInv'
<1>1. PICK g1 \in Sampled(rdPtrGray, rdPtrGray'), rst1 \in {rdRstLoc, rdRstLoc'} :
        WrSync(g1, rst1)
  BY DEF BothEdges
<1>2. PICK g2 \in Sampled(wrPtrGray, wrPtrGray'), rst2 \in {wrRst, wrRst'} :
        RdSync(g2, rst2)
  BY DEF BothEdges
<1>3. /\ rstMeta' \in {rdRstLoc, rdRstLoc'} /\ wrRst' = rstMeta
      /\ rtnMeta' \in {wrRst, rstMeta} /\ wrRstRtn' = rtnMeta
  BY <1>1, <1>2 DEF WrSync, RdSync
<1>4. /\ rdRstLoc' \in BOOLEAN
      /\ wrRstRtn => ~rdRstLoc'
      /\ ~wrRstRtn /\ rdRstLoc => rdRstLoc'
      /\ RdRst = {FALSE} => ~rdRstLoc' /\ ~rdRstReq'
  BY RdRstNext DEF BothEdges
<1>5. RstInv
  BY DEF IInv
<1>6. Resetting => RdClear'
  BY ClearStepBoth
<1>7. wrRst => WrClear'
  BY ClearStepBoth
<1>8. rdRstLoc \in BOOLEAN /\ wrRst \in BOOLEAN /\ rstMeta \in BOOLEAN /\ rtnMeta \in BOOLEAN /\ wrRstRtn \in BOOLEAN
  BY DEF IInv, TypeOK
<1>9. RdRst = {FALSE} => ~rdRstLoc' /\ ~rdRstReq' /\ ~wrRst'
  BY <1>3, <1>4, <1>5 DEF RstInv
<1>10. /\ rdRstLoc' => /\ wrRst' => rstMeta'
                       /\ rtnMeta' => wrRst'
                       /\ wrRstRtn' => rtnMeta'
                       /\ rtnMeta' => RdClear'
       /\ ~rdRstLoc' => /\ rstMeta' => wrRst'
                        /\ wrRst' => rtnMeta'
                        /\ rtnMeta' => wrRstRtn'
                        /\ wrRst' => RdClear'
  BY <1>3, <1>4, <1>5, <1>6, <1>8 DEF RstInv, Resetting
<1>11. wrRst' => \/ WrClear'
                 \/ ~wrRstRtn' /\ rdRstLoc'
  BY <1>3, <1>4, <1>5, <1>7, <1>8 DEF RstInv
<1>12. QED
  BY <1>9, <1>10, <1>11 DEF RstInv

\* When a reset has passed both sides are clear.
LEMMA RunAfterReset ==
  ASSUME IInv, Next, Resetting, ~Resetting'
  PROVE  RunInv'
<1>1. RstInv /\ rdRstLoc \in BOOLEAN /\ wrRst \in BOOLEAN
  BY DEF IInv, TypeOK
<1>2. WrClear' /\ RdClear'
  <2>1. ASSUME NEW wrEna \in BOOLEAN, NEW wrDat \in Data, WrEdge(wrEna, wrDat)
        PROVE  WrClear' /\ RdClear'
    <3>1. ~rdRstLoc /\ wrRst
      BY <2>1 DEF WrEdge, rdReset, Resetting
    <3>2. WrClear'
      BY <2>1, <3>1, WrClears DEF WrEdge, SentAfterWr
    <3>3. RdClear'
      BY <1>1, <2>1, <3>1 DEF RstInv, RdClear, WrEdge, rdRegs, rdSyncs
    <3>4. QED
      BY <3>2, <3>3
  <2>2. ASSUME NEW rdEna \in BOOLEAN, NEW rdRst \in RdRst, RdEdge(rdEna, rdRst)
        PROVE  FALSE
    <3>1. rdRstLoc /\ ~wrRst /\ ~rdRstLoc'
      BY <2>2 DEF RdEdge, wrSyncs, Resetting
    <3>2. ~wrRstRtn
      BY <1>1, <3>1 DEF RstInv
    <3>3. QED
      BY <2>2, <3>1, <3>2, RdRstNext DEF RdEdge
  <2>3. ASSUME NEW wrEna \in BOOLEAN, NEW wrDat \in Data, NEW rdEna \in BOOLEAN,
               NEW rdRst \in RdRst, BothEdges(wrEna, wrDat, rdEna, rdRst)
        PROVE  WrClear' /\ RdClear'
    <3>1. ~rstMeta /\ ~rdRstLoc'
      BY <2>3 DEF BothEdges, WrSync, Resetting
    <3>2. rdRstLoc => ~wrRstRtn
      BY <1>1, <3>1 DEF RstInv
    <3>3. ~rdRstLoc
      BY <2>3, <3>1, <3>2, RdRstNext DEF BothEdges
    <3>4. QED
      BY <2>3, <3>3, ClearStepBoth DEF Resetting
  <2>4. QED
    BY <2>1, <2>2, <2>3 DEF Next
<1>3. QED
  BY <1>2, ClearRun, PTL
-----------------------------------------------------------------------------
(* The steps of the running FIFO.                                          *)

LEMMA RunStepWr ==
  ASSUME IInv, ~Resetting, NEW wrEna \in BOOLEAN, NEW wrDat \in Data,
         WrEdge(wrEna, wrDat)
  PROVE  RunInv'
<1>1. /\ TypeOK /\ RunInv /\ wrPtrGray = GrayOf(wrPtr) /\ rdPtrGray = GrayOf(rdPtr)
      /\ ~wrRst /\ WrSeq(wrEna, wrDat) /\ rdPtr \in Idx
      /\ sent \in Seq(Data) /\ Len(sent) \in Nat /\ NHeld \in 0 .. 2
      /\ InMem \in 0 .. Depth /\ Depth \in Nat
  BY ConstantAssumption DEF IInv, Resetting, WrEdge, TypeOK, RunInv, NHeld
<1>2. NHeld \in 0 .. Len(sent) /\ Len(sent) - NHeld = InMem
  BY <1>1 DEF InMem
<1>3. InMemory(sent, mem, rdPtr, NHeld) /\ Behind(rdPtr, InMem, wrPtr)
  BY <1>1 DEF RunInv, Contents
<1>4. /\ rdPtr' = rdPtr /\ NHeld' = NHeld /\ outVld' = outVld /\ memVld' = memVld
      /\ outReg' = outReg /\ rdDatLoc' = rdDatLoc /\ empty' = empty
      /\ wrGrayMeta' = wrGrayMeta /\ wrGraySynced' = wrGraySynced
      /\ rdGrayMeta' = rdPtrGray /\ rdGraySynced' = rdGrayMeta
  BY <1>1 DEF WrEdge, rdRegs, rdSyncs, NHeld, WrSync
<1>5. PICK s2 : s2 = SentAfterWr(sent, wrEna, wrDat)
  OBVIOUS
<1>6. /\ s2 \in Seq(Data)
      /\ \A i \in 1 .. Len(sent) : s2[i] = sent[i]
      /\ InMemory(s2, mem', rdPtr, NHeld)
      /\ wrPtr' \in Idx
      /\ \E a \in {0, 1} :
           /\ Len(s2) = Len(sent) + a
           /\ Behind(rdPtr, InMem + a, wrPtr')
           /\ \E r1, r2 \in Idx, k1, k2 \in 0 .. Depth :
                /\ rdGrayMeta = GrayOf(r1) /\ Behind(r1, k1, wrPtr')
                /\ rdGraySynced = GrayOf(r2) /\ Behind(r2, k2, wrPtr')
                /\ InMem + a <= k1 /\ k1 <= k2
                /\ k2 = Depth => full'
  BY <1>1, <1>2, <1>3, <1>5, WriteStep
<1>7. PICK a \in {0, 1} :
        /\ Len(s2) = Len(sent) + a
        /\ Behind(rdPtr, InMem + a, wrPtr')
        /\ \E r1, r2 \in Idx, k1, k2 \in 0 .. Depth :
             /\ rdGrayMeta = GrayOf(r1) /\ Behind(r1, k1, wrPtr')
             /\ rdGraySynced = GrayOf(r2) /\ Behind(r2, k2, wrPtr')
             /\ InMem + a <= k1 /\ k1 <= k2
             /\ k2 = Depth => full'
  BY <1>6
<1>8. PICK r1, r2 \in Idx, k1, k2 \in 0 .. Depth :
        /\ rdGrayMeta = GrayOf(r1) /\ Behind(r1, k1, wrPtr')
        /\ rdGraySynced = GrayOf(r2) /\ Behind(r2, k2, wrPtr')
        /\ InMem + a <= k1 /\ k1 <= k2
        /\ k2 = Depth => full'
  BY <1>7
<1>9. sent' = s2
  BY <1>5 DEF WrEdge
<1>10. InMem' = InMem + a /\ InMem + a \in 0 .. Depth
  BY <1>1, <1>2, <1>4, <1>7, <1>8, <1>9 DEF InMem
<1>11. Behind(rdPtr', InMem', wrPtr')
  BY <1>4, <1>7, <1>10
<1>12. WrView(InMem)'
  <2>1. k1 = Depth => full'
    BY <1>1, <1>8
  <2>2. rdGrayMeta' = GrayOf(rdPtr) /\ rdGraySynced' = GrayOf(r1)
    BY <1>1, <1>4, <1>8
  <2>3. \E q1, q2 \in Idx, j1, j2 \in 0 .. Depth :
          /\ rdGrayMeta' = GrayOf(q1) /\ Behind(q1, j1, wrPtr')
          /\ rdGraySynced' = GrayOf(q2) /\ Behind(q2, j2, wrPtr')
          /\ InMem' <= j1 /\ j1 <= j2
          /\ j2 = Depth => full'
    BY <1>1, <1>7, <1>8, <1>10, <2>1, <2>2
  <2>4. QED
    BY <2>3 DEF WrView, Behind, GrayOf
<1>13. RdView(InMem)'
  <2>1. PICK w1, w2 \in Idx, j1, j2 \in 0 .. Depth :
          /\ wrGrayMeta = GrayOf(w1) /\ Behind(rdPtr, j1, w1)
          /\ wrGraySynced = GrayOf(w2) /\ Behind(rdPtr, j2, w2)
          /\ j2 <= j1 /\ j1 <= InMem
          /\ j2 = 0 => empty
    BY <1>1 DEF RunInv, RdView
  <2>2. j1 <= InMem'
    BY <1>1, <1>10, <2>1
  <2>3. QED
    BY <1>4, <2>1, <2>2 DEF RdView, Behind, GrayOf
<1>14. Contents'
  <2>1. outVld => NHeld >= 1 /\ sent[1] = outReg
    BY <1>1 DEF NHeld, RunInv, Contents
  <2>2. memVld => NHeld >= 1 /\ sent[NHeld] = rdDatLoc
    BY <1>1 DEF NHeld, RunInv, Contents
  <2>3. outVld' => sent'[1] = outReg'
    BY <1>1, <1>2, <1>4, <1>6, <1>9, <2>1
  <2>4. memVld' => sent'[NHeld'] = rdDatLoc'
    BY <1>1, <1>2, <1>4, <1>6, <1>9, <2>2
  <2>5. InMemory(sent', mem', rdPtr', NHeld')
    BY <1>4, <1>6, <1>9
  <2>6. QED
    BY <2>3, <2>4, <2>5 DEF Contents, InMemory, At
<1>15. QED
  BY <1>10, <1>11, <1>12, <1>13, <1>14 DEF RunInv, Behind

LEMMA RunStepRd ==
  ASSUME IInv, ~Resetting, NEW rdEna \in BOOLEAN, NEW rdRst \in RdRst,
         RdEdge(rdEna, rdRst)
  PROVE  RunInv'
<1>1. /\ TypeOK /\ RunInv /\ rdPtrGray = GrayOf(rdPtr) /\ wrPtrGray = GrayOf(wrPtr)
      /\ ~OutReg => ~outVld
      /\ ~rdRstLoc /\ RdSeqRun(rdEna) /\ RdOutReg(rdEna)
      /\ wrPtr \in Idx /\ InMem \in 0 .. Depth /\ Depth \in Nat
  BY ConstantAssumption
     DEF IInv, Resetting, RdEdge, RdSeq, RdSeqReset, TypeOK, RunInv
<1>2. PICK s : s = SentAfterRd(sent, rdEna)
  OBVIOUS
<1>3. /\ rdPtr' \in Idx
      /\ Len(s) - NHeld' \in 0 .. InMem /\ Behind(rdPtr', Len(s) - NHeld', wrPtr)
      /\ outVld' => s[1] = outReg'
      /\ memVld' => s[NHeld'] = rdDatLoc'
      /\ InMemory(s, mem, rdPtr', NHeld')
      /\ \E w1, w2 \in Idx, k1, k2 \in 0 .. Depth :
           /\ wrGrayMeta = GrayOf(w1) /\ Behind(rdPtr', k1, w1)
           /\ wrGraySynced = GrayOf(w2) /\ Behind(rdPtr', k2, w2)
           /\ k2 <= k1 /\ k1 <= Len(s) - NHeld'
           /\ k2 = 0 => empty'
  BY <1>1, <1>2, ReadStep
<1>4. /\ wrPtr' = wrPtr /\ mem' = mem /\ full' = full
      /\ rdGrayMeta' = rdGrayMeta /\ rdGraySynced' = rdGraySynced
      /\ wrGrayMeta' = wrPtrGray /\ wrGraySynced' = wrGrayMeta
      /\ sent' = s
  BY <1>1, <1>2 DEF RdEdge, wrRegs, wrSyncs, RdSync
<1>5. InMem' = Len(s) - NHeld' /\ InMem' \in 0 .. InMem /\ InMem' \in 0 .. Depth
  BY <1>1, <1>3, <1>4 DEF InMem
<1>6. Behind(rdPtr', InMem', wrPtr')
  BY <1>3, <1>4, <1>5
<1>7. WrView(InMem)'
  <2>1. PICK r1, r2 \in Idx, k1, k2 \in 0 .. Depth :
          /\ rdGrayMeta = GrayOf(r1) /\ Behind(r1, k1, wrPtr)
          /\ rdGraySynced = GrayOf(r2) /\ Behind(r2, k2, wrPtr)
          /\ InMem <= k1 /\ k1 <= k2
          /\ k2 = Depth => full
    BY <1>1 DEF RunInv, WrView
  <2>2. InMem' <= k1
    BY <1>1, <1>5, <2>1
  <2>3. QED
    BY <1>4, <2>1, <2>2 DEF WrView, Behind, GrayOf
<1>8. RdView(InMem)'
  <2>1. PICK w1, w2 \in Idx, k1, k2 \in 0 .. Depth :
          /\ wrGrayMeta = GrayOf(w1) /\ Behind(rdPtr', k1, w1)
          /\ wrGraySynced = GrayOf(w2) /\ Behind(rdPtr', k2, w2)
          /\ k2 <= k1 /\ k1 <= Len(s) - NHeld'
          /\ k2 = 0 => empty'
    BY <1>3
  <2>2. k1 = 0 => empty'
    BY <1>1, <2>1
  <2>3. \E q1, q2 \in Idx, j1, j2 \in 0 .. Depth :
          /\ wrGrayMeta' = GrayOf(q1) /\ Behind(rdPtr', j1, q1)
          /\ wrGraySynced' = GrayOf(q2) /\ Behind(rdPtr', j2, q2)
          /\ j2 <= j1 /\ j1 <= InMem'
          /\ j2 = 0 => empty'
    BY <1>1, <1>4, <1>5, <1>6, <2>1, <2>2
  <2>4. QED
    BY <2>3 DEF RdView, Behind, GrayOf
<1>9. Contents'
  BY <1>3, <1>4 DEF Contents, InMemory, At
<1>10. QED
  BY <1>5, <1>6, <1>7, <1>8, <1>9 DEF RunInv, Behind

LEMMA RunStepBoth ==
  ASSUME IInv, ~Resetting, NEW wrEna \in BOOLEAN, NEW wrDat \in Data,
         NEW rdEna \in BOOLEAN, NEW rdRst \in RdRst,
         BothEdges(wrEna, wrDat, rdEna, rdRst)
  PROVE  RunInv'
<1>1. /\ TypeOK /\ RunInv /\ rdPtrGray = GrayOf(rdPtr) /\ wrPtrGray = GrayOf(wrPtr)
      /\ ~OutReg => ~outVld
      /\ ~rdRstLoc /\ RdSeqRun(rdEna) /\ RdOutReg(rdEna)
      /\ ~wrRst /\ WrSeq(wrEna, wrDat)
      /\ wrPtr \in Idx /\ rdPtr \in Idx /\ InMem \in 0 .. Depth /\ Depth \in Nat
  BY ConstantAssumption
     DEF IInv, Resetting, BothEdges, RdSeq, RdSeqReset, TypeOK, RunInv
<1>2. PICK s, p, h, s2 :
        /\ s = SentAfterRd(sent, rdEna) /\ p = rdPtr' /\ h = NHeld'
        /\ s2 = SentAfterWr(s, wrEna, wrDat)
  OBVIOUS
<1>3. /\ s \in Seq(Data)
      /\ rdPtr' \in {rdPtr, Inc(rdPtr)} /\ p \in Idx /\ rdPtrGray' = GrayOf(p)
      /\ Len(s) - h \in 0 .. InMem /\ Behind(p, Len(s) - h, wrPtr)
      /\ outVld' => s[1] = outReg'
      /\ memVld' => s[h] = rdDatLoc'
      /\ InMemory(s, mem, p, h)
      /\ h \in 0 .. Len(s)
      /\ \E w1, w2 \in Idx, k1, k2 \in 0 .. Depth :
           /\ wrGrayMeta = GrayOf(w1) /\ Behind(p, k1, w1)
           /\ wrGraySynced = GrayOf(w2) /\ Behind(p, k2, w2)
           /\ k2 <= k1 /\ k1 <= Len(s) - h
           /\ k2 = 0 => empty'
  BY <1>1, <1>2, ReadStep
<1>4. /\ s2 \in Seq(Data)
      /\ \A i \in 1 .. Len(s) : s2[i] = s[i]
      /\ InMemory(s2, mem', p, h)
      /\ wrPtrGray' = GrayOf(wrPtr') /\ wrPtr' \in {wrPtr, Inc(wrPtr)} /\ wrPtr' \in Idx
      /\ \E a \in {0, 1} :
           /\ Len(s2) = Len(s) + a
           /\ Behind(rdPtr, InMem + a, wrPtr')
           /\ Behind(p, Len(s) - h + a, wrPtr')
           /\ \E r1, r2 \in Idx, k1, k2 \in 0 .. Depth :
                /\ rdGrayMeta = GrayOf(r1) /\ Behind(r1, k1, wrPtr')
                /\ rdGraySynced = GrayOf(r2) /\ Behind(r2, k2, wrPtr')
                /\ InMem + a <= k1 /\ k1 <= k2
                /\ k2 = Depth => full'
  <2>1. /\ TypeOK /\ RunInv /\ wrPtrGray = GrayOf(wrPtr) /\ ~wrRst
        /\ wrEna \in BOOLEAN /\ wrDat \in Data /\ WrSeq(wrEna, wrDat)
        /\ s \in Seq(Data) /\ p \in Idx /\ h \in 0 .. Len(s)
        /\ Len(s) - h \in 0 .. InMem /\ Behind(p, Len(s) - h, wrPtr)
        /\ InMemory(s, mem, p, h)
        /\ s2 = SentAfterWr(s, wrEna, wrDat)
    BY <1>1, <1>2, <1>3
  <2>2. QED
    BY ONLY <2>1, WriteStep
<1>5. PICK a \in {0, 1} :
        /\ Len(s2) = Len(s) + a
        /\ Behind(rdPtr, InMem + a, wrPtr')
        /\ Behind(p, Len(s) - h + a, wrPtr')
        /\ \E r1, r2 \in Idx, k1, k2 \in 0 .. Depth :
             /\ rdGrayMeta = GrayOf(r1) /\ Behind(r1, k1, wrPtr')
             /\ rdGraySynced = GrayOf(r2) /\ Behind(r2, k2, wrPtr')
             /\ InMem + a <= k1 /\ k1 <= k2
             /\ k2 = Depth => full'
  BY <1>4
<1>6. PICK r1, r2 \in Idx, k1, k2 \in 0 .. Depth :
        /\ rdGrayMeta = GrayOf(r1) /\ Behind(r1, k1, wrPtr')
        /\ rdGraySynced = GrayOf(r2) /\ Behind(r2, k2, wrPtr')
        /\ InMem + a <= k1 /\ k1 <= k2
        /\ k2 = Depth => full'
  BY <1>5
<1>7. PICK w1, w2 \in Idx, j1, j2 \in 0 .. Depth :
        /\ wrGrayMeta = GrayOf(w1) /\ Behind(p, j1, w1)
        /\ wrGraySynced = GrayOf(w2) /\ Behind(p, j2, w2)
        /\ j2 <= j1 /\ j1 <= Len(s) - h
        /\ j2 = 0 => empty'
  BY <1>3
<1>8. /\ rdGraySynced' = rdGrayMeta /\ wrGraySynced' = wrGrayMeta
      /\ rdGrayMeta' = GrayOf(rdPtr) \/ rdGrayMeta' = GrayOf(p)
      /\ wrGrayMeta' = GrayOf(wrPtr) \/ wrGrayMeta' = GrayOf(wrPtr')
  <2>1. PICK g \in Sampled(rdPtrGray, rdPtrGray'), rst \in {rdRstLoc, rdRstLoc'} : WrSync(g, rst)
    BY DEF BothEdges
  <2>2. PICK g2 \in Sampled(wrPtrGray, wrPtrGray'), rst2 \in {wrRst, wrRst'} : RdSync(g2, rst2)
    BY DEF BothEdges
  <2>3. g = GrayOf(rdPtr) \/ g = GrayOf(p)
    BY <1>1, <1>2, <1>3, SampledPointer
  <2>4. PICK q : q = wrPtr'
    OBVIOUS
  <2>5. g2 = GrayOf(wrPtr) \/ g2 = GrayOf(q)
    BY <1>1, <1>4, <2>4, SampledPointer
  <2>6. QED
    BY <1>1, <2>1, <2>2, <2>3, <2>4, <2>5 DEF WrSync, RdSync
<1>9. sent' = s2
  BY <1>2 DEF BothEdges
<1>10. /\ h \in Nat /\ Len(s) \in Nat /\ Len(s) - h \in 0 .. InMem
       /\ InMem' = Len(s) - h + a /\ InMem' \in 0 .. Depth /\ InMem' <= InMem + a
       /\ InMem + a \in 0 .. Depth /\ Len(s) - h \in 0 .. Depth /\ Len(s) - h <= InMem'
  <2>1. h \in Nat /\ Len(s) \in Nat /\ Len(s2) \in Nat /\ InMem' = Len(s2) - h
    <3>1. Len(s) \in Nat /\ Len(s2) \in Nat /\ h \in 0 .. Len(s)
      <4>1. s \in Seq(Data) /\ s2 \in Seq(Data) /\ h \in 0 .. Len(s)
        BY <1>3, <1>4
      <4>2. QED
        BY ONLY <4>1
    <3>2. InMem' = Len(s2) - h
      BY <1>2, <1>9 DEF InMem
    <3>3. QED
      BY <3>1, <3>2
  <2>2. InMem + a \in 0 .. Depth
    BY <1>1, <1>5, <1>6
  <2>3. InMem' = Len(s) - h + a
    BY <1>3, <1>5, <2>1
  <2>4. QED
    BY <1>1, <1>3, <2>1, <2>2, <2>3
<1>11. Behind(rdPtr', InMem', wrPtr')
  BY <1>2, <1>5, <1>10
<1>12. WrView(InMem)'
  <2>1. k1 = Depth => full'
    BY <1>1, <1>6
  <2>2. InMem' <= k1 /\ InMem + a <= k1
    BY <1>1, <1>6, <1>10
  <2>3. PICK q \in Idx, k \in 0 .. Depth :
          rdGrayMeta' = GrayOf(q) /\ Behind(q, k, wrPtr') /\ InMem' <= k /\ k <= k1
    <3>1. CASE rdGrayMeta' = GrayOf(rdPtr)
      BY <1>1, <1>5, <1>10, <2>2, <3>1
    <3>2. CASE rdGrayMeta' = GrayOf(p)
      <4>1. /\ p \in Idx /\ Len(s) - h + a \in 0 .. Depth
            /\ Behind(p, Len(s) - h + a, wrPtr') /\ InMem' <= Len(s) - h + a
        BY <1>3, <1>5, <1>10
      <4>2. Len(s) - h + a <= k1
        BY <1>10, <2>2
      <4>3. QED
        BY <3>2, <4>1, <4>2
    <3>3. QED
      BY <1>8, <3>1, <3>2
  <2>4. /\ rdGrayMeta' = GrayOf(q) /\ Behind(q, k, wrPtr')
        /\ rdGraySynced' = GrayOf(r1) /\ Behind(r1, k1, wrPtr')
        /\ InMem' <= k /\ k <= k1 /\ (k1 = Depth => full')
    BY <1>6, <1>8, <2>1, <2>3
  <2>5. QED
    BY <2>4 DEF WrView, Behind, GrayOf
<1>13. RdView(InMem)'
  <2>1. j1 = 0 => empty'
    BY <1>1, <1>7
  <2>2. PICK q \in Idx, k \in 0 .. Depth :
          wrGrayMeta' = GrayOf(q) /\ Behind(p, k, q) /\ j1 <= k /\ k <= InMem'
    <3>1. CASE wrGrayMeta' = GrayOf(wrPtr)
      BY <1>1, <1>3, <1>7, <1>10, <3>1
    <3>2. CASE wrGrayMeta' = GrayOf(wrPtr')
      <4>1. Behind(p, InMem', wrPtr') /\ j1 <= InMem'
        BY <1>5, <1>7, <1>10
      <4>2. wrPtr' \in Idx /\ InMem' \in 0 .. Depth
        BY <1>4, <1>10
      <4>3. PICK q, k : q = wrPtr' /\ k = InMem'
        OBVIOUS
      <4>4. q \in Idx /\ k \in 0 .. Depth
        BY <4>2, <4>3
      <4>5. wrGrayMeta' = GrayOf(q) /\ Behind(p, k, q) /\ j1 <= k /\ k <= InMem'
        <5>1. InMem' <= InMem'
          BY <4>2
        <5>2. QED
          BY <3>2, <4>1, <4>3, <5>1
      <4>6. QED
        BY <4>4, <4>5
    <3>3. QED
      BY <1>8, <3>1, <3>2
  <2>3. /\ wrGrayMeta' = GrayOf(q) /\ Behind(rdPtr', k, q)
        /\ wrGraySynced' = GrayOf(w1) /\ Behind(rdPtr', j1, w1)
        /\ j1 <= k /\ k <= InMem' /\ (j1 = 0 => empty')
    BY <1>2, <1>7, <1>8, <2>1, <2>2
  <2>4. QED
    BY <2>3 DEF RdView, Behind, GrayOf
<1>14. Contents'
  <2>1. /\ outVld' => s[1] = outReg' /\ h >= 1
        /\ memVld' => s[h] = rdDatLoc' /\ h >= 1
    BY <1>2, <1>3 DEF NHeld
  <2>2. h >= 1 => 1 \in 1 .. Len(s) /\ h \in 1 .. Len(s)
    BY <1>3, <1>10
  <2>3. outVld' => s2[1] = outReg'
    BY <1>4, <2>1, <2>2
  <2>4. memVld' => s2[h] = rdDatLoc'
    BY <1>4, <2>1, <2>2
  <2>5. QED
    BY <1>2, <1>4, <1>9, <2>3, <2>4 DEF Contents, InMemory, At
<1>15. QED
  BY <1>10, <1>11, <1>12, <1>13, <1>14 DEF RunInv, Behind

LEMMA RunStep ==
  ASSUME IInv, Next, ~Resetting'
  PROVE  RunInv'
<1>1. CASE Resetting
  BY <1>1, RunAfterReset
<1>2. CASE ~Resetting
  BY <1>2, RunStepWr, RunStepRd, RunStepBoth DEF Next
<1>3. QED
  BY <1>1, <1>2

LEMMA GrayStep ==
  ASSUME IInv, Next
  PROVE  /\ wrPtrGray' = GrayOf(wrPtr') /\ rdPtrGray' = GrayOf(rdPtr')
         /\ ~OutReg => ~outVld'
<1>1. /\ wrPtr \in Idx /\ wrPtrGray = GrayOf(wrPtr)
      /\ rdPtr \in Idx /\ rdPtrGray = GrayOf(rdPtr)
      /\ ~OutReg => ~outVld
  BY DEF IInv, TypeOK
<1>2. ASSUME NEW wrEna \in BOOLEAN, NEW wrDat \in Data, WrSeq(wrEna, wrDat)
      PROVE  wrPtrGray' = GrayOf(wrPtr')
  BY <1>1, <1>2, WrGrayStep
<1>3. ASSUME NEW rdEna \in BOOLEAN, RdSeq(rdEna)
      PROVE  rdPtrGray' = GrayOf(rdPtr') /\ (~OutReg => ~outVld')
  BY <1>1, <1>3, RdGrayStep DEF RdSeq, RdOutReg
<1>4. ASSUME UNCHANGED wrRegs
      PROVE  wrPtrGray' = GrayOf(wrPtr')
  BY <1>1, <1>4 DEF wrRegs
<1>5. ASSUME UNCHANGED rdRegs
      PROVE  rdPtrGray' = GrayOf(rdPtr') /\ (~OutReg => ~outVld')
  BY <1>1, <1>5 DEF rdRegs
<1>6. QED
  BY <1>2, <1>3, <1>4, <1>5 DEF Next, WrEdge, RdEdge, BothEdges
-----------------------------------------------------------------------------
(* The theorems.                                                           *)

\* The invariant is inductive.
THEOREM Inductive == Spec => []IInv
<1>1. Init => IInv
  BY InitIInv
<1>2. IInv /\ [Next]_vars => IInv'
  <2> SUFFICES ASSUME IInv, [Next]_vars PROVE IInv'
    OBVIOUS
  <2>1. CASE Next
    <3>1. TypeOK'
      BY <2>1, TypeStep
    <3>2. wrPtrGray' = GrayOf(wrPtr') /\ rdPtrGray' = GrayOf(rdPtr') /\ (~OutReg => ~outVld')
      BY <2>1, GrayStep
    <3>3. RstInv'
      BY <2>1, RstStepWr, RstStepRd, RstStepBoth DEF Next
    <3>4. ~Resetting' => RunInv'
      BY <2>1, RunStep
    <3>5. QED
      BY <3>1, <3>2, <3>3, <3>4 DEF IInv, GrayOf, Prev
  <2>2. CASE UNCHANGED vars
    <3>1. UNCHANGED <<wrRegs, wrSyncs, rdRegs, rdSyncs, rdReset, clocks, sent>>
      BY <2>2 DEF vars
    <3>2. TypeOK'
      BY <3>1 DEF IInv, TypeOK, wrRegs, wrSyncs, rdRegs, rdSyncs, rdReset, clocks
    <3>3. RstInv'
      BY <3>1 DEF IInv, RstInv, WrClear, RdClear, wrRegs, wrSyncs, rdRegs, rdSyncs, rdReset, clocks
    <3>4. wrPtrGray' = GrayOf(wrPtr') /\ rdPtrGray' = GrayOf(rdPtr') /\ (~OutReg => ~outVld')
      BY <3>1 DEF IInv, wrRegs, rdRegs
    <3>5. ~Resetting' => RunInv'
      <4>1. Resetting' <=> Resetting
        BY <3>1 DEF Resetting, wrSyncs, rdReset
      <4>2. InMem' = InMem /\ NHeld' = NHeld
        BY <3>1 DEF InMem, NHeld, rdRegs
      <4>3. WrView(InMem) => WrView(InMem)'
        BY <3>1, <4>2 DEF WrView, Behind, GrayOf, Prev, wrRegs, wrSyncs
      <4>4. RdView(InMem) => RdView(InMem)'
        BY <3>1, <4>2 DEF RdView, Behind, GrayOf, Prev, rdRegs, rdSyncs
      <4>5. Contents => Contents'
        BY <3>1, <4>2 DEF Contents, InMemory, At, rdRegs, wrRegs
      <4>6. RunInv => RunInv'
        BY <3>1, <4>2, <4>3, <4>4, <4>5 DEF RunInv, Behind, wrRegs, rdRegs
      <4>7. QED
        BY <4>1, <4>6 DEF IInv
    <3>6. QED
      BY <3>2, <3>3, <3>4, <3>5 DEF IInv, GrayOf, Prev
  <2>3. QED
    BY <2>1, <2>2
<1>3. QED
  BY <1>1, <1>2, PTL DEF Spec

\* Type correctness.
THEOREM TypeCorrect == Spec => []TypeOK
<1>1. IInv => TypeOK
  BY DEF IInv
<1>2. QED
  BY <1>1, Inductive, PTL

\* The FIFO holds exactly the accepted words in their order.
THEOREM Order == Spec => []InOrder
<1>1. IInv => InOrder
  <2> SUFFICES ASSUME IInv, ~Resetting PROVE InOrder
    BY DEF InOrder
  <2>1. /\ InMem \in 0 .. Depth /\ Behind(rdPtr, InMem, wrPtr) /\ Contents
        /\ rdPtr \in 0 .. Depth - 1 /\ wrPtr \in 0 .. Depth - 1 /\ Depth \in Nat
    BY ConstantAssumption DEF IInv, RunInv, TypeOK, Idx
  <2>2. At(rdPtr, InMem) = wrPtr
    BY <2>1 DEF At, Behind
  <2>3. \A i \in 0 .. InMem - 1 : sent[NHeld + i + 1] = mem[At(rdPtr, i)]
    BY <2>1 DEF Contents, InMemory, InMem
  <2>4. QED
    BY <2>1, <2>2, <2>3 DEF InOrder, Contents
<1>2. QED
  BY <1>1, Inductive, PTL

\* The reader only sees the oldest word.
THEOREM OldestOffered == Spec => []HeadOffered
<1>1. IInv => HeadOffered
  <2> SUFFICES ASSUME IInv, ~Resetting, ~rdEmp PROVE sent # <<>> /\ rdDat = Head(sent)
    BY DEF HeadOffered
  <2>1. /\ RunInv /\ sent \in Seq(Data) /\ Len(sent) \in Nat
        /\ InMem \in 0 .. Depth /\ Depth \in Nat /\ NHeld \in Nat /\ OutReg \in BOOLEAN
        /\ ~OutReg => ~outVld
    BY ConstantAssumption DEF IInv, RunInv, TypeOK, NHeld
  <2>2. NHeld >= 1 /\ sent[1] = rdDat
    BY <2>1 DEF RunInv, Contents, NHeld, rdEmp, rdDat
  <2>3. Len(sent) >= 1
    BY <2>1, <2>2 DEF InMem
  <2>4. QED
    BY <2>1, <2>2, <2>3
<1>2. QED
  BY <1>1, Inductive, PTL

\* The optimistic flags may be late, never wrong.
THEOREM Flags == Spec => []FlagsSound
<1>1. IInv => FlagsSound
  <2> SUFFICES ASSUME IInv, ~Resetting PROVE (wrEmp => InMem = 0) /\ (rdFul => InMem = Depth)
    BY DEF FlagsSound
  <2>1. /\ RunInv /\ InMem \in 0 .. Depth /\ Depth \in Nat
        /\ wrPtr \in Idx /\ wrPtrGray = GrayOf(wrPtr)
        /\ rdPtr \in Idx /\ rdPtrGray = GrayOf(rdPtr)
    BY ConstantAssumption DEF IInv, RunInv, TypeOK
  <2>2. ASSUME wrEmp PROVE InMem = 0
    <3>1. PICK r2 \in Idx, k1, k2 \in 0 .. Depth :
            /\ rdGraySynced = GrayOf(r2) /\ Behind(r2, k2, wrPtr)
            /\ InMem <= k1 /\ k1 <= k2
            /\ k2 = Depth => full
      BY <2>1 DEF RunInv, WrView
    <3>2. r2 = wrPtr
      BY <2>1, <2>2, <3>1, GrayInjective DEF wrEmp
    <3>3. k2 = 0
      BY <2>1, <2>2, <3>1, <3>2 DEF wrEmp, Behind, Idx
    <3>4. QED
      BY <2>1, <3>1, <3>3
  <2>3. ASSUME rdFul PROVE InMem = Depth
    <3>1. PICK w2 \in Idx, k1, k2 \in 0 .. Depth :
            /\ wrGraySynced = GrayOf(w2) /\ Behind(rdPtr, k2, w2)
            /\ k2 <= k1 /\ k1 <= InMem
            /\ k2 = 0 => empty
      BY <2>1 DEF RunInv, RdView
    <3>2. w2 = rdPtr
      BY <2>1, <2>3, <3>1, GrayInjective DEF rdFul
    <3>3. k2 = Depth
      BY <2>1, <2>3, <3>1, <3>2 DEF rdFul, Behind, Idx
    <3>4. QED
      BY <2>1, <3>1, <3>3
  <2>4. QED
    BY <2>2, <2>3
<1>2. QED
  BY <1>1, Inductive, PTL
-----------------------------------------------------------------------------
(* A small instance, for TLC.                                              *)

\* Pointers of two bits, with the Gray code of the source.
MCbin2Gray == Bin2GrayTable(2)
=============================================================================
