----------------------------- MODULE Display_proofs -----------------------------
(***************************************************************************)
(* Theorems about Display, for every number of buffers and writers.        *)
(*                                                                         *)
(* A buffer is counted once for everybody who holds it; a writer holds it  *)
(* twice while its creator's reference is not given up yet.  Who is held   *)
(* by nobody is in the pool, once.  The buffer the reader fills is its     *)
(* own.                                                                    *)
(*                                                                         *)
(* One read is under way at a time, always into the buffer of the reader's *)
(* index; the other one is copied meanwhile.  On the way from there to the *)
(* screen each recording is newer than the one before it.                  *)
(***************************************************************************)
EXTENDS Display, FiniteSetTheorems, TLAPS

AnyBuf == Bufs \union {NoBuf}

RTypeOK ==
  /\ r = [pc |-> r.pc, b |-> r.b, idx |-> r.idx, asleep |-> r.asleep]
  /\ r.pc \in {"start", "getBuf", "acquire", "updateY", "replace", "publish", "notify", "failed"}
  /\ r.b \in AnyBuf /\ r.idx \in 0 .. 1
  /\ lck \in BOOLEAN /\ processed \in AnyBuf
GuiTypeOK ==
  /\ u \in [pc : {"none", "get", "got", "set"}, d : AnyBuf]
  /\ g \in [pc : {"idle", "dialog", "exit"}, buf : AnyBuf]
  /\ shown \in AnyBuf
  /\ w \in [Writers -> [pc : {"none", "start", "entered", "writing"}, buf : AnyBuf]]
ReadTypeOK ==
  /\ a = [pc |-> a.pc, buf |-> a.buf, hdr |-> a.hdr, asleep |-> a.asleep]
  /\ a.pc \in {"idle", "read", "call"} /\ a.buf \in 0 .. 2 /\ a.hdr \in Ages
  /\ fwBuf \in 0 .. 2 /\ ridx \in 0 .. 1 /\ readDone \in 0 .. 1
  /\ rbuf \in [0 .. 1 -> Ages] /\ bufhdr \in [0 .. 1 -> Ages]
  /\ y \in [Bufs -> Ages] /\ hdr \in [Bufs -> Ages]
  /\ shownAge \in 0 .. MaxAge

\* A thread has a buffer where its program has one.
Having ==
  /\ lck <=> r.pc = "publish"
  /\ r.b # NoBuf <=> r.pc \in {"acquire", "updateY", "replace", "publish"}
  /\ u.d # NoBuf <=> u.pc \in {"got", "set"}
  /\ g.buf # NoBuf <=> g.pc \in {"dialog", "exit"}
  /\ \A x \in Writers : w[x].buf # NoBuf <=> w[x].pc # "none"

TypeOK == RTypeOK /\ GuiTypeOK /\ ReadTypeOK /\ Having
-----------------------------------------------------------------------------
(* Who holds a reference to which buffer.                                  *)

Tags == ({"reader", "processed", "updateData", "shown", "saveData"} \X {0})
          \union (Writers \X {1, 2})

Holder(t) ==
  IF t = <<"reader", 0>> THEN r.b
  ELSE IF t = <<"processed", 0>> THEN IF lck THEN NoBuf ELSE processed
  ELSE IF t = <<"updateData", 0>> THEN u.d
  ELSE IF t = <<"shown", 0>> THEN IF u.pc = "set" THEN NoBuf ELSE shown
  ELSE IF t = <<"saveData", 0>> THEN g.buf
  ELSE IF t[2] = 1 \/ w[t[1]].pc = "entered" THEN w[t[1]].buf ELSE NoBuf

Holders == [t \in Tags |-> Holder(t)]

HeldBy(h, b) == {t \in DOMAIN h : h[t] = b}

\* The count of a buffer is the number of its references.
Counted(h, cnt) ==
  \A b \in Bufs : IsFiniteSet(HeldBy(h, b)) /\ cnt[b] = Cardinality(HeldBy(h, b))

\* The pool holds every buffer without a reference, once.
PoolOK(p, cnt) ==
  /\ p \in Seq(Bufs)
  /\ \A i, j \in 1 .. Len(p) : p[i] = p[j] => i = j
  /\ \A b \in Bufs : cnt[b] = 0 <=> \E i \in 1 .. Len(p) : p[i] = b

\* What the reader fills is its own.
Own == r.b # NoBuf => \A t \in Tags \ {<<"reader", 0>>} : Holder(t) # r.b

References == refCnt \in [Bufs -> Nat] /\ Counted(Holders, refCnt) /\ PoolOK(pool, refCnt) /\ Own
-----------------------------------------------------------------------------
(* Reads.                                                                  *)

\* After the first one was asked for, exactly one read is under way or done.
OneRead ==
  /\ r.pc = "start" => fwBuf = NoIdx /\ a.pc = "idle" /\ readDone = 0
  /\ r.pc # "start" => /\ fwBuf # NoIdx \/ a.pc # "idle" \/ readDone = 1
                       /\ ~(fwBuf # NoIdx /\ a.pc # "idle")
                       /\ ~(fwBuf # NoIdx /\ readDone = 1)
                       /\ ~(a.pc # "idle" /\ readDone = 1)
  /\ r.pc # "failed"

\* It is the one into the buffer of the reader's index.
Where ==
  /\ fwBuf # NoIdx => fwBuf = ridx
  /\ a.pc # "idle" => a.buf = ridx
  /\ r.pc = "updateY" => r.idx = 1 - ridx

\* What is complete, with its header.
Complete ==
  /\ a.pc = "call" => rbuf[ridx] = 0 /\ a.hdr = 0
  /\ readDone = 1 => rbuf[ridx] # Garbled /\ rbuf[ridx] = bufhdr[ridx]
  /\ r.pc = "updateY" => rbuf[r.idx] # Garbled /\ rbuf[r.idx] = bufhdr[r.idx]

\* Buffers somebody else than the reader holds, and those with a recording in them.
InUse(b) ==
  \/ \E x \in Writers : w[x].buf = b
  \/ processed = b /\ ~lck
  \/ u.d = b
  \/ shown = b /\ u.pc # "set"
  \/ g.buf = b
Filled(b) == InUse(b) \/ (r.b = b /\ r.pc \in {"replace", "publish"})

Reads ==
  OneRead /\ Where /\ Complete /\ \A b \in Bufs : Filled(b) => y[b] # Garbled /\ y[b] = hdr[b]
-----------------------------------------------------------------------------
(* Order.                                                                  *)

Newer(x, z) == x < z \/ z = MaxAge

\* The newest recording that is as far as the GUI's variable, as the variable
\* processed, as the reader's display buffer.
AgeGot       == IF u.pc \in {"got", "set"} THEN y[u.d] ELSE shownAge
AgeProcessed == IF processed # NoBuf /\ ~lck THEN y[processed] ELSE AgeGot
AgeReader    == IF r.pc = "updateY" THEN rbuf[r.idx]
                ELSE IF r.pc \in {"replace", "publish"} THEN y[r.b] ELSE AgeProcessed

InOrder ==
  /\ u.pc \in {"got", "set"} => Newer(y[u.d], shownAge)
  /\ processed # NoBuf /\ ~lck => Newer(y[processed], AgeGot)
  /\ r.pc \in {"updateY", "replace", "publish"} => Newer(AgeReader, AgeProcessed)
  /\ a.pc = "call" \/ readDone = 1 => Newer(rbuf[ridx], AgeReader)

IInv == TypeOK /\ References /\ Reads /\ InOrder
-----------------------------------------------------------------------------
(* Counting.                                                               *)

\* Nobody's buffer becomes the one of t: a reference more.
LEMMA TakeCounted ==
  ASSUME NEW h, NEW t \in DOMAIN h, h = [s \in DOMAIN h |-> h[s]], h[t] = NoBuf,
         NEW b \in Bufs, NEW cnt \in [Bufs -> Nat], Counted(h, cnt)
  PROVE  Counted([h EXCEPT ![t] = b], [cnt EXCEPT ![b] = @ + 1])
<1> DEFINE k == [h EXCEPT ![t] = b]
<1>1. HeldBy(k, b) = HeldBy(h, b) \union {t} /\ t \notin HeldBy(h, b)
  BY BufsAssumption DEF HeldBy
<1>2. \A c \in Bufs \ {b} : HeldBy(k, c) = HeldBy(h, c)
  BY BufsAssumption DEF HeldBy
<1> HIDE DEF k
<1>3. /\ IsFiniteSet(HeldBy(h, b)) /\ cnt[b] = Cardinality(HeldBy(h, b))
      /\ \A c \in Bufs \ {b} : IsFiniteSet(HeldBy(h, c)) /\ cnt[c] = Cardinality(HeldBy(h, c))
  BY DEF Counted
<1>4. IsFiniteSet(HeldBy(k, b)) /\ Cardinality(HeldBy(k, b)) = Cardinality(HeldBy(h, b)) + 1
  BY <1>1, <1>3, FS_AddElement
<1>5. \A c \in Bufs \ {b} : IsFiniteSet(HeldBy(k, c)) /\ cnt[c] = Cardinality(HeldBy(k, c))
  BY <1>2, <1>3
<1>6. Counted(k, [cnt EXCEPT ![b] = @ + 1])
  BY <1>3, <1>4, <1>5 DEF Counted
<1> QED
  BY <1>6 DEF k

\* The buffer of t is given up: a reference less.
LEMMA GiveCounted ==
  ASSUME NEW h, NEW t \in DOMAIN h, h = [s \in DOMAIN h |-> h[s]],
         NEW b \in Bufs, h[t] = b, NEW cnt \in [Bufs -> Nat], Counted(h, cnt)
  PROVE  /\ cnt[b] > 0
         /\ Counted([h EXCEPT ![t] = NoBuf], [cnt EXCEPT ![b] = @ - 1])
<1> DEFINE k == [h EXCEPT ![t] = NoBuf]
<1>1. HeldBy(k, b) = HeldBy(h, b) \ {t} /\ t \in HeldBy(h, b)
  BY BufsAssumption DEF HeldBy
<1>2. \A c \in Bufs \ {b} : HeldBy(k, c) = HeldBy(h, c)
  BY BufsAssumption DEF HeldBy
<1> HIDE DEF k
<1>3. /\ IsFiniteSet(HeldBy(h, b)) /\ cnt[b] = Cardinality(HeldBy(h, b))
      /\ \A c \in Bufs \ {b} : IsFiniteSet(HeldBy(h, c)) /\ cnt[c] = Cardinality(HeldBy(h, c))
  BY DEF Counted
<1>4. IsFiniteSet(HeldBy(k, b)) /\ Cardinality(HeldBy(k, b)) = Cardinality(HeldBy(h, b)) - 1
  BY <1>1, <1>3, FS_RemoveElement
<1>5. \A c \in Bufs \ {b} : IsFiniteSet(HeldBy(k, c)) /\ cnt[c] = Cardinality(HeldBy(k, c))
  BY <1>2, <1>3
<1>6. Counted(k, [cnt EXCEPT ![b] = @ - 1])
  BY <1>3, <1>4, <1>5 DEF Counted
<1>7. cnt[b] # 0
  BY <1>1, <1>3, FS_EmptySet
<1>8. cnt[b] > 0
  BY <1>7
<1> QED
  BY <1>6, <1>8 DEF k

\* What nobody holds has no references, and the other way round.
LEMMA NoReference ==
  ASSUME NEW h, NEW cnt, Counted(h, cnt), NEW b \in Bufs
  PROVE  cnt[b] = 0 <=> \A t \in DOMAIN h : h[t] # b
<1>1. cnt[b] = 0 <=> HeldBy(h, b) = {}
  BY FS_EmptySet DEF Counted
<1> QED
  BY <1>1 DEF HeldBy

\* The pool loses its first element, which then has a reference.
LEMMA PoolTake ==
  ASSUME NEW p, NEW cnt \in [Bufs -> Nat], PoolOK(p, cnt), p # <<>>
  PROVE  /\ Head(p) \in Bufs /\ cnt[Head(p)] = 0
         /\ PoolOK(Tail(p), [cnt EXCEPT ![Head(p)] = @ + 1])
<1>1. /\ p \in Seq(Bufs) /\ Len(p) \in Nat /\ Len(p) > 0 /\ Head(p) = p[1] /\ Head(p) \in Bufs
      /\ Tail(p) \in Seq(Bufs) /\ Len(Tail(p)) = Len(p) - 1
      /\ \A i \in 1 .. Len(p) - 1 : Tail(p)[i] = p[i + 1]
  BY DEF PoolOK
<1>2. \A i, j \in 1 .. Len(p) : p[i] = p[j] => i = j
  BY DEF PoolOK
<1>3. \A i, j \in 1 .. Len(Tail(p)) : Tail(p)[i] = Tail(p)[j] => i = j
  BY <1>1, <1>2
<1>4. cnt[Head(p)] = 0
  BY <1>1 DEF PoolOK
<1>5. ASSUME NEW b \in Bufs
      PROVE  [cnt EXCEPT ![Head(p)] = @ + 1][b] = 0 <=> \E i \in 1 .. Len(Tail(p)) : Tail(p)[i] = b
  <2>1. CASE b = Head(p)
    BY <1>1, <1>2, <1>4, <2>1
  <2>2. CASE b # Head(p)
    <3>1. cnt[b] = 0 <=> \E i \in 1 .. Len(p) : p[i] = b
      BY DEF PoolOK
    <3>2. (\E i \in 1 .. Len(p) : p[i] = b) <=> \E i \in 1 .. Len(Tail(p)) : Tail(p)[i] = b
      <4>1. ASSUME NEW i \in 1 .. Len(p), p[i] = b PROVE \E k \in 1 .. Len(Tail(p)) : Tail(p)[k] = b
        <5>1. i - 1 \in 1 .. Len(Tail(p)) /\ Tail(p)[i - 1] = b
          BY <1>1, <2>2, <4>1
        <5> QED
          BY <5>1
      <4>2. ASSUME NEW i \in 1 .. Len(Tail(p)), Tail(p)[i] = b PROVE \E k \in 1 .. Len(p) : p[k] = b
        <5>1. i + 1 \in 1 .. Len(p) /\ p[i + 1] = b
          BY <1>1, <4>2
        <5> QED
          BY <5>1
      <4> QED
        BY <4>1, <4>2
    <3> QED
      BY <2>2, <3>1, <3>2
  <2> QED
    BY <2>1, <2>2
<1> QED
  BY <1>1, <1>3, <1>4, <1>5 DEF PoolOK

\* One reference more or less does not matter as long as there is another.
LEMMA PoolKeep ==
  ASSUME NEW p, NEW cnt, PoolOK(p, cnt), NEW cnt2, \A b \in Bufs : cnt2[b] = 0 <=> cnt[b] = 0
  PROVE  PoolOK(p, cnt2)
  BY DEF PoolOK

\* The last reference: the buffer is appended.
LEMMA PoolPut ==
  ASSUME NEW p, NEW cnt \in [Bufs -> Nat], PoolOK(p, cnt), NEW b \in Bufs, cnt[b] = 1
  PROVE  PoolOK(Append(p, b), [cnt EXCEPT ![b] = @ - 1])
<1> DEFINE q == Append(p, b)
<1>1. /\ p \in Seq(Bufs) /\ Len(p) \in Nat /\ q \in Seq(Bufs) /\ Len(q) = Len(p) + 1
      /\ q[Len(p) + 1] = b /\ \A i \in 1 .. Len(p) : q[i] = p[i]
  BY DEF PoolOK
<1>2. \A i \in 1 .. Len(p) : p[i] # b
  BY DEF PoolOK
<1> HIDE DEF q
<1>3. \A i, j \in 1 .. Len(q) : q[i] = q[j] => i = j
  <2>1. \A i, j \in 1 .. Len(p) : p[i] = p[j] => i = j
    BY DEF PoolOK
  <2>2. SUFFICES ASSUME NEW i \in 1 .. Len(p) + 1, NEW j \in 1 .. Len(p) + 1, q[i] = q[j]
                 PROVE  i = j
    BY <1>1
  <2>3. CASE i \in 1 .. Len(p) /\ j \in 1 .. Len(p)
    BY <1>1, <2>1, <2>2, <2>3
  <2>4. CASE i = Len(p) + 1 \/ j = Len(p) + 1
    BY <1>1, <1>2, <2>2, <2>4
  <2> QED
    BY <1>1, <2>3, <2>4
<1>4. ASSUME NEW c \in Bufs
      PROVE  [cnt EXCEPT ![b] = @ - 1][c] = 0 <=> \E i \in 1 .. Len(q) : q[i] = c
  <2>1. CASE c = b
    BY <1>1, <2>1
  <2>2. CASE c # b
    <3>1. cnt[c] = 0 <=> \E i \in 1 .. Len(p) : p[i] = c
      BY DEF PoolOK
    <3>2. (\E i \in 1 .. Len(p) : p[i] = c) => \E i \in 1 .. Len(q) : q[i] = c
      BY <1>1
    <3>3. (\E i \in 1 .. Len(q) : q[i] = c) => \E i \in 1 .. Len(p) : p[i] = c
      <4> SUFFICES ASSUME NEW i \in 1 .. Len(q), q[i] = c PROVE i \in 1 .. Len(p) /\ p[i] = c
        OBVIOUS
      <4> QED
        BY <1>1, <2>2
    <3> QED
      BY <2>2, <3>1, <3>2, <3>3
  <2> QED
    BY <2>1, <2>2
<1> QED
  BY <1>1, <1>3, <1>4 DEF PoolOK, q

\* SetToSeq: the pool of the start.
LEMMA FullPool ==
  PoolOK(SetToSeq(Bufs), [b \in Bufs |-> 0])
<1> DEFINE n == Cardinality(Bufs)
           p == SetToSeq(Bufs)
<1>1. n \in Nat /\ ExistsBijection(1 .. n, Bufs)
  BY BufsAssumption, FS_CardinalityType
<1>2. PICK f \in [1 .. n -> Bufs] : f \in Injection(1 .. n, Bufs)
  BY <1>1 DEF ExistsBijection, Bijection, Injection
<1>3. IsInjective(f)
  BY <1>2 DEF Injection, IsInjective
<1>4. p \in [1 .. n -> Bufs] /\ IsInjective(p)
  BY <1>3 DEF SetToSeq
<1> HIDE DEF p
<1>5. p \in Seq(Bufs) /\ Len(p) = n
  BY <1>1, <1>4
<1>6. p \in Injection(1 .. n, Bufs)
  BY <1>4 DEF Injection, IsInjective
<1>7. IsFiniteSet(1 .. n) /\ Cardinality(1 .. n) = n
  BY <1>1, FS_Interval
<1>8. p \in Surjection(1 .. n, Bufs)
  BY <1>6, <1>7, BufsAssumption, FS_Injection
<1>9. \A b \in Bufs : \E i \in 1 .. Len(p) : p[i] = b
  BY <1>5, <1>8 DEF Surjection
<1> QED
  BY <1>4, <1>5, <1>9 DEF PoolOK, IsInjective, p
-----------------------------------------------------------------------------
(* Types.                                                                  *)

\* What each tag stands for.
Roles ==
  /\ Holder(<<"reader", 0>>) = r.b
  /\ Holder(<<"processed", 0>>) = IF lck THEN NoBuf ELSE processed
  /\ Holder(<<"updateData", 0>>) = u.d
  /\ Holder(<<"shown", 0>>) = IF u.pc = "set" THEN NoBuf ELSE shown
  /\ Holder(<<"saveData", 0>>) = g.buf
  /\ \A x \in Writers : /\ Holder(<<x, 1>>) = w[x].buf
                        /\ Holder(<<x, 2>>) = IF w[x].pc = "entered" THEN w[x].buf ELSE NoBuf

LEMMA TagsExist ==
  /\ {<<"reader", 0>>, <<"processed", 0>>, <<"updateData", 0>>, <<"shown", 0>>, <<"saveData", 0>>}
       \subseteq Tags
  /\ \A x \in Writers : <<x, 1>> \in Tags /\ <<x, 2>> \in Tags
  BY DEF Tags

LEMMA AllTags ==
  \A t \in Tags : \/ t = <<"reader", 0>> \/ t = <<"processed", 0>> \/ t = <<"updateData", 0>>
                  \/ t = <<"shown", 0>> \/ t = <<"saveData", 0>>
                  \/ \E x \in Writers : t = <<x, 1>> \/ t = <<x, 2>>
  BY DEF Tags

LEMMA RolesHold == Roles
<1>2. Holder(<<"reader", 0>>) = r.b
  BY DEF Holder
<1>3. Holder(<<"processed", 0>>) = IF lck THEN NoBuf ELSE processed
  BY DEF Holder
<1>4. Holder(<<"updateData", 0>>) = u.d
  BY DEF Holder
<1>5. Holder(<<"shown", 0>>) = IF u.pc = "set" THEN NoBuf ELSE shown
  BY DEF Holder
<1>6. Holder(<<"saveData", 0>>) = g.buf
  BY DEF Holder
<1>7. ASSUME NEW x \in Writers PROVE Holder(<<x, 1>>) = w[x].buf
  BY DEF Holder
<1>8. ASSUME NEW x \in Writers
      PROVE  Holder(<<x, 2>>) = IF w[x].pc = "entered" THEN w[x].buf ELSE NoBuf
  BY DEF Holder
<1> QED
  BY <1>2, <1>3, <1>4, <1>5, <1>6, <1>7, <1>8 DEF Roles

LEMMA RolesNext == Roles'
  BY RolesHold, PTL

LEMMA InitType == Init => TypeOK
<1> SUFFICES ASSUME Init PROVE TypeOK
  OBVIOUS
<1>0. MaxAge \in Ages /\ MaxAge \in 0 .. MaxAge
  BY BufsAssumption DEF Ages, Garbled
<1>1. RTypeOK
  <2>1. lck \in BOOLEAN
    BY DEF Init
  <2>2. r = [pc |-> r.pc, b |-> r.b, idx |-> r.idx, asleep |-> r.asleep]
    BY DEF Init
  <2> QED
    BY <2>1, <2>2 DEF Init, RTypeOK, AnyBuf
<1>2. GuiTypeOK
  BY DEF Init, GuiTypeOK, AnyBuf
<1>3. ReadTypeOK
  BY <1>0 DEF Init, ReadTypeOK, NoIdx
<1>4. Having
  BY DEF Init, Having
<1> QED
  BY <1>1, <1>2, <1>3, <1>4 DEF TypeOK

LEMMA OlderAges == \A x \in Ages : /\ Older(x) \in Ages /\ (x # Garbled => Older(x) \in 0 .. MaxAge)
                                  /\ (Older(x) = Garbled <=> x = Garbled)
  BY BufsAssumption DEF Older, Ages, Garbled

\* The reader never fails: FwComm takes every request.
LEMMA Asked == ASSUME TypeOK, Reads, FirstRead \/ Flip PROVE fwBuf = NoIdx
  BY DEF TypeOK, ReadTypeOK, Reads, OneRead, FirstRead, Flip

LEMMA ReaderTypeNext == ASSUME TypeOK, References, Reads, ReaderThread PROVE TypeOK'
<1> USE DEF TypeOK
<1>1. RTypeOK' /\ Having' /\ GuiTypeOK'
  <2>1. CASE FirstRead
    <3>1. r' = [r EXCEPT !.pc = "getBuf", !.idx = ridx]
      BY <2>1, Asked DEF FirstRead, readAsync
    <3> QED
      <4>1. RTypeOK'
        BY <2>1, <3>1 DEF FirstRead, RTypeOK, ReadTypeOK
      <4>2. Having'
        BY <2>1, <3>1 DEF FirstRead, guiVars, Having, RTypeOK
      <4>3. GuiTypeOK'
        BY <2>1 DEF FirstRead, guiVars, GuiTypeOK
      <4> QED
        BY <4>1, <4>2, <4>3
  <2>2. CASE getBuf
    <3>1. CASE pool = <<>>
      <4>1. r' = [r EXCEPT !.asleep = TRUE]
        BY <2>2, <3>1 DEF getBuf
      <4>2. r' = [pc |-> r.pc, b |-> r.b, idx |-> r.idx, asleep |-> TRUE]
        BY <4>1 DEF RTypeOK
      <4>3. UNCHANGED <<processed, lck, u, g, shown, w>>
        BY <2>2 DEF getBuf, guiVars
      <4> QED
        BY <4>2, <4>3 DEF RTypeOK, Having, GuiTypeOK
    <3>2. CASE pool # <<>>
      <4>1. r' = [r EXCEPT !.pc = "acquire", !.b = Head(pool)] /\ r.pc = "getBuf"
        BY <2>2, <3>2 DEF getBuf
      <4>2. r' = [pc |-> "acquire", b |-> Head(pool), idx |-> r.idx, asleep |-> r.asleep]
        BY <4>1 DEF RTypeOK
      <4>3. UNCHANGED <<processed, lck, u, g, shown, w>>
        BY <2>2 DEF getBuf, guiVars
      <4>4. Head(pool) \in Bufs
        BY <3>2, PoolTake DEF References
      <4>5. lck <=> r'.pc = "publish"
        BY <4>1, <4>2 DEF Having
      <4>6. r'.b # NoBuf
        BY <4>2, <4>4, BufsAssumption
      <4> QED
        BY <4>2, <4>3, <4>4, <4>5, <4>6 DEF RTypeOK, Having, GuiTypeOK, AnyBuf
    <3> QED
      BY <3>1, <3>2
  <2>3. CASE Flip
    <3>1. r' = [r EXCEPT !.pc = "updateY", !.idx = ridx]
      BY <2>3, Asked DEF Flip, readAsync
    <3> QED
      <4>1. RTypeOK'
        BY <2>3, <3>1 DEF Flip, RTypeOK, ReadTypeOK
      <4>2. Having'
        BY <2>3, <3>1 DEF Flip, guiVars, Having, RTypeOK
      <4>3. GuiTypeOK'
        BY <2>3 DEF Flip, guiVars, GuiTypeOK
      <4> QED
        BY <4>1, <4>2, <4>3
  <2>4. CASE updateY
    BY <2>4 DEF updateY, guiVars, RTypeOK, Having, GuiTypeOK
  <2>5. CASE Replace
    BY <2>5 DEF Replace, guiVars, RTypeOK, Having, GuiTypeOK
  <2>6. CASE Publish
    BY <2>6 DEF Publish, guiVars, RTypeOK, Having, GuiTypeOK, AnyBuf
  <2>7. CASE notify
    BY <2>7 DEF notify, guiVars, RTypeOK, Having, GuiTypeOK
  <2> QED
    BY <2>1, <2>2, <2>3, <2>4, <2>5, <2>6, <2>7 DEF ReaderThread
<1>2. ReadTypeOK'
  <2>1. CASE FirstRead
    BY <2>1 DEF FirstRead, readAsync, fwReadAsync, signal, bufVars, fwVars, ReadTypeOK
  <2>2. CASE getBuf
    BY <2>2 DEF getBuf, bufVars, readVars, fwVars, ReadTypeOK
  <2>3. CASE Flip
    BY <2>3 DEF Flip, readAsync, fwReadAsync, signal, bufVars, fwVars, ReadTypeOK
  <2>4. CASE updateY
    BY <2>4 DEF updateY, readVars, fwVars, ReadTypeOK, RTypeOK
  <2>5. CASE Replace
    BY <2>5 DEF Replace, bufVars, readVars, fwVars, ReadTypeOK
  <2>6. CASE Publish
    BY <2>6 DEF Publish, bufVars, readVars, fwVars, ReadTypeOK
  <2>7. CASE notify
    BY <2>7 DEF notify, bufVars, readVars, fwVars, ReadTypeOK
  <2> QED
    BY <2>1, <2>2, <2>3, <2>4, <2>5, <2>6, <2>7 DEF ReaderThread
<1> QED
  BY <1>1, <1>2

LEMMA FwTypeNext == ASSUME TypeOK, Reads, FwThread PROVE TypeOK'
<1> USE DEF TypeOK
<1>1. RTypeOK' /\ Having' /\ GuiTypeOK'
  BY DEF FwThread, TakeRead, ReadEnd, Callback, guiVars, RTypeOK, Having, GuiTypeOK
<1>2. ReadTypeOK'
  <2>1. CASE TakeRead
    <3>1. Garbled \in Ages
      BY BufsAssumption DEF Garbled, Ages
    <3>2. CASE fwBuf = NoIdx
      BY <2>1, <3>2 DEF TakeRead, bufVars, ReadTypeOK
    <3>3. CASE fwBuf # NoIdx
      <4>1. a' = [a EXCEPT !.pc = "read", !.buf = fwBuf] /\ fwBuf' = 2
        BY <2>1, <3>3 DEF TakeRead, NoIdx
      <4>2. rbuf' \in [0 .. 1 -> Ages]
        BY <2>1, <3>1, <3>3 DEF TakeRead, ReadTypeOK
      <4>3. UNCHANGED <<y, hdr, bufhdr, ridx, readDone, shownAge>>
        BY <2>1 DEF TakeRead, bufVars
      <4>4. a' = [pc |-> "read", buf |-> fwBuf, hdr |-> a.hdr, asleep |-> a.asleep]
        BY <4>1 DEF ReadTypeOK
      <4>5. a' = [pc |-> a'.pc, buf |-> a'.buf, hdr |-> a'.hdr, asleep |-> a'.asleep]
        BY <4>4
      <4>6. a'.pc = "read" /\ a'.buf \in 0 .. 2 /\ a'.hdr \in Ages
        BY <4>4 DEF ReadTypeOK
      <4> QED
        BY <4>1, <4>2, <4>3, <4>5, <4>6 DEF ReadTypeOK
    <3> QED
      BY <3>2, <3>3
  <2>2. CASE ReadEnd
    <3>1. 0 \in Ages
      BY BufsAssumption DEF Garbled, Ages
    <3>2. /\ AllOlder(rbuf) \in [0 .. 1 -> Ages] /\ AllOlder(bufhdr) \in [0 .. 1 -> Ages]
          /\ AllOlder(y) \in [Bufs -> Ages] /\ AllOlder(hdr) \in [Bufs -> Ages]
      BY OlderAges DEF AllOlder, ReadTypeOK
    <3>3. Older(shownAge) \in 0 .. MaxAge
      BY OlderAges DEF ReadTypeOK, Ages, Garbled
    <3> QED
      BY <2>2, <3>1, <3>2, <3>3 DEF ReadEnd, ReadTypeOK
  <2>3. CASE Callback
    <3>1. MaxAge \in Ages /\ readDone = 0
      BY <2>3, BufsAssumption DEF Garbled, Ages, Callback, Reads, OneRead, ReadTypeOK
    <3>2. bufhdr' \in [0 .. 1 -> Ages]
      BY <2>3 DEF Callback, ReadTypeOK
    <3>3. a' = [a EXCEPT !.pc = "idle", !.buf = 2, !.hdr = MaxAge] /\ readDone' = 1
      BY <2>3, <3>1 DEF Callback, NoIdx
    <3>4. a' = [pc |-> "idle", buf |-> 2, hdr |-> MaxAge, asleep |-> a.asleep]
      BY <3>3 DEF ReadTypeOK
    <3>5. UNCHANGED <<y, hdr, rbuf, ridx, fwBuf, shownAge>>
      BY <2>3 DEF Callback, bufVars
    <3>6. a' = [pc |-> a'.pc, buf |-> a'.buf, hdr |-> a'.hdr, asleep |-> a'.asleep]
      BY <3>4
    <3>7. a'.pc = "idle" /\ a'.buf = 2 /\ a'.hdr = MaxAge
      BY <3>4
    <3>8. rbuf' \in [0 .. 1 -> Ages] /\ y' \in [Bufs -> Ages] /\ hdr' \in [Bufs -> Ages]
      BY <3>5 DEF ReadTypeOK
    <3>9. fwBuf' \in 0 .. 2 /\ ridx' \in 0 .. 1 /\ readDone' \in 0 .. 1 /\ shownAge' \in 0 .. MaxAge
      BY <3>3, <3>5 DEF ReadTypeOK
    <3> QED
      BY <3>1, <3>2, <3>6, <3>7, <3>8, <3>9 DEF ReadTypeOK
  <2> QED
    BY <2>1, <2>2, <2>3 DEF FwThread
<1> QED
  BY <1>1, <1>2

LEMMA GuiTypeNext == ASSUME TypeOK, Reads, Own, Gui \/ \E x \in Writers : Writer(x) PROVE TypeOK'
<1> USE DEF TypeOK
<1>1. RTypeOK'
  BY DEF Gui, Writer, updateData, getData, DropOrReplace, Show, SetArm, saveData, SaveExit,
         NewWriter, WriterEnter, WriterHandOver, WriterExit, Put, RTypeOK, AnyBuf
<1>2. GuiTypeOK' /\ Having'
  <2>1. CASE updateData
    BY <2>1 DEF updateData, GuiTypeOK, Having, Dispatching
  <2>2. CASE getData
    <3>1. CASE processed = NoBuf
      BY <2>2, <3>1 DEF getData, GuiTypeOK, Having
    <3>2. CASE processed # NoBuf
      <4>1. u' = [pc |-> "got", d |-> processed] /\ UNCHANGED <<lck, r, g, shown, w>>
        BY <2>2, <3>2 DEF getData
      <4>2. GuiTypeOK'
        BY <4>1 DEF GuiTypeOK, RTypeOK
      <4>3. Having'
        BY <3>2, <4>1 DEF Having
      <4> QED
        BY <4>2, <4>3
    <3> QED
      BY <3>1, <3>2
  <2>3. CASE DropOrReplace
    BY <2>3 DEF DropOrReplace, Put, GuiTypeOK, Having, RTypeOK, AnyBuf
  <2>4. CASE Show
    BY <2>4 DEF Show, GuiTypeOK, Having, AnyBuf
  <2>5. CASE \E arm \in {"Off", "Single", "Continuous"} : SetArm(arm)
    BY <2>5 DEF SetArm, GuiTypeOK, Having
  <2>6. CASE saveData
    BY <2>6 DEF saveData, GuiTypeOK, Having
  <2>7. CASE SaveExit
    BY <2>7 DEF SaveExit, Put, GuiTypeOK, Having, RTypeOK, AnyBuf, Dispatching
  <2>8. CASE \E x \in Writers : NewWriter(x)
    BY <2>8 DEF NewWriter, GuiTypeOK, Having
  <2>9. ASSUME NEW x \in Writers, Writer(x) PROVE GuiTypeOK' /\ Having'
    <3>1. CASE WriterEnter(x)
      BY <3>1 DEF WriterEnter, GuiTypeOK, Having
    <3>2. CASE WriterHandOver(x)
      BY <3>2 DEF WriterHandOver, GuiTypeOK, Having
    <3>3. CASE WriterExit(x)
      BY <3>3 DEF WriterExit, Put, GuiTypeOK, Having, RTypeOK, AnyBuf
    <3> QED
      BY <2>9, <3>1, <3>2, <3>3 DEF Writer
  <2> QED
    BY <2>1, <2>2, <2>3, <2>4, <2>5, <2>6, <2>7, <2>8, <2>9 DEF Gui
<1>3. ReadTypeOK'
  <2>1. CASE Show
    <3>1. u.d \in Bufs /\ u.pc = "set"
      BY <2>1 DEF Show, Having, GuiTypeOK, AnyBuf
    <3>2. Filled(u.d)
      BY DEF Filled, InUse
    <3>3. y[u.d] \in 0 .. MaxAge
      BY <3>1, <3>2 DEF Reads, ReadTypeOK, Ages, Garbled
    <3> QED
      BY <2>1, <3>3 DEF Show, bufVars, readVars, fwVars, ReadTypeOK
  <2>2. CASE ~Show
    BY <2>2 DEF Gui, Writer, updateData, getData, DropOrReplace, SetArm, saveData, SaveExit,
         NewWriter, WriterEnter, WriterHandOver, WriterExit, bufVars, readVars, fwVars, ReadTypeOK
  <2> QED
    BY <2>1, <2>2
<1> QED
  BY <1>1, <1>2, <1>3
-----------------------------------------------------------------------------
(* References.                                                             *)

\* A step that gives tag t the buffer v and changes no other tag.
Changed(t, v) == \A s \in Tags : Holder(s)' = IF s = t THEN v ELSE Holder(s)

LEMMA HoldersChanged ==
  ASSUME NEW t \in Tags, NEW v, Changed(t, v)
  PROVE  Holders' = [Holders EXCEPT ![t] = v]
  BY DEF Changed, Holders

LEMMA HoldersFunction ==
  /\ DOMAIN Holders = Tags /\ Holders = [s \in DOMAIN Holders |-> Holders[s]]
  /\ \A t \in Tags : Holders[t] = Holder(t)
  BY DEF Holders

\* A reference to a buffer that has one already is added.
LEMMA Taken ==
  ASSUME References, NEW t \in Tags, Holder(t) = NoBuf, NEW b \in Bufs, Changed(t, b),
         refCnt' = [refCnt EXCEPT ![b] = @ + 1]
  PROVE  refCnt' \in [Bufs -> Nat] /\ Counted(Holders, refCnt)'
<1>1. refCnt' \in [Bufs -> Nat]
  BY DEF References
<1>2. Counted([Holders EXCEPT ![t] = b], [refCnt EXCEPT ![b] = @ + 1])
  BY HoldersFunction, TakeCounted DEF References
<1> QED
  BY <1>1, <1>2, HoldersChanged DEF Counted

LEMMA Shared ==
  ASSUME References, NEW t \in Tags, NEW b \in Bufs, Holder(t) = b
  PROVE  refCnt[b] > 0
<1>1. refCnt[b] # 0
  BY HoldersFunction, NoReference DEF References
<1> QED
  BY <1>1 DEF References

\* A reference is given up.
LEMMA Given ==
  ASSUME References, NEW t \in Tags, NEW b \in Bufs, Holder(t) = b, Changed(t, NoBuf),
         refCnt' = [refCnt EXCEPT ![b] = @ - 1]
  PROVE  refCnt' \in [Bufs -> Nat] /\ Counted(Holders, refCnt)'
<1>1. /\ refCnt[b] > 0
      /\ Counted([Holders EXCEPT ![t] = NoBuf], [refCnt EXCEPT ![b] = @ - 1])
  BY HoldersFunction, GiveCounted DEF References
<1>2. refCnt' \in [Bufs -> Nat]
  BY <1>1 DEF References
<1> QED
  BY <1>1, <1>2, HoldersChanged DEF Counted

\* A reference goes from one to another.
LEMMA Moved ==
  ASSUME References, NEW s \in Tags, NEW t \in Tags, s # t, NEW b \in Bufs, Holder(s) = b,
         Holder(t) = NoBuf, UNCHANGED refCnt,
         \A q \in Tags : Holder(q)' = IF q = t THEN b ELSE IF q = s THEN NoBuf ELSE Holder(q)
  PROVE  refCnt' \in [Bufs -> Nat] /\ Counted(Holders, refCnt)'
<1> DEFINE h == [Holders EXCEPT ![s] = NoBuf]
           cnt == [refCnt EXCEPT ![b] = @ - 1]
<1>1. refCnt[b] > 0 /\ Counted(h, cnt)
  BY HoldersFunction, GiveCounted DEF References
<1>2. cnt \in [Bufs -> Nat]
  BY <1>1 DEF References
<1>3. DOMAIN h = Tags /\ h = [q \in DOMAIN h |-> h[q]] /\ h[t] = NoBuf
  BY HoldersFunction
<1>4. [cnt EXCEPT ![b] = @ + 1] = refCnt
  <2>1. refCnt \in [Bufs -> Nat] /\ refCnt[b] \in Nat
    BY DEF References
  <2>2. cnt[b] + 1 = refCnt[b]
    BY <2>1
  <2>3. refCnt = [[refCnt EXCEPT ![b] = refCnt[b] - 1] EXCEPT ![b] = refCnt[b]]
    BY <2>1
  <2> QED
    BY <2>2, <2>3
<1>5. Holders' = [h EXCEPT ![t] = b]
  BY DEF Holders
<1> HIDE DEF h, cnt
<1>6. Counted([h EXCEPT ![t] = b], refCnt)
  BY <1>1, <1>2, <1>3, <1>4, TakeCounted
<1> QED
  BY <1>5, <1>6 DEF Counted, References

\* What becomes of the pool.
LEMMA PoolPutBack ==
  ASSUME References, NEW t \in Tags, NEW b \in Bufs, Holder(t) = b,
         refCnt' = [refCnt EXCEPT ![b] = @ - 1],
         pool' = IF refCnt[b] - 1 > 0 THEN pool ELSE Append(pool, b)
  PROVE  PoolOK(pool, refCnt)'
<1>1. refCnt[b] > 0 /\ refCnt[b] \in Nat /\ refCnt \in [Bufs -> Nat] /\ PoolOK(pool, refCnt)
  BY Shared DEF References
<1>2. CASE refCnt[b] = 1
  <2>1. PoolOK(Append(pool, b), [refCnt EXCEPT ![b] = @ - 1])
    BY <1>1, <1>2, PoolPut
  <2> QED
    BY <1>2, <2>1 DEF PoolOK
<1>3. CASE refCnt[b] > 1
  <2>1. \A c \in Bufs : refCnt'[c] = 0 <=> refCnt[c] = 0
    BY <1>1, <1>3
  <2>2. pool' = pool
    BY <1>1, <1>3
  <2> QED
    BY <1>1, <2>1, <2>2 DEF PoolOK
<1> QED
  BY <1>1, <1>2, <1>3

LEMMA PoolNotTouched ==
  ASSUME References, NEW t \in Tags, NEW b \in Bufs, Holder(t) = b,
         refCnt' = [refCnt EXCEPT ![b] = @ + 1], UNCHANGED pool
  PROVE  PoolOK(pool, refCnt)'
<1>1. refCnt[b] > 0 /\ refCnt[b] \in Nat /\ refCnt \in [Bufs -> Nat] /\ PoolOK(pool, refCnt)
  BY Shared DEF References
<1>2. \A c \in Bufs : refCnt'[c] = 0 <=> refCnt[c] = 0
  BY <1>1
<1> QED
  BY <1>1, <1>2 DEF PoolOK
\* Who shares a buffer with somebody does not have the one the reader fills.
LEMMA NotOwn ==
  ASSUME Own, NEW t \in Tags, t # <<"reader", 0>>, Holder(t) # NoBuf
  PROVE  Holder(t) # r.b
  BY DEF Own

LEMMA OwnKept ==
  ASSUME Own, r'.b = r.b, NEW t \in Tags, NEW v, Changed(t, v), v = NoBuf \/ v # r.b
  PROVE  Own'
  BY DEF Own, Changed

\* Steps that no tag notices.
LEMMA RefsUntouched ==
  ASSUME TypeOK, References, UNCHANGED <<refCnt, pool, processed, lck, shown, w>>, r'.b = r.b,
         u'.d = u.d, g'.buf = g.buf, u'.pc = "set" <=> u.pc = "set"
  PROVE  References'
<1>1. \A t \in Tags : Holder(t)' = Holder(t)
  BY DEF Holder
<1>2. Holders' = Holders
  BY <1>1 DEF Holders
<1>3. Counted(Holders, refCnt)' /\ PoolOK(pool, refCnt)' /\ refCnt' \in [Bufs -> Nat]
  BY <1>2 DEF References, Counted, PoolOK
<1>4. Own'
  BY <1>1 DEF References, Own
<1> QED
  BY <1>3, <1>4 DEF References

LEMMA ReaderRefsNext == ASSUME TypeOK, References, Reads, ReaderThread PROVE References'
<1>1. CASE FirstRead
  <2>1. r'.b = r.b
    BY <1>1, Asked DEF FirstRead, readAsync, TypeOK, RTypeOK
  <2> QED
    BY <1>1, <2>1, RefsUntouched DEF FirstRead, guiVars
<1>2. CASE getBuf /\ pool = <<>>
  <2>1. r'.b = r.b
    BY <1>2 DEF getBuf, TypeOK, RTypeOK
  <2> QED
    BY <1>2, <2>1, RefsUntouched DEF getBuf, guiVars
<1>3. CASE getBuf /\ pool # <<>>
  <2> DEFINE b == Head(pool)
  <2>1. /\ r'.b = b /\ r.b = NoBuf /\ pool' = Tail(pool) /\ refCnt' = [refCnt EXCEPT ![b] = @ + 1]
        /\ UNCHANGED <<processed, lck, u, g, shown, w>>
    BY <1>3 DEF getBuf, incRef, TypeOK, RTypeOK, Having, guiVars
  <2>2. b \in Bufs /\ refCnt[b] = 0 /\ PoolOK(pool, refCnt)'
    BY <1>3, <2>1, PoolTake DEF References
  <2>3. \A t \in Tags : Holder(t) # b
    BY <2>2, HoldersFunction, NoReference DEF References
  <2> HIDE DEF b
  <2>4. Changed(<<"reader", 0>>, b)
    BY <2>1 DEF Changed, Holder
  <2>5. Holder(<<"reader", 0>>) = NoBuf /\ <<"reader", 0>> \in Tags
    BY <2>1, RolesHold, TagsExist DEF Roles
  <2>6. refCnt' \in [Bufs -> Nat] /\ Counted(Holders, refCnt)'
    BY <2>1, <2>2, <2>4, <2>5, Taken
  <2>7. Own'
    BY <2>1, <2>3, <2>4 DEF Own, Changed
  <2> QED
    BY <2>2, <2>6, <2>7 DEF References
<1>4. CASE Flip
  <2>1. r'.b = r.b
    BY <1>4, Asked DEF Flip, readAsync, TypeOK, RTypeOK
  <2> QED
    BY <1>4, <2>1, RefsUntouched DEF Flip, guiVars
<1>5. CASE updateY
  <2>1. r'.b = r.b
    BY <1>5 DEF updateY, TypeOK, RTypeOK
  <2> QED
    BY <1>5, <2>1, RefsUntouched DEF updateY, guiVars
<1>6. CASE Replace
  <2>1. /\ r'.b = r.b /\ ~lck /\ lck' /\ r.b # NoBuf /\ UNCHANGED <<processed, u, g, shown, w>>
    BY <1>6 DEF Replace, guiVars, TypeOK, RTypeOK, Having
  <2>2. Changed(<<"processed", 0>>, NoBuf)
    BY <2>1 DEF Changed, Holder
  <2>3. <<"processed", 0>> \in Tags /\ Holder(<<"processed", 0>>) = processed
    BY <2>1, RolesHold, TagsExist DEF Roles
  <2>4. Own'
    BY <2>1, <2>2, <2>3, OwnKept DEF References
  <2>5. CASE processed = NoBuf
    <3>1. UNCHANGED <<pool, refCnt>>
      BY <1>6, <2>5 DEF Replace
    <3>2. Holders' = Holders
      BY <2>2, <2>3, <2>5 DEF Changed, Holders
    <3> QED
      BY <2>4, <3>1, <3>2 DEF References, Counted, PoolOK
  <2>6. CASE processed # NoBuf
    <3>1. /\ refCnt' = [refCnt EXCEPT ![processed] = @ - 1]
          /\ pool' = IF refCnt[processed] - 1 > 0 THEN pool ELSE Append(pool, processed)
      BY <1>6, <2>6 DEF Replace
    <3>2. processed \in Bufs
      BY <2>6 DEF TypeOK, RTypeOK, AnyBuf
    <3>3. PoolOK(pool, refCnt)'
      BY <2>3, <3>1, <3>2, PoolPutBack
    <3>4. refCnt' \in [Bufs -> Nat] /\ Counted(Holders, refCnt)'
      BY <2>2, <2>3, <3>1, <3>2, Given
    <3> QED
      BY <2>4, <3>3, <3>4 DEF References
  <2> QED
    BY <2>5, <2>6
<1>7. CASE Publish
  <2>1. /\ r'.b = NoBuf /\ r.b # NoBuf /\ lck /\ ~lck' /\ processed' = r.b
        /\ UNCHANGED <<pool, refCnt, u, g, shown, w>>
    BY <1>7 DEF Publish, guiVars, TypeOK, RTypeOK, Having
  <2>2. r.b \in Bufs
    BY <2>1 DEF TypeOK, RTypeOK, AnyBuf
  <2>3. \A t \in Tags : Holder(t)' = IF t = <<"processed", 0>> THEN r.b
                                    ELSE IF t = <<"reader", 0>> THEN NoBuf ELSE Holder(t)
    BY <2>1 DEF Holder
  <2>4. /\ <<"processed", 0>> \in Tags /\ <<"reader", 0>> \in Tags
        /\ <<"processed", 0>> # <<"reader", 0>>
        /\ Holder(<<"processed", 0>>) = NoBuf /\ Holder(<<"reader", 0>>) = r.b
    BY <2>1, RolesHold, TagsExist DEF Roles
  <2>5. refCnt' \in [Bufs -> Nat] /\ Counted(Holders, refCnt)'
    BY <2>1, <2>2, <2>3, <2>4, Moved
  <2>6. Own' /\ PoolOK(pool, refCnt)'
    BY <2>1 DEF Own, PoolOK, References
  <2> QED
    BY <2>5, <2>6 DEF References
<1>8. CASE notify
  <2>1. r'.b = r.b
    BY <1>8 DEF notify, TypeOK, RTypeOK
  <2> QED
    BY <1>8, <2>1, RefsUntouched DEF notify, guiVars
<1> QED
  BY <1>1, <1>2, <1>3, <1>4, <1>5, <1>6, <1>7, <1>8 DEF ReaderThread
LEMMA FwRefsNext == ASSUME TypeOK, References, FwThread PROVE References'
<1>1. UNCHANGED <<refCnt, pool, processed, lck, shown, w, r, u, g>>
  BY DEF FwThread, TakeRead, ReadEnd, Callback, guiVars
<1> QED
  BY <1>1, RefsUntouched

\* putBuf by whom tag t stands for.
LEMMA PutRefs ==
  ASSUME TypeOK, References, NEW t \in Tags, t # <<"reader", 0>>, NEW b \in Bufs, Holder(t) = b,
         Changed(t, NoBuf), Put(b)
  PROVE  References'
<1>1. /\ refCnt' = [refCnt EXCEPT ![b] = @ - 1]
      /\ pool' = IF refCnt[b] - 1 > 0 THEN pool ELSE Append(pool, b)
  BY DEF Put
<1>2. PoolOK(pool, refCnt)'
  BY <1>1, PoolPutBack
<1>3. refCnt' \in [Bufs -> Nat] /\ Counted(Holders, refCnt)'
  BY <1>1, Given
<1>4. r'.b = r.b
  BY DEF Put, TypeOK, RTypeOK
<1>5. Own'
  BY <1>4, OwnKept DEF References
<1> QED
  BY <1>2, <1>3, <1>5 DEF References

\* incRef for t of a buffer s holds.
LEMMA IncRefs ==
  ASSUME References, NEW s \in Tags, s # <<"reader", 0>>, NEW t \in Tags,
         NEW b \in Bufs, Holder(s) = b, Holder(t) = NoBuf, Changed(t, b), incRef(b),
         UNCHANGED pool, r'.b = r.b
  PROVE  References'
<1>1. refCnt' = [refCnt EXCEPT ![b] = @ + 1]
  BY DEF incRef
<1>2. PoolOK(pool, refCnt)'
  BY <1>1, PoolNotTouched
<1>3. refCnt' \in [Bufs -> Nat] /\ Counted(Holders, refCnt)'
  BY <1>1, Taken
<1>4. b # r.b
  BY NotOwn, BufsAssumption DEF References
<1>5. Own'
  BY <1>4, OwnKept DEF References
<1> QED
  BY <1>2, <1>3, <1>5 DEF References

\* A step of writer x changes no tag but its own two.
LEMMA OthersTags ==
  ASSUME NEW x \in Writers, UNCHANGED <<processed, lck, shown, u>>, r'.b = r.b, g'.buf = g.buf,
         \A z \in Writers \ {x} : w'[z] = w[z]
  PROVE  \A t \in Tags \ {<<x, 1>>, <<x, 2>>} : Holder(t)' = Holder(t)
<1> TAKE t \in Tags \ {<<x, 1>>, <<x, 2>>}
<1>1. CASE \E z \in Writers : t = <<z, 1>> \/ t = <<z, 2>>
  <2>1. PICK z \in Writers : t = <<z, 1>> \/ t = <<z, 2>>
    BY <1>1
  <2>2. z # x
    BY <2>1
  <2>3. w'[z] = w[z]
    BY <2>2
  <2>4. Holder(<<z, 1>>)' = Holder(<<z, 1>>) /\ Holder(<<z, 2>>)' = Holder(<<z, 2>>)
    BY <2>3, RolesHold, RolesNext DEF Roles
  <2> QED
    BY <2>1, <2>4
<1>2. CASE ~\E z \in Writers : t = <<z, 1>> \/ t = <<z, 2>>
  BY <1>2, AllTags, RolesHold, RolesNext DEF Roles
<1> QED
  BY <1>1, <1>2

LEMMA GuiRefsNext == ASSUME TypeOK, References, Gui PROVE References'
<1>1. CASE updateData
  <2>1. u.d = u'.d /\ u.pc = "none" /\ u'.pc = "get"
    BY <1>1 DEF updateData, Dispatching, TypeOK, GuiTypeOK
  <2> QED
    BY <1>1, <2>1, RefsUntouched DEF updateData
<1>2. CASE getData
  <2>1. ~lck /\ u.pc = "get" /\ u.d = NoBuf /\ UNCHANGED <<lck, pool, refCnt, r, shown, g, w>>
        /\ processed' = NoBuf
    BY <1>2 DEF getData, TypeOK, Having
  <2>2. CASE processed = NoBuf
    <3>1. u'.d = u.d /\ u'.pc = "none"
      BY <1>2, <2>2 DEF getData, TypeOK, GuiTypeOK
    <3> QED
      BY <2>1, <2>2, <3>1, RefsUntouched
  <2>3. CASE processed # NoBuf
    <3>1. u' = [pc |-> "got", d |-> processed]
      BY <1>2, <2>3 DEF getData
    <3>2. processed \in Bufs
      BY <2>3 DEF TypeOK, RTypeOK, AnyBuf
    <3>3. \A t \in Tags : Holder(t)' = IF t = <<"updateData", 0>> THEN processed
                                      ELSE IF t = <<"processed", 0>> THEN NoBuf ELSE Holder(t)
      BY <2>1, <3>1 DEF Holder
    <3>4. /\ <<"processed", 0>> \in Tags /\ <<"updateData", 0>> \in Tags
          /\ <<"processed", 0>> # <<"updateData", 0>> /\ <<"processed", 0>> # <<"reader", 0>>
          /\ Holder(<<"processed", 0>>) = processed /\ Holder(<<"updateData", 0>>) = NoBuf
      BY <2>1, RolesHold, TagsExist DEF Roles
    <3>5. refCnt' \in [Bufs -> Nat] /\ Counted(Holders, refCnt)'
      BY <2>1, <3>2, <3>3, <3>4, Moved
    <3>6. processed # r.b
      BY <2>3, <3>4, NotOwn DEF References
    <3>7. Own'
      BY <2>1, <3>3, <3>6 DEF Own, References
    <3>8. PoolOK(pool, refCnt)'
      BY <2>1 DEF PoolOK, References
    <3> QED
      BY <3>5, <3>7, <3>8 DEF References
  <2> QED
    BY <2>2, <2>3
<1>3. CASE DropOrReplace
  <2>1. /\ u.pc = "got" /\ u.d \in Bufs /\ UNCHANGED <<processed, lck, shown, g, w>>
        /\ {<<"shown", 0>>, <<"updateData", 0>>} \subseteq Tags
        /\ Holder(<<"shown", 0>>) = shown /\ Holder(<<"updateData", 0>>) = u.d
    BY <1>3, RolesHold, TagsExist DEF DropOrReplace, Roles, TypeOK, Having, GuiTypeOK, AnyBuf
  <2>2. CASE trgArm = "Off"
    <3>1. u' = [pc |-> "none", d |-> NoBuf] /\ Put(u.d)
      BY <1>3, <2>2 DEF DropOrReplace
    <3>2. r'.b = r.b
      BY <3>1 DEF Put, TypeOK, RTypeOK
    <3>3. Changed(<<"updateData", 0>>, NoBuf)
      BY <2>1, <3>1, <3>2 DEF Changed, Holder
    <3> QED
      BY <2>1, <3>1, <3>3, PutRefs
  <2>3. CASE trgArm # "Off"
    <3>1. u' = [u EXCEPT !.pc = "set"]
      BY <1>3, <2>3 DEF DropOrReplace
    <3>2. u'.pc = "set" /\ u'.d = u.d
      BY <3>1 DEF TypeOK, GuiTypeOK
    <3>3. r'.b = r.b
      BY <1>3, <2>3 DEF DropOrReplace, Put, TypeOK, RTypeOK
    <3>4. Changed(<<"shown", 0>>, NoBuf)
      BY <2>1, <3>2, <3>3 DEF Changed, Holder
    <3>5. CASE shown = NoBuf
      <4>1. UNCHANGED <<pool, refCnt, r>>
        BY <1>3, <2>3, <3>5 DEF DropOrReplace
      <4>2. Holders' = Holders
        BY <2>1, <3>4, <3>5 DEF Changed, Holders
      <4>3. Own'
        BY <3>3, <3>4, OwnKept, <2>1 DEF References
      <4> QED
        BY <4>1, <4>2, <4>3 DEF References, Counted, PoolOK
    <3>6. CASE shown # NoBuf
      <4>1. Put(shown)
        BY <1>3, <2>3, <3>6 DEF DropOrReplace
      <4>2. shown \in Bufs
        BY <3>6 DEF TypeOK, GuiTypeOK, AnyBuf
      <4> QED
        BY <2>1, <3>4, <4>1, <4>2, PutRefs
    <3> QED
      BY <3>5, <3>6
  <2> QED
    BY <2>2, <2>3
<1>4. CASE Show
  <2>1. /\ u.pc = "set" /\ u.d \in Bufs /\ u' = [pc |-> "none", d |-> NoBuf] /\ shown' = u.d
        /\ UNCHANGED <<pool, refCnt, processed, lck, r, g, w>>
    BY <1>4 DEF Show, TypeOK, Having, GuiTypeOK, AnyBuf
  <2>2. \A t \in Tags : Holder(t)' = IF t = <<"shown", 0>> THEN u.d
                                    ELSE IF t = <<"updateData", 0>> THEN NoBuf ELSE Holder(t)
    BY <2>1 DEF Holder
  <2>3. /\ <<"shown", 0>> \in Tags /\ <<"updateData", 0>> \in Tags
        /\ <<"shown", 0>> # <<"updateData", 0>> /\ <<"updateData", 0>> # <<"reader", 0>>
        /\ Holder(<<"shown", 0>>) = NoBuf /\ Holder(<<"updateData", 0>>) = u.d
    BY <2>1, RolesHold, TagsExist DEF Roles
  <2>4. refCnt' \in [Bufs -> Nat] /\ Counted(Holders, refCnt)'
    BY <2>1, <2>2, <2>3, Moved
  <2>5. u.d # r.b
    BY <2>1, <2>3, NotOwn, BufsAssumption DEF References
  <2>6. Own'
    BY <2>1, <2>2, <2>5 DEF Own, References
  <2>7. PoolOK(pool, refCnt)'
    BY <2>1 DEF PoolOK, References
  <2> QED
    BY <2>4, <2>6, <2>7 DEF References
<1>5. CASE \E arm \in {"Off", "Single", "Continuous"} : SetArm(arm)
  BY <1>5, RefsUntouched DEF SetArm
<1>6. CASE saveData
  <2>1. /\ u.pc = "none" /\ g.pc = "idle" /\ g.buf = NoBuf /\ shown \in Bufs /\ incRef(shown)
        /\ g' = [pc |-> "dialog", buf |-> shown]
        /\ UNCHANGED <<pool, processed, lck, r, shown, u, w>>
    BY <1>6 DEF saveData, Dispatching, TypeOK, Having, GuiTypeOK, AnyBuf
  <2>2. Changed(<<"saveData", 0>>, shown)
    BY <2>1 DEF Changed, Holder
  <2>3. /\ <<"saveData", 0>> \in Tags /\ <<"shown", 0>> \in Tags /\ <<"shown", 0>> # <<"reader", 0>>
        /\ Holder(<<"saveData", 0>>) = NoBuf /\ Holder(<<"shown", 0>>) = shown
    BY <2>1, RolesHold, TagsExist DEF Roles
  <2> QED
    BY <2>1, <2>2, <2>3, IncRefs
<1>7. CASE SaveExit
  <2>1. /\ g.buf \in Bufs /\ Put(g.buf) /\ g' = [pc |-> "idle", buf |-> NoBuf]
        /\ UNCHANGED <<processed, lck, shown, u, w>>
    BY <1>7 DEF SaveExit, TypeOK, Having, GuiTypeOK, AnyBuf
  <2>2. r'.b = r.b
    BY <2>1 DEF Put, TypeOK, RTypeOK
  <2>3. Changed(<<"saveData", 0>>, NoBuf)
    BY <2>1, <2>2 DEF Changed, Holder
  <2>4. <<"saveData", 0>> \in Tags /\ <<"saveData", 0>> # <<"reader", 0>>
        /\ Holder(<<"saveData", 0>>) = g.buf
    BY RolesHold, TagsExist DEF Roles
  <2> QED
    BY <2>1, <2>3, <2>4, PutRefs
<1>8. ASSUME NEW x \in Writers, NewWriter(x) PROVE References'
  <2>1. /\ w[x].pc = "none" /\ w[x].buf = NoBuf /\ g.buf \in Bufs /\ incRef(g.buf)
        /\ w' = [w EXCEPT ![x] = [pc |-> "start", buf |-> g.buf]] /\ g'.buf = g.buf
        /\ UNCHANGED <<pool, processed, lck, r, shown, u>>
    BY <1>8 DEF NewWriter, TypeOK, Having, GuiTypeOK, AnyBuf
  <2>2. w'[x] = [pc |-> "start", buf |-> g.buf] /\ \A z \in Writers \ {x} : w'[z] = w[z]
    BY <2>1 DEF TypeOK, GuiTypeOK
  <2>3. Changed(<<x, 1>>, g.buf)
    <3>1. Holder(<<x, 1>>)' = g.buf /\ Holder(<<x, 2>>)' = Holder(<<x, 2>>)
      BY <2>1, <2>2, RolesHold, RolesNext DEF Roles
    <3> QED
      BY <2>1, <2>2, <3>1, OthersTags DEF Changed
  <2>4. /\ <<x, 1>> \in Tags /\ <<"saveData", 0>> \in Tags /\ <<"saveData", 0>> # <<"reader", 0>>
        /\ Holder(<<x, 1>>) = NoBuf /\ Holder(<<"saveData", 0>>) = g.buf
    BY <2>1, RolesHold, TagsExist DEF Roles
  <2> QED
    BY <2>1, <2>3, <2>4, IncRefs
<1> QED
  BY <1>1, <1>2, <1>3, <1>4, <1>5, <1>6, <1>7, <1>8 DEF Gui

LEMMA WriterRefsNext == ASSUME TypeOK, References, NEW x \in Writers, Writer(x) PROVE References'
<1>0. <<x, 1>> \in Tags /\ <<x, 2>> \in Tags /\ <<x, 1>> # <<"reader", 0>> /\ <<x, 2>> # <<"reader", 0>>
      /\ <<x, 1>> # <<x, 2>>
  BY TagsExist
<1>1. CASE WriterEnter(x)
  <2>1. /\ w[x].pc = "start" /\ w[x].buf \in Bufs /\ incRef(w[x].buf)
        /\ w' = [w EXCEPT ![x].pc = "entered"]
        /\ UNCHANGED <<pool, processed, lck, r, shown, u, g>>
    BY <1>1 DEF WriterEnter, TypeOK, Having, GuiTypeOK, AnyBuf
  <2>2. /\ w'[x].pc = "entered" /\ w'[x].buf = w[x].buf
        /\ \A z \in Writers \ {x} : w'[z] = w[z]
    BY <2>1 DEF TypeOK, GuiTypeOK
  <2>3. Changed(<<x, 2>>, w[x].buf)
    <3>1. Holder(<<x, 2>>)' = w[x].buf /\ Holder(<<x, 1>>)' = Holder(<<x, 1>>)
      BY <2>1, <2>2, RolesHold, RolesNext DEF Roles
    <3> QED
      BY <2>1, <2>2, <3>1, OthersTags DEF Changed
  <2>4. Holder(<<x, 2>>) = NoBuf /\ Holder(<<x, 1>>) = w[x].buf
    BY <2>1, RolesHold DEF Roles
  <2> QED
    BY <1>0, <2>1, <2>3, <2>4, IncRefs
<1>2. CASE WriterHandOver(x)
  <2> DEFINE b == w[x].buf
  <2>1. /\ w[x].pc = "entered" /\ b \in Bufs /\ refCnt' = [refCnt EXCEPT ![b] = @ - 1]
        /\ w' = [w EXCEPT ![x].pc = "writing"]
        /\ UNCHANGED <<pool, processed, lck, r, shown, u, g>>
    BY <1>2 DEF WriterHandOver, decRef, TypeOK, Having, GuiTypeOK, AnyBuf
  <2>2. /\ w'[x].pc = "writing" /\ w'[x].buf = b
        /\ \A z \in Writers \ {x} : w'[z] = w[z]
    BY <2>1 DEF TypeOK, GuiTypeOK
  <2>3. Changed(<<x, 2>>, NoBuf)
    <3>1. Holder(<<x, 2>>)' = NoBuf /\ Holder(<<x, 1>>)' = Holder(<<x, 1>>)
      BY <2>1, <2>2, RolesHold, RolesNext DEF Roles
    <3> QED
      BY <2>1, <2>2, <3>1, OthersTags DEF Changed
  <2>4. Holder(<<x, 2>>) = b /\ Holder(<<x, 1>>)' = b
    BY <2>1, <2>2, RolesHold, RolesNext DEF Roles
  <2>5. refCnt' \in [Bufs -> Nat] /\ Counted(Holders, refCnt)'
    BY <1>0, <2>1, <2>3, <2>4, Given
  <2>6. refCnt'[b] # 0
    <3>1. Holders'[<<x, 1>>] = b /\ <<x, 1>> \in DOMAIN Holders'
      BY <1>0, <2>4 DEF Holders
    <3>2. Counted(Holders', refCnt')
      BY <2>5 DEF Counted
    <3>3. IsFiniteSet(HeldBy(Holders', b)) /\ refCnt'[b] = Cardinality(HeldBy(Holders', b))
      BY <2>1, <3>2 DEF Counted
    <3>4. HeldBy(Holders', b) # {}
      BY <3>1 DEF HeldBy
    <3> QED
      BY <3>3, <3>4, FS_EmptySet
  <2>7. refCnt[b] > 0 /\ refCnt \in [Bufs -> Nat] /\ PoolOK(pool, refCnt)
    BY <1>0, <2>1, <2>4, Shared DEF References
  <2>8. \A c \in Bufs : refCnt'[c] = 0 <=> refCnt[c] = 0
    BY <2>1, <2>6, <2>7
  <2>9. PoolOK(pool, refCnt)'
    BY <2>1, <2>7, <2>8 DEF PoolOK
  <2>10. Own'
    BY <1>0, <2>1, <2>3, OwnKept DEF References
  <2> QED
    BY <2>5, <2>9, <2>10 DEF References
<1>3. CASE WriterExit(x)
  <2>1. /\ w[x].pc = "writing" /\ w[x].buf \in Bufs /\ Put(w[x].buf)
        /\ w' = [w EXCEPT ![x] = [pc |-> "none", buf |-> NoBuf]]
        /\ UNCHANGED <<processed, lck, shown, u, g>>
    BY <1>3 DEF WriterExit, TypeOK, Having, GuiTypeOK, AnyBuf
  <2>2. /\ w'[x] = [pc |-> "none", buf |-> NoBuf] /\ \A z \in Writers \ {x} : w'[z] = w[z]
        /\ r'.b = r.b
    BY <2>1 DEF Put, TypeOK, GuiTypeOK, RTypeOK
  <2>3. Changed(<<x, 1>>, NoBuf)
    <3>1. Holder(<<x, 1>>)' = NoBuf /\ Holder(<<x, 2>>)' = Holder(<<x, 2>>)
      BY <2>1, <2>2, RolesHold, RolesNext DEF Roles
    <3> QED
      BY <2>1, <2>2, <3>1, OthersTags DEF Changed
  <2>4. Holder(<<x, 1>>) = w[x].buf
    BY RolesHold DEF Roles
  <2> QED
    BY <1>0, <2>1, <2>3, <2>4, PutRefs
<1> QED
  BY <1>1, <1>2, <1>3 DEF Writer
-----------------------------------------------------------------------------
(* Reads.                                                                  *)

LEMMA UseIsTag ==
  ASSUME NEW b \in Bufs
  PROVE  InUse(b) <=> \E t \in Tags \ {<<"reader", 0>>} : Holder(t) = b
<1>1. ASSUME InUse(b) PROVE \E t \in Tags \ {<<"reader", 0>>} : Holder(t) = b
  <2>1. CASE \E x \in Writers : w[x].buf = b
    <3>1. PICK x \in Writers : w[x].buf = b
      BY <2>1
    <3>2. <<x, 1>> \in Tags /\ Holder(<<x, 1>>) = b
      BY <3>1, RolesHold, TagsExist DEF Roles
    <3>3. <<x, 1>> # <<"reader", 0>>
      OBVIOUS
    <3> QED
      BY <3>2, <3>3
  <2>2. CASE processed = b /\ ~lck
    <3>1. <<"processed", 0>> \in Tags \ {<<"reader", 0>>} /\ Holder(<<"processed", 0>>) = b
      BY <2>2, RolesHold, TagsExist DEF Roles
    <3> QED
      BY <3>1
  <2>3. CASE u.d = b
    <3>1. <<"updateData", 0>> \in Tags \ {<<"reader", 0>>} /\ Holder(<<"updateData", 0>>) = b
      BY <2>3, RolesHold, TagsExist DEF Roles
    <3> QED
      BY <3>1
  <2>4. CASE shown = b /\ u.pc # "set"
    <3>1. <<"shown", 0>> \in Tags \ {<<"reader", 0>>} /\ Holder(<<"shown", 0>>) = b
      BY <2>4, RolesHold, TagsExist DEF Roles
    <3> QED
      BY <3>1
  <2>5. CASE g.buf = b
    <3>1. <<"saveData", 0>> \in Tags \ {<<"reader", 0>>} /\ Holder(<<"saveData", 0>>) = b
      BY <2>5, RolesHold, TagsExist DEF Roles
    <3> QED
      BY <3>1
  <2> QED
    BY <1>1, <2>1, <2>2, <2>3, <2>4, <2>5 DEF InUse
<1>2. ASSUME NEW t \in Tags \ {<<"reader", 0>>}, Holder(t) = b PROVE InUse(b)
  <2>1. CASE \E x \in Writers : t = <<x, 1>> \/ t = <<x, 2>>
    <3>1. PICK x \in Writers : t = <<x, 1>> \/ t = <<x, 2>>
      BY <2>1
    <3>2. w[x].buf = b
      BY <1>2, <3>1, RolesHold, BufsAssumption DEF Roles
    <3> QED
      BY <3>2 DEF InUse
  <2>2. CASE ~\E x \in Writers : t = <<x, 1>> \/ t = <<x, 2>>
    BY <1>2, <2>2, AllTags, RolesHold, BufsAssumption DEF Roles, InUse
  <2> QED
    BY <2>1, <2>2
<1> QED
  BY <1>1, <1>2

LEMMA OwnNotInUse == ASSUME Own, r.b \in Bufs PROVE ~InUse(r.b)
  BY UseIsTag, BufsAssumption DEF Own

\* The GUI and the writers pass on what they have, and get it from the reader.
LEMMA NothingNew ==
  ASSUME TypeOK, Gui \/ \E x \in Writers : Writer(x), NEW b \in Bufs, InUse(b)'
  PROVE  InUse(b)
<1>0. b # NoBuf
  BY BufsAssumption
<1>1. CASE updateData
  BY <1>1 DEF updateData, InUse, TypeOK, GuiTypeOK, Dispatching
<1>2. CASE getData
  BY <1>0, <1>2 DEF getData, InUse, TypeOK, GuiTypeOK
<1>3. CASE DropOrReplace
  BY <1>0, <1>3 DEF DropOrReplace, InUse, TypeOK, GuiTypeOK
<1>4. CASE Show
  BY <1>0, <1>4 DEF Show, InUse, TypeOK, GuiTypeOK
<1>5. CASE \E arm \in {"Off", "Single", "Continuous"} : SetArm(arm)
  BY <1>5 DEF SetArm, InUse
<1>6. CASE saveData
  BY <1>6 DEF saveData, InUse, Dispatching
<1>7. CASE SaveExit
  BY <1>0, <1>7 DEF SaveExit, InUse
<1>8. ASSUME NEW x \in Writers, NewWriter(x) PROVE InUse(b)
  <2>1. w' = [w EXCEPT ![x] = [pc |-> "start", buf |-> g.buf]] /\ g'.buf = g.buf
        /\ UNCHANGED <<processed, lck, shown, u>>
    BY <1>8 DEF NewWriter, TypeOK, GuiTypeOK
  <2>2. \A z \in Writers : w'[z].buf = w[z].buf \/ w'[z].buf = g.buf
    BY <2>1 DEF TypeOK, GuiTypeOK
  <2> QED
    BY <2>1, <2>2 DEF InUse
<1>9. ASSUME NEW x \in Writers, Writer(x) PROVE InUse(b)
  <2>1. \A z \in Writers : w'[z].buf = w[z].buf \/ w'[z].buf = NoBuf
    BY <1>9 DEF Writer, WriterEnter, WriterHandOver, WriterExit, TypeOK, GuiTypeOK
  <2>2. UNCHANGED <<processed, lck, shown, u, g>>
    BY <1>9 DEF Writer, WriterEnter, WriterHandOver, WriterExit
  <2> QED
    BY <1>0, <2>1, <2>2 DEF InUse
<1> QED
  BY <1>1, <1>2, <1>3, <1>4, <1>5, <1>6, <1>7, <1>8, <1>9 DEF Gui

LEMMA GuiReadsNext ==
  ASSUME TypeOK, Reads, Gui \/ \E x \in Writers : Writer(x)
  PROVE  Reads'
<1>1. UNCHANGED <<y, hdr, rbuf, bufhdr, ridx, readDone, fwBuf, a>> /\ r'.b = r.b /\ r'.pc = r.pc
      /\ r'.idx = r.idx
  BY DEF Gui, Writer, updateData, getData, DropOrReplace, Show, SetArm, saveData, SaveExit,
         NewWriter, WriterEnter, WriterHandOver, WriterExit, Put, TypeOK, RTypeOK, bufVars, readVars,
         fwVars
<1>2. OneRead' /\ Where' /\ Complete'
  BY <1>1 DEF Reads, OneRead, Where, Complete
<1>3. ASSUME NEW b \in Bufs, Filled(b)' PROVE (y[b] # Garbled /\ y[b] = hdr[b])'
  <2>1. Filled(b)
    BY <1>1, <1>3, NothingNew DEF Filled
  <2> QED
    BY <1>1, <2>1 DEF Reads
<1> QED
  BY <1>2, <1>3 DEF Reads

LEMMA FwReadsNext == ASSUME TypeOK, Reads, FwThread PROVE Reads'
<1>0. UNCHANGED <<processed, lck, shown, w, r, u, g>>
  BY DEF FwThread, TakeRead, ReadEnd, Callback, guiVars
<1>f. \A b \in Bufs : Filled(b)' <=> Filled(b)
  BY <1>0 DEF Filled, InUse
<1>1. CASE TakeRead
  <2>1. UNCHANGED <<y, hdr, bufhdr, ridx, readDone>>
    BY <1>1 DEF TakeRead, bufVars
  <2>2. CASE fwBuf = NoIdx
    <3>1. a'.pc = a.pc /\ a'.buf = a.buf /\ a'.hdr = a.hdr /\ UNCHANGED <<fwBuf, rbuf>>
      BY <1>1, <2>2 DEF TakeRead, TypeOK, ReadTypeOK
    <3> QED
      BY <1>0, <1>f, <2>1, <3>1 DEF Reads, OneRead, Where, Complete
  <2>3. CASE fwBuf # NoIdx
    <3>1. a.pc = "idle" /\ a' = [a EXCEPT !.pc = "read", !.buf = fwBuf] /\ fwBuf' = NoIdx
          /\ rbuf' = [rbuf EXCEPT ![fwBuf] = Garbled]
      BY <1>1, <2>3 DEF TakeRead
    <3>2. a'.pc = "read" /\ a'.buf = fwBuf
      BY <3>1 DEF TypeOK, ReadTypeOK
    <3>3. r.pc # "start" /\ readDone # 1 /\ fwBuf = ridx
      BY <2>3 DEF Reads, OneRead, Where
    <3>4. OneRead'
      BY <1>0, <2>1, <2>3, <3>1, <3>2, <3>3 DEF Reads, OneRead
    <3>5. Where'
      BY <1>0, <2>1, <3>1, <3>2, <3>3 DEF Reads, Where
    <3>6. r.pc = "updateY" => rbuf'[r.idx] = rbuf[r.idx]
      BY <3>1, <3>3 DEF Reads, Where, TypeOK, ReadTypeOK, RTypeOK
    <3>7. Complete'
      BY <1>0, <2>1, <3>2, <3>3, <3>6 DEF Reads, Complete
    <3> QED
      BY <1>f, <2>1, <3>4, <3>5, <3>7 DEF Reads
  <2> QED
    BY <2>2, <2>3
<1>2. CASE ReadEnd
  <2>1. a.pc = "read" /\ a' = [a EXCEPT !.pc = "call", !.hdr = 0] /\ UNCHANGED <<ridx, readDone, fwBuf>>
    BY <1>2 DEF ReadEnd
  <2>2. a'.pc = "call" /\ a'.buf = a.buf /\ a'.hdr = 0
    BY <2>1 DEF TypeOK, ReadTypeOK
  <2>3. OneRead' /\ Where'
    BY <1>0, <2>1, <2>2 DEF Reads, OneRead, Where
  <2>4. /\ \A i \in 0 .. 1 : /\ rbuf'[i] = IF i = a.buf THEN 0 ELSE Older(rbuf[i])
                             /\ bufhdr'[i] = Older(bufhdr[i])
        /\ \A b \in Bufs : y'[b] = Older(y[b]) /\ hdr'[b] = Older(hdr[b])
    BY <1>2 DEF ReadEnd, AllOlder, TypeOK, ReadTypeOK
  <2>5. a.buf = ridx /\ ridx \in 0 .. 1 /\ r.idx \in 0 .. 1 /\ readDone # 1
    BY <2>1 DEF Reads, OneRead, Where, TypeOK, ReadTypeOK, RTypeOK
  <2>6. r.pc = "updateY" => r.idx # ridx /\ rbuf[r.idx] \in Ages
    BY <2>5 DEF Reads, Where, TypeOK, ReadTypeOK
  <2>7. Complete'
    BY <1>0, <2>1, <2>2, <2>4, <2>5, <2>6, OlderAges DEF Reads, Complete
  <2>8. ASSUME NEW b \in Bufs, Filled(b)' PROVE (y[b] # Garbled /\ y[b] = hdr[b])'
    <3>1. y[b] # Garbled /\ y[b] = hdr[b] /\ y[b] \in Ages
      BY <1>f, <2>8 DEF Reads, TypeOK, ReadTypeOK
    <3> QED
      BY <2>4, <3>1, OlderAges
  <2> QED
    BY <2>3, <2>7, <2>8 DEF Reads
<1>3. CASE Callback
  <2>1. /\ a.pc = "call" /\ a'.pc = "idle" /\ bufhdr' = [bufhdr EXCEPT ![ridx] = a.hdr]
        /\ readDone' = readDone + 1 /\ UNCHANGED <<y, hdr, rbuf, ridx, fwBuf>>
    BY <1>3 DEF Callback, bufVars, TypeOK, ReadTypeOK
  <2>2. /\ r.pc # "start" /\ readDone = 0 /\ fwBuf = NoIdx /\ rbuf[ridx] = 0 /\ a.hdr = 0
        /\ ridx \in 0 .. 1
    BY <2>1 DEF Reads, OneRead, Complete, TypeOK, ReadTypeOK
  <2>3. OneRead' /\ Where'
    BY <1>0, <2>1, <2>2 DEF Reads, OneRead, Where
  <2>4. bufhdr'[ridx] = 0 /\ (r.pc = "updateY" => bufhdr'[r.idx] = bufhdr[r.idx])
    BY <2>1, <2>2 DEF Reads, Where, TypeOK, ReadTypeOK, RTypeOK
  <2>5. Complete'
    BY <1>0, <2>1, <2>2, <2>4 DEF Reads, Complete, Garbled
  <2> QED
    BY <1>f, <2>1, <2>3, <2>5 DEF Reads
<1> QED
  BY <1>1, <1>2, <1>3 DEF FwThread

\* A request: nothing was under way, now this is.
LEMMA AskReads ==
  ASSUME TypeOK, Reads, fwBuf = NoIdx, a.pc = "idle", ridx' = 1 - ridx, fwBuf' = 1 - ridx,
         a'.pc = a.pc, readDone' = 0, r'.pc \notin {"start", "failed"},
         r'.pc = "updateY" => /\ r'.idx = ridx
                              /\ readDone = 1,
         UNCHANGED <<rbuf, bufhdr>>
  PROVE  OneRead' /\ Where' /\ Complete'
<1>1. ridx \in 0 .. 1 /\ fwBuf' # NoIdx
  BY DEF TypeOK, ReadTypeOK, NoIdx
<1> QED
  BY <1>1 DEF Reads, OneRead, Where, Complete

LEMMA ReaderReadsNext == ASSUME TypeOK, Own, Reads, ReaderThread PROVE Reads'
<1>1. CASE FirstRead \/ Flip
  <2>1. /\ ridx' = 1 - ridx /\ fwBuf' = 1 - ridx /\ a' = signal
        /\ UNCHANGED <<y, hdr, rbuf, bufhdr, processed, lck, shown, w, u, g>>
    BY <1>1, Asked DEF FirstRead, Flip, readAsync, fwReadAsync, bufVars, guiVars
  <2>2. a'.pc = a.pc
    BY <2>1 DEF signal, TypeOK, ReadTypeOK
  <2>3. \/ r.pc = "start" /\ r' = [r EXCEPT !.pc = "getBuf", !.idx = ridx] /\ UNCHANGED readDone
        \/ r.pc = "acquire" /\ r' = [r EXCEPT !.pc = "updateY", !.idx = ridx] /\ readDone = 1
             /\ readDone' = 0
    BY <1>1, Asked DEF FirstRead, Flip, readAsync, TypeOK, ReadTypeOK
  <2>4. r'.b = r.b /\ r'.pc \in {"getBuf", "updateY"} /\ (r'.pc = "updateY" => readDone = 1 /\ r'.idx = ridx)
    BY <2>3 DEF TypeOK, RTypeOK
  <2>5. fwBuf = NoIdx /\ a.pc = "idle" /\ readDone' = 0
    BY <1>1, <2>3, Asked DEF Reads, OneRead
  <2>6. OneRead' /\ Where' /\ Complete'
    BY <2>1, <2>2, <2>4, <2>5, AskReads
  <2>7. \A b \in Bufs : Filled(b)' => Filled(b)
    BY <2>1, <2>4 DEF Filled, InUse
  <2> QED
    BY <2>1, <2>6, <2>7 DEF Reads
<1>2. CASE getBuf \/ Replace \/ Publish \/ notify
  <2>1. UNCHANGED <<y, hdr, rbuf, bufhdr, ridx, readDone, fwBuf, a, shown, w, u, g>>
    BY <1>2 DEF getBuf, Replace, Publish, notify, bufVars, readVars, fwVars, guiVars
  <2>2. r.pc \notin {"start", "updateY", "failed"} /\ r'.pc \notin {"start", "updateY", "failed"}
    BY <1>2 DEF getBuf, Replace, Publish, notify, TypeOK, RTypeOK
  <2>3. OneRead' /\ Where' /\ Complete'
    BY <2>1, <2>2 DEF Reads, OneRead, Where, Complete
  <2>4. \A b \in Bufs : Filled(b)' => Filled(b)
    <3>1. CASE getBuf \/ notify
      <4>1. UNCHANGED <<processed, lck>> /\ r'.pc \notin {"replace", "publish"}
        BY <3>1 DEF getBuf, notify, TypeOK, RTypeOK
      <4> QED
        BY <2>1, <4>1 DEF Filled, InUse
    <3>2. CASE Replace
      <4>1. r'.b = r.b /\ r.pc = "replace" /\ UNCHANGED processed /\ ~lck /\ lck'
        BY <3>2 DEF Replace, TypeOK, RTypeOK, Having
      <4> QED
        BY <2>1, <4>1 DEF Filled, InUse
    <3>3. CASE Publish
      <4>1. r'.b = NoBuf /\ r.pc = "publish" /\ processed' = r.b /\ r'.pc = "notify"
        BY <3>3 DEF Publish, TypeOK, RTypeOK
      <4> QED
        BY <2>1, <4>1 DEF Filled, InUse
    <3> QED
      BY <1>2, <3>1, <3>2, <3>3
  <2> QED
    BY <2>1, <2>3, <2>4 DEF Reads
<1>3. CASE updateY
  <2>1. /\ r.pc = "updateY" /\ r'.pc = "replace" /\ r'.b = r.b
        /\ y' = [y EXCEPT ![r.b] = rbuf[r.idx]] /\ hdr' = [hdr EXCEPT ![r.b] = bufhdr[r.idx]]
        /\ UNCHANGED <<rbuf, bufhdr, ridx, readDone, fwBuf, a, processed, lck, shown, w, u, g>>
    BY <1>3 DEF updateY, readVars, fwVars, guiVars, TypeOK, RTypeOK
  <2>2. OneRead' /\ Where' /\ Complete'
    BY <2>1 DEF Reads, OneRead, Where, Complete
  <2>3. r.b \in Bufs
    BY <2>1 DEF TypeOK, Having, RTypeOK, AnyBuf
  <2>4. (y[r.b] # Garbled /\ y[r.b] = hdr[r.b])'
    BY <2>1, <2>3 DEF Reads, Complete, TypeOK, ReadTypeOK
  <2>5. ASSUME NEW b \in Bufs, b # r.b, Filled(b)' PROVE (y[b] # Garbled /\ y[b] = hdr[b])'
    <3>1. Filled(b)
      BY <2>1, <2>5 DEF Filled, InUse
    <3>2. y'[b] = y[b] /\ hdr'[b] = hdr[b]
      BY <2>1, <2>5 DEF TypeOK, ReadTypeOK
    <3> QED
      BY <3>1, <3>2 DEF Reads
  <2>6. \A b \in Bufs : b = r.b => (y[b] # Garbled /\ y[b] = hdr[b])'
    BY <2>1, <2>4
  <2> QED
    BY <2>2, <2>5, <2>6 DEF Reads
<1> QED
  BY <1>1, <1>2, <1>3 DEF ReaderThread
-----------------------------------------------------------------------------
(* Order.                                                                  *)

LEMMA NewerTrans ==
  ASSUME NEW x \in 0 .. MaxAge, NEW z \in 0 .. MaxAge, NEW v \in 0 .. MaxAge, Newer(x, z), Newer(z, v)
  PROVE  Newer(x, v)
  BY BufsAssumption DEF Newer

LEMMA NewerOlder ==
  \A x, z \in 0 .. MaxAge : Newer(x, z) => Newer(Older(x), Older(z))
  BY BufsAssumption DEF Newer, Older, Garbled

LEMMA NewestRead == \A x \in 0 .. MaxAge : Newer(0, Older(x))
  BY BufsAssumption DEF Newer, Older, Garbled

\* All these ages are ones.
LEMMA AgesKnown ==
  ASSUME TypeOK, Reads
  PROVE  /\ AgeGot \in 0 .. MaxAge /\ AgeProcessed \in 0 .. MaxAge /\ AgeReader \in 0 .. MaxAge
         /\ shownAge \in 0 .. MaxAge
         /\ u.pc \in {"got", "set"} => u.d \in Bufs /\ y[u.d] \in 0 .. MaxAge
         /\ processed # NoBuf /\ ~lck => processed \in Bufs /\ y[processed] \in 0 .. MaxAge
         /\ r.pc \in {"replace", "publish"} => r.b \in Bufs /\ y[r.b] \in 0 .. MaxAge
         /\ a.pc = "call" \/ readDone = 1 => rbuf[ridx] \in 0 .. MaxAge
<1>1. \A b \in Bufs : Filled(b) => y[b] \in 0 .. MaxAge
  BY DEF Reads, TypeOK, ReadTypeOK, Ages, Garbled
<1>2. u.pc \in {"got", "set"} => u.d \in Bufs /\ y[u.d] \in 0 .. MaxAge
  <2>1. u.pc \in {"got", "set"} => u.d \in Bufs /\ Filled(u.d)
    BY DEF TypeOK, Having, GuiTypeOK, AnyBuf, Filled, InUse
  <2> QED
    BY <1>1, <2>1
<1>3. processed # NoBuf /\ ~lck => processed \in Bufs /\ y[processed] \in 0 .. MaxAge
  <2>1. processed # NoBuf /\ ~lck => processed \in Bufs /\ Filled(processed)
    BY DEF TypeOK, RTypeOK, AnyBuf, Filled, InUse
  <2> QED
    BY <1>1, <2>1
<1>4. r.pc \in {"replace", "publish"} => r.b \in Bufs /\ y[r.b] \in 0 .. MaxAge
  <2>1. r.pc \in {"replace", "publish"} => r.b \in Bufs /\ Filled(r.b)
    BY DEF TypeOK, Having, RTypeOK, AnyBuf, Filled
  <2> QED
    BY <1>1, <2>1
<1>5. shownAge \in 0 .. MaxAge
  BY DEF TypeOK, ReadTypeOK
<1>6. r.pc = "updateY" => rbuf[r.idx] \in 0 .. MaxAge
  BY DEF Reads, Complete, TypeOK, ReadTypeOK, RTypeOK, Ages, Garbled
<1>7. a.pc = "call" \/ readDone = 1 => rbuf[ridx] \in 0 .. MaxAge
  BY DEF Reads, Complete, TypeOK, ReadTypeOK, Ages, Garbled
<1> QED
  BY <1>2, <1>3, <1>4, <1>5, <1>6, <1>7 DEF AgeGot, AgeProcessed, AgeReader

LEMMA FwOrderNext == ASSUME TypeOK, Reads, InOrder, FwThread PROVE InOrder'
<1>0. UNCHANGED <<processed, lck, shown, w, r, u, g>>
  BY DEF FwThread, TakeRead, ReadEnd, Callback, guiVars
<1>1. CASE TakeRead
  <2>1. UNCHANGED <<y, ridx, readDone, shownAge>>
    BY <1>1 DEF TakeRead, bufVars
  <2>2. CASE fwBuf = NoIdx
    <3>1. a'.pc = a.pc /\ UNCHANGED rbuf
      BY <1>1, <2>2 DEF TakeRead, TypeOK, ReadTypeOK
    <3> QED
      BY <1>0, <2>1, <3>1 DEF InOrder, AgeReader, AgeProcessed, AgeGot
  <2>3. CASE fwBuf # NoIdx
    <3>1. a' = [a EXCEPT !.pc = "read", !.buf = fwBuf] /\ rbuf' = [rbuf EXCEPT ![fwBuf] = Garbled]
      BY <1>1, <2>3 DEF TakeRead
    <3>2. a'.pc = "read" /\ readDone # 1 /\ fwBuf = ridx
      BY <2>3, <3>1 DEF TypeOK, ReadTypeOK, Reads, OneRead, Where
    <3>3. r.pc = "updateY" => rbuf'[r.idx] = rbuf[r.idx]
      BY <3>1, <3>2 DEF Reads, Where, TypeOK, ReadTypeOK, RTypeOK
    <3>4. AgeReader' = AgeReader /\ AgeProcessed' = AgeProcessed /\ AgeGot' = AgeGot
      BY <1>0, <2>1, <3>3 DEF AgeReader, AgeProcessed, AgeGot
    <3> QED
      BY <1>0, <2>1, <3>2, <3>4 DEF InOrder
  <2> QED
    BY <2>2, <2>3
<1>2. CASE ReadEnd
  <2>1. /\ \A i \in 0 .. 1 : rbuf'[i] = IF i = a.buf THEN 0 ELSE Older(rbuf[i])
        /\ \A b \in Bufs : y'[b] = Older(y[b])
        /\ shownAge' = Older(shownAge)
        /\ UNCHANGED <<ridx, readDone>> /\ a.buf = ridx
    BY <1>2 DEF ReadEnd, AllOlder, TypeOK, ReadTypeOK, Reads, Where
  <2>2. AgeGot' = Older(AgeGot)
    BY <1>0, <2>1, AgesKnown DEF AgeGot
  <2>3. AgeProcessed' = Older(AgeProcessed)
    BY <1>0, <2>1, <2>2, AgesKnown DEF AgeProcessed
  <2>4. AgeReader' = Older(AgeReader)
    <3>1. r.pc = "updateY" => r.idx \in 0 .. 1 /\ r.idx # a.buf
      BY <2>1 DEF Reads, Where, TypeOK, ReadTypeOK, RTypeOK
    <3> QED
      BY <1>0, <2>1, <2>3, <3>1, AgesKnown DEF AgeReader
  <2>5. rbuf'[ridx] = 0
    BY <2>1 DEF TypeOK, ReadTypeOK
  <2> QED
    BY <1>0, <2>1, <2>2, <2>3, <2>4, <2>5, AgesKnown, NewerOlder, NewestRead DEF InOrder
<1>3. CASE Callback
  <2>1. a.pc = "call" /\ UNCHANGED <<y, rbuf, ridx, shownAge>>
    BY <1>3 DEF Callback, bufVars
  <2>2. AgeReader' = AgeReader /\ AgeProcessed' = AgeProcessed /\ AgeGot' = AgeGot
    BY <1>0, <2>1 DEF AgeReader, AgeProcessed, AgeGot
  <2> QED
    BY <1>0, <2>1, <2>2 DEF InOrder
<1> QED
  BY <1>1, <1>2, <1>3 DEF FwThread

LEMMA ReaderOrderNext == ASSUME TypeOK, Own, Reads, InOrder, ReaderThread PROVE InOrder'
<1>0. UNCHANGED <<shownAge, shown, w, u, g>>
  BY Asked DEF ReaderThread, FirstRead, getBuf, Flip, updateY, Replace, Publish, notify, guiVars
<1>1. CASE FirstRead \/ Flip
  <2>1. UNCHANGED <<y, rbuf, processed, lck>> /\ a' = signal
    BY <1>1, Asked DEF FirstRead, Flip, readAsync, fwReadAsync, bufVars
  <2>2. \/ r.pc = "start" /\ r' = [r EXCEPT !.pc = "getBuf", !.idx = ridx] /\ UNCHANGED readDone
        \/ r.pc = "acquire" /\ r' = [r EXCEPT !.pc = "updateY", !.idx = ridx] /\ readDone = 1
             /\ readDone' = 0
    BY <1>1, Asked DEF FirstRead, Flip, readAsync, TypeOK, ReadTypeOK
  <2>3. a'.pc = "idle" /\ readDone' = 0
    BY <1>1, <2>1, <2>2, Asked DEF Reads, OneRead, signal, TypeOK, ReadTypeOK
  <2>4. AgeProcessed' = AgeProcessed /\ AgeGot' = AgeGot
    BY <1>0, <2>1 DEF AgeProcessed, AgeGot
  <2>5. r'.pc = "getBuf" \/ (r'.pc = "updateY" /\ r'.idx = ridx /\ readDone = 1 /\ r.pc = "acquire")
    BY <2>2 DEF TypeOK, RTypeOK
  <2>6. r'.pc = "updateY" => AgeReader' = rbuf[ridx] /\ Newer(rbuf[ridx], AgeProcessed)
    BY <2>1, <2>5 DEF InOrder, AgeReader
  <2> QED
    BY <1>0, <2>1, <2>3, <2>4, <2>5, <2>6 DEF InOrder
<1>2. CASE getBuf \/ notify
  <2>1. UNCHANGED <<y, rbuf, processed, lck, a, ridx, readDone>>
    BY <1>2 DEF getBuf, notify, bufVars, readVars, fwVars
  <2>2. {r.pc, r'.pc} \subseteq {"getBuf", "acquire", "notify"}
    BY <1>2 DEF getBuf, notify, TypeOK, RTypeOK
  <2>3. AgeReader' = AgeReader /\ AgeProcessed' = AgeProcessed /\ AgeGot' = AgeGot
    BY <1>0, <2>1, <2>2 DEF AgeReader, AgeProcessed, AgeGot
  <2> QED
    BY <1>0, <2>1, <2>2, <2>3 DEF InOrder
<1>3. CASE updateY
  <2>1. /\ r.pc = "updateY" /\ r'.pc = "replace" /\ r'.b = r.b
        /\ y' = [y EXCEPT ![r.b] = rbuf[r.idx]]
        /\ UNCHANGED <<rbuf, ridx, readDone, a, processed, lck>>
    BY <1>3 DEF updateY, readVars, fwVars, TypeOK, RTypeOK
  <2>2. r.b \in Bufs /\ ~InUse(r.b)
    BY <2>1, OwnNotInUse DEF TypeOK, Having, RTypeOK, AnyBuf
  <2>3. \A b \in Bufs : b # r.b => y'[b] = y[b]
    BY <2>1 DEF TypeOK, ReadTypeOK
  <2>4. AgeGot' = AgeGot
    BY <1>0, <2>2, <2>3, AgesKnown DEF AgeGot, InUse
  <2>5. AgeProcessed' = AgeProcessed
    BY <2>1, <2>2, <2>3, <2>4, AgesKnown DEF AgeProcessed, InUse
  <2>6. AgeReader' = AgeReader
    BY <2>1, <2>2 DEF AgeReader, TypeOK, ReadTypeOK
  <2>7. /\ u.pc \in {"got", "set"} => y'[u.d] = y[u.d]
        /\ processed # NoBuf /\ ~lck => y'[processed] = y[processed]
    BY <2>2, <2>3, AgesKnown DEF InUse
  <2> QED
    BY <1>0, <2>1, <2>4, <2>5, <2>6, <2>7 DEF InOrder
<1>4. CASE Replace
  <2>1. /\ r.pc = "replace" /\ r'.pc = "publish" /\ r'.b = r.b /\ ~lck /\ lck'
        /\ UNCHANGED <<y, rbuf, ridx, readDone, a, processed>>
    BY <1>4 DEF Replace, bufVars, readVars, fwVars, TypeOK, RTypeOK, Having
  <2>2. AgeGot' = AgeGot /\ AgeProcessed' = AgeGot /\ AgeReader' = AgeReader
    BY <1>0, <2>1 DEF AgeGot, AgeProcessed, AgeReader
  <2>3. Newer(AgeReader, AgeProcessed) /\ (AgeProcessed = AgeGot \/ Newer(AgeProcessed, AgeGot))
    BY <2>1 DEF InOrder, AgeProcessed
  <2>4. Newer(AgeReader, AgeGot)
    BY <2>3, AgesKnown, NewerTrans
  <2> QED
    BY <1>0, <2>1, <2>2, <2>4 DEF InOrder
<1>5. CASE Publish
  <2>1. /\ r.pc = "publish" /\ r'.pc = "notify" /\ lck /\ ~lck' /\ processed' = r.b
        /\ UNCHANGED <<y, rbuf, ridx, readDone, a>>
    BY <1>5 DEF Publish, bufVars, readVars, fwVars, TypeOK, RTypeOK, Having
  <2>2. r.b # NoBuf
    BY <2>1 DEF TypeOK, Having
  <2>3. AgeGot' = AgeGot /\ AgeProcessed' = y[r.b] /\ AgeReader' = y[r.b]
    BY <1>0, <2>1, <2>2 DEF AgeGot, AgeProcessed, AgeReader
  <2>4. AgeReader = y[r.b] /\ AgeProcessed = AgeGot
    BY <2>1 DEF AgeProcessed, AgeReader
  <2> QED
    BY <1>0, <2>1, <2>3, <2>4 DEF InOrder
<1> QED
  BY <1>1, <1>2, <1>3, <1>4, <1>5 DEF ReaderThread

LEMMA GuiOrderNext ==
  ASSUME TypeOK, Reads, InOrder, Gui \/ \E x \in Writers : Writer(x)
  PROVE  InOrder'
<1>1. UNCHANGED <<y, rbuf, ridx, readDone, a, lck>> /\ r'.b = r.b /\ r'.pc = r.pc
      /\ r'.idx = r.idx
  BY DEF Gui, Writer, updateData, getData, DropOrReplace, Show, SetArm, saveData, SaveExit,
         NewWriter, WriterEnter, WriterHandOver, WriterExit, Put, TypeOK, RTypeOK, bufVars, readVars,
         fwVars
<1>2. CASE getData
  <2>1. u.pc = "get" /\ ~lck /\ processed' = NoBuf /\ UNCHANGED shownAge
    BY <1>2 DEF getData
  <2>2. CASE processed = NoBuf
    <3>1. u'.pc = "none"
      BY <1>2, <2>2 DEF getData, TypeOK, GuiTypeOK
    <3>2. AgeGot' = AgeGot /\ AgeProcessed' = AgeProcessed /\ AgeReader' = AgeReader
      BY <1>1, <2>1, <2>2, <3>1 DEF AgeGot, AgeProcessed, AgeReader
    <3> QED
      BY <1>1, <2>1, <3>1, <3>2 DEF InOrder
  <2>3. CASE processed # NoBuf
    <3>1. u'.pc = "got" /\ u'.d = processed
      BY <1>2, <2>3 DEF getData
    <3>2. AgeGot' = AgeProcessed /\ AgeProcessed' = AgeProcessed /\ AgeReader' = AgeReader
      BY <1>1, <2>1, <2>3, <3>1 DEF AgeGot, AgeProcessed, AgeReader
    <3>3. Newer(y[processed], shownAge)
      BY <2>1, <2>3 DEF InOrder, AgeGot
    <3> QED
      BY <1>1, <2>1, <3>1, <3>2, <3>3 DEF InOrder
  <2> QED
    BY <2>2, <2>3
<1>3. CASE DropOrReplace
  <2>1. u.pc = "got" /\ UNCHANGED <<processed, shownAge>>
    BY <1>3 DEF DropOrReplace
  <2>2. CASE trgArm = "Off"
    <3>1. u'.pc = "none"
      BY <1>3, <2>2 DEF DropOrReplace
    <3>2. AgeGot' = shownAge /\ Newer(AgeGot, shownAge)
      BY <2>1, <3>1 DEF AgeGot, InOrder
    <3>3. \/ AgeProcessed' = AgeProcessed /\ processed # NoBuf /\ ~lck /\ AgeProcessed = y[processed]
          \/ AgeProcessed' = shownAge /\ AgeProcessed = AgeGot /\ ~(processed # NoBuf /\ ~lck)
      BY <1>1, <2>1, <3>2 DEF AgeProcessed
    <3>4. AgeProcessed' = AgeProcessed \/ (AgeProcessed' = shownAge /\ Newer(AgeProcessed, shownAge))
      BY <3>2, <3>3
    <3>5. \/ AgeReader' = AgeReader /\ r.pc \in {"updateY", "replace", "publish"}
          \/ AgeReader' = AgeProcessed' /\ AgeReader = AgeProcessed
             /\ r.pc \notin {"updateY", "replace", "publish"}
      BY <1>1 DEF AgeReader
    <3>6. processed # NoBuf /\ ~lck => Newer(y[processed], shownAge)
      BY <3>2, AgesKnown, NewerTrans DEF InOrder
    <3>7. r.pc \in {"updateY", "replace", "publish"} => Newer(AgeReader, AgeProcessed')
      BY <3>4, AgesKnown, NewerTrans DEF InOrder
    <3>8. a.pc = "call" \/ readDone = 1 => Newer(rbuf[ridx], AgeReader')
      BY <3>4, <3>5, AgesKnown, NewerTrans DEF InOrder
    <3> QED
      BY <1>1, <2>1, <3>1, <3>2, <3>5, <3>6, <3>7, <3>8 DEF InOrder
  <2>3. CASE trgArm # "Off"
    <3>1. u'.pc = "set" /\ u'.d = u.d
      BY <1>3, <2>3 DEF DropOrReplace, TypeOK, GuiTypeOK
    <3>2. AgeGot' = AgeGot /\ AgeProcessed' = AgeProcessed /\ AgeReader' = AgeReader
      BY <1>1, <2>1, <3>1 DEF AgeGot, AgeProcessed, AgeReader
    <3> QED
      BY <1>1, <2>1, <3>1, <3>2 DEF InOrder
  <2> QED
    BY <2>2, <2>3
<1>4. CASE Show
  <2>1. u.pc = "set" /\ u'.pc = "none" /\ shownAge' = y[u.d] /\ UNCHANGED processed
    BY <1>4 DEF Show
  <2>2. AgeGot' = AgeGot /\ AgeProcessed' = AgeProcessed /\ AgeReader' = AgeReader
    BY <1>1, <2>1 DEF AgeGot, AgeProcessed, AgeReader
  <2> QED
    BY <1>1, <2>1, <2>2 DEF InOrder
<1>5. CASE ~(getData \/ DropOrReplace \/ Show)
  <2>1. UNCHANGED <<processed, shownAge>> /\ u'.d = u.d /\ (u'.pc = u.pc \/ {u.pc, u'.pc} = {"none", "get"})
    BY <1>5 DEF Gui, Writer, updateData, SetArm, saveData, SaveExit, NewWriter, WriterEnter,
                WriterHandOver, WriterExit, Dispatching, TypeOK, GuiTypeOK
  <2>2. AgeGot' = AgeGot /\ AgeProcessed' = AgeProcessed /\ AgeReader' = AgeReader
    BY <1>1, <2>1 DEF AgeGot, AgeProcessed, AgeReader
  <2> QED
    BY <1>1, <2>1, <2>2 DEF InOrder
<1> QED
  BY <1>2, <1>3, <1>4, <1>5
-----------------------------------------------------------------------------
(* The theorems.                                                           *)

LEMMA InitInv == Init => IInv
<1> SUFFICES ASSUME Init PROVE IInv
  OBVIOUS
<1>1. TypeOK
  BY InitType
<1>2. \A t \in Tags : Holder(t) = NoBuf
  BY AllTags, RolesHold DEF Init, Roles
<1>3. References
  <2>1. Own
    BY DEF Init, Own
  <2>2. refCnt \in [Bufs -> Nat] /\ PoolOK(pool, refCnt)
    BY FullPool DEF Init
  <2>3. Counted(Holders, refCnt)
    <3>1. \A b \in Bufs : HeldBy(Holders, b) = {}
      BY <1>2, BufsAssumption DEF HeldBy, Holders
    <3>2. \A b \in Bufs : refCnt[b] = 0
      BY DEF Init
    <3> QED
      BY <3>1, <3>2, FS_EmptySet DEF Counted
  <2> QED
    BY <2>1, <2>2, <2>3 DEF References
<1>4. Reads
  <2>1. OneRead /\ Where /\ Complete
    BY DEF Init, OneRead, Where, Complete
  <2>2. \A b \in Bufs : y[b] # Garbled /\ y[b] = hdr[b]
    BY BufsAssumption DEF Init, Garbled
  <2> QED
    BY <2>1, <2>2 DEF Reads
<1>5. InOrder
  BY DEF Init, InOrder
<1> QED
  BY <1>1, <1>3, <1>4, <1>5 DEF IInv

LEMMA NextInv == IInv /\ [Next]_vars => IInv'
<1> SUFFICES ASSUME IInv, [Next]_vars PROVE IInv'
  OBVIOUS
<1>0. TypeOK /\ References /\ Own /\ Reads /\ InOrder
  BY DEF IInv, References
<1>1. CASE FwThread
  BY <1>0, <1>1, FwTypeNext, FwRefsNext, FwReadsNext, FwOrderNext DEF IInv
<1>2. CASE ReaderThread
  BY <1>0, <1>2, ReaderTypeNext, ReaderRefsNext, ReaderReadsNext, ReaderOrderNext DEF IInv
<1>3. CASE Gui
  BY <1>0, <1>3, GuiTypeNext, GuiRefsNext, GuiReadsNext, GuiOrderNext DEF IInv
<1>4. ASSUME NEW x \in Writers, Writer(x) PROVE IInv'
  BY <1>0, <1>4, GuiTypeNext, WriterRefsNext, GuiReadsNext, GuiOrderNext DEF IInv
<1>5. CASE UNCHANGED vars
  <2>1. UNCHANGED <<pool, refCnt, y, hdr, rbuf, bufhdr, ridx, readDone, processed, lck, fwBuf, a, r,
                    shown, u, g, w, shownAge>>
    BY <1>5 DEF vars, bufVars, readVars, fwVars, guiVars
  <2>2. TypeOK'
    BY <1>0, <2>1 DEF TypeOK, RTypeOK, GuiTypeOK, ReadTypeOK, Having
  <2>3. References'
    BY <1>0, <2>1, RefsUntouched
  <2>4. Reads'
    BY <1>0, <2>1 DEF Reads, OneRead, Where, Complete, Filled, InUse
  <2>5. InOrder'
    BY <1>0, <2>1 DEF InOrder, AgeReader, AgeProcessed, AgeGot
  <2> QED
    BY <2>2, <2>3, <2>4, <2>5 DEF IInv
<1> QED
  BY <1>1, <1>2, <1>3, <1>4, <1>5 DEF Next

THEOREM Invariance == Spec => []IInv
<1> QED
  BY InitInv, NextInv, PTL DEF Spec

LEMMA UsersInUse == ASSUME NEW b \in Bufs PROVE Users(b) = {} <=> ~InUse(b)
  BY DEF Users, InUse

\* What no invariant depends on.
Rest ==
  /\ events \in 0 .. 2 /\ trgArm \in {"Off", "Single", "Continuous"}
  /\ r.asleep \in BOOLEAN /\ a.asleep \in BOOLEAN

LEMMA RestNext == TypeOK /\ Rest /\ [Next]_vars => Rest'
<1> SUFFICES ASSUME TypeOK, Rest, [Next]_vars PROVE Rest'
  OBVIOUS
<1>1. events' \in 0 .. 2
  <2>1. \/ events' = events
        \/ events' = IF events = 2 THEN 2 ELSE events + 1
        \/ events' \in IF events = 2 THEN {1, 2} ELSE {0}
    BY DEF Next, FwThread, TakeRead, ReadEnd, Callback, ReaderThread, FirstRead, getBuf, Flip, updateY,
           Replace, Publish, notify, Gui, updateData, getData, DropOrReplace, Show, SetArm, saveData,
           SaveExit, NewWriter, Writer, WriterEnter, WriterHandOver, WriterExit, vars
  <2> QED
    BY <2>1 DEF Rest
<1>2. trgArm' \in {"Off", "Single", "Continuous"}
  BY DEF Rest, Next, FwThread, TakeRead, ReadEnd, Callback, ReaderThread, FirstRead, getBuf, Flip, updateY,
         Replace, Publish, notify, Gui, updateData, getData, DropOrReplace, Show, SetArm, saveData,
         SaveExit, NewWriter, Writer, WriterEnter, WriterHandOver, WriterExit, vars, guiVars
<1>3. a'.asleep \in BOOLEAN
  <2> DEFINE rec == [pc |-> a.pc, buf |-> a.buf, hdr |-> a.hdr, asleep |-> a.asleep]
  <2>1. a = rec
    BY DEF TypeOK, ReadTypeOK
  <2>2. CASE TakeRead
    <3>1. a' = [a EXCEPT !.asleep = TRUE] \/ a' = [a EXCEPT !.pc = "read", !.buf = fwBuf]
      BY <2>2 DEF TakeRead
    <3> QED
      BY <2>1, <3>1 DEF Rest
  <2>3. CASE ReadEnd
    BY <2>1, <2>3 DEF Rest, ReadEnd
  <2>4. CASE Callback
    BY <2>1, <2>4 DEF Rest, Callback
  <2>5. CASE FirstRead \/ Flip
    <3>1. a' = a \/ a' = [a EXCEPT !.asleep = FALSE]
      BY <2>5 DEF FirstRead, Flip, readAsync, fwReadAsync, signal, fwVars
    <3> QED
      BY <2>1, <3>1 DEF Rest
  <2>6. CASE ~(FwThread \/ FirstRead \/ Flip)
    <3>1. a' = a
      BY <2>6 DEF Next, ReaderThread, getBuf, updateY, Replace, Publish, notify, Gui, updateData,
                  getData, DropOrReplace, Show, SetArm, saveData, SaveExit, NewWriter, Writer,
                  WriterEnter, WriterHandOver, WriterExit, vars, fwVars
    <3> QED
      BY <3>1 DEF Rest
  <2> QED
    BY <2>2, <2>3, <2>4, <2>5, <2>6 DEF FwThread
<1>4. r'.asleep \in BOOLEAN
  <2> DEFINE rec == [pc |-> r.pc, b |-> r.b, idx |-> r.idx, asleep |-> r.asleep]
  <2>1. r = rec
    BY DEF TypeOK, RTypeOK
  <2>2. CASE FirstRead \/ Flip
    <3>1. PICK next \in {"getBuf", "updateY"} :
            r' = [r EXCEPT !.pc = "failed"] \/ r' = [r EXCEPT !.pc = next, !.idx = ridx]
      BY <2>2 DEF FirstRead, Flip, readAsync
    <3> QED
      BY <2>1, <3>1 DEF Rest
  <2>3. CASE getBuf
    <3>1. r' = [r EXCEPT !.asleep = TRUE] \/ r' = [r EXCEPT !.pc = "acquire", !.b = Head(pool)]
      BY <2>3 DEF getBuf
    <3> QED
      BY <2>1, <3>1 DEF Rest
  <2>4. CASE updateY \/ Replace
    <3>1. r' = [r EXCEPT !.pc = "replace"] \/ r' = [r EXCEPT !.pc = "publish"]
      BY <2>4 DEF updateY, Replace
    <3> QED
      BY <2>1, <3>1 DEF Rest
  <2>5. CASE Publish \/ notify
    <3>1. r' = [r EXCEPT !.pc = "notify", !.b = NoBuf] \/ r' = [r EXCEPT !.pc = "getBuf"]
      BY <2>5 DEF Publish, notify
    <3> QED
      BY <2>1, <3>1 DEF Rest
  <2>6. CASE ~ReaderThread
    <3>1. r' = r \/ r' = [r EXCEPT !.asleep = FALSE]
      BY <2>6 DEF Next, FwThread, TakeRead, ReadEnd, Callback, Gui, updateData, getData, DropOrReplace,
                  Show, SetArm, saveData, SaveExit, NewWriter, Writer, WriterEnter, WriterHandOver,
                  WriterExit, vars, Put
    <3> QED
      BY <2>1, <3>1 DEF Rest
  <2> QED
    BY <2>2, <2>3, <2>4, <2>5, <2>6 DEF ReaderThread
<1> QED
  BY <1>1, <1>2, <1>3, <1>4 DEF Rest

\* Every variable is of its type: TypeOK where the invariant needs it, Rest for
\* what nothing else depends on.
THEOREM TypeCorrect == Spec => [](TypeOK /\ Rest)
<1>1. Init => Rest
  <2> SUFFICES ASSUME Init PROVE Rest
    OBVIOUS
  <2>1. events = 0 /\ trgArm = "Continuous"
    BY DEF Init
  <2>2. FALSE \in BOOLEAN
    OBVIOUS
  <2>3. r.asleep = FALSE /\ a.asleep = FALSE
    BY DEF Init
  <2>4. r.asleep \in BOOLEAN /\ a.asleep \in BOOLEAN
    BY <2>2, <2>3
  <2> QED
    BY <2>1, <2>4 DEF Rest
<1>2. IInv => TypeOK
  BY DEF IInv
<1> QED
  BY <1>1, <1>2, RestNext, Invariance, PTL DEF Spec

\* Reader.getBuf and putBuf: a buffer somebody waits to show, shows or writes
\* to a file is neither in the pool nor being filled.
THEOREM NobodysBufferReused == Spec => []NotReused
<1>1. ASSUME IInv PROVE NotReused
  <2> SUFFICES ASSUME NEW b \in Bufs, Pooled(b) \/ r.b = b PROVE Users(b) = {}
    BY DEF NotReused
  <2>1. References
    BY <1>1 DEF IInv
  <2>2. CASE Pooled(b)
    <3>1. refCnt[b] = 0
      BY <2>1, <2>2 DEF Pooled, References, PoolOK
    <3>2. \A t \in Tags : Holder(t) # b
      BY <2>1, <3>1, HoldersFunction, NoReference DEF References
    <3> QED
      BY <3>2, UseIsTag, UsersInUse
  <2>3. CASE r.b = b
    BY <2>1, <2>3, OwnNotInUse, UsersInUse DEF References
  <2> QED
    BY <2>2, <2>3
<1> QED
  BY <1>1, Invariance, PTL

\* putBuf and decRef: what nobody uses is in the pool, once.
THEOREM NoBufferLost == Spec => []NoLeak
<1>1. ASSUME IInv PROVE NoLeak
  <2> SUFFICES ASSUME NEW b \in Bufs, Users(b) = {}, r.b # b
               PROVE  Cardinality({i \in DOMAIN pool : pool[i] = b}) = 1
    BY DEF NoLeak
  <2>1. References
    BY <1>1 DEF IInv
  <2>2. \A t \in Tags : Holder(t) # b
    BY UseIsTag, UsersInUse, RolesHold DEF Roles
  <2>3. refCnt[b] = 0
    BY <2>1, <2>2, HoldersFunction, NoReference DEF References
  <2>4. PICK i \in 1 .. Len(pool) : pool[i] = b
    BY <2>1, <2>3 DEF References, PoolOK
  <2>5. DOMAIN pool = 1 .. Len(pool)
    BY <2>1 DEF References, PoolOK
  <2>6. {k \in DOMAIN pool : pool[k] = b} = {i}
    BY <2>1, <2>4, <2>5 DEF References, PoolOK
  <2> QED
    BY <2>6, FS_Singleton
<1> QED
  BY <1>1, Invariance, PTL

\* Reader.run and its callback: samples that are shown or written were
\* complete when they were copied, and have their own header.
THEOREM HeaderOfItsData == Spec => []HdrOfData
<1>1. ASSUME IInv PROVE HdrOfData
  BY <1>1, UsersInUse DEF IInv, Reads, Filled, HdrOfData
<1> QED
  BY <1>1, Invariance, PTL

\* getData, updateData: the display never goes back.
THEOREM DisplayGoesForward == Spec => NewestFirst
<1>1. IInv /\ [Next]_vars => [u.pc = "set" /\ u'.pc = "none" => y[u.d] < shownAge \/ shownAge = MaxAge]_vars
  BY DEF IInv, InOrder, Newer
<1> QED
  BY <1>1, Invariance, PTL DEF Spec, NewestFirst

\* Reader.readAsync: FwComm never refuses a read.
THEOREM ReadsAccepted == Spec => [](r.pc # "failed")
<1>1. IInv => r.pc # "failed"
  BY DEF IInv, Reads, OneRead
<1> QED
  BY <1>1, Invariance, PTL
=============================================================================
