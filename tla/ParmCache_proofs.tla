---------------------------- MODULE ParmCache_proofs ----------------------------
(***************************************************************************)
(* Theorems about ParmCache, for every size of the memory, every set of    *)
(* masks and any number of failed transfers.                               *)
(*                                                                         *)
(* Validation commutes with the merge as long as what it compares with is  *)
(* known: the device clips npts with its own nsamples and switches the     *)
(* output off for its own source, the library with those of its cache.     *)
(* Hence a doubt about nsamples is one about npts, too, and one about the  *)
(* source one about the output.                                            *)
(***************************************************************************)
EXTENDS ParmCache, TLAPS

ParmSet == [src : {"CHA", "EXT"}, tgo : BOOLEAN, npts : Nat, nsamples : Nat, dcm : Nat \X Nat,
            shift : Nat, scale : Nat]

\* Within the limits of a request.
AsSent(p) == \A f \in {"dcm", "shift", "scale"} : OnWire(f, p[f]) = p[f]

\* What the device makes sure of.
Consistent(p) ==
  /\ p \in ParmSet
  /\ p.nsamples \in 1 .. memSize /\ p.npts < p.nsamples
  /\ p.src = "EXT" => p.tgo = FALSE
  /\ AsSent(p)

TypeOK ==
  /\ client \in {"C", "Python"} /\ Consistent(dev) /\ c \in ParmSet /\ py \in ParmSet
  /\ failed \in Nat

\* What a doubt entails.
Doubts ==
  /\ "nsamples" \in suspect => "npts" \in suspect
  /\ "src" \in suspect => "tgo" \in suspect
  /\ failed = 0 => suspect \subseteq {"npts"}

\* What the library's cache knows and Python has not been told otherwise.
PyKnows ==
  client = "Python" =>
    /\ \A f \in {"src", "nsamples", "dcm"} \ suspect : py[f] = dev[f]
    /\ failed = 0 => py.npts = dev.npts

\* The setter that raised an exception has not changed the copy.
PyRaised == last.raised => client = "Python" /\ last.f \in Fields /\ py[last.f] # last.v

IInv == TypeOK /\ Confined /\ Doubts /\ PyKnows /\ PyRaised
-----------------------------------------------------------------------------
(* The operators.                                                          *)

LEMMA TruncEven == \A x \in Nat : Trunc(x) \in Nat /\ Trunc(Trunc(x)) = Trunc(x)
<1> TAKE x \in Nat
<1>1. x % 2 \in 0 .. 1 /\ x % 2 <= x
  OBVIOUS
<1>2. x - (x % 2) \in Nat
  BY <1>1
<1>3. (x - (x % 2)) % 2 = 0
  OBVIOUS
<1> QED
  BY <1>2, <1>3 DEF Trunc

LEMMA LimitedIs ==
  ASSUME NEW n \in Nat, NEW max \in Nat, max >= 1
  PROVE  Limited(n, max) \in 1 .. max /\ Limited(Limited(n, max), max) = Limited(n, max)
BY DEF Limited

\* What OnWire does to the decimation.
LEMMA DcmIs ==
  ASSUME NEW v \in Nat \X Nat
  PROVE  LET w == OnWire("dcm", v)
         IN  /\ w \in Nat \X Nat /\ OnWire("dcm", w) = w
             /\ w[1] = 1 => w = <<1, 1>>
<1> DEFINE a == Limited(v[1], MaxCic0)
           b == Limited(v[2], MaxCic1)
           w == IF a = 1 THEN <<1, 1>> ELSE <<a, b>>
<1>1. \A u : OnWire("dcm", u) = IF Limited(u[1], MaxCic0) = 1 THEN <<1, 1>>
                                ELSE <<Limited(u[1], MaxCic0), Limited(u[2], MaxCic1)>>
  BY DEF OnWire
<1>2. /\ a \in 1 .. MaxCic0 /\ Limited(a, MaxCic0) = a
      /\ b \in 1 .. MaxCic1 /\ Limited(b, MaxCic1) = b
      /\ Limited(1, MaxCic0) = 1
  <2>1. MaxCic0 \in Nat /\ MaxCic0 > 1 /\ MaxCic1 \in Nat /\ MaxCic1 > 1
    BY ParmAssumption
  <2>2. Limited(1, MaxCic0) = 1
    BY <2>1 DEF Limited
  <2>3. v[1] \in Nat /\ v[2] \in Nat
    OBVIOUS
  <2>4. MaxCic0 >= 1 /\ MaxCic1 >= 1
    BY <2>1
  <2>5. a \in 1 .. MaxCic0 /\ Limited(a, MaxCic0) = a
    BY <2>1, <2>3, <2>4, LimitedIs
  <2>6. b \in 1 .. MaxCic1 /\ Limited(b, MaxCic1) = b
    BY <2>1, <2>3, <2>4, LimitedIs
  <2> QED
    BY <2>2, <2>5, <2>6
<1>3. a \in Nat /\ b \in Nat
  BY <1>2, ParmAssumption
<1>4. OnWire("dcm", v) = w
  BY <1>1
<1> HIDE DEF a, b
<1>5. w \in Nat \X Nat /\ (w[1] = 1 => w = <<1, 1>>)
  BY <1>3
<1>6. OnWire("dcm", w) = w
  <2>1. CASE a = 1
    <3>1. w = <<1, 1>>
      BY <2>1
    <3> QED
      BY <1>1, <1>2, <3>1
  <2>2. CASE a # 1
    <3>1. w = <<a, b>> /\ w[1] = a /\ w[2] = b
      BY <2>2
    <3> HIDE DEF w
    <3> QED
      BY <1>1, <1>2, <2>2, <3>1
  <2> QED
    BY <2>1, <2>2
<1> QED
  BY <1>4, <1>5, <1>6

LEMMA ShiftIs ==
  ASSUME NEW v \in Nat
  PROVE  OnWire("shift", v) \in Nat /\ OnWire("shift", OnWire("shift", v)) = OnWire("shift", v)
<1>1. \A u : OnWire("shift", u) = IF u > MaxShift THEN MaxShift ELSE u
  BY DEF OnWire
<1> QED
  BY <1>1, ParmAssumption

LEMMA ScaleIs ==
  ASSUME NEW v \in Nat
  PROVE  OnWire("scale", v) \in Nat /\ OnWire("scale", OnWire("scale", v)) = OnWire("scale", v)
<1>1. \A u : OnWire("scale", u) = Trunc(u)
  BY DEF OnWire
<1> QED
  BY <1>1, TruncEven

\* The other fields are sent as they are.
LEMMA SameOnWire == \A f \in Fields \ {"dcm", "shift", "scale"} : \A v : OnWire(f, v) = v
BY DEF OnWire, Fields

LEMMA SentIs ==
  ASSUME NEW k \in ParmSet
  PROVE  /\ Sent(k) \in ParmSet /\ AsSent(Sent(k))
         /\ \A f \in Fields : Sent(k)[f] = OnWire(f, k[f])
         /\ Sent(k).src = k.src /\ Sent(k).tgo = k.tgo /\ Sent(k).npts = k.npts
         /\ Sent(k).nsamples = k.nsamples
<1>1. \A f \in Fields : Sent(k)[f] = OnWire(f, k[f])
  BY DEF Sent
<1>2. /\ Sent(k).src = k.src /\ Sent(k).tgo = k.tgo /\ Sent(k).npts = k.npts
      /\ Sent(k).nsamples = k.nsamples
  BY <1>1, SameOnWire DEF Fields
<1>3. k.dcm \in Nat \X Nat /\ k.shift \in Nat /\ k.scale \in Nat
  BY DEF ParmSet
<1>4. /\ Sent(k).dcm = OnWire("dcm", k.dcm) /\ Sent(k).shift = OnWire("shift", k.shift)
      /\ Sent(k).scale = OnWire("scale", k.scale)
  BY <1>1 DEF Fields
<1>5. Sent(k).dcm \in Nat \X Nat /\ OnWire("dcm", Sent(k).dcm) = Sent(k).dcm
  BY <1>3, <1>4, DcmIs
<1>6. Sent(k).shift \in Nat /\ OnWire("shift", Sent(k).shift) = Sent(k).shift
  BY <1>3, <1>4, ShiftIs
<1>7. Sent(k).scale \in Nat /\ OnWire("scale", Sent(k).scale) = Sent(k).scale
  BY <1>3, <1>4, ScaleIs
<1>8. Sent(k) = [src |-> Sent(k).src, tgo |-> Sent(k).tgo, npts |-> Sent(k).npts,
                 nsamples |-> Sent(k).nsamples, dcm |-> Sent(k).dcm, shift |-> Sent(k).shift,
                 scale |-> Sent(k).scale]
  BY DEF Sent, Fields
<1>9. k.src \in {"CHA", "EXT"} /\ k.npts \in Nat /\ k.nsamples \in Nat
  BY DEF ParmSet
<1>10. k.tgo \in BOOLEAN
  BY DEF ParmSet
<1>11. Sent(k) \in ParmSet
  BY <1>2, <1>5, <1>6, <1>7, <1>8, <1>9, <1>10 DEF ParmSet
<1>12. AsSent(Sent(k))
  BY <1>5, <1>6, <1>7 DEF AsSent
<1> QED
  BY <1>1, <1>2, <1>11, <1>12

LEMMA MergedIs ==
  ASSUME NEW o \in ParmSet, NEW n \in ParmSet, NEW m
  PROVE  /\ Merged(o, m, n) \in ParmSet
         /\ \A f \in Fields : Merged(o, m, n)[f] = IF f \in m THEN n[f] ELSE o[f]
         /\ AsSent(o) /\ AsSent(n) => AsSent(Merged(o, m, n))
<1>1. \A f \in Fields : Merged(o, m, n)[f] = IF f \in m THEN n[f] ELSE o[f]
  BY DEF Merged
<1>2. Merged(o, m, n) = [src |-> Merged(o, m, n).src, tgo |-> Merged(o, m, n).tgo,
                         npts |-> Merged(o, m, n).npts, nsamples |-> Merged(o, m, n).nsamples,
                         dcm |-> Merged(o, m, n).dcm, shift |-> Merged(o, m, n).shift,
                         scale |-> Merged(o, m, n).scale]
  BY DEF Merged, Fields
<1>3. Merged(o, m, n).src \in {"CHA", "EXT"} /\ Merged(o, m, n).dcm \in Nat \X Nat
  BY <1>1 DEF Fields, ParmSet
<1>4. /\ Merged(o, m, n).npts \in Nat /\ Merged(o, m, n).nsamples \in Nat
      /\ Merged(o, m, n).shift \in Nat /\ Merged(o, m, n).scale \in Nat
  BY <1>1 DEF Fields, ParmSet
<1>5. Merged(o, m, n).tgo \in BOOLEAN
  BY <1>1 DEF Fields, ParmSet
<1>6. AsSent(o) /\ AsSent(n) => AsSent(Merged(o, m, n))
  BY <1>1 DEF Fields, AsSent
<1>7. Merged(o, m, n) \in ParmSet
  BY <1>2, <1>3, <1>4, <1>5 DEF ParmSet
<1> QED
  BY <1>1, <1>6, <1>7

\* The number of samples the library compares with.
Samples(mask, set) ==
  IF "nsamples" \notin mask THEN c.nsamples
  ELSE IF set.nsamples > memSize THEN memSize
  ELSE IF set.nsamples < 1 THEN 1 ELSE set.nsamples

LEMMA CheckedIs ==
  ASSUME c \in ParmSet, NEW set \in ParmSet, NEW mask
  PROVE  LET k == Checked(mask, set)
         IN  /\ k \in ParmSet
             /\ k.src = IF "src" \in mask THEN set.src ELSE c.src
             /\ k.src = "EXT" => k.tgo = FALSE
             /\ k.src # "EXT" => k.tgo = IF "tgo" \in mask THEN set.tgo ELSE c.tgo
             /\ k.dcm = IF set.dcm[1] <= 1 THEN <<set.dcm[1], 1>> ELSE set.dcm
             /\ k.nsamples = Samples(mask, set)
             /\ "nsamples" \in mask => k.nsamples \in 1 .. memSize
             /\ k.npts = IF set.npts >= k.nsamples THEN (Wrap + k.nsamples - 1) % Wrap ELSE set.npts
             /\ "dcm" \notin mask \/ "scale" \in mask => k.scale = set.scale
<1> DEFINE k == Checked(mask, set)
           n == Samples(mask, set)
           src == IF "src" \in mask THEN set.src ELSE c.src
           tgo == IF "tgo" \in mask THEN set.tgo ELSE c.tgo
           dcm == IF set.dcm[1] <= 1 THEN <<set.dcm[1], 1>> ELSE set.dcm
           npts == IF set.npts >= n THEN (Wrap + n - 1) % Wrap ELSE set.npts
           shift == IF "dcm" \in mask /\ "scale" \notin mask THEN 0 ELSE set.shift
           scale == IF "dcm" \in mask /\ "scale" \notin mask
                    THEN acq_default_cic1Scale(dcm[2]) ELSE set.scale
<1>1. k = [src |-> src, tgo |-> (tgo /\ src # "EXT"), dcm |-> dcm, nsamples |-> n, npts |-> npts,
           shift |-> shift, scale |-> scale]
  BY DEF Checked, Samples
<1>2. n \in Nat /\ ("nsamples" \in mask => n \in 1 .. memSize)
  BY ParmAssumption DEF Samples, ParmSet
<1>3. npts \in Nat
  <2>1. Wrap \in Nat /\ Wrap > 0 /\ set.npts \in Nat
    BY ParmAssumption DEF ParmSet
  <2> HIDE DEF n
  <2>2. (Wrap + n - 1) % Wrap \in Nat
    BY <1>2, <2>1
  <2> QED
    BY <2>1, <2>2
<1>4. shift \in Nat /\ scale \in Nat
  <2>1. \A n1 : acq_default_cic1Scale(n1) \in Nat
    BY ParmAssumption DEF acq_default_cic1Scale
  <2> QED
    BY <2>1 DEF ParmSet
<1>5. dcm \in Nat \X Nat /\ src \in {"CHA", "EXT"}
  BY DEF ParmSet
<1>6. tgo \in BOOLEAN
  BY DEF ParmSet
<1>7. "dcm" \notin mask \/ "scale" \in mask => scale = set.scale
  OBVIOUS
<1> HIDE DEF n, src, tgo, dcm, npts, shift, scale, k
<1>8. (tgo /\ src # "EXT") \in BOOLEAN
  OBVIOUS
<1>9. k \in ParmSet
  BY <1>1, <1>2, <1>3, <1>4, <1>5, <1>8 DEF ParmSet
<1>10. k.src = src /\ k.dcm = dcm /\ k.nsamples = n /\ k.npts = npts /\ k.scale = scale
  BY <1>1
<1>11. k.tgo = (tgo /\ src # "EXT")
  BY <1>1
<1>12. (src = "EXT" => k.tgo = FALSE) /\ (src # "EXT" => k.tgo = tgo)
  BY <1>6, <1>11
<1> QED
  BY <1>2, <1>7, <1>9, <1>10, <1>12 DEF k, n, src, tgo, dcm, npts

LEMMA ValidIs ==
  ASSUME NEW p \in ParmSet, p.nsamples >= 1, AsSent(p)
  PROVE  LET v == Valid(p)
         IN  /\ Consistent(v)
             /\ v.src = p.src /\ v.dcm = p.dcm /\ v.shift = p.shift /\ v.scale = p.scale
             /\ v.nsamples = IF p.nsamples > memSize THEN memSize ELSE p.nsamples
             /\ v.npts = IF p.npts >= v.nsamples THEN v.nsamples - 1 ELSE p.npts
             /\ p.src = "EXT" => v.tgo = FALSE
             /\ p.src # "EXT" => v.tgo = p.tgo
<1> DEFINE v == Valid(p)
           n == IF p.nsamples > memSize THEN memSize ELSE p.nsamples
           dcm == IF p.dcm[1] = 1 THEN <<1, 1>> ELSE p.dcm
           npts == IF p.npts >= n THEN n - 1 ELSE p.npts
           tgo == p.tgo /\ p.src # "EXT"
<1>1. v = [src |-> p.src, tgo |-> tgo, npts |-> npts, nsamples |-> n, dcm |-> dcm,
           shift |-> p.shift, scale |-> p.scale]
  <2>1. p = [src |-> p.src, tgo |-> p.tgo, npts |-> p.npts, nsamples |-> p.nsamples, dcm |-> p.dcm,
             shift |-> p.shift, scale |-> p.scale]
    BY DEF ParmSet
  <2>2. v = [p EXCEPT !.dcm = dcm, !.nsamples = n, !.npts = npts, !.tgo = tgo]
    BY <2>1, Zenon DEF Valid
  <2> HIDE DEF n, dcm, npts, tgo, v
  <2> DEFINE q1 == [p EXCEPT !.dcm = dcm]
             q2 == [q1 EXCEPT !.nsamples = n]
             q3 == [q2 EXCEPT !.npts = npts]
             q4 == [q3 EXCEPT !.tgo = tgo]
  <2>3. v = q4
    BY <2>2, Zenon
  <2>4. q1 = [src |-> p.src, tgo |-> p.tgo, npts |-> p.npts, nsamples |-> p.nsamples, dcm |-> dcm,
              shift |-> p.shift, scale |-> p.scale]
    BY <2>1
  <2> HIDE DEF q1
  <2>5. q2 = [src |-> p.src, tgo |-> p.tgo, npts |-> p.npts, nsamples |-> n, dcm |-> dcm,
              shift |-> p.shift, scale |-> p.scale]
    BY <2>4
  <2> HIDE DEF q2
  <2>6. q3 = [src |-> p.src, tgo |-> p.tgo, npts |-> npts, nsamples |-> n, dcm |-> dcm,
              shift |-> p.shift, scale |-> p.scale]
    BY <2>5
  <2> HIDE DEF q3
  <2>7. q4 = [src |-> p.src, tgo |-> tgo, npts |-> npts, nsamples |-> n, dcm |-> dcm,
              shift |-> p.shift, scale |-> p.scale]
    BY <2>6
  <2> HIDE DEF q4
  <2> QED
    BY <2>3, <2>7
<1>2. n \in 1 .. memSize
  BY ParmAssumption DEF ParmSet
<1>3. npts \in Nat /\ npts < n
  BY <1>2 DEF ParmSet
<1>4. dcm = p.dcm /\ p.dcm \in Nat \X Nat
  <2>1. p.dcm \in Nat \X Nat /\ OnWire("dcm", p.dcm) = p.dcm
    BY DEF ParmSet, AsSent
  <2>2. p.dcm[1] = 1 => p.dcm = <<1, 1>>
    BY <2>1, DcmIs
  <2> QED
    BY <2>1, <2>2
<1>5. p.src \in {"CHA", "EXT"} /\ p.shift \in Nat /\ p.scale \in Nat
  BY DEF ParmSet
<1>6. p.tgo \in BOOLEAN
  BY DEF ParmSet
<1>7. (p.src = "EXT" => tgo = FALSE) /\ (p.src # "EXT" => tgo = p.tgo) /\ tgo \in BOOLEAN
  BY <1>6
<1> HIDE DEF n, dcm, npts, tgo, v
<1>8. v \in ParmSet
  BY <1>1, <1>2, <1>3, <1>4, <1>5, <1>7 DEF ParmSet
<1>9. /\ v.src = p.src /\ v.tgo = tgo /\ v.npts = npts /\ v.nsamples = n /\ v.dcm = p.dcm
      /\ v.shift = p.shift /\ v.scale = p.scale
  BY <1>1, <1>4
<1>10. AsSent(v)
  BY <1>9 DEF AsSent
<1>11. Consistent(v)
  BY <1>2, <1>3, <1>7, <1>8, <1>9, <1>10 DEF Consistent
<1> QED
  BY <1>7, <1>9, <1>11 DEF v, n, npts

LEMMA FullMaskIs ==
  ASSUME NEW mask, NEW set
  PROVE  LET full == FullMask(mask, set)
         IN  /\ \A f \in {"src", "npts", "nsamples", "dcm"} : f \in full <=> f \in mask
             /\ "tgo" \in mask => "tgo" \in full
             /\ "tgo" \notin full => Checked(mask, set).src # "EXT" \/ ~c.tgo
  BY DEF FullMask, Scaling

\* Setting a valid value: what the device has then.
LEMMA DevAfterSet ==
  ASSUME Consistent(dev), c \in ParmSet, NEW mask, NEW set \in ParmSet
  PROVE  LET full == FullMask(mask, set)
             k == Checked(mask, set)
             m == Merged(dev, full, Sent(k))
         IN  k \in ParmSet /\ m \in ParmSet /\ m.nsamples >= 1 /\ AsSent(m) /\ Consistent(Valid(m))
<1> DEFINE full == FullMask(mask, set)
           k == Checked(mask, set)
           m == Merged(dev, full, Sent(k))
<1>1. k \in ParmSet /\ ("nsamples" \in mask => k.nsamples \in 1 .. memSize)
  BY CheckedIs
<1>2. "nsamples" \in full <=> "nsamples" \in mask
  BY FullMaskIs
<1>3. dev \in ParmSet /\ dev.nsamples \in 1 .. memSize /\ AsSent(dev)
  BY DEF Consistent
<1> HIDE DEF full, k
<1>4. Sent(k) \in ParmSet /\ AsSent(Sent(k)) /\ Sent(k).nsamples = k.nsamples
  BY <1>1, SentIs
<1>5. /\ m \in ParmSet /\ AsSent(m)
      /\ m.nsamples = IF "nsamples" \in full THEN k.nsamples ELSE dev.nsamples
  BY <1>3, <1>4, MergedIs DEF Fields
<1>6. m.nsamples >= 1
  BY <1>1, <1>2, <1>3, <1>5
<1> HIDE DEF m
<1>7. Consistent(Valid(m))
  BY <1>5, <1>6, ValidIs
<1> QED
  BY <1>1, <1>5, <1>6, <1>7 DEF full, k, m

LEMMA SetTypes ==
  ASSUME TypeOK, NEW mask, NEW set \in ParmSet, NEW res, acq_set_params(mask, set, res)
  PROVE  Consistent(dev)' /\ c' \in ParmSet /\ failed' \in Nat
<1>1. Consistent(dev')
  BY DevAfterSet DEF TypeOK, acq_set_params
<1>2. c' \in ParmSet
  BY DevAfterSet, MergedIs DEF TypeOK, acq_set_params, Update
<1>3. failed' \in Nat
  BY DEF acq_set_params, TypeOK
<1> QED
  BY <1>1, <1>2, <1>3 DEF Consistent

LEMMA SetDoubts ==
  ASSUME TypeOK, Doubts, NEW mask, NEW set \in ParmSet, NEW res, acq_set_params(mask, set, res)
  PROVE  Doubts'
<1> DEFINE full == FullMask(mask, set)
<1>1. /\ suspect' = IF res # "ok" THEN suspect \union Touched(full)
                    ELSE (suspect \ Healed(full)) \union ((Touched(full) \ full) \intersect {"npts"})
      /\ failed' = IF res = "ok" THEN failed ELSE failed + 1
      /\ failed \in Nat
  BY DEF acq_set_params, TypeOK
<1> HIDE DEF full
<1> QED
  BY <1>1 DEF Doubts, Touched, Healed
\* The device leaves alone what is not set and does not follow from what is.
LEMMA DevKeeps ==
  ASSUME Consistent(dev), c \in ParmSet, NEW full, NEW k \in ParmSet,
         Merged(dev, full, Sent(k)).nsamples >= 1
  PROVE  LET d == Valid(Merged(dev, full, Sent(k)))
         IN  /\ \A f \in {"src", "nsamples", "dcm", "shift", "scale"} \ full : d[f] = dev[f]
             /\ "npts" \notin full /\ "nsamples" \notin full => d.npts = dev.npts
             /\ "tgo" \notin full /\ ("src" \notin full \/ k.src # "EXT" \/ ~dev.tgo) => d.tgo = dev.tgo
<1> DEFINE m == Merged(dev, full, Sent(k))
           d == Valid(m)
<1>1. /\ dev \in ParmSet /\ dev.nsamples \in 1 .. memSize /\ dev.npts < dev.nsamples
      /\ dev.src = "EXT" => dev.tgo = FALSE
      /\ AsSent(dev)
  BY DEF Consistent
<1>2. /\ m \in ParmSet /\ AsSent(m)
      /\ \A f \in Fields : f \notin full => m[f] = dev[f]
      /\ "src" \in full => m.src = k.src
  <2>1. Sent(k) \in ParmSet /\ AsSent(Sent(k)) /\ Sent(k).src = k.src
    BY SentIs
  <2> QED
    BY <1>1, <2>1, MergedIs DEF Fields
<1>3. /\ d.src = m.src /\ d.dcm = m.dcm /\ d.shift = m.shift /\ d.scale = m.scale
      /\ d.nsamples = IF m.nsamples > memSize THEN memSize ELSE m.nsamples
      /\ d.npts = IF m.npts >= d.nsamples THEN d.nsamples - 1 ELSE m.npts
      /\ m.src = "EXT" => d.tgo = FALSE
      /\ m.src # "EXT" => d.tgo = m.tgo
  BY <1>2, ValidIs
<1>4. m.nsamples \in Nat /\ m.npts \in Nat /\ dev.npts \in Nat /\ dev.nsamples \in Nat /\ memSize \in Nat
  BY <1>1, <1>2, ParmAssumption DEF ParmSet
<1> HIDE DEF m, d
<1>5. /\ "src" \notin full => d.src = dev.src
      /\ "shift" \notin full => d.shift = dev.shift
      /\ "scale" \notin full => d.scale = dev.scale
      /\ "dcm" \notin full => d.dcm = dev.dcm
  BY <1>1, <1>2, <1>3 DEF Fields
<1>6. "nsamples" \notin full => d.nsamples = dev.nsamples
  <2>1. "nsamples" \notin full => m.nsamples = dev.nsamples
    BY <1>2 DEF Fields
  <2> QED
    BY <1>1, <1>3, <1>4, <2>1
<1>7. "npts" \notin full /\ "nsamples" \notin full => d.npts = dev.npts
  <2>1. "npts" \notin full => m.npts = dev.npts
    BY <1>2 DEF Fields
  <2> QED
    BY <1>1, <1>3, <1>4, <1>6, <2>1
<1>8. ASSUME "tgo" \notin full, "src" \notin full \/ k.src # "EXT" \/ ~dev.tgo PROVE d.tgo = dev.tgo
  <2>1. m.tgo = dev.tgo /\ m.src = IF "src" \in full THEN k.src ELSE dev.src
    BY <1>2, <1>8 DEF Fields
  <2>2. CASE m.src # "EXT"
    BY <1>3, <2>1, <2>2
  <2>3. CASE m.src = "EXT"
    <3>1. dev.tgo = FALSE
      BY <1>1, <1>8, <2>1, <2>3 DEF ParmSet
    <3> QED
      BY <1>3, <2>3, <3>1
  <2> QED
    BY <2>2, <2>3
<1> QED
  BY <1>5, <1>6, <1>7, <1>8 DEF m, d

\* What is set arrives, when the library knows what it compares it with.
LEMMA DevTakes ==
  ASSUME Consistent(dev), c \in ParmSet, NEW mask, NEW set \in ParmSet
  PROVE  LET full == FullMask(mask, set)
             k == Checked(mask, set)
             d == Valid(Merged(dev, full, Sent(k)))
         IN  /\ "src" \in full => d.src = k.src
             /\ "nsamples" \in full => d.nsamples = k.nsamples
             /\ \A f \in {"dcm", "shift", "scale"} : f \in full => d[f] = OnWire(f, k[f])
             /\ "npts" \in full /\ ("nsamples" \in full \/ c.nsamples = dev.nsamples) => d.npts = k.npts
             /\ "tgo" \in full /\ ("src" \in full \/ c.src = dev.src) => d.tgo = k.tgo
<1> DEFINE full == FullMask(mask, set)
           k == Checked(mask, set)
           m == Merged(dev, full, Sent(k))
           d == Valid(m)
           n == Samples(mask, set)
<1>1. dev \in ParmSet /\ dev.nsamples \in 1 .. memSize
  BY DEF Consistent
<1>2. k \in ParmSet /\ m \in ParmSet /\ m.nsamples >= 1 /\ AsSent(m)
  BY DevAfterSet
<1>3. \A f \in Fields : m[f] = IF f \in full THEN OnWire(f, k[f]) ELSE dev[f]
  <2>1. Sent(k) \in ParmSet /\ \A f \in Fields : Sent(k)[f] = OnWire(f, k[f])
    BY <1>2, SentIs
  <2> QED
    BY <1>1, <2>1, MergedIs
<1>14. /\ "src" \in full => m.src = k.src
       /\ "tgo" \in full => m.tgo = k.tgo
       /\ "npts" \in full => m.npts = k.npts
       /\ "nsamples" \in full => m.nsamples = k.nsamples
       /\ "src" \notin full => m.src = dev.src
       /\ "nsamples" \notin full => m.nsamples = dev.nsamples
  BY <1>3, SameOnWire DEF Fields
<1>4. /\ d.src = m.src /\ d.dcm = m.dcm /\ d.shift = m.shift /\ d.scale = m.scale
      /\ d.nsamples = IF m.nsamples > memSize THEN memSize ELSE m.nsamples
      /\ d.npts = IF m.npts >= d.nsamples THEN d.nsamples - 1 ELSE m.npts
      /\ m.src = "EXT" => d.tgo = FALSE
      /\ m.src # "EXT" => d.tgo = m.tgo
  BY <1>2, ValidIs
<1>5. /\ k.src = IF "src" \in mask THEN set.src ELSE c.src
      /\ k.src = "EXT" => k.tgo = FALSE
      /\ k.nsamples = Samples(mask, set)
      /\ "nsamples" \in mask => k.nsamples \in 1 .. memSize
      /\ k.npts = IF set.npts >= k.nsamples THEN (Wrap + k.nsamples - 1) % Wrap ELSE set.npts
  BY CheckedIs
<1>6. \A f \in {"src", "npts", "nsamples", "dcm"} : f \in full <=> f \in mask
  BY FullMaskIs
<1>7. k.nsamples = IF "nsamples" \in mask THEN k.nsamples ELSE c.nsamples
  BY <1>5 DEF Samples
<1>8. set.npts \in Nat /\ memSize \in Nat /\ Wrap \in Nat /\ Wrap > memSize
      /\ m.nsamples \in Nat /\ m.npts \in Nat
  BY <1>2, ParmAssumption DEF ParmSet
<1> HIDE DEF full, k, m, d
<1>9. "src" \in full => d.src = k.src
  BY <1>4, <1>14
<1>10. "nsamples" \in full => d.nsamples = k.nsamples
  <2>1. "nsamples" \in full => m.nsamples = k.nsamples /\ k.nsamples \in 1 .. memSize
    BY <1>5, <1>6, <1>14
  <2> QED
    BY <1>4, <1>8, <2>1
<1>11. \A f \in {"dcm", "shift", "scale"} : f \in full => d[f] = OnWire(f, k[f])
  BY <1>3, <1>4 DEF Fields
<1>12. ASSUME "npts" \in full, "nsamples" \in full \/ c.nsamples = dev.nsamples PROVE d.npts = k.npts
  <2>1. m.npts = k.npts /\ m.nsamples = IF "nsamples" \in full THEN k.nsamples ELSE dev.nsamples
    BY <1>12, <1>14
  <2>2. m.nsamples = k.nsamples /\ k.nsamples \in 1 .. memSize
    BY <1>1, <1>5, <1>6, <1>7, <1>12, <2>1
  <2>3. d.nsamples = k.nsamples
    BY <1>4, <1>8, <2>2
  <2>4. (Wrap + k.nsamples - 1) % Wrap = k.nsamples - 1
    <3> DEFINE j == k.nsamples - 1
    <3>1. j \in 0 .. Wrap - 1 /\ Wrap + k.nsamples - 1 = Wrap + j
      BY <1>8, <2>2
    <3> HIDE DEF j
    <3>2. (Wrap + j) % Wrap = j
      BY <1>8, <3>1
    <3> QED
      BY <3>1, <3>2 DEF j
  <2>5. k.npts \in Nat /\ k.npts < k.nsamples
    BY <1>5, <1>8, <2>2, <2>4
  <2> QED
    BY <1>4, <2>1, <2>2, <2>3, <2>5
<1>13. ASSUME "tgo" \in full, "src" \in full \/ c.src = dev.src PROVE d.tgo = k.tgo
  <2>1. m.tgo = k.tgo /\ m.src = IF "src" \in full THEN k.src ELSE dev.src
    BY <1>13, <1>14
  <2>2. m.src = k.src
    BY <1>5, <1>6, <1>13, <2>1
  <2> QED
    BY <1>4, <1>5, <2>1, <2>2
<1> QED
  BY <1>9, <1>10, <1>11, <1>12, <1>13 DEF full, k, m, d
LEMMA SetConfined ==
  ASSUME TypeOK, Confined, Doubts, NEW mask, NEW set \in ParmSet, NEW res,
         acq_set_params(mask, set, res)
  PROVE  Confined'
<1> DEFINE full == FullMask(mask, set)
           k == Checked(mask, set)
           d == Valid(Merged(dev, full, Sent(k)))
<1>1. /\ c' = Merged(c, full, k)
      /\ dev' = IF res = "lost" THEN dev ELSE d
      /\ suspect' = IF res # "ok" THEN suspect \union Touched(full)
                    ELSE (suspect \ Healed(full)) \union ((Touched(full) \ full) \intersect {"npts"})
  BY DEF acq_set_params, Update
<1>2. Consistent(dev) /\ dev \in ParmSet /\ c \in ParmSet /\ k \in ParmSet
      /\ Merged(dev, full, Sent(k)).nsamples >= 1
  BY DevAfterSet DEF TypeOK, Consistent
<1>3. \A f \in Fields : c'[f] = IF f \in full THEN k[f] ELSE c[f]
  BY <1>1, <1>2, MergedIs
<1>4. \A f \in Fields \ suspect : dev[f] = OnWire(f, c[f])
  BY DEF Confined
<1>5. /\ \A f \in {"src", "nsamples", "dcm", "shift", "scale"} \ full : d[f] = dev[f]
      /\ "npts" \notin full /\ "nsamples" \notin full => d.npts = dev.npts
      /\ "tgo" \notin full /\ ("src" \notin full \/ k.src # "EXT" \/ ~dev.tgo) => d.tgo = dev.tgo
  BY <1>2, DevKeeps
<1>6. /\ "src" \in full => d.src = k.src
      /\ "nsamples" \in full => d.nsamples = k.nsamples
      /\ \A f \in {"dcm", "shift", "scale"} : f \in full => d[f] = OnWire(f, k[f])
      /\ "npts" \in full /\ ("nsamples" \in full \/ c.nsamples = dev.nsamples) => d.npts = k.npts
      /\ "tgo" \in full /\ ("src" \in full \/ c.src = dev.src) => d.tgo = k.tgo
  BY <1>2, DevTakes
<1>7. "tgo" \notin full => k.src # "EXT" \/ ~c.tgo
  BY FullMaskIs
<1>8. /\ "nsamples" \notin suspect => c.nsamples = dev.nsamples
      /\ "src" \notin suspect => c.src = dev.src
      /\ "tgo" \notin suspect => c.tgo = dev.tgo
  BY <1>4, SameOnWire DEF Fields
<1> HIDE DEF full, k, d
<1> SUFFICES ASSUME NEW f \in Fields, f \notin suspect'
             PROVE  dev'[f] = OnWire(f, c'[f])
  BY DEF Confined
<1>9. CASE res # "ok"
  <2>1. /\ f \notin suspect /\ f \notin full
        /\ f = "npts" => "nsamples" \notin full
        /\ f = "tgo" => "src" \notin full
    BY <1>1, <1>9 DEF Touched
  <2>2. d[f] = dev[f]
    BY <1>5, <2>1 DEF Fields
  <2>3. dev'[f] = dev[f] /\ c'[f] = c[f]
    BY <1>1, <1>3, <2>1, <2>2
  <2> QED
    BY <1>4, <2>1, <2>3
<1>10. CASE res = "ok" /\ f \in full
  <2>1. f \in Healed(full) \/ f \notin suspect
    BY <1>1, <1>10
  <2>2. f = "npts" => "nsamples" \in full \/ c.nsamples = dev.nsamples
    BY <1>8, <2>1 DEF Healed, Doubts
  <2>3. f = "tgo" => "src" \in full \/ c.src = dev.src
    BY <1>8, <2>1 DEF Healed, Doubts
  <2>4. d[f] = OnWire(f, k[f])
    <3>1. CASE f \in {"dcm", "shift", "scale"}
      BY <1>6, <1>10, <3>1
    <3>2. CASE f \notin {"dcm", "shift", "scale"}
      <4>1. d[f] = k[f]
        BY <1>6, <1>10, <2>2, <2>3, <3>2 DEF Fields
      <4> QED
        BY <3>2, <4>1, SameOnWire
    <3> QED
      BY <3>1, <3>2
  <2>5. dev'[f] = d[f] /\ c'[f] = k[f]
    BY <1>1, <1>3, <1>10
  <2> QED
    BY <2>4, <2>5
<1>11. CASE res = "ok" /\ f \notin full
  <2>1. f \notin suspect /\ (f = "npts" => "nsamples" \notin full)
    BY <1>1, <1>11 DEF Healed, Touched
  <2>2. f = "tgo" => d[f] = dev[f]
    BY <1>5, <1>7, <1>8, <1>11, <2>1
  <2>3. d[f] = dev[f]
    BY <1>5, <1>11, <2>1, <2>2 DEF Fields
  <2>4. dev'[f] = dev[f] /\ c'[f] = c[f]
    BY <1>1, <1>3, <1>11, <2>3
  <2> QED
    BY <1>4, <2>1, <2>4
<1> QED
  BY <1>9, <1>10, <1>11
-----------------------------------------------------------------------------
(* The Python class.                                                       *)

PySetting(f, v) == [[Zero EXCEPT !.dcm = <<1, 1>>] EXCEPT ![f] = v]

LEMMA ZeroIs ==
  /\ Zero \in ParmSet /\ DOMAIN Zero = Fields
  /\ [Zero EXCEPT !.dcm = <<1, 1>>] \in ParmSet
  /\ DOMAIN [Zero EXCEPT !.dcm = <<1, 1>>] = Fields
<1> DEFINE t == FALSE
           r == [src |-> "CHA", tgo |-> t, npts |-> 0, nsamples |-> 0, dcm |-> <<0, 0>>, shift |-> 0,
                 scale |-> 0]
<1>1. Zero = r
  BY Zenon DEF Zero
<1>2. t \in BOOLEAN
  OBVIOUS
<1> HIDE DEF t
<1>3. r \in ParmSet /\ DOMAIN r = Fields
  BY <1>2 DEF ParmSet, Fields
<1> HIDE DEF r
<1>4. [r EXCEPT !.dcm = <<1, 1>>] \in ParmSet /\ DOMAIN [r EXCEPT !.dcm = <<1, 1>>] = Fields
  BY <1>3 DEF ParmSet
<1> QED
  BY <1>1, <1>3, <1>4

LEMMA PyValuesIs ==
  /\ \A v \in PyValues("src") : v \in {"CHA", "EXT"}
  /\ \A v \in PyValues("npts") : v \in Nat
  /\ \A v \in PyValues("nsamples") : v \in Nat
  /\ \A v \in PyValues("dcm") : v \in Nat \X Nat
  /\ \A v \in PyValues("scale") : v \in Nat
<1>1. PyValues("src") = {"CHA", "EXT"}
  BY DEF PyValues
<1>2. PyValues("npts") = 0 .. memSize
  BY DEF PyValues
<1>3. PyValues("nsamples") = 0 .. memSize + 1
  BY DEF PyValues
<1>4. PyValues("dcm") = Decimations \union {<<1, 2>>}
  BY DEF PyValues
<1>5. PyValues("scale") = {1, 2}
  BY DEF PyValues
<1>6. Decimations \union {<<1, 2>>} \subseteq Nat \X Nat
  BY DEF Decimations
<1> QED
  BY <1>1, <1>2, <1>3, <1>4, <1>5, <1>6, ParmAssumption

LEMMA PySettingIs ==
  ASSUME NEW f \in PyFields, NEW v \in PyValues(f)
  PROVE  PySetting(f, v) \in ParmSet /\ PySetting(f, v)[f] = v
<1> DEFINE z == [Zero EXCEPT !.dcm = <<1, 1>>]
<1>1. z \in ParmSet /\ DOMAIN z = Fields
  BY ZeroIs
<1> HIDE DEF z
<1>2. [z EXCEPT ![f] = v][f] = v
  BY <1>1 DEF PyFields
<1>3. [z EXCEPT ![f] = v] \in ParmSet
  <2>1. CASE f = "src"
    BY <1>1, <2>1, PyValuesIs DEF ParmSet
  <2>2. CASE f = "npts"
    BY <1>1, <2>2, PyValuesIs DEF ParmSet
  <2>3. CASE f = "nsamples"
    BY <1>1, <2>3, PyValuesIs DEF ParmSet
  <2>4. CASE f = "dcm"
    BY <1>1, <2>4, PyValuesIs DEF ParmSet
  <2>5. CASE f = "scale"
    BY <1>1, <2>5, PyValuesIs DEF ParmSet
  <2> QED
    BY <2>1, <2>2, <2>3, <2>4, <2>5 DEF PyFields, Fields
<1> QED
  BY <1>2, <1>3 DEF z, PySetting

LEMMA CSetIs ==
  ASSUME NEW mask, NEW set \in CSetsOf(mask)
  PROVE  set \in ParmSet
<1>1. PICK s \in Values : set = Merged([Zero EXCEPT !.dcm = <<1, 1>>], mask \union Scaling(mask), s)
  BY DEF CSetsOf
<1>2. s \in ParmSet
  BY ParmAssumption DEF ParmSet
<1> QED
  BY <1>1, <1>2, ZeroIs, MergedIs

\* What a setter of the Python class does to its copy.
LEMMA PyUpdateIs ==
  ASSUME py \in ParmSet, NEW f \in PyFields, NEW v \in PyValues(f), PyAccepts(f, v),
         PyUpdate(f, v)
  PROVE  /\ py' \in ParmSet /\ py'[f] = v
         /\ \A g \in Fields \ {f, "npts"} : py'[g] = py[g]
         /\ f # "npts" => py'.npts = IF f = "nsamples" /\ py.npts >= v THEN v - 1 ELSE py.npts
<1> DEFINE q == [py EXCEPT ![f] = v]
           n == IF f = "nsamples" /\ q.npts >= v THEN v - 1 ELSE q.npts
<1>1. DOMAIN py = Fields
  BY DEF ParmSet, Fields
<1>3. q \in ParmSet
  <2>1. CASE f = "src"
    BY <2>1, PyValuesIs DEF ParmSet
  <2>2. CASE f = "npts"
    BY <2>2, PyValuesIs DEF ParmSet
  <2>3. CASE f = "nsamples"
    BY <2>3, PyValuesIs DEF ParmSet
  <2>4. CASE f = "dcm"
    BY <2>4, PyValuesIs DEF ParmSet
  <2>5. CASE f = "scale"
    BY <2>5, PyValuesIs DEF ParmSet
  <2> QED
    BY <2>1, <2>2, <2>3, <2>4, <2>5 DEF PyFields, Fields
<1>4. q[f] = v /\ DOMAIN q = Fields /\ \A g \in Fields \ {f} : q[g] = py[g]
  BY <1>1 DEF PyFields
<1>5. py' = [q EXCEPT !.npts = n]
  BY DEF PyUpdate
<1>6. n \in Nat
  <2>1. q.npts \in Nat
    BY <1>3 DEF ParmSet
  <2>2. f = "nsamples" => v - 1 \in Nat
    BY ParmAssumption DEF PyAccepts
  <2> QED
    BY <2>1, <2>2
<1>7. f # "npts" => n = IF f = "nsamples" /\ py.npts >= v THEN v - 1 ELSE py.npts
  BY <1>4 DEF Fields
<1>8. f = "npts" => n = v
  BY <1>4
<1> HIDE DEF q, n
<1>9. py' \in ParmSet
  BY <1>3, <1>5, <1>6 DEF ParmSet
<1>10. py'.npts = n /\ \A g \in Fields \ {"npts"} : py'[g] = q[g]
  BY <1>4, <1>5 DEF Fields
<1>11. py'[f] = v
  BY <1>4, <1>8, <1>10 DEF PyFields
<1> QED
  BY <1>4, <1>7, <1>9, <1>10, <1>11

\* The setter's field is the device's when it returns without an exception.
LEMMA PySetArrives ==
  ASSUME IInv, NEW f \in PyFields, NEW v \in PyValues(f), PySet(f, v, "ok")
  PROVE  /\ f # "npts" => dev'[f] = OnWire(f, v) /\ (f # "scale" => dev'[f] = v)
         /\ f = "npts" /\ "nsamples" \notin suspect => dev'[f] = v
<1> DEFINE mask == HelperMask(f, v)
           set == PySetting(f, v)
           full == FullMask(mask, set)
           k == Checked(mask, set)
           d == Valid(Merged(dev, full, Sent(k)))
<1>1. set \in ParmSet /\ set[f] = v
  BY PySettingIs
<1>2. Consistent(dev) /\ c \in ParmSet /\ dev' = d
  BY DEF IInv, TypeOK, PySet, acq_set_params, PySetting
<1>3. /\ "src" \in full => d.src = k.src
      /\ "nsamples" \in full => d.nsamples = k.nsamples
      /\ "dcm" \in full => d.dcm = OnWire("dcm", k.dcm)
      /\ "scale" \in full => d.scale = OnWire("scale", k.scale)
      /\ "npts" \in full /\ ("nsamples" \in full \/ c.nsamples = dev.nsamples) => d.npts = k.npts
  BY <1>1, <1>2, DevTakes
<1>4. /\ k.src = IF "src" \in mask THEN set.src ELSE c.src
      /\ k.dcm = IF set.dcm[1] <= 1 THEN <<set.dcm[1], 1>> ELSE set.dcm
      /\ k.nsamples = Samples(mask, set)
      /\ k.npts = IF set.npts >= k.nsamples THEN (Wrap + k.nsamples - 1) % Wrap ELSE set.npts
      /\ "dcm" \notin mask \/ "scale" \in mask => k.scale = set.scale
  BY <1>1, <1>2, CheckedIs
<1>5. f \in mask /\ f \in full
  BY DEF HelperMask, FullMask
<1>6. PyAccepts(f, v)
  BY DEF PySet
<1> HIDE DEF set, full, k, d
<1>7. CASE f = "src"
  <2>1. dev'[f] = v
    BY <1>1, <1>2, <1>3, <1>4, <1>5, <1>7
  <2> QED
    BY <1>7, <2>1, SameOnWire DEF Fields
<1>8. CASE f = "nsamples"
  <2>1. v \in 1 .. memSize
    BY <1>6, <1>8 DEF PyAccepts
  <2>2. Samples(mask, set) = v
    BY <1>1, <1>5, <1>8, <2>1, ParmAssumption DEF Samples
  <2>3. dev'[f] = v
    BY <1>2, <1>3, <1>4, <1>5, <1>8, <2>2
  <2> QED
    BY <1>8, <2>3, SameOnWire DEF Fields
<1>9. CASE f = "dcm"
  <2>1. v = <<1, 1>> \/ v = <<2, 2>>
    BY <1>6, <1>9 DEF PyAccepts, Decimations
  <2>2. set.dcm = v
    BY <1>1, <1>9
  <2>3. k.dcm = v
    <3>1. CASE v = <<1, 1>>
      BY <1>4, <2>2, <3>1
    <3>2. CASE v = <<2, 2>>
      BY <1>4, <2>2, <3>2
    <3> QED
      BY <2>1, <3>1, <3>2
  <2>4. OnWire("dcm", v) = v
    <3>1. OnWire("dcm", v) = IF Limited(v[1], MaxCic0) = 1 THEN <<1, 1>>
                             ELSE <<Limited(v[1], MaxCic0), Limited(v[2], MaxCic1)>>
      BY DEF OnWire
    <3>2. /\ Limited(1, MaxCic0) = 1 /\ Limited(2, MaxCic0) = 2
          /\ Limited(1, MaxCic1) = 1 /\ Limited(2, MaxCic1) = 2
      BY ParmAssumption DEF Limited
    <3> QED
      BY <2>1, <3>1, <3>2
  <2> QED
    BY <1>2, <1>3, <1>5, <1>9, <2>3, <2>4
<1>10. CASE f = "scale"
  BY <1>1, <1>2, <1>3, <1>4, <1>5, <1>10
<1>11. CASE f = "npts"
  <2> SUFFICES ASSUME "nsamples" \notin suspect PROVE dev'[f] = v
    BY <1>11
  <2>1. c.nsamples = dev.nsamples
    BY SameOnWire DEF IInv, Confined, Fields
  <2>2. py.nsamples = dev.nsamples
    BY DEF IInv, PyKnows, PySet
  <2>3. k.nsamples = c.nsamples
    BY <1>4, <1>11 DEF Samples, HelperMask
  <2>4. v \in Nat /\ v < py.nsamples /\ set.npts = v /\ dev.nsamples \in Nat
    BY <1>1, <1>2, <1>6, <1>11, PyValuesIs, ParmAssumption DEF PyAccepts, Consistent
  <2>5. k.npts = v
    BY <1>4, <2>1, <2>2, <2>3, <2>4
  <2> QED
    BY <1>2, <1>3, <1>5, <1>11, <2>1, <2>5
<1> QED
  BY <1>7, <1>8, <1>9, <1>10, <1>11 DEF PyFields, Fields

\* What the setter is not about stays as it is in the device.
LEMMA PySetKeeps ==
  ASSUME IInv, NEW f \in PyFields, NEW v \in PyValues(f), NEW res, PySet(f, v, res)
  PROVE  /\ \A g \in {"src", "nsamples", "dcm"} \ {f} : dev'[g] = dev[g]
         /\ f \notin {"npts", "nsamples"} => dev'.npts = dev.npts
         /\ f = "nsamples" /\ res = "ok" =>
              dev'.npts = IF dev.npts >= v THEN v - 1 ELSE dev.npts
<1> DEFINE mask == HelperMask(f, v)
           set == PySetting(f, v)
           full == FullMask(mask, set)
           k == Checked(mask, set)
           m == Merged(dev, full, Sent(k))
           d == Valid(m)
<1>1. set \in ParmSet /\ set[f] = v
  BY PySettingIs
<1>2. Consistent(dev) /\ c \in ParmSet /\ dev \in ParmSet /\ dev' = IF res = "lost" THEN dev ELSE d
  BY DEF IInv, TypeOK, PySet, acq_set_params, PySetting, Consistent
<1>3. k \in ParmSet /\ m \in ParmSet /\ m.nsamples >= 1 /\ AsSent(m)
  BY <1>1, <1>2, DevAfterSet
<1>4. /\ \A g \in {"src", "nsamples", "dcm", "shift", "scale"} \ full : d[g] = dev[g]
      /\ "npts" \notin full /\ "nsamples" \notin full => d.npts = dev.npts
  BY <1>2, <1>3, DevKeeps
<1>5. \A g \in {"src", "npts", "nsamples", "dcm"} : g \in full <=> g \in mask
  BY FullMaskIs
<1>6. \A g \in {"src", "npts", "nsamples", "dcm"} : g \in mask <=> g = f
  BY DEF HelperMask
<1>7. d.npts = IF m.npts >= d.nsamples THEN d.nsamples - 1 ELSE m.npts
  BY <1>3, ValidIs
<1>8. "npts" \notin full => m.npts = dev.npts
  BY <1>2, <1>3, SentIs, MergedIs DEF Fields
<1> HIDE DEF mask, set, full, k, m, d
<1>9. \A g \in {"src", "nsamples", "dcm"} \ {f} : dev'[g] = dev[g]
  BY <1>2, <1>4, <1>5, <1>6
<1>10. f \notin {"npts", "nsamples"} => dev'.npts = dev.npts
  BY <1>2, <1>4, <1>5, <1>6
<1>11. ASSUME f = "nsamples", res = "ok"
       PROVE  dev'.npts = IF dev.npts >= v THEN v - 1 ELSE dev.npts
  <2>1. dev'.nsamples = v
    BY <1>11, PySetArrives
  <2>2. dev' = d
    BY <1>2, <1>11
  <2>3. m.npts = dev.npts
    BY <1>5, <1>6, <1>8, <1>11
  <2> QED
    BY <1>7, <2>1, <2>2, <2>3
<1> QED
  BY <1>9, <1>10, <1>11
-----------------------------------------------------------------------------
(* Every step.                                                             *)

LEMMA InitIInv == Init => IInv
<1> SUFFICES ASSUME Init PROVE IInv
  OBVIOUS
<1>1. dev \in DevParms /\ dev.dcm = <<1, 1>> /\ dev.scale = 2
  BY DEF Init
<1>2. dev \in ParmSet /\ dev.nsamples \in 1 .. memSize
  BY <1>1, ParmAssumption DEF DevParms, Decimations, ParmSet
<1>3. dev.npts < dev.nsamples
  BY <1>1 DEF DevParms
<1>4. dev.src = "EXT" => dev.tgo = FALSE
  BY <1>1, <1>2 DEF DevParms, ParmSet
<1>5. AsSent(dev)
  <2>1. dev.dcm = <<1, 1>> /\ dev.shift = 0 /\ dev.scale = 2
    BY <1>1, <1>2 DEF DevParms, ParmSet
  <2>2. OnWire("dcm", <<1, 1>>) = <<1, 1>>
    <3>1. Limited(1, MaxCic0) = 1
      BY ParmAssumption DEF Limited
    <3> QED
      BY <3>1 DEF OnWire
  <2>3. OnWire("shift", 0) = 0
    BY ParmAssumption DEF OnWire
  <2>4. OnWire("scale", 2) = 2
    BY DEF OnWire, Trunc
  <2> QED
    BY <2>1, <2>2, <2>3, <2>4 DEF AsSent
<1>6. Consistent(dev)
  BY <1>1, <1>2, <1>3, <1>4, <1>5 DEF Consistent
<1>7. /\ client \in {"C", "Python"} /\ c = dev /\ failed = 0 /\ suspect = {}
      /\ py = PyCopy(client, dev) /\ last.raised = FALSE
  BY ParmAssumption DEF Init
<1>8. py \in ParmSet /\ (client = "Python" => py = dev)
  BY <1>2, <1>7, ZeroIs DEF PyCopy
<1>9. TypeOK
  BY <1>2, <1>6, <1>7, <1>8 DEF TypeOK
<1>10. Confined
  BY <1>5, <1>7, SameOnWire DEF Confined, AsSent
<1>11. Doubts
  BY <1>7 DEF Doubts
<1>12. PyKnows
  BY <1>7, <1>8 DEF PyKnows
<1>13. PyRaised
  BY <1>7 DEF PyRaised
<1> QED
  BY <1>9, <1>10, <1>11, <1>12, <1>13 DEF IInv

LEMMA CSetStep ==
  ASSUME IInv, NEW mask, NEW set \in CSetsOf(mask), NEW res, CSet(mask, set, res)
  PROVE  IInv'
<1>1. set \in ParmSet /\ acq_set_params(mask, set, res)
  BY CSetIs DEF CSet
<1>2. TypeOK /\ Confined /\ Doubts
  BY DEF IInv
<1>3. client = "C" /\ client' = "C" /\ py' = py /\ last' = last
  BY DEF CSet
<1>4. Consistent(dev)' /\ c' \in ParmSet /\ failed' \in Nat
  BY <1>1, <1>2, SetTypes
<1>5. TypeOK'
  BY <1>2, <1>3, <1>4 DEF TypeOK
<1>6. Confined' /\ Doubts'
  BY <1>1, <1>2, SetConfined, SetDoubts
<1>7. PyKnows'
  BY <1>3 DEF PyKnows
<1>8. PyRaised'
  BY <1>3 DEF IInv, PyRaised
<1> QED
  BY <1>5, <1>6, <1>7, <1>8 DEF IInv

LEMMA PySetStep ==
  ASSUME IInv, NEW f \in PyFields, NEW v \in PyValues(f), NEW res, PySet(f, v, res)
  PROVE  IInv'
<1> DEFINE full == FullMask(HelperMask(f, v), PySetting(f, v))
<1>1. PySetting(f, v) \in ParmSet
  BY PySettingIs
<1>2. acq_set_params(HelperMask(f, v), PySetting(f, v), res)
  BY DEF PySet, PySetting
<1>3. TypeOK /\ Confined /\ Doubts
  BY DEF IInv
<1>4. client = "Python" /\ client' = "Python" /\ PyAccepts(f, v) /\ py[f] # v
  BY DEF PySet
<1>5. py \in ParmSet /\ failed \in Nat
  BY <1>3 DEF TypeOK
<1>6. Consistent(dev)' /\ c' \in ParmSet /\ failed' \in Nat
  BY <1>1, <1>2, <1>3, SetTypes
<1>7. res = "ok" => /\ py' \in ParmSet /\ py'[f] = v
                    /\ \A g \in Fields \ {f, "npts"} : py'[g] = py[g]
                    /\ f # "npts" => py'.npts = IF f = "nsamples" /\ py.npts >= v THEN v - 1 ELSE py.npts
  BY <1>4, <1>5, PyUpdateIs DEF PySet
<1>8. res # "ok" => py' = py
  BY DEF PySet
<1>9. TypeOK'
  BY <1>4, <1>5, <1>6, <1>7, <1>8 DEF TypeOK
<1>10. Confined' /\ Doubts'
  BY <1>1, <1>2, <1>3, SetConfined, SetDoubts
<1>11. last'.raised = (res # "ok") /\ last'.f = f /\ last'.v = v
  BY DEF PySet
<1>12. PyRaised'
  BY <1>4, <1>8, <1>11 DEF PyRaised, PyFields
<1>13. /\ suspect' = IF res # "ok" THEN suspect \union Touched(full)
                     ELSE (suspect \ Healed(full)) \union ((Touched(full) \ full) \intersect {"npts"})
       /\ failed' = IF res = "ok" THEN failed ELSE failed + 1
  BY <1>2 DEF acq_set_params
<1>14. f \in full /\ \A g \in {"src", "npts", "nsamples", "dcm"} \ {f} : g \notin full
  <2>1. f \in HelperMask(f, v) /\ \A g \in {"src", "npts", "nsamples", "dcm"} \ {f} : g \notin HelperMask(f, v)
    BY DEF HelperMask
  <2>2. f \in full
    BY <2>1 DEF FullMask
  <2>3. \A g \in {"src", "npts", "nsamples", "dcm"} : g \in full <=> g \in HelperMask(f, v)
    BY FullMaskIs
  <2> QED
    BY <2>1, <2>2, <2>3
<1> HIDE DEF full
<1>15. /\ \A g \in {"src", "nsamples", "dcm"} \ suspect : py[g] = dev[g]
       /\ failed = 0 => py.npts = dev.npts
  BY <1>4 DEF IInv, PyKnows
<1>16. \A g \in {"src", "nsamples", "dcm"} \ suspect' : py'[g] = dev'[g]
  <2> SUFFICES ASSUME NEW g \in {"src", "nsamples", "dcm"}, g \notin suspect' PROVE py'[g] = dev'[g]
    OBVIOUS
  <2>1. CASE res # "ok"
    <3>1. g \notin suspect /\ g # f
      BY <1>13, <1>14, <2>1 DEF Touched
    <3>2. dev'[g] = dev[g]
      BY <3>1, PySetKeeps
    <3> QED
      BY <1>8, <1>15, <2>1, <3>1, <3>2
  <2>2. CASE res = "ok" /\ g = f
    BY <1>7, <2>2, PySetArrives
  <2>3. CASE res = "ok" /\ g # f
    <3>1. g \notin suspect
      BY <1>13, <1>14, <2>3 DEF Healed
    <3>2. dev'[g] = dev[g]
      BY <2>3, PySetKeeps
    <3>3. py'[g] = py[g]
      BY <1>7, <2>3 DEF Fields
    <3> QED
      BY <1>15, <3>1, <3>2, <3>3
  <2> QED
    BY <2>1, <2>2, <2>3
<1>17. failed' = 0 => py'.npts = dev'.npts
  <2> SUFFICES ASSUME failed' = 0 PROVE py'.npts = dev'.npts
    OBVIOUS
  <2>1. res = "ok" /\ failed = 0
    BY <1>5, <1>13
  <2>2. "nsamples" \notin suspect /\ py.npts = dev.npts
    BY <1>3, <1>15, <2>1 DEF Doubts
  <2>3. CASE f = "npts"
    BY <1>7, <2>1, <2>2, <2>3, PySetArrives
  <2>4. CASE f = "nsamples"
    BY <1>7, <2>1, <2>2, <2>4, PySetKeeps
  <2>5. CASE f \notin {"npts", "nsamples"}
    BY <1>7, <2>1, <2>2, <2>5, PySetKeeps
  <2> QED
    BY <2>3, <2>4, <2>5
<1>18. PyKnows'
  BY <1>16, <1>17 DEF PyKnows
<1> QED
  BY <1>9, <1>10, <1>12, <1>18 DEF IInv

LEMMA PySameStep ==
  ASSUME IInv, NEW f, NEW v, PySame(f, v)
  PROVE  IInv'
<1>1. last'.raised = FALSE /\ UNCHANGED <<client, dev, c, py, suspect, failed>>
  BY DEF PySame
<1>2. TypeOK'
  BY <1>1 DEF IInv, TypeOK, Consistent
<1>3. Confined' /\ Doubts' /\ PyKnows'
  BY <1>1 DEF IInv, Confined, Doubts, PyKnows
<1>4. PyRaised'
  BY <1>1 DEF PyRaised
<1> QED
  BY <1>2, <1>3, <1>4 DEF IInv

LEMMA OpenStep ==
  ASSUME IInv, NEW res, Open(res)
  PROVE  IInv'
<1>1. /\ client' \in {"C", "Python"} /\ dev' = dev
      /\ c' = IF res = "ok" THEN dev ELSE Zero
      /\ py' = PyCopy(client', c')
      /\ suspect' = IF res = "ok" THEN {} ELSE Fields
      /\ failed' = IF res = "ok" THEN 0 ELSE failed + 1
      /\ last'.raised = FALSE
  BY ParmAssumption DEF Open
<1>2. Consistent(dev) /\ dev \in ParmSet /\ AsSent(dev) /\ failed \in Nat
  BY DEF IInv, TypeOK, Consistent
<1>3. c' \in ParmSet /\ py' \in ParmSet
  BY <1>1, <1>2, ZeroIs DEF PyCopy
<1>4. TypeOK'
  BY <1>1, <1>2, <1>3 DEF TypeOK, Consistent
<1>5. Confined'
  BY <1>1, <1>2, SameOnWire DEF Confined, AsSent
<1>6. Doubts'
  BY <1>1, <1>2 DEF Doubts, Fields
<1>7. PyKnows'
  BY <1>1, <1>2 DEF PyKnows, PyCopy, Fields
<1>8. PyRaised'
  BY <1>1 DEF PyRaised
<1> QED
  BY <1>4, <1>5, <1>6, <1>7, <1>8 DEF IInv

LEMMA NextIInv == IInv /\ [Next]_vars => IInv'
<1> SUFFICES ASSUME IInv, [Next]_vars PROVE IInv'
  OBVIOUS
<1>1. CASE UNCHANGED vars
  BY <1>1 DEF vars, IInv, TypeOK, Consistent, Confined, Doubts, PyKnows, PyRaised
<1>2. CASE \E mask \in Masks, res \in Results : \E set \in CSetsOf(mask) : CSet(mask, set, res)
  BY <1>2, CSetStep
<1>3. CASE \E f \in PyFields, res \in Results : \E v \in PyValues(f) : PySet(f, v, res)
  BY <1>3, PySetStep
<1>4. CASE \E f \in PyFields : \E v \in PyValues(f) : PySame(f, v)
  BY <1>4, PySameStep
<1>5. CASE \E res \in Results : Open(res)
  BY <1>5, OpenStep
<1> QED
  BY <1>1, <1>2, <1>3, <1>4, <1>5 DEF Next

\* The parameters in the device are consistent at any time, whatever is set
\* and whatever fails: npts below nsamples, no output along with an external
\* source (acq_set_params and CommandAcqParm).
THEOREM Invariance == Spec => []IInv
<1>1. Init => IInv
  BY InitIInv
<1>2. IInv /\ [Next]_vars => IInv'
  BY NextIInv
<1> QED
  BY <1>1, <1>2, PTL DEF Spec

\* The two caches and the device always hold parameters, those of the device
\* valid ones (validateParms of AcqCtlPkg).
THEOREM TypeCorrect == Spec => []TypeOK
<1>1. IInv => TypeOK
  BY DEF IInv
<1> QED
  BY <1>1, Invariance, PTL

\* A failed transfer leaves in doubt only what it was about (acq_set_params
\* changes its cache before the transfer).
THEOREM DoubtConfined == Spec => []Confined
<1>1. IInv => Confined
  BY DEF IInv
<1> QED
  BY <1>1, Invariance, PTL

\* Without failures the Python class shows what the device works with, although
\* it validates by itself (FwComm's setters).
THEOREM PythonKnows == Spec => []PyInSync
<1>1. IInv => PyInSync
  BY DEF IInv, PyInSync, PyKnows, Doubts, Fields
<1> QED
  BY <1>1, Invariance, PTL

\* The setter that raised an exception has its effect when it is called again,
\* without anything being read back: it is not taken for one that changes
\* nothing (FwComm's setters change their copy after acq_set_params only).
THEOREM SetAgain == Spec => RetryWorks
<1> DEFINE Again ==
      LET f == last'.f
      IN  last.raised /\ ~last'.raised /\ last.f = f /\ last.v = last'.v =>
            \/ dev'[f] = OnWire(f, last.v)
            \/ f = "npts" /\ "nsamples" \in suspect
<1>1. IInv /\ [Next]_vars => [Again]_vars
  <2> SUFFICES ASSUME IInv, Next, last.raised, ~last'.raised, last.f = last'.f, last.v = last'.v
               PROVE  \/ dev'[last'.f] = OnWire(last'.f, last.v)
                      \/ last'.f = "npts" /\ "nsamples" \in suspect
    OBVIOUS
  <2>1. client = "Python" /\ last.f \in Fields /\ py[last.f] # last.v
    BY DEF IInv, PyRaised
  <2>2. ASSUME NEW mask, NEW set, NEW res, CSet(mask, set, res) PROVE FALSE
    BY <2>1, <2>2 DEF CSet
  <2>3. ASSUME NEW f, NEW v, PySame(f, v) PROVE FALSE
    <3>1. last'.f = f /\ last'.v = v /\ py[f] = v
      BY <2>3 DEF PySame
    <3> QED
      BY <2>1, <3>1
  <2>4. ASSUME NEW res, Open(res) PROVE FALSE
    <3>1. last'.f = "none"
      BY <2>4 DEF Open
    <3> QED
      BY <2>1, <3>1 DEF Fields
  <2>5. PICK f \in PyFields, res \in Results : \E v \in PyValues(f) : PySet(f, v, res)
    BY <2>2, <2>3, <2>4 DEF Next
  <2>6. PICK v \in PyValues(f) : PySet(f, v, res)
    BY <2>5
  <2>7. last'.f = f /\ last'.v = v /\ last'.raised = (res # "ok")
    BY <2>6 DEF PySet
  <2>8. PySet(f, v, "ok")
    BY <2>6, <2>7
  <2> QED
    BY <2>7, <2>8, PySetArrives, SameOnWire DEF PyFields
<1> QED
  BY <1>1, Invariance, PTL DEF Spec, RetryWorks
-----------------------------------------------------------------------------
(* A small instance, for TLC.                                              *)

\* The helpers of scopeSup.c change one field, or the source with its trigger
\* output; settings change several.
MCMasks ==
  {{f} : f \in Fields \ {"shift"}} \union {{"src", "tgo"}, {"nsamples", "npts"}, {"dcm", "scale"}}

\* Within and beyond every limit.
MCValues ==
  [src : {"CHA", "EXT"}, tgo : BOOLEAN, npts : 0 .. memSize, nsamples : 0 .. memSize + 1,
   dcm : {<<0, 2>>, <<1, 2>>, <<2, 0>>, <<2, 2>>, <<3, 3>>}, shift : {0, MaxShift + 1}, scale : {1}]
=============================================================================
