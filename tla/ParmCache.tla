------------------------------- MODULE ParmCache -------------------------------
(***************************************************************************)
(* The acquisition parameters in three places: in the device (dev), in the *)
(* cache of the scope library (c, acqParams of sw/scopeSup.c) and, when    *)
(* the client is Python, in that of its class (py, _parmCache of           *)
(* sw/pyfwcomm.pyx).  Each validates by itself what it is given, and each  *)
(* trusts its own copy of what it is not given.                            *)
(*                                                                         *)
(* A setter is one transfer under a mutex: it succeeds, the request is     *)
(* lost, or the reply is, when the device has already changed.             *)
(*                                                                         *)
(* Level, hysteresis, edge and auto-timeout are only copied and left out.  *)
(* Numbers of samples are counted from 1 in the host.  One of the shifts   *)
(* stands for both; they and the scale have one bit in the mask.           *)
(***************************************************************************)
EXTENDS Naturals, FiniteSets

CONSTANTS
  Clients,    (* "C", "Python": what the programs are written in           *)
  memSize,    (* samples that fit                                          *)
  Wrap,       (* 2^32: where unsigned arithmetic wraps                     *)
  MaxCic0, MaxCic1, (* 16, 2^16: the largest decimations there are         *)
  MaxShift,   (* 63: the largest shift there is                            *)
  InfScale,   (* what the build makes of an infinite scale as an integer   *)
  Masks,      (* bound: the sets of fields a C client changes at once      *)
  Values,     (* bound: the values a C client asks for                     *)
  Faults,     (* what may happen to a transfer                             *)
  MaxFaults   (* bound: transfers that fail                                *)

ASSUME ParmAssumption ==
  /\ Clients \subseteq {"C", "Python"}
  /\ memSize \in Nat \ {0} /\ Wrap \in Nat /\ Wrap > memSize + 1
  /\ MaxCic0 \in Nat /\ MaxCic0 > 1 /\ MaxCic1 \in Nat /\ MaxCic1 > 1
  /\ MaxShift \in Nat /\ InfScale \in Nat
  /\ Values \subseteq [src : {"CHA", "EXT"}, tgo : BOOLEAN, npts : Nat, nsamples : Nat,
                        dcm : Nat \X Nat, shift : Nat, scale : Nat]
  /\ Faults \subseteq {"lost", "noreply"} /\ MaxFaults \in Nat

VARIABLES
  client,       \* the program at work
  dev, c, py,   \* the parameters
  suspect,      \* history: fields of c that need not be those of dev
  failed,       \* history: transfers that failed
  last          \* history: the Python setter called last

vars == <<client, dev, c, py, suspect, failed, last>>

Fields == {"src", "tgo", "npts", "nsamples", "dcm", "shift", "scale"}

\* cic0 and cic1 decimation that Python asks for (bound: two of them).
Decimations == {<<1, 1>>, <<2, 2>>}

\* The device has the upper bits of a scale: half the values here.
Trunc(scale) == scale - (scale % 2)
\* 1 / 0 is infinite, and its conversion to an integer undefined.
acq_default_cic1Scale(cic1) == CASE cic1 = 0 -> InfScale [] cic1 = 1 -> 2 [] OTHER -> 3

\* What is put into the request: decimations within their limits, cic1 only
\* along with cic0; a shift within its limit; the upper bits of the scale.
Limited(n, max) == IF n > max THEN max ELSE IF n = 0 THEN 1 ELSE n
OnWire(f, v) ==
  CASE f = "dcm"   -> LET cic0 == Limited(v[1], MaxCic0)
                      IN  IF cic0 = 1 THEN <<1, 1>> ELSE <<cic0, Limited(v[2], MaxCic1)>>
    [] f = "shift" -> IF v > MaxShift THEN MaxShift ELSE v
    [] f = "scale" -> Trunc(v)
    [] OTHER       -> v

DevParms ==
  {p \in [src : {"CHA", "EXT"}, tgo : BOOLEAN, npts : 0 .. memSize - 1,
          nsamples : 1 .. memSize, dcm : Decimations, shift : {0}, scale : {0, 2}] :
     p.npts < p.nsamples /\ (p.src = "EXT" => ~p.tgo)}

\* calloc
Zero == [src |-> "CHA", tgo |-> FALSE, npts |-> 0, nsamples |-> 0, dcm |-> <<0, 0>>,
         shift |-> 0, scale |-> 0]

\* What the Python class copies, when there is one.
PyCopy(who, parms) == IF who = "Python" THEN parms ELSE Zero

\* The device is as some program left it.
Init ==
  /\ client \in Clients
  /\ dev \in {p \in DevParms : p.dcm = <<1, 1>> /\ p.scale = 2}
  /\ c = dev /\ py = PyCopy(client, dev)
  /\ suspect = {} /\ failed = 0
  /\ last = [f |-> "none", v |-> 0, raised |-> FALSE]
-----------------------------------------------------------------------------
(* acq_set_params.                                                         *)

\* All fields after validation; those outside the mask are not used.  The
\* limits of the request do not concern the cache: it keeps a decimation or a
\* shift that the device does not have.
Checked(mask, set) ==
  LET src  == IF "src" \in mask THEN set.src ELSE c.src
      tgo  == IF "tgo" \in mask THEN set.tgo ELSE c.tgo
      dcm  == IF set.dcm[1] <= 1 THEN <<set.dcm[1], 1>> ELSE set.dcm
      nsm  == IF "nsamples" \notin mask THEN c.nsamples
              ELSE IF set.nsamples > memSize THEN memSize
              ELSE IF set.nsamples < 1 THEN 1 ELSE set.nsamples
  IN  [src |-> src, tgo |-> tgo /\ src # "EXT", dcm |-> dcm,
       nsamples |-> nsm,
       npts  |-> IF set.npts >= nsm THEN (Wrap + nsm - 1) % Wrap ELSE set.npts,
       shift |-> IF "dcm" \in mask /\ "scale" \notin mask THEN 0 ELSE set.shift,
       scale |-> IF "dcm" \in mask /\ "scale" \notin mask
                 THEN acq_default_cic1Scale(dcm[2]) ELSE set.scale]

\* The bit of the scale is that of the shift.
Scaling(mask) == IF "scale" \in mask THEN {"shift"} ELSE {}

FullMaskKeepsTgo(mask, set) ==                  \* mutant: EXT leaves the output on
  mask \union Scaling(mask) \union (IF "dcm" \in mask THEN {"shift", "scale"} ELSE {})
\* What goes with it: the decimation changes the scale, an external source
\* switches the trigger output off.
FullMask(mask, set) ==
  mask \union (IF Checked(mask, set).src = "EXT" /\
                  (IF "tgo" \in mask THEN set.tgo ELSE c.tgo) THEN {"tgo"} ELSE {})
       \union Scaling(mask) \union (IF "dcm" \in mask THEN {"shift", "scale"} ELSE {})

Merged(old, mask, new) == [f \in Fields |-> IF f \in mask THEN new[f] ELSE old[f]]

Sent(new) == [f \in Fields |-> OnWire(f, new[f])]

\* What the device makes of it.
Valid(p) ==
  LET nsm == IF p.nsamples > memSize THEN memSize ELSE p.nsamples
  IN  [p EXCEPT !.dcm = IF @[1] = 1 THEN <<1, 1>> ELSE @,
                !.nsamples = nsm,
                !.npts = IF @ >= nsm THEN nsm - 1 ELSE @,
                !.tgo = @ /\ p.src # "EXT"]

\* The cache is changed before the transfer, whatever becomes of that.
Update(mask, set) == c' = Merged(c, FullMask(mask, set), Checked(mask, set))

\* Fields that follow from others, and those that are known again after a
\* success.  The device also clips npts when nsamples shrinks.
Touched(mask) ==
  mask \union (IF "nsamples" \in mask THEN {"npts"} ELSE {})
       \union (IF "src" \in mask THEN {"tgo"} ELSE {})
Healed(mask) ==
  {f \in mask : /\ f = "npts" => "nsamples" \in mask \/ "nsamples" \notin suspect
                /\ f = "tgo" => "src" \in mask \/ "src" \notin suspect}

acq_set_params(mask, set, res) ==
  LET full == FullMask(mask, set)
  IN  /\ res # "ok" => failed < MaxFaults
      /\ Update(mask, set)
      /\ dev' = IF res = "lost" THEN dev ELSE Valid(Merged(dev, full, Sent(Checked(mask, set))))
      /\ failed' = IF res = "ok" THEN failed ELSE failed + 1
      /\ suspect' = IF res # "ok" THEN suspect \union Touched(full)
                    ELSE (suspect \ Healed(full))
                         \union ((Touched(full) \ full) \intersect {"npts"})

Results == Faults \union {"ok"}

\* A C client: any fields at once, any values; nothing but this limits them.
CSet(mask, set, res) ==
  /\ client = "C"
  /\ acq_set_params(mask, set, res)
  /\ UNCHANGED <<client, py, last>>
-----------------------------------------------------------------------------
(* The setters of the Python class: each tests its argument against its    *)
(* own copy, returns at once if nothing would change, and has its copy     *)
(* follow when the library did not report an error.                        *)

PyAccepts(f, v) ==
  /\ f = "npts" => v < py.nsamples
  /\ f = "nsamples" => v \in 1 .. memSize
  /\ f = "dcm" => v \in Decimations

\* The mask the helpers of scopeSup.c use.
HelperMask(f, v) == {f} \union (IF f = "src" /\ v = "EXT" THEN {"tgo"} ELSE {})

PyUpdateKeepsNpts(f, v) ==                      \* mutant: "fw clips pts" is forgotten
  py' = [py EXCEPT ![f] = v]
\* "fw clips pts; update cache"
PyUpdate(f, v) ==
  py' = [[py EXCEPT ![f] = v] EXCEPT
           !.npts = IF f = "nsamples" /\ @ >= v THEN v - 1 ELSE @]

PySetEarly(f, v, res) ==                        \* mutant: before the result is looked at
  /\ client = "Python" /\ PyAccepts(f, v) /\ py[f] # v
  /\ acq_set_params(HelperMask(f, v), [[Zero EXCEPT !.dcm = <<1, 1>>] EXCEPT ![f] = v], res)
  /\ PyUpdate(f, v)
  /\ last' = [f |-> f, v |-> v, raised |-> res # "ok"]
  /\ UNCHANGED client
PySet(f, v, res) ==
  /\ client = "Python" /\ PyAccepts(f, v) /\ py[f] # v
  /\ acq_set_params(HelperMask(f, v), [[Zero EXCEPT !.dcm = <<1, 1>>] EXCEPT ![f] = v], res)
  /\ IF res = "ok" THEN PyUpdate(f, v) ELSE UNCHANGED py
  /\ last' = [f |-> f, v |-> v, raised |-> res # "ok"]
  /\ UNCHANGED client

PySame(f, v) ==
  /\ client = "Python" /\ PyAccepts(f, v) /\ py[f] = v
  /\ last' = [f |-> f, v |-> v, raised |-> FALSE]
  /\ UNCHANGED <<client, dev, c, py, suspect, failed>>
-----------------------------------------------------------------------------
\* A new program: scope_open reads the parameters, and goes on with zeroes if
\* that fails; the Python class copies what the library has.
Open(res) ==
  /\ client' \in Clients
  /\ res # "ok" => failed < MaxFaults
  /\ c' = IF res = "ok" THEN dev ELSE Zero
  /\ py' = PyCopy(client', c')
  /\ suspect' = IF res = "ok" THEN {} ELSE Fields
  /\ failed' = IF res = "ok" THEN 0 ELSE failed + 1
  /\ last' = [f |-> "none", v |-> 0, raised |-> FALSE]
  /\ UNCHANGED dev

PyFields == Fields \ {"tgo", "shift"}
PyValues(f) ==
  CASE f = "src" -> {"CHA", "EXT"} [] f = "npts" -> 0 .. memSize
    [] f = "nsamples" -> 0 .. memSize + 1 [] f = "dcm" -> Decimations \union {<<1, 2>>}
    [] OTHER -> {1, 2}

\* The sets that differ in the mask only.
CSetsOf(mask) == {Merged([Zero EXCEPT !.dcm = <<1, 1>>], mask \union Scaling(mask), s) : s \in Values}

Next ==
  \/ \E mask \in Masks, res \in Results : \E set \in CSetsOf(mask) : CSet(mask, set, res)
  \/ \E f \in PyFields, res \in Results : \E v \in PyValues(f) : PySet(f, v, res)
  \/ \E f \in PyFields : \E v \in PyValues(f) : PySame(f, v)
  \/ \E res \in Results : Open(res)

Spec == Init /\ [][Next]_vars
-----------------------------------------------------------------------------
(* Properties.                                                             *)

\* A transfer that failed leaves only what it was about in doubt (and npts
\* with nsamples, the trigger output with the source): the device has what
\* every other field of the library's cache is put into a request as, and a
\* later success removes the doubt without anything being read back.  That is
\* the field itself, except for the lower bits of the scale and for decimations
\* and shifts beyond their limits, which a C client may ask for: those the cache
\* keeps as they were asked for, and so differs from the device without failure.
Confined ==
  \A f \in Fields \ suspect : dev[f] = OnWire(f, c[f])

\* "parameter validation and updating of cache": as long as nothing fails the
\* cache tells how many samples the device stores before the trigger.
NptsKnown == c.npts = dev.npts

\* As long as no transfer failed, Python's copy is the device's.  (Not its
\* scale and shift, which the library changes along with the decimation.)
PyInSync ==
  client = "Python" /\ failed = 0 =>
    \A f \in Fields \ {"shift", "scale", "tgo"} : py[f] = dev[f]

\* A setter that raised an exception and is called again with the same value
\* has its effect when it returns, even if the failure of another one is not
\* made good yet.  Only npts is limited by what the library takes for the
\* number of samples.
RetryWorks ==
  [][LET f == last'.f
     IN  last.raised /\ ~last'.raised /\ last.f = f /\ last.v = last'.v =>
           \/ dev'[f] = OnWire(f, last.v)
           \/ f = "npts" /\ "nsamples" \in suspect]_vars
=============================================================================
