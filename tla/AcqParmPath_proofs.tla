-------------------------- MODULE AcqParmPath_proofs --------------------------
(***************************************************************************)
(* Theorems about the way of the parameters to the recorder, for every     *)
(* length of the mask, every set of requests and every depth of the        *)
(* memory: no stall and no clock edge, whenever it comes, lets the         *)
(* recorder see parameters that change or do not fit together; and a reply *)
(* is what the request asked for, complete when it has its effect.         *)
(***************************************************************************)
EXTENDS AcqParmPath, TLAPS

\* The toggle on its way from the provider (a) to the recorder (b) and back:
\* what is different from a stays different further on.
Ring(a, there, b, back) ==
  /\ there[1] # a => there[2] # a
  /\ there[2] # a => b # a
  /\ b # a => back[1] # a
  /\ back[1] # a => back[2] # a

\* The provider waits in TRIG until its toggle has come back.  While the
\* hand-over is local nothing has left for the recorder, and what is
\* acknowledged is the toggle of the edge before.
Handshake ==
  /\ Ring(parmsTglLoc(acq.trg), tglSync, acqTglOb, ackSync)
  /\ ackSync[2] # parmsTglLoc(acq.trg) => acq.state = "TRIG"
  /\ hsk.state = "LOCAL" => /\ tglSync = <<FALSE, FALSE>> /\ ackSync = <<FALSE, FALSE>>
                            /\ acqTglOb = FALSE
                            /\ acq.trg # hsk.tgl => acq.state = "TRIG"

\* The byte that comes next is one of the mask, or of the parameters.
Counts ==
  /\ acq.state = "MASK" => acq.count < MASK_LEN
  /\ acq.state \in {"PROC", "VALID", "TRIG"} => acq.count < CMD_LEN

Fits(p) == p[NSM] < MEM_DEPTH_G /\ p[NPT] <= p[NSM]

\* What is handed over was validated.
HandedOver == acq.state = "TRIG" => Fits(acq.p)

IInv == TypeOK /\ todo \in Seq(Byte) /\ Counts /\ Handshake /\ HandedOver /\ RecorderValid
-----------------------------------------------------------------------------
(* Bytes and beats.                                                        *)

LEMMA OfferedType ==
  ASSUME todo \in Seq(Byte), NEW offer \in BOOLEAN
  PROVE  Offered(offer) \in Bus(Beat)
<1>1. CASE offer /\ todo # <<>>
  <2>1. Head(todo) \in Byte /\ (Len(todo) = 1) \in BOOLEAN
    BY <1>1
  <2> DEFINE l == Len(todo) = 1
             h == Head(todo)
  <2> HIDE DEF l, h
  <2>2. [dat |-> h, lst |-> l] \in Beat
    BY <2>1 DEF Beat, h, l
  <2> QED
    BY <1>1, <2>2 DEF Offered, Bus, h, l
<1>2. CASE ~(offer /\ todo # <<>>)
  BY <1>2 DEF Offered, Bus
<1> QED
  BY <1>1, <1>2

LEMMA ToHandlerType ==
  ASSUME MuxTypeOK, NEW busIb \in Bus(Beat), NEW h
  PROVE  ToHandler(h, busIb) \in Bus(Beat)
BY DEF MuxTypeOK, ToHandler, Bus

LEMMA BeatOnBus ==
  ASSUME NEW bus \in Bus(Beat), bus # <<>>
  PROVE  bus[1] \in Beat /\ bus[1].dat \in Byte /\ bus[1].lst \in BOOLEAN
BY DEF Bus, Beat

\* The validation of hdl/CommandAcqParm.vhd gives parameters that fit together
\* whatever it is given.
LEMMA ValidatedFits ==
  ASSUME NEW p \in ParmRec
  PROVE  Validated(p) \in ParmRec /\ Fits(Validated(p))
<1> DEFINE nsm == AtMost(p[NSM], MEM_DEPTH_G - 1)
           npt == AtMost(p[NPT], nsm)
<1>1. p[NSM] \in Byte /\ p[NPT] \in Byte /\ NSM \in 0 .. CMD_LEN - 1 /\ NPT \in 0 .. CMD_LEN - 1
  BY DEF ParmRec, NSM, NPT, CMD_LEN
<1>2. MEM_DEPTH_G \in 1 .. NumBytes /\ NumBytes \in Nat \ {0}
  BY AcqAssumption, BusAssumption
<1>3. nsm \in Byte /\ nsm < MEM_DEPTH_G
  BY <1>1, <1>2 DEF AtMost, Byte
<1> HIDE DEF nsm
<1>4. npt \in Byte /\ npt <= nsm
  BY <1>1, <1>2, <1>3 DEF AtMost, Byte
<1> HIDE DEF npt
<1>5. Validated(p) = [p EXCEPT ![NSM] = nsm, ![NPT] = npt]
  BY DEF Validated, nsm, npt, NSM, NPT, ParmRec, CMD_LEN
<1>6. Validated(p) \in ParmRec
  BY <1>1, <1>3, <1>4, <1>5 DEF ParmRec
<1>7. Validated(p)[NSM] = nsm /\ Validated(p)[NPT] = npt
  BY <1>1, <1>5 DEF ParmRec, NSM, NPT
<1> QED
  BY <1>3, <1>4, <1>6, <1>7 DEF Fits
-----------------------------------------------------------------------------
(* The multiplexer.                                                        *)

LEMMA MuxKeepsType ==
  ASSUME MuxTypeOK, NEW busIb \in Bus(Beat), NEW hRdy \in BOOLEAN, NEW hOb, NEW rdyOb \in BOOLEAN,
         MuxEdge(busIb, hRdy, hOb, rdyOb)
  PROVE  MuxTypeOK'
<1> USE DEF MuxTypeOK
<1>1. CASE IdleEdge(busIb)
  <2>1. CASE busIb = <<>>
    BY <1>1, <2>1 DEF IdleEdge
  <2>2. CASE busIb # <<>>
    BY <1>1, <2>2, BeatOnBus DEF IdleEdge
  <2> QED
    BY <2>1, <2>2
<1>2. ASSUME NEW s \in {"IDLE", "CMD", "FWD", "WAI", "ERR"}, NEW seen \in BOOLEAN,
             mux' = [mux EXCEPT !.obLstSeen = seen, !.state = s]
      PROVE  MuxTypeOK'
  BY <1>2
<1>3. CASE CmdEdge(hRdy, hOb, rdyOb)
  <2> DEFINE seen == mux.obLstSeen \/ (selOK /\ LstSeen(hOb, rdyOb))
             ns   == IF ~mux.cmd.lst THEN "FWD" ELSE IF seen THEN "IDLE" ELSE "WAI"
             s    == IF ~selOK THEN "ERR" ELSE IF hRdy THEN ns ELSE mux.state
  <2>1. seen \in BOOLEAN /\ s \in {"IDLE", "CMD", "FWD", "WAI", "ERR"}
    OBVIOUS
  <2>2. mux' = [mux EXCEPT !.obLstSeen = seen, !.state = s]
    BY <1>3 DEF CmdEdge
  <2> HIDE DEF seen, s
  <2> QED
    BY <1>2, <2>1, <2>2
<1>4. CASE FwdEdge(busIb, hRdy, hOb, rdyOb)
  <2> DEFINE seen == mux.obLstSeen \/ LstSeen(hOb, rdyOb)
             last == hRdy /\ busIb # <<>> /\ busIb[1].lst
             s    == IF ~last THEN mux.state ELSE IF seen THEN "IDLE" ELSE "WAI"
  <2>1. seen \in BOOLEAN /\ s \in {"IDLE", "CMD", "FWD", "WAI", "ERR"}
    OBVIOUS
  <2>2. mux' = [mux EXCEPT !.obLstSeen = seen, !.state = s]
    BY <1>4 DEF FwdEdge
  <2> HIDE DEF seen, s
  <2> QED
    BY <1>2, <2>1, <2>2
<1>5. CASE WaiEdge(hOb, rdyOb)
  BY <1>5 DEF WaiEdge
<1>6. CASE ErrEdge(busIb, rdyOb)
  <2> DEFINE seen == mux.obLstSeen \/ rdyOb
             l    == mux.cmd.lst \/ (busIb # <<>> /\ busIb[1].lst)
             s    == IF mux.cmd.lst /\ mux.obLstSeen THEN "IDLE" ELSE mux.state
  <2>1. seen \in BOOLEAN /\ l \in BOOLEAN /\ s \in {"IDLE", "CMD", "FWD", "WAI", "ERR"}
    OBVIOUS
  <2>2. mux' = [mux EXCEPT !.obLstSeen = seen, !.cmd.lst = l, !.state = s]
    BY <1>6 DEF ErrEdge
  <2> HIDE DEF seen, l, s
  <2>3. [mux.cmd EXCEPT !.lst = l] \in Beat
    BY <2>1 DEF Beat
  <2> QED
    BY <2>1, <2>2, <2>3
<1> QED
  BY <1>1, <1>3, <1>4, <1>5, <1>6 DEF MuxEdge
-----------------------------------------------------------------------------
(* The parameter command.                                                  *)

AcqStates == {"ECHO", "MASK", "PROC", "VALID", "TRIG"}

\* Mask, parameters and toggle in their types, the counter where it is used.
AcqOK == AcqTypeOK /\ Counts

\* What an edge does to the toggle and to what was handed over.
AcqHandsOver(ack) ==
  /\ acq'.trg # acq.trg => acq.state = "VALID" /\ acq'.state = "TRIG"
  /\ acq.state # "TRIG" /\ acq'.state = "TRIG" => acq'.p = Validated(acq.p)
  /\ acq.state = "TRIG" => acq'.p = acq.p /\ (ack # acq.trg => acq'.state = "TRIG")

LEMMA AcqStep ==
  ASSUME AcqOK, NEW mIb \in Bus(Beat), NEW rOb \in BOOLEAN, NEW ack \in BOOLEAN,
         AcqEdge(mIb, rOb, ack)
  PROVE  AcqOK' /\ AcqHandsOver(ack)
<1> USE DEF AcqOK, AcqTypeOK, Counts, AcqHandsOver, AcqStates
<1> DEFINE got == IF rOb THEN mIb ELSE <<>>
<1>1. got \in Bus(Beat)
  BY DEF Bus
<1>2. /\ MASK_LEN \in Nat \ {0} /\ CMD_LEN = 2
      /\ acq.mask \in [0 .. MASK_LEN - 1 -> Byte] /\ acq.p \in [0 .. 1 -> Byte]
  BY AcqAssumption DEF ParmRec, CMD_LEN
<1> DEFINE top == IF MASK_LEN > CMD_LEN THEN MASK_LEN - 1 ELSE CMD_LEN - 1
<1>3. /\ top \in Nat /\ MASK_LEN - 1 <= top /\ 1 <= top
      /\ acq.count \in 0 .. top /\ acq.state \in AcqStates /\ acq.trg \in BOOLEAN
  BY <1>2
<1>4. ASSUME NEW s \in AcqStates, NEW mask \in [0 .. MASK_LEN - 1 -> Byte], NEW p \in ParmRec,
             NEW c \in 0 .. top, NEW t \in BOOLEAN,
             acq' = [state |-> s, mask |-> mask, p |-> p, count |-> c, trg |-> t]
      PROVE  AcqTypeOK'
  BY <1>4
<1>5. acq = [state |-> acq.state, mask |-> acq.mask, p |-> acq.p, count |-> acq.count, trg |-> acq.trg]
  OBVIOUS
<1>6. CASE acq' = acq
  BY <1>6
<1>7. CASE EchoEdge(got) /\ acq' # acq
  <2>1. acq' = [acq EXCEPT !.state = "MASK", !.count = 0] /\ acq.state = "ECHO"
    BY <1>7 DEF EchoEdge
  <2>2. acq' = [state |-> "MASK", mask |-> acq.mask, p |-> acq.p, count |-> 0, trg |-> acq.trg]
    BY <1>5, <2>1
  <2>3. acq'.state = "MASK" /\ acq'.count = 0 /\ acq'.trg = acq.trg
    BY <2>2
  <2> HIDE DEF top
  <2>4. AcqTypeOK'
    BY <1>2, <1>3, <1>4, <2>2
  <2> QED
    BY <1>2, <2>1, <2>3, <2>4
<1>8. CASE MaskEdge(got) /\ acq' # acq
  <2> DEFINE d == got[1].dat
             full == acq.count = MASK_LEN - 1
             c == IF full THEN 0 ELSE acq.count + 1
             s == IF got[1].lst THEN "ECHO" ELSE IF full THEN "PROC" ELSE acq.state
  <2>1. got # <<>> /\ acq.state = "MASK"
    BY <1>8 DEF MaskEdge
  <2>2. d \in Byte
    BY <1>1, <2>1, BeatOnBus
  <2>3. acq.count \in 0 .. MASK_LEN - 1
    BY <1>2, <1>3, <2>1
  <2>4. acq' = [acq EXCEPT !.mask[acq.count] = d, !.count = c, !.state = s]
    BY <1>8, <2>1 DEF MaskEdge
  <2>5. /\ c \in 0 .. top /\ s \in {"ECHO", "PROC", "MASK"}
        /\ s = "MASK" => c < MASK_LEN
        /\ s = "PROC" => c = 0
    BY <1>2, <1>3, <2>1, <2>3
  <2> HIDE DEF d, c, s, got, top
  <2>6. [acq.mask EXCEPT ![acq.count] = d] \in [0 .. MASK_LEN - 1 -> Byte]
    BY <1>2, <2>2, <2>3
  <2>7. acq' = [state |-> s, mask |-> [acq.mask EXCEPT ![acq.count] = d], p |-> acq.p,
                count |-> c, trg |-> acq.trg]
    BY <1>5, <2>4
  <2>8. AcqTypeOK'
    BY <1>3, <1>4, <2>5, <2>6, <2>7
  <2>9. acq'.state = s /\ acq'.count = c /\ acq'.trg = acq.trg
    BY <2>7
  <2> QED
    BY <1>2, <2>1, <2>5, <2>8, <2>9
<1>9. CASE ProcEdge(got) /\ acq' # acq
  <2> DEFINE d == IF Sets(acq.mask, acq.count) THEN got[1].dat ELSE acq.p[acq.count]
             s == IF ~Last(got) THEN acq.state ELSE IF Get(acq.mask) THEN "ECHO" ELSE "VALID"
             c == IF Last(got) THEN acq.count ELSE acq.count + 1
  <2>1. got # <<>> /\ acq.state = "PROC"
    BY <1>9 DEF ProcEdge
  <2>2. acq.count \in 0 .. 1
    BY <1>2, <1>3, <2>1
  <2>3. d \in Byte
    BY <1>1, <1>2, <2>1, <2>2, BeatOnBus
  <2>4. acq' = [acq EXCEPT !.p[acq.count] = d, !.state = s, !.count = c]
    BY <1>9, <2>1 DEF ProcEdge
  <2>5. c \in 0 .. 1 /\ s \in {"PROC", "ECHO", "VALID"}
    BY <1>2, <2>1, <2>2 DEF Last
  <2> HIDE DEF d, c, s, got, top
  <2>6. [acq.p EXCEPT ![acq.count] = d] \in ParmRec
    BY <1>2, <2>2, <2>3 DEF ParmRec
  <2>7. acq' = [state |-> s, mask |-> acq.mask, p |-> [acq.p EXCEPT ![acq.count] = d],
                count |-> c, trg |-> acq.trg]
    BY <1>5, <2>4
  <2>8. AcqTypeOK'
    BY <1>2, <1>3, <1>4, <2>5, <2>6, <2>7
  <2>9. acq'.state = s /\ acq'.count = c /\ acq'.trg = acq.trg
    BY <2>7
  <2> QED
    BY <1>2, <2>1, <2>5, <2>8, <2>9
<1>10. CASE ValidEdge
  <2>1. acq.state = "VALID" /\ Validated(acq.p) \in ParmRec
    BY <1>10, ValidatedFits DEF ValidEdge
  <2>2. acq' = [acq EXCEPT !.p = Validated(acq.p), !.trg = ~acq.trg, !.state = "TRIG"]
    BY <1>10 DEF ValidEdge
  <2> QED
    BY <1>2, <2>1, <2>2
<1>11. CASE TrigEdge(ack) /\ acq' # acq
  <2>1. acq.state = "TRIG" /\ ack = acq.trg /\ acq' = [acq EXCEPT !.state = "ECHO"]
    BY <1>11 DEF TrigEdge
  <2> QED
    BY <2>1
<1> QED
  BY <1>6, <1>7, <1>8, <1>9, <1>10, <1>11 DEF AcqEdge
-----------------------------------------------------------------------------
(* The hand-over.                                                          *)

LEMMA AckIsBoolean ==
  ASSUME HskTypeOK
  PROVE  parmsAck \in BOOLEAN
BY DEF HskTypeOK, parmsAck, Xor

\* At an edge of the bus clock: a new toggle starts out over a ring at rest.
LEMMA HandshakeBus ==
  ASSUME HskTypeOK, Handshake, acq.trg \in BOOLEAN, acq'.trg \in BOOLEAN,
         AcqHandsOver(parmsAck), HskEdge(acq.trg), UNCHANGED <<ready, memSide>>
  PROVE  HskTypeOK' /\ Handshake'
<1> DEFINE a  == parmsTglLoc(acq.trg)
           t1 == tglSync[1]
           t2 == tglSync[2]
           b  == acqTglOb
           k1 == ackSync[1]
           k2 == ackSync[2]
<1>1. /\ hsk = [state |-> hsk.state, tgl |-> hsk.tgl, pol |-> hsk.pol]
      /\ hsk.state \in {"LOCAL", "RUN"} /\ hsk.tgl \in BOOLEAN /\ hsk.pol \in BOOLEAN
  BY DEF HskTypeOK
<1>2. /\ t1 \in BOOLEAN /\ t2 \in BOOLEAN /\ b \in BOOLEAN /\ k1 \in BOOLEAN /\ k2 \in BOOLEAN
      /\ rdySync[1] \in BOOLEAN /\ rdySync[2] \in BOOLEAN /\ ready \in BOOLEAN
  BY DEF HskTypeOK
<1>3. ackSync' = <<b, k1>> /\ rdySync' = <<ready, rdySync[1]>>
  BY DEF HskEdge, Shifted
<1>4. tglSync' = tglSync /\ acqTglOb' = acqTglOb /\ ready' = ready
  BY DEF memSide
<1>5. /\ ackSync' \in BOOLEAN \X BOOLEAN /\ rdySync' \in BOOLEAN \X BOOLEAN
      /\ tglSync' \in BOOLEAN \X BOOLEAN
  BY <1>2, <1>3, <1>4 DEF HskTypeOK
<1>6. a \in BOOLEAN /\ Ring(a, tglSync, b, ackSync) /\ (k2 # a => acq.state = "TRIG")
  BY DEF Handshake, parmsTglLoc, Xor
<1>7. ackSync'[1] = b /\ ackSync'[2] = k1
  BY <1>3
<1>8. ASSUME hsk.state = "LOCAL"
      PROVE  tglSync' = <<FALSE, FALSE>> /\ acqTglOb' = FALSE /\ ackSync' = <<FALSE, FALSE>>
  <2>1. tglSync = <<FALSE, FALSE>> /\ acqTglOb = FALSE /\ ackSync = <<FALSE, FALSE>>
    BY <1>8 DEF Handshake
  <2>2. ackSync[1] = FALSE
    BY <2>1
  <2>3. ackSync' = <<acqTglOb, ackSync[1]>>
    BY DEF HskEdge, Shifted
  <2> QED
    BY <1>4, <2>1, <2>2, <2>3
<1>9. ASSUME NEW s \in {"LOCAL", "RUN"}, NEW t \in BOOLEAN, NEW p \in BOOLEAN,
             hsk' = [state |-> s, tgl |-> t, pol |-> p]
      PROVE  HskTypeOK'
  BY <1>2, <1>4, <1>5, <1>9 DEF HskTypeOK
<1>10. CASE hsk.state = "LOCAL" /\ ~(rdySync[2] /\ acq.trg = hsk.tgl)
  <2>1. hsk' = [state |-> "LOCAL", tgl |-> acq.trg, pol |-> hsk.pol]
    BY <1>1, <1>10 DEF HskEdge
  <2>2. HskTypeOK'
    BY <1>1, <1>9, <2>1
  <2>3. /\ tglSync' = <<FALSE, FALSE>> /\ acqTglOb' = FALSE /\ ackSync' = <<FALSE, FALSE>>
        /\ parmsTglLoc(acq.trg)' = FALSE
    BY <1>10, <1>8, <2>1 DEF parmsTglLoc
  <2>4. Ring(parmsTglLoc(acq.trg)', tglSync', acqTglOb', ackSync')
    BY <2>3 DEF Ring
  <2>5. acq'.trg # hsk'.tgl => acq'.state = "TRIG"
    BY <2>1 DEF AcqHandsOver
  <2> QED
    BY <2>2, <2>3, <2>4, <2>5 DEF Handshake, Ring
<1>11. CASE hsk.state = "LOCAL" /\ rdySync[2] /\ acq.trg = hsk.tgl
  <2>1. hsk' = [state |-> "RUN", tgl |-> acq.trg, pol |-> hsk.tgl]
    BY <1>11 DEF HskEdge
  <2>2. HskTypeOK'
    BY <1>1, <1>9, <2>1
  <2>3. tglSync' = <<FALSE, FALSE>> /\ acqTglOb' = FALSE /\ ackSync' = <<FALSE, FALSE>>
    BY <1>11, <1>8
  <2>4. parmsTglLoc(acq.trg)' = (acq'.trg # acq.trg) /\ hsk'.state = "RUN"
    BY <1>11, <2>1 DEF parmsTglLoc, Xor
  <2>5. acq'.trg # acq.trg => acq'.state = "TRIG"
    BY DEF AcqHandsOver
  <2>6. CASE acq'.trg # acq.trg
    BY <2>2, <2>3, <2>4, <2>5, <2>6 DEF Handshake, Ring
  <2>7. CASE acq'.trg = acq.trg
    BY <2>2, <2>3, <2>4, <2>7 DEF Handshake, Ring
  <2> QED
    BY <2>6, <2>7
<1>12. CASE hsk.state = "RUN"
  <2>1. hsk' = [state |-> "RUN", tgl |-> acq.trg, pol |-> hsk.pol]
    BY <1>1, <1>12 DEF HskEdge
  <2>2. HskTypeOK'
    BY <1>1, <1>9, <2>1
  <2>3. a = (acq.trg # hsk.pol) /\ a' = (acq'.trg # hsk.pol) /\ parmsAck = (k2 # hsk.pol)
    BY <1>12, <2>1 DEF parmsTglLoc, parmsAck, Xor
  <2>4. a' \in BOOLEAN /\ (a' # a <=> acq'.trg # acq.trg) /\ (k2 # a => parmsAck # acq.trg)
    BY <1>1, <1>2, <2>3
  <2>5. tglSync'[1] = t1 /\ tglSync'[2] = t2 /\ acqTglOb' = b
    BY <1>4
  <2>6. a' # a => k2 = a /\ acq'.state = "TRIG"
    BY <1>6, <2>4 DEF AcqHandsOver
  <2>7. k2 # a => acq'.state = "TRIG"
    BY <1>6, <2>4 DEF AcqHandsOver
  <2>8. /\ t1 # a => t2 # a
        /\ t2 # a => b # a
        /\ b # a => k1 # a
        /\ k1 # a => k2 # a
    BY <1>6 DEF Ring
  <2> DEFINE an == a'
  <2>9. an = a' /\ an \in BOOLEAN
    BY <2>4
  <2> HIDE DEF a, t1, t2, b, k1, k2, an
  <2>10. /\ t1 # an => t2 # an
         /\ t2 # an => b # an
         /\ b # an => b # an
         /\ b # an => k1 # an
         /\ k1 # an => acq'.state = "TRIG"
    <3>1. CASE an = a
      BY <2>7, <2>8, <3>1
    <3>2. CASE an # a
      <4>1. k2 = a /\ acq'.state = "TRIG"
        BY <2>6, <2>9, <3>2
      <4>2. k1 = a /\ b = a /\ t2 = a /\ t1 = a
        BY <2>8, <4>1
      <4> QED
        BY <3>2, <4>1, <4>2
    <3> QED
      BY <3>1, <3>2
  <2>11. Ring(an, tglSync', acqTglOb', ackSync') /\ (ackSync'[2] # an => acq'.state = "TRIG")
    BY <1>7, <2>5, <2>10 DEF Ring
  <2>12. an = parmsTglLoc(acq.trg)' /\ hsk'.state # "LOCAL"
    BY <2>1 DEF an, a
  <2> QED
    BY <2>2, <2>11, <2>12 DEF Handshake, Ring
<1> QED
  BY <1>1, <1>10, <1>11, <1>12

\* The recorder takes something only while the provider waits.
LEMMA WaitsWhileTaken ==
  ASSUME HskTypeOK, Handshake, acqTglIb # acqTglOb
  PROVE  acq.state = "TRIG"
<1> DEFINE a  == parmsTglLoc(acq.trg)
           t2 == tglSync[2]
           b  == acqTglOb
           k1 == ackSync[1]
           k2 == ackSync[2]
<1>1. /\ a \in BOOLEAN /\ t2 \in BOOLEAN /\ b \in BOOLEAN /\ t2 # b
      /\ t2 # a => b # a
      /\ b # a => k1 # a
      /\ k1 # a => k2 # a
      /\ k2 # a => acq.state = "TRIG"
  BY DEF HskTypeOK, Handshake, Ring, parmsTglLoc, Xor, acqTglIb
<1> HIDE DEF a, t2, b, k1, k2
<1> QED
  BY <1>1

\* At an edge of the recorder's clock.
LEMMA HandshakeMem ==
  ASSUME HskTypeOK, Handshake, NEW stopping \in BOOLEAN, acq.p \in ParmRec, taken \in Bus(ParmRec),
         MemEdge(acq.trg, acq.p, stopping), UNCHANGED <<acq, busSide, ready>>
  PROVE  /\ HskTypeOK' /\ Handshake' /\ (taken \in Bus(ParmRec))'
         /\ taken' # taken => acq.state = "TRIG" /\ taken' = <<acq.p>>
<1> DEFINE a  == parmsTglLoc(acq.trg)
           t1 == tglSync[1]
           t2 == tglSync[2]
           b  == acqTglOb
           bn == acqTglOb'
           k1 == ackSync[1]
           k2 == ackSync[2]
<1>1. /\ a \in BOOLEAN /\ t1 \in BOOLEAN /\ t2 \in BOOLEAN /\ b \in BOOLEAN
      /\ hsk' = hsk /\ acq' = acq /\ ackSync' = ackSync /\ rdySync' = rdySync /\ ready' = ready
  BY DEF HskTypeOK, parmsTglLoc, Xor, busSide
<1>2. tglSync' = <<a, t1>> /\ bn \in {b, t2}
  BY DEF MemEdge, Shifted, acqTglIb
<1>3. taken' # taken => acq.state = "TRIG" /\ taken' = <<acq.p>>
  BY WaitsWhileTaken DEF MemEdge
<1>4. (taken \in Bus(ParmRec))'
  BY <1>3 DEF Bus
<1>5. a' = a
  BY <1>1 DEF parmsTglLoc
<1>6. HskTypeOK'
  <2>1. bn \in BOOLEAN /\ tglSync' \in BOOLEAN \X BOOLEAN
    BY <1>1, <1>2
  <2> QED
    BY <1>1, <2>1 DEF HskTypeOK
<1>7. /\ t1 # a => t2 # a
      /\ t2 # a => b # a
      /\ b # a => k1 # a
      /\ k1 # a => k2 # a
      /\ k2 # a => acq.state = "TRIG"
  BY DEF Handshake, Ring
<1>8. tglSync'[1] = a /\ tglSync'[2] = t1
  BY <1>2
<1>9. Ring(a', tglSync', acqTglOb', ackSync') /\ (ackSync'[2] # a' => acq'.state = "TRIG")
  <2>1. k1 = ackSync'[1] /\ k2 = ackSync'[2] /\ acq'.state = acq.state
    BY <1>1
  <2>2. bn = acqTglOb'
    OBVIOUS
  <2> HIDE DEF a, t1, t2, b, bn, k1, k2
  <2>3. /\ a # a => t1 # a
        /\ t1 # a => bn # a
        /\ bn # a => k1 # a
    BY <1>1, <1>2, <1>7
  <2> QED
    BY <1>5, <1>7, <1>8, <2>1, <2>2, <2>3 DEF Ring
<1>10. ASSUME hsk.state = "LOCAL"
       PROVE  tglSync' = <<FALSE, FALSE>> /\ acqTglOb' = FALSE
  <2>1. a = FALSE /\ tglSync = <<FALSE, FALSE>> /\ acqTglOb = FALSE
    BY <1>10 DEF Handshake, parmsTglLoc
  <2>2. t1 = FALSE /\ t2 = FALSE
    BY <2>1
  <2> HIDE DEF a, t1, t2
  <2> QED
    BY <1>2, <2>1, <2>2
<1>11. hsk'.state = "LOCAL" => /\ tglSync' = <<FALSE, FALSE>> /\ ackSync' = <<FALSE, FALSE>>
                               /\ acqTglOb' = FALSE
                               /\ acq'.trg # hsk'.tgl => acq'.state = "TRIG"
  BY <1>1, <1>10 DEF Handshake
<1>12. Handshake'
  BY <1>9, <1>11 DEF Handshake
<1> QED
  BY <1>3, <1>4, <1>6, <1>12
-----------------------------------------------------------------------------
(* The whole path.                                                         *)

LEMMA InitIInv == Init => IInv
<1> SUFFICES ASSUME Init PROVE IInv
  OBVIOUS
<1> USE DEF Init, MuxInit, AcqInit, HskInit
<1>1. NumBytes \in Nat \ {0} /\ MEM_DEPTH_G \in 1 .. NumBytes /\ MASK_LEN \in Nat \ {0}
  BY BusAssumption, AcqAssumption
<1>2. 0 \in Byte /\ MEM_DEPTH_G - 1 \in Byte
  BY <1>1 DEF Byte
<1>3. MuxTypeOK
  BY <1>2 DEF MuxTypeOK, Beat
<1>4. AcqTypeOK
  BY <1>1, <1>2 DEF AcqTypeOK, ParmRec, CMD_LEN
<1>5. HskTypeOK
  <2>1. hsk \in [state : {"LOCAL", "RUN"}, tgl : BOOLEAN, pol : BOOLEAN]
    OBVIOUS
  <2>2. ready \in BOOLEAN /\ acqTglOb \in BOOLEAN
    OBVIOUS
  <2>3. /\ tglSync \in BOOLEAN \X BOOLEAN /\ ackSync \in BOOLEAN \X BOOLEAN
        /\ rdySync \in BOOLEAN \X BOOLEAN
    OBVIOUS
  <2> QED
    BY <2>1, <2>2, <2>3 DEF HskTypeOK
<1>6. taken \in Bus(ParmRec) /\ todo \in Seq(Byte) /\ Counts /\ HandedOver /\ RecorderValid
  BY DEF Bus, Counts, HandedOver, RecorderValid
<1>7. Handshake
  <2>1. /\ tglSync[1] = FALSE /\ tglSync[2] = FALSE /\ acqTglOb = FALSE
        /\ ackSync[1] = FALSE /\ ackSync[2] = FALSE /\ parmsTglLoc(acq.trg) = FALSE
    BY DEF parmsTglLoc
  <2>2. Ring(parmsTglLoc(acq.trg), tglSync, acqTglOb, ackSync)
    BY <2>1 DEF Ring
  <2> QED
    BY <2>1, <2>2 DEF Handshake
<1> QED
  BY <1>3, <1>4, <1>5, <1>6, <1>7 DEF IInv, TypeOK

LEMMA BusClkKeeps ==
  ASSUME IInv, NEW offer \in BOOLEAN, NEW rdyOb \in BOOLEAN, BusClk(offer, rdyOb)
  PROVE  IInv'
<1> DEFINE busIb == Offered(offer)
           toAcq == ToHandler("ACQ_PARMS", busIb)
           rOb   == HandlerRdyOb("ACQ_PARMS", rdyOb)
           acqOb == AcqOb(toAcq, parmsAck)
           into  == IF muxRdyIb(AcqRdyIb(rOb)) THEN busIb ELSE <<>>
<1>1. /\ MuxTypeOK /\ AcqTypeOK /\ HskTypeOK /\ taken \in Bus(ParmRec) /\ todo \in Seq(Byte)
      /\ Counts /\ Handshake /\ HandedOver /\ RecorderValid
  BY DEF IInv, TypeOK
<1>2. busIb \in Bus(Beat)
  BY <1>1, OfferedType
<1>3. toAcq \in Bus(Beat)
  BY <1>1, <1>2, ToHandlerType
<1>4. rOb \in BOOLEAN
  BY DEF HandlerRdyOb
<1>5. parmsAck \in BOOLEAN
  BY <1>1, AckIsBoolean
<1>6. /\ MuxEdge(busIb, AcqRdyIb(rOb), acqOb, rdyOb) /\ AcqEdge(toAcq, rOb, parmsAck)
      /\ HskEdge(acq.trg) /\ UNCHANGED <<ready, memSide>>
      /\ todo' = IF into = <<>> THEN todo ELSE Tail(todo)
  BY DEF BusClk
<1>7. into # <<>> => todo # <<>>
  BY DEF Offered
<1> HIDE DEF busIb, toAcq, rOb, acqOb, into
<1>8. MuxTypeOK'
  BY <1>1, <1>2, <1>4, <1>6, MuxKeepsType DEF AcqRdyIb
<1>9. AcqOK' /\ AcqHandsOver(parmsAck)
  BY <1>1, <1>3, <1>4, <1>5, <1>6, AcqStep DEF AcqOK
<1>10. acq.trg \in BOOLEAN /\ acq'.trg \in BOOLEAN /\ acq.p \in ParmRec
  BY <1>1, <1>9 DEF AcqOK, AcqTypeOK
<1>11. HskTypeOK' /\ Handshake'
  BY <1>1, <1>6, <1>9, <1>10, HandshakeBus
<1>12. todo' \in Seq(Byte)
  BY <1>1, <1>6, <1>7
<1>13. HandedOver'
  BY <1>1, <1>9, <1>10, ValidatedFits DEF HandedOver, AcqHandsOver
<1>14. taken' = taken
  BY <1>6 DEF memSide
<1>15. RecorderValid' /\ (taken \in Bus(ParmRec))'
  BY <1>1, <1>14 DEF RecorderValid
<1> QED
  BY <1>8, <1>9, <1>11, <1>12, <1>13, <1>15 DEF IInv, TypeOK, AcqOK

LEMMA MemClkKeeps ==
  ASSUME IInv, NEW stopping \in BOOLEAN, MemClk(stopping)
  PROVE  IInv'
<1>1. /\ MuxTypeOK /\ AcqTypeOK /\ HskTypeOK /\ taken \in Bus(ParmRec) /\ todo \in Seq(Byte)
      /\ Counts /\ Handshake /\ HandedOver /\ RecorderValid
  BY DEF IInv, TypeOK
<1>2. MemEdge(acq.trg, acq.p, stopping) /\ UNCHANGED <<mux, acq, busSide, ready, todo>>
  BY DEF MemClk
<1>3. acq.p \in ParmRec
  BY <1>1 DEF AcqTypeOK
<1>4. /\ HskTypeOK' /\ Handshake' /\ (taken \in Bus(ParmRec))'
      /\ taken' # taken => acq.state = "TRIG" /\ taken' = <<acq.p>>
  BY <1>1, <1>2, <1>3, HandshakeMem
<1>5. RecorderValid'
  <2>1. CASE taken' = taken
    BY <1>1, <2>1 DEF RecorderValid
  <2>2. CASE taken' # taken
    BY <1>1, <1>4, <2>2 DEF RecorderValid, HandedOver, Fits
  <2> QED
    BY <2>1, <2>2
<1>6. MuxTypeOK' /\ AcqTypeOK' /\ Counts' /\ HandedOver' /\ todo' \in Seq(Byte)
  BY <1>1, <1>2 DEF MuxTypeOK, AcqTypeOK, Counts, HandedOver
<1> QED
  BY <1>4, <1>5, <1>6 DEF IInv, TypeOK

\* A step that only sends, or makes the recorder ready.
LEMMA OthersKeep ==
  ASSUME IInv, todo' \in Seq(Byte), ready' \in BOOLEAN,
         UNCHANGED <<mux, acq, busSide, memSide>>
  PROVE  IInv'
<1>1. /\ mux' = mux /\ acq' = acq /\ hsk' = hsk /\ ackSync' = ackSync /\ rdySync' = rdySync
      /\ tglSync' = tglSync /\ acqTglOb' = acqTglOb /\ taken' = taken
  BY DEF busSide, memSide
<1>2. MuxTypeOK' /\ AcqTypeOK' /\ Counts' /\ HandedOver' /\ RecorderValid' /\ (taken \in Bus(ParmRec))'
  BY <1>1 DEF IInv, TypeOK, MuxTypeOK, AcqTypeOK, Counts, HandedOver, RecorderValid
<1>3. HskTypeOK'
  <2>1. HskTypeOK /\ acqTglOb \in BOOLEAN
    BY DEF IInv, TypeOK, HskTypeOK
  <2> QED
    BY <1>1, <2>1 DEF HskTypeOK
<1>4. Handshake'
  <2>1. parmsTglLoc(acq.trg)' = parmsTglLoc(acq.trg)
    BY <1>1 DEF parmsTglLoc
  <2>2. Handshake
    BY DEF IInv
  <2> QED
    BY <1>1, <2>1, <2>2 DEF Handshake
<1> QED
  BY <1>2, <1>3, <1>4 DEF IInv, TypeOK

LEMMA Inductive == Spec => []IInv
<1>1. IInv /\ [Next]_vars => IInv'
  <2> SUFFICES ASSUME IInv, [Next]_vars PROVE IInv'
    OBVIOUS
  <2>1. ASSUME NEW offer \in BOOLEAN, NEW rdyOb \in BOOLEAN, BusClk(offer, rdyOb)
        PROVE  IInv'
    BY <2>1, BusClkKeeps
  <2>2. ASSUME NEW stopping \in BOOLEAN, MemClk(stopping)
        PROVE  IInv'
    BY <2>2, MemClkKeeps
  <2>3. todo \in Seq(Byte) /\ ready \in BOOLEAN
    BY DEF IInv, TypeOK, HskTypeOK
  <2>4. CASE NewFrame
    <3>1. todo' \in Seq(Byte)
      BY <2>4, PathAssumption DEF NewFrame
    <3> QED
      BY <2>3, <2>4, <3>1, OthersKeep DEF NewFrame
  <2>5. CASE Ready
    BY <2>3, <2>5, OthersKeep DEF Ready, BecomeReady
  <2>6. CASE UNCHANGED vars
    BY <2>3, <2>6, OthersKeep DEF vars
  <2> QED
    BY <2>1, <2>2, <2>4, <2>5, <2>6 DEF Next
<1> QED
  BY <1>1, InitIInv, PTL DEF Spec

-----------------------------------------------------------------------------
(* What a request is answered with.                                        *)

\* Requests after which CommandAcqParm waits for the next one: at least a byte of
\* the mask, at most as many values as there are parameters (the host's library
\* sends all of them).  It does not look at the end of a frame anywhere else.
InStep(f) == Len(f) \in 2 .. 1 + MASK_LEN + CMD_LEN /\ Cmd[f[1]] = "ACQ_PARMS"
RequestsInStep == \A f \in Requests : InStep(f)

\* The first n beats of the reply, when none of them is the last.
Begun(f, n) == [i \in 1 .. n |-> [lst |-> FALSE, dat |-> Old(f, i)]]

\* What is left to be sent completes the frame.
Sending == /\ frame # <<>> /\ todo # <<>> /\ Len(frame) + Len(todo) \in 2 .. 1 + MASK_LEN + CMD_LEN
           /\ Cmd[frame[1]] = "ACQ_PARMS"

\* The command byte waits to be passed on.
Commanded ==
  /\ Sending /\ frame = <<mux.cmd.dat>> /\ ~mux.cmd.lst /\ answer = <<>>
  /\ acq.state = "ECHO" /\ before = [mask |-> acq.mask, p |-> acq.p]

\* Each byte was answered with what was there before it.
Echoed ==
  /\ Sending /\ answer = Begun(frame, Len(frame))
  /\ Len(frame) <= MASK_LEN => acq.state = "MASK" /\ acq.count = Len(frame) - 1
  /\ Len(frame) > MASK_LEN => acq.state = "PROC" /\ acq.count = Values(frame)
  /\ acq.mask = MaskOf(frame) /\ acq.p = SetBy(frame)

\* The frame has ended, its values are being validated and handed over.
HandingOver ==
  /\ Values(frame) \in 1 .. CMD_LEN /\ ~Get(MaskOf(frame))
  /\ answer = Begun(frame, Len(frame) - 1) /\ acq.count = Values(frame) - 1
  /\ acq.p = IF acq.state = "VALID" THEN SetBy(frame) ELSE Validated(SetBy(frame))

\* Where request, reply and the handler are at each state of the multiplexer.
Exchange ==
  /\ mux.state \in {"IDLE", "WAI"} => todo = <<>> \/ InStep(todo)
  /\ mux.state = "IDLE" => acq.state = "ECHO"
  /\ mux.state = "CMD"  => Commanded
  /\ mux.state = "FWD"  => Echoed
  /\ mux.state = "WAI"  => /\ acq.state \in {"VALID", "TRIG", "ECHO"}
                           /\ acq.state # "ECHO" => HandingOver
  /\ mux.state \in {"CMD", "FWD"} => ~mux.obLstSeen
  /\ mux.state # "IDLE" => sel = "ACQ_PARMS"
  /\ mux.state # "ERR"

\* Once the recorder's toggle is the provider's it works with these parameters.
Applied ==
  hsk.state = "RUN" /\ acq.state = "TRIG" /\ acqTglOb = parmsTglLoc(acq.trg) => taken = <<acq.p>>

BeforeOK == before \in [mask : [0 .. MASK_LEN - 1 -> Byte], p : ParmRec]

RInv == frame \in Seq(Byte) /\ BeforeOK /\ Exchange /\ Applied
-----------------------------------------------------------------------------
(* Frames and replies that grow.                                           *)

\* An empty mask sets nothing.
LEMMA NothingSet ==
  ASSUME NEW mask \in [0 .. MASK_LEN - 1 -> Byte], Get(mask), NEW i \in 0 .. CMD_LEN - 1
  PROVE  ~Sets(mask, i)
<1>1. mask[0] = 0
  BY AcqAssumption DEF Get
<1>2. i = 0 \/ i = 1
  BY DEF CMD_LEN
<1> QED
  <2>1. 2^0 = 1
    OBVIOUS
  <2>2. 2^1 = 2
    OBVIOUS
  <2>3. CASE i = 0
    <3>1. (0 \div 1) % 2 = 0
      OBVIOUS
    <3> QED
      BY <1>1, <2>1, <2>3, <3>1 DEF Sets
  <2>4. CASE i = 1
    <3>1. (0 \div 2) % 2 = 0
      OBVIOUS
    <3> QED
      BY <1>1, <2>2, <2>4, <3>1 DEF Sets
  <2> QED
    BY <1>2, <2>3, <2>4

\* One byte more: what it does to mask and parameters.
LEMMA FrameGrows ==
  ASSUME NEW f \in Seq(Byte), f # <<>>, NEW d \in Byte, BeforeOK
  PROVE  LET g == Append(f, d) IN
         /\ g \in Seq(Byte) /\ Len(g) = Len(f) + 1 /\ g[1] = f[1] /\ Values(g) = Values(f) + 1
         /\ Len(f) <= MASK_LEN => /\ MaskOf(g) = [MaskOf(f) EXCEPT ![Len(f) - 1] = d]
                                  /\ SetBy(f) = before.p /\ SetBy(g) = before.p
         /\ Len(f) > MASK_LEN => MaskOf(g) = MaskOf(f)
         /\ Values(f) \in 0 .. CMD_LEN - 1 =>
              SetBy(g) = [SetBy(f) EXCEPT ![Values(f)] = IF Sets(MaskOf(f), Values(f)) THEN d ELSE @]
<1> DEFINE g == Append(f, d)
           n == Len(f)
<1>1. MASK_LEN \in Nat \ {0} /\ CMD_LEN = 2 /\ n \in Nat \ {0}
  BY AcqAssumption DEF CMD_LEN
<1>2. g \in Seq(Byte) /\ Len(g) = n + 1 /\ g[n + 1] = d /\ \A i \in 1 .. n : g[i] = f[i]
  OBVIOUS
<1>3. g[1] = f[1] /\ Values(g) = Values(f) + 1 /\ Values(f) = n - 1 - MASK_LEN
  BY <1>1, <1>2 DEF Values
<1>4. before.mask \in [0 .. MASK_LEN - 1 -> Byte] /\ before.p \in [0 .. CMD_LEN - 1 -> Byte]
  BY DEF BeforeOK, ParmRec
<1> HIDE DEF g, n
<1>5. ASSUME n <= MASK_LEN PROVE MaskOf(g) = [MaskOf(f) EXCEPT ![n - 1] = d]
  <2>1. MaskOf(f) = [i \in 0 .. MASK_LEN - 1 |-> MaskOf(f)[i]] /\ n - 1 \in 0 .. MASK_LEN - 1
    BY <1>1, <1>5 DEF MaskOf
  <2>2. MaskOf(g) = [i \in 0 .. MASK_LEN - 1 |-> MaskOf(g)[i]]
    BY DEF MaskOf
  <2>3. ASSUME NEW i \in 0 .. MASK_LEN - 1
        PROVE  MaskOf(g)[i] = IF i = n - 1 THEN d ELSE MaskOf(f)[i]
    <3>1. MaskOf(g)[i] = IF i + 2 <= n + 1 THEN g[i + 2] ELSE before.mask[i]
      BY <1>2 DEF MaskOf
    <3>2. MaskOf(f)[i] = IF i + 2 <= n THEN f[i + 2] ELSE before.mask[i]
      BY DEF MaskOf, n
    <3>3. i \in Nat /\ (i + 2 <= n => g[i + 2] = f[i + 2])
      BY <1>1, <1>2
    <3> QED
      BY <1>1, <1>2, <3>1, <3>2, <3>3
  <2> QED
    BY <2>1, <2>2, <2>3
<1>6. ASSUME n <= MASK_LEN PROVE SetBy(f) = before.p /\ SetBy(g) = before.p
  <2>1. ASSUME NEW h, Values(h) \in Int, Values(h) <= 0 PROVE SetBy(h) = before.p
    <3>1. \A i \in 0 .. CMD_LEN - 1 : SetBy(h)[i] = before.p[i]
      BY <1>1, <2>1 DEF SetBy
    <3>2. /\ SetBy(h) = [i \in 0 .. CMD_LEN - 1 |-> SetBy(h)[i]]
          /\ before.p = [i \in 0 .. CMD_LEN - 1 |-> before.p[i]]
      BY <1>4 DEF SetBy
    <3> QED
      BY <3>1, <3>2
  <2> QED
    BY <1>1, <1>3, <1>6, <2>1
<1>7. ASSUME n > MASK_LEN PROVE MaskOf(g) = MaskOf(f)
  BY <1>1, <1>2, <1>7 DEF MaskOf, n
<1>8. ASSUME Values(f) \in 0 .. CMD_LEN - 1
      PROVE  SetBy(g) = [SetBy(f) EXCEPT ![Values(f)] = IF Sets(MaskOf(f), Values(f)) THEN d ELSE @]
  <2> DEFINE v == Values(f)
             w == IF Sets(MaskOf(f), v) THEN d ELSE SetBy(f)[v]
  <2>1. MaskOf(g) = MaskOf(f) /\ v \in 0 .. CMD_LEN - 1 /\ Values(g) = v + 1 /\ n = v + 1 + MASK_LEN
    BY <1>1, <1>3, <1>7, <1>8
  <2>2. ASSUME NEW i \in 0 .. CMD_LEN - 1
        PROVE  SetBy(g)[i] = IF i = v THEN w ELSE SetBy(f)[i]
    <3>1. i < v => g[2 + MASK_LEN + i] = f[2 + MASK_LEN + i]
      BY <1>1, <1>2, <2>1
    <3>2. g[2 + MASK_LEN + v] = d
      BY <1>1, <1>2, <2>1
    <3>3. SetBy(g)[i] = IF i < v + 1 /\ Sets(MaskOf(f), i) THEN g[2 + MASK_LEN + i] ELSE before.p[i]
      BY <2>1 DEF SetBy
    <3>4. \A j \in 0 .. CMD_LEN - 1 : SetBy(f)[j] = IF j < v /\ Sets(MaskOf(f), j)
                                                THEN f[2 + MASK_LEN + j] ELSE before.p[j]
      BY DEF SetBy
    <3> HIDE DEF v
    <3> QED
      BY <1>1, <2>1, <3>1, <3>2, <3>3, <3>4
  <2>3. /\ SetBy(g) = [i \in 0 .. CMD_LEN - 1 |-> SetBy(g)[i]]
        /\ SetBy(f) = [i \in 0 .. CMD_LEN - 1 |-> SetBy(f)[i]]
    BY DEF SetBy
  <2> HIDE DEF v, w
  <2>4. SetBy(g) = [SetBy(f) EXCEPT ![v] = w]
    BY <2>1, <2>2, <2>3
  <2> QED
    BY <2>4 DEF v, w
<1> QED
  BY <1>2, <1>3, <1>5, <1>6, <1>7, <1>8 DEF g, n

\* One beat more of the reply.
LEMMA BegunGrows ==
  ASSUME NEW f \in Seq(Byte), NEW n \in Nat
  PROVE  Append(Begun(f, n), [lst |-> FALSE, dat |-> Old(f, n + 1)]) = Begun(f, n + 1)
<1> DEFINE b == Begun(f, n)
           x == [lst |-> FALSE, dat |-> Old(f, n + 1)]
           S == {[lst |-> FALSE, dat |-> Old(f, i)] : i \in 1 .. n + 1}
<1>1. b \in Seq(S) /\ Len(b) = n /\ \A i \in 1 .. n : b[i] = [lst |-> FALSE, dat |-> Old(f, i)]
  <2>1. b = [i \in 1 .. n |-> [lst |-> FALSE, dat |-> Old(f, i)]]
    BY DEF Begun
  <2>2. b \in [1 .. n -> S]
    <3>1. \A i \in 1 .. n : i \in 1 .. n + 1
      OBVIOUS
    <3> QED
      BY <2>1, <3>1
  <2> HIDE DEF b, S
  <2>3. b \in Seq(S) /\ Len(b) = n
    BY <2>2
  <2> QED
    BY <2>1, <2>3
<1> HIDE DEF b
<1> QED
  BY <1>1 DEF Begun, b

\* The beat that completes it.
LEMMA BegunEnds ==
  ASSUME NEW f \in Seq(Byte), f # <<>>,
         NEW x, x = IF Values(f) > 0 THEN ParmsOf(f)[Values(f) - 1] ELSE Old(f, Len(f))
  PROVE  Append(Begun(f, Len(f) - 1), [lst |-> TRUE, dat |-> x]) = Answer(f)
<1> DEFINE n == Len(f) - 1
           b == Begun(f, n)
           S == {[lst |-> FALSE, dat |-> Old(f, i)] : i \in 1 .. n}
<1>1. n \in Nat /\ Len(f) = n + 1
  OBVIOUS
<1> HIDE DEF n
<1>2. b \in Seq(S) /\ Len(b) = n /\ \A i \in 1 .. n : b[i] = [lst |-> FALSE, dat |-> Old(f, i)]
  <2>1. b = [i \in 1 .. n |-> [lst |-> FALSE, dat |-> Old(f, i)]]
    BY DEF Begun
  <2>2. b \in [1 .. n -> S]
    BY <2>1
  <2> HIDE DEF b, S
  <2>3. b \in Seq(S) /\ Len(b) = n
    BY <1>1, <2>2
  <2> QED
    BY <1>1, <2>1, <2>3
<1> DEFINE y == [lst |-> TRUE, dat |-> x]
           c == Append(b, y)
<1>3. Len(c) = n + 1 /\ c \in Seq(S \union {y})
  <2> HIDE DEF b, S, y
  <2> QED
    BY <1>1, <1>2
<1>4. ASSUME NEW i \in 1 .. n + 1 PROVE c[i] = Answer(f)[i]
  <2>1. c[i] = IF i = n + 1 THEN y ELSE b[i]
    <3> HIDE DEF b, S, y
    <3> QED
      BY <1>1, <1>2
  <2>2. Answer(f)[i] = [lst |-> i = n + 1,
          dat |-> IF i = n + 1 /\ Values(f) > 0 THEN ParmsOf(f)[Values(f) - 1] ELSE Old(f, i)]
    BY <1>1 DEF Answer
  <2>3. CASE i = n + 1
    BY <1>1, <2>1, <2>2, <2>3
  <2>4. CASE i # n + 1
    <3>1. b[i] = [lst |-> FALSE, dat |-> Old(f, i)]
      <4>1. i \in 1 .. n
        BY <1>1, <2>4
      <4> QED
        BY <1>2, <4>1
    <3> QED
      BY <2>1, <2>2, <2>4, <3>1
  <2> QED
    BY <2>3, <2>4
<1>5. Answer(f) = [i \in 1 .. n + 1 |-> Answer(f)[i]]
  BY <1>1 DEF Answer
<1>6. c = [i \in 1 .. n + 1 |-> c[i]]
  <2> HIDE DEF c, S
  <2> QED
    BY <1>1, <1>3
<1>7. c = Answer(f)
  <2> HIDE DEF c
  <2> QED
    BY <1>4, <1>5, <1>6
<1> QED
  BY <1>7 DEF b, n

-----------------------------------------------------------------------------
(* The exchange at an edge of the bus clock.                               *)

\* What the handler is offered and what the history variables record.
Moved(toAcq, into, out) ==
  /\ todo'   = IF into = <<>> THEN todo ELSE Tail(todo)
  /\ frame'  = IF into = <<>> THEN frame ELSE Append(frame, into[1].dat)
  /\ answer' = IF out = <<>> THEN answer ELSE Append(answer, out[1])
  /\ before' = before

\* The reply as it should be when its last beat is taken.
Completed ==
  answer' # answer /\ answer' # <<>> /\ answer'[Len(answer')].lst =>
    /\ answer' = Answer(frame') /\ acq'.p = ParmsOf(frame')
    /\ Values(frame') > 0 /\ ~Get(MaskOf(frame')) => acq.state = "TRIG" /\ parmsAck = acq.trg

\* What an exchange is about.
Kept == frame' \in Seq(Byte) /\ BeforeOK' /\ Exchange' /\ Completed

\* A beat on the way in.
LEMMA OfferedBeat ==
  ASSUME todo \in Seq(Byte), NEW offer, Offered(offer) # <<>>
  PROVE  /\ todo # <<>> /\ Len(todo) \in Nat \ {0} /\ Head(todo) \in Byte
         /\ Tail(todo) \in Seq(Byte) /\ Len(Tail(todo)) = Len(todo) - 1
         /\ Offered(offer) = <<[dat |-> Head(todo), lst |-> Len(todo) = 1]>>
BY DEF Offered

LEMMA IdleReplies ==
  ASSUME IInv, RInv, NEW offer \in BOOLEAN, NEW rdyOb \in BOOLEAN, BusClk(offer, rdyOb),
         mux.state = "IDLE"
  PROVE  Kept
<1> DEFINE busIb == Offered(offer)
<1>1. acq.state = "ECHO" /\ (todo = <<>> \/ InStep(todo)) /\ todo \in Seq(Byte)
  BY DEF RInv, IInv, Exchange
<1>2. ToHandler("ACQ_PARMS", busIb) = <<>>
  BY DEF ToHandler
<1>3. acq' = acq
  BY <1>1, <1>2 DEF BusClk, AcqEdge, EchoEdge, MaskEdge, ProcEdge, ValidEdge, TrigEdge
<1>4. IdleEdge(busIb)
  BY DEF BusClk, MuxEdge, CmdEdge, FwdEdge, WaiEdge, ErrEdge
<1>5. ~Replying /\ \A h : muxOb(h) = <<>> /\ muxRdyIb(h)
  BY DEF Replying, muxOb, muxRdyIb
<1>6. MuxTypeOK /\ AcqTypeOK /\ frame \in Seq(Byte) /\ BeforeOK
  BY DEF RInv, IInv, TypeOK
<1>7. CASE busIb = <<>>
  <2>1. todo' = todo /\ frame' = frame /\ answer' = answer /\ before' = before
    BY <1>5, <1>7 DEF BusClk
  <2>2. mux' = [mux EXCEPT !.obLstSeen = FALSE]
    BY <1>4, <1>7 DEF IdleEdge
  <2>3. mux'.state = "IDLE"
    BY <1>6, <2>2 DEF MuxTypeOK
  <2>4. Exchange'
    BY <1>1, <1>3, <2>1, <2>3 DEF Exchange, InStep
  <2> QED
    BY <1>6, <2>1, <2>4 DEF Kept, BeforeOK, Completed
<1>8. CASE busIb # <<>>
  <2> DEFINE d == Head(todo)
  <2>1. /\ Len(todo) \in 2 .. 1 + MASK_LEN + CMD_LEN /\ Cmd[todo[1]] = "ACQ_PARMS" /\ d = todo[1]
        /\ d \in Byte /\ Tail(todo) \in Seq(Byte) /\ Len(Tail(todo)) = Len(todo) - 1
        /\ busIb[1] = [dat |-> d, lst |-> FALSE]
    <3>1. /\ todo # <<>> /\ d \in Byte /\ Tail(todo) \in Seq(Byte) /\ Len(Tail(todo)) = Len(todo) - 1
          /\ busIb = <<[dat |-> d, lst |-> Len(todo) = 1]>>
      BY <1>1, <1>8, OfferedBeat
    <3>2. Len(todo) \in 2 .. 1 + MASK_LEN + CMD_LEN /\ Cmd[todo[1]] = "ACQ_PARMS"
      BY <1>1, <3>1 DEF InStep
    <3>3. MASK_LEN \in Nat /\ CMD_LEN = 2
      BY AcqAssumption DEF CMD_LEN
    <3> DEFINE n == Len(todo)
    <3>4. (n = 1) = FALSE
      <4> HIDE DEF n
      <4>1. n \in 2 .. 1 + MASK_LEN + CMD_LEN
        BY <3>2 DEF n
      <4>2. n # 1
        BY <3>3, <4>1
      <4> QED
        BY <4>2
    <3>5. d = todo[1]
      BY <1>1, <3>1
    <3> HIDE DEF busIb, d
    <3>6. busIb[1] = [dat |-> d, lst |-> FALSE]
      BY <3>1, <3>4
    <3> QED
      BY <3>1, <3>2, <3>5, <3>6
  <2>2. /\ todo' = Tail(todo) /\ frame' = <<busIb[1].dat>> /\ answer' = <<>>
        /\ before' = [mask |-> acq.mask, p |-> acq.p]
    BY <1>5, <1>8 DEF BusClk
  <2>3. mux' = [state |-> "CMD", cmd |-> [dat |-> d, lst |-> FALSE], obLstSeen |-> FALSE]
    BY <1>4, <1>8, <2>1 DEF IdleEdge
  <2>4. mux'.state = "CMD" /\ mux'.cmd.dat = d /\ mux'.cmd.lst = FALSE /\ mux'.obLstSeen = FALSE
    BY <2>3
  <2>5. frame' = <<d>> /\ frame' \in Seq(Byte) /\ Len(frame') = 1 /\ frame'[1] = d
    BY <2>1, <2>2
  <2>6. Sending'
    <3>1. todo' # <<>> /\ Len(frame') + Len(todo') = Len(todo)
      <4>1. MASK_LEN \in Nat /\ CMD_LEN = 2
        BY AcqAssumption DEF CMD_LEN
      <4> DEFINE n == Len(todo)
                 m == Len(todo')
      <4>2. n \in 2 .. 1 + MASK_LEN + CMD_LEN /\ m = n - 1 /\ todo' \in Seq(Byte)
        BY <2>1, <2>2
      <4>3. m # 0 /\ 1 + m = n
        <5> HIDE DEF n, m
        <5> QED
          BY <4>1, <4>2
      <4> QED
        BY <2>5, <4>2, <4>3
    <3> QED
      BY <2>1, <2>5, <3>1 DEF Sending
  <2>7. Commanded'
    BY <1>1, <1>3, <2>2, <2>4, <2>5, <2>6 DEF Commanded
  <2>8. sel' = "ACQ_PARMS"
    BY <2>1, <2>4 DEF sel, Handler
  <2>9. Exchange'
    BY <2>4, <2>7, <2>8 DEF Exchange
  <2>10. BeforeOK'
    BY <1>6, <2>2 DEF BeforeOK, AcqTypeOK
  <2> QED
    BY <2>2, <2>5, <2>9, <2>10 DEF Kept, Completed
<1> QED
  BY <1>7, <1>8

LEMMA CmdReplies ==
  ASSUME IInv, RInv, NEW offer \in BOOLEAN, NEW rdyOb \in BOOLEAN, BusClk(offer, rdyOb),
         mux.state = "CMD"
  PROVE  Kept
<1> DEFINE busIb == Offered(offer)
           cmd == mux.cmd
<1>1. /\ Commanded /\ ~mux.obLstSeen /\ sel = "ACQ_PARMS" /\ acq.state = "ECHO"
      /\ cmd.lst = FALSE /\ cmd = [dat |-> cmd.dat, lst |-> FALSE] /\ cmd.dat \in Byte
  BY DEF RInv, IInv, Exchange, Commanded, TypeOK, MuxTypeOK, Beat
<1>2. MuxTypeOK /\ AcqTypeOK /\ frame \in Seq(Byte) /\ BeforeOK
  BY DEF RInv, IInv, TypeOK
<1>3. ToHandler("ACQ_PARMS", busIb) = <<cmd>> /\ HandlerRdyOb("ACQ_PARMS", rdyOb) = rdyOb
  BY <1>1 DEF ToHandler, HandlerRdyOb, Replying
<1>4. AcqOb(<<cmd>>, parmsAck) = <<cmd>> /\ muxOb(<<cmd>>) = <<cmd>> /\ muxRdyIb(rdyOb) = FALSE
  BY <1>1 DEF AcqOb, muxOb, muxRdyIb, Replying, selOK
<1>5. /\ todo' = todo /\ frame' = frame /\ before' = before
      /\ answer' = IF rdyOb THEN Append(answer, cmd) ELSE answer
  BY <1>3, <1>4 DEF BusClk, AcqRdyIb
<1>6. acq' = IF rdyOb THEN [acq EXCEPT !.state = "MASK", !.count = 0] ELSE acq
  <2>1. AcqEdge(<<cmd>>, rdyOb, parmsAck)
    BY <1>3 DEF BusClk
  <2>2. EchoEdge(IF rdyOb THEN <<cmd>> ELSE <<>>)
    BY <1>1, <2>1 DEF AcqEdge, EchoEdge, MaskEdge, ProcEdge, ValidEdge, TrigEdge
  <2> QED
    BY <2>2 DEF EchoEdge
<1>7. CmdEdge(rdyOb, <<cmd>>, rdyOb)
  BY <1>3, <1>4 DEF BusClk, MuxEdge, IdleEdge, FwdEdge, WaiEdge, ErrEdge, AcqRdyIb
<1>8. mux' = [mux EXCEPT !.obLstSeen = FALSE, !.state = IF rdyOb THEN "FWD" ELSE "CMD"]
  BY <1>1, <1>7 DEF CmdEdge, LstSeen, selOK
<1>9. mux'.state = (IF rdyOb THEN "FWD" ELSE "CMD") /\ mux'.obLstSeen = FALSE /\ mux'.cmd = cmd
  BY <1>2, <1>8 DEF MuxTypeOK
<1>10. sel' = "ACQ_PARMS"
  BY <1>1, <1>9 DEF sel
<1>11. Sending /\ Sending' /\ frame = <<cmd.dat>> /\ Len(frame) = 1 /\ answer = <<>>
  BY <1>1, <1>5 DEF Commanded, Sending
<1>12. CASE ~rdyOb
  <2>1. Commanded'
    BY <1>1, <1>5, <1>6, <1>9, <1>11, <1>12 DEF Commanded
  <2>2. Exchange'
    BY <1>9, <1>10, <1>12, <2>1 DEF Exchange
  <2> QED
    BY <1>2, <1>5, <1>12, <2>2 DEF Kept, BeforeOK, Completed
<1>13. CASE rdyOb
  <2>1. MASK_LEN \in Nat \ {0} /\ CMD_LEN = 2
    BY AcqAssumption DEF CMD_LEN
  <2>2. answer' = <<cmd>> /\ answer'[Len(answer')] = cmd
    BY <1>5, <1>11, <1>13
  <2>3. answer' = Begun(frame, 1)
    <3>1. Old(frame, 1) = cmd.dat
      BY <1>11 DEF Old
    <3>2. Begun(frame, 0) = <<>>
      BY DEF Begun
    <3>3. Append(Begun(frame, 0), [lst |-> FALSE, dat |-> Old(frame, 0 + 1)]) = Begun(frame, 0 + 1)
      BY <1>2, BegunGrows
    <3>4. 0 + 1 = 1
      OBVIOUS
    <3>5. Append(<<>>, [lst |-> FALSE, dat |-> Old(frame, 1)]) = Begun(frame, 1)
      BY <3>2, <3>3, <3>4, Zenon
    <3>6. cmd = [lst |-> FALSE, dat |-> Old(frame, 1)]
      BY <1>1, <3>1
    <3> QED
      BY <1>5, <1>11, <1>13, <3>5, <3>6, Zenon
  <2>4. /\ acq'.state = "MASK" /\ acq'.count = 0 /\ acq'.mask = acq.mask /\ acq'.p = acq.p
    BY <1>2, <1>6, <1>13 DEF AcqTypeOK
  <2>5. /\ before.mask = acq.mask /\ before.p = acq.p
        /\ acq.mask \in [0 .. MASK_LEN - 1 -> Byte] /\ acq.p \in [0 .. CMD_LEN - 1 -> Byte]
    BY <1>1, <1>2 DEF Commanded, AcqTypeOK, ParmRec
  <2>6. MaskOf(frame) = acq.mask
    <3>1. \A i \in 0 .. MASK_LEN - 1 : MaskOf(frame)[i] = acq.mask[i]
      BY <1>11, <2>5 DEF MaskOf
    <3>2. MaskOf(frame) = [i \in 0 .. MASK_LEN - 1 |-> MaskOf(frame)[i]]
      BY DEF MaskOf
    <3> QED
      BY <2>5, <3>1, <3>2
  <2>7. SetBy(frame) = acq.p
    <3>1. Values(frame) <= 0 /\ Values(frame) \in Int
      BY <1>11, <2>1 DEF Values
    <3>2. \A i \in 0 .. CMD_LEN - 1 : SetBy(frame)[i] = acq.p[i]
      BY <2>1, <2>5, <3>1 DEF SetBy
    <3>3. SetBy(frame) = [i \in 0 .. CMD_LEN - 1 |-> SetBy(frame)[i]]
      BY DEF SetBy
    <3> QED
      BY <2>5, <3>2, <3>3
  <2>8. /\ MaskOf(frame)' = MaskOf(frame) /\ SetBy(frame)' = SetBy(frame)
        /\ Begun(frame, Len(frame))' = Begun(frame, 1)
    BY <1>5, <1>11 DEF MaskOf, SetBy, Values, Begun, Old
  <2>9. Echoed'
    BY <1>5, <1>11, <2>1, <2>3, <2>4, <2>6, <2>7, <2>8 DEF Echoed
  <2>10. Exchange'
    BY <1>9, <1>10, <1>13, <2>9 DEF Exchange
  <2> QED
    BY <1>1, <1>2, <1>5, <2>2, <2>10 DEF Kept, BeforeOK, Completed
<1> QED
  BY <1>12, <1>13

\* A byte of a request is taken and the handler is not done with it: what both
\* sides have then.
LEMMA Passed ==
  ASSUME IInv, RInv, NEW offer \in BOOLEAN, NEW rdyOb \in BOOLEAN, BusClk(offer, rdyOb),
         mux.state = "FWD"
  PROVE  LET busIb == Offered(offer)
             into  == IF rdyOb THEN busIb ELSE <<>>
             ob    == AcqOb(busIb, parmsAck)
             end   == into # <<>> /\ into[1].lst
             seen  == LstSeen(ob, rdyOb)
         IN  /\ Moved(busIb, into, IF rdyOb THEN ob ELSE <<>>)
             /\ AcqEdge(busIb, rdyOb, parmsAck)
             /\ mux'.state = (IF ~end THEN "FWD" ELSE IF seen THEN "IDLE" ELSE "WAI")
             /\ mux'.obLstSeen = seen /\ sel' = "ACQ_PARMS"
<1> DEFINE busIb == Offered(offer)
           into  == IF rdyOb THEN busIb ELSE <<>>
           ob    == AcqOb(busIb, parmsAck)
           end   == into # <<>> /\ into[1].lst
           seen  == LstSeen(ob, rdyOb)
           s     == IF ~end THEN "FWD" ELSE IF seen THEN "IDLE" ELSE "WAI"
           last  == rdyOb /\ busIb # <<>> /\ busIb[1].lst
<1>1. MuxTypeOK /\ mux.obLstSeen = FALSE /\ sel = "ACQ_PARMS"
  BY DEF RInv, IInv, Exchange, TypeOK, MuxTypeOK
<1>2. ToHandler("ACQ_PARMS", busIb) = busIb /\ HandlerRdyOb("ACQ_PARMS", rdyOb) = rdyOb
  BY <1>1 DEF ToHandler, HandlerRdyOb, Replying
<1>3. muxOb(ob) = ob /\ muxRdyIb(rdyOb) = rdyOb
  BY <1>1 DEF muxOb, muxRdyIb, Replying, selOK
<1> HIDE DEF busIb
<1>4. /\ FwdEdge(busIb, rdyOb, ob, rdyOb) /\ AcqEdge(busIb, rdyOb, parmsAck)
      /\ Moved(busIb, into, IF rdyOb THEN ob ELSE <<>>)
  BY <1>2, <1>3
     DEF BusClk, AcqRdyIb, busIb, Moved, MuxEdge, IdleEdge, CmdEdge, WaiEdge, ErrEdge
<1>5. mux' = [mux EXCEPT !.obLstSeen = seen, !.state = s]
  <2>1. last <=> end
    OBVIOUS
  <2>2. mux' = [mux EXCEPT !.obLstSeen = mux.obLstSeen \/ seen,
                           !.state = IF ~last THEN @ ELSE IF mux.obLstSeen \/ seen THEN "IDLE" ELSE "WAI"]
    BY <1>4 DEF FwdEdge
  <2>3. seen \in BOOLEAN
    BY DEF LstSeen
  <2> HIDE DEF seen, end, last
  <2>4. (mux.obLstSeen \/ seen) = seen
    BY <1>1, <2>3
  <2> QED
    BY <1>1, <2>1, <2>2, <2>4
<1>6. mux'.state = s /\ mux'.obLstSeen = seen /\ mux'.cmd = mux.cmd
  BY <1>1, <1>5 DEF MuxTypeOK
<1>7. sel' = "ACQ_PARMS"
  BY <1>1, <1>6 DEF sel
<1> QED
  BY <1>4, <1>6, <1>7 DEF busIb

LEMMA FwdReplies ==
  ASSUME IInv, RInv, NEW offer \in BOOLEAN, NEW rdyOb \in BOOLEAN, BusClk(offer, rdyOb),
         mux.state = "FWD"
  PROVE  Kept
<1> DEFINE busIb == Offered(offer)
           into  == IF rdyOb THEN busIb ELSE <<>>
           ob    == AcqOb(busIb, parmsAck)
           out   == IF rdyOb THEN ob ELSE <<>>
           end   == into # <<>> /\ into[1].lst
           seen  == LstSeen(ob, rdyOb)
           n     == Len(frame)
<1>1. /\ Moved(busIb, into, out) /\ AcqEdge(busIb, rdyOb, parmsAck)
      /\ mux'.state = (IF ~end THEN "FWD" ELSE IF seen THEN "IDLE" ELSE "WAI")
      /\ mux'.obLstSeen = seen /\ sel' = "ACQ_PARMS"
  BY Passed
<1>2. Echoed /\ Sending /\ frame \in Seq(Byte) /\ BeforeOK /\ AcqTypeOK /\ todo \in Seq(Byte)
  BY DEF RInv, IInv, Exchange, Echoed, TypeOK
<1>3. MASK_LEN \in Nat \ {0} /\ CMD_LEN = 2 /\ n \in Nat
  BY <1>2, AcqAssumption DEF CMD_LEN
<1>4. /\ answer = Begun(frame, n) /\ acq.mask = MaskOf(frame) /\ acq.p = SetBy(frame)
      /\ n <= MASK_LEN => acq.state = "MASK" /\ acq.count = n - 1
      /\ n > MASK_LEN => acq.state = "PROC" /\ acq.count = Values(frame)
  BY <1>2 DEF Echoed
<1>5. Values(frame) = n - 1 - MASK_LEN
  BY DEF Values
<1>6. CASE into = <<>>
  <2>1. acq' = acq
    BY <1>1, <1>3, <1>4, <1>6 DEF AcqEdge, EchoEdge, MaskEdge, ProcEdge, ValidEdge, TrigEdge
  <2>2. out = <<>>
    BY <1>3, <1>4, <1>6 DEF AcqOb
  <2>3. todo' = todo /\ frame' = frame /\ answer' = answer /\ before' = before
    BY <1>1, <1>6, <2>2 DEF Moved
  <2>4. seen = FALSE
    BY <2>2 DEF LstSeen
  <2>5. Echoed'
    BY <1>2, <2>1, <2>3 DEF Echoed, Sending, Begun, Old, MaskOf, SetBy, Values
  <2>6. Exchange'
    BY <1>1, <1>6, <2>4, <2>5 DEF Exchange
  <2> QED
    BY <1>2, <2>3, <2>6 DEF Kept, BeforeOK, Completed
<1>7. ASSUME into # <<>> PROVE Kept
  <2> DEFINE d == Head(todo)
             l == Len(todo) = 1
             g == Append(frame, d)
             beat == [dat |-> d, lst |-> l]
  <2>1. /\ rdyOb /\ busIb = <<beat>> /\ into = <<beat>> /\ d \in Byte /\ todo # <<>>
        /\ Tail(todo) \in Seq(Byte) /\ Len(Tail(todo)) = Len(todo) - 1 /\ Len(todo) \in Nat \ {0}
    BY <1>2, <1>7, OfferedBeat
  <2>2. frame' = g /\ todo' = Tail(todo) /\ before' = before
        /\ answer' = IF ob = <<>> THEN answer ELSE Append(answer, ob[1])
    BY <1>1, <2>1 DEF Moved
  <2>3. n # 0 /\ n + Len(todo) \in 2 .. 1 + MASK_LEN + CMD_LEN /\ Cmd[frame[1]] = "ACQ_PARMS"
    BY <1>2, <1>3, <1>4 DEF Sending
  <2>4. n + 1 + Len(Tail(todo)) \in 2 .. 1 + MASK_LEN + CMD_LEN /\ n + 1 \in Nat \ {0}
    BY <1>3, <2>1, <2>3
  <2>5. /\ g \in Seq(Byte) /\ g # <<>> /\ Len(g) = n + 1 /\ g[1] = frame[1] /\ Values(g) = Values(frame) + 1
        /\ n <= MASK_LEN => /\ MaskOf(g) = [MaskOf(frame) EXCEPT ![n - 1] = d]
                            /\ SetBy(frame) = before.p /\ SetBy(g) = before.p
        /\ n > MASK_LEN => MaskOf(g) = MaskOf(frame)
        /\ Values(frame) \in 0 .. CMD_LEN - 1 =>
             SetBy(g) = [SetBy(frame) EXCEPT
                           ![Values(frame)] = IF Sets(MaskOf(frame), Values(frame)) THEN d ELSE @]
    <3>1. frame \in Seq(Byte) /\ frame # <<>> /\ d \in Byte /\ BeforeOK
      BY <1>2, <2>1, <2>3
    <3>2. /\ g \in Seq(Byte) /\ Len(g) = n + 1 /\ g[1] = frame[1] /\ Values(g) = Values(frame) + 1
          /\ n <= MASK_LEN => /\ MaskOf(g) = [MaskOf(frame) EXCEPT ![n - 1] = d]
                              /\ SetBy(frame) = before.p /\ SetBy(g) = before.p
          /\ n > MASK_LEN => MaskOf(g) = MaskOf(frame)
          /\ Values(frame) \in 0 .. CMD_LEN - 1 =>
               SetBy(g) = [SetBy(frame) EXCEPT
                             ![Values(frame)] = IF Sets(MaskOf(frame), Values(frame)) THEN d ELSE @]
      BY <3>1, FrameGrows, Zenon
    <3>3. g # <<>>
      BY <3>1
    <3> QED
      BY <3>2, <3>3
  <2>6. /\ BeforeOK' /\ MaskOf(frame)' = MaskOf(g) /\ SetBy(frame)' = SetBy(g)
        /\ Values(frame)' = Values(g) /\ Answer(frame') = Answer(g)
        /\ \A k \in Nat : Begun(frame, k)' = Begun(g, k) /\ Begun(g, k) = Begun(frame, k)
    <3>1. BeforeOK'
      BY <1>2, <2>2 DEF BeforeOK
    <3>2. Values(frame)' = Values(g)
      BY <2>2 DEF Values
    <3> HIDE DEF g
    <3>3. MaskOf(frame)' = MaskOf(g) /\ SetBy(frame)' = SetBy(g)
      BY <2>2 DEF MaskOf, SetBy, Values
    <3>4. ASSUME NEW k \in Nat PROVE Begun(frame, k)' = Begun(g, k) /\ Begun(g, k) = Begun(frame, k)
      <4>1. Begun(frame, k)' = Begun(g, k)
        BY <2>2 DEF Begun, Old
      <4>2. \A i \in 1 .. k : Old(g, i) = Old(frame, i)
        BY <2>5 DEF Old
      <4> QED
        BY <4>1, <4>2 DEF Begun
    <3> QED
      BY <2>2, <3>1, <3>2, <3>3, <3>4
  <2>7. ~l => Sending'
    BY <2>1, <2>2, <2>3, <2>4, <2>5 DEF Sending
  <2>8. l => todo' = <<>>
    BY <2>1, <2>2
  <2>9. acq.state \in {"MASK", "PROC"}
    BY <1>3, <1>4
  <2> HIDE DEF g, n
  <2>10. CASE n <= MASK_LEN
    <3>1. acq.state = "MASK" /\ acq.count = n - 1 /\ n - 1 \in 0 .. MASK_LEN - 1
      BY <1>3, <1>4, <2>3, <2>10
    <3> DEFINE x == [dat |-> acq.mask[n - 1], lst |-> l]
    <3>2. ob = <<x>> /\ out = <<x>>
      BY <2>1, <3>1 DEF AcqOb
    <3>3. end = l /\ seen = l
      <4>1. into[1] = beat /\ into # <<>> /\ ob[1] = x /\ ob # <<>> /\ rdyOb = TRUE
        BY <2>1, <3>2
      <4>2. beat.lst = l /\ x.lst = l /\ l \in BOOLEAN
        OBVIOUS
      <4> HIDE DEF into, ob, beat, x, l
      <4> QED
        BY <4>1, <4>2 DEF LstSeen
    <3>4. acq.mask[n - 1] = Old(frame, n + 1)
      <4>1. acq.mask[n - 1] = before.mask[n - 1]
        BY <1>4, <3>1 DEF MaskOf, n
      <4>2. Old(frame, n + 1) = before.mask[n + 1 - 2] /\ n + 1 - 2 = n - 1
        BY <1>3, <2>3, <2>10 DEF Old
      <4> QED
        BY <4>1, <4>2
    <3>5. MaskEdge(<<beat>>)
      BY <1>1, <2>1, <3>1 DEF AcqEdge, EchoEdge, ProcEdge, ValidEdge, TrigEdge
    <3> DEFINE full == n - 1 = MASK_LEN - 1
    <3>6. acq' = [acq EXCEPT !.mask[n - 1] = d, !.count = IF full THEN 0 ELSE n - 1 + 1,
                             !.state = IF l THEN "ECHO" ELSE IF full THEN "PROC" ELSE "MASK"]
      BY <3>1, <3>5 DEF MaskEdge
    <3>7. /\ acq'.mask = [acq.mask EXCEPT ![n - 1] = d] /\ acq'.p = acq.p
          /\ acq'.count = (IF full THEN 0 ELSE n - 1 + 1)
          /\ acq'.state = (IF l THEN "ECHO" ELSE IF full THEN "PROC" ELSE "MASK")
      BY <1>2, <3>6 DEF AcqTypeOK
    <3>8. acq'.mask = MaskOf(g) /\ acq'.p = SetBy(g) /\ acq'.p = before.p
      BY <1>4, <2>5, <2>10, <3>7
    <3>9. CASE ~l
      <4>1. answer' = Begun(g, n + 1)
        <5>1. x = [lst |-> FALSE, dat |-> Old(frame, n + 1)]
          BY <3>4, <3>9
        <5>2. answer' = Append(Begun(frame, n), x)
          BY <1>4, <2>2, <3>2
        <5>3. Append(Begun(frame, n), [lst |-> FALSE, dat |-> Old(frame, n + 1)]) = Begun(frame, n + 1)
          BY <1>2, <1>3, BegunGrows
        <5> QED
          BY <2>4, <2>6, <5>1, <5>2, <5>3
      <4>2. /\ n + 1 <= MASK_LEN => acq'.state = "MASK" /\ acq'.count = n + 1 - 1
            /\ n + 1 > MASK_LEN => acq'.state = "PROC" /\ acq'.count = Values(g)
        BY <1>3, <1>5, <2>5, <2>10, <3>7, <3>9
      <4>3. Echoed'
        <5>1. Len(frame') = n + 1 /\ Len(frame)' = n + 1
          BY <2>2, <2>5
        <5>2. Begun(frame, Len(frame))' = Begun(g, n + 1)
          BY <2>2, <5>1 DEF Begun, Old
        <5>3. answer' = Begun(frame, Len(frame))' /\ acq'.mask = MaskOf(frame)' /\ acq'.p = SetBy(frame)'
          BY <2>6, <3>8, <4>1, <5>2
        <5>4. /\ Len(frame)' <= MASK_LEN => acq'.state = "MASK" /\ acq'.count = Len(frame)' - 1
              /\ Len(frame)' > MASK_LEN => acq'.state = "PROC" /\ acq'.count = Values(frame)'
          <6> DEFINE m == Len(frame)'
                     u == Values(frame)'
          <6>1. m = n + 1 /\ u = Values(g)
            BY <2>6, <5>1
          <6> HIDE DEF m, u
          <6>2. /\ m <= MASK_LEN => acq'.state = "MASK" /\ acq'.count = m - 1
                /\ m > MASK_LEN => acq'.state = "PROC" /\ acq'.count = u
            BY <1>3, <2>4, <4>2, <6>1
          <6> QED
            BY <6>2 DEF m, u
        <5> QED
          BY <2>7, <3>9, <5>3, <5>4 DEF Echoed
      <4>4. Exchange'
        BY <1>1, <3>3, <3>9, <4>3 DEF Exchange
      <4>5. answer'[Len(answer')].lst = FALSE
        <5>1. Len(answer') = n + 1
          BY <2>4, <4>1 DEF Begun
        <5> QED
          BY <2>4, <4>1, <5>1 DEF Begun
      <4> QED
        BY <2>2, <2>5, <2>6, <4>4, <4>5 DEF Kept, Completed
    <3>10. CASE l
      <4>1. Values(g) <= 0 /\ Values(g) \in Int
        BY <1>3, <1>5, <2>5, <2>10
      <4>2. answer' = Answer(g)
        <5>1. x = [lst |-> TRUE, dat |-> Old(g, Len(g))]
          BY <1>3, <2>4, <2>5, <3>4, <3>10 DEF Old
        <5>2. answer' = Append(Begun(g, Len(g) - 1), x)
          <6>1. Len(g) - 1 = n /\ Begun(g, n) = Begun(frame, n)
            BY <1>3, <2>5, <2>6
          <6> QED
            BY <1>4, <2>2, <3>2, <6>1
        <5>3. Append(Begun(g, Len(g) - 1), [lst |-> TRUE, dat |-> Old(g, Len(g))]) = Answer(g)
          BY <2>5, <4>1, BegunEnds
        <5> QED
          BY <5>1, <5>2, <5>3
      <4>3. ParmsOf(g) = before.p
        BY <4>1 DEF ParmsOf
      <4>4. Exchange'
        BY <1>1, <2>8, <3>3, <3>7, <3>10 DEF Exchange
      <4>5. Answer(frame') = Answer(g) /\ ParmsOf(frame') = ParmsOf(g) /\ Values(frame') = Values(g)
        BY <2>2
      <4> QED
        BY <2>2, <2>5, <2>6, <3>8, <4>1, <4>2, <4>3, <4>4, <4>5 DEF Kept, Completed
    <3> QED
      BY <3>9, <3>10
  <2>11. CASE n > MASK_LEN
    <3> DEFINE v == Values(frame)
               x == [dat |-> acq.p[v], lst |-> l]
    <3>1. acq.state = "PROC" /\ acq.count = v /\ v \in 0 .. CMD_LEN - 1 /\ (v = CMD_LEN - 1 => l)
      <4> DEFINE t == Len(todo)
      <4>1. v = n - 1 - MASK_LEN /\ t \in Nat \ {0} /\ n + t \in 2 .. 1 + MASK_LEN + CMD_LEN
        BY <1>5, <2>1, <2>3
      <4> HIDE DEF v, t
      <4>2. v \in 0 .. 1 /\ (v = 1 => t = 1)
        BY <1>3, <2>11, <4>1
      <4> QED
        BY <1>3, <1>4, <2>11, <4>2 DEF v, t
    <3>2. Last(busIb) = l
      <4>1. busIb[1].lst = l /\ l \in BOOLEAN
        BY <2>1
      <4> HIDE DEF l, busIb
      <4> QED
        BY <3>1, <4>1 DEF Last
    <3>3. acq.p[v] = before.p[v] /\ Old(frame, n + 1) = before.p[v]
      <4>1. acq.p[v] = before.p[v]
        BY <1>4, <3>1 DEF SetBy
      <4>2. n + 1 - MASK_LEN - 2 = v
        BY <1>3, <1>5
      <4> QED
        BY <1>3, <2>11, <4>1, <4>2 DEF Old
    <3>4. ProcEdge(<<beat>>)
      BY <1>1, <2>1, <3>1 DEF AcqEdge, EchoEdge, MaskEdge, ValidEdge, TrigEdge
    <3> DEFINE w == IF Sets(acq.mask, v) THEN d ELSE acq.p[v]
               none == Get(acq.mask)
    <3>5. acq' = [acq EXCEPT !.p[v] = w, !.state = IF ~l THEN "PROC" ELSE IF none THEN "ECHO" ELSE "VALID",
                             !.count = IF l THEN v ELSE v + 1]
      BY <2>1, <3>1, <3>2, <3>4 DEF ProcEdge
    <3>6. /\ acq'.mask = acq.mask /\ acq'.p = [acq.p EXCEPT ![v] = w]
          /\ acq'.count = (IF l THEN v ELSE v + 1)
          /\ acq'.state = (IF ~l THEN "PROC" ELSE IF none THEN "ECHO" ELSE "VALID")
      BY <1>2, <3>5 DEF AcqTypeOK
    <3>7. acq'.mask = MaskOf(g) /\ acq'.p = SetBy(g) /\ Values(g) = v + 1
      BY <1>4, <2>5, <2>11, <3>1, <3>6
    <3>8. ob = (IF l /\ ~none THEN <<>> ELSE <<x>>)
      <4>1. busIb # <<>> /\ acq.state = "PROC"
        BY <2>1, <3>1
      <4> HIDE DEF busIb, l
      <4>2. ob = IF Last(busIb) /\ ~none THEN <<>> ELSE <<[dat |-> acq.p[v], lst |-> Last(busIb)]>>
        BY <3>1, <4>1 DEF AcqOb
      <4> QED
        BY <3>2, <4>2
    <3>9. end = l /\ (l /\ none => seen) /\ (~l \/ ~none => ~seen)
      <4>1. into[1] = beat /\ into # <<>> /\ (ob = <<>> \/ ob[1] = x) /\ rdyOb = TRUE
        BY <2>1, <3>8
      <4>2. beat.lst = l /\ x.lst = l /\ l \in BOOLEAN
        OBVIOUS
      <4>3. <<x>> # <<>>
        OBVIOUS
      <4> HIDE DEF into, ob, beat, x, l, none
      <4> QED
        BY <3>8, <4>1, <4>2, <4>3 DEF LstSeen
    <3>10. CASE ~l
      <4>1. answer' = Begun(g, n + 1)
        <5>1. x = [lst |-> FALSE, dat |-> Old(frame, n + 1)]
          BY <3>3, <3>10
        <5>2. answer' = Append(Begun(frame, n), x)
          BY <1>4, <2>2, <3>8, <3>10
        <5>3. Append(Begun(frame, n), [lst |-> FALSE, dat |-> Old(frame, n + 1)]) = Begun(frame, n + 1)
          BY <1>2, <1>3, BegunGrows
        <5> QED
          BY <2>4, <2>6, <5>1, <5>2, <5>3
      <4>2. Len(frame)' = n + 1 /\ n + 1 > MASK_LEN
        BY <1>3, <2>2, <2>5, <2>11
      <4>3. Echoed'
        <5>1. Begun(frame, Len(frame))' = Begun(g, n + 1)
          BY <2>2, <4>2 DEF Begun, Old
        <5>2. answer' = Begun(frame, Len(frame))' /\ acq'.mask = MaskOf(frame)' /\ acq'.p = SetBy(frame)'
          BY <2>6, <3>7, <4>1, <5>1
        <5>3. acq'.state = "PROC" /\ acq'.count = Values(frame)' /\ ~(Len(frame)' <= MASK_LEN)
          BY <1>3, <2>4, <2>6, <3>6, <3>7, <3>10, <4>2
        <5> QED
          BY <2>7, <3>10, <5>2, <5>3 DEF Echoed
      <4>4. Exchange'
        <5>1. mux'.state = "FWD" /\ ~mux'.obLstSeen
          BY <1>1, <3>9, <3>10
        <5> QED
          BY <1>1, <4>3, <5>1 DEF Exchange
      <4>5. answer'[Len(answer')].lst = FALSE
        <5>1. Len(answer') = n + 1
          BY <2>4, <4>1 DEF Begun
        <5> QED
          BY <2>4, <4>1, <5>1 DEF Begun
      <4> QED
        BY <2>2, <2>5, <2>6, <4>4, <4>5 DEF Kept, Completed
    <3>11. CASE l /\ none
      <4>1. before.p \in [0 .. CMD_LEN - 1 -> Byte] /\ acq.mask \in [0 .. MASK_LEN - 1 -> Byte]
        BY <1>2 DEF BeforeOK, ParmRec, AcqTypeOK
      <4>2. acq.p = before.p
        <5>1. \A i \in 0 .. CMD_LEN - 1 : ~Sets(acq.mask, i)
          BY <3>11, <4>1, NothingSet
        <5>2. \A i \in 0 .. CMD_LEN - 1 : SetBy(frame)[i] = before.p[i]
          BY <1>4, <5>1 DEF SetBy
        <5>3. SetBy(frame) = [i \in 0 .. CMD_LEN - 1 |-> SetBy(frame)[i]]
          BY DEF SetBy
        <5> QED
          BY <1>4, <4>1, <5>2, <5>3
      <4>3. acq'.p = before.p
        <5>1. w = before.p[v]
          BY <3>1, <3>3, <3>11, <4>1, NothingSet
        <5> QED
          BY <3>1, <3>6, <4>1, <4>2, <5>1
      <4>4. ParmsOf(g) = before.p
        BY <1>4, <2>5, <2>11, <3>11 DEF ParmsOf
      <4>5. answer' = Answer(g)
        <5>1. Values(g) > 0 /\ Values(g) - 1 = v
          BY <1>3, <3>1, <3>7
        <5>2. x = [lst |-> TRUE, dat |-> ParmsOf(g)[Values(g) - 1]]
          BY <3>3, <3>11, <4>4, <5>1
        <5>3. answer' = Append(Begun(g, Len(g) - 1), x)
          <6>1. Len(g) - 1 = n /\ Begun(g, n) = Begun(frame, n)
            BY <1>3, <2>5, <2>6
          <6> QED
            BY <1>4, <2>2, <3>8, <3>11, <6>1
        <5>4. Append(Begun(g, Len(g) - 1), [lst |-> TRUE, dat |-> ParmsOf(g)[Values(g) - 1]]) = Answer(g)
          BY <2>5, <5>1, BegunEnds
        <5> QED
          BY <5>2, <5>3, <5>4
      <4>6. Exchange'
        <5>1. mux'.state = "IDLE" /\ acq'.state = "ECHO"
          BY <1>1, <3>6, <3>9, <3>11
        <5> QED
          BY <2>8, <3>11, <5>1 DEF Exchange
      <4>7. Get(MaskOf(frame'))
        <5>1. MaskOf(frame') = acq.mask
          BY <1>4, <2>2, <2>5, <2>11
        <5> QED
          BY <3>11, <5>1
      <4> QED
        BY <2>2, <2>5, <2>6, <4>3, <4>4, <4>5, <4>6, <4>7 DEF Kept, Completed
    <3>12. CASE l /\ ~none
      <4>1. answer' = answer
        BY <2>2, <3>8, <3>12
      <4>2. mux'.state = "WAI" /\ acq'.state = "VALID" /\ acq'.count = v
        BY <1>1, <3>6, <3>9, <3>12
      <4>3. answer' = Begun(frame, Len(frame) - 1)'
        <5>1. Len(frame)' - 1 = n
          BY <1>3, <2>2, <2>5
        <5>2. Begun(frame, Len(frame) - 1)' = Begun(g, n)
          BY <2>2, <5>1 DEF Begun, Old
        <5> QED
          BY <1>3, <1>4, <2>6, <4>1, <5>2
      <4>4. Values(frame)' \in 1 .. CMD_LEN /\ v = Values(frame)' - 1
        BY <1>3, <2>6, <3>1, <3>7
      <4>5. ~Get(MaskOf(frame)')
        BY <1>4, <2>5, <2>6, <2>11, <3>12
      <4>6. HandingOver'
        <5>1. acq'.p = SetBy(frame)'
          BY <2>6, <3>7
        <5>2. ~Get(MaskOf(frame))'
          BY <4>5 DEF Get
        <5> QED
          BY <4>2, <4>3, <4>4, <5>1, <5>2 DEF HandingOver
      <4>7. Exchange'
        BY <1>1, <2>8, <3>12, <4>2, <4>6 DEF Exchange
      <4> QED
        BY <2>2, <2>5, <2>6, <4>1, <4>7 DEF Kept, Completed
    <3> QED
      BY <3>10, <3>11, <3>12
  <2> QED
    BY <1>3, <2>10, <2>11
<1> QED
  BY <1>6, <1>7

LEMMA WaiReplies ==
  ASSUME IInv, RInv, NEW offer \in BOOLEAN, NEW rdyOb \in BOOLEAN, BusClk(offer, rdyOb),
         mux.state = "WAI"
  PROVE  Kept
<1> DEFINE busIb == Offered(offer)
           ob    == AcqOb(<<>>, parmsAck)
           out   == IF rdyOb THEN ob ELSE <<>>
           n     == Len(frame)
<1>1. /\ MuxTypeOK /\ AcqTypeOK /\ frame \in Seq(Byte) /\ BeforeOK /\ sel = "ACQ_PARMS"
      /\ acq.state \in {"VALID", "TRIG", "ECHO"} /\ (acq.state # "ECHO" => HandingOver)
      /\ (todo = <<>> \/ InStep(todo)) /\ selOK /\ Replying
  BY DEF RInv, IInv, Exchange, TypeOK, selOK, Replying
<1>2. ToHandler("ACQ_PARMS", busIb) = <<>> /\ muxOb(ob) = ob /\ ~muxRdyIb(HandlerRdyOb("ACQ_PARMS", rdyOb))
  BY <1>1 DEF ToHandler, muxOb, muxRdyIb
<1>3. /\ todo' = todo /\ frame' = frame /\ before' = before
      /\ answer' = IF out = <<>> THEN answer ELSE Append(answer, out[1])
  BY <1>2 DEF BusClk, AcqRdyIb
<1>4. WaiEdge(ob, rdyOb)
  BY <1>2 DEF BusClk, AcqRdyIb, MuxEdge, IdleEdge, CmdEdge, FwdEdge, ErrEdge
<1>5. mux'.state = (IF LstSeen(ob, rdyOb) THEN "IDLE" ELSE "WAI") /\ mux'.cmd = mux.cmd
  BY <1>1, <1>4 DEF WaiEdge, MuxTypeOK
<1>6. AcqEdge(<<>>, HandlerRdyOb("ACQ_PARMS", rdyOb), parmsAck)
  BY <1>2 DEF BusClk
<1>7. sel' = "ACQ_PARMS" /\ BeforeOK' /\ frame' \in Seq(Byte)
  BY <1>1, <1>3, <1>5 DEF sel, BeforeOK
<1> HIDE DEF ob
<1>8. ASSUME ob = <<>>, acq'.state \in {"VALID", "TRIG", "ECHO"}, acq'.state # "ECHO" => HandingOver'
      PROVE  Kept
  <2>1. answer' = answer /\ mux'.state = "WAI"
    BY <1>3, <1>5, <1>8 DEF LstSeen
  <2>2. Exchange'
    BY <1>1, <1>3, <1>7, <1>8, <2>1 DEF Exchange, InStep
  <2> QED
    BY <1>7, <2>1, <2>2 DEF Kept, Completed
<1>9. CASE acq.state = "ECHO"
  <2>1. ob = <<>> /\ acq' = acq
    BY <1>6, <1>9 DEF ob, AcqOb, AcqEdge, EchoEdge, MaskEdge, ProcEdge, ValidEdge, TrigEdge
  <2> QED
    BY <1>8, <1>9, <2>1
<1>10. CASE acq.state = "VALID"
  <2>1. ob = <<>> /\ acq' = [acq EXCEPT !.p = Validated(acq.p), !.trg = ~acq.trg, !.state = "TRIG"]
    BY <1>6, <1>10 DEF ob, AcqOb, AcqEdge, EchoEdge, MaskEdge, ProcEdge, ValidEdge, TrigEdge
  <2>2. acq'.state = "TRIG" /\ acq'.p = Validated(acq.p) /\ acq'.count = acq.count
    BY <1>1, <2>1 DEF AcqTypeOK
  <2>3. answer' = answer
    BY <1>3, <2>1
  <2>4. HandingOver'
    BY <1>1, <1>3, <1>10, <2>2, <2>3 DEF HandingOver, Values, MaskOf, SetBy, Begun, Old
  <2> QED
    BY <1>8, <2>1, <2>2, <2>4
<1>11. CASE acq.state = "TRIG" /\ parmsAck # acq.trg
  <2>1. ob = <<>> /\ acq' = acq
    BY <1>6, <1>11 DEF ob, AcqOb, AcqEdge, EchoEdge, MaskEdge, ProcEdge, ValidEdge, TrigEdge
  <2>2. answer' = answer
    BY <1>3, <2>1
  <2>3. HandingOver'
    BY <1>1, <1>3, <1>11, <2>1, <2>2 DEF HandingOver, Values, MaskOf, SetBy, Begun, Old
  <2> QED
    BY <1>8, <1>11, <2>1, <2>3
<1>12. CASE acq.state = "TRIG" /\ parmsAck = acq.trg
  <2> DEFINE x == [lst |-> TRUE, dat |-> acq.p[acq.count]]
  <2>1. ob = <<x>> /\ acq' = [acq EXCEPT !.state = "ECHO"]
    BY <1>6, <1>12 DEF ob, AcqOb, AcqEdge, EchoEdge, MaskEdge, ProcEdge, ValidEdge, TrigEdge
  <2>2. acq'.state = "ECHO" /\ acq'.p = acq.p
    BY <1>1, <2>1 DEF AcqTypeOK
  <2>3. CASE ~rdyOb
    <3>1. answer' = answer /\ mux'.state = "WAI"
      BY <1>3, <1>5, <2>3 DEF LstSeen
    <3>2. Exchange'
      BY <1>1, <1>3, <1>7, <2>2, <3>1 DEF Exchange, InStep
    <3> QED
      BY <1>7, <3>1, <3>2 DEF Kept, Completed
  <2>4. CASE rdyOb
    <3>1. HandingOver /\ frame # <<>>
      <4>1. HandingOver
        BY <1>1, <1>12
      <4>2. /\ Values(frame) \in 1 .. CMD_LEN /\ Values(frame) = n - 1 - MASK_LEN
            /\ MASK_LEN \in Nat /\ CMD_LEN = 2
        BY <4>1, AcqAssumption DEF HandingOver, Values, CMD_LEN
      <4>3. n # 0
        <5> HIDE DEF n
        <5> QED
          BY <4>2
      <4> QED
        BY <4>1, <4>3
    <3>2. acq.p = ParmsOf(frame) /\ Values(frame) > 0
      BY <1>12, <3>1 DEF HandingOver, ParmsOf, CMD_LEN
    <3>3. answer' = Answer(frame)
      <4>1. answer' = Append(Begun(frame, Len(frame) - 1), x)
        BY <1>3, <2>1, <2>4, <3>1 DEF HandingOver
      <4>2. x = [lst |-> TRUE, dat |-> ParmsOf(frame)[Values(frame) - 1]]
        BY <3>1, <3>2 DEF HandingOver
      <4>3. Append(Begun(frame, Len(frame) - 1), [lst |-> TRUE, dat |-> ParmsOf(frame)[Values(frame) - 1]])
              = Answer(frame)
        BY <1>1, <3>1, <3>2, BegunEnds
      <4> QED
        BY <4>1, <4>2, <4>3
    <3>4. mux'.state = "IDLE"
      BY <1>5, <2>1, <2>4 DEF LstSeen
    <3>5. Exchange'
      BY <1>1, <1>3, <2>2, <3>4 DEF Exchange, InStep
    <3> QED
      BY <1>3, <1>7, <1>12, <2>2, <3>2, <3>3, <3>5 DEF Kept, Completed
  <2> QED
    BY <2>3, <2>4
<1> QED
  BY <1>1, <1>9, <1>10, <1>11, <1>12

LEMMA BusClkReplies ==
  ASSUME IInv, RInv, NEW offer \in BOOLEAN, NEW rdyOb \in BOOLEAN, BusClk(offer, rdyOb)
  PROVE  Kept
<1>1. mux.state \in {"IDLE", "CMD", "FWD", "WAI"}
  BY DEF IInv, RInv, TypeOK, MuxTypeOK, Exchange
<1> QED
  BY <1>1, IdleReplies, CmdReplies, FwdReplies, WaiReplies
-----------------------------------------------------------------------------
(* What is in force when the reply ends.                                   *)

LEMMA BusClkApplies ==
  ASSUME IInv, RInv, NEW offer \in BOOLEAN, NEW rdyOb \in BOOLEAN, BusClk(offer, rdyOb)
  PROVE  Applied'
<1> DEFINE toAcq == ToHandler("ACQ_PARMS", Offered(offer))
           rOb   == HandlerRdyOb("ACQ_PARMS", rdyOb)
           a     == parmsTglLoc(acq.trg)
<1>1. /\ HskTypeOK /\ Handshake /\ AcqTypeOK /\ MuxTypeOK /\ todo \in Seq(Byte) /\ AcqOK /\ Applied
  BY DEF IInv, RInv, TypeOK, AcqOK
<1>2. AcqEdge(toAcq, rOb, parmsAck) /\ HskEdge(acq.trg) /\ UNCHANGED memSide
  BY DEF BusClk
<1>3. toAcq \in Bus(Beat) /\ rOb \in BOOLEAN /\ parmsAck \in BOOLEAN
  BY <1>1, OfferedType, ToHandlerType, AckIsBoolean DEF HandlerRdyOb
<1> HIDE DEF toAcq, rOb
<1>4. AcqOK' /\ AcqHandsOver(parmsAck)
  BY <1>1, <1>2, <1>3, AcqStep
<1>5. acq.trg \in BOOLEAN /\ acq'.trg \in BOOLEAN
  BY <1>1, <1>4 DEF AcqOK, AcqTypeOK
<1>6. acqTglOb' = acqTglOb /\ taken' = taken
  BY <1>2 DEF memSide
<1> SUFFICES ASSUME hsk'.state = "RUN", acq'.state = "TRIG", acqTglOb = parmsTglLoc(acq.trg)'
             PROVE  taken = <<acq'.p>>
  BY <1>6 DEF Applied
<1>7. CASE acq.state = "TRIG"
  <2>1. parmsAck # acq.trg /\ acq' = acq
    <3>1. acq' = IF parmsAck = acq.trg THEN [acq EXCEPT !.state = "ECHO"] ELSE acq
      BY <1>2, <1>7 DEF AcqEdge, EchoEdge, MaskEdge, ProcEdge, ValidEdge, TrigEdge
    <3>2. [acq EXCEPT !.state = "ECHO"].state = "ECHO"
      BY <1>1 DEF AcqTypeOK
    <3> QED
      BY <3>1, <3>2
  <2>2. hsk.state = "RUN"
    BY <1>1, <1>2, <2>1 DEF HskEdge, parmsAck, HskTypeOK
  <2>3. hsk'.pol = hsk.pol
    BY <1>1, <1>2, <2>2 DEF HskEdge, HskTypeOK
  <2>4. a = parmsTglLoc(acq.trg)'
    BY <2>1, <2>2, <2>3 DEF parmsTglLoc
  <2> QED
    BY <1>1, <1>7, <2>1, <2>2, <2>4 DEF Applied
<1>8. CASE acq.state # "TRIG"
  <2>1. acq.state = "VALID" /\ acq'.trg = ~acq.trg
    <3>1. acq.state = "VALID"
      BY <1>1, <1>2, <1>3, <1>8 DEF AcqEdge, EchoEdge, MaskEdge, ProcEdge, ValidEdge, TrigEdge, AcqTypeOK
    <3>2. acq' = [acq EXCEPT !.p = Validated(acq.p), !.trg = ~acq.trg, !.state = "TRIG"]
      BY <1>2, <3>1 DEF AcqEdge, EchoEdge, MaskEdge, ProcEdge, ValidEdge, TrigEdge
    <3> QED
      BY <1>1, <3>1, <3>2 DEF AcqTypeOK
  <2>2. acqTglOb = a /\ a \in BOOLEAN
    BY <1>1, <1>8 DEF Handshake, Ring, parmsTglLoc, Xor
  <2>3. CASE hsk.state = "RUN"
    <3>1. hsk'.pol = hsk.pol
      BY <1>1, <1>2, <2>3 DEF HskEdge, HskTypeOK
    <3>2. a = (acq.trg # hsk.pol) /\ parmsTglLoc(acq.trg)' = (acq'.trg # hsk.pol) /\ hsk.pol \in BOOLEAN
      BY <1>1, <2>3, <3>1 DEF parmsTglLoc, Xor, HskTypeOK
    <3> QED
      BY <1>5, <2>1, <2>2, <3>2
  <2>4. CASE hsk.state = "LOCAL"
    <3>1. acq.trg = hsk.tgl /\ hsk'.pol = hsk.tgl
      BY <1>1, <1>2, <2>4 DEF HskEdge, HskTypeOK
    <3>2. acqTglOb = FALSE
      BY <1>1, <2>4 DEF Handshake
    <3>3. parmsTglLoc(acq.trg)' = (acq'.trg # acq.trg)
      BY <3>1 DEF parmsTglLoc, Xor
    <3> QED
      BY <1>5, <2>1, <3>2, <3>3
  <2> QED
    BY <1>1, <2>3, <2>4 DEF HskTypeOK
<1> QED
  BY <1>7, <1>8

LEMMA MemClkApplies ==
  ASSUME IInv, RInv, NEW stopping \in BOOLEAN, MemClk(stopping)
  PROVE  Applied'
<1>1. HskTypeOK /\ Handshake /\ Applied
  BY DEF IInv, RInv, TypeOK
<1>2. acq' = acq /\ hsk' = hsk /\ parmsTglLoc(acq.trg)' = parmsTglLoc(acq.trg)
  BY DEF MemClk, busSide, parmsTglLoc
<1>3. taken' = <<acq.p>> \/ (taken' = taken /\ acqTglOb' = acqTglOb)
  BY DEF MemClk, MemEdge
<1> QED
  BY <1>1, <1>2, <1>3 DEF Applied

\* What the reply promises about the recorder follows where it ends.
LEMMA ReplyEnds ==
  ASSUME IInv, RInv, acq.state = "TRIG", parmsAck = acq.trg, hsk.state = "RUN"
  PROVE  taken = <<acq.p>>
<1> DEFINE a == parmsTglLoc(acq.trg)
<1>1. HskTypeOK /\ Handshake /\ Applied /\ acq.trg \in BOOLEAN
  BY DEF IInv, RInv, TypeOK, AcqTypeOK
<1>2. /\ a = (acq.trg # hsk.pol) /\ parmsAck = (ackSync[2] # hsk.pol)
      /\ hsk.pol \in BOOLEAN /\ ackSync[2] \in BOOLEAN
  BY <1>1 DEF parmsTglLoc, parmsAck, Xor, HskTypeOK
<1>3. ackSync[2] = a
  BY <1>1, <1>2
<1>4. acqTglOb = a
  BY <1>1, <1>3 DEF Handshake, Ring
<1> QED
  BY <1>1, <1>4 DEF Applied

-----------------------------------------------------------------------------
LEMMA InitRInv == Init => RInv
<1> SUFFICES ASSUME Init PROVE RInv
  OBVIOUS
<1>1. IInv
  BY InitIInv
<1>2. BeforeOK
  BY <1>1 DEF IInv, TypeOK, AcqTypeOK, BeforeOK, Init
<1>3. mux.state = "IDLE" /\ acq.state = "ECHO" /\ hsk.state = "LOCAL" /\ todo = <<>> /\ frame = <<>>
  BY DEF Init, MuxInit, AcqInit, HskInit
<1>4. Exchange
  BY <1>3 DEF Exchange
<1> QED
  BY <1>2, <1>3, <1>4 DEF RInv, Applied

LEMMA RInductive ==
  ASSUME RequestsInStep, IInv, RInv, [Next]_vars
  PROVE  RInv'
<1>1. ASSUME NEW offer \in BOOLEAN, NEW rdyOb \in BOOLEAN, BusClk(offer, rdyOb)
      PROVE  RInv'
  BY <1>1, BusClkReplies, BusClkApplies DEF RInv, Kept
<1>2. ASSUME UNCHANGED <<mux, acq, todo, history>>, Applied'
      PROVE  RInv'
  <2>1. frame' = frame /\ answer' = answer /\ before' = before /\ mux' = mux /\ acq' = acq /\ todo' = todo
    BY <1>2 DEF history
  <2>2. Commanded' = Commanded /\ Echoed' = Echoed /\ HandingOver' = HandingOver /\ sel' = sel
    BY <2>1 DEF Commanded, Echoed, HandingOver, Sending, Values, MaskOf, SetBy, Begun, Old, sel
  <2>3. Exchange'
    BY <2>1, <2>2 DEF RInv, Exchange, InStep
  <2> QED
    BY <1>2, <2>1, <2>3 DEF RInv, BeforeOK
<1>3. ASSUME NEW stopping \in BOOLEAN, MemClk(stopping)
      PROVE  RInv'
  BY <1>2, <1>3, MemClkApplies DEF MemClk
<1>4. ASSUME UNCHANGED <<acq, hsk, acqTglOb, taken>>
      PROVE  Applied'
  BY <1>4 DEF RInv, Applied, parmsTglLoc
<1>5. CASE NewFrame
  <2>1. /\ frame' = frame /\ answer' = answer /\ before' = before /\ mux' = mux /\ acq' = acq
        /\ InStep(todo') /\ todo = <<>>
    BY <1>5 DEF NewFrame, history, RequestsInStep
  <2>2. mux.state \in {"IDLE", "WAI"}
    BY <2>1 DEF RInv, IInv, TypeOK, MuxTypeOK, Exchange, Commanded, Echoed, Sending
  <2>3. HandingOver' = HandingOver /\ sel' = sel /\ InStep(todo)'
    BY <2>1 DEF HandingOver, Values, MaskOf, SetBy, Begun, Old, sel, InStep
  <2>4. Exchange'
    BY <2>1, <2>2, <2>3 DEF RInv, Exchange
  <2>5. Applied'
    BY <1>4, <1>5 DEF NewFrame, busSide, memSide
  <2> QED
    BY <2>1, <2>4, <2>5 DEF RInv, BeforeOK
<1>6. CASE Ready
  BY <1>2, <1>4, <1>6 DEF Ready, busSide, memSide
<1>7. CASE UNCHANGED vars
  BY <1>2, <1>4, <1>7 DEF vars, busSide, memSide
<1> QED
  BY <1>1, <1>3, <1>5, <1>6, <1>7 DEF Next

\* Mask, parameters and every register keep to their types.
THEOREM TypeCorrect == Spec => []TypeOK
<1>1. IInv => TypeOK
  BY DEF IInv
<1> QED
  BY <1>1, Inductive, PTL

\* The parameters do not change while the recorder may take them, though no
\* synchronizer protects them and the two clocks are unrelated.
THEOREM HeldWhenTaken == Spec => []HeldWhileTaken
<1>1. IInv => HeldWhileTaken
  BY WaitsWhileTaken DEF IInv, TypeOK, HeldWhileTaken
<1> QED
  BY <1>1, Inductive, PTL

\* What the recorder works with fits together, for every mask and whatever
\* values a request sets.
THEOREM ValidWhenTaken == Spec => []RecorderValid
<1>1. IInv => RecorderValid
  BY DEF IInv
<1> QED
  BY <1>1, Inductive, PTL

\* For every mask and all parameters: a reply to a request in step is as long
\* as the request and holds what was there before, its last byte already what is
\* there now; when it ends the parameters are the device's, validated, and the
\* recorder's if it was ready.
THEOREM Answered ==
  ASSUME RequestsInStep
  PROVE  Spec => AnsweredWhenApplied
<1> DEFINE Ended == answer' # answer /\ answer' # <<>> /\ answer'[Len(answer')].lst
           Right == /\ answer' = Answer(frame')
                    /\ acq'.p = ParmsOf(frame')
                    /\ hsk.state = "RUN" /\ Values(frame') > 0 /\ ~Get(MaskOf(frame')) => taken = <<acq.p>>
<1>1. ASSUME IInv, RInv, [Next]_vars PROVE [Ended => Right]_vars
  <2>1. ASSUME NEW offer \in BOOLEAN, NEW rdyOb \in BOOLEAN, BusClk(offer, rdyOb)
        PROVE  Ended => Right
    <3>1. Completed
      BY <1>1, <2>1, BusClkReplies DEF Kept
    <3> QED
      BY <1>1, <3>1, ReplyEnds DEF Completed
  <2>2. ASSUME answer' = answer PROVE Ended => Right
    BY <2>2
  <2> QED
    BY <1>1, <2>1, <2>2 DEF Next, MemClk, NewFrame, Ready, vars, history
<1>2. IInv /\ RInv /\ [Next]_vars => RInv'
  BY RInductive
<1>3. IInv /\ RInv /\ [Next]_vars => [Ended => Right]_vars
  BY <1>1
<1> QED
  BY <1>2, <1>3, InitRInv, Inductive, PTL DEF Spec, AnsweredWhenApplied
=============================================================================
