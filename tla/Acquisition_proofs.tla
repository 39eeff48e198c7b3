-------------------------- MODULE Acquisition_proofs --------------------------
(***************************************************************************)
(* Theorems about Acquisition, for every size of the memory, every set of  *)
(* parameters and every ratio of the clocks.                               *)
(*                                                                         *)
(* Each of the two hand-overs is a ring: the owner's toggle travels over   *)
(* two stages to the other side, which answers with its own toggle, which  *)
(* travels over two stages back.  At any time there is at most one change  *)
(* on its way round, and where it is tells who may touch the memory.  The  *)
(* second part relates the two rings to each other and to the words.       *)
(***************************************************************************)
EXTENDS Acquisition, TLAPS

\* Going round from toggle a: what is still different from a stays different.
Ring(a, there, b, back) ==
  /\ there[1] # a => there[2] # a
  /\ there[2] # a => b # a
  /\ b # a => back[1] # a
  /\ back[1] # a => back[2] # a

\* Recorder and readout: the recorder holds until the ring is at rest.
RecorderRing ==
  /\ Ring(rWr.tgl, wrTgl, rRd.tgl, rdTgl)
  /\ rdTgl[2] # rWr.tgl => rWr.state = "HOLD"

\* The two sides of the buffer: the write side is halted until the ring is at
\* rest, the read side works only while the write side's change waits for it.
BufferRing ==
  /\ Ring(bWr.tgl, wrTglSync, bRd.tgl, rdTglSync)
  /\ rdTglSync[2] # bWr.tgl => bWr.state = "HALT"
  /\ bRd.state # "WAITRD" => wrTglSync[2] # bRd.tgl

\* The recorder never counts beyond its parameters.
Counted ==
  /\ rWr.state = "FILL" => rWr.nsmpls <= rWr.parms.nprets
  /\ rWr.state = "RUN"  => rWr.nsmpls <= rWr.parms.nsamples

\* The readout: where it takes a word the buffer has one, because byteCnt
\* stood still while it had none.  Before any flush it has one for every word
\* that is missing in the reply, from the moment the reply begins.
Reading ==
  /\ rRd.flush => rRd.state = "ECHO" /\ flushed
  /\ rRd.state = "HDR" => ~rRd.lst /\ rRd.byteCnt = 0
  /\ rRd.state = "READ" /\ rRd.lst => rRd.byteCnt # 0
  /\ rRd.state = "READ" /\ rRd.byteCnt = 0 => bRd.state = "READ"
  /\ ~flushed /\ (rRd.state = "HDR" \/ (rRd.state = "READ" /\ ~rRd.lst)) => bRd.state = "READ"

Synced == {rdTgl, wrTgl, rdTglSync, wrTglSync} \subseteq BOOLEAN \X BOOLEAN

IInv == TypeOK /\ Counted /\ RecorderRing /\ BufferRing /\ Reading
-----------------------------------------------------------------------------
(* Arithmetic of addresses and counters.                                   *)

LEMMA SmallMod == ASSUME NEW k \in Nat \ {0}, NEW x \in 0 .. k - 1
                  PROVE  x % k = x
  OBVIOUS

LEMMA ModRange == ASSUME NEW k \in Nat \ {0}, NEW x \in Int
                  PROVE  x % k \in 0 .. k - 1
  OBVIOUS

LEMMA ByteCount == ASSUME NEW c \in 0 .. NBytes - 1
                   PROVE  /\ (c - 1) % NBytes \in 0 .. NBytes - 1
                          /\ c = 0 => (c - 1) % NBytes # 0
  BY ReaderAssumption

LEMMA NextAddr == ASSUME NEW a \in Addr PROVE AddrNext(a) \in Addr
  BY MemoryAssumption DEF Addr, AddrNext

LEMMA FirstAddr == ASSUME waddr \in Addr, bWr.nsmpl \in RamAddr
                   PROVE  raddrFirst \in Addr
<1> DEFINE n == bWr.nsmpl
<1> HIDE DEF n
<1>1. MemDepth \in Nat \ {0} /\ AddrSpace \in Nat \ {0} /\ MemDepth <= AddrSpace
  BY MemoryAssumption
<1>2. waddr \in 0 .. MemDepth - 1 /\ n \in 0 .. AddrSpace - 1
  BY DEF n, Addr, RamAddr
<1>3. CASE AddrSpace > MemDepth /\ n >= MemDepth
  BY <1>3 DEF n, raddrFirst
<1>4. CASE AddrSpace > MemDepth /\ ~(n >= MemDepth) /\ n > waddr
  <2>1. waddr - n + MemDepth \in 0 .. MemDepth - 1
    BY <1>1, <1>2, <1>4
  <2>2. (waddr - n + MemDepth) % AddrSpace = waddr - n + MemDepth
    BY <1>1, <2>1, SmallMod
  <2> QED
    BY <1>4, <2>1, <2>2 DEF n, raddrFirst, Addr
<1>5. CASE AddrSpace > MemDepth /\ ~(n >= MemDepth) /\ ~(n > waddr)
  <2>1. waddr - n \in 0 .. MemDepth - 1
    BY <1>1, <1>2, <1>5
  <2>2. (waddr - n) % AddrSpace = waddr - n
    BY <1>1, <2>1, SmallMod
  <2> QED
    BY <1>5, <2>1, <2>2 DEF n, raddrFirst, Addr
<1>6. CASE AddrSpace = MemDepth
  <2>1. (waddr - n) % AddrSpace \in 0 .. AddrSpace - 1
    BY <1>1, <1>2, ModRange
  <2> QED
    BY <1>1, <1>6, <2>1 DEF n, raddrFirst, Addr
<1> QED
  BY <1>1, <1>3, <1>4, <1>5, <1>6

\* The two stop words are put together to a number of the width of an address.
LEMMA LowWord == ASSUME NEW n \in RamAddr, NEW w \in 0 .. LoWord - 1
                 PROVE  setLo(n, w) \in RamAddr
<1>1. AddrSpace \in Nat \ {0} /\ LoWord \in Nat \ {0}
  BY MemoryAssumption
<1>2. CASE ~(AddrSpace >= LoWord)
  BY <1>1, <1>2, ModRange DEF setLo, RamAddr
<1>3. CASE AddrSpace >= LoWord
  <2> DEFINE q == AddrSpace \div LoWord
             d == n \div LoWord
  <2>1. AddrSpace % LoWord = 0
    BY <1>1, <1>3, MemoryAssumption
  <2>2. q \in Nat /\ AddrSpace = q * LoWord
    BY <1>1, <2>1
  <2>3. d \in Nat /\ d * LoWord <= n
    BY <1>1 DEF RamAddr
  <2> HIDE DEF q, d
  <2>4. n < q * LoWord
    BY <1>1, <2>2 DEF RamAddr
  <2>5. d < q
    <3> SUFFICES ASSUME q <= d PROVE FALSE
      BY <2>2, <2>3
    <3>1. q * LoWord <= d * LoWord
      BY <1>1, <2>2, <2>3
    <3> QED
      BY <1>1, <2>2, <2>3, <2>4, <3>1 DEF RamAddr
  <2>6. d * LoWord + LoWord <= q * LoWord
    <3>1. (d + 1) * LoWord <= q * LoWord
      BY <1>1, <2>2, <2>3, <2>5
    <3> QED
      BY <1>1, <2>2, <2>3, <3>1
  <2>7. d * LoWord \in Nat
    BY <1>1, <2>3
  <2>8. d * LoWord + w \in RamAddr
    BY <1>1, <2>2, <2>6, <2>7 DEF RamAddr
  <2> QED
    BY <1>3, <2>8 DEF setLo, d
<1> QED
  BY <1>2, <1>3

LEMMA StopWord == ASSUME rWr \in WrType PROVE wrCmdDat \in 0 .. LoWord - 1
<1> DEFINE n == rWr.nsmpls
           d == n \div LoWord
<1>1. n \in 0 .. MemDepth /\ MemDepth \in Nat /\ LoWord \in Nat \ {0}
  BY MemoryAssumption DEF WrType
<1>2. n % LoWord \in 0 .. LoWord - 1
  BY <1>1, ModRange
<1>3. d \in Nat /\ d * LoWord <= n
  BY <1>1
<1>4. n < LoWord * LoWord
  BY <1>1, MemoryAssumption
<1> HIDE DEF n, d
<1>5. d < LoWord
  <2> SUFFICES ASSUME LoWord <= d PROVE FALSE
    BY <1>1, <1>3
  <2>1. LoWord * LoWord <= d * LoWord
    BY <1>1, <1>3
  <2> QED
    BY <1>1, <1>3, <1>4, <2>1
<1> QED
  BY <1>1, <1>2, <1>3, <1>5 DEF wrCmdDat, n, d

LEMMA HighWord == ASSUME NEW n \in RamAddr, NEW w \in Nat
                  PROVE  setHi(n, w) \in RamAddr
<1>1. AddrSpace \in Nat \ {0} /\ LoWord \in Nat \ {0}
  BY MemoryAssumption
<1>2. CASE ~(AddrSpace > LoWord)
  BY <1>2 DEF setHi
<1>3. CASE AddrSpace > LoWord
  <2> DEFINE q == AddrSpace \div LoWord
             d == w % q
             m == n % LoWord
  <2>1. AddrSpace % LoWord = 0
    BY <1>1, <1>3, MemoryAssumption
  <2>2. q \in Nat /\ AddrSpace = q * LoWord
    BY <1>1, <2>1
  <2>3. q # 0
    BY <1>1, <2>2
  <2>4. d \in 0 .. q - 1
    <3> HIDE DEF q
    <3> QED
      BY <2>2, <2>3, ModRange
  <2>5. m \in 0 .. LoWord - 1
    BY <1>1, ModRange DEF RamAddr
  <2> HIDE DEF q, d, m
  <2>6. d * LoWord + LoWord <= q * LoWord
    <3>1. (d + 1) * LoWord <= q * LoWord
      BY <1>1, <2>2, <2>4
    <3> QED
      BY <1>1, <2>2, <2>4, <3>1
  <2>7. d * LoWord \in Nat
    BY <1>1, <2>2, <2>4
  <2>8. d * LoWord + m \in RamAddr
    BY <1>1, <2>2, <2>5, <2>6, <2>7 DEF RamAddr
  <2> QED
    BY <1>3, <2>8 DEF setHi, d, m, q
<1> QED
  BY <1>2, <1>3
-----------------------------------------------------------------------------
(* The rings.                                                              *)

\* A synchronizer stays or takes the level before or after the edge.
LEMMA Synchronizer ==
  ASSUME NEW s \in BOOLEAN \X BOOLEAN, NEW x \in BOOLEAN, NEW y \in BOOLEAN,
         NEW t \in {s, <<x, s[1]>>, <<y, s[1]>>}
  PROVE  /\ t \in BOOLEAN \X BOOLEAN
         /\ \/ t[1] = s[1] /\ t[2] = s[2]
            \/ (t[1] = x \/ t[1] = y) /\ t[2] = s[1]
<1>1. CASE t = s
  BY <1>1
<1>2. CASE t = <<x, s[1]>>
  BY <1>2
<1>3. CASE t = <<y, s[1]>>
  BY <1>3
<1> QED
  BY <1>1, <1>2, <1>3

\* A ring whose answer has come back to the owner is at rest.
LEMMA RingAtRest ==
  ASSUME NEW a \in BOOLEAN, NEW b \in BOOLEAN,
         NEW there \in BOOLEAN \X BOOLEAN, NEW back \in BOOLEAN \X BOOLEAN,
         Ring(a, there, b, back), back[2] = a
  PROVE  b = a /\ there[2] = a
  BY DEF Ring

\* Where a change waits for the other side, the ring is not at rest.
LEMMA RingWaits ==
  ASSUME NEW a \in BOOLEAN, NEW b \in BOOLEAN,
         NEW there \in BOOLEAN \X BOOLEAN, NEW back \in BOOLEAN \X BOOLEAN,
         Ring(a, there, b, back), there[2] # b
  PROVE  back[2] # a /\ there[1] = a /\ there[2] = a
  BY DEF Ring
-----------------------------------------------------------------------------
(* The recorder.                                                           *)

\* What an edge does to the recorder's toggle and to a recorder that stopped.
RecorderHandsOver ==
  /\ rWr'.tgl # rWr.tgl => rWr.state = "STOP2" /\ rWr'.state = "HOLD"
  /\ rWr.state \in {"STOP1", "STOP2"} => rWr'.state \in {"STOP1", "STOP2", "HOLD"}
  /\ rWr.state = "HOLD" =>
       rWr'.state = "HOLD" \/ (rWr'.state = "FILL" /\ rdTgl[2] = rWr.tgl)

LEMMA RecorderEdge ==
  ASSUME rWr \in WrType, Counted, rdTgl \in BOOLEAN \X BOOLEAN, sinceStart \in 0 .. TRG_LATENCY,
         NEW wrDecm \in BOOLEAN, NEW parm \in BOOLEAN, NEW trg \in BOOLEAN,
         WrSeq(wrDecm, parm, trg)
  PROVE  rWr' \in WrType /\ Counted' /\ sinceStart' \in 0 .. TRG_LATENCY /\ RecorderHandsOver
<1> USE DEF WrType, WrStates, Counted, RecorderHandsOver
<1>1. /\ rWr.parms \in Parms
      /\ rWr.parms.nsamples \in 0 .. MemDepth - 1 /\ rWr.parms.nprets \in 0 .. rWr.parms.nsamples
      /\ MemDepth \in Nat
  BY ParmsAssumption, MemoryAssumption
<1>2. sinceStart' \in 0 .. TRG_LATENCY
  <2>1. sinceStart' \in {0, sinceStart} \/ (sinceStart < TRG_LATENCY /\ sinceStart' = sinceStart + 1)
    <3>1. CASE parm
      BY <3>1 DEF WrSeq
    <3>2. CASE ~parm /\ wrDecm /\ rWr.state # "INIT"
      BY <3>2 DEF WrSeq
    <3>3. CASE ~parm /\ (~wrDecm \/ rWr.state = "INIT")
      BY <3>3 DEF WrSeq
    <3> QED
      BY <3>1, <3>2, <3>3
  <2>2. TRG_LATENCY \in Nat
    BY DEF TRG_LATENCY
  <2> QED
    BY <2>1, <2>2
<1>3. ASSUME NEW p \in Parms, ParmEdge(p)
      PROVE  rWr' \in WrType /\ Counted' /\ RecorderHandsOver
  <2>1. p.nsamples \in 0 .. MemDepth - 1 /\ p.nprets \in 0 .. p.nsamples
    BY ParmsAssumption
  <2>2. CASE rWr.state = "HOLD"
    <3>1. rWr' = [rWr EXCEPT !.parms = p]
      BY <1>3, <2>2 DEF ParmEdge
    <3> QED
      BY <2>2, <3>1
  <2>3. CASE rWr.state # "HOLD"
    <3>1. rWr' = [state |-> "FILL", wasTrg |-> FALSE, autTrg |-> FALSE, nsmpls |-> 0,
                  ovrA |-> 0, tgl |-> rWr.tgl, parms |-> p]
      BY <1>3, <2>3 DEF ParmEdge, WR_REG_START, WR_REG_INIT
    <3>2. rWr' \in WrType /\ rWr'.state = "FILL" /\ rWr'.nsmpls = 0 /\ rWr'.parms = p /\ rWr'.tgl = rWr.tgl
      BY <1>1, <3>1
    <3>3. rWr.state \notin {"STOP1", "STOP2"}
      BY <1>3 DEF ParmEdge
    <3> QED
      BY <2>1, <2>3, <3>2, <3>3
  <2> QED
    BY <2>2, <2>3
<1>4. ovrNext(FALSE) \in 0 .. MemDepth
  BY <1>1 DEF ovrNext
<1>5. ASSUME FillEdge(FALSE) PROVE rWr' \in WrType /\ Counted' /\ RecorderHandsOver
  <2>1. CASE rWr.nsmpls >= rWr.parms.nprets
    <3>1. rWr' = [rWr EXCEPT !.state = "RUN", !.nsmpls = rWr.parms.nprets, !.ovrA = ovrNext(FALSE)]
      BY <1>5, <2>1 DEF FillEdge
    <3>2. rWr.parms.nprets \in 0 .. MemDepth /\ rWr.state = "FILL"
      BY <1>1, <1>5 DEF FillEdge
    <3>3. rWr' \in WrType
      BY <1>4, <3>1, <3>2
    <3>4. rWr'.state = "RUN" /\ rWr'.nsmpls = rWr.parms.nprets /\ rWr'.parms = rWr.parms /\ rWr'.tgl = rWr.tgl
      BY <3>1
    <3>5. rWr.parms.nprets <= rWr.parms.nsamples
      BY <1>1
    <3> QED
      BY <3>2, <3>3, <3>4, <3>5
  <2>2. CASE ~(rWr.nsmpls >= rWr.parms.nprets)
    <3>1. rWr' = [rWr EXCEPT !.nsmpls = @ + 1, !.ovrA = ovrNext(FALSE)] /\ rWr.state = "FILL"
      BY <1>5, <2>2 DEF FillEdge
    <3>2. rWr.nsmpls + 1 \in 0 .. MemDepth /\ rWr.nsmpls + 1 <= rWr.parms.nprets
      BY <1>1, <2>2
    <3> QED
      BY <1>1, <1>4, <3>1, <3>2
  <2> QED
    BY <2>1, <2>2
<1>6. ASSUME RunEdge(trg, FALSE, FALSE) PROVE rWr' \in WrType /\ Counted' /\ RecorderHandsOver
  <2>1. rWr.state = "RUN" /\ rWr.nsmpls <= rWr.parms.nsamples
    BY <1>6 DEF RunEdge
  <2>2. CASE rWr.wasTrg \/ trg
    <3>1. PICK s \in {"RUN", "STOP1"}, t \in BOOLEAN :
            /\ rWr' = [rWr EXCEPT !.state = s, !.wasTrg = TRUE, !.autTrg = t,
                                  !.nsmpls = @ + 1, !.ovrA = ovrNext(FALSE)]
            /\ s = "RUN" => rWr.nsmpls # rWr.parms.nsamples
      <4>1. CASE rWr.nsmpls = rWr.parms.nsamples /\ rWr.wasTrg
        BY <1>6, <2>1, <2>2, <4>1 DEF RunEdge
      <4>2. CASE rWr.nsmpls = rWr.parms.nsamples /\ ~rWr.wasTrg
        BY <1>6, <2>1, <2>2, <4>2 DEF RunEdge
      <4>3. CASE rWr.nsmpls # rWr.parms.nsamples /\ rWr.wasTrg
        BY <1>6, <2>1, <2>2, <4>3 DEF RunEdge
      <4>4. CASE rWr.nsmpls # rWr.parms.nsamples /\ ~rWr.wasTrg
        BY <1>6, <2>1, <2>2, <4>4 DEF RunEdge
      <4> QED
        BY <4>1, <4>2, <4>3, <4>4
    <3>2. rWr.nsmpls + 1 \in 0 .. MemDepth
      BY <1>1, <2>1
    <3>3. s = "RUN" => rWr.nsmpls + 1 <= rWr.parms.nsamples
      BY <1>1, <2>1, <3>1
    <3>4. rWr' \in WrType
      BY <1>4, <3>1, <3>2
    <3>5. rWr'.state = s /\ rWr'.nsmpls = rWr.nsmpls + 1 /\ rWr'.parms = rWr.parms /\ rWr'.tgl = rWr.tgl
      BY <3>1
    <3> QED
      BY <2>1, <3>3, <3>4, <3>5
  <2>3. CASE ~(rWr.wasTrg \/ trg)
    <3>1. rWr' = [rWr EXCEPT !.wasTrg = FALSE, !.ovrA = ovrNext(FALSE)]
      BY <1>6, <2>1, <2>3 DEF RunEdge
    <3> QED
      BY <1>4, <2>1, <3>1
  <2> QED
    BY <2>2, <2>3
<1>7. ASSUME StopEdge PROVE rWr' \in WrType /\ Counted' /\ RecorderHandsOver
  BY <1>7 DEF StopEdge
<1>8. ASSUME HoldEdge(rdTgl[2]) PROVE rWr' \in WrType /\ Counted' /\ RecorderHandsOver
  <2>1. rWr.state = "HOLD"
    BY <1>8 DEF HoldEdge
  <2>2. CASE rdTgl[2] = rWr.tgl
    <3>1. rWr' = [rWr EXCEPT !.state = "FILL", !.nsmpls = 0, !.wasTrg = FALSE,
                             !.autTrg = FALSE, !.ovrA = 0]
      BY <1>8, <2>2 DEF HoldEdge
    <3>2. rWr' \in WrType
      <4>1. rWr' = [state |-> "FILL", wasTrg |-> FALSE, autTrg |-> FALSE, nsmpls |-> 0,
                    ovrA |-> 0, tgl |-> rWr.tgl, parms |-> rWr.parms]
        BY <3>1
      <4> QED
        BY <1>1, <4>1
    <3>3. rWr'.state = "FILL" /\ rWr'.nsmpls = 0 /\ rWr'.parms = rWr.parms /\ rWr'.tgl = rWr.tgl
      BY <3>1
    <3> QED
      BY <1>1, <2>1, <2>2, <3>2, <3>3
  <2>3. CASE rdTgl[2] # rWr.tgl
    BY <1>8, <2>1, <2>3 DEF HoldEdge
  <2> QED
    BY <2>2, <2>3
<1>9. ASSUME UNCHANGED rWr, rWr.state = "INIT" \/ ~wrDecm
      PROVE  rWr' \in WrType /\ Counted' /\ RecorderHandsOver
  BY <1>9
<1>10. CASE parm
  BY <1>2, <1>3, <1>10 DEF WrSeq
<1>11. CASE ~parm /\ wrDecm /\ rWr.state # "INIT"
  BY <1>2, <1>5, <1>6, <1>7, <1>8, <1>11 DEF WrSeq, DecmEdge
<1>12. CASE ~parm /\ (~wrDecm \/ rWr.state = "INIT")
  BY <1>2, <1>9, <1>12 DEF WrSeq
<1> QED
  BY <1>10, <1>11, <1>12
-----------------------------------------------------------------------------
(* The two sides of the buffer.                                            *)

BufWrType == [state : {"WRITE", "NSMPLS_HI", "HALT"}, nsmpl : RamAddr, tgl : BOOLEAN]
BufRdType == [state : {"WAITRD", "PRELD", "READ"}, raddr : Addr, tgl : BOOLEAN]

LEMMA BufWrEdge ==
  ASSUME rWr \in WrType, bWr \in BufWrType, NEW ena \in BOOLEAN, NEW s \in BOOLEAN,
         BufWrComb(ena, wrCmd, wrCmdDat, s)
  PROVE  /\ bWr' \in BufWrType
         /\ bWr'.tgl # bWr.tgl => bWr.state = "NSMPLS_HI" /\ bWr'.state = "HALT"
         /\ bWr.state = "HALT" /\ bWr'.state # "HALT" => s = bWr.tgl
<1> USE DEF BufWrType
<1>1. rWr.nsmpls \in Nat /\ LoWord \in Nat \ {0}
  BY MemoryAssumption DEF WrType
<1>2. CASE bWr.state = "WRITE"
  <2>1. CASE ena /\ wrCmd
    <3>1. setLo(bWr.nsmpl, wrCmdDat) \in RamAddr
      BY LowWord, StopWord
    <3>2. bWr' = [bWr EXCEPT !.nsmpl = setLo(@, wrCmdDat), !.state = "NSMPLS_HI"]
      BY <1>2, <2>1 DEF BufWrComb
    <3> QED
      BY <1>2, <3>1, <3>2
  <2>2. CASE ~(ena /\ wrCmd)
    BY <1>2, <2>2 DEF BufWrComb
  <2> QED
    BY <2>1, <2>2
<1>3. CASE bWr.state = "NSMPLS_HI"
  <2>1. CASE ena
    <3>1. wrCmdDat \in Nat
      BY <1>1, StopWord
    <3>2. setHi(bWr.nsmpl, wrCmdDat) \in RamAddr
      BY <3>1, HighWord
    <3>3. bWr' = [bWr EXCEPT !.nsmpl = setHi(@, wrCmdDat), !.state = "HALT", !.tgl = ~@]
      BY <1>3, <2>1 DEF BufWrComb
    <3> QED
      BY <1>3, <3>2, <3>3
  <2>2. CASE ~ena
    BY <1>3, <2>2 DEF BufWrComb
  <2> QED
    BY <2>1, <2>2
<1>4. CASE bWr.state = "HALT"
  <2>1. CASE s = bWr.tgl
    BY <1>4, <2>1 DEF BufWrComb
  <2>2. CASE s # bWr.tgl
    BY <1>4, <2>2 DEF BufWrComb
  <2> QED
    BY <2>1, <2>2
<1> QED
  BY <1>2, <1>3, <1>4

LEMMA BufRamEdge ==
  ASSUME waddr \in Addr, ram \in [Addr -> Ages], NEW ena \in BOOLEAN, BufWrRam(ena, wrCmd)
  PROVE  waddr' \in Addr /\ ram' \in [Addr -> Ages]
<1> DEFINE offered == ena /\ ~wrCmd
           aged == [a \in Addr |-> Aged(ram[a], offered)]
<1>1. \A x \in Ages : Aged(x, offered) \in Ages
  BY MemoryAssumption DEF Aged, Ages, Old
<1>2. aged \in [Addr -> Ages]
  BY <1>1
<1>3. 0 \in Ages
  BY MemoryAssumption DEF Ages, Old
<1>4. CASE bufWrEna(ena, wrCmd)
  <2>1. ram' = [aged EXCEPT ![waddr] = 0] /\ waddr' = AddrNext(waddr)
    BY <1>4 DEF BufWrRam
  <2> HIDE DEF aged
  <2> QED
    BY <1>2, <1>3, <2>1, NextAddr
<1>5. CASE ~bufWrEna(ena, wrCmd)
  BY <1>2, <1>5 DEF BufWrRam
<1> QED
  BY <1>4, <1>5

LEMMA BufRdEdge ==
  ASSUME bRd \in BufRdType, waddr \in Addr, bWr \in BufWrType,
         NEW ena \in BOOLEAN, NEW flush \in BOOLEAN, NEW s \in BOOLEAN,
         BufRdComb(ena, flush, s)
  PROVE  /\ bRd' \in BufRdType
         /\ bRd.state = "READ" /\ bRd'.state # "READ" => (ena \/ flush) /\ rdLst(flush)
         /\ bRd'.tgl # bRd.tgl => bRd.state = "READ" /\ bRd'.state = "WAITRD"
         /\ bRd.state = "WAITRD" /\ bRd'.state # "WAITRD" => s # bRd.tgl
         /\ bRd.state # "WAITRD" /\ bRd'.state = "WAITRD" => bRd'.tgl = ~bRd.tgl
<1> USE DEF BufRdType
<1>1. AddrNext(bRd.raddr) \in Addr
  BY NextAddr
<1>2. CASE bRd.state = "WAITRD"
  <2>1. raddrFirst \in Addr
    BY FirstAddr DEF BufWrType
  <2>2. CASE s # bRd.tgl
    BY <1>2, <2>1, <2>2 DEF BufRdComb
  <2>3. CASE s = bRd.tgl
    BY <1>2, <2>3 DEF BufRdComb
  <2> QED
    BY <2>2, <2>3
<1>3. CASE bRd.state = "PRELD"
  BY <1>1, <1>3 DEF BufRdComb
<1>4. CASE bRd.state = "READ"
  <2>1. CASE ~(ena \/ flush)
    BY <1>4, <2>1 DEF BufRdComb
  <2>2. CASE (ena \/ flush) /\ rdLst(flush)
    <3>1. bRd' = [bRd EXCEPT !.raddr = AddrNext(@), !.state = "WAITRD", !.tgl = ~@]
      BY <1>4, <2>2 DEF BufRdComb
    <3> QED
      BY <1>1, <1>4, <2>2, <3>1
  <2>3. CASE (ena \/ flush) /\ ~rdLst(flush)
    <3>1. bRd' = [bRd EXCEPT !.raddr = AddrNext(@)]
      BY <1>4, <2>3 DEF BufRdComb
    <3> QED
      BY <1>1, <1>4, <3>1
  <2> QED
    BY <2>1, <2>2, <2>3
<1> QED
  BY <1>2, <1>3, <1>4

LEMMA RdataStep ==
  ASSUME bRd \in BufRdType, ram \in [Addr -> Ages], rdata \in Ages,
         NEW ena \in BOOLEAN, NEW flush \in BOOLEAN, NEW offered \in BOOLEAN
  PROVE  /\ rdataNext(ena, flush) \in Ages
         /\ Aged(rdata, offered) \in Ages
         /\ Aged(rdataNext(ena, flush), offered) \in Ages
<1>1. rdataNext(ena, flush) \in Ages
  BY DEF rdataNext, BufRdType
<1>2. \A x \in Ages : Aged(x, offered) \in Ages
  BY MemoryAssumption DEF Aged, Ages, Old
<1> QED
  BY <1>1, <1>2
-----------------------------------------------------------------------------
(* The readout.                                                            *)

\* What an edge leaves in the readout's register: its toggle is the old one or
\* follows w, and if it is about to take a word, or before any flush is still
\* missing one, the buffer has one, and keeps it.
WordKept(rdyOb) ==
  bRd.state = "READ" /\ ~rRd.flush /\ ~(rdEna(rdyOb) /\ rdLst(rRd.flush))
ReadoutGoesOn(rdyOb, w) ==
  /\ rRd' \in RdType
  /\ rRd'.tgl \in {rRd.tgl, w}
  /\ rRd'.flush => rRd'.state = "ECHO"
  /\ rRd'.state = "HDR" => ~rRd'.lst /\ rRd'.byteCnt = 0
  /\ rRd'.state = "READ" /\ rRd'.lst => rRd'.byteCnt # 0
  /\ rRd'.state = "READ" /\ rRd'.byteCnt = 0 => WordKept(rdyOb)
  /\ ~flushed /\ (rRd'.state = "HDR" \/ (rRd'.state = "READ" /\ ~rRd'.lst)) => WordKept(rdyOb)

LEMMA ReadoutEdge ==
  ASSUME rRd \in RdType, Reading, NEW cmd, NEW rdyOb \in BOOLEAN, NEW w \in BOOLEAN,
         RdComb(cmd, rdyOb, rdEmp, rdLst(rRd.flush), w)
  PROVE  ReadoutGoesOn(rdyOb, w)
<1> USE DEF RdType, ReadoutGoesOn, WordKept
<1>1. 0 \in 0 .. NBytes - 1
  BY ReaderAssumption
<1>2. CASE rRd.state = "ECHO"
  <2> DEFINE v == [rRd EXCEPT !.byteCnt = 0, !.vld = TRUE, !.lst = FALSE, !.flush = FALSE]
  <2>1. v \in RdType /\ v.state = "ECHO" /\ v.tgl = rRd.tgl /\ ~v.flush /\ ~v.lst /\ v.byteCnt = 0
    BY <1>1, <1>2
  <2>2. ~rdEna(rdyOb)
    BY <1>2 DEF rdEna
  <2>3. \/ rRd' = v
        \/ rRd' = [v EXCEPT !.state = "MSIZE"]
        \/ rRd' = [v EXCEPT !.state = "MSIZE", !.lst = TRUE]
        \/ rRd' = [v EXCEPT !.state = "HDR"] /\ ~rdEmp
        \/ rRd' = [v EXCEPT !.flush = TRUE, !.tgl = w]
    BY <1>2 DEF RdComb, EchoEdge, MsizeEdge, HdrEdge, ReadEdge, NoCmd
  <2> HIDE DEF v
  <2>4. CASE rRd' = v
    BY <2>1, <2>4
  <2>5. CASE rRd' = [v EXCEPT !.state = "MSIZE"]
    BY <2>1, <2>5
  <2>6. CASE rRd' = [v EXCEPT !.state = "MSIZE", !.lst = TRUE]
    BY <2>1, <2>6
  <2>7. CASE rRd' = [v EXCEPT !.state = "HDR"] /\ ~rdEmp
    <3>1. ~flushed => ~rRd.flush
      BY DEF Reading
    <3> QED
      BY <2>1, <2>2, <2>7, <3>1 DEF rdEmp
  <2>8. CASE rRd' = [v EXCEPT !.flush = TRUE, !.tgl = w]
    BY <2>1, <2>8
  <2> QED
    BY <2>3, <2>4, <2>5, <2>6, <2>7, <2>8
<1>3. /\ rRdNext(rdyOb) \in RdType /\ rRdNext(rdyOb).state = rRd.state /\ ~rRdNext(rdyOb).flush
      /\ rRdNext(rdyOb).lst = rRd.lst /\ rRdNext(rdyOb).tgl = rRd.tgl
      /\ ~rdyOb => rRdNext(rdyOb).byteCnt = rRd.byteCnt
      /\ rdyOb /\ rRd.byteCnt = 0 => rRdNext(rdyOb).byteCnt # 0
  <2>1. /\ (rRd.byteCnt - 1) % NBytes \in 0 .. NBytes - 1
        /\ rRd.byteCnt = 0 => (rRd.byteCnt - 1) % NBytes # 0
    BY ByteCount
  <2>2. CASE rdyOb
    BY <2>1, <2>2 DEF rRdNext
  <2>3. CASE ~rdyOb
    BY <2>3 DEF rRdNext
  <2> QED
    BY <2>2, <2>3
<1> DEFINE n == rRdNext(rdyOb)
<1>4. CASE rRd.state = "MSIZE"
  <2>1. MsizeEdge(rdyOb)
    BY <1>4 DEF RdComb, EchoEdge, HdrEdge, ReadEdge
  <2>2. \/ rRd' = n
        \/ rRd' = [n EXCEPT !.state = "ECHO"]
        \/ rRd' = [n EXCEPT !.vld = TRUE, !.lst = TRUE]
        \/ rRd' = [n EXCEPT !.vld = TRUE, !.lst = FALSE]
    <3>1. CASE ~rdyOb
      BY <2>1, <3>1 DEF MsizeEdge
    <3>2. CASE rdyOb /\ rRd.lst
      BY <2>1, <3>2 DEF MsizeEdge
    <3>3. CASE rdyOb /\ ~rRd.lst /\ rRd.byteCnt # 0
      BY <2>1, <3>3 DEF MsizeEdge
    <3>4. CASE rdyOb /\ ~rRd.lst /\ rRd.byteCnt = 0
      BY <2>1, <3>4 DEF MsizeEdge
    <3> QED
      BY <3>1, <3>2, <3>3, <3>4
  <2> HIDE DEF n
  <2>3. n \in RdType /\ n.state = "MSIZE" /\ ~n.flush /\ n.tgl = rRd.tgl
    BY <1>3, <1>4 DEF n
  <2>4. rRd' \in RdType /\ rRd'.state \in {"MSIZE", "ECHO"} /\ ~rRd'.flush /\ rRd'.tgl = rRd.tgl
    BY <2>2, <2>3
  <2> QED
    BY <2>4
<1>5. CASE rRd.state = "HDR"
  <2>1. HdrEdge(rdyOb)
    BY <1>5 DEF RdComb, EchoEdge, MsizeEdge, ReadEdge
  <2>2. ~rRd.flush /\ ~rdEna(rdyOb) /\ ~rRd.lst /\ rRd.byteCnt = 0 /\ (~flushed => bRd.state = "READ")
    BY <1>5 DEF Reading, rdEna
  <2>3. (rRd' = n /\ n.byteCnt = 0) \/ (rRd' = [n EXCEPT !.state = "READ", !.vld = TRUE] /\ n.byteCnt # 0)
    BY <1>3, <2>1, <2>2 DEF HdrEdge
  <2> HIDE DEF n
  <2>4. n \in RdType /\ n.state = "HDR" /\ ~n.flush /\ ~n.lst /\ n.tgl = rRd.tgl
    BY <1>3, <1>5, <2>2 DEF n
  <2> QED
    BY <2>2, <2>3, <2>4
<1>6. CASE rRd.state = "READ"
  <2>1. ReadEdge(rdyOb, rdEmp, rdLst(rRd.flush), w)
    BY <1>6 DEF RdComb, EchoEdge, MsizeEdge, HdrEdge
  <2> DEFINE v == [n EXCEPT !.byteCnt = IF rdEmp THEN rRd.byteCnt ELSE @,
                            !.vld = IF rdyOb THEN ~rdEmp ELSE @]
  <2>2. /\ ~rRd.flush /\ (rRd.lst => rRd.byteCnt # 0)
        /\ rRd.byteCnt = 0 => bRd.state = "READ"
        /\ ~flushed /\ ~rRd.lst => bRd.state = "READ"
    BY <1>6 DEF Reading
  <2>3. /\ v \in RdType /\ v.state = "READ" /\ ~v.flush /\ v.lst = rRd.lst /\ v.tgl = rRd.tgl
        /\ v.byteCnt = rRd.byteCnt \/ (bRd.state = "READ" /\ v.byteCnt = n.byteCnt)
    <3> HIDE DEF n
    <3>1. n \in RdType /\ n.state = "READ" /\ ~n.flush /\ n.lst = rRd.lst /\ n.tgl = rRd.tgl
      BY <1>3, <1>6 DEF n
    <3>2. CASE rdEmp
      BY <3>1, <3>2
    <3>3. CASE ~rdEmp
      BY <3>1, <3>3 DEF rdEmp
    <3> QED
      BY <3>2, <3>3
  <2>4. CASE ~rdyOb
    <3>1. rRd' = v /\ ~rdEna(rdyOb)
      BY <2>1, <2>4 DEF ReadEdge, rdEna
    <3>2. v.byteCnt = rRd.byteCnt
      BY <1>3, <2>3, <2>4
    <3> HIDE DEF v
    <3> QED
      BY <2>2, <2>3, <3>1, <3>2
  <2>5. CASE rdyOb /\ rRd.byteCnt = 0
    <3>1. ~rRd.lst /\ bRd.state = "READ"
      BY <2>2, <2>5
    <3>2. v.byteCnt # 0
      BY <1>3, <2>5, <3>1 DEF rdEmp
    <3>3. CASE rdLst(rRd.flush)
      <4>1. rRd' = [v EXCEPT !.lst = TRUE]
        BY <2>1, <2>5, <3>3 DEF ReadEdge
      <4> HIDE DEF v
      <4> QED
        BY <2>3, <3>2, <4>1
    <3>4. CASE ~rdLst(rRd.flush)
      <4>1. rRd' = [v EXCEPT !.lst = FALSE]
        <5>1. rdLst(rRd.flush) = FALSE
          BY <3>4 DEF rdLst
        <5>2. rRd' = [v EXCEPT !.lst = rdLst(rRd.flush)]
          BY <2>1, <2>5 DEF ReadEdge
        <5> QED
          BY <5>1, <5>2
      <4> HIDE DEF v
      <4> QED
        BY <2>2, <2>3, <3>1, <3>4, <4>1
    <3> QED
      BY <3>3, <3>4
  <2>6. CASE rdyOb /\ rRd.byteCnt # 0 /\ rRd.lst
    <3>1. rRd' = [v EXCEPT !.state = "ECHO", !.tgl = w]
      BY <2>1, <2>6 DEF ReadEdge
    <3> HIDE DEF v
    <3> QED
      BY <2>3, <3>1
  <2>7. CASE rdyOb /\ rRd.byteCnt # 0 /\ ~rRd.lst
    <3>1. rRd' = v /\ ~rdEna(rdyOb)
      BY <2>1, <2>7 DEF ReadEdge, rdEna
    <3> HIDE DEF v
    <3> QED
      BY <2>2, <2>3, <2>7, <3>1
  <2> QED
    BY <2>4, <2>5, <2>6, <2>7
<1> QED
  BY <1>2, <1>4, <1>5, <1>6
-----------------------------------------------------------------------------
(* Edges of one clock.                                                     *)

\* The owner of a ring waits as long as the ring is not at rest.
LEMMA OwnerWaits ==
  ASSUME NEW a \in BOOLEAN, NEW b \in BOOLEAN,
         NEW there \in BOOLEAN \X BOOLEAN, NEW back \in BOOLEAN \X BOOLEAN,
         Ring(a, there, b, back),
         NEW aNew \in BOOLEAN, NEW bNew \in BOOLEAN,
         NEW backNew \in {back, <<b, back[1]>>, <<bNew, back[1]>>},
         NEW waits \in BOOLEAN, NEW waitsNew \in BOOLEAN,
         back[2] # a => waits,
         aNew # a => ~waits /\ waitsNew,
         waits /\ ~waitsNew => back[2] = a
  PROVE  backNew[2] # aNew => waitsNew
<1>1. backNew[2] = back[1] \/ backNew[2] = back[2]
  OBVIOUS
<1>2. CASE aNew # a
  BY <1>2
<1>3. CASE aNew = a /\ back[2] = a
  BY <1>1, <1>3 DEF Ring
<1>4. CASE aNew = a /\ back[2] # a
  BY <1>4
<1> QED
  BY <1>2, <1>3, <1>4

\* What the memory clock changes.
MemStep ==
  /\ rWr' \in WrType /\ Counted' /\ sinceStart' \in 0 .. TRG_LATENCY
  /\ RecorderHandsOver
  /\ bWr' \in BufWrType /\ waddr' \in Addr /\ ram' \in [Addr -> Ages]
  /\ bWr'.tgl # bWr.tgl => bWr.state # "HALT" /\ bWr'.state = "HALT"
  /\ bWr.state = "HALT" /\ bWr'.state # "HALT" => rdTglSync[2] = bWr.tgl

LEMMA Typed ==
  ASSUME TypeOK
  PROVE  /\ rWr \in WrType /\ rRd \in RdType /\ bWr \in BufWrType /\ bRd \in BufRdType
         /\ waddr \in Addr /\ ram \in [Addr -> Ages] /\ rdata \in Ages
         /\ rdTgl \in BOOLEAN \X BOOLEAN /\ wrTgl \in BOOLEAN \X BOOLEAN
         /\ rdTglSync \in BOOLEAN \X BOOLEAN /\ wrTglSync \in BOOLEAN \X BOOLEAN
         /\ rWr.tgl \in BOOLEAN /\ rRd.tgl \in BOOLEAN /\ bWr.tgl \in BOOLEAN /\ bRd.tgl \in BOOLEAN
         /\ rRd.flush \in BOOLEAN
         /\ sinceStart \in 0 .. TRG_LATENCY
  BY DEF TypeOK, BufTypeOK, BufWrType, BufRdType, WrType, RdType

LEMMA MemEdge ==
  ASSUME IInv, NEW wrDecm \in BOOLEAN, NEW parm \in BOOLEAN, NEW trg \in BOOLEAN,
         MemClk(wrDecm, parm, trg)
  PROVE  MemStep
<1> USE Typed DEF IInv
<1>1. wrEna(wrDecm) \in BOOLEAN /\ rdTglSync[2] \in BOOLEAN
  BY DEF wrEna
<1>2. /\ rWr' \in WrType /\ Counted' /\ sinceStart' \in 0 .. TRG_LATENCY
      /\ RecorderHandsOver
  BY RecorderEdge DEF MemClk
<1>3. BufWrComb(wrEna(wrDecm), wrCmd, wrCmdDat, rdTglSync[2]) /\ BufWrRam(wrEna(wrDecm), wrCmd)
  BY DEF MemClk
<1> HIDE DEF IInv
<1>4. /\ bWr' \in BufWrType
      /\ bWr'.tgl # bWr.tgl => bWr.state = "NSMPLS_HI" /\ bWr'.state = "HALT"
      /\ bWr.state = "HALT" /\ bWr'.state # "HALT" => rdTglSync[2] = bWr.tgl
  BY <1>1, <1>3, BufWrEdge DEF IInv
<1>5. waddr' \in Addr /\ ram' \in [Addr -> Ages]
  BY <1>1, <1>3, BufRamEdge DEF IInv
<1> QED
  BY <1>2, <1>4, <1>5 DEF MemStep

\* What the bus clock changes.
BusStep ==
  /\ rRd' \in RdType /\ rRd'.tgl \in {rRd.tgl, wrTgl[2]} /\ Reading'
  /\ bRd' \in BufRdType /\ bRd'.tgl \in {bRd.tgl, wrTglSync[2]}
  /\ bRd'.state # "WAITRD" => bRd'.tgl = bRd.tgl /\ wrTglSync[2] # bRd.tgl
  /\ got' \in 0 .. MemDepth /\ flushed' \in BOOLEAN

LEMMA BusEdgeStep ==
  ASSUME IInv, NEW cmd, NEW rdyOb \in BOOLEAN, BusClk(cmd, rdyOb)
  PROVE  BusStep
<1> USE Typed
<1>1. TypeOK /\ Reading /\ BufferRing
  BY DEF IInv
<1>2. /\ RdComb(cmd, rdyOb, rdEmp, rdLst(rRd.flush), wrTgl[2])
      /\ BufRdComb(rdEna(rdyOb), rRd.flush, wrTglSync[2])
  BY DEF BusClk
<1>3. rdEna(rdyOb) \in BOOLEAN /\ wrTgl[2] \in BOOLEAN /\ wrTglSync[2] \in BOOLEAN
  BY <1>1 DEF rdEna
<1>4. ReadoutGoesOn(rdyOb, wrTgl[2])
  BY <1>1, <1>2, <1>3, ReadoutEdge
<1>5. /\ bRd' \in BufRdType
      /\ bRd.state = "READ" /\ bRd'.state # "READ" =>
           (rdEna(rdyOb) \/ rRd.flush) /\ rdLst(rRd.flush)
      /\ bRd'.tgl # bRd.tgl => bRd.state = "READ" /\ bRd'.state = "WAITRD"
      /\ bRd.state = "WAITRD" /\ bRd'.state # "WAITRD" => wrTglSync[2] # bRd.tgl
  BY <1>1, <1>2, <1>3, BufRdEdge
<1>6. rRd' \in RdType /\ rRd'.tgl \in {rRd.tgl, wrTgl[2]}
  BY <1>4 DEF ReadoutGoesOn
<1>7. Reading'
  <2>1. (rRd'.flush => flushed') /\ (~flushed' => ~flushed)
    BY DEF BusClk
  <2>2. WordKept(rdyOb) => bRd'.state = "READ"
    BY <1>5 DEF WordKept
  <2> QED
    BY <1>4, <2>1, <2>2 DEF Reading, ReadoutGoesOn
<1>8. bRd'.tgl \in {bRd.tgl, wrTglSync[2]}
  <2>1. bRd'.tgl \in BOOLEAN /\ bRd.tgl \in BOOLEAN
    BY <1>1, <1>5 DEF BufRdType
  <2>2. bRd'.tgl # bRd.tgl => wrTglSync[2] # bRd.tgl
    BY <1>1, <1>5 DEF BufferRing
  <2> QED
    BY <1>3, <2>1, <2>2
<1>9. bRd'.state # "WAITRD" => bRd'.tgl = bRd.tgl /\ wrTglSync[2] # bRd.tgl
  BY <1>1, <1>5 DEF BufferRing
<1>10. got' \in 0 .. MemDepth
  <2>1. got \in 0 .. MemDepth /\ MemDepth \in Nat
    BY <1>1, MemoryAssumption DEF TypeOK
  <2>2. got' \in {0, got} \/ (got < MemDepth /\ got' = got + 1)
    BY DEF BusClk
  <2> QED
    BY <2>1, <2>2
<1>11. flushed' \in BOOLEAN
  <2>1. flushed' = (flushed \/ rRd'.flush) /\ flushed \in BOOLEAN /\ rRd'.flush \in BOOLEAN
    BY <1>1, <1>6 DEF BusClk, TypeOK, RdType
  <2> QED
    BY <2>1
<1> QED
  BY <1>5, <1>6, <1>7, <1>8, <1>9, <1>10, <1>11 DEF BusStep
-----------------------------------------------------------------------------
(* The rings at an edge of either clock or of both.                        *)

LEMMA RecorderRingStep ==
  ASSUME IInv, rWr' \in WrType, RecorderHandsOver,
         rRd' \in RdType, rRd'.tgl \in {rRd.tgl, wrTgl[2]},
         wrTgl' \in {wrTgl, <<rWr.tgl, wrTgl[1]>>, <<rWr'.tgl, wrTgl[1]>>},
         rdTgl' \in {rdTgl, <<rRd.tgl, rdTgl[1]>>, <<rRd'.tgl, rdTgl[1]>>}
  PROVE  RecorderRing' /\ wrTgl' \in BOOLEAN \X BOOLEAN /\ rdTgl' \in BOOLEAN \X BOOLEAN
<1>1. TypeOK /\ RecorderRing
  BY DEF IInv
<1>2. /\ rWr.tgl \in BOOLEAN /\ rRd.tgl \in BOOLEAN
      /\ wrTgl \in BOOLEAN \X BOOLEAN /\ rdTgl \in BOOLEAN \X BOOLEAN
  BY <1>1, Typed
<1>3. rWr'.tgl \in BOOLEAN /\ rRd'.tgl \in BOOLEAN
  BY DEF WrType, RdType
<1>4. /\ Ring(rWr.tgl, wrTgl, rRd.tgl, rdTgl)
      /\ rdTgl[2] # rWr.tgl => rWr.state = "HOLD"
  BY <1>1 DEF RecorderRing
<1>5. rWr'.tgl # rWr.tgl => rdTgl[2] = rWr.tgl
  BY <1>4 DEF RecorderHandsOver
<1>6. /\ Ring(rWr'.tgl, wrTgl', rRd'.tgl, rdTgl')
      /\ wrTgl' \in BOOLEAN \X BOOLEAN /\ rdTgl' \in BOOLEAN \X BOOLEAN
  <2> DEFINE a == rWr.tgl
             aNew == rWr'.tgl
             b == rRd.tgl
             bNew == rRd'.tgl
             there == wrTgl
             thereNew == wrTgl'
             back == rdTgl
             backNew == rdTgl'
  <2>1. /\ a \in BOOLEAN /\ b \in BOOLEAN /\ aNew \in BOOLEAN
        /\ there \in BOOLEAN \X BOOLEAN /\ back \in BOOLEAN \X BOOLEAN
        /\ Ring(a, there, b, back) /\ (aNew # a => back[2] = a)
    BY <1>2, <1>3, <1>4, <1>5
  <2>2. /\ bNew \in {b, there[2]}
        /\ thereNew \in {there, <<a, there[1]>>, <<aNew, there[1]>>}
        /\ backNew \in {back, <<b, back[1]>>, <<bNew, back[1]>>}
    OBVIOUS
  <2> HIDE DEF a, aNew, b, bNew, there, thereNew, back, backNew
  <2>3. bNew \in BOOLEAN
    BY <2>1, <2>2
  <2>4. /\ thereNew \in BOOLEAN \X BOOLEAN
        /\ \/ thereNew[1] = there[1] /\ thereNew[2] = there[2]
           \/ (thereNew[1] = a \/ thereNew[1] = aNew) /\ thereNew[2] = there[1]
    BY <2>1, <2>2, Synchronizer
  <2>5. /\ backNew \in BOOLEAN \X BOOLEAN
        /\ \/ backNew[1] = back[1] /\ backNew[2] = back[2]
           \/ (backNew[1] = b \/ backNew[1] = bNew) /\ backNew[2] = back[1]
    BY <2>1, <2>2, <2>3, Synchronizer
  <2>6. Ring(aNew, thereNew, bNew, backNew)
    BY <2>1, <2>2, <2>3, <2>4, <2>5 DEF Ring
  <2> QED
    BY <2>4, <2>5, <2>6 DEF aNew, bNew, thereNew, backNew
<1>7. rdTgl'[2] # rWr'.tgl => rWr'.state = "HOLD"
  <2> DEFINE waits == rWr.state = "HOLD"
             waitsNew == rWr'.state = "HOLD"
  <2>1. /\ waits \in BOOLEAN /\ waitsNew \in BOOLEAN
        /\ rdTgl[2] # rWr.tgl => waits
        /\ rWr'.tgl # rWr.tgl => ~waits /\ waitsNew
        /\ waits /\ ~waitsNew => rdTgl[2] = rWr.tgl
    BY <1>4 DEF RecorderHandsOver
  <2> HIDE DEF waits, waitsNew
  <2>2. rdTgl'[2] # rWr'.tgl => waitsNew
    BY <1>2, <1>3, <1>4, <2>1, OwnerWaits
  <2> QED
    BY <2>2 DEF waitsNew
<1> QED
  BY <1>6, <1>7 DEF RecorderRing

LEMMA BufferRingStep ==
  ASSUME IInv, bWr' \in BufWrType, bRd' \in BufRdType,
         bWr'.tgl # bWr.tgl => bWr.state # "HALT" /\ bWr'.state = "HALT",
         bWr.state = "HALT" /\ bWr'.state # "HALT" => rdTglSync[2] = bWr.tgl,
         bRd'.tgl \in {bRd.tgl, wrTglSync[2]},
         bRd'.state # "WAITRD" => bRd'.tgl = bRd.tgl /\ wrTglSync[2] # bRd.tgl,
         wrTglSync' \in {wrTglSync, <<bWr.tgl, wrTglSync[1]>>, <<bWr'.tgl, wrTglSync[1]>>},
         rdTglSync' \in {rdTglSync, <<bRd.tgl, rdTglSync[1]>>, <<bRd'.tgl, rdTglSync[1]>>}
  PROVE  /\ BufferRing'
         /\ wrTglSync' \in BOOLEAN \X BOOLEAN /\ rdTglSync' \in BOOLEAN \X BOOLEAN
<1>1. TypeOK /\ BufferRing
  BY DEF IInv
<1>2. /\ bWr.tgl \in BOOLEAN /\ bRd.tgl \in BOOLEAN
      /\ wrTglSync \in BOOLEAN \X BOOLEAN /\ rdTglSync \in BOOLEAN \X BOOLEAN
  BY <1>1, Typed
<1>3. bWr'.tgl \in BOOLEAN /\ bRd'.tgl \in BOOLEAN
  BY DEF BufWrType, BufRdType
<1>4. /\ Ring(bWr.tgl, wrTglSync, bRd.tgl, rdTglSync)
      /\ rdTglSync[2] # bWr.tgl => bWr.state = "HALT"
  BY <1>1 DEF BufferRing
<1>5. bWr'.tgl # bWr.tgl => rdTglSync[2] = bWr.tgl
  BY <1>4
<1>6. /\ Ring(bWr'.tgl, wrTglSync', bRd'.tgl, rdTglSync')
      /\ wrTglSync' \in BOOLEAN \X BOOLEAN /\ rdTglSync' \in BOOLEAN \X BOOLEAN
  <2> DEFINE a == bWr.tgl
             aNew == bWr'.tgl
             b == bRd.tgl
             bNew == bRd'.tgl
             there == wrTglSync
             thereNew == wrTglSync'
             back == rdTglSync
             backNew == rdTglSync'
  <2>1. /\ a \in BOOLEAN /\ b \in BOOLEAN /\ aNew \in BOOLEAN
        /\ there \in BOOLEAN \X BOOLEAN /\ back \in BOOLEAN \X BOOLEAN
        /\ Ring(a, there, b, back) /\ (aNew # a => back[2] = a)
    BY <1>2, <1>3, <1>4, <1>5
  <2>2. /\ bNew \in {b, there[2]}
        /\ thereNew \in {there, <<a, there[1]>>, <<aNew, there[1]>>}
        /\ backNew \in {back, <<b, back[1]>>, <<bNew, back[1]>>}
    OBVIOUS
  <2> HIDE DEF a, aNew, b, bNew, there, thereNew, back, backNew
  <2>3. bNew \in BOOLEAN
    BY <2>1, <2>2
  <2>4. /\ thereNew \in BOOLEAN \X BOOLEAN
        /\ \/ thereNew[1] = there[1] /\ thereNew[2] = there[2]
           \/ (thereNew[1] = a \/ thereNew[1] = aNew) /\ thereNew[2] = there[1]
    BY <2>1, <2>2, Synchronizer
  <2>5. /\ backNew \in BOOLEAN \X BOOLEAN
        /\ \/ backNew[1] = back[1] /\ backNew[2] = back[2]
           \/ (backNew[1] = b \/ backNew[1] = bNew) /\ backNew[2] = back[1]
    BY <2>1, <2>2, <2>3, Synchronizer
  <2>6. Ring(aNew, thereNew, bNew, backNew)
    BY <2>1, <2>2, <2>3, <2>4, <2>5 DEF Ring
  <2> QED
    BY <2>4, <2>5, <2>6 DEF aNew, bNew, thereNew, backNew
<1>7. rdTglSync'[2] # bWr'.tgl => bWr'.state = "HALT"
  <2> DEFINE waits == bWr.state = "HALT"
             waitsNew == bWr'.state = "HALT"
  <2>1. /\ waits \in BOOLEAN /\ waitsNew \in BOOLEAN
        /\ rdTglSync[2] # bWr.tgl => waits
        /\ bWr'.tgl # bWr.tgl => ~waits /\ waitsNew
        /\ waits /\ ~waitsNew => rdTglSync[2] = bWr.tgl
    BY <1>4
  <2> HIDE DEF waits, waitsNew
  <2>2. rdTglSync'[2] # bWr'.tgl => waitsNew
    BY <1>2, <1>3, <1>4, <2>1, OwnerWaits
  <2> QED
    BY <2>2 DEF waitsNew
<1>8. ASSUME bRd'.state # "WAITRD" PROVE wrTglSync'[2] # bRd'.tgl
  <2>1. bRd'.tgl = bRd.tgl /\ wrTglSync[2] # bRd.tgl
    BY <1>8
  <2>2. wrTglSync[1] = bWr.tgl /\ wrTglSync[2] = bWr.tgl
    BY <1>2, <1>4, <2>1, RingWaits
  <2>3. wrTglSync'[2] \in {wrTglSync[1], wrTglSync[2]}
    OBVIOUS
  <2> QED
    BY <2>1, <2>2, <2>3
<1> QED
  BY <1>6, <1>7, <1>8 DEF BufferRing
-----------------------------------------------------------------------------
(* The invariant.                                                          *)

LEMMA IInvInit == Init => IInv
<1> SUFFICES ASSUME Init PROVE IInv
  OBVIOUS
<1>1. PICK p \in Parms : rWr = WR_REG_INIT(p)
  BY DEF Init
<1>2. rWr \in WrType /\ rWr.state = "INIT" /\ rWr.tgl = FALSE
  BY <1>1, MemoryAssumption DEF WR_REG_INIT, WrType, WrStates
<1>3. rRd \in RdType /\ rRd.state = "ECHO" /\ rRd.tgl = FALSE /\ rRd.flush = FALSE
  BY ReaderAssumption DEF Init, RD_REG_INIT, RdType
<1>4. BufTypeOK /\ bWr.tgl = FALSE /\ bRd.tgl = FALSE /\ bRd.state = "WAITRD"
  BY MemoryAssumption DEF Init, BufInit, BufTypeOK, Addr, RamAddr, Ages, Old
<1>5. rdTgl = <<FALSE, FALSE>> /\ wrTgl = <<FALSE, FALSE>>
      /\ rdTglSync = <<FALSE, FALSE>> /\ wrTglSync = <<FALSE, FALSE>>
  BY DEF Init
<1>6. TypeOK
  <2>1. {rdTgl, wrTgl, rdTglSync, wrTglSync} \subseteq BOOLEAN \X BOOLEAN
    <3>1. <<FALSE, FALSE>> \in BOOLEAN \X BOOLEAN
      OBVIOUS
    <3> QED
      BY <1>5, <3>1
  <2>2. sinceStart = 0 /\ got = 0 /\ flushed = FALSE /\ wrLead = 0 /\ rdLead = 0
    BY DEF Init
  <2>3. /\ sinceStart \in 0 .. TRG_LATENCY /\ got \in 0 .. MemDepth
        /\ wrLead \in 0 .. WrPerRd /\ rdLead \in 0 .. RdPerWr
    BY <2>2, MemoryAssumption, EnvAssumption DEF TRG_LATENCY
  <2>4. flushed \in BOOLEAN
    BY <2>2
  <2> QED
    BY <1>2, <1>3, <1>4, <2>1, <2>3, <2>4 DEF TypeOK
<1>7. RecorderRing /\ BufferRing
  BY <1>2, <1>3, <1>4, <1>5 DEF RecorderRing, BufferRing, Ring
<1>8. Counted /\ Reading
  BY <1>2, <1>3 DEF Counted, Reading, Init
<1> QED
  BY <1>6, <1>7, <1>8 DEF IInv

\* What an edge does to one side holds of a side that does not move.
LEMMA MemStands ==
  ASSUME IInv, UNCHANGED <<rWr, bWr, waddr, ram, sinceStart>>
  PROVE  MemStep
<1>1. TypeOK /\ Counted
  BY DEF IInv
<1> QED
  BY <1>1, Typed DEF MemStep, RecorderHandsOver, Counted, WrType, WrStates

LEMMA BusStands ==
  ASSUME IInv, UNCHANGED <<rRd, bRd, got, flushed>>
  PROVE  BusStep
<1>1. TypeOK /\ Reading /\ BufferRing
  BY DEF IInv
<1>2. Reading'
  BY <1>1 DEF Reading
<1>3. got' \in 0 .. MemDepth /\ flushed' \in BOOLEAN
  BY <1>1 DEF TypeOK
<1>4. bRd'.state # "WAITRD" => bRd'.tgl = bRd.tgl /\ wrTglSync[2] # bRd.tgl
  BY <1>1 DEF BufferRing
<1> QED
  BY <1>1, <1>2, <1>3, <1>4, Typed DEF BusStep

\* Both sides' steps, and what the synchronizers may take, keep the invariant.
LEMMA StepsKeepIInv ==
  ASSUME IInv, MemStep, BusStep, rdata' \in Ages,
         wrLead' \in 0 .. WrPerRd, rdLead' \in 0 .. RdPerWr,
         wrTgl' \in {wrTgl, <<rWr.tgl, wrTgl[1]>>, <<rWr'.tgl, wrTgl[1]>>},
         rdTgl' \in {rdTgl, <<rRd.tgl, rdTgl[1]>>, <<rRd'.tgl, rdTgl[1]>>},
         wrTglSync' \in {wrTglSync, <<bWr.tgl, wrTglSync[1]>>, <<bWr'.tgl, wrTglSync[1]>>},
         rdTglSync' \in {rdTglSync, <<bRd.tgl, rdTglSync[1]>>, <<bRd'.tgl, rdTglSync[1]>>}
  PROVE  IInv'
<1>1. RecorderRing' /\ wrTgl' \in BOOLEAN \X BOOLEAN /\ rdTgl' \in BOOLEAN \X BOOLEAN
  BY RecorderRingStep DEF MemStep, BusStep
<1>2. /\ BufferRing'
      /\ wrTglSync' \in BOOLEAN \X BOOLEAN /\ rdTglSync' \in BOOLEAN \X BOOLEAN
  BY BufferRingStep DEF MemStep, BusStep
<1>3. BufTypeOK'
  BY DEF MemStep, BusStep, BufTypeOK, BufWrType, BufRdType
<1>4. TypeOK'
  BY <1>1, <1>2, <1>3 DEF MemStep, BusStep, TypeOK
<1> QED
  BY <1>1, <1>2, <1>4 DEF MemStep, BusStep, IInv

LEMMA IInvStep == IInv /\ [Next]_vars => IInv'
<1> SUFFICES ASSUME IInv, [Next]_vars PROVE IInv'
  OBVIOUS
<1> DEFINE Commanded == Commands \union {NoCmd}
<1>1. TypeOK
  BY DEF IInv
<1>2. /\ wrLead \in 0 .. WrPerRd /\ rdLead \in 0 .. RdPerWr
      /\ WrPerRd \in Nat \ {0} /\ RdPerWr \in Nat \ {0}
      /\ \A d \in Decimated : d \in BOOLEAN
  BY <1>1, EnvAssumption DEF TypeOK
<1>3. /\ bRd \in BufRdType /\ ram \in [Addr -> Ages] /\ rdata \in Ages /\ rRd.flush \in BOOLEAN
  BY <1>1, Typed
<1>4. ASSUME NEW wrDecm \in BOOLEAN, NEW parm \in BOOLEAN, NEW trg \in BOOLEAN,
             WrEdge(wrDecm, parm, trg)
      PROVE  IInv'
  <2>1. MemStep
    BY <1>4, MemEdge DEF WrEdge
  <2>2. BusStep
    BY <1>4, BusStands DEF WrEdge, rdVars
  <2>3. Offered(wrDecm) \in BOOLEAN
    BY DEF Offered
  <2>4. rdata' \in Ages
    BY <1>3, <1>4, <2>3, RdataStep DEF WrEdge
  <2>5. wrLead' \in 0 .. WrPerRd /\ rdLead' \in 0 .. RdPerWr
    BY <1>2, <1>4 DEF WrEdge, MemClk
  <2>6. /\ rdTgl' = <<rRd.tgl, rdTgl[1]>> /\ rdTglSync' = <<bRd.tgl, rdTglSync[1]>>
        /\ wrTgl' = wrTgl /\ wrTglSync' = wrTglSync
    BY <1>4 DEF WrEdge, WrSync, rdVars
  <2> QED
    BY <2>1, <2>2, <2>4, <2>5, <2>6, StepsKeepIInv
<1>5. ASSUME NEW cmd, NEW rdyOb \in BOOLEAN, RdEdge(cmd, rdyOb)
      PROVE  IInv'
  <2>1. BusStep
    BY <1>5, BusEdgeStep DEF RdEdge
  <2>2. MemStep
    BY <1>5, MemStands DEF RdEdge, wrVars
  <2>3. rdEna(rdyOb) \in BOOLEAN
    BY DEF rdEna
  <2>4. rdata' \in Ages
    BY <1>3, <1>5, <2>3, RdataStep DEF RdEdge
  <2>5. wrLead' \in 0 .. WrPerRd /\ rdLead' \in 0 .. RdPerWr
    BY <1>2, <1>5 DEF RdEdge, BusClk
  <2>6. /\ wrTgl' = <<rWr.tgl, wrTgl[1]>> /\ wrTglSync' = <<bWr.tgl, wrTglSync[1]>>
        /\ rdTgl' = rdTgl /\ rdTglSync' = rdTglSync
    BY <1>5 DEF RdEdge, RdSync, wrVars
  <2> QED
    BY <2>1, <2>2, <2>4, <2>5, <2>6, StepsKeepIInv
<1>6. ASSUME NEW wrDecm \in BOOLEAN, NEW parm \in BOOLEAN, NEW trg \in BOOLEAN,
             NEW cmd, NEW rdyOb \in BOOLEAN,
             BothEdges(wrDecm, parm, trg, cmd, rdyOb)
      PROVE  IInv'
  <2>1. MemStep
    BY <1>6, MemEdge DEF BothEdges
  <2>2. BusStep
    BY <1>6, BusEdgeStep DEF BothEdges
  <2>3. Offered(wrDecm) \in BOOLEAN /\ rdEna(rdyOb) \in BOOLEAN
    BY DEF Offered, rdEna
  <2>4. rdata' \in Ages
    BY <1>3, <1>6, <2>3, RdataStep DEF BothEdges
  <2>5. wrLead' \in 0 .. WrPerRd /\ rdLead' \in 0 .. RdPerWr
    BY <1>2, <1>6 DEF BothEdges
  <2>6. /\ rdTgl' \in {rdTgl, <<rRd.tgl, rdTgl[1]>>, <<rRd'.tgl, rdTgl[1]>>}
        /\ rdTglSync' \in {rdTglSync, <<bRd.tgl, rdTglSync[1]>>, <<bRd'.tgl, rdTglSync[1]>>}
    BY <1>6 DEF BothEdges, WrSync
  <2>7. /\ wrTgl' \in {wrTgl, <<rWr.tgl, wrTgl[1]>>, <<rWr'.tgl, wrTgl[1]>>}
        /\ wrTglSync' \in {wrTglSync, <<bWr.tgl, wrTglSync[1]>>, <<bWr'.tgl, wrTglSync[1]>>}
    BY <1>6 DEF BothEdges, RdSync
  <2> QED
    BY <2>1, <2>2, <2>4, <2>5, <2>6, <2>7, StepsKeepIInv
<1>7. ASSUME UNCHANGED vars PROVE IInv'
  <2>1. MemStep /\ BusStep
    BY <1>7, MemStands, BusStands DEF vars, wrVars, rdVars
  <2>2. /\ rdata' \in Ages /\ wrLead' \in 0 .. WrPerRd /\ rdLead' \in 0 .. RdPerWr
        /\ rdTgl' = rdTgl /\ rdTglSync' = rdTglSync /\ wrTgl' = wrTgl /\ wrTglSync' = wrTglSync
    BY <1>2, <1>3, <1>7 DEF vars, wrVars, rdVars
  <2> QED
    BY <2>1, <2>2, StepsKeepIInv
<1> QED
  BY <1>2, <1>4, <1>5, <1>6, <1>7 DEF Next

LEMMA Inductive == Spec => []IInv
  BY IInvInit, IInvStep, PTL DEF Spec
-----------------------------------------------------------------------------
(* The window.  Until a flush is asked for, the two rings move together:    *)
(* recorder and buffer hand over at the same edge, and wherever the answer *)
(* to the recorder has come, the answer to the buffer has come before.  So *)
(* the buffer records whenever the recorder counts, and nothing moves      *)
(* while words are taken, whatever the two clocks do.                      *)

\* The n-th last word of the ring.
Back(n) == IF n <= waddr THEN waddr - n ELSE waddr - n + MemDepth

\* The last n words are the last n samples.
Newest(n) == \A i \in 1 .. n : ram[Back(i)] = i - 1

\* Recorder and write side of the buffer move together: what the recorder
\* counted is in the memory, and both stop words arrive.
Recorded ==
  /\ rWr.tgl = bWr.tgl
  /\ rWr.state = "STOP2" <=> bWr.state = "NSMPLS_HI"
  /\ bWr.state = "HALT" => rWr.state = "HOLD"
  /\ rWr.state \in {"STOP1", "STOP2", "HOLD"} => rWr.nsmpls >= 1
  /\ bWr.state = "NSMPLS_HI" =>
       IF AddrSpace > LoWord THEN bWr.nsmpl % LoWord = rWr.nsmpls % LoWord
                             ELSE bWr.nsmpl = rWr.nsmpls % AddrSpace
  /\ bWr.state = "HALT" => bWr.nsmpl = rWr.nsmpls % AddrSpace
  /\ Newest(rWr.nsmpls)

\* Wherever the release of the recorder has come, that of the buffer has come.
Followed ==
  /\ rRd.tgl = rWr.tgl => bRd.tgl = rWr.tgl
  /\ rdTgl[1] = rWr.tgl => rdTglSync[1] = rWr.tgl
  /\ rdTgl[2] = rWr.tgl => rdTglSync[2] = rWr.tgl
  /\ rRd.state = "READ" /\ rRd.lst => rRd.tgl # rWr.tgl /\ bRd.tgl = rWr.tgl

\* The words taken from the buffer, and where the next one is.
Taken == IF rRd.state = "READ" THEN got ELSE 0

Located ==
  /\ rRd.state = "HDR" => got = 0
  /\ bRd.state = "PRELD" => bRd.raddr = Back(Size)
  /\ bRd.state = "READ" =>
       /\ Taken < Size
       /\ bRd.raddr = Back(Size - 1 - Taken) /\ rdata = Size - 1 - Taken

WInv ==
  /\ rRd.flush => flushed
  /\ ~flushed => Recorded /\ Followed /\ Located
-----------------------------------------------------------------------------
LEMMA BackAddr ==
  ASSUME waddr \in Addr, NEW n \in 0 .. MemDepth
  PROVE  /\ Back(n) \in Addr
         /\ Back(n) = waddr <=> n \in {0, MemDepth}
         /\ n # 0 => AddrNext(Back(n)) = Back(n - 1)
         /\ \A i \in 0 .. MemDepth : Back(i) = Back(n) => i = n \/ {i, n} = {0, MemDepth}
<1>1. MemDepth \in Nat \ {0} /\ waddr \in 0 .. MemDepth - 1
  BY MemoryAssumption DEF Addr
<1>2. Back(n) \in Addr /\ (Back(n) = waddr <=> n \in {0, MemDepth})
  BY <1>1 DEF Back, Addr
<1>3. n # 0 => AddrNext(Back(n)) = Back(n - 1)
  BY <1>1 DEF Back, AddrNext
<1>4. ASSUME NEW i \in 0 .. MemDepth, Back(i) = Back(n), i # n PROVE {i, n} = {0, MemDepth}
  <2>1. (i = 0 /\ n = MemDepth) \/ (n = 0 /\ i = MemDepth)
    BY <1>1, <1>4 DEF Back
  <2> QED
    BY <2>1
<1> QED
  BY <1>2, <1>3, <1>4

\* The read side begins with the oldest of the samples it was told of.
LEMMA FirstIsOldest ==
  ASSUME waddr \in Addr, NEW n \in 1 .. MemDepth, bWr.nsmpl = n % AddrSpace
  PROVE  raddrFirst = Back(n)
<1>1. /\ MemDepth \in Nat \ {0} /\ AddrSpace \in Nat \ {0} /\ MemDepth <= AddrSpace
      /\ waddr \in 0 .. MemDepth - 1
  BY MemoryAssumption DEF Addr
<1>2. CASE AddrSpace > MemDepth
  <2>1. n \in 0 .. AddrSpace - 1
    BY <1>1, <1>2
  <2>2. bWr.nsmpl = n
    BY <1>1, <2>1, SmallMod
  <2>3. CASE n = MemDepth
    BY <1>1, <1>2, <2>2, <2>3 DEF raddrFirst, Back
  <2>4. CASE n # MemDepth /\ n > waddr
    <3>1. waddr - n + MemDepth \in 0 .. AddrSpace - 1
      BY <1>1, <2>4
    <3>2. (waddr - n + MemDepth) % AddrSpace = waddr - n + MemDepth
      BY <1>1, <3>1, SmallMod
    <3>3. ~(n >= MemDepth)
      BY <1>1, <2>4
    <3> QED
      BY <1>1, <1>2, <2>2, <2>4, <3>2, <3>3 DEF raddrFirst, Back
  <2>5. CASE n # MemDepth /\ ~(n > waddr)
    <3>1. waddr - n \in 0 .. AddrSpace - 1
      BY <1>1, <2>5
    <3>2. (waddr - n) % AddrSpace = waddr - n
      BY <1>1, <3>1, SmallMod
    <3>3. ~(n >= MemDepth) /\ n <= waddr
      BY <1>1, <2>5
    <3> QED
      BY <1>1, <2>2, <2>5, <3>2, <3>3 DEF raddrFirst, Back
  <2> QED
    BY <2>3, <2>4, <2>5
<1>3. CASE AddrSpace = MemDepth
  <2>1. raddrFirst = (waddr - bWr.nsmpl) % AddrSpace
    BY <1>1, <1>3 DEF raddrFirst
  <2>2. CASE n = MemDepth
    <3>1. MemDepth % MemDepth = 0 /\ waddr % MemDepth = waddr
      BY <1>1
    <3> QED
      BY <1>1, <1>3, <2>1, <2>2, <3>1 DEF Back
  <2>3. CASE n # MemDepth
    <3>1. n \in 0 .. AddrSpace - 1
      BY <1>1, <1>3, <2>3
    <3>2. bWr.nsmpl = n
      BY <1>1, <3>1, SmallMod
    <3>3. (waddr - n) % MemDepth = IF n <= waddr THEN waddr - n ELSE waddr - n + MemDepth
      BY <1>1, <1>3, <3>1
    <3> QED
      BY <1>3, <2>1, <3>2, <3>3 DEF Back
  <2> QED
    BY <2>2, <2>3
<1> QED
  BY <1>1, <1>2, <1>3

LEMMA Quotient ==
  ASSUME NEW l \in Nat \ {0}, NEW x \in Nat
  PROVE  x \div l \in Nat /\ x % l \in 0 .. l - 1 /\ x = (x \div l) * l + (x % l)
<1>1. x \div l \in Nat
  OBVIOUS
<1>2. x % l \in 0 .. l - 1
  BY ModRange
<1>3. x = (x \div l) * l + (x % l)
  OBVIOUS
<1> QED
  BY <1>1, <1>2, <1>3

LEMMA Remainder ==
  ASSUME NEW l \in Nat \ {0}, NEW d \in Nat, NEW w \in 0 .. l - 1
  PROVE  (d * l + w) % l = w
  OBVIOUS

\* What the buffer makes of the two stop words: the number of samples in the
\* width of an address.
LEMMA FirstStopWord ==
  ASSUME NEW k \in RamAddr, NEW n \in 0 .. MemDepth
  PROVE  IF AddrSpace > LoWord THEN setLo(k, n % LoWord) % LoWord = n % LoWord
                               ELSE setLo(k, n % LoWord) = n % AddrSpace
<1>1. MemDepth \in Nat \ {0} /\ AddrSpace \in Nat \ {0} /\ MemDepth <= AddrSpace /\ LoWord \in Nat \ {0}
  BY MemoryAssumption
<1>2. CASE AddrSpace > LoWord
  <2> DEFINE d == k \div LoWord
             w == n % LoWord
  <2>1. d \in Nat /\ w \in 0 .. LoWord - 1
    <3>1. k \in Nat /\ n \in Nat
      BY <1>1 DEF RamAddr
    <3> QED
      BY <1>1, <3>1, Quotient, Zenon
  <2>2. setLo(k, w) = d * LoWord + w
    BY <1>1, <1>2 DEF setLo
  <2> HIDE DEF d, w
  <2>3. (d * LoWord + w) % LoWord = w
    BY <1>1, <2>1, Remainder
  <2> QED
    BY <1>2, <2>2, <2>3 DEF w
<1>3. CASE AddrSpace = LoWord
  <2>1. k \div LoWord = 0
    BY <1>1, <1>3 DEF RamAddr
  <2>2. setLo(k, n % LoWord) = n % LoWord
    <3> DEFINE w == n % LoWord
    <3>1. w \in 0 .. LoWord - 1
      BY <1>1, ModRange
    <3> HIDE DEF w
    <3>2. setLo(k, w) = w
      BY <1>1, <1>3, <2>1, <3>1 DEF setLo
    <3> QED
      BY <3>2 DEF w
  <2> QED
    BY <1>1, <1>3, <2>2
<1>4. CASE AddrSpace < LoWord
  <2>1. n % LoWord = n
    BY <1>1, <1>4, SmallMod
  <2> QED
    BY <1>1, <1>4, <2>1 DEF setLo
<1> QED
  BY <1>1, <1>2, <1>3, <1>4

LEMMA SecondStopWord ==
  ASSUME NEW k \in RamAddr, NEW n \in 0 .. MemDepth,
         IF AddrSpace > LoWord THEN k % LoWord = n % LoWord ELSE k = n % AddrSpace
  PROVE  setHi(k, n \div LoWord) = n % AddrSpace
<1>1. MemDepth \in Nat \ {0} /\ AddrSpace \in Nat \ {0} /\ MemDepth <= AddrSpace /\ LoWord \in Nat \ {0}
  BY MemoryAssumption
<1>2. CASE ~(AddrSpace > LoWord)
  BY <1>2 DEF setHi
<1>3. CASE AddrSpace > LoWord
  <2> DEFINE q == AddrSpace \div LoWord
             h == n \div LoWord
             m == n % LoWord
  <2>1. AddrSpace % LoWord = 0
    BY <1>1, <1>3, MemoryAssumption
  <2>2. q \in Nat /\ AddrSpace = q * LoWord
    BY <1>1, <2>1
  <2>3. h \in Nat /\ m \in 0 .. LoWord - 1 /\ n = h * LoWord + m
    <3>1. n \in Nat
      BY <1>1
    <3> QED
      BY <1>1, <3>1, Quotient, Zenon
  <2>4. setHi(k, h) = (h % q) * LoWord + m
    BY <1>3 DEF setHi
  <2> HIDE DEF q, h, m
  <2>5. q # 0
    BY <1>1, <2>2
  <2>6. CASE n = AddrSpace
    <3>1. m = 0
      BY <2>1, <2>6 DEF m
    <3>2. h = q
      BY <2>6 DEF h, q
    <3>3. h % q = 0 /\ n % AddrSpace = 0
      BY <1>1, <2>2, <2>5, <2>6, <3>2
    <3>4. (h % q) * LoWord + m = 0
      BY <1>1, <3>1, <3>3
    <3> QED
      BY <2>4, <3>3, <3>4 DEF h
  <2>7. CASE n < AddrSpace
    <3>1. h < q
      <4> SUFFICES ASSUME q <= h PROVE FALSE
        BY <2>2, <2>3
      <4>1. q * LoWord <= h * LoWord
        BY <1>1, <2>2, <2>3
      <4> QED
        BY <1>1, <2>2, <2>3, <2>7, <4>1
    <3>2. h % q = h
      BY <2>2, <2>3, <2>5, <3>1, SmallMod
    <3>3. n % AddrSpace = n
      BY <1>1, <2>7, SmallMod
    <3> QED
      BY <2>3, <2>4, <3>2, <3>3 DEF h
  <2> QED
    BY <1>1, <2>6, <2>7
<1> QED
  BY <1>2, <1>3
-----------------------------------------------------------------------------
(* The memory clock.                                                       *)

\* A sample is written: one more of the last words is known.
LEMMA SampleWritten ==
  ASSUME waddr \in Addr, ram \in [Addr -> Ages], NEW n \in 0 .. MemDepth, Newest(n),
         NEW m \in 0 .. MemDepth, m <= n + 1,
         bWr.state = "WRITE", ~wrCmd, NEW ena, ena, BufWrRam(ena, wrCmd)
  PROVE  Newest(m)'
<1> DEFINE aged == [a \in Addr |-> Aged(ram[a], TRUE)]
           w == AddrNext(waddr)
<1>1. MemDepth \in Nat \ {0} /\ waddr \in 0 .. MemDepth - 1
  BY MemoryAssumption DEF Addr
<1>2. ram' = [aged EXCEPT ![waddr] = 0] /\ waddr' = w
  BY DEF BufWrRam, bufWrEna
<1>3. ASSUME NEW i \in 1 .. m PROVE ram'[Back(i)'] = i - 1
  <2>1. i - 1 \in 0 .. MemDepth - 1 /\ i \in 1 .. MemDepth
    BY <1>1
  <2>2. Back(i)' = Back(i - 1)
    BY <1>1, <1>2, <2>1 DEF Back, AddrNext
  <2>3. Back(i - 1) \in Addr /\ (Back(i - 1) = waddr <=> i = 1)
    <3>1. i - 1 \in 0 .. MemDepth
      BY <1>1, <2>1
    <3>2. /\ Back(i - 1) \in Addr
          /\ Back(i - 1) = waddr <=> i - 1 \in {0, MemDepth}
      BY <3>1, BackAddr
    <3> QED
      BY <1>1, <2>1, <3>2
  <2>4. CASE i = 1
    BY <1>2, <2>2, <2>3, <2>4
  <2>5. CASE i # 1
    <3>1. i - 1 \in 1 .. n
      BY <1>1, <2>1, <2>5
    <3>2. ram[Back(i - 1)] = i - 1 - 1
      BY <3>1 DEF Newest
    <3>3. aged[Back(i - 1)] = i - 1
      BY <1>1, <2>1, <2>3, <3>2 DEF Aged, Old
    <3> HIDE DEF aged
    <3> QED
      BY <1>2, <2>2, <2>3, <2>5, <3>3
  <2> QED
    BY <2>4, <2>5
<1> QED
  BY <1>3 DEF Newest

\* Nothing is offered: the memory does not change.
LEMMA NothingWritten ==
  ASSUME ram \in [Addr -> Ages], NEW ena, ~ena \/ wrCmd, BufWrRam(ena, wrCmd)
  PROVE  waddr' = waddr /\ ram' = ram
<1>1. ~bufWrEna(ena, wrCmd)
  BY DEF bufWrEna
<1>2. \A x : Aged(x, ena /\ ~wrCmd) = x
  BY DEF Aged
<1>3. ram' = [a \in Addr |-> Aged(ram[a], ena /\ ~wrCmd)] /\ waddr' = waddr
  BY <1>1 DEF BufWrRam
<1> QED
  BY <1>2, <1>3

LEMMA FewerKnown ==
  ASSUME UNCHANGED <<waddr, ram>>, NEW n \in 0 .. MemDepth, Newest(n),
         NEW m \in 0 .. MemDepth, m <= n
  PROVE  Newest(m)'
<1>1. \A i \in 1 .. m : i \in 1 .. n
  OBVIOUS
<1>2. \A i : Back(i)' = Back(i)
  BY DEF Back
<1> QED
  BY <1>1, <1>2 DEF Newest

\* What an edge does to a recorder that records.
LEMMA RecorderCounts ==
  ASSUME rWr \in WrType, Counted,
         NEW wrDecm \in BOOLEAN, NEW parm \in BOOLEAN, NEW trg \in BOOLEAN,
         WrSeq(wrDecm, parm, trg), rWr.state \in {"INIT", "FILL", "RUN"}
  PROVE  /\ rWr'.state \in {"INIT", "FILL", "RUN", "STOP1"} /\ rWr'.tgl = rWr.tgl
         /\ rWr'.nsmpls <= rWr.nsmpls + 1
         /\ ~wrDecm => rWr'.nsmpls <= rWr.nsmpls
         /\ rWr'.state = "STOP1" => rWr'.nsmpls >= 1
<1> USE DEF WrType, Counted
<1>1. /\ rWr.parms \in Parms /\ rWr.nsmpls \in 0 .. MemDepth /\ MemDepth \in Nat
      /\ rWr.parms.nsamples \in 0 .. MemDepth - 1 /\ rWr.parms.nprets \in 0 .. rWr.parms.nsamples
  BY ParmsAssumption, MemoryAssumption
<1>2. CASE parm
  <2>1. PICK p \in Parms : ParmEdge(p)
    BY <1>2 DEF WrSeq
  <2>2. rWr' = WR_REG_START(rWr, p)
    BY <2>1 DEF ParmEdge
  <2>3. rWr'.state = "FILL" /\ rWr'.nsmpls = 0 /\ rWr'.tgl = rWr.tgl
    BY <2>2 DEF WR_REG_START, WR_REG_INIT
  <2> QED
    BY <1>1, <2>3
<1>3. CASE ~parm /\ (~wrDecm \/ rWr.state = "INIT")
  <2>1. rWr' = rWr
    BY <1>3 DEF WrSeq
  <2> QED
    BY <1>1, <2>1
<1>4. CASE ~parm /\ wrDecm /\ rWr.state # "INIT"
  <2>1. CASE rWr.state = "FILL"
    <3>1. FillEdge(FALSE)
      BY <1>4, <2>1 DEF WrSeq, DecmEdge, RunEdge, StopEdge, HoldEdge
    <3>2. /\ rWr'.state \in {"FILL", "RUN"} /\ rWr'.tgl = rWr.tgl
          /\ rWr'.nsmpls = IF rWr.nsmpls >= rWr.parms.nprets THEN rWr.parms.nprets ELSE rWr.nsmpls + 1
      BY <2>1, <3>1 DEF FillEdge
    <3> QED
      BY <1>1, <1>4, <3>2
  <2>2. CASE rWr.state = "RUN"
    <3> DEFINE was == rWr.wasTrg \/ trg \/ FALSE
    <3>1. RunEdge(trg, FALSE, FALSE)
      BY <1>4, <2>2 DEF WrSeq, DecmEdge, FillEdge, StopEdge, HoldEdge
    <3>2. /\ rWr'.state = IF was /\ rWr.nsmpls = rWr.parms.nsamples THEN "STOP1" ELSE "RUN"
          /\ rWr'.tgl = rWr.tgl
          /\ rWr'.nsmpls = IF was THEN rWr.nsmpls + 1 ELSE rWr.nsmpls
      BY <2>2, <3>1 DEF RunEdge
    <3> HIDE DEF was
    <3> QED
      BY <1>1, <1>4, <3>2
  <2> QED
    BY <1>4, <2>1, <2>2
<1> QED
  BY <1>2, <1>3, <1>4

\* A recorder that stops, or holds.
LEMMA RecorderStops ==
  ASSUME rWr \in WrType, NEW wrDecm \in BOOLEAN, NEW parm \in BOOLEAN, NEW trg \in BOOLEAN,
         WrSeq(wrDecm, parm, trg)
  PROVE  /\ rWr.state \in {"STOP1", "STOP2"} /\ ~wrDecm => rWr' = rWr
         /\ rWr.state = "STOP1" /\ wrDecm => rWr' = [rWr EXCEPT !.state = "STOP2"]
         /\ rWr.state = "STOP2" /\ wrDecm => rWr' = [rWr EXCEPT !.state = "HOLD", !.tgl = ~@]
         /\ rWr.state = "HOLD" =>
              /\ rWr'.tgl = rWr.tgl
              /\ \/ rWr'.state = "HOLD" /\ rWr'.nsmpls = rWr.nsmpls
                 \/ rWr'.state = "FILL" /\ rWr'.nsmpls = 0 /\ rdTgl[2] = rWr.tgl
<1> USE DEF WrType
<1>1. ASSUME rWr.state \in {"STOP1", "STOP2"} PROVE ~parm
  BY <1>1 DEF WrSeq, ParmEdge
<1>2. ASSUME rWr.state \in {"STOP1", "STOP2"}, ~wrDecm PROVE rWr' = rWr
  BY <1>1, <1>2 DEF WrSeq
<1>3. ASSUME rWr.state \in {"STOP1", "STOP2"}, wrDecm PROVE StopEdge
  BY <1>1, <1>3 DEF WrSeq, DecmEdge, FillEdge, RunEdge, HoldEdge
<1>4. ASSUME rWr.state = "HOLD"
      PROVE  /\ rWr'.tgl = rWr.tgl
             /\ \/ rWr'.state = "HOLD" /\ rWr'.nsmpls = rWr.nsmpls
                \/ rWr'.state = "FILL" /\ rWr'.nsmpls = 0 /\ rdTgl[2] = rWr.tgl
  <2>1. CASE parm
    <3>1. PICK p \in Parms : ParmEdge(p)
      BY <2>1 DEF WrSeq
    <3>2. rWr' = [rWr EXCEPT !.parms = p]
      BY <1>4, <3>1 DEF ParmEdge
    <3> QED
      BY <1>4, <3>2
  <2>2. CASE ~parm /\ ~wrDecm
    BY <1>4, <2>2 DEF WrSeq
  <2>3. CASE ~parm /\ wrDecm
    <3>1. HoldEdge(rdTgl[2])
      BY <1>4, <2>3 DEF WrSeq, DecmEdge, FillEdge, RunEdge, StopEdge
    <3>2. CASE rdTgl[2] = rWr.tgl
      BY <3>1, <3>2 DEF HoldEdge
    <3>3. CASE rdTgl[2] # rWr.tgl
      BY <1>4, <3>1, <3>3 DEF HoldEdge
    <3> QED
      BY <3>2, <3>3
  <2> QED
    BY <2>1, <2>2, <2>3
<1> QED
  BY <1>2, <1>3, <1>4 DEF StopEdge

\* The memory clock keeps recorder and buffer together; as long as the read
\* side has the buffer, nothing moves.
MemKept(offered) ==
  /\ Recorded'
  /\ rdTglSync[2] # bWr.tgl =>
       UNCHANGED <<waddr, ram>> /\ rWr'.nsmpls = rWr.nsmpls /\ ~offered

LEMMA RecordedStep ==
  ASSUME IInv, Recorded, Followed,
         NEW wrDecm \in BOOLEAN, NEW parm \in BOOLEAN, NEW trg \in BOOLEAN,
         MemClk(wrDecm, parm, trg)
  PROVE  MemKept(Offered(wrDecm))
<1> DEFINE ena == wrEna(wrDecm)
           n == rWr.nsmpls
<1>1. TypeOK /\ Counted /\ BufferRing
  BY DEF IInv
<1>2. /\ rWr \in WrType /\ bWr \in BufWrType /\ waddr \in Addr /\ ram \in [Addr -> Ages]
      /\ n \in 0 .. MemDepth /\ rWr.tgl \in BOOLEAN /\ bWr.nsmpl \in RamAddr
  BY <1>1, Typed DEF WrType, BufWrType
<1>3. /\ rWr' \in WrType /\ rWr'.nsmpls \in 0 .. MemDepth /\ bWr' \in BufWrType
  BY MemEdge DEF MemStep, WrType
<1>4. /\ WrSeq(wrDecm, parm, trg)
      /\ BufWrComb(ena, wrCmd, wrCmdDat, rdTglSync[2]) /\ BufWrRam(ena, wrCmd)
  BY DEF MemClk
<1>5. PICK m \in 0 .. MemDepth : m = rWr'.nsmpls
  BY <1>3
<1>6. Newest(n)
  BY DEF Recorded
<1>7. Newest(m)' => Newest(rWr.nsmpls)'
  BY <1>5 DEF Newest
<1>8. MemDepth \in Nat \ {0}
  BY MemoryAssumption
<1> HIDE DEF n
<1>9. CASE rWr.state \in {"INIT", "FILL", "RUN"}
  <2>1. bWr.state = "WRITE" /\ ~wrCmd /\ (ena <=> wrDecm)
    BY <1>2, <1>9 DEF Recorded, wrCmd, wrEna, memFull, BufWrType
  <2>2. bWr' = bWr
    BY <1>4, <2>1 DEF BufWrComb
  <2>3. /\ rWr'.state \in {"INIT", "FILL", "RUN", "STOP1"} /\ rWr'.tgl = rWr.tgl
        /\ m <= n + 1 /\ (~wrDecm => m <= n)
        /\ rWr'.state = "STOP1" => rWr'.nsmpls >= 1
    BY <1>1, <1>2, <1>4, <1>5, <1>9, RecorderCounts DEF n
  <2>4. Newest(m)'
    <3>1. CASE wrDecm
      BY <1>2, <1>4, <1>6, <2>1, <2>3, <3>1, SampleWritten
    <3>2. CASE ~wrDecm
      <4>1. waddr' = waddr /\ ram' = ram
        BY <1>2, <1>4, <2>1, <3>2, NothingWritten
      <4> QED
        BY <1>2, <1>6, <2>3, <3>2, <4>1, FewerKnown
    <3> QED
      BY <3>1, <3>2
  <2>5. rdTglSync[2] = bWr.tgl
    BY <1>1, <2>1 DEF BufferRing
  <2>6. Recorded'
    BY <1>7, <2>1, <2>2, <2>3, <2>4 DEF Recorded
  <2> QED
    BY <2>5, <2>6 DEF MemKept
<1>10. CASE rWr.state \in {"STOP1", "STOP2"}
  <2>1. wrCmd /\ (ena <=> wrDecm) /\ ~Offered(wrDecm) /\ n >= 1
    BY <1>10 DEF wrCmd, wrEna, memFull, Offered, Recorded, n
  <2>2. waddr' = waddr /\ ram' = ram
    BY <1>2, <1>4, <2>1, NothingWritten
  <2>3. rWr'.nsmpls = rWr.nsmpls
    BY <1>2, <1>4, <1>10, RecorderStops DEF WrType
  <2>4. Newest(rWr.nsmpls)'
    BY <1>2, <1>5, <1>6, <1>7, <2>2, <2>3, FewerKnown DEF n
  <2>5. bWr.state = IF rWr.state = "STOP1" THEN "WRITE" ELSE "NSMPLS_HI"
    BY <1>2, <1>10 DEF Recorded, BufWrType
  <2>6. rdTglSync[2] = bWr.tgl
    BY <1>1, <2>5 DEF BufferRing
  <2>7. CASE ~wrDecm
    <3>1. rWr' = rWr /\ bWr' = bWr
      <4>1. rWr' = rWr
        BY <1>2, <1>4, <1>10, <2>7, RecorderStops
      <4>2. bWr' = bWr
        BY <1>4, <2>1, <2>5, <2>7 DEF BufWrComb
      <4> QED
        BY <4>1, <4>2
    <3>2. Recorded'
      BY <2>4, <3>1 DEF Recorded
    <3> QED
      BY <2>6, <3>2 DEF MemKept
  <2>8. CASE wrDecm /\ rWr.state = "STOP1"
    <3>1. rWr'.state = "STOP2" /\ rWr'.tgl = rWr.tgl
      BY <1>2, <1>4, <2>8, RecorderStops DEF WrType
    <3>2. bWr' = [bWr EXCEPT !.nsmpl = setLo(@, wrCmdDat), !.state = "NSMPLS_HI"]
      BY <1>4, <2>1, <2>5, <2>8 DEF BufWrComb
    <3>3. wrCmdDat = n % LoWord
      BY <2>8 DEF wrCmdDat, n
    <3>4. IF AddrSpace > LoWord THEN setLo(bWr.nsmpl, n % LoWord) % LoWord = n % LoWord
                                ELSE setLo(bWr.nsmpl, n % LoWord) = n % AddrSpace
      BY <1>2, FirstStopWord
    <3>5. bWr'.nsmpl = setLo(bWr.nsmpl, n % LoWord) /\ bWr'.state = "NSMPLS_HI" /\ bWr'.tgl = bWr.tgl
      BY <1>2, <3>2, <3>3 DEF BufWrType
    <3>6. IF AddrSpace > LoWord THEN bWr'.nsmpl % LoWord = rWr'.nsmpls % LoWord
                                ELSE bWr'.nsmpl = rWr'.nsmpls % AddrSpace
      BY <2>3, <3>4, <3>5 DEF n
    <3>7. Recorded'
      BY <2>1, <2>3, <2>4, <3>1, <3>5, <3>6 DEF Recorded, n
    <3> QED
      BY <2>6, <3>7 DEF MemKept
  <2>9. CASE wrDecm /\ rWr.state = "STOP2"
    <3>1. rWr'.state = "HOLD" /\ rWr'.tgl = ~rWr.tgl
      BY <1>2, <1>4, <2>9, RecorderStops DEF WrType
    <3>2. bWr' = [bWr EXCEPT !.nsmpl = setHi(@, wrCmdDat), !.state = "HALT", !.tgl = ~@]
      BY <1>4, <2>1, <2>5, <2>9 DEF BufWrComb
    <3>3. wrCmdDat = n \div LoWord
      BY <2>9 DEF wrCmdDat, n
    <3>4. setHi(bWr.nsmpl, n \div LoWord) = n % AddrSpace
      <4>1. IF AddrSpace > LoWord THEN bWr.nsmpl % LoWord = n % LoWord ELSE bWr.nsmpl = n % AddrSpace
        BY <2>5, <2>9 DEF Recorded, n
      <4> QED
        BY <1>2, <4>1, SecondStopWord
    <3>5. bWr'.nsmpl = n % AddrSpace /\ bWr'.state = "HALT" /\ bWr'.tgl = ~bWr.tgl
      BY <1>2, <3>2, <3>3, <3>4 DEF BufWrType
    <3>6. Recorded'
      BY <2>1, <2>3, <2>4, <3>1, <3>5 DEF Recorded, n
    <3> QED
      BY <2>6, <3>6 DEF MemKept
  <2> QED
    BY <1>10, <2>7, <2>8, <2>9
<1>11. CASE rWr.state = "HOLD"
  <2>1. ~ena /\ ~wrCmd /\ ~Offered(wrDecm) /\ n >= 1
    BY <1>11 DEF wrCmd, wrEna, memFull, Offered, Recorded, n
  <2>2. waddr' = waddr /\ ram' = ram
    BY <1>2, <1>4, <2>1, NothingWritten
  <2>3. /\ rWr'.tgl = rWr.tgl
        /\ \/ rWr'.state = "HOLD" /\ rWr'.nsmpls = rWr.nsmpls
           \/ rWr'.state = "FILL" /\ rWr'.nsmpls = 0 /\ rdTgl[2] = rWr.tgl
    BY <1>2, <1>4, <1>11, RecorderStops
  <2>4. bWr.state \in {"WRITE", "HALT"}
    BY <1>2, <1>11 DEF Recorded, BufWrType
  <2>5. \/ bWr' = bWr /\ (bWr.state = "HALT" => rdTglSync[2] # bWr.tgl)
        \/ bWr' = [bWr EXCEPT !.state = "WRITE"]
    BY <1>4, <2>1, <2>4 DEF BufWrComb
  <2>6. /\ bWr'.state \in {"WRITE", bWr.state} /\ bWr'.tgl = bWr.tgl /\ bWr'.nsmpl = bWr.nsmpl
        /\ bWr'.state = "HALT" => bWr.state = "HALT" /\ rdTglSync[2] # bWr.tgl
    BY <1>2, <2>5 DEF BufWrType
  <2>7. m <= n
    BY <1>2, <1>5, <1>8, <2>1, <2>3 DEF n
  <2>8. Newest(rWr.nsmpls)'
    BY <1>2, <1>6, <1>7, <2>2, <2>7, FewerKnown
  <2>9. rdTglSync[2] # bWr.tgl => rWr'.state = "HOLD" /\ rWr'.nsmpls = rWr.nsmpls
    <3>1. rdTgl[2] = rWr.tgl => rdTglSync[2] = bWr.tgl
      BY DEF Followed, Recorded
    <3> QED
      BY <2>3, <3>1
  <2>10. Recorded'
    BY <1>11, <2>1, <2>3, <2>4, <2>6, <2>8, <2>9 DEF Recorded, n
  <2> QED
    BY <2>1, <2>2, <2>3, <2>9, <2>10 DEF MemKept
<1> QED
  BY <1>2, <1>9, <1>10, <1>11 DEF WrType, WrStates
-----------------------------------------------------------------------------
(* The bus clock, as long as no flush is asked for.                        *)

\* What an edge does to the readout, as far as the buffer is concerned.
LEMMA ReadoutMoves ==
  ASSUME rRd \in RdType, Reading, ~rRd.flush, ~rRd'.flush, NEW cmd, NEW rdyOb \in BOOLEAN, NEW w,
         RdComb(cmd, rdyOb, rdEmp, rdLst(rRd.flush), w)
  PROVE  /\ rRd'.tgl # rRd.tgl => rRd.state = "READ" /\ rRd.lst /\ rRd'.state = "ECHO"
         /\ rRd'.state = "HDR" => rRd.state \in {"ECHO", "HDR"}
         /\ rRd'.state = "READ" => rRd.state \in {"HDR", "READ"}
         /\ rRd'.state = "READ" /\ rRd'.lst =>
              rRd.state = "READ" /\ (rRd.lst \/ (rdEna(rdyOb) /\ rdLst(FALSE)))
         /\ rRd.state = "READ" /\ ~rRd.lst => rRd'.state = "READ"
         /\ rdEna(rdyOb) => rRd.state = "READ" /\ ~rRd.lst
<1> USE DEF RdType
<1> DEFINE n == rRdNext(rdyOb)
<1>1. /\ n.state = rRd.state /\ n.lst = rRd.lst /\ n.tgl = rRd.tgl
      /\ DOMAIN n = DOMAIN rRd
  BY DEF rRdNext
<1>2. CASE rRd.state = "ECHO"
  <2> DEFINE v == [rRd EXCEPT !.byteCnt = 0, !.vld = TRUE, !.lst = FALSE, !.flush = FALSE]
  <2>1. v.state = "ECHO" /\ v.tgl = rRd.tgl
    BY <1>2
  <2>2. \/ rRd' = v
        \/ rRd' = [v EXCEPT !.state = "MSIZE"]
        \/ rRd' = [v EXCEPT !.state = "MSIZE", !.lst = TRUE]
        \/ rRd' = [v EXCEPT !.state = "HDR"]
        \/ rRd' = [v EXCEPT !.flush = TRUE, !.tgl = w]
    BY <1>2 DEF RdComb, EchoEdge, MsizeEdge, HdrEdge, ReadEdge, NoCmd
  <2>3. rRd' # [v EXCEPT !.flush = TRUE, !.tgl = w]
    OBVIOUS
  <2>4. rRd'.state \in {"ECHO", "MSIZE", "HDR"} /\ rRd'.tgl = rRd.tgl
    BY <2>1, <2>2, <2>3
  <2> QED
    BY <1>2, <2>4 DEF rdEna
<1>3. CASE rRd.state = "MSIZE"
  <2>1. MsizeEdge(rdyOb)
    BY <1>3 DEF RdComb, EchoEdge, HdrEdge, ReadEdge
  <2> HIDE DEF n
  <2>2. rRd'.state \in {"ECHO", "MSIZE"} /\ rRd'.tgl = rRd.tgl
    <3>1. \/ rRd' = n
          \/ rRd' = [n EXCEPT !.state = "ECHO"]
          \/ \E l \in BOOLEAN : rRd' = [n EXCEPT !.vld = TRUE, !.lst = l]
      BY <2>1 DEF MsizeEdge, n
    <3> QED
      BY <1>1, <1>3, <3>1
  <2> QED
    BY <1>3, <2>2 DEF rdEna
<1>4. CASE rRd.state = "HDR"
  <2>1. HdrEdge(rdyOb)
    BY <1>4 DEF RdComb, EchoEdge, MsizeEdge, ReadEdge
  <2>2. ~rRd.lst
    BY <1>4 DEF Reading
  <2>3. rRd' = n \/ rRd' = [n EXCEPT !.state = "READ", !.vld = TRUE]
    BY <2>1 DEF HdrEdge
  <2> HIDE DEF n
  <2>4. rRd'.state \in {"HDR", "READ"} /\ rRd'.tgl = rRd.tgl /\ ~rRd'.lst
    BY <1>1, <1>4, <2>2, <2>3
  <2> QED
    BY <1>4, <2>4 DEF rdEna
<1>5. CASE rRd.state = "READ"
  <2> DEFINE v == [n EXCEPT !.byteCnt = IF rdEmp THEN rRd.byteCnt ELSE @,
                            !.vld = IF rdyOb THEN ~rdEmp ELSE @]
  <2>1. ReadEdge(rdyOb, rdEmp, rdLst(rRd.flush), w)
    BY <1>5 DEF RdComb, EchoEdge, MsizeEdge, HdrEdge
  <2>2. rRd.lst => rRd.byteCnt # 0
    BY <1>5 DEF Reading
  <2>3. v.state = "READ" /\ v.lst = rRd.lst /\ v.tgl = rRd.tgl
    <3> HIDE DEF n
    <3> QED
      BY <1>1, <1>5
  <2>4. \/ rRd' = v /\ ~rdEna(rdyOb) /\ (~rdyOb \/ ~rRd.lst)
        \/ rRd' = [v EXCEPT !.lst = rdLst(rRd.flush)] /\ rdEna(rdyOb) /\ ~rRd.lst
        \/ rRd' = [v EXCEPT !.state = "ECHO", !.tgl = w] /\ ~rdEna(rdyOb) /\ rRd.lst
    <3> HIDE DEF n
    <3>1. CASE ~rdyOb
      BY <2>1, <3>1 DEF ReadEdge, rdEna, n
    <3>2. CASE rdyOb /\ rRd.byteCnt = 0
      BY <1>5, <2>1, <2>2, <3>2 DEF ReadEdge, rdEna, n
    <3>3. CASE rdyOb /\ rRd.byteCnt # 0
      BY <1>5, <2>1, <3>3 DEF ReadEdge, rdEna, n
    <3> QED
      BY <3>1, <3>2, <3>3
  <2> HIDE DEF v
  <2>5. CASE rRd' = v /\ ~rdEna(rdyOb)
    BY <1>5, <2>3, <2>5
  <2>6. CASE rRd' = [v EXCEPT !.lst = rdLst(rRd.flush)] /\ rdEna(rdyOb) /\ ~rRd.lst
    <3>1. rRd'.state = "READ" /\ rRd'.tgl = rRd.tgl
      BY <2>3, <2>6
    <3>2. rRd'.lst => rdLst(rRd.flush)
      BY <2>3, <2>6
    <3>3. rdLst(rRd.flush) => rdLst(FALSE)
      BY DEF rdLst
    <3> QED
      BY <1>5, <2>6, <3>1, <3>2, <3>3
  <2>7. CASE rRd' = [v EXCEPT !.state = "ECHO", !.tgl = w] /\ ~rdEna(rdyOb) /\ rRd.lst
    <3>1. rRd'.state = "ECHO"
      BY <2>3, <2>7
    <3> QED
      BY <1>5, <2>7, <3>1
  <2> QED
    BY <2>4, <2>5, <2>6, <2>7
<1> QED
  BY <1>2, <1>3, <1>4, <1>5

\* As long as the read side works or is about to, the recorder waits for it.
LEMMA RecorderWaits ==
  ASSUME IInv, Recorded, Followed
  PROVE  /\ bRd.state # "WAITRD" => wrTglSync[2] # bRd.tgl
         /\ wrTglSync[2] # bRd.tgl =>
              /\ rdTglSync[2] # bWr.tgl /\ wrTglSync[2] = bWr.tgl /\ bRd.tgl # bWr.tgl
              /\ bWr.state = "HALT" /\ rWr.state = "HOLD" /\ Size \in 1 .. MemDepth
              /\ rRd.tgl # rWr.tgl /\ ~(rRd.state = "READ" /\ rRd.lst)
<1>1. TypeOK /\ BufferRing
  BY DEF IInv
<1>2. bRd.state # "WAITRD" => wrTglSync[2] # bRd.tgl
  BY <1>1 DEF BufferRing
<1>3. ASSUME wrTglSync[2] # bRd.tgl
      PROVE  /\ rdTglSync[2] # bWr.tgl /\ wrTglSync[2] = bWr.tgl /\ bRd.tgl # bWr.tgl
             /\ bWr.state = "HALT" /\ rWr.state = "HOLD" /\ Size \in 1 .. MemDepth
             /\ rRd.tgl # rWr.tgl /\ ~(rRd.state = "READ" /\ rRd.lst)
  <2>1. rdTglSync[2] # bWr.tgl /\ wrTglSync[2] = bWr.tgl
    BY <1>1, <1>3, Typed, RingWaits DEF BufferRing
  <2>2. bWr.state = "HALT" /\ bRd.tgl # bWr.tgl
    BY <1>1, <1>3, <2>1 DEF BufferRing
  <2>3. rWr.state = "HOLD" /\ rWr.tgl = bWr.tgl
    BY <2>2 DEF Recorded
  <2>4. Size \in 1 .. MemDepth
    <3>1. Size \in 0 .. MemDepth /\ MemDepth \in Nat
      BY <1>1, MemoryAssumption DEF TypeOK, WrType, Size
    <3>2. Size >= 1
      BY <2>3 DEF Recorded, Size
    <3> QED
      BY <3>1, <3>2
  <2>5. rRd.tgl # rWr.tgl /\ ~(rRd.state = "READ" /\ rRd.lst)
    BY <2>2, <2>3 DEF Followed
  <2> QED
    BY <2>1, <2>2, <2>3, <2>4, <2>5
<1> QED
  BY <1>2, <1>3

\* The read side walks from the oldest word to the newest, and gives the
\* buffer back before the readout gives back the memory; next is what its
\* output register holds after the edge.
BusKept(next) ==
  /\ rRd'.tgl # rRd.tgl => bRd.tgl = rWr.tgl
  /\ rRd'.state = "READ" /\ rRd'.lst => rRd'.tgl # rWr.tgl /\ bRd'.tgl = bWr.tgl
  /\ rRd'.state = "HDR" => got' = 0
  /\ bRd'.state = "PRELD" => bRd'.raddr = Back(Size)
  /\ bRd'.state = "READ" =>
       /\ Taken' < Size
       /\ bRd'.raddr = Back(Size - 1 - Taken') /\ next = Size - 1 - Taken'

LEMMA LocatedStep ==
  ASSUME IInv, Recorded, Followed, Located, ~flushed, ~rRd.flush, ~rRd'.flush,
         NEW cmd, NEW rdyOb \in BOOLEAN, BusClk(cmd, rdyOb)
  PROVE  BusKept(rdataNext(rdEna(rdyOb), rRd.flush))
<1> DEFINE ena == rdEna(rdyOb)
           next == rdataNext(ena, rRd.flush)
           j == Size - 1 - Taken
<1>1. TypeOK /\ Reading
  BY DEF IInv
<1>2. /\ bRd \in BufRdType /\ rRd \in RdType /\ ram \in [Addr -> Ages] /\ waddr \in Addr
      /\ bRd.tgl \in BOOLEAN /\ bWr.tgl \in BOOLEAN /\ rRd.tgl \in BOOLEAN
      /\ got \in 0 .. MemDepth /\ MemDepth \in Nat
  BY <1>1, Typed, MemoryAssumption DEF TypeOK
<1>3. /\ RdComb(cmd, rdyOb, rdEmp, rdLst(rRd.flush), wrTgl[2])
      /\ BufRdComb(ena, rRd.flush, wrTglSync[2])
      /\ got' = IF rRd.state # "READ" THEN 0
                ELSE IF ena /\ got < MemDepth THEN got + 1 ELSE got
  BY DEF BusClk
<1>4. /\ rRd'.tgl # rRd.tgl => rRd.state = "READ" /\ rRd.lst /\ rRd'.state = "ECHO"
      /\ rRd'.state = "HDR" => rRd.state \in {"ECHO", "HDR"}
      /\ rRd'.state = "READ" => rRd.state \in {"HDR", "READ"}
      /\ rRd'.state = "READ" /\ rRd'.lst => rRd.state = "READ" /\ (rRd.lst \/ (ena /\ rdLst(FALSE)))
      /\ rRd.state = "READ" /\ ~rRd.lst => rRd'.state = "READ"
      /\ ena => rRd.state = "READ" /\ ~rRd.lst
  BY <1>1, <1>2, <1>3, ReadoutMoves
<1>5. /\ bRd.state # "WAITRD" => wrTglSync[2] # bRd.tgl
      /\ wrTglSync[2] # bRd.tgl =>
           /\ wrTglSync[2] = bWr.tgl /\ bRd.tgl # bWr.tgl
           /\ bWr.state = "HALT" /\ rWr.state = "HOLD" /\ Size \in 1 .. MemDepth
           /\ rRd.tgl # rWr.tgl /\ ~(rRd.state = "READ" /\ rRd.lst)
  BY RecorderWaits
<1>6. rRd'.tgl # rRd.tgl => bRd.tgl = rWr.tgl
  BY <1>4 DEF Followed, Recorded
<1>7. rRd'.state = "HDR" => got' = 0
  BY <1>3, <1>4
<1>8. rRd.state = "READ" /\ rRd.lst => rRd.tgl # rWr.tgl /\ bRd.tgl = bWr.tgl
  BY DEF Followed, Recorded
<1>9. \A n \in 1 .. Size : ram[Back(n)] = n - 1
  BY DEF Recorded, Newest, Size
<1> HIDE DEF ena, next, j
<1>10. CASE bRd.state = "WAITRD"
  <2>1. rRd.state # "HDR" /\ (rRd.state = "READ" => rRd.lst)
    BY <1>1, <1>10 DEF Reading
  <2>2. ~(ena /\ rdLst(FALSE))
    BY <1>10 DEF rdLst, rdEmp
  <2>3. CASE wrTglSync[2] = bRd.tgl
    <3>1. bRd' = bRd
      BY <1>3, <1>10, <2>3 DEF BufRdComb
    <3>2. rRd'.state = "READ" /\ rRd'.lst => rRd.state = "READ" /\ rRd.lst /\ rRd'.tgl = rRd.tgl
      BY <1>4, <2>2
    <3> QED
      BY <1>6, <1>7, <1>8, <1>10, <3>1, <3>2 DEF BusKept, ena, next
  <2>4. CASE wrTglSync[2] # bRd.tgl
    <3>1. bRd' = [bRd EXCEPT !.raddr = raddrFirst, !.state = "PRELD"]
      BY <1>3, <1>10, <2>4 DEF BufRdComb
    <3>2. bWr.nsmpl = Size % AddrSpace /\ Size \in 1 .. MemDepth
      BY <1>5, <2>4 DEF Recorded, Size
    <3>3. raddrFirst = Back(Size)
      BY <1>2, <3>2, FirstIsOldest
    <3>4. bRd'.state = "PRELD" /\ bRd'.raddr = Back(Size)
      BY <1>2, <3>1, <3>3 DEF BufRdType
    <3>5. rRd'.state # "READ"
      BY <1>4, <1>5, <2>1, <2>4
    <3> QED
      BY <1>6, <1>7, <3>4, <3>5 DEF BusKept, ena, next
  <2> QED
    BY <2>3, <2>4
<1>11. CASE bRd.state = "PRELD"
  <2>1. rRd.state # "HDR" /\ rRd.state # "READ"
    BY <1>1, <1>5, <1>11 DEF Reading
  <2>2. rRd'.state # "READ"
    BY <1>4, <2>1
  <2>3. Taken' = 0
    BY <2>2 DEF Taken
  <2>4. bRd' = [bRd EXCEPT !.raddr = AddrNext(@), !.state = "READ"]
    BY <1>3, <1>11 DEF BufRdComb
  <2>5. Size \in 1 .. MemDepth /\ bRd.raddr = Back(Size)
    BY <1>5, <1>11 DEF Located
  <2>6. AddrNext(Back(Size)) = Back(Size - 1)
    BY <1>2, <2>5, BackAddr
  <2>7. bRd'.state = "READ" /\ bRd'.raddr = Back(Size - 1)
    BY <1>2, <2>4, <2>5, <2>6 DEF BufRdType
  <2>8. next = Size - 1
    <3>1. next = ram[bRd.raddr]
      BY <1>11 DEF next, rdataNext
    <3> QED
      BY <1>9, <2>5, <3>1
  <2>9. Taken' < Size /\ Size - 1 - Taken' = Size - 1
    BY <1>2, <2>3, <2>5
  <2> QED
    BY <1>6, <1>7, <2>2, <2>7, <2>8, <2>9 DEF BusKept, ena, next
<1>12. CASE bRd.state = "READ"
  <2>1. /\ Size \in 1 .. MemDepth /\ bRd.tgl # bWr.tgl /\ rRd.tgl # rWr.tgl
        /\ ~(rRd.state = "READ" /\ rRd.lst)
    BY <1>5, <1>12
  <2>2. /\ Taken < Size /\ bRd.raddr = Back(j) /\ rdata = j /\ Taken \in 0 .. MemDepth
    BY <1>2, <1>12 DEF Located, Taken, j
  <2>3. j \in 0 .. Size - 1 /\ j \in 0 .. MemDepth - 1
    BY <1>2, <2>1, <2>2 DEF j
  <2>4. rRd'.tgl = rRd.tgl
    BY <1>4, <2>1
  <2>5. rdLst(FALSE) <=> j = 0
    BY <1>2, <1>12, <2>2, <2>3, BackAddr DEF rdLst, rdEmp
  <2>6. rdLst(rRd.flush) <=> j = 0
    BY <2>5 DEF rdLst
  <2>7. CASE ena /\ j = 0
    <3>1. bRd' = [bRd EXCEPT !.raddr = AddrNext(@), !.state = "WAITRD", !.tgl = ~@]
      BY <1>3, <1>12, <2>6, <2>7 DEF BufRdComb
    <3>2. bRd'.state = "WAITRD" /\ bRd'.tgl = bWr.tgl
      BY <1>2, <2>1, <3>1 DEF BufRdType
    <3> QED
      BY <1>6, <1>7, <2>1, <2>4, <3>2 DEF BusKept, ena, next
  <2>8. CASE ena /\ j # 0
    <3>1. bRd' = [bRd EXCEPT !.raddr = AddrNext(@)]
      BY <1>3, <1>12, <2>6, <2>8 DEF BufRdComb
    <3>2. rRd.state = "READ" /\ rRd'.state = "READ" /\ ~rRd'.lst
      BY <1>4, <2>1, <2>5, <2>8
    <3>3. Taken = got /\ Taken' = got + 1
      BY <1>2, <1>3, <2>1, <2>2, <2>8, <3>2 DEF Taken
    <3>4. Taken' < Size /\ Size - 1 - Taken' = j - 1
      BY <1>2, <2>1, <2>2, <2>3, <2>8, <3>3 DEF j
    <3>5. AddrNext(Back(j)) = Back(j - 1)
      BY <1>2, <2>3, <2>8, BackAddr
    <3>6. bRd'.state = "READ" /\ bRd'.raddr = Back(j - 1)
      BY <1>2, <1>12, <2>2, <3>1, <3>5 DEF BufRdType
    <3>7. next = j - 1
      <4>1. next = ram[bRd.raddr]
        BY <1>12, <2>8 DEF next, rdataNext
      <4>2. j \in 1 .. Size
        BY <2>1, <2>3, <2>8
      <4> QED
        BY <1>9, <2>2, <4>1, <4>2
    <3> QED
      BY <1>6, <1>7, <3>2, <3>4, <3>6, <3>7 DEF BusKept, ena, next
  <2>9. CASE ~ena
    <3>1. bRd' = bRd
      BY <1>3, <1>12, <2>9 DEF BufRdComb
    <3>2. next = j
      BY <1>12, <2>2, <2>9 DEF next, rdataNext
    <3>3. Taken' = Taken
      <4>1. CASE rRd.state = "READ"
        BY <1>3, <1>4, <2>1, <2>9, <4>1 DEF Taken
      <4>2. CASE rRd.state # "READ"
        BY <1>3, <4>2 DEF Taken
      <4> QED
        BY <4>1, <4>2
    <3>4. ~(rRd'.state = "READ" /\ rRd'.lst)
      BY <1>4, <2>1, <2>9
    <3> QED
      BY <1>6, <1>7, <1>12, <2>2, <3>1, <3>2, <3>3, <3>4 DEF BusKept, ena, next, j
  <2> QED
    BY <2>7, <2>8, <2>9
<1> QED
  BY <1>2, <1>10, <1>11, <1>12 DEF BufRdType
-----------------------------------------------------------------------------
(* Both clocks.                                                            *)

\* Both toggles of the bus clock reach the memory clock at the same edges.
SampledTogether ==
  \/ rdTgl' = rdTgl /\ rdTglSync' = rdTglSync
  \/ \E x \in {rRd.tgl, rRd'.tgl}, y \in {bRd.tgl, bRd'.tgl} :
       rdTgl' = <<x, rdTgl[1]>> /\ rdTglSync' = <<y, rdTglSync[1]>>

LEMMA FollowedStep ==
  ASSUME IInv, Recorded, Followed, MemStep, BusStep, SampledTogether, Recorded',
         rRd'.tgl # rRd.tgl => bRd.tgl = rWr.tgl,
         rRd'.state = "READ" /\ rRd'.lst => rRd'.tgl # rWr.tgl /\ bRd'.tgl = bWr.tgl
  PROVE  Followed'
<1> DEFINE a == rWr.tgl
           aNew == rWr'.tgl
           b == rRd.tgl
           bNew == rRd'.tgl
           d == bRd.tgl
           dNew == bRd'.tgl
<1>1. TypeOK /\ RecorderRing
  BY DEF IInv
<1>2. /\ a \in BOOLEAN /\ aNew \in BOOLEAN /\ b \in BOOLEAN /\ bNew \in BOOLEAN
      /\ d \in BOOLEAN /\ dNew \in BOOLEAN
      /\ rdTgl \in BOOLEAN \X BOOLEAN /\ wrTgl \in BOOLEAN \X BOOLEAN
      /\ rdTglSync \in BOOLEAN \X BOOLEAN
  BY <1>1, Typed DEF MemStep, BusStep, WrType, RdType, BufRdType
<1>3. /\ b = a => d = a
      /\ rdTgl[1] = a => rdTglSync[1] = a
      /\ rdTgl[2] = a => rdTglSync[2] = a
  BY DEF Followed
<1>4. d = a => dNew = a
  <2>1. wrTglSync[2] # bRd.tgl => bRd.tgl # bWr.tgl
    BY RecorderWaits
  <2>2. bRd'.tgl \in {bRd.tgl, wrTglSync[2]} /\ rWr.tgl = bWr.tgl
    BY DEF BusStep, Recorded
  <2> QED
    BY <2>1, <2>2
<1>5. bNew # b => d = a
  OBVIOUS
<1>6. /\ bNew = a => dNew = a
      /\ \A x \in {b, bNew}, y \in {d, dNew} : x = a => y = a
  BY <1>2, <1>3, <1>4, <1>5
<1>7. CASE aNew = a
  <2>1. rdTgl'[1] = a => rdTglSync'[1] = a
    BY <1>3, <1>6 DEF SampledTogether
  <2>2. rdTgl'[2] = a => rdTglSync'[2] = a
    BY <1>3 DEF SampledTogether
  <2>3. rRd'.state = "READ" /\ rRd'.lst => bNew # aNew /\ dNew = aNew
    BY <1>7 DEF Recorded
  <2> QED
    BY <1>6, <1>7, <2>1, <2>2, <2>3 DEF Followed
<1>8. CASE aNew # a
  <2>1. rdTgl[2] = a
    BY <1>1, <1>8 DEF MemStep, RecorderHandsOver, RecorderRing
  <2>2. b = a /\ wrTgl[2] = a /\ rdTgl[1] = a
    BY <1>1, <1>2, <2>1, RingAtRest DEF RecorderRing, Ring
  <2>3. bNew = a
    BY <2>2 DEF BusStep
  <2>4. rdTgl'[1] = a /\ rdTgl'[2] = a
    BY <2>1, <2>2, <2>3 DEF SampledTogether
  <2>5. ~(rRd'.state = "READ" /\ rRd'.lst)
    BY <2>3
  <2> QED
    BY <1>8, <2>3, <2>4, <2>5 DEF Followed
<1> QED
  BY <1>7, <1>8

LEMMA WindowStep ==
  ASSUME IInv, Recorded, Followed, MemStep, BusStep, SampledTogether,
         NEW offered \in BOOLEAN, NEW next, rdata' = Aged(next, offered),
         MemKept(offered), BusKept(next)
  PROVE  Recorded' /\ Followed' /\ Located'
<1>1. Recorded'
  BY DEF MemKept
<1>2. Followed'
  BY <1>1, FollowedStep DEF BusKept
<1>3. ASSUME bRd'.state # "WAITRD"
      PROVE  UNCHANGED <<waddr, ram>> /\ Size' = Size /\ rdata' = next
  <2>1. wrTglSync[2] # bRd.tgl
    BY <1>3 DEF BusStep
  <2>2. rdTglSync[2] # bWr.tgl
    BY <2>1, RecorderWaits
  <2>3. UNCHANGED <<waddr, ram>> /\ rWr'.nsmpls = rWr.nsmpls /\ ~offered
    BY <2>2 DEF MemKept
  <2> QED
    BY <2>3 DEF Aged, Size
<1>4. rRd'.state = "HDR" => got' = 0
  BY DEF BusKept
<1>5. ASSUME bRd'.state = "PRELD" PROVE bRd'.raddr = Back(Size)'
  BY <1>3, <1>5 DEF BusKept, Back
<1>6. ASSUME bRd'.state = "READ"
      PROVE  /\ Taken' < Size'
             /\ bRd'.raddr = Back(Size - 1 - Taken)' /\ rdata' = Size' - 1 - Taken'
  BY <1>3, <1>6 DEF BusKept, Back
<1> QED
  BY <1>1, <1>2, <1>4, <1>5, <1>6 DEF Located

\* A side whose clock does not rise.
LEMMA MemRests ==
  ASSUME IInv, Recorded, UNCHANGED <<rWr, bWr, waddr, ram, sinceStart>>
  PROVE  MemKept(FALSE)
<1>1. Recorded'
  BY DEF Recorded, Newest, Back
<1> QED
  BY <1>1 DEF MemKept

LEMMA BusRests ==
  ASSUME IInv, Recorded, Followed, Located, UNCHANGED <<rRd, bRd, got, flushed>>
  PROVE  BusKept(rdata)
<1>1. Taken' = Taken
  BY DEF Taken
<1> QED
  BY <1>1 DEF BusKept, Followed, Located, Recorded

LEMMA WInvInit == Init => WInv
<1> SUFFICES ASSUME Init PROVE WInv
  OBVIOUS
<1>1. PICK p \in Parms : rWr = WR_REG_INIT(p)
  BY DEF Init
<1>2. rWr.state = "INIT" /\ rWr.tgl = FALSE /\ rWr.nsmpls = 0
  BY <1>1 DEF WR_REG_INIT
<1>3. rRd.state = "ECHO" /\ rRd.flush = FALSE /\ rRd.tgl = FALSE
  BY DEF Init, RD_REG_INIT
<1>4. bWr.state = "WRITE" /\ bWr.tgl = FALSE /\ bRd.state = "WAITRD" /\ bRd.tgl = FALSE
  BY DEF Init, BufInit
<1>5. Recorded
  <2>1. 1 .. rWr.nsmpls = {}
    BY <1>2
  <2>2. Newest(rWr.nsmpls)
    BY <2>1 DEF Newest
  <2> QED
    BY <1>2, <1>4, <2>2 DEF Recorded
<1>6. Followed
  BY <1>2, <1>3, <1>4 DEF Followed, Init
<1>7. Located
  BY <1>3, <1>4 DEF Located
<1> QED
  BY <1>3, <1>5, <1>6, <1>7 DEF WInv

LEMMA WInvStep == IInv /\ WInv /\ [Next]_vars => WInv'
<1> SUFFICES ASSUME IInv, WInv, [Next]_vars PROVE WInv'
  OBVIOUS
<1> DEFINE Kept == Recorded /\ Followed /\ Located
<1>1. \A d \in Decimated : d \in BOOLEAN
  BY EnvAssumption
<1>2. /\ rRd.flush => flushed
      /\ ~flushed => ~rRd.flush /\ Recorded /\ Followed /\ Located
  BY DEF WInv
<1>3. ASSUME NEW wrDecm \in BOOLEAN, NEW parm \in BOOLEAN, NEW trg \in BOOLEAN,
             WrEdge(wrDecm, parm, trg)
      PROVE  WInv'
  <2>1. UNCHANGED <<rRd, bRd, got, flushed>>
    BY <1>3 DEF WrEdge, rdVars
  <2>2. rRd'.flush => flushed'
    BY <1>2, <2>1
  <2>3. ASSUME ~flushed' PROVE Recorded' /\ Followed' /\ Located'
    <3>1. Recorded /\ Followed /\ Located
      BY <1>2, <2>1, <2>3
    <3>2. MemStep /\ BusStep
      BY <1>3, <2>1, MemEdge, BusStands DEF WrEdge
    <3>3. Offered(wrDecm) \in BOOLEAN
      BY DEF Offered
    <3>4. rdata' = Aged(rdata, Offered(wrDecm))
      BY <1>3 DEF WrEdge
    <3>5. MemKept(Offered(wrDecm)) /\ BusKept(rdata)
      BY <1>3, <2>1, <3>1, RecordedStep, BusRests DEF WrEdge
    <3>6. SampledTogether
      BY <1>3 DEF WrEdge, WrSync, SampledTogether
    <3> QED
      BY <3>1, <3>2, <3>3, <3>4, <3>5, <3>6, WindowStep
  <2> QED
    BY <2>2, <2>3 DEF WInv
<1>4. ASSUME NEW cmd, NEW rdyOb \in BOOLEAN, RdEdge(cmd, rdyOb)
      PROVE  WInv'
  <2> DEFINE next == rdataNext(rdEna(rdyOb), rRd.flush)
  <2>1. BusClk(cmd, rdyOb) /\ UNCHANGED <<rWr, bWr, waddr, ram, sinceStart>>
    BY <1>4 DEF RdEdge, wrVars
  <2>2. rRd'.flush => flushed'
    BY <2>1 DEF BusClk
  <2>3. ASSUME ~flushed' PROVE Recorded' /\ Followed' /\ Located'
    <3>1. ~flushed /\ ~rRd'.flush
      BY <2>1, <2>3 DEF BusClk
    <3>2. ~rRd.flush /\ Recorded /\ Followed /\ Located
      BY <1>2, <3>1
    <3>3. MemStep /\ BusStep
      BY <2>1, MemStands, BusEdgeStep
    <3>4. rdata' = Aged(next, FALSE)
      BY <1>4 DEF RdEdge, Aged
    <3>5. MemKept(FALSE)
      BY <2>1, <3>2, MemRests
    <3>6. BusKept(next)
      BY <2>1, <3>1, <3>2, LocatedStep
    <3>7. SampledTogether
      BY <1>4 DEF RdEdge, wrVars, SampledTogether
    <3> HIDE DEF next
    <3> QED
      BY <3>2, <3>3, <3>4, <3>5, <3>6, <3>7, WindowStep
  <2> QED
    BY <2>2, <2>3 DEF WInv
<1>5. ASSUME NEW wrDecm \in BOOLEAN, NEW parm \in BOOLEAN, NEW trg \in BOOLEAN,
             NEW cmd, NEW rdyOb \in BOOLEAN,
             BothEdges(wrDecm, parm, trg, cmd, rdyOb)
      PROVE  WInv'
  <2> DEFINE next == rdataNext(rdEna(rdyOb), rRd.flush)
  <2>1. BusClk(cmd, rdyOb) /\ MemClk(wrDecm, parm, trg)
    BY <1>5 DEF BothEdges
  <2>2. rRd'.flush => flushed'
    BY <2>1 DEF BusClk
  <2>3. ASSUME ~flushed' PROVE Recorded' /\ Followed' /\ Located'
    <3>1. ~flushed /\ ~rRd'.flush
      BY <2>1, <2>3 DEF BusClk
    <3>2. ~rRd.flush /\ Recorded /\ Followed /\ Located
      BY <1>2, <3>1
    <3>3. MemStep /\ BusStep
      BY <2>1, MemEdge, BusEdgeStep
    <3>4. rdata' = Aged(next, Offered(wrDecm)) /\ Offered(wrDecm) \in BOOLEAN
      BY <1>5 DEF BothEdges, Offered
    <3>5. MemKept(Offered(wrDecm))
      BY <2>1, <3>2, RecordedStep
    <3>6. BusKept(next)
      BY <2>1, <3>1, <3>2, LocatedStep
    <3>7. SampledTogether
      BY <1>5 DEF BothEdges, WrSync, SampledTogether
    <3> HIDE DEF next
    <3> QED
      BY <3>2, <3>3, <3>4, <3>5, <3>6, <3>7, WindowStep
  <2> QED
    BY <2>2, <2>3 DEF WInv
<1>6. ASSUME UNCHANGED vars PROVE WInv'
  <2>1. /\ UNCHANGED <<rWr, bWr, waddr, ram, sinceStart>> /\ UNCHANGED <<rRd, bRd, got, flushed>>
        /\ rdata' = rdata /\ rdTgl' = rdTgl /\ rdTglSync' = rdTglSync
    BY <1>6 DEF vars, wrVars, rdVars
  <2>2. rRd'.flush => flushed'
    BY <1>2, <2>1
  <2>3. ASSUME ~flushed' PROVE Recorded' /\ Followed' /\ Located'
    <3>1. Recorded /\ Followed /\ Located
      BY <1>2, <2>1, <2>3
    <3>2. MemStep /\ BusStep /\ SampledTogether
      BY <2>1, MemStands, BusStands DEF SampledTogether
    <3>3. MemKept(FALSE) /\ BusKept(rdata) /\ rdata' = Aged(rdata, FALSE)
      BY <2>1, <3>1, MemRests, BusRests DEF Aged
    <3> QED
      BY <3>1, <3>2, <3>3, WindowStep
  <2> QED
    BY <2>2, <2>3 DEF WInv
<1> QED
  BY <1>1, <1>3, <1>4, <1>5, <1>6 DEF Next

LEMMA WInductive == Spec => []WInv
  BY Inductive, WInvInit, WInvStep, PTL DEF Spec
-----------------------------------------------------------------------------
(* Theorems.                                                               *)

\* Type correctness: counters and addresses stay in the width of their
\* registers (hdl/MaxAdc.vhd, hdl/SampleBufferBRAM.vhd), for memories of any
\* size and clocks of any ratio.
THEOREM TypeCorrect == Spec => []TypeOK
<1>1. IInv => TypeOK
  BY DEF IInv
<1> QED
  BY Inductive, <1>1, PTL

\* hdl/SampleBufferBRAM.vhd, "while the write is halted the reader may access
\* these signals": address and number of samples hold still while the read
\* side uses them without a synchronizer.
THEOREM HaltedWhenRead == Spec => []HaltedWhileReading
<1>1. IInv => HaltedWhileReading
  <2> SUFFICES ASSUME IInv PROVE HaltedWhileReading
    OBVIOUS
  <2>1. TypeOK /\ BufferRing
    BY DEF IInv
  <2>2. ASSUME wrTglSync[2] # bRd.tgl PROVE bWr.state = "HALT"
    BY <2>1, <2>2, Typed, RingWaits DEF BufferRing
  <2> QED
    BY <2>1, <2>2 DEF BufferRing, HaltedWhileReading
<1> QED
  BY Inductive, <1>1, PTL

\* hdl/MaxAdc.vhd, "we can never get here when rdEmp is '1'".
THEOREM NeverReadsEmpty == Spec => []ReadNotEmpty
<1>1. IInv => ReadNotEmpty
  BY DEF IInv, Reading, ReadNotEmpty, rdEmp
<1> QED
  BY Inductive, <1>1, PTL

\* The recorder restarts only when the readout's answer came round: whatever
\* parameters arrive, and when (hdl/MaxAdc.vhd, P_WR_SEQ).
THEOREM RestartsWhenReleased == Spec => ReleaseBeforeRestart
<1> DEFINE A == rWr.state \in {"STOP1", "STOP2", "HOLD"} /\ rWr'.state \in {"INIT", "FILL", "RUN"}
                  => rWr.state = "HOLD" /\ rdTgl[2] = rWr.tgl /\ rRd.tgl = rWr.tgl
<1>1. IInv /\ [Next]_vars => [A]_vars
  <2> SUFFICES ASSUME IInv, Next PROVE A
    OBVIOUS
  <2>1. RecorderHandsOver
    <3>1. \A d \in Decimated : d \in BOOLEAN
      BY EnvAssumption
    <3>2. CASE UNCHANGED rWr
      BY <3>2, Typed DEF RecorderHandsOver, IInv
    <3>3. ASSUME NEW wrDecm \in Decimated, NEW parm \in BOOLEAN, NEW trg \in BOOLEAN,
                 MemClk(wrDecm, parm, trg)
          PROVE  RecorderHandsOver
      BY <3>1, <3>3, MemEdge DEF MemStep
    <3> QED
      BY <3>2, <3>3 DEF Next, WrEdge, RdEdge, BothEdges, wrVars
  <2>2. ASSUME rdTgl[2] = rWr.tgl PROVE rRd.tgl = rWr.tgl
    <3>1. TypeOK /\ RecorderRing
      BY DEF IInv
    <3> QED
      BY <2>2, <3>1, Typed, RingAtRest DEF RecorderRing
  <2> QED
    BY <2>1, <2>2 DEF RecorderHandsOver
<1> QED
  BY Inductive, <1>1, PTL DEF Spec, ReleaseBeforeRestart

\* hdl/MaxAdc.vhd: a readout yields the samples of the recording in the order
\* they were taken and ends with the newest, for memories of any size, any
\* parameters, and clocks of any ratio; until a buffer is flushed.
THEOREM WindowKept == Spec => []WindowIntact
<1>1. IInv /\ WInv => WindowIntact
  <2> SUFFICES ASSUME IInv, WInv, ~flushed, rRd.state \in {"HDR", "READ"}, bRd.state = "READ"
               PROVE  /\ rdata = Size - 1 - got
                      /\ bRd.raddr = waddr <=> got = Size - 1
    BY DEF WindowIntact, WindowStored
  <2>1. Recorded /\ Followed /\ Located
    BY DEF WInv
  <2>2. Taken = got /\ got < Size
    BY <2>1 DEF Located, Taken
  <2>3. Size \in 1 .. MemDepth /\ MemDepth \in Nat /\ got \in 0 .. MemDepth /\ waddr \in Addr
    BY <2>1, RecorderWaits, MemoryAssumption, Typed DEF IInv, TypeOK
  <2>4. bRd.raddr = Back(Size - 1 - got) /\ rdata = Size - 1 - got
    BY <2>1, <2>2 DEF Located
  <2>5. Size - 1 - got \in 0 .. MemDepth - 1
    BY <2>2, <2>3
  <2>6. Back(Size - 1 - got) = waddr <=> Size - 1 - got = 0
    BY <2>3, <2>5, BackAddr
  <2> QED
    BY <2>3, <2>4, <2>6
<1> QED
  BY Inductive, WInductive, <1>1, PTL
-----------------------------------------------------------------------------
(* A small instance, for TLC.                                              *)

\* Parameters at both limits.
MCFewParms ==
  {[nsamples |-> 0, nprets |-> 0], [nsamples |-> MemDepth - 1, nprets |-> 1]}
=============================================================================
