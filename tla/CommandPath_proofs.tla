------------------------- MODULE CommandPath_proofs -------------------------
(***************************************************************************)
(* The command path answers every frame by its own reply (CommandPath), as *)
(* theorems for every set of requests, register file and link.             *)
(*                                                                         *)
(* The invariant says where everything is.  F is the sequence of all the   *)
(* frames that were ever sent, a of which are answered.  Followed from the *)
(* host to the handlers and back, the bytes on the link, the byte in the   *)
(* destuffer, the beats in the pipeline stage, the mux, the selected       *)
(* handler, the other pipeline stage, the stuffer and the answer hold      *)
(* adjacent places (frame, offset) in F and in the replies to F; the       *)
(* writes to the registers are a log in which each frame has its part.  A  *)
(* step moves each of these places by at most one byte: there is a lemma   *)
(* for each block, and CommandWrapper's edge of the clock joins them.      *)
(*                                                                         *)
(* EachFrameAnswered is what the invariant says of the COMMA that ends an  *)
(* answer.  ReplyIsMine needs one more: what the host has received, what   *)
(* is on the link and what the device has put out of the answer make up    *)
(* the reply to the request under way, and what the host still has to      *)
(* write is the rest of that request and nothing else.                     *)
(***************************************************************************)
EXTENDS CommandPath, SequenceTheorems, WellFoundedInduction, TLAPS

-----------------------------------------------------------------------------
(* Types: each block of the command path keeps its own at an edge of the clock. *)

\* What is proved of one pipeline stage (SimpleBusPipeStage_proofs) holds of both
\* of CommandWrapper's.
IBP == INSTANCE SimpleBusPipeStage_proofs WITH buf <- ibBuf, ovfl <- ibOvfl, Beats <- Beat
OBP == INSTANCE SimpleBusPipeStage_proofs WITH buf <- obBuf, ovfl <- obOvfl, Beats <- Beat

\* A handler that is not selected gets nothing.
LEMMA ToHandlerType ==
  ASSUME MuxTypeOK, NEW busIb \in Bus(Beat), NEW h
  PROVE  ToHandler(h, busIb) \in Bus(Beat)
BY DEF MuxTypeOK, ToHandler, Bus

\* A beat on a bus.
LEMMA BeatOnBus ==
  ASSUME NEW bus \in Bus(Beat), bus # <<>>
  PROVE  bus[1] \in Beat /\ bus[1].dat \in Byte /\ bus[1].lst \in BOOLEAN
BY DEF Bus, Beat

\* The mux keeps its type.
LEMMA MuxKeepsType ==
  ASSUME MuxTypeOK, NEW busIb \in Bus(Beat), NEW hRdy \in BOOLEAN, NEW hOb, NEW rdyOb \in BOOLEAN,
         MuxEdge(busIb, hRdy, hOb, rdyOb)
  PROVE  MuxTypeOK'
<1> USE DEF MuxTypeOK
<1>1. CASE IdleEdge(busIb)
  <2>1. CASE busIb = <<>>
    BY <1>1, <2>1 DEF IdleEdge
  <2>2. CASE busIb # <<>>
    BY <1>1, <2>2, BeatOnBus DEF IdleEdge
  <2> QED
    BY <2>1, <2>2
<1>2. ASSUME NEW s \in {"IDLE", "CMD", "FWD", "WAI", "ERR"}, NEW seen \in BOOLEAN,
             mux' = [mux EXCEPT !.obLstSeen = seen, !.state = s]
      PROVE  MuxTypeOK'
  BY <1>2
<1>3. CASE CmdEdge(hRdy, hOb, rdyOb)
  <2> DEFINE seen == mux.obLstSeen \/ (selOK /\ LstSeen(hOb, rdyOb))
             ns   == IF ~mux.cmd.lst THEN "FWD" ELSE IF seen THEN "IDLE" ELSE "WAI"
             s    == IF ~selOK THEN "ERR" ELSE IF hRdy THEN ns ELSE mux.state
  <2>1. seen \in BOOLEAN /\ s \in {"IDLE", "CMD", "FWD", "WAI", "ERR"}
    OBVIOUS
  <2>2. mux' = [mux EXCEPT !.obLstSeen = seen, !.state = s]
    BY <1>3 DEF CmdEdge
  <2> HIDE DEF seen, s
  <2> QED
    BY <1>2, <2>1, <2>2
<1>4. CASE FwdEdge(busIb, hRdy, hOb, rdyOb)
  <2> DEFINE seen == mux.obLstSeen \/ LstSeen(hOb, rdyOb)
             last == hRdy /\ busIb # <<>> /\ busIb[1].lst
             s    == IF ~last THEN mux.state ELSE IF seen THEN "IDLE" ELSE "WAI"
  <2>1. seen \in BOOLEAN /\ s \in {"IDLE", "CMD", "FWD", "WAI", "ERR"}
    OBVIOUS
  <2>2. mux' = [mux EXCEPT !.obLstSeen = seen, !.state = s]
    BY <1>4 DEF FwdEdge
  <2> HIDE DEF seen, s
  <2> QED
    BY <1>2, <2>1, <2>2
<1>5. CASE WaiEdge(hOb, rdyOb)
  BY <1>5 DEF WaiEdge
<1>6. CASE ErrEdge(busIb, rdyOb)
  <2> DEFINE seen == mux.obLstSeen \/ rdyOb
             l    == mux.cmd.lst \/ (busIb # <<>> /\ busIb[1].lst)
             s    == IF mux.cmd.lst /\ mux.obLstSeen THEN "IDLE" ELSE mux.state
  <2>1. seen \in BOOLEAN /\ l \in BOOLEAN /\ s \in {"IDLE", "CMD", "FWD", "WAI", "ERR"}
    OBVIOUS
  <2>2. mux' = [mux EXCEPT !.obLstSeen = seen, !.cmd.lst = l, !.state = s]
    BY <1>6 DEF ErrEdge
  <2> HIDE DEF seen, l, s
  <2>3. [mux.cmd EXCEPT !.lst = l] \in Beat
    BY <2>1 DEF Beat
  <2> QED
    BY <2>1, <2>2, <2>3
<1> QED
  BY <1>1, <1>3, <1>4, <1>5, <1>6 DEF MuxEdge

\* A byte on a bus.
LEMMA OneOnBus ==
  ASSUME NEW T, NEW x \in T
  PROVE  <<x>> \in Bus(T) /\ <<>> \in Bus(T) /\ <<x>> # <<>> /\ <<x>>[1] = x
BY DEF Bus

\* The fields of a beat.
LEMMA BeatType ==
  ASSUME NEW d \in Byte, NEW l \in BOOLEAN
  PROVE  <<[dat |-> d, lst |-> l]>> \in Bus(Beat)
BY DEF Bus, Beat

\* The destuffer puts out beats.
LEMMA DstOutType ==
  ASSUME DstTypeOK, NEW inp \in Bus(Byte), NEW r \in BOOLEAN
  PROVE  DstOut(inp, r) \in Bus(Beat)
<1>1. CASE DstOut(inp, r) = <<>>
  BY <1>1 DEF Bus
<1>2. CASE DstOut(inp, r) # <<>>
  <2> DEFINE l == dst.state = "RUN" /\ inp[1] = COMMA /\ r
             d == dst.held[1]
  <2>1. dst.held # <<>> /\ DstOut(inp, r) = <<[dat |-> d, lst |-> l]>>
    BY <1>2 DEF DstOut
  <2>2. d \in Byte /\ l \in BOOLEAN
    BY <2>1 DEF DstTypeOK, Bus
  <2> HIDE DEF d, l
  <2> QED
    BY <2>1, <2>2, BeatType
<1> QED
  BY <1>1, <1>2

\* The destuffer keeps its type.
LEMMA DstKeepsType ==
  ASSUME DstTypeOK, NEW inp \in Bus(Byte), NEW r \in BOOLEAN, DstEdge(inp, r)
  PROVE  DstTypeOK'
<1>1. CASE UNCHANGED dst
  BY <1>1 DEF DstTypeOK
<1>2. CASE inp # <<>> /\ dst' = DstNext(inp[1])
  <2>1. PICK b \in Byte : inp = <<b>>
    BY <1>2 DEF Bus
  <2>2. dst' = DstNext(b) /\ <<b>> \in Bus(Byte) /\ <<>> \in Bus(Byte)
    BY <1>2, <2>1, OneOnBus
  <2>3. dst = [state |-> dst.state, held |-> dst.held]
    BY DEF DstTypeOK
  <2> QED
    BY <2>2, <2>3 DEF DstNext, DstTypeOK
<1> QED
  BY <1>1, <1>2 DEF DstEdge

\* The byte that waits behind its ESCAP is there.
StfOK == StfTypeOK /\ (stf.state = "STUFF" => stf.held # <<>>)

\* The stuffer puts out bytes.
LEMMA StfOutType ==
  ASSUME StfOK, NEW inp \in Bus(Beat)
  PROVE  StfOut(inp) \in Bus(Byte)
<1>1. COMMA \in Byte /\ ESCAP \in Byte
  BY BusAssumption
<1>2. stf.state = "STUFF" => stf.held[1].dat \in Byte
  BY BeatOnBus DEF StfOK, StfTypeOK
<1>3. inp # <<>> => inp[1].dat \in Byte
  BY BeatOnBus
<1> QED
  BY <1>1, <1>2, <1>3, OneOnBus DEF StfOut, StfOK, StfTypeOK, Bus

\* The stuffer keeps its type.
LEMMA StfKeepsType ==
  ASSUME StfOK, NEW inp \in Bus(Beat), NEW r \in BOOLEAN, StfEdge(inp, r)
  PROVE  StfOK'
<1>1. stf = [state |-> stf.state, held |-> stf.held]
  BY DEF StfOK, StfTypeOK
<1>2. <<>> \in Bus(Beat)
  BY DEF Bus
<1> QED
  BY <1>1, <1>2 DEF StfEdge, StfOK, StfTypeOK, EndOfFrame

\* The version is a sequence of bytes that is not empty.
LEMMA VerLen == Len(VERSION) \in Nat /\ Len(VERSION) >= 1 /\ \A i \in 1 .. Len(VERSION) : VERSION[i] \in Byte
BY VersionAssumption, EmptySeq, ElementOfSeq, LenProperties

\* CommandVersion keeps its type.
LEMMA VerKeepsType ==
  ASSUME VerTypeOK, NEW mIb, NEW r, VerEdge(mIb, r)
  PROVE  VerTypeOK'
<1>1. ver = [state |-> ver.state, addr |-> ver.addr]
  BY DEF VerTypeOK
<1> QED
  BY <1>1, VerLen DEF VerEdge, VerTypeOK

\* It puts out beats.
LEMMA VerObType ==
  ASSUME VerTypeOK, NEW mIb \in Bus(Beat)
  PROVE  VerOb(mIb) \in Bus(Beat)
<1>1. CASE ver.state = "ECHO" /\ mIb # <<>>
  <2>1. VerOb(mIb) = <<[mIb[1] EXCEPT !.lst = FALSE]>> /\ mIb[1] \in Beat
    BY <1>1, BeatOnBus DEF VerOb
  <2> QED
    BY <2>1 DEF Bus, Beat
<1>2. CASE ver.state = "PLAY"
  <2>1. VERSION[ver.addr] \in Byte /\ (ver.addr = Len(VERSION)) \in BOOLEAN
    BY <1>2, VerLen DEF VerTypeOK
  <2>2. VerOb(mIb) = <<[dat |-> VERSION[ver.addr], lst |-> ver.addr = Len(VERSION)]>>
    BY <1>2 DEF VerOb
  <2> QED
    BY <2>1, <2>2, BeatType
<1>3. CASE VerOb(mIb) = <<>>
  BY <1>3 DEF Bus
<1> QED
  BY <1>1, <1>2, <1>3 DEF VerOb, VerTypeOK

\* CommandBitBang keeps its type.
LEMMA BbKeepsType ==
  ASSUME BbTypeOK, NEW mIb \in Bus(Beat), NEW r \in BOOLEAN, NEW free \in BOOLEAN, BbEdge(mIb, r, free)
  PROVE  BbTypeOK'
<1>1. bb = [state |-> bb.state, lstSeen |-> bb.lstSeen, held |-> bb.held]
  BY DEF BbTypeOK
<1>2. <<>> \in Bus(Byte) /\ (mIb # <<>> => <<mIb[1].dat>> \in Bus(Byte) /\ mIb[1].lst \in BOOLEAN)
  BY BeatOnBus, OneOnBus DEF Bus
<1>3. CASE BbEcho(mIb, r)
  BY <1>2, <1>3 DEF BbEcho, BbTypeOK
<1>4. CASE BbFwd(mIb, r, free)
  <2> DEFINE got  == ~bb.lstSeen /\ mIb # <<>> /\ rrdy(r, free)
             done == r /\ bb.held # <<>> /\ bb.lstSeen
             h == IF got THEN <<mIb[1].dat>> ELSE IF r THEN <<>> ELSE bb.held
             l == ~done /\ (bb.lstSeen \/ (got /\ mIb[1].lst))
             s == IF done THEN "ECHO" ELSE "FWD"
  <2>1. bb' = [state |-> s, lstSeen |-> l, held |-> h]
    BY <1>4 DEF BbFwd
  <2>2. h \in Bus(Byte) /\ s \in {"ECHO", "FWD"}
    BY <1>2 DEF BbTypeOK
  <2>3. l \in BOOLEAN
    OBVIOUS
  <2> HIDE DEF h, s, l
  <2> QED
    BY <2>1, <2>2, <2>3 DEF BbTypeOK
<1> QED
  BY <1>3, <1>4 DEF BbEdge

\* It puts out beats.
LEMMA BbObType ==
  ASSUME BbTypeOK, NEW mIb \in Bus(Beat)
  PROVE  BbOb(mIb) \in Bus(Beat)
<1>1. bb.held # <<>> => bb.held[1] \in Byte
  BY DEF BbTypeOK, Bus
<1>2. bb.lstSeen \in BOOLEAN
  BY DEF BbTypeOK
<1> QED
  BY <1>1, <1>2, BeatType DEF BbOb, Bus

\* A read goes on while there is something left to read.
RegOK == RegTypeOK /\ (reg.state = "RD8" => reg.count >= 0)

\* The status bytes and the addresses are bytes.
LEMMA AllOnes == ALL_ONES \in Byte /\ OK \in Byte /\ 0 \in Byte /\ \A a \in Byte : NextAddr(a) \in Byte
<1>1. NumBytes \in Nat \ {0}
  BY BusAssumption
<1> QED
  BY <1>1 DEF ALL_ONES, OK, Byte, NextAddr

\* The states of CommandRegRd8Wr8 in the model.
RegStates == {"IDLE", "A8", "L8", "RD8", "WR8", "STA", "DRAIN", "REPLY"}

\* A record of fields of their types is one of the type of CommandReg.
LEMMA RegRecord ==
  ASSUME NEW s \in RegStates, NEW a \in Byte, NEW c \in Byte \union {0 - 1}, NEW m \in Byte,
         NEW d \in Byte, NEW v \in BOOLEAN, NEW e \in BOOLEAN, s = "RD8" => c >= 0,
         reg' = [state |-> s, addr |-> a, count |-> c, cmd |-> m, rdat |-> d, rvld |-> v, err |-> e]
  PROVE  RegOK'
BY DEF RegOK, RegTypeOK, RegStates

\* The record of the register handler is that of its fields.
LEMMA RegFields ==
  ASSUME RegTypeOK
  PROVE  /\ reg = [state |-> reg.state, addr |-> reg.addr, count |-> reg.count, cmd |-> reg.cmd,
                   rdat |-> reg.rdat, rvld |-> reg.rvld, err |-> reg.err]
         /\ reg.state \in RegStates /\ reg.addr \in Byte /\ reg.count \in Byte \union {0 - 1}
         /\ reg.cmd \in Byte /\ reg.rdat \in Byte /\ reg.rvld \in BOOLEAN /\ reg.err \in BOOLEAN
BY DEF RegTypeOK, RegStates

\* CommandReg keeps its type.
LEMMA RegKeepsType ==
  ASSUME RegOK, NEW mIb \in Bus(Beat), NEW r \in BOOLEAN, NEW rdy \in BOOLEAN, NEW rdat \in Byte,
         NEW err \in BOOLEAN, RegEdge(mIb, r, rdy, rdat, err)
  PROVE  RegOK'
<1> USE DEF RegStates
<1>1. RegTypeOK /\ (reg.state = "RD8" => reg.count >= 0)
  BY DEF RegOK
<1>2. mIb # <<>> => mIb[1].dat \in Byte /\ mIb[1].lst \in BOOLEAN
  BY BeatOnBus
<1>3. CASE reg' = reg
  BY <1>3 DEF RegOK, RegTypeOK
<1> DEFINE Rec(st, a, c, m, d, v, e) ==
             [state |-> st, addr |-> a, count |-> c, cmd |-> m, rdat |-> d, rvld |-> v, err |-> e]
<1>0. /\ reg = Rec(reg.state, reg.addr, reg.count, reg.cmd, reg.rdat, reg.rvld, reg.err)
      /\ reg.state \in RegStates /\ reg.addr \in Byte /\ reg.count \in Byte \union {0 - 1}
      /\ reg.cmd \in Byte /\ reg.rdat \in Byte /\ reg.rvld \in BOOLEAN /\ reg.err \in BOOLEAN
  BY <1>1, RegFields
<1>4. CASE RegIdle(mIb)
  <2>1. CASE mIb = <<>>
    <3>1. reg' = Rec("IDLE", reg.addr, 0 - 1, reg.cmd, reg.rdat, reg.rvld, TRUE)
      BY <1>0, <1>4, <2>1 DEF RegIdle
    <3> QED
      BY <1>0, <3>1, RegRecord
  <2>2. CASE mIb # <<>>
    <3> DEFINE st == EndOr(mIb[1], IF Cmd[mIb[1].dat] \in {"RD8", "WR8"} THEN "A8" ELSE "DRAIN")
    <3>1. st \in RegStates \ {"RD8"}
      BY DEF EndOr
    <3>2. reg' = Rec(st, reg.addr, 0 - 1, mIb[1].dat, reg.rdat, reg.rvld, TRUE)
      BY <1>0, <1>4, <2>2 DEF RegIdle
    <3>3. mIb[1].dat \in Byte /\ reg.addr \in Byte /\ reg.rdat \in Byte /\ reg.rvld \in BOOLEAN
      BY <1>0, <1>2, <2>2
    <3> HIDE DEF st
    <3>4. st \in RegStates /\ (st = "RD8" => 0 - 1 >= 0) /\ 0 - 1 \in Byte \union {0 - 1}
          /\ TRUE \in BOOLEAN
      BY <3>1
    <3> QED
      BY <3>2, <3>3, <3>4 DEF RegOK, RegTypeOK
  <2> QED
    BY <2>1, <2>2
<1>5. CASE RegA8(mIb) /\ mIb # <<>>
  <2> DEFINE st == EndOr(mIb[1], IF Cmd[reg.cmd] = "RD8" THEN "L8" ELSE "WR8")
  <2>1. st \in RegStates \ {"RD8"}
    BY DEF EndOr
  <2>2. reg' = Rec(st, mIb[1].dat, reg.count, reg.cmd, reg.rdat, reg.rvld, reg.err)
    BY <1>0, <1>5 DEF RegA8
  <2> HIDE DEF st
  <2> QED
    BY <1>0, <1>2, <1>5, <2>1, <2>2, RegRecord
<1>6. CASE RegL8(mIb) /\ mIb # <<>>
  <2>1. CASE mIb[1].lst
    <3>1. reg' = Rec("REPLY", reg.addr, mIb[1].dat, reg.cmd, reg.rdat, reg.rvld, reg.err)
      BY <1>0, <1>6, <2>1 DEF RegL8
    <3> QED
      BY <1>0, <1>2, <1>6, <3>1, RegRecord
  <2>2. CASE ~mIb[1].lst
    <3>1. reg' = Rec("DRAIN", reg.addr, reg.count, reg.cmd, reg.rdat, reg.rvld, reg.err)
      BY <1>0, <1>6, <2>2 DEF RegL8
    <3> QED
      BY <1>0, <1>2, <1>6, <3>1, RegRecord
  <2> QED
    BY <2>1, <2>2
<1>7. CASE RegWR8(mIb, rdy, err) /\ mIb # <<>> /\ rdy
  <2> DEFINE st == EndOr(mIb[1], IF err THEN "DRAIN" ELSE reg.state)
  <2>1. st \in RegStates \ {"RD8"}
    BY <1>7 DEF EndOr, RegWR8
  <2>2. reg' = Rec(st, NextAddr(reg.addr), reg.count, reg.cmd, reg.rdat, reg.rvld, err)
    BY <1>0, <1>7 DEF RegWR8
  <2>3. NextAddr(reg.addr) \in Byte
    BY <1>0, AllOnes
  <2> HIDE DEF st
  <2> QED
    BY <1>0, <2>1, <2>2, <2>3, RegRecord
<1>8. CASE RegRD8(r, rdy, rdat, err) /\ reg' # reg
  <2>1. reg.count \in Byte /\ reg.state = "RD8"
    BY <1>0, <1>1, <1>8 DEF RegRD8
  <2>2. CASE RegRead /\ rdy
    <3> DEFINE d == IF err THEN ALL_ONES ELSE rdat
    <3>1. d \in Byte
      BY AllOnes
    <3>2. reg' = Rec("RD8", reg.addr, reg.count, reg.cmd, d, TRUE, err)
      BY <1>0, <1>8, <2>1, <2>2 DEF RegRD8
    <3> HIDE DEF d
    <3> QED
      BY <1>0, <1>1, <2>1, <3>1, <3>2, RegRecord
  <2>3. CASE ~(RegRead /\ rdy)
    <3> DEFINE st == IF reg.err THEN "IDLE" ELSE IF reg.count = 0 THEN "STA" ELSE "RD8"
    <3>1. reg' = Rec(st, NextAddr(reg.addr), reg.count - 1, reg.cmd, reg.rdat, FALSE, reg.err)
      BY <1>0, <1>8, <2>1, <2>3 DEF RegRD8
    <3>2. reg.count - 1 \in Byte \union {0 - 1} /\ (st = "RD8" => reg.count - 1 >= 0)
      BY <2>1, BusAssumption DEF Byte
    <3>3. st \in RegStates /\ NextAddr(reg.addr) \in Byte
      BY <1>0, AllOnes
    <3> HIDE DEF st
    <3> DEFINE c == reg.count - 1
               a == NextAddr(reg.addr)
    <3> HIDE DEF c, a
    <3>4. /\ c \in Byte \union {0 - 1} /\ (st = "RD8" => c >= 0) /\ st \in RegStates /\ a \in Byte
          /\ reg' = Rec(st, a, c, reg.cmd, reg.rdat, FALSE, reg.err)
      BY <3>1, <3>2, <3>3 DEF c, a
    <3>5. reg.cmd \in Byte /\ reg.rdat \in Byte /\ reg.err \in BOOLEAN
      BY <1>0
    <3>6. FALSE \in BOOLEAN
      OBVIOUS
    <3> QED
      BY <3>4, <3>5, <3>6 DEF RegOK, RegTypeOK
  <2> QED
    BY <2>2, <2>3
<1>9. CASE RegReply(r) /\ reg' # reg
  <2>1. reg' = Rec(IF reg.count >= 0 THEN "RD8" ELSE "STA", reg.addr, reg.count, reg.cmd,
                   reg.rdat, reg.rvld, reg.err)
    BY <1>0, <1>9 DEF RegReply
  <2> QED
    BY <1>0, <2>1, RegRecord
<1>10. CASE RegSta(r) /\ reg' # reg
  <2>1. reg' = Rec("IDLE", reg.addr, reg.count, reg.cmd, reg.rdat, reg.rvld, reg.err)
    BY <1>0, <1>10 DEF RegSta
  <2> QED
    BY <1>0, <2>1, RegRecord
<1>11. CASE RegDrain(mIb) /\ reg' # reg
  <2>1. reg' = Rec("REPLY", reg.addr, reg.count, reg.cmd, reg.rdat, reg.rvld, reg.err)
    BY <1>0, <1>11 DEF RegDrain
  <2> QED
    BY <1>0, <2>1, RegRecord
<1>12. (RegA8(mIb) \/ RegL8(mIb)) /\ mIb = <<>> => reg' = reg
  BY DEF RegA8, RegL8
<1>13. RegWR8(mIb, rdy, err) /\ ~(mIb # <<>> /\ rdy) => reg' = reg
  BY DEF RegWR8
<1> QED
  BY <1>3, <1>4, <1>5, <1>6, <1>7, <1>8, <1>9, <1>10, <1>11, <1>12, <1>13 DEF RegEdge

\* It puts out beats.
LEMMA RegObType ==
  ASSUME RegTypeOK
  PROVE  RegOb \in Bus(Beat)
BY AllOnes, RegFields, BeatType DEF RegOb, Bus

\* The selected handler puts out beats.
LEMMA HandlerObType ==
  ASSUME VerTypeOK, BbTypeOK, RegTypeOK, MuxTypeOK, NEW busIb \in Bus(Beat), busIb = ibBuf
  PROVE  HandlerOb \in Bus(Beat)
BY VerObType, BbObType, RegObType, ToHandlerType DEF HandlerOb

\* So does the mux.
LEMMA MuxObType ==
  ASSUME NEW hOb \in Bus(Beat)
  PROVE  muxOb(hOb) \in Bus(Beat)
BY BusAssumption, BeatType DEF muxOb, Bus

-----------------------------------------------------------------------------
(* The way of a request: bytes on the link, destuffer, pipeline stage. *)

\* The frames that were ever sent; the last one is still being sent.
Frames(F) ==
  /\ F \in Seq(Seq(Byte)) /\ F # <<>>
  /\ \A i \in 1 .. Len(F) - 1 : F[i] # <<>>

\* The place in the frames behind what is on a bus.
NextF(f, w) == IF w # <<>> /\ w[1].lst THEN f + 1 ELSE f
NextK(k, w) == IF w = <<>> THEN k ELSE IF w[1].lst THEN 0 ELSE k + 1

\* (f2, k2) is (f, k), behind w if go.
Moved(go, f, k, w, f2, k2) ==
  /\ go => f2 = NextF(f, w) /\ k2 = NextK(k, w)
  /\ ~go => f2 = f /\ k2 = k

\* A beat of a request is what follows k bytes of frame f.
Requested(F, f, k, w) ==
  w # <<>> =>
    /\ f \in 1 .. Len(F) /\ k + 1 \in 1 .. Len(F[f])
    /\ w[1].dat = F[f][k + 1]
    /\ IF w[1].lst THEN k + 1 = Len(F[f]) /\ f < Len(F) ELSE k + 1 < Len(F[f])

\* A state of the destuffer, with the place in the frames of what leaves it next.
Place == [state : {"INIT", "SYNC", "RUN", "ESC"}, held : Bus(Byte), f : Nat, k : Nat]

\* A byte that is held is the next one of frame x.f; before the first COMMAs
\* nothing is.
PlaceOK(F, x) ==
  /\ x \in Place /\ x.f \in 1 .. Len(F)
  /\ x.held # <<>> => x.k + 1 <= Len(F[x.f]) /\ x.held[1] = F[x.f][x.k + 1]
  /\ x.held = <<>> => x.k = 0
  /\ x.state \in {"INIT", "SYNC"} => x.held = <<>> /\ x.f = 1

At(state, held, f, k) == [state |-> state, held |-> held, f |-> f, k |-> k]

\* The destuffer's state and place behind byte b (ByteDeStuffer), when it is never
\* held up.
After(x, b) ==
  CASE x.state = "INIT" -> At("SYNC", x.held, x.f, x.k)
    [] x.state = "SYNC" -> At("RUN", x.held, x.f, x.k)
    [] x.state = "RUN" /\ b = ESCAP -> At("ESC", x.held, x.f, x.k)
    [] x.state = "RUN" /\ b = COMMA -> At("RUN", <<>>, IF x.held = <<>> THEN x.f ELSE x.f + 1, 0)
    [] x.state = "ESC" \/ (x.state = "RUN" /\ ~Special(b)) ->
         At("RUN", <<b>>, x.f, IF x.held = <<>> THEN x.k ELSE x.k + 1)

\* Byte b can follow: COMMAs come first, and one ends a frame only where the
\* frame ends.
Fits(F, x, b) ==
  /\ x.state \in {"INIT", "SYNC"} => b = COMMA
  /\ x.state = "RUN" /\ b = COMMA /\ x.held # <<>> => x.k + 1 = Len(F[x.f])

\* Everything that was sent is somewhere.
AtEnd(F, x) ==
  /\ x.f = Len(F) /\ x.k + Len(x.held) = Len(F[Len(F)])
  /\ escSent <=> x.state = "ESC"

\* What the host has yet to write fits: COMMAs while it opens the link, and
\* nothing else before the destuffer has seen two of them.
HostSyncs(x) ==
  /\ host.state = "OPEN" => host.tx # <<>> /\ \A i \in 1 .. Len(host.tx) : host.tx[i] = COMMA
  /\ x.state = "INIT" => host.tx = <<>> \/ (host.state = "OPEN" /\ Len(host.tx) >= 2)
  /\ x.state = "SYNC" => host.tx = <<>> \/ host.state = "OPEN"
  /\ host.state \in {"IDLE", "BUSY"} => x.state \notin {"INIT", "SYNC"}
  /\ host.state \in {"CLOSED", "IDLE"} => host.tx = <<>>

\* X is where the destuffer will be after each of the bytes on the link.
Way(F, X, x) ==
  /\ X \in [0 .. Len(toDev) -> Place] /\ X[0] = x
  /\ \A i \in 0 .. Len(toDev) : PlaceOK(F, X[i])
  /\ \A i \in 1 .. Len(toDev) : X[i] = After(X[i - 1], toDev[i]) /\ Fits(F, X[i - 1], toDev[i])

\* The bytes on their way take the destuffer from x to where everything sent is.
Arrives(F, x) ==
  \E X : Way(F, X, x) /\ AtEnd(F, X[Len(toDev)]) /\ HostSyncs(X[Len(toDev)])

\* The pipeline stage holds what is between (f, k) and (f2, k2).
InPipe(F, f, k, f2, k2) ==
  LET f1 == NextF(f, ibBuf)
      k1 == NextK(k, ibBuf)
  IN  /\ f \in Nat /\ k \in Nat
      /\ Requested(F, f, k, ibBuf) /\ Requested(F, f1, k1, ibOvfl)
      /\ f2 = NextF(f1, ibOvfl) /\ k2 = NextK(k1, ibOvfl)

\* The mux gets next what follows k bytes of frame f.
InAt(F, f, k) ==
  \E f2, k2 : InPipe(F, f, k, f2, k2) /\ Arrives(F, At(dst.state, dst.held, f2, k2))

\* A place behind a beat is one.
LEMMA NextPlace ==
  ASSUME NEW f \in Nat, NEW k \in Nat, NEW w \in Bus(Beat)
  PROVE  NextF(f, w) \in Nat /\ NextK(k, w) \in Nat /\ NextF(f, <<>>) = f /\ NextK(k, <<>>) = k
BY BeatOnBus DEF NextF, NextK

\* The beats in a pipeline stage keep their places.
LEMMA IbPlaces ==
  ASSUME NEW F, NEW f, NEW k, NEW f2, NEW k2, NEW f3, NEW k3, NEW g, NEW l,
         NEW inp \in Bus(Beat), NEW r \in BOOLEAN, NEW q, q = IB!rdyIb,
         IBP!PipeInv, IB!Edge(inp, r), InPipe(F, f, k, f2, k2), q => Requested(F, f2, k2, inp),
         Moved(q, f2, k2, inp, f3, k3), Moved(r, f, k, ibBuf, g, l)
  PROVE  InPipe(F, g, l, f3, k3)'
<1>0. PICK f1, k1, b1, b2 : f1 = NextF(f, ibBuf) /\ k1 = NextK(k, ibBuf) /\ b1 = ibBuf' /\ b2 = ibOvfl'
  OBVIOUS
<1> SUFFICES /\ g \in Nat /\ l \in Nat
             /\ Requested(F, g, l, b1) /\ Requested(F, NextF(g, b1), NextK(l, b1), b2)
             /\ NextF(NextF(g, b1), b2) = f3 /\ NextK(NextK(l, b1), b2) = k3
  BY <1>0 DEF InPipe
<1>7. /\ f \in Nat /\ k \in Nat /\ Requested(F, f, k, ibBuf) /\ Requested(F, f1, k1, ibOvfl)
      /\ f2 = NextF(f1, ibOvfl) /\ k2 = NextK(k1, ibOvfl)
  BY <1>0 DEF InPipe
<1>8. g \in Nat /\ l \in Nat
  <2>1. ibBuf \in Bus(Beat)
    BY DEF IBP!PipeInv, IBP!Word, Bus
  <2>2. f1 \in Nat /\ k1 \in Nat
    BY <1>0, <1>7, <2>1, NextPlace
  <2> QED
    BY <1>0, <1>7, <2>2 DEF Moved
<1> USE DEF Moved
<1>1. ibOvfl # <<>> => ibBuf # <<>>
  BY DEF IBP!PipeInv, IBP!OvflBehindBuf
<1>2. \A x : \A w \in {<<>>} : NextF(x, w) = x /\ NextK(x, w) = x
  BY DEF NextF, NextK
<1>3. \A a, b : Requested(F, a, b, <<>>)
  BY DEF Requested
<1>4. CASE ibBuf # <<>> /\ ibOvfl # <<>>
  <2>1. CASE r
    BY <1>0, <1>7, <1>8, <1>2, <1>3, <1>4, <2>1 DEF IB!Edge, IB!rdyIb
  <2>2. CASE ~r
    BY <1>0, <1>7, <1>8, <1>4, <2>2 DEF IB!Edge, IB!rdyIb
  <2> QED
    BY <2>1, <2>2
<1>5. CASE ibBuf = <<>>
  <2>1. ibOvfl = <<>> /\ b1 = inp /\ b2 = <<>> /\ q
    BY <1>0, <1>1, <1>5 DEF IB!Edge, IB!rdyIb
  <2>2. f1 = f /\ k1 = k /\ f2 = f /\ k2 = k /\ g = f /\ l = k
    BY <1>0, <1>7, <1>2, <1>5, <2>1
  <2> QED
    BY <1>7, <1>8, <1>2, <1>3, <2>1, <2>2
<1>6. CASE ibBuf # <<>> /\ ibOvfl = <<>>
  <2>1. CASE r
    <3>1. b1 = inp /\ b2 = <<>> /\ q
      BY <1>0, <1>6, <2>1 DEF IB!Edge, IB!rdyIb
    <3>2. f2 = f1 /\ k2 = k1 /\ g = f1 /\ l = k1
      BY <1>0, <1>7, <1>2, <1>6, <2>1
    <3> QED
      BY <1>0, <1>7, <1>8, <1>2, <1>3, <3>1, <3>2
  <2>2. CASE ~r
    BY <1>0, <1>7, <1>8, <1>2, <1>6, <2>2 DEF IB!Edge, IB!rdyIb
  <2> QED
    BY <2>1, <2>2
<1> QED
  BY <1>4, <1>5, <1>6

\* What the destuffer does with a byte, and where that is in the frames.
LEMMA AfterCases ==
  ASSUME NEW x \in Place, NEW b
  PROVE  /\ x.state = "INIT" => After(x, b) = At("SYNC", x.held, x.f, x.k)
         /\ x.state = "SYNC" => After(x, b) = At("RUN", x.held, x.f, x.k)
         /\ x.state = "RUN" /\ b = ESCAP => After(x, b) = At("ESC", x.held, x.f, x.k)
         /\ x.state = "RUN" /\ b = COMMA =>
              After(x, b) = At("RUN", <<>>, IF x.held = <<>> THEN x.f ELSE x.f + 1, 0)
         /\ x.state = "ESC" \/ (x.state = "RUN" /\ ~Special(b)) =>
              After(x, b) = At("RUN", <<b>>, x.f, IF x.held = <<>> THEN x.k ELSE x.k + 1)
         /\ x.state \in {"INIT", "SYNC", "RUN", "ESC"}
<1> DEFINE a == At("SYNC", x.held, x.f, x.k)
           c == At("RUN", x.held, x.f, x.k)
           d == At("ESC", x.held, x.f, x.k)
           e == At("RUN", <<>>, IF x.held = <<>> THEN x.f ELSE x.f + 1, 0)
           g == At("RUN", <<b>>, x.f, IF x.held = <<>> THEN x.k ELSE x.k + 1)
<1>1. After(x, b) =
  CASE x.state = "INIT" -> a
    [] x.state = "SYNC" -> c
    [] x.state = "RUN" /\ b = ESCAP -> d
    [] x.state = "RUN" /\ b = COMMA -> e
    [] x.state = "ESC" \/ (x.state = "RUN" /\ ~Special(b)) -> g
  BY DEF After
<1> HIDE DEF a, c, d, e, g
<1>2. COMMA # ESCAP /\ x.state \in {"INIT", "SYNC", "RUN", "ESC"}
  BY BusAssumption DEF Place
<1>3. /\ x.state = "INIT" => After(x, b) = a
      /\ x.state = "SYNC" => After(x, b) = c
      /\ x.state = "RUN" /\ b = ESCAP => After(x, b) = d
      /\ x.state = "RUN" /\ b = COMMA => After(x, b) = e
      /\ x.state = "ESC" \/ (x.state = "RUN" /\ ~Special(b)) => After(x, b) = g
  BY <1>1, <1>2 DEF Special
<1> QED
  BY <1>2, <1>3 DEF a, c, d, e, g

\* What the destuffer does with a byte.
LEMMA DstCases ==
  ASSUME DstTypeOK, NEW b \in Byte, dst' = DstNext(b)
  PROVE  /\ dst.state = "INIT" => dst'.held = dst.held /\ (b # ESCAP => dst'.state = "SYNC")
         /\ dst.state = "SYNC" => dst'.held = dst.held /\ (b = COMMA => dst'.state = "RUN")
         /\ dst.state = "RUN" /\ b = ESCAP => dst'.state = "ESC" /\ dst'.held = dst.held
         /\ dst.state = "RUN" /\ b = COMMA => dst'.state = "RUN" /\ dst'.held = <<>>
         /\ dst.state = "ESC" \/ (dst.state = "RUN" /\ ~Special(b)) =>
              dst'.state = "RUN" /\ dst'.held = <<b>>
         /\ dst.state \in {"INIT", "SYNC", "RUN", "ESC"}
<1>1. COMMA # ESCAP /\ dst.state \in {"INIT", "SYNC", "RUN", "ESC"}
      /\ dst = [state |-> dst.state, held |-> dst.held]
  BY BusAssumption DEF DstTypeOK
<1> QED
  BY <1>1 DEF DstNext, Special

\* What it puts out.
LEMMA OutCases ==
  ASSUME DstTypeOK, NEW b \in Byte, NEW r \in BOOLEAN
  PROVE  /\ dst.held = <<>> \/ (dst.state = "RUN" /\ b = ESCAP) => DstOut(<<b>>, r) = <<>>
         /\ dst.held # <<>> /\ ~(dst.state = "RUN" /\ b = ESCAP) =>
              /\ DstOut(<<b>>, r) # <<>>
              /\ DstOut(<<b>>, r)[1].dat = dst.held[1]
              /\ DstOut(<<b>>, r)[1].lst <=> (dst.state = "RUN" /\ b = COMMA /\ r)
BY DEF DstOut

\* It follows the bytes, and its beats are what follows in the frames.
LEMMA DstPlace ==
  ASSUME NEW F, Frames(F), DstTypeOK, NEW f \in Nat, NEW k \in Nat, NEW b \in Byte, dst' = DstNext(b)
  PROVE  LET x   == At(dst.state, dst.held, f, k)
             y   == After(x, b)
             out == DstOut(<<b>>, TRUE)
         IN  PlaceOK(F, x) /\ PlaceOK(F, y) /\ Fits(F, x, b) =>
               /\ Requested(F, f, k, out)
               /\ y = At(dst'.state, dst'.held, NextF(f, out), NextK(k, out))
<1> SUFFICES ASSUME NEW x, NEW y, NEW out,
                      x = At(dst.state, dst.held, f, k), y = After(x, b), out = DstOut(<<b>>, TRUE),
                      PlaceOK(F, x), PlaceOK(F, y), Fits(F, x, b)
               PROVE  /\ Requested(F, f, k, out)
                      /\ y = At(dst'.state, dst'.held, NextF(f, out), NextK(k, out))
  BY Zenon
<1>1. x.state = dst.state /\ x.held = dst.held /\ x.f = f /\ x.k = k /\ x \in Place
  BY DEF At, PlaceOK
<1>2. COMMA # ESCAP
  BY BusAssumption
<1>3. Len(F) \in Nat /\ \A i \in 1 .. Len(F) : Len(F[i]) \in Nat
  BY LenProperties, ElementOfSeq DEF Frames
<1>4. \A w \in {<<>>} : Requested(F, f, k, w) /\ NextF(f, w) = f /\ NextK(k, w) = k
  BY DEF Requested, NextF, NextK
<1>5. CASE dst.state \in {"INIT", "SYNC"}
  <2>1. dst.held = <<>> /\ b = COMMA
    BY <1>1, <1>5 DEF PlaceOK, Fits
  <2>2. out = <<>>
    BY <2>1, OutCases
  <2>3. Requested(F, f, k, out) /\ NextF(f, out) = f /\ NextK(k, out) = k
    BY <1>4, <2>2
  <2>4. dst'.held = dst.held /\ (dst.state = "INIT" => dst'.state = "SYNC")
        /\ (dst.state = "SYNC" => dst'.state = "RUN")
    BY <1>2, <1>5, <2>1, DstCases
  <2>5. /\ dst.state = "INIT" => y = At("SYNC", dst.held, f, k)
        /\ dst.state = "SYNC" => y = At("RUN", dst.held, f, k)
    BY <1>1, AfterCases
  <2> QED
    BY <1>5, <2>3, <2>4, <2>5
<1>6. CASE dst.state = "RUN" /\ b = ESCAP
  <2>1. Requested(F, f, k, out) /\ NextF(f, out) = f /\ NextK(k, out) = k
    BY <1>1, <1>4, <1>6, OutCases
  <2>2. dst'.state = "ESC" /\ dst'.held = dst.held
    BY <1>6, DstCases
  <2>3. y = At("ESC", dst.held, f, k)
    BY <1>1, <1>6, AfterCases
  <2> QED
    BY <2>1, <2>2, <2>3
<1>7. CASE dst.held = <<>> /\ dst.state = "RUN" /\ b = COMMA
  <2>1. k = 0
    BY <1>1, <1>7 DEF PlaceOK
  <2>2. out = <<>>
    BY <1>7, OutCases
  <2>3. Requested(F, f, k, out) /\ NextF(f, out) = f /\ NextK(k, out) = k
    BY <1>4, <2>2
  <2>4. dst'.held = <<>> /\ dst'.state = "RUN"
    BY <1>7, DstCases
  <2>5. y = At("RUN", <<>>, f, 0)
    BY <1>1, <1>7, AfterCases
  <2> QED
    BY <2>1, <2>3, <2>4, <2>5
<1>8. CASE dst.held = <<>> /\ (dst.state = "ESC" \/ (dst.state = "RUN" /\ ~Special(b)))
  <2>1. Requested(F, f, k, out) /\ NextF(f, out) = f /\ NextK(k, out) = k
    BY <1>1, <1>4, <1>8, OutCases
  <2>2. dst'.state = "RUN" /\ dst'.held = <<b>>
    BY <1>8, DstCases
  <2>3. y = At("RUN", <<b>>, f, k)
    BY <1>1, <1>8, AfterCases
  <2> QED
    BY <2>1, <2>2, <2>3
<1>9. CASE dst.held # <<>> /\ dst.state = "RUN" /\ b = COMMA
  <2>1. out # <<>> /\ out[1].dat = dst.held[1] /\ out[1].lst
    BY <1>2, <1>9, OutCases
  <2>2. k + 1 = Len(F[f]) /\ dst.held[1] = F[f][k + 1] /\ f \in 1 .. Len(F)
    BY <1>1, <1>9 DEF Fits, PlaceOK
  <2>3. y = At("RUN", <<>>, f + 1, 0)
    BY <1>1, <1>9, AfterCases
  <2>4. f + 1 <= Len(F)
    BY <1>3, <2>3 DEF PlaceOK, At
  <2>5. Requested(F, f, k, out)
    <3>1. k + 1 \in 1 .. Len(F[f]) /\ f < Len(F)
      BY <1>3, <2>2, <2>4
    <3> QED
      BY <2>1, <2>2, <3>1 DEF Requested
  <2>6. dst'.state = "RUN" /\ dst'.held = <<>>
    BY <1>9, DstCases
  <2> QED
    BY <2>1, <2>3, <2>5, <2>6 DEF NextF, NextK
<1>10. CASE dst.held # <<>> /\ (dst.state = "ESC" \/ (dst.state = "RUN" /\ ~Special(b)))
  <2>1. out # <<>> /\ out[1].dat = dst.held[1] /\ ~out[1].lst
    BY <1>10, OutCases DEF Special
  <2>2. y = At("RUN", <<b>>, f, k + 1) /\ <<b>> # <<>>
    BY <1>1, <1>10, AfterCases
  <2>3. k + 1 + 1 <= Len(F[f]) /\ f \in 1 .. Len(F)
    BY <2>2 DEF PlaceOK, At
  <2>4. dst.held[1] = F[f][k + 1]
    BY <1>1, <1>10 DEF PlaceOK
  <2>5. Requested(F, f, k, out)
    <3>1. k + 1 \in 1 .. Len(F[f]) /\ k + 1 < Len(F[f])
      BY <1>3, <2>3
    <3> QED
      BY <2>1, <2>3, <2>4, <3>1 DEF Requested
  <2>6. dst'.state = "RUN" /\ dst'.held = <<b>>
    BY <1>10, DstCases
  <2> QED
    BY <2>1, <2>2, <2>5, <2>6 DEF NextF, NextK
<1> QED
  BY <1>5, <1>6, <1>7, <1>8, <1>9, <1>10, DstCases DEF Special

\* The byte at the device.
FromHost(inp) == inp = IF toDev = <<>> THEN <<>> ELSE <<Head(toDev)>>

\* A step of the destuffer.
LEMMA Advance ==
  ASSUME NEW F, toDev \in Seq(Byte), toDev # <<>>, toDev' = Tail(toDev), UNCHANGED <<host, escSent>>,
         NEW x, NEW y, NEW X, Way(F, X, x), AtEnd(F, X[Len(toDev)]), HostSyncs(X[Len(toDev)]), y = X[1]
  PROVE  Arrives(F, y)'
<1>1. PICK n, t, u : n = Len(toDev) /\ t = toDev /\ u = toDev'
  OBVIOUS
<1>2. n \in Nat /\ n >= 1 /\ Len(u) = n - 1 /\ \A i \in 1 .. n - 1 : u[i] = t[i + 1]
  BY <1>1, EmptySeq, LenProperties, HeadTailProperties
<1>3. PICK Z : Z = [i \in 0 .. n - 1 |-> X[i + 1]]
  OBVIOUS
<1>4. /\ X \in [0 .. n -> Place]
      /\ \A i \in 0 .. n : PlaceOK(F, X[i])
      /\ \A i \in 1 .. n : X[i] = After(X[i - 1], t[i]) /\ Fits(F, X[i - 1], t[i])
  BY <1>1 DEF Way
<1>5. \A i \in 0 .. n - 1 : i + 1 \in 0 .. n /\ Z[i] = X[i + 1]
  BY <1>2, <1>3
<1>6. Z \in [0 .. n - 1 -> Place]
  BY <1>3, <1>4, <1>5
<1>7. Z[0] = y
  <2>1. 0 \in 0 .. n - 1 /\ 0 + 1 = 1
    BY <1>2
  <2> QED
    BY <1>5, <2>1
<1>8. Z[n - 1] = X[n]
  <2>1. n - 1 \in 0 .. n - 1 /\ n - 1 + 1 = n
    BY <1>2
  <2> QED
    BY <1>5, <2>1
<1>9. \A i \in 0 .. n - 1 : PlaceOK(F, Z[i])
  BY <1>4, <1>5
<1>10. \A i \in 1 .. n - 1 : Z[i] = After(Z[i - 1], u[i]) /\ Fits(F, Z[i - 1], u[i])
  <2> TAKE i \in 1 .. n - 1
  <2>1. i \in 0 .. n - 1 /\ i - 1 \in 0 .. n - 1 /\ i + 1 \in 1 .. n /\ i + 1 - 1 = i /\ i - 1 + 1 = i
    BY <1>2
  <2>2. Z[i] = X[i + 1] /\ Z[i - 1] = X[i] /\ u[i] = t[i + 1]
    BY <1>2, <1>5, <2>1
  <2>3. X[i + 1] = After(X[i], t[i + 1]) /\ Fits(F, X[i], t[i + 1])
    BY <1>4, <2>1
  <2> QED
    BY <2>2, <2>3
<1>11. Way(F, Z, y)'
  <2>1. /\ Z \in [0 .. Len(u) -> Place] /\ Z[0] = y
        /\ \A i \in 0 .. Len(u) : PlaceOK(F, Z[i])
        /\ \A i \in 1 .. Len(u) : Z[i] = After(Z[i - 1], u[i]) /\ Fits(F, Z[i - 1], u[i])
    BY <1>2, <1>6, <1>7, <1>9, <1>10
  <2> QED
    BY <1>1, <2>1 DEF Way
<1>12. PICK e : e = X[n]
  OBVIOUS
<1>13. AtEnd(F, e)' /\ HostSyncs(e)'
  BY <1>1, <1>12 DEF AtEnd, HostSyncs
<1>14. (Z[Len(toDev)])' = e
  BY <1>1, <1>2, <1>8, <1>12
<1> QED
  BY <1>11, <1>13, <1>14 DEF Arrives, AtEnd, HostSyncs

\* Nothing happens to the bytes on their way.
LEMMA Stays ==
  ASSUME NEW F, UNCHANGED <<toDev, host, escSent>>, NEW x, Arrives(F, x)
  PROVE  Arrives(F, x)'
<1>1. PICK X : Way(F, X, x) /\ AtEnd(F, X[Len(toDev)]) /\ HostSyncs(X[Len(toDev)])
  BY DEF Arrives
<1>2. PICK n, e : n = Len(toDev) /\ e = X[n]
  OBVIOUS
<1>3. Way(F, X, x)' /\ AtEnd(F, e)' /\ HostSyncs(e)'
  BY <1>1, <1>2 DEF Way, AtEnd, HostSyncs
<1>4. (X[Len(toDev)])' = e
  BY <1>2
<1> QED
  BY <1>3, <1>4 DEF Arrives, AtEnd, HostSyncs

\* The destuffer at an edge of the clock; f, k: the place behind the pipeline stage.
LEMMA DstStep ==
  ASSUME NEW F, Frames(F), NEW f \in Nat, NEW k \in Nat, DstTypeOK, toDev \in Seq(Byte),
         Arrives(F, At(dst.state, dst.held, f, k)),
         NEW inp, FromHost(inp),
         NEW q \in BOOLEAN, DstEdge(inp, q), NEW out, out = DstOut(inp, q),
         toDev' = (IF inp # <<>> /\ DstRdyInp(q) THEN Tail(toDev) ELSE toDev),
         UNCHANGED <<host, escSent>>, NEW f3, NEW k3, Moved(q, f, k, out, f3, k3)
  PROVE  /\ out \in Bus(Beat)
         /\ q => Requested(F, f, k, out)
         /\ Arrives(F, At(dst.state, dst.held, f3, k3))'
<1> USE DEF Moved, FromHost
<1>1. PICK x, s2, h2 :
        /\ x = At(dst.state, dst.held, f, k)
        /\ s2 = dst'.state /\ h2 = dst'.held
  OBVIOUS
<1>2. SUFFICES /\ out \in Bus(Beat) /\ (q => Requested(F, f, k, out))
               /\ Arrives(F, At(s2, h2, f3, k3))'
  BY <1>1 DEF Arrives, Way
<1>3. \A w \in {<<>>} : Requested(F, f, k, w) /\ NextF(f, w) = f /\ NextK(k, w) = k /\ w \in Bus(Beat)
  BY DEF Requested, NextF, NextK, Bus
<1>4. CASE inp = <<>> \/ ~DstRdyInp(q)
  <2>1. dst' = dst /\ toDev' = toDev
    BY <1>4 DEF DstEdge
  <2>2. inp = <<>> => out = <<>>
    BY DEF DstOut
  <2>3. inp # <<>> => out \in Bus(Beat) /\ (q => out = <<>>)
    <3>1. inp # <<>> => inp \in Bus(Byte)
      BY OneOnBus, ElementOfSeq, EmptySeq, HeadTailProperties
    <3> QED
      BY <1>4, <3>1, DstOutType DEF DstRdyInp
  <2>4. f3 = f /\ k3 = k /\ At(s2, h2, f3, k3) = x
    BY <1>1, <1>3, <2>1, <2>2, <2>3
  <2>5. Arrives(F, x)'
    BY <1>1, <2>1, Stays
  <2> QED
    BY <1>3, <2>2, <2>3, <2>4, <2>5
<1>5. CASE inp # <<>> /\ DstRdyInp(q)
  <2>1. PICK b : b = toDev[1]
    OBVIOUS
  <2>2. toDev # <<>> /\ inp = <<b>> /\ b \in Byte /\ Len(toDev) \in Nat /\ Len(toDev) >= 1
    BY <1>5, <2>1, EmptySeq, LenProperties, ElementOfSeq, HeadTailProperties
  <2>3. dst' = DstNext(b) /\ toDev' = Tail(toDev)
    BY <1>5, <2>2 DEF DstEdge
  <2>4. PICK X : Way(F, X, x) /\ AtEnd(F, X[Len(toDev)]) /\ HostSyncs(X[Len(toDev)])
    BY <1>1 DEF Arrives
  <2>5. PICK y : y = X[1]
    OBVIOUS
  <2>6. y = After(x, b) /\ Fits(F, x, b) /\ PlaceOK(F, x) /\ PlaceOK(F, y)
    <3>1. 0 \in 0 .. Len(toDev) /\ 1 \in 0 .. Len(toDev) /\ 1 \in 1 .. Len(toDev) /\ 1 - 1 = 0
      BY <2>2
    <3> QED
      BY <2>1, <2>4, <2>5, <3>1 DEF Way
  <2>7. Arrives(F, y)'
    BY <2>2, <2>3, <2>4, <2>5, Advance
  <2>8. PICK o : o = DstOut(<<b>>, TRUE)
    OBVIOUS
  <2>9. /\ Requested(F, f, k, o)
        /\ y = At(s2, h2, NextF(f, o), NextK(k, o))
    <3>1. /\ Requested(F, f, k, o)
          /\ y = At(dst'.state, dst'.held, NextF(f, o), NextK(k, o))
      <4>1. x = At(dst.state, dst.held, f, k) /\ b \in Byte /\ dst' = DstNext(b)
        BY <1>1, <2>2, <2>3
      <4> QED
        BY <2>6, <2>8, <4>1, DstPlace, Zenon
    <3> QED
      BY <1>1, <3>1
  <2>10. q => out = o
    BY <2>2, <2>8
  <2>11. ~q => o = <<>>
    BY <1>1, <1>5, <2>6, <2>8 DEF At, DstRdyInp, DstOut, PlaceOK
  <2>12. out \in Bus(Beat)
    BY <2>2, OneOnBus, DstOutType
  <2>13. y = At(s2, h2, f3, k3)
    BY <1>1, <1>3, <2>9, <2>10, <2>11
  <2> QED
    BY <2>7, <2>9, <2>10, <2>12, <2>13
<1> QED
  BY <1>4, <1>5

\* The way of a request to the multiplexer at an edge of the clock.
LEMMA ClkIn ==
  ASSUME NEW F, Frames(F), NEW f, NEW k, InAt(F, f, k), DstTypeOK, IBP!PipeInv, toDev \in Seq(Byte),
         NEW inp, FromHost(inp),
         DstEdge(inp, IB!rdyIb), NEW r \in BOOLEAN, IB!Edge(DstOut(inp, IB!rdyIb), r),
         toDev' = (IF inp # <<>> /\ rdyIb THEN Tail(toDev) ELSE toDev),
         UNCHANGED <<host, escSent>>,
         NEW g, NEW l, Moved(r, f, k, ibBuf, g, l)
  PROVE  InAt(F, g, l)'
<1>1. PICK f2, k2 : InPipe(F, f, k, f2, k2) /\ Arrives(F, At(dst.state, dst.held, f2, k2))
  BY DEF InAt
<1>2. PICK q, out : q = IB!rdyIb /\ out = DstOut(inp, q)
  OBVIOUS
<1>3. f2 \in Nat /\ k2 \in Nat
  <2>1. ibBuf \in Bus(Beat) /\ ibOvfl \in Bus(Beat)
    BY DEF IBP!PipeInv, IBP!Word, Bus
  <2>2. PICK f1, k1 : f1 = NextF(f, ibBuf) /\ k1 = NextK(k, ibBuf)
    OBVIOUS
  <2>3. f \in Nat /\ k \in Nat /\ f2 = NextF(f1, ibOvfl) /\ k2 = NextK(k1, ibOvfl)
    BY <1>1, <2>2 DEF InPipe
  <2>4. f1 \in Nat /\ k1 \in Nat
    BY <2>1, <2>2, <2>3, NextPlace
  <2> QED
    BY <2>1, <2>3, <2>4, NextPlace
<1>4. q \in BOOLEAN
  BY <1>2 DEF IB!rdyIb
<1>5. PICK f3, k3 : Moved(q, f2, k2, out, f3, k3)
  BY DEF Moved
<1>6. /\ out \in Bus(Beat)
      /\ q => Requested(F, f2, k2, out)
      /\ Arrives(F, At(dst.state, dst.held, f3, k3))'
  <2>1. DstEdge(inp, q) /\ toDev' = (IF inp # <<>> /\ DstRdyInp(q) THEN Tail(toDev) ELSE toDev)
    BY <1>2 DEF rdyIb
  <2>2. out = DstOut(inp, q) /\ Arrives(F, At(dst.state, dst.held, f2, k2))
    BY <1>1, <1>2
  <2> QED
    BY <1>3, <1>4, <1>5, <2>1, <2>2, DstStep, Zenon
<1>7. InPipe(F, g, l, f3, k3)'
  <2>1. IB!Edge(out, r) /\ q = IB!rdyIb
    BY <1>2
  <2> QED
    BY <1>1, <1>5, <1>6, <2>1, IbPlaces, Zenon
<1> QED
  BY <1>6, <1>7 DEF InAt

-----------------------------------------------------------------------------
(* The operators of the reply: arithmetic of addresses, and what Reply and
   Writes are (CommandHandlers), for every frame. *)

\* A set of numbers has a smallest one.
LEMMA Smallest ==
  ASSUME NEW T, T \subseteq Nat, T # {}
  PROVE  \E x \in T : \A y \in T : x <= y
<1> DEFINE R == {ss \in Nat \X Nat : ss[1] < ss[2]}
<1>1. IsWellFoundedOn(R, Nat)
  BY NatLessThanWellFounded DEF OpToRel
<1>2. PICK x \in T : \A y \in T : ~ (<<y, x>> \in R)
  BY <1>1, WFMin
<1>3. \A y \in T : y < x => <<y, x>> \in R
  OBVIOUS
<1> HIDE DEF R
<1>4. \A y \in T : ~(y < x)
  BY <1>2, <1>3
<1> QED
  BY <1>4

\* Induction: every number is in a set that has 0 and is closed under + 1.
LEMMA Induct ==
  ASSUME NEW S, 0 \in S, \A n \in Nat : n \in S => n + 1 \in S
  PROVE  Nat \subseteq S
<1> DEFINE T == Nat \ S
<1> SUFFICES ASSUME T # {} PROVE FALSE
  OBVIOUS
<1>1. PICK x \in T : \A y \in T : x <= y
  BY Smallest
<1>2. x # 0
  OBVIOUS
<1>3. x - 1 \in Nat /\ x - 1 \in S
  BY <1>1, <1>2
<1> QED
  BY <1>3

\* Quotient and remainder.
LEMMA DivMod ==
  ASSUME NEW N \in Nat \ {0}, NEW x \in Nat
  PROVE /\ x % N \in 0 .. N - 1 
        /\ (x \div N) \in Nat
        /\ x = N * (x \div N) + (x % N)
  OBVIOUS

\* What a remainder is.
LEMMA ModIs ==
  ASSUME NEW N \in Nat \ {0}, NEW x \in Nat, NEW q \in Nat, NEW r \in 0 .. N - 1, x = N * q + r
  PROVE x % N = r
<1>1. x % N \in 0 .. N-1 /\ (x \div N) \in Nat /\ x = N * (x \div N) + (x % N)
  BY DivMod
<1>2. PICK p, s : p = x \div N /\ s = x % N
  OBVIOUS
<1>3. p \in Nat /\ s \in 0 .. N - 1 /\ N * p + s = N * q + r
  BY <1>1, <1>2
<1>4. p = q
  <2>1. CASE p < q
    <3>1. PICK d \in Nat \ {0} : q = p + d
      <4>1. q - p \in Nat \ {0} /\ q = p + (q - p)
        BY <1>3, <2>1
      <4> QED
        BY <4>1
    <3>2. N * q = N * p + N * d
      BY <3>1, <1>3
    <3>3. N * d >= N
      BY <3>1
    <3>4. N * q \in Int /\ N * p \in Int /\ N * d \in Int
      BY <3>1, <1>3
    <3> QED
      BY <1>3, <3>2, <3>3, <3>4
  <2>2. CASE q < p
    <3>1. PICK d \in Nat \ {0} : p = q + d
      <4>1. p - q \in Nat \ {0} /\ p = q + (p - q)
        BY <1>3, <2>2
      <4> QED
        BY <4>1
    <3>2. N * p = N * q + N * d
      BY <3>1, <1>3
    <3>3. N * d >= N
      BY <3>1
    <3>4. N * q \in Int /\ N * p \in Int /\ N * d \in Int
      BY <3>1, <1>3
    <3> QED
      BY <1>3, <3>2, <3>3, <3>4
  <2> QED
    BY <1>3, <2>1, <2>2
<1> QED
  BY <1>2, <1>3, <1>4

\* The remainder of the next number.
LEMMA ModSucc == ASSUME NEW N \in Nat \ {0}, NEW x \in Nat
  PROVE ((x % N) + 1) % N = (x + 1) % N
<1>1. PICK q, r : q = x \div N /\ r = x % N
  OBVIOUS
<1>2. q \in Nat /\ r \in 0 .. N - 1 /\ x = N * q + r
  BY <1>1, DivMod
<1>3. CASE r + 1 < N
  <2>1. (r + 1) % N = r + 1
    BY <1>2, <1>3
  <2>2. x + 1 = N * q + (r + 1) /\ x + 1 \in Nat /\ r + 1 \in 0 .. N - 1
    BY <1>2, <1>3
  <2>3. (x + 1) % N = r + 1
    BY <1>2, <2>2, ModIs
  <2> QED
    BY <1>1, <2>1, <2>3
<1>4. CASE r + 1 = N
  <2>1. N % N = 0
    OBVIOUS
  <2>2. N * (q + 1) = N * q + N
    BY <1>2
  <2>3. x + 1 = N * (q + 1) + 0 /\ x + 1 \in Nat /\ 0 \in 0 .. N - 1 /\ q + 1 \in Nat
    BY <1>2, <1>4, <2>2
  <2>4. (x + 1) % N = 0
    BY <1>2, <2>3, ModIs
  <2> QED
    BY <1>1, <1>4, <2>1, <2>4
<1> QED
  BY <1>2, <1>3, <1>4

\* The n registers from a on can be accessed.
GoodUpTo(a, n) == \A i \in 0 .. n - 1 : Addr(a, i) \notin BadAddr

\* Good is the number of registers from a on, at most n, before the first
\* that cannot be accessed.
LEMMA GoodIs ==
  ASSUME NEW a, NEW n \in Nat
  PROVE  /\ Good(a, n) \in 0 .. n /\ GoodUpTo(a, Good(a, n))
         /\ Good(a, n) < n => Addr(a, Good(a, n)) \in BadAddr
<1> DEFINE T == {k \in Nat : k = n \/ Addr(a, k) \in BadAddr}
<1>1. PICK k \in T : \A y \in T : k <= y
  <2>1. n \in T
    OBVIOUS
  <2> QED
    BY <2>1, Smallest
<1>2. /\ k \in 0 .. n
      /\ \A i \in 0 .. k - 1 : Addr(a, i) \notin BadAddr
      /\ k < n => Addr(a, k) \in BadAddr
  BY <1>1
<1> QED
  BY <1>2 DEF Good, GoodUpTo

\* Good is the only number that is as many.
LEMMA GoodOnly ==
  ASSUME NEW a, NEW n \in Nat, NEW k \in 0 .. n, GoodUpTo(a, k), k < n => Addr(a, k) \in BadAddr
  PROVE  Good(a, n) = k
<1>1. PICK g : g = Good(a, n)
  OBVIOUS
<1>2. g \in 0 .. n /\ GoodUpTo(a, g) /\ (g < n => Addr(a, g) \in BadAddr)
  BY <1>1, GoodIs
<1>3. ~(g < k) /\ ~(k < g)
  BY <1>2 DEF GoodUpTo
<1> QED
  BY <1>1, <1>2, <1>3

\* Addresses wrap around.
LEMMA AddrIs ==
  ASSUME NEW a \in Byte
  PROVE  /\ \A i \in Nat : Addr(a, i) \in Byte /\ NextAddr(Addr(a, i)) = Addr(a, i + 1)
         /\ Addr(a, 0) = a
<1>1. NumBytes \in Nat \ {0}
  BY BusAssumption
<1>2. \A i \in Nat : Addr(a, i) \in Byte
  BY <1>1 DEF Addr, Byte
<1>3. Addr(a, 0) = a
  BY <1>1 DEF Addr, Byte
<1>4. ASSUME NEW i \in Nat PROVE NextAddr(Addr(a, i)) = Addr(a, i + 1)
  <2>1. a + i \in Nat /\ a + (i + 1) = (a + i) + 1
    BY DEF Byte
  <2>2. ((((a + i) % NumBytes)) + 1) % NumBytes = ((a + i) + 1) % NumBytes
    BY <1>1, <2>1, ModSucc
  <2> QED
    BY <2>1, <2>2 DEF NextAddr, Addr
<1> QED
  BY <1>2, <1>3, <1>4

\* The reply of each command.
LEMMA ReplyCases ==
  ASSUME NEW f
  PROVE  /\ Cmd[f[1]] = "NONE" => Reply(f) = <<CMD_ERROR>>
         /\ Cmd[f[1]] = "VERSION" => Reply(f) = <<f[1]>> \o VERSION
         /\ Cmd[f[1]] = "ECHO" => Reply(f) = f
         /\ Cmd[f[1]] = "RD8" /\ Len(f) = 3 =>
              \E k : /\ k = Good(f[2], f[3] + 1)
                     /\ Reply(f) = <<f[1]>> \o [i \in 1 .. k |-> Rdat[Addr(f[2], i - 1)]]
                                            \o Status(k = f[3] + 1)
         /\ Cmd[f[1]] = "WR8" /\ Len(f) > 2 =>
              Reply(f) = <<f[1]>> \o Status(Good(f[2], Len(f) - 2) = Len(f) - 2)
         /\ Cmd[f[1]] \in {"RD8", "WR8", "ACQ_PARMS", "NOSUBCMD"} /\ ~(Cmd[f[1]] = "RD8" /\ Len(f) = 3)
            /\ ~(Cmd[f[1]] = "WR8" /\ Len(f) > 2) => Reply(f) = <<f[1], ALL_ONES>>
<1> DEFINE k == Good(f[2], IF Cmd[f[1]] = "RD8" THEN f[3] + 1 ELSE Len(f) - 2)
           a == <<CMD_ERROR>>
           b == <<f[1]>> \o VERSION
           c == <<f[1]>> \o [i \in 1 .. k |-> Rdat[Addr(f[2], i - 1)]] \o Status(k = f[3] + 1)
           d == <<f[1]>> \o Status(k = Len(f) - 2)
           e == <<f[1], ALL_ONES>>
           R == CASE Cmd[f[1]] = "NONE"    -> a
                  [] Cmd[f[1]] = "VERSION" -> b
                  [] Cmd[f[1]] = "ECHO"    -> f
                  [] Cmd[f[1]] = "RD8" /\ Len(f) = 3 -> c
                  [] Cmd[f[1]] = "WR8" /\ Len(f) > 2 -> d
                  [] OTHER -> e
<1>1. Reply(f) = R
  BY DEF Reply
<1>2. /\ Cmd[f[1]] = "RD8" => k = Good(f[2], f[3] + 1)
      /\ Cmd[f[1]] = "WR8" => k = Good(f[2], Len(f) - 2)
  OBVIOUS
<1>3. Cmd[f[1]] = "WR8" => d = <<f[1]>> \o Status(Good(f[2], Len(f) - 2) = Len(f) - 2)
  BY <1>2
<1>4. \E kk : kk = k /\ c = <<f[1]>> \o [i \in 1 .. kk |-> Rdat[Addr(f[2], i - 1)]] \o Status(kk = f[3] + 1)
  OBVIOUS
<1> HIDE DEF a, b, c, d, e, k
<1>5. /\ Cmd[f[1]] = "NONE" => R = a
      /\ Cmd[f[1]] = "VERSION" => R = b
      /\ Cmd[f[1]] = "ECHO" => R = f
      /\ Cmd[f[1]] = "RD8" /\ Len(f) = 3 => R = c
      /\ Cmd[f[1]] = "WR8" /\ Len(f) > 2 => R = d
      /\ Cmd[f[1]] \in {"RD8", "WR8", "ACQ_PARMS", "NOSUBCMD"} /\ ~(Cmd[f[1]] = "RD8" /\ Len(f) = 3)
         /\ ~(Cmd[f[1]] = "WR8" /\ Len(f) > 2) => R = e
  OBVIOUS
<1> HIDE DEF R
<1>6. /\ Cmd[f[1]] = "NONE" => Reply(f) = a
      /\ Cmd[f[1]] = "VERSION" => Reply(f) = b
      /\ Cmd[f[1]] = "ECHO" => Reply(f) = f
      /\ Cmd[f[1]] = "RD8" /\ Len(f) = 3 => Reply(f) = c
      /\ Cmd[f[1]] = "WR8" /\ Len(f) > 2 => Reply(f) = d
      /\ Cmd[f[1]] \in {"RD8", "WR8", "ACQ_PARMS", "NOSUBCMD"} /\ ~(Cmd[f[1]] = "RD8" /\ Len(f) = 3)
         /\ ~(Cmd[f[1]] = "WR8" /\ Len(f) > 2) => Reply(f) = e
  BY <1>1, <1>5
<1>7. Cmd[f[1]] = "RD8" /\ Len(f) = 3 =>
        \E kk : /\ kk = Good(f[2], f[3] + 1)
                /\ Reply(f) = <<f[1]>> \o [i \in 1 .. kk |-> Rdat[Addr(f[2], i - 1)]]
                                       \o Status(kk = f[3] + 1)
  BY <1>2, <1>4, <1>6
<1> QED
  BY <1>3, <1>6, <1>7 DEF a, b, e

\* A function on 1 .. n is a sequence.
LEMMA FunIsSeq ==
  ASSUME NEW S, NEW n \in Nat, NEW s \in [1 .. n -> S]
  PROVE  s \in Seq(S) /\ Len(s) = n
<1>1. s \in Seq(S)
  BY SeqDef
<1>2. Len(s) \in Nat /\ DOMAIN s = 1 .. Len(s)
  BY <1>1, LenProperties
<1>3. 1 .. n = 1 .. Len(s)
  BY <1>2
<1> QED
  BY <1>1, <1>2, <1>3

\* The status is one byte.
LEMMA StatusIs ==
  ASSUME NEW g \in BOOLEAN
  PROVE  Status(g) \in Seq(Byte) /\ Len(Status(g)) = 1 /\ Status(g)[1] = IF g THEN OK ELSE ALL_ONES
<1>1. OK \in Byte /\ ALL_ONES \in Byte
  BY AllOnes
<1> QED
  BY <1>1 DEF Status

Joined(s1, s2, s3) == s1 \o s2 \o s3

\* A sequence put together of a byte, some more, and a byte.
LEMMA ThreeParts ==
  ASSUME NEW s1 \in Seq(Byte), NEW s2 \in Seq(Byte), NEW s3 \in Seq(Byte), Len(s1) = 1, Len(s3) = 1,
         NEW t, t = Joined(s1, s2, s3)
  PROVE  /\ t \in Seq(Byte) /\ Len(t) = Len(s2) + 2
         /\ t[1] = s1[1] /\ t[Len(s2) + 2] = s3[1]
         /\ \A i \in 1 .. Len(s2) : t[i + 1] = s2[i]
<1>0. PICK k \in Nat : k = Len(s2)
  BY LenProperties
<1>1. PICK s : s = s1 \o s2 /\ t = s \o s3
  BY DEF Joined
<1>2. /\ s \in Seq(Byte) /\ Len(s) = k + 1
      /\ \A i \in 1 .. k + 1 : s[i] = IF i <= 1 THEN s1[i] ELSE s2[i - 1]
  <2>1. /\ s1 \o s2 \in Seq(Byte) /\ Len(s1 \o s2) = Len(s1) + Len(s2)
        /\ \A i \in 1 .. Len(s1) + Len(s2) :
             (s1 \o s2)[i] = IF i <= Len(s1) THEN s1[i] ELSE s2[i - Len(s1)]
    BY ConcatProperties
  <2> QED
    BY <1>0, <1>1, <2>1
<1>3. /\ t \in Seq(Byte) /\ Len(t) = k + 2
      /\ \A i \in 1 .. k + 2 : t[i] = IF i <= k + 1 THEN s[i] ELSE s3[i - (k + 1)]
  <2>1. /\ s \o s3 \in Seq(Byte) /\ Len(s \o s3) = Len(s) + Len(s3)
        /\ \A i \in 1 .. Len(s) + Len(s3) :
             (s \o s3)[i] = IF i <= Len(s) THEN s[i] ELSE s3[i - Len(s)]
    BY <1>2, ConcatProperties
  <2> QED
    BY <1>1, <1>2, <2>1
<1>4. t[1] = s1[1]
  <2>1. 1 \in 1 .. k + 1 /\ 1 \in 1 .. k + 2 /\ 1 <= k + 1
    BY <1>0
  <2>2. t[1] = s[1] /\ s[1] = s1[1]
    BY <1>2, <1>3, <2>1
  <2> QED
    BY <2>2
<1>5. t[k + 2] = s3[1]
  <2>1. k + 2 \in 1 .. k + 2 /\ ~(k + 2 <= k + 1) /\ (k + 2) - (k + 1) = 1
    BY <1>0
  <2> QED
    BY <1>3, <2>1
<1>6. \A i \in 1 .. k : t[i + 1] = s2[i]
  BY <1>2, <1>3
<1> QED
  BY <1>0, <1>1, <1>3, <1>4, <1>5, <1>6

\* What a read of registers is answered with: what could be read, and the status.
LEMMA ReplyRead ==
  ASSUME NEW f \in Seq(Byte), Len(f) = 3, Cmd[f[1]] = "RD8", NEW k, k = Good(f[2], f[3] + 1)
  PROVE  /\ k \in 0 .. f[3] + 1 /\ f[3] + 1 \in Nat
         /\ Reply(f) \in Seq(Byte) /\ Len(Reply(f)) = k + 2
         /\ Reply(f)[1] = f[1]
         /\ \A i \in 1 .. k : Reply(f)[i + 1] = Rdat[Addr(f[2], i - 1)]
         /\ Reply(f)[k + 2] = IF k = f[3] + 1 THEN OK ELSE ALL_ONES
<1>1. f[1] \in Byte /\ f[2] \in Byte /\ f[3] \in Byte
  <2>1. \A i \in 1 .. Len(f) : f[i] \in Byte
    BY ElementOfSeq
  <2> QED
    BY <2>1
<1>2. f[3] + 1 \in Nat
  BY <1>1 DEF Byte
<1>3. k \in 0 .. f[3] + 1 /\ k \in Nat
  BY <1>2, GoodIs
<1>4. PICK s1, s2, s3 : /\ s1 = <<f[1]>>
                        /\ s2 = [i \in 1 .. k |-> Rdat[Addr(f[2], i - 1)]]
                        /\ s3 = Status(k = f[3] + 1)
  OBVIOUS
<1>5. Reply(f) = s1 \o s2 \o s3
  BY <1>4, ReplyCases
<1>6. s1 \in Seq(Byte) /\ Len(s1) = 1 /\ s1[1] = f[1]
  BY <1>1, <1>4
<1>7. s2 \in Seq(Byte) /\ Len(s2) = k /\ \A i \in 1 .. k : s2[i] = Rdat[Addr(f[2], i - 1)]
  <2>1. \A i \in 1 .. k : Rdat[Addr(f[2], i - 1)] \in Byte
    <3> TAKE i \in 1 .. k
    <3>1. i - 1 \in Nat
      BY <1>3
    <3>2. Addr(f[2], i - 1) \in Byte
      BY <1>1, <3>1, AddrIs
    <3> QED
      BY <3>2, RegsAssumption
  <2>2. s2 \in [1 .. k -> Byte]
    BY <1>4, <2>1
  <2>3. s2 \in Seq(Byte) /\ Len(s2) = k
    BY <1>3, <2>2, FunIsSeq
  <2> QED
    BY <1>4, <2>3
<1>8. s3 \in Seq(Byte) /\ Len(s3) = 1 /\ s3[1] = IF k = f[3] + 1 THEN OK ELSE ALL_ONES
  BY <1>4, StatusIs
<1>9. /\ Reply(f) \in Seq(Byte) /\ Len(Reply(f)) = k + 2
      /\ Reply(f)[1] = s1[1] /\ Reply(f)[k + 2] = s3[1]
      /\ \A i \in 1 .. k : Reply(f)[i + 1] = s2[i]
  <2>1. /\ s1 \in Seq(Byte) /\ s2 \in Seq(Byte) /\ s3 \in Seq(Byte) /\ k \in Nat
        /\ Len(s1) = 1 /\ Len(s2) = k /\ Len(s3) = 1
    BY <1>3, <1>6, <1>7, <1>8
  <2>0. s1 \in Seq(Byte) /\ s2 \in Seq(Byte) /\ s3 \in Seq(Byte) /\ Len(s1) = 1 /\ Len(s3) = 1
    BY <2>1
  <2>2. PICK t : t = Joined(s1, s2, s3)
    OBVIOUS
  <2>3. /\ t \in Seq(Byte) /\ Len(t) = Len(s2) + 2 /\ t[1] = s1[1] /\ t[Len(s2) + 2] = s3[1]
        /\ \A i \in 1 .. Len(s2) : t[i + 1] = s2[i]
    BY <2>0, <2>2, ThreeParts
  <2> QED
    BY <1>5, <2>1, <2>2, <2>3, Zenon DEF Joined
<1> QED
  BY <1>2, <1>3, <1>6, <1>7, <1>8, <1>9

\* Every frame has a reply, of bytes, that is not empty.
LEMMA ReplyType ==
  ASSUME NEW f \in Seq(Byte), f # <<>>
  PROVE  Reply(f) \in Seq(Byte) /\ Len(Reply(f)) \in Nat /\ Len(Reply(f)) >= 1
<1>1. f[1] \in Byte /\ Len(f) \in Nat /\ Len(f) >= 1 /\ CMD_ERROR \in Byte
  BY EmptySeq, LenProperties, ElementOfSeq, BusAssumption
<1>2. Cmd[f[1]] \in {"VERSION", "ECHO", "ACQ_PARMS", "RD8", "WR8", "NOSUBCMD", "NONE"}
  BY <1>1, BusAssumption
<1>3. <<f[1]>> \in Seq(Byte) /\ Len(<<f[1]>>) = 1
  BY <1>1
<1>4. \A s \in Seq(Byte) : <<f[1]>> \o s \in Seq(Byte) /\ Len(<<f[1]>> \o s) = 1 + Len(s)
  BY <1>3, ConcatProperties
<1>5. SUFFICES Reply(f) \in Seq(Byte) /\ Len(Reply(f)) >= 1
  BY LenProperties
<1>6. CASE Cmd[f[1]] = "NONE"
  <2>1. <<CMD_ERROR>> \in Seq(Byte) /\ Len(<<CMD_ERROR>>) = 1
    BY <1>1
  <2>2. Reply(f) = <<CMD_ERROR>>
    BY <1>6, ReplyCases
  <2> QED
    BY <2>1, <2>2
<1>7. CASE Cmd[f[1]] = "VERSION"
  <2>1. VERSION \in Seq(Byte) /\ Len(VERSION) \in Nat
    BY VersionAssumption, LenProperties
  <2>2. Reply(f) = <<f[1]>> \o VERSION
    BY <1>7, ReplyCases
  <2> QED
    BY <1>4, <2>1, <2>2
<1>8. CASE Cmd[f[1]] = "ECHO"
  BY <1>1, <1>8, ReplyCases
<1>9. CASE Cmd[f[1]] = "RD8" /\ Len(f) = 3
  BY <1>9, ReplyRead
<1>10. CASE Cmd[f[1]] = "WR8" /\ Len(f) > 2
  <2>1. PICK g \in BOOLEAN : g <=> Good(f[2], Len(f) - 2) = Len(f) - 2
    OBVIOUS
  <2>2. Reply(f) = <<f[1]>> \o Status(g)
    BY <1>10, <2>1, ReplyCases
  <2> QED
    BY <1>4, <2>2, StatusIs
<1>11. CASE ~(Cmd[f[1]] \in {"NONE", "VERSION", "ECHO"} \/ (Cmd[f[1]] = "RD8" /\ Len(f) = 3)
              \/ (Cmd[f[1]] = "WR8" /\ Len(f) > 2))
  <2>1. Reply(f) = <<f[1], ALL_ONES>>
    BY <1>2, <1>11, ReplyCases
  <2>2. ALL_ONES \in Byte
    BY AllOnes
  <2>3. <<f[1], ALL_ONES>> \in Seq(Byte) /\ Len(<<f[1], ALL_ONES>>) = 2
    BY <1>1, <2>2
  <2> QED
    BY <2>1, <2>3
<1> QED
  BY <1>6, <1>7, <1>8, <1>9, <1>10, <1>11

\* The i-th write of a frame that writes registers.
WriteOf(f, i) == <<Addr(f[2], i - 1), f[i + 2]>>

\* The writes of a frame are to addresses that rise one by one.
LEMMA WritesAre ==
  ASSUME NEW f \in Seq(Byte)
  PROVE  /\ Len(Writes(f)) = IF Len(f) > 2 /\ Cmd[f[1]] = "WR8" THEN Good(f[2], Len(f) - 2) ELSE 0
         /\ Len(Writes(f)) \in Nat
         /\ \A i \in 1 .. Len(Writes(f)) : Writes(f)[i] = WriteOf(f, i)
         /\ Writes(f) \in Seq(Byte \X Byte)
<1>1. CASE ~(Len(f) > 2 /\ Cmd[f[1]] = "WR8")
  <2>1. Writes(f) = <<>>
    BY <1>1 DEF Writes
  <2> QED
    BY <1>1, <2>1, EmptySeq
<1>2. CASE Len(f) > 2 /\ Cmd[f[1]] = "WR8"
  <2>1. Len(f) \in Nat /\ Len(f) - 2 \in Nat /\ \A i \in 1 .. Len(f) : f[i] \in Byte
    BY <1>2, LenProperties, ElementOfSeq
  <2>2. PICK k : k = Good(f[2], Len(f) - 2)
    OBVIOUS
  <2>3. k \in 0 .. Len(f) - 2 /\ k \in Nat
    BY <2>1, <2>2, GoodIs
  <2>4. Writes(f) = [i \in 1 .. k |-> <<Addr(f[2], i - 1), f[i + 2]>>]
    BY <1>2, <2>2 DEF Writes
  <2>5. \A i \in 1 .. k : <<Addr(f[2], i - 1), f[i + 2]>> \in Byte \X Byte
    <3> TAKE i \in 1 .. k
    <3>1. i - 1 \in Nat /\ i + 2 \in 1 .. Len(f) /\ f[2] \in Byte
      BY <1>2, <2>1, <2>3
    <3>2. Addr(f[2], i - 1) \in Byte /\ f[i + 2] \in Byte
      BY <2>1, <3>1, AddrIs
    <3> QED
      BY <3>2
  <2>6. Writes(f) \in [1 .. k -> Byte \X Byte]
    BY <2>4, <2>5
  <2>7. Writes(f) \in Seq(Byte \X Byte) /\ Len(Writes(f)) = k
    BY <2>3, <2>6
  <2> QED
    BY <1>2, <2>2, <2>3, <2>4, <2>7 DEF WriteOf
<1> QED
  BY <1>1, <1>2

-----------------------------------------------------------------------------
(* The way of a reply: pipeline stage, stuffer, what the host was answered. *)

\* So much is known of the reply to a frame, before it is complete or then.
Settled(F, f) ==
  /\ f \in 1 .. Len(F) /\ F[f] # <<>>
  /\ f = Len(F) => Cmd[F[f][1]] \in {"VERSION", "ECHO", "NONE"}

\* The reply to frame f may end.
MayEnd(F, f) == f < Len(F) \/ Cmd[F[f][1]] = "NONE"

\* A beat of a reply is what follows k bytes of the reply to frame f.
Replied(F, f, k, w) ==
  w # <<>> =>
    /\ Settled(F, f) /\ k + 1 \in 1 .. Len(Reply(F[f]))
    /\ w[1].dat = Reply(F[f])[k + 1]
    /\ w[1].lst <=> k + 1 = Len(Reply(F[f]))
    /\ w[1].lst => MayEnd(F, f)

\* The pipeline stage holds what is between (f, k) and (f2, k2).
OutPipe(F, f, k, f2, k2) ==
  LET f1 == NextF(f, obBuf)
      k1 == NextK(k, obBuf)
  IN  /\ f \in Nat /\ k \in Nat
      /\ Replied(F, f, k, obBuf) /\ Replied(F, f1, k1, obOvfl)
      /\ f2 = NextF(f1, obOvfl) /\ k2 = NextK(k1, obOvfl)

\* The answer is a prefix of the reply to frame a + 1; the stuffer gets next
\* what follows k bytes of the reply to frame f.
Answering(F, a, f, k) ==
  /\ a \in Nat /\ answer \in Seq(Byte)
  /\ answer # <<>> => Settled(F, a + 1) /\ Len(answer) <= Len(Reply(F[a + 1]))
  /\ \A i \in 1 .. Len(answer) : answer[i] = Reply(F[a + 1])[i]
  /\ escRcvd = (stf.state = "STUFF")
  /\ stf.state = "STUFF" => stf.held # <<>> /\ Special(stf.held[1].dat)
  /\ stf.state # "STUFF" => stf.held = <<>>
  /\ stf.state = "LST" => /\ answer # <<>> /\ Len(answer) = Len(Reply(F[a + 1]))
                          /\ MayEnd(F, a + 1) /\ f = a + 2 /\ k = 0
  /\ Replied(F, a + 1, Len(answer), stf.held)
  /\ stf.state # "LST" => f = NextF(a + 1, stf.held) /\ k = NextK(Len(answer), stf.held)

\* The mux gives next what follows k bytes of the reply to frame f.
OutAt(F, a, f, k) == \E f1, k1 : Answering(F, a, f1, k1) /\ OutPipe(F, f1, k1, f, k)

\* The pipeline stage of the replies keeps the places of what it holds.
LEMMA ObPlaces ==
  ASSUME NEW F, NEW f, NEW k, NEW f2, NEW k2, NEW f3, NEW k3, NEW g, NEW l,
         NEW inp \in Bus(Beat), NEW r \in BOOLEAN, NEW q, q = OB!rdyIb,
         OBP!PipeInv, OB!Edge(inp, r), OutPipe(F, f, k, f2, k2), q => Replied(F, f2, k2, inp),
         Moved(q, f2, k2, inp, f3, k3), Moved(r, f, k, obBuf, g, l)
  PROVE  OutPipe(F, g, l, f3, k3)'
<1>0. PICK f1, k1, b1, b2 : f1 = NextF(f, obBuf) /\ k1 = NextK(k, obBuf) /\ b1 = obBuf' /\ b2 = obOvfl'
  OBVIOUS
<1> SUFFICES /\ g \in Nat /\ l \in Nat
             /\ Replied(F, g, l, b1) /\ Replied(F, NextF(g, b1), NextK(l, b1), b2)
             /\ NextF(NextF(g, b1), b2) = f3 /\ NextK(NextK(l, b1), b2) = k3
  BY <1>0 DEF OutPipe
<1>7. /\ f \in Nat /\ k \in Nat /\ Replied(F, f, k, obBuf) /\ Replied(F, f1, k1, obOvfl)
      /\ f2 = NextF(f1, obOvfl) /\ k2 = NextK(k1, obOvfl)
  BY <1>0 DEF OutPipe
<1>8. g \in Nat /\ l \in Nat
  <2>1. obBuf \in Bus(Beat)
    BY DEF OBP!PipeInv, OBP!Word, Bus
  <2>2. f1 \in Nat /\ k1 \in Nat
    BY <1>0, <1>7, <2>1, NextPlace
  <2> QED
    BY <1>0, <1>7, <2>2 DEF Moved
<1> USE DEF Moved
<1>1. obOvfl # <<>> => obBuf # <<>>
  BY DEF OBP!PipeInv, OBP!OvflBehindBuf
<1>2. \A x : \A w \in {<<>>} : NextF(x, w) = x /\ NextK(x, w) = x
  BY DEF NextF, NextK
<1>3. \A a, b : Replied(F, a, b, <<>>)
  BY DEF Replied
<1>4. CASE obBuf # <<>> /\ obOvfl # <<>>
  <2>1. CASE r
    BY <1>0, <1>7, <1>8, <1>2, <1>3, <1>4, <2>1 DEF OB!Edge, OB!rdyIb
  <2>2. CASE ~r
    BY <1>0, <1>7, <1>8, <1>4, <2>2 DEF OB!Edge, OB!rdyIb
  <2> QED
    BY <2>1, <2>2
<1>5. CASE obBuf = <<>>
  <2>1. obOvfl = <<>> /\ b1 = inp /\ b2 = <<>> /\ q
    BY <1>0, <1>1, <1>5 DEF OB!Edge, OB!rdyIb
  <2>2. f1 = f /\ k1 = k /\ f2 = f /\ k2 = k /\ g = f /\ l = k
    BY <1>0, <1>7, <1>2, <1>5, <2>1
  <2> QED
    BY <1>7, <1>8, <1>2, <1>3, <2>1, <2>2
<1>6. CASE obBuf # <<>> /\ obOvfl = <<>>
  <2>1. CASE r
    <3>1. b1 = inp /\ b2 = <<>> /\ q
      BY <1>0, <1>6, <2>1 DEF OB!Edge, OB!rdyIb
    <3>2. f2 = f1 /\ k2 = k1 /\ g = f1 /\ l = k1
      BY <1>0, <1>7, <1>2, <1>6, <2>1
    <3> QED
      BY <1>0, <1>7, <1>8, <1>2, <1>3, <3>1, <3>2
  <2>2. CASE ~r
    BY <1>0, <1>7, <1>8, <1>2, <1>6, <2>2 DEF OB!Edge, OB!rdyIb
  <2> QED
    BY <2>1, <2>2
<1> QED
  BY <1>4, <1>5, <1>6

\* A byte of the reply joins the answer.
LEMMA Joins ==
  ASSUME NEW F, Frames(F), NEW a, NEW f, NEW k, Answering(F, a, f, k),
         NEW w \in Bus(Beat), w # <<>>, Replied(F, a + 1, Len(answer), w),
         answer' = answer \o <<w[1].dat>>, escRcvd' = FALSE, stf'.held = <<>>,
         stf'.state = EndOfFrame(w[1].lst),
         NEW g, NEW l, g = NextF(a + 1, w), l = NextK(Len(answer), w)
  PROVE  Answering(F, a, g, l)'
<1>1. PICK n, s, t, d, R : n = Len(answer) /\ s = answer /\ t = answer' /\ d = w[1].dat /\ R = Reply(F[a + 1])
  OBVIOUS
<1>2. /\ a \in Nat /\ s \in Seq(Byte) /\ n \in Nat /\ d \in Byte /\ w[1].lst \in BOOLEAN
      /\ \A i \in 1 .. n : s[i] = R[i]
  BY <1>1, BeatOnBus, LenProperties DEF Answering
<1>3. /\ Settled(F, a + 1) /\ n + 1 \in 1 .. Len(R) /\ d = R[n + 1]
      /\ w[1].lst <=> n + 1 = Len(R)
      /\ w[1].lst => MayEnd(F, a + 1)
  BY <1>1 DEF Replied
<1>4. t \in Seq(Byte) /\ Len(t) = n + 1 /\ t # <<>> /\ \A i \in 1 .. n + 1 : t[i] = IF i <= n THEN s[i] ELSE d
  <2>1. t = Append(s, d)
    BY <1>1, <1>2, AppendIsConcat
  <2>2. /\ t \in Seq(Byte) /\ t # <<>> /\ Len(t) = n + 1
        /\ \A i \in 1 .. n : t[i] = s[i]
        /\ t[n + 1] = d
    BY <1>1, <1>2, <2>1, AppendProperties
  <2> QED
    BY <1>2, <2>2
<1>5. \A i \in 1 .. n + 1 : t[i] = R[i]
  BY <1>2, <1>3, <1>4
<1>6. stf'.state \in {"LST", "FWD"} /\ (stf'.state = "LST" <=> w[1].lst)
  BY <1>2 DEF EndOfFrame
<1>7. Replied(F, a + 1, n + 1, <<>>) /\ NextF(a + 1, <<>>) = a + 1 /\ NextK(n + 1, <<>>) = n + 1
  BY DEF Replied, NextF, NextK
<1>8. IF w[1].lst THEN g = a + 1 + 1 /\ l = 0 ELSE g = a + 1 /\ l = n + 1
  BY <1>1 DEF NextF, NextK
<1>9. a + 1 + 1 = a + 2 /\ n + 1 <= Len(R)
  BY <1>2, <1>3
<1> QED
  <2>1. answer' = t /\ Len(answer') = n + 1 /\ R = Reply(F[a + 1])
    BY <1>1, <1>4
  <2> QED
    BY <1>2, <1>3, <1>4, <1>5, <1>6, <1>7, <1>8, <1>9, <2>1 DEF Answering

\* What the stuffer puts out.
LEMMA StfCases ==
  ASSUME StfTypeOK, NEW w \in Bus(Beat), NEW rdy \in BOOLEAN, StfEdge(w, rdy), rdy
  PROVE  /\ stf.state = "STUFF" => /\ StfOut(w) = <<stf.held[1].dat>>
                                   /\ stf'.state = EndOfFrame(stf.held[1].lst) /\ stf'.held = <<>>
         /\ stf.state = "LST" => StfOut(w) = <<COMMA>> /\ stf'.state = "FWD" /\ stf'.held = stf.held
         /\ stf.state = "FWD" /\ w = <<>> => StfOut(w) = <<>> /\ stf' = stf
         /\ stf.state = "FWD" /\ w # <<>> /\ Special(w[1].dat) =>
              StfOut(w) = <<ESCAP>> /\ stf'.state = "STUFF" /\ stf'.held = w
         /\ stf.state = "FWD" /\ w # <<>> /\ ~Special(w[1].dat) =>
              /\ StfOut(w) = <<w[1].dat>>
              /\ stf'.state = EndOfFrame(w[1].lst) /\ stf'.held = stf.held
         /\ stf.state \in {"STUFF", "LST", "FWD"}
<1>1. stf = [state |-> stf.state, held |-> stf.held] /\ stf.state \in {"STUFF", "LST", "FWD"}
  BY DEF StfTypeOK
<1>2. stf.state = "STUFF" => stf' = [state |-> EndOfFrame(stf.held[1].lst), held |-> <<>>]
  BY DEF StfEdge
<1>3. stf.state = "LST" => stf' = [stf EXCEPT !.state = "FWD"]
  BY DEF StfEdge
<1>4. /\ stf.state = "FWD" /\ w = <<>> => stf' = stf
      /\ stf.state = "FWD" /\ w # <<>> /\ Special(w[1].dat) => stf' = [state |-> "STUFF", held |-> w]
      /\ stf.state = "FWD" /\ w # <<>> /\ ~Special(w[1].dat) =>
           stf' = [stf EXCEPT !.state = EndOfFrame(w[1].lst)]
  BY DEF StfEdge
<1>5. /\ stf.state = "STUFF" => StfOut(w) = <<stf.held[1].dat>>
      /\ stf.state = "LST" => StfOut(w) = <<COMMA>>
      /\ stf.state = "FWD" /\ w = <<>> => StfOut(w) = <<>>
      /\ stf.state = "FWD" /\ w # <<>> /\ Special(w[1].dat) => StfOut(w) = <<ESCAP>>
      /\ stf.state = "FWD" /\ w # <<>> /\ ~Special(w[1].dat) => StfOut(w) = <<w[1].dat>>
  BY DEF StfOut
<1> QED
  BY <1>1, <1>2, <1>3, <1>4, <1>5

\* What becomes of the answer.
LEMMA AnswerCases ==
  ASSUME NEW out, NEW wr, Answered(out, wr)
  PROVE  /\ out = <<>> => answer' = answer /\ escRcvd' = escRcvd
         /\ FrameEnd(out) => answer' = <<>> /\ escRcvd' = FALSE
         /\ out # <<>> /\ ~FrameEnd(out) /\ ~escRcvd /\ out = <<ESCAP>> => answer' = answer /\ escRcvd' = TRUE
         /\ out # <<>> /\ ~FrameEnd(out) /\ ~(~escRcvd /\ out = <<ESCAP>>) =>
              answer' = answer \o out /\ escRcvd' = FALSE
<1>1. CASE out = <<>>
  <2>1. ~FrameEnd(out)
    BY <1>1 DEF FrameEnd
  <2> QED
    BY <1>1, <2>1 DEF Answered
<1>2. CASE FrameEnd(out)
  BY <1>2 DEF Answered, FrameEnd
<1>3. CASE out # <<>> /\ ~FrameEnd(out)
  <2>1. /\ escRcvd' = (~escRcvd /\ out = <<ESCAP>>)
        /\ answer' = IF escRcvd' THEN answer ELSE answer \o out
    BY <1>3 DEF Answered
  <2> QED
    BY <1>3, <2>1
<1> QED
  BY <1>1, <1>2, <1>3

\* The stuffer at an edge of the clock.
LEMMA StfStep ==
  ASSUME NEW F, Frames(F), NEW a, NEW f, NEW k, Answering(F, a, f, k), StfTypeOK, obBuf \in Bus(Beat),
         NEW rdy \in BOOLEAN, StfEdge(obBuf, rdy), Replied(F, f, k, obBuf),
         NEW out, out = (IF rdy THEN datOb ELSE <<>>), NEW wr, Answered(out, wr),
         NEW r, r = StfRdyInp(rdy), NEW g, NEW l, Moved(r, f, k, obBuf, g, l)
  PROVE  /\ ~FrameEnd(out) => Answering(F, a, g, l)'
         /\ FrameEnd(out) => /\ Answering(F, a + 1, g, l)'
                             /\ a \in Nat /\ Settled(F, a + 1) /\ MayEnd(F, a + 1)
                             /\ answer = Reply(F[a + 1])
<1>1. /\ a \in Nat /\ answer \in Seq(Byte)
      /\ escRcvd = (stf.state = "STUFF")
      /\ stf.state # "STUFF" => stf.held = <<>>
  BY DEF Answering
<1>2. COMMA # ESCAP /\ COMMA \in Byte /\ ESCAP \in Byte
  BY BusAssumption
<1>3. \A x, y : (<<x>> = <<y>> <=> x = y) /\ <<x>> # <<>>
  OBVIOUS
<1>4. \A x : NextF(x, <<>>) = x /\ NextK(x, <<>>) = x
  BY DEF NextF, NextK
<1>11. /\ out = <<>> => answer' = answer /\ escRcvd' = escRcvd
       /\ FrameEnd(out) => answer' = <<>> /\ escRcvd' = FALSE
       /\ out # <<>> /\ ~FrameEnd(out) /\ ~escRcvd /\ out = <<ESCAP>> => answer' = answer /\ escRcvd' = TRUE
       /\ out # <<>> /\ ~FrameEnd(out) /\ ~(~escRcvd /\ out = <<ESCAP>>) =>
            answer' = answer \o out /\ escRcvd' = FALSE
  BY AnswerCases, Zenon
<1>12. FrameEnd(out) <=> out = <<COMMA>> /\ ~escRcvd
  BY DEF FrameEnd
<1>5. CASE ~rdy
  <2>1. out = <<>> /\ ~r /\ stf' = stf
    BY <1>5 DEF StfRdyInp, StfEdge
  <2>2. answer' = answer /\ escRcvd' = escRcvd /\ ~FrameEnd(out) /\ g = f /\ l = k
    BY <2>1, <1>11, <1>12 DEF Moved
  <2> QED
    BY <2>1, <2>2 DEF Answering
<1>6. CASE rdy /\ stf.state = "STUFF"
  <2>1. PICK w : w = stf.held
    OBVIOUS
  <2>2. /\ out = <<w[1].dat>> /\ stf'.state = EndOfFrame(w[1].lst) /\ stf'.held = <<>> /\ ~r
    BY <1>6, <2>1, StfCases DEF datOb, StfRdyInp
  <2>3. /\ w \in Bus(Beat) /\ w # <<>> /\ Special(w[1].dat) /\ Replied(F, a + 1, Len(answer), w)
        /\ f = NextF(a + 1, w) /\ k = NextK(Len(answer), w)
    BY <1>6, <2>1 DEF Answering, StfTypeOK
  <2>4. ~FrameEnd(out) /\ answer' = answer \o <<w[1].dat>> /\ escRcvd' = FALSE
    <3>1. escRcvd /\ out # <<>>
      BY <1>1, <1>3, <1>6, <2>2
    <3>2. ~FrameEnd(out)
      BY <1>12, <3>1
    <3> QED
      BY <1>11, <2>2, <3>1, <3>2
  <2>5. g = f /\ l = k
    BY <2>2 DEF Moved
  <2>6. Answering(F, a, f, k)'
    BY <2>2, <2>3, <2>4, Joins, Zenon
  <2> QED
    BY <2>4, <2>5, <2>6
<1>7. CASE rdy /\ stf.state = "LST"
  <2>1. out = <<COMMA>> /\ stf'.state = "FWD" /\ stf'.held = <<>> /\ ~r
    BY <1>1, <1>7, StfCases DEF datOb, StfRdyInp
  <2>2. FrameEnd(out) /\ answer' = <<>> /\ escRcvd' = FALSE
    BY <1>1, <1>7, <2>1, <1>11, <1>12
  <2>3. /\ answer # <<>> /\ Settled(F, a + 1) /\ Len(answer) = Len(Reply(F[a + 1])) /\ MayEnd(F, a + 1)
        /\ f = a + 2 /\ k = 0 /\ \A i \in 1 .. Len(answer) : answer[i] = Reply(F[a + 1])[i]
    BY <1>7 DEF Answering
  <2>4. g = a + 1 + 1 /\ l = 0
    BY <1>1, <2>1, <2>3 DEF Moved
  <2>5. F[a + 1] \in Seq(Byte) /\ F[a + 1] # <<>>
    BY <2>3, ElementOfSeq DEF Frames, Settled
  <2>6. Reply(F[a + 1]) \in Seq(Byte)
    BY <2>5, ReplyType
  <2>7. answer = Reply(F[a + 1])
    BY <1>1, <2>3, <2>6, SeqEqual
  <2>8. Answering(F, a + 1, g, l)'
    <3>1. <<>> \in Seq(Byte) /\ Len(<<>>) = 0 /\ a + 1 \in Nat
      BY <1>1, EmptySeq
    <3>2. Replied(F, a + 1 + 1, 0, <<>>) /\ \A R : \A i \in 1 .. Len(<<>>) : answer'[i] = R[i]
      BY <3>1 DEF Replied
    <3> QED
      BY <1>4, <2>1, <2>2, <2>4, <3>1, <3>2 DEF Answering
  <2> QED
    BY <1>1, <2>2, <2>3, <2>7, <2>8
<1>8. CASE rdy /\ stf.state = "FWD" /\ obBuf = <<>>
  <2>1. out = <<>> /\ stf' = stf
    BY <1>8, StfCases DEF datOb
  <2>2. answer' = answer /\ escRcvd' = escRcvd /\ ~FrameEnd(out) /\ g = f /\ l = k
    <3>1. g = f /\ l = k
      BY <1>4, <1>8 DEF Moved
    <3>2. ~FrameEnd(out)
      BY <1>12, <2>1
    <3> QED
      BY <1>11, <2>1, <3>1, <3>2
  <2> QED
    BY <2>1, <2>2 DEF Answering
<1>9. CASE rdy /\ stf.state = "FWD" /\ obBuf # <<>> /\ Special(obBuf[1].dat)
  <2>1. out = <<ESCAP>> /\ stf'.state = "STUFF" /\ stf'.held = obBuf /\ r
    BY <1>9, StfCases DEF datOb, StfRdyInp
  <2>2. answer' = answer /\ escRcvd' = TRUE /\ ~FrameEnd(out)
    <3>1. ~escRcvd /\ out # <<>> /\ out # <<COMMA>>
      BY <1>1, <1>2, <1>3, <1>9, <2>1
    <3>2. ~FrameEnd(out)
      BY <1>12, <3>1
    <3> QED
      BY <1>11, <2>1, <3>1, <3>2
  <2>3. f = a + 1 /\ k = Len(answer)
    BY <1>1, <1>4, <1>9 DEF Answering
  <2>4. g = NextF(a + 1, obBuf) /\ l = NextK(Len(answer), obBuf)
    BY <2>1, <2>3 DEF Moved
  <2>5. PICK w : w = obBuf
    OBVIOUS
  <2> QED
    BY <1>9, <2>1, <2>2, <2>3, <2>4, <2>5 DEF Answering
<1>10. CASE rdy /\ stf.state = "FWD" /\ obBuf # <<>> /\ ~Special(obBuf[1].dat)
  <2>1. PICK w : w = obBuf
    OBVIOUS
  <2>2. out = <<w[1].dat>> /\ stf'.state = EndOfFrame(w[1].lst) /\ stf'.held = <<>> /\ r
    BY <1>1, <1>10, <2>1, StfCases DEF datOb, StfRdyInp
  <2>3. f = a + 1 /\ k = Len(answer)
    BY <1>1, <1>4, <1>10 DEF Answering
  <2>4. g = NextF(a + 1, w) /\ l = NextK(Len(answer), w) /\ Replied(F, a + 1, Len(answer), w)
    BY <2>1, <2>2, <2>3 DEF Moved
  <2>5. out # <<ESCAP>> /\ out # <<COMMA>> /\ out # <<>>
    BY <1>3, <1>10, <2>1, <2>2 DEF Special
  <2>6. ~FrameEnd(out) /\ answer' = answer \o <<w[1].dat>> /\ escRcvd' = FALSE
    BY <2>2, <2>5, <1>11, <1>12
  <2>7. w \in Bus(Beat) /\ w # <<>>
    BY <1>10, <2>1
  <2>8. Answering(F, a, g, l)'
    BY <2>2, <2>4, <2>6, <2>7, Joins, Zenon
  <2> QED
    BY <2>6, <2>8
<1> QED
  BY <1>5, <1>6, <1>7, <1>8, <1>9, <1>10 DEF StfTypeOK

\* The way of a reply from the mux at an edge of the clock.
LEMMA ClkOut ==
  ASSUME NEW F, Frames(F), NEW a, NEW g, NEW j, OutAt(F, a, g, j), StfTypeOK, OBP!PipeInv,
         NEW rdy \in BOOLEAN, NEW w \in Bus(Beat), NEW q, q = OB!rdyIb, q => Replied(F, g, j, w),
         OB!Edge(w, StfRdyInp(rdy)), StfEdge(obBuf, rdy),
         NEW out, out = (IF rdy THEN datOb ELSE <<>>), NEW wr, Answered(out, wr),
         NEW g2, NEW j2, Moved(q, g, j, w, g2, j2)
  PROVE  /\ ~FrameEnd(out) => OutAt(F, a, g2, j2)'
         /\ FrameEnd(out) => /\ OutAt(F, a + 1, g2, j2)'
                             /\ a \in Nat /\ Settled(F, a + 1) /\ MayEnd(F, a + 1)
                             /\ answer = Reply(F[a + 1])
<1>1. PICK f, k : Answering(F, a, f, k) /\ OutPipe(F, f, k, g, j)
  BY DEF OutAt
<1>2. PICK r : r = StfRdyInp(rdy)
  OBVIOUS
<1>3. PICK f2, k2 : Moved(r, f, k, obBuf, f2, k2)
  BY DEF Moved
<1>4. r \in BOOLEAN
  BY <1>2 DEF StfRdyInp
<1>5. obBuf \in Bus(Beat) /\ Replied(F, f, k, obBuf) /\ OB!Edge(w, r)
  BY <1>1, <1>2 DEF OBP!PipeInv, OBP!Word, Bus, OutPipe
<1>6. OutPipe(F, f2, k2, g2, j2)'
  BY <1>1, <1>3, <1>4, <1>5, ObPlaces, Zenon
<1>7. /\ ~FrameEnd(out) => Answering(F, a, f2, k2)'
      /\ FrameEnd(out) => /\ Answering(F, a + 1, f2, k2)'
                          /\ a \in Nat /\ Settled(F, a + 1) /\ MayEnd(F, a + 1)
                          /\ answer = Reply(F[a + 1])
  BY <1>1, <1>2, <1>3, <1>5, StfStep, Zenon
<1> QED
  BY <1>6, <1>7 DEF OutAt

-----------------------------------------------------------------------------
(* Handlers: version and echo. *)

\* A beat of a request is what follows k bytes of fr, one of a reply what
\* follows j bytes of the reply to fr.
Asked(fr, k, w) ==
  w # <<>> => k + 1 \in 1 .. Len(fr) /\ w[1].dat = fr[k + 1] /\ (w[1].lst <=> k + 1 = Len(fr))

Told(fr, j, w) ==
  w # <<>> => /\ j + 1 \in 1 .. Len(Reply(fr)) /\ w[1].dat = Reply(fr)[j + 1]
              /\ (w[1].lst <=> j + 1 = Len(Reply(fr)))

Ends(w) == w # <<>> /\ w[1].lst

\* A handler is given mIb, takes it if hr, and offers ob, which leaves if q.
Hears(mIb, hr, ob, q, k, k2, j, j2, open) ==
  /\ hr \in BOOLEAN /\ q \in BOOLEAN /\ open \in BOOLEAN
  /\ mIb # <<>> /\ hr => k2 = k + 1
  /\ ~(mIb # <<>> /\ hr) => k2 = k
  /\ ob # <<>> /\ q => j2 = j + 1
  /\ ~(ob # <<>> /\ q) => j2 = j
  /\ open <=> ~(mIb # <<>> /\ hr /\ Ends(mIb))

\* What the handlers are at, having told j bytes of the reply to frame fr.
\* open: the last byte of fr has not come yet, k have.
VerBusy(j, open) ==
  IF open THEN ver.state = "DRAIN" /\ j = 1 /\ ver.addr = 1
  ELSE ver.state = "PLAY" /\ j = ver.addr

BbBusy(fr, k, j, open) ==
  /\ bb.state = "FWD" /\ j \in Nat
  /\ bb.held # <<>> => j + 1 <= Len(fr) /\ bb.held[1] = fr[j + 1]
  /\ IF open THEN ~bb.lstSeen /\ k = j + Len(bb.held)
     ELSE bb.lstSeen /\ bb.held # <<>> /\ j + 1 = Len(fr)

VerRests == ver.state = "ECHO"
BbRests  == bb = [state |-> "ECHO", lstSeen |-> FALSE, held |-> <<>>]

\* The reply to a request for the version.
LEMMA VersionReply ==
  ASSUME NEW fr \in Seq(Byte), fr # <<>>, Cmd[fr[1]] = "VERSION"
  PROVE  /\ Len(Reply(fr)) = Len(VERSION) + 1 /\ Reply(fr)[1] = fr[1]
         /\ \A i \in 1 .. Len(VERSION) : Reply(fr)[i + 1] = VERSION[i]
<1>1. Reply(fr) = <<fr[1]>> \o VERSION
  BY ReplyCases
<1>2. fr[1] \in Byte
  BY EmptySeq, LenProperties, ElementOfSeq
<1>3. <<fr[1]>> \in Seq(Byte) /\ Len(<<fr[1]>>) = 1 /\ VERSION \in Seq(Byte) /\ Len(VERSION) \in Nat
  BY <1>2, VersionAssumption, LenProperties
<1>4. PICK s, t, n : s = <<fr[1]>> /\ t = s \o VERSION /\ n = Len(VERSION)
  OBVIOUS
<1>5. Len(t) = 1 + n /\ \A i \in 1 .. 1 + n : t[i] = IF i <= 1 THEN s[i] ELSE VERSION[i - 1]
  <2>1. /\ Len(s \o VERSION) = Len(s) + Len(VERSION)
        /\ \A i \in 1 .. Len(s) + Len(VERSION) :
             (s \o VERSION)[i] = IF i <= Len(s) THEN s[i] ELSE VERSION[i - Len(s)]
    BY <1>3, <1>4, ConcatProperties
  <2> QED
    BY <1>3, <1>4, <2>1
<1>6. Len(t) = n + 1 /\ t[1] = s[1] /\ \A i \in 1 .. n : t[i + 1] = VERSION[i]
  <2>1. \A i \in 1 .. n : i + 1 \in 1 .. 1 + n /\ ~(i + 1 <= 1) /\ i + 1 - 1 = i
    BY <1>3, <1>4
  <2> QED
    BY <1>3, <1>4, <1>5, <2>1
<1> QED
  BY <1>1, <1>4, <1>6

\* A handler that is not selected stays at rest.
LEMMA VerResting ==
  ASSUME VerRests, NEW q, VerEdge(<<>>, q)
  PROVE  VerRests'
BY DEF VerRests, VerEdge

\* The version handler is given the command byte.
LEMMA VerStarts ==
  ASSUME VerRests, NEW fr \in Seq(Byte), fr # <<>>, Cmd[fr[1]] = "VERSION", NEW cmd \in Beat,
         Asked(fr, 0, <<cmd>>), NEW q \in BOOLEAN, VerEdge(<<cmd>>, q), NEW w, w = VerOb(<<cmd>>)
  PROVE  /\ w # <<>> /\ ~w[1].lst /\ Told(fr, 0, w) /\ (VerRdyIb(q) <=> q)
         /\ ~q => VerRests'
         /\ q => VerBusy(1, ~cmd.lst)'
<1>1. w = <<[cmd EXCEPT !.lst = FALSE]>> /\ <<cmd>> # <<>> /\ <<cmd>>[1] = cmd
  BY DEF VerRests, VerOb
<1>2. w # <<>> /\ ~w[1].lst /\ w[1].dat = fr[1]
  BY <1>1 DEF Asked, Beat
<1>3. Len(VERSION) \in Nat /\ Len(VERSION) >= 1
  BY VerLen
<1>4. Told(fr, 0, w)
  BY <1>2, <1>3, VersionReply DEF Told
<1>5. VerRdyIb(q) <=> q
  BY DEF VerRdyIb, VerRests
<1>6. ver' = [addr |-> 1, state |-> IF ~q \/ <<cmd>> = <<>> THEN "ECHO"
                                    ELSE IF <<cmd>>[1].lst THEN "PLAY" ELSE "DRAIN"]
  BY DEF VerRests, VerEdge
<1> QED
  BY <1>1, <1>2, <1>4, <1>5, <1>6 DEF VerRests, VerBusy

\* The version handler drains the rest of the request.
LEMMA VerListens ==
  ASSUME VerTypeOK, NEW j, VerBusy(j, TRUE), NEW mIb, NEW q, VerEdge(mIb, q)
  PROVE  VerOb(mIb) = <<>> /\ VerRdyIb(q) /\ VerBusy(j, ~Ends(mIb))'
<1>1. ver.state = "DRAIN" /\ j = 1 /\ ver.addr = 1 /\ ver = [state |-> ver.state, addr |-> ver.addr]
  BY DEF VerBusy, VerTypeOK
<1>2. ver' = IF mIb # <<>> /\ mIb[1].lst THEN [ver EXCEPT !.state = "PLAY"] ELSE ver
  BY <1>1 DEF VerEdge
<1> QED
  BY <1>1, <1>2 DEF VerBusy, VerOb, VerRdyIb, Ends

\* The version handler plays its string.
LEMMA VerTells ==
  ASSUME VerTypeOK, NEW fr \in Seq(Byte), fr # <<>>, Cmd[fr[1]] = "VERSION", NEW j, VerBusy(j, FALSE),
         NEW q \in BOOLEAN, NEW w, w = VerOb(<<>>), VerEdge(<<>>, q)
  PROVE  /\ w # <<>> /\ Told(fr, j, w)
         /\ ~q => VerBusy(j, FALSE)'
         /\ q /\ w[1].lst => VerRests'
         /\ q /\ ~w[1].lst => VerBusy(j + 1, FALSE)'
<1>1. ver.state = "PLAY" /\ j = ver.addr /\ ver = [state |-> ver.state, addr |-> ver.addr]
      /\ j \in 1 .. Len(VERSION)
  BY DEF VerBusy, VerTypeOK
<1>2. w # <<>> /\ w[1].dat = VERSION[j] /\ (w[1].lst <=> j = Len(VERSION))
  BY <1>1 DEF VerOb
<1>3. ver' = IF ~q THEN ver
             ELSE IF ver.addr = Len(VERSION) THEN [ver EXCEPT !.state = "ECHO"]
             ELSE [ver EXCEPT !.addr = @ + 1]
  BY <1>1 DEF VerEdge
<1>4. Told(fr, j, w)
  BY <1>1, <1>2, VerLen, VersionReply DEF Told
<1> QED
  BY <1>1, <1>2, <1>3, <1>4 DEF VerBusy, VerRests

\* The reply to a request for an echo is the frame.
LEMMA EchoReply ==
  ASSUME NEW fr \in Seq(Byte), fr # <<>>, Cmd[fr[1]] = "ECHO"
  PROVE  Reply(fr) = fr /\ Len(fr) \in Nat /\ Len(fr) >= 1
<1>1. Reply(fr) = fr
  BY ReplyCases
<1> QED
  BY <1>1, EmptySeq, LenProperties

\* CommandBitBang stays at rest when nothing is for it.
LEMMA BbResting ==
  ASSUME BbRests, NEW q, NEW free, BbEdge(<<>>, q, free)
  PROVE  BbRests'
BY DEF BbRests, BbEdge, BbEcho, BbFwd

\* The echo handler is given the command byte.
LEMMA BbStarts ==
  ASSUME BbRests, NEW fr \in Seq(Byte), fr # <<>>, Cmd[fr[1]] = "ECHO", NEW cmd \in Beat,
         Asked(fr, 0, <<cmd>>), NEW q \in BOOLEAN, NEW free, BbEdge(<<cmd>>, q, free),
         NEW w, w = BbOb(<<cmd>>)
  PROVE  /\ w = <<cmd>> /\ Told(fr, 0, w) /\ (BbRdyIb(q, free) <=> q)
         /\ ~q \/ cmd.lst => BbRests'
         /\ q /\ ~cmd.lst => BbBusy(fr, 1, 1, TRUE)'
<1>1. bb.state = "ECHO" /\ <<cmd>> # <<>> /\ <<cmd>>[1] = cmd /\ w = <<cmd>> /\ Len(<<>>) = 0
  BY DEF BbRests, BbOb
<1>2. bb' = [state |-> IF q /\ <<cmd>> # <<>> /\ ~<<cmd>>[1].lst THEN "FWD" ELSE "ECHO",
             lstSeen |-> FALSE, held |-> <<>>]
  BY <1>1 DEF BbEdge, BbEcho, BbFwd
<1>3. Told(fr, 0, w)
  BY <1>1, EchoReply DEF Told, Asked
<1>4. BbRdyIb(q, free) <=> q
  BY <1>1 DEF BbRdyIb
<1>5. CASE ~q \/ cmd.lst
  <2>1. bb' = [state |-> "ECHO", lstSeen |-> FALSE, held |-> <<>>]
    BY <1>1, <1>2, <1>5
  <2> QED
    BY <1>1, <1>3, <1>4, <1>5, <2>1 DEF BbRests
<1>6. CASE q /\ ~cmd.lst
  <2>1. bb' = [state |-> "FWD", lstSeen |-> FALSE, held |-> <<>>]
    BY <1>1, <1>2, <1>6
  <2>2. bb'.state = "FWD" /\ ~bb'.lstSeen /\ bb'.held = <<>> /\ Len(bb'.held) = 0 /\ 1 = 1 + 0
    BY <1>1, <2>1
  <2> QED
    BY <1>1, <1>3, <1>4, <1>6, <2>2 DEF BbBusy
<1> QED
  BY <1>5, <1>6

\* Where the echo handler is when it has taken another byte or not.
BbListened(fr, j, w, k2, j2, open) ==
  /\ Told(fr, j, w) /\ ~Ends(w)
  /\ open => BbBusy(fr, k2, j2, TRUE)'
  /\ ~open => BbBusy(fr, k2, j2, FALSE)'

\* The echo handler is given the rest of the request.
LEMMA BbListens ==
  ASSUME BbTypeOK, NEW fr \in Seq(Byte), fr # <<>>, Cmd[fr[1]] = "ECHO",
         NEW j, NEW k \in 1 .. Len(fr) - 1, BbBusy(fr, k, j, TRUE),
         NEW mIb \in Bus(Beat), Asked(fr, k, mIb), NEW q, NEW free,
         BbEdge(mIb, q, free), NEW w, w = BbOb(mIb),
         NEW hr, hr <=> BbRdyIb(q, free),
         NEW k2, NEW j2, NEW open, Hears(mIb, hr, w, q, k, k2, j, j2, open)
  PROVE  BbListened(fr, j, w, k2, j2, open)
<1> q \in BOOLEAN /\ open \in BOOLEAN
  BY DEF Hears
<1> SUFFICES Told(fr, j, w) /\ ~Ends(w) /\ BbBusy(fr, k2, j2, open)'
  BY DEF BbBusy, BbListened
<1>0. PICK go \in BOOLEAN, gone \in BOOLEAN :
        /\ go <=> mIb # <<>> /\ BbRdyIb(q, free)
        /\ gone <=> w # <<>> /\ q
  OBVIOUS
<1>13. /\ go => k2 = k + 1
       /\ ~go => k2 = k
       /\ gone => j2 = j + 1
       /\ ~gone => j2 = j
       /\ open <=> ~(go /\ Ends(mIb))
  BY <1>0 DEF Hears
<1> USE <1>0, <1>13
<1>1. /\ bb.state = "FWD" /\ ~bb.lstSeen /\ k = j + Len(bb.held) /\ j \in Nat
      /\ bb.held # <<>> => j + 1 <= Len(fr) /\ bb.held[1] = fr[j + 1]
      /\ bb = [state |-> bb.state, lstSeen |-> bb.lstSeen, held |-> bb.held]
      /\ bb.lstSeen \in BOOLEAN
  BY DEF BbBusy, BbTypeOK
<1>2. /\ bb.held = <<>> => Len(bb.held) = 0
      /\ bb.held # <<>> => Len(bb.held) = 1
  BY DEF BbTypeOK, Bus
<1>3. PICK got \in BOOLEAN : got <=> mIb # <<>> /\ rrdy(q, free)
  OBVIOUS
<1>4. BbRdyIb(q, free) <=> rrdy(q, free)
  BY <1>1 DEF BbRdyIb
<1>5. got => bb.held = <<>> \/ q
  BY <1>1, <1>3 DEF rrdy, wrdy
<1>6. /\ w = <<>> <=> bb.held = <<>>
      /\ w # <<>> => w[1].dat = bb.held[1] /\ ~w[1].lst
  BY <1>1 DEF BbOb
<1>7. Len(fr) \in Nat /\ Reply(fr) = fr
  BY EchoReply
<1>8. Told(fr, j, w) /\ ~Ends(w)
  BY <1>1, <1>2, <1>6, <1>7 DEF Told, Ends
<1>9. bb' = [state |-> "FWD", lstSeen |-> got /\ mIb[1].lst,
             held |-> IF got THEN <<mIb[1].dat>> ELSE IF q THEN <<>> ELSE bb.held]
  BY <1>1, <1>3 DEF BbEdge, BbEcho, BbFwd
<1>12. /\ j \in Nat /\ k = j + Len(bb.held)
       /\ bb.held = <<>> => k = j
       /\ bb.held # <<>> => k = j + 1
  <2>1. j \in Nat /\ k = j + Len(bb.held)
    BY <1>1
  <2>2. PICK n : n = Len(bb.held)
    OBVIOUS
  <2>3. (bb.held = <<>> => n = 0) /\ (bb.held # <<>> => n = 1) /\ k = j + n
    BY <1>2, <2>1, <2>2
  <2>4. (bb.held = <<>> => k = j) /\ (bb.held # <<>> => k = j + 1)
    BY <2>1, <2>3
  <2> QED
    BY <2>1, <2>4
<1>10. CASE got
  <2>0. go
    BY <1>3, <1>4, <1>10
  <2>1. k2 = k + 1 /\ k = j2 /\ j2 \in Nat
    <3>1. CASE bb.held = <<>>
      <4>1. ~gone
        BY <1>6, <3>1
      <4> QED
        BY <1>12, <2>0, <3>1, <4>1
    <3>2. CASE bb.held # <<>>
      <4>1. gone
        BY <1>5, <1>6, <1>10, <3>2
      <4> QED
        BY <1>12, <2>0, <3>2, <4>1
    <3> QED
      BY <3>1, <3>2
  <2>2. bb'.state = "FWD" /\ bb'.held = <<mIb[1].dat>> /\ bb'.held # <<>> /\ Len(bb'.held) = 1
        /\ bb'.held[1] = mIb[1].dat /\ (bb'.lstSeen <=> mIb[1].lst)
    BY <1>9, <1>10
  <2>3. k + 1 <= Len(fr) /\ mIb[1].dat = fr[k + 1] /\ (mIb[1].lst <=> k + 1 = Len(fr))
    BY <1>3, <1>7, <1>10 DEF Asked
  <2>4. open <=> ~mIb[1].lst
    BY <1>3, <2>0, <1>10 DEF Ends
  <2> QED
    <3>1. k + 1 = k + 1 /\ j2 + 1 = k + 1 /\ k2 = j2 + 1
      BY <2>1
    <3> QED
      BY <1>8, <2>1, <2>2, <2>3, <2>4, <3>1 DEF BbBusy
<1>11. CASE ~got
  <2>1. k2 = k /\ ~go /\ open
    BY <1>3, <1>4, <1>11 DEF Ends
  <2>2. bb'.state = "FWD" /\ ~bb'.lstSeen /\ bb'.held = IF q THEN <<>> ELSE bb.held
    BY <1>9, <1>11
  <2>3. j2 \in Nat /\ k2 = j2 + Len(bb'.held) /\ (bb'.held # <<>> => j2 = j /\ bb'.held = bb.held)
    <3>1. CASE bb.held = <<>>
      <4>1. ~gone /\ bb'.held = <<>>
        BY <1>6, <2>2, <3>1
      <4> QED
        BY <1>2, <1>12, <2>1, <3>1, <4>1
    <3>2. CASE bb.held # <<>> /\ q
      <4>1. gone /\ bb'.held = <<>> /\ Len(<<>>) = 0
        BY <1>6, <2>2, <3>2
      <4> QED
        BY <1>2, <1>12, <2>1, <3>2, <4>1
    <3>3. CASE ~q
      <4>1. ~gone /\ bb'.held = bb.held
        BY <2>2, <3>3
      <4>2. j2 = j /\ k2 = k
        BY <2>1, <4>1
      <4> QED
        BY <1>12, <4>1, <4>2
    <3> QED
      BY <3>1, <3>2, <3>3
  <2> QED
    BY <1>1, <1>8, <2>1, <2>2, <2>3 DEF BbBusy
<1> QED
  BY <1>10, <1>11

\* The echo handler gives the last byte back.
LEMMA BbTells ==
  ASSUME BbTypeOK, NEW fr \in Seq(Byte), fr # <<>>, Cmd[fr[1]] = "ECHO",
         NEW j, NEW k, BbBusy(fr, k, j, FALSE), NEW q \in BOOLEAN, NEW free, BbEdge(<<>>, q, free),
         NEW w, w = BbOb(<<>>)
  PROVE  /\ w # <<>> /\ w[1].lst /\ Told(fr, j, w)
         /\ ~q => BbBusy(fr, k, j, FALSE)'
         /\ q => BbRests'
<1>1. /\ bb.state = "FWD" /\ bb.lstSeen /\ bb.held # <<>> /\ j + 1 = Len(fr) /\ j \in Nat
      /\ bb.held[1] = fr[j + 1]
      /\ bb = [state |-> bb.state, lstSeen |-> bb.lstSeen, held |-> bb.held]
  BY DEF BbBusy, BbTypeOK
<1>2. w # <<>> /\ w[1].lst /\ w[1].dat = bb.held[1]
  BY <1>1 DEF BbOb
<1>3. Told(fr, j, w)
  BY <1>1, <1>2, EchoReply DEF Told
<1>4. bb' = [state |-> IF q THEN "ECHO" ELSE "FWD", lstSeen |-> ~q, held |-> IF q THEN <<>> ELSE bb.held]
  BY <1>1 DEF BbEdge, BbEcho, BbFwd
<1> QED
  BY <1>1, <1>2, <1>3, <1>4 DEF BbBusy, BbRests

-----------------------------------------------------------------------------
(* Handlers: the register commands while a request comes in. *)

RegRests == reg.state = "IDLE" /\ ~reg.rvld

\* k bytes of fr came, w registers were written.
RegAsks(fr, k, j, w) ==
  /\ reg.state \in {"A8", "L8", "WR8", "DRAIN"}
  /\ j = 0 /\ reg.count = 0 - 1 /\ ~reg.rvld /\ w \in Nat
  /\ reg.state = "A8" => k = 1 /\ Cmd[fr[1]] \in {"RD8", "WR8"} /\ reg.err /\ w = 0
  /\ reg.state = "L8" => k = 2 /\ Cmd[fr[1]] = "RD8" /\ reg.addr = fr[2] /\ reg.err /\ w = 0
  /\ reg.state = "WR8" => /\ k = w + 2 /\ Cmd[fr[1]] = "WR8"
                          /\ reg.addr = Addr(fr[2], w) /\ GoodUpTo(fr[2], w)
  /\ reg.state = "DRAIN" => /\ reg.err
                            /\ Cmd[fr[1]] = "WR8" => /\ k > w + 2 /\ GoodUpTo(fr[2], w)
                                                     /\ Addr(fr[2], w) \in BadAddr
                            /\ Cmd[fr[1]] # "WR8" => w = 0
                            /\ Cmd[fr[1]] = "RD8" => k >= 3

\* j bytes of the reply to fr are out.
RegTells(fr, j, w) ==
  /\ reg.state \in {"REPLY", "RD8", "STA"} /\ w = Len(Writes(fr))
  /\ reg.state = "REPLY" /\ reg.count < 0 => j = 0 /\ ~reg.rvld /\ Reply(fr) = <<fr[1]>> \o Status(~reg.err)
  /\ reg.state = "REPLY" /\ reg.count >= 0 =>
       /\ j = 0 /\ ~reg.rvld
       /\ Cmd[fr[1]] = "RD8" /\ Len(fr) = 3 /\ reg.addr = fr[2] /\ reg.count = fr[3]
  /\ reg.state = "RD8" =>
       /\ j \in Nat \ {0} /\ Cmd[fr[1]] = "RD8" /\ Len(fr) = 3
       /\ reg.count >= 0 /\ reg.count = fr[3] - (j - 1)
       /\ reg.addr = Addr(fr[2], j - 1) /\ GoodUpTo(fr[2], j - 1)
       /\ reg.rvld => /\ reg.err <=> reg.addr \in BadAddr
                      /\ reg.rdat = IF reg.err THEN ALL_ONES ELSE Rdat[reg.addr]
  /\ reg.state = "STA" =>
       /\ ~reg.rvld /\ j \in Nat /\ Len(Reply(fr)) = j + 1
       /\ Reply(fr)[j + 1] = IF reg.err THEN ALL_ONES ELSE OK

\* The register handler at a request or at its reply.
RegBusy(fr, k, j, w, open) ==
  /\ reg.cmd = fr[1] /\ Cmd[fr[1]] \in {"RD8", "WR8", "NOSUBCMD"}
  /\ open => RegAsks(fr, k, j, w)
  /\ ~open => RegTells(fr, j, w)

\* What the selected handler writes at an edge of the clock.
Writing(h, mIb, rdy, wr) ==
  /\ h = "REG" => wr = IF RegWrite(mIb) /\ rdy /\ ~RegErr THEN <<<<reg.addr, mIb[1].dat>>>> ELSE <<>>
  /\ h # "REG" => wr = <<>>

\* After wr (at most one write), w2 instead of w writes for frame fr are done.
Wrote(fr, w, wr, w2) ==
  /\ wr = <<>> => w2 = w
  /\ wr # <<>> => wr = <<WriteOf(fr, w + 1)>> /\ w2 = w + 1 /\ w + 3 <= Len(fr)

\* The register handler stays at rest.
LEMMA RegResting ==
  ASSUME RegTypeOK, RegRests, NEW q, NEW rdy, NEW d, NEW e, RegEdge(<<>>, q, rdy, d, e)
  PROVE  RegRests' /\ RegOb = <<>> /\ \A mIb : ~RegWrite(mIb)
<1>1. reg' = [reg EXCEPT !.count = 0 - 1, !.err = TRUE]
  BY DEF RegRests, RegEdge, RegIdle, RegA8, RegL8, RegWR8, RegRD8, RegReply, RegSta, RegDrain
<1>2. reg'.state = "IDLE" /\ ~reg'.rvld
  BY <1>1, RegFields DEF RegRests
<1>3. RegOb = <<>>
  BY DEF RegRests, RegOb
<1> QED
  BY <1>2, <1>3 DEF RegRests, RegWrite

\* Two bytes joined.
LEMMA TwoBytes ==
  ASSUME NEW a \in Byte, NEW b \in Byte
  PROVE  <<a>> \o <<b>> = <<a, b>>
<1>1. PICK s, t, u : s = <<a>> /\ t = <<b>> /\ u = s \o t
  OBVIOUS
<1>2. s \in Seq(Byte) /\ t \in Seq(Byte) /\ Len(s) = 1 /\ Len(t) = 1 /\ s[1] = a /\ t[1] = b
  BY <1>1
<1>3. u \in Seq(Byte) /\ Len(u) = 2 /\ u[1] = a /\ u[2] = b
  <2>1. /\ s \o t \in Seq(Byte) /\ Len(s \o t) = Len(s) + Len(t)
        /\ \A i \in 1 .. Len(s) + Len(t) : (s \o t)[i] = IF i <= Len(s) THEN s[i] ELSE t[i - Len(s)]
    BY <1>2, ConcatProperties
  <2> QED
    BY <1>1, <1>2, <2>1
<1>4. <<a, b>> \in Seq(Byte) /\ Len(<<a, b>>) = 2 /\ <<a, b>>[1] = a /\ <<a, b>>[2] = b
  OBVIOUS
<1>5. PICK v : v = <<a, b>>
  OBVIOUS
<1>6. v \in Seq(Byte) /\ Len(v) = 2 /\ v[1] = a /\ v[2] = b
  BY <1>4, <1>5
<1>7. \A i \in 1 .. Len(u) : u[i] = v[i]
  BY <1>3, <1>6
<1>8. u = v
  BY <1>3, <1>6, <1>7, SeqEqual
<1> QED
  BY <1>1, <1>5, <1>8

\* The reply to a request that cannot be served.
LEMMA RegError ==
  ASSUME NEW fr \in Seq(Byte), fr # <<>>, Cmd[fr[1]] \in {"RD8", "WR8", "NOSUBCMD"},
         ~(Cmd[fr[1]] = "RD8" /\ Len(fr) = 3), ~(Cmd[fr[1]] = "WR8" /\ Len(fr) > 2)
  PROVE  Reply(fr) = <<fr[1]>> \o Status(FALSE) /\ Len(Writes(fr)) = 0
<1>1. Reply(fr) = <<fr[1], ALL_ONES>>
  BY ReplyCases
<1>2. <<fr[1]>> \o <<ALL_ONES>> = <<fr[1], ALL_ONES>>
  <2>1. fr[1] \in Byte /\ ALL_ONES \in Byte
    BY EmptySeq, LenProperties, ElementOfSeq, AllOnes
  <2> QED
    BY <2>1, TwoBytes
<1> QED
  BY <1>1, <1>2, WritesAre DEF Status

\* A write is the next one of the frame.
LEMMA RegWritten ==
  ASSUME NEW fr \in Seq(Byte), Cmd[fr[1]] = "WR8", Len(fr) > 2,
         NEW k \in Nat, k <= Len(fr) - 2, GoodUpTo(fr[2], k), k < Len(fr) - 2 => Addr(fr[2], k) \in BadAddr
  PROVE  Reply(fr) = <<fr[1]>> \o Status(k = Len(fr) - 2) /\ Len(Writes(fr)) = k
<1>1. Len(fr) - 2 \in Nat /\ k \in 0 .. Len(fr) - 2
  BY LenProperties
<1>2. Good(fr[2], Len(fr) - 2) = k
  BY <1>1, GoodOnly
<1> QED
  BY <1>2, ReplyCases, WritesAre

\* The register handler is given the command byte.
LEMMA RegStarts ==
  ASSUME RegTypeOK, RegRests, NEW fr \in Seq(Byte), fr # <<>>, Cmd[fr[1]] \in {"RD8", "WR8", "NOSUBCMD"},
         NEW cmd \in Beat, Asked(fr, 0, <<cmd>>), NEW q, NEW rdy, NEW d, NEW e, RegEdge(<<cmd>>, q, rdy, d, e)
  PROVE  RegOb = <<>> /\ RegRdyIb(rdy) /\ (\A mIb : ~RegWrite(mIb)) /\ RegBusy(fr, 1, 0, 0, ~cmd.lst)'
<1>1. <<cmd>> # <<>> /\ <<cmd>>[1] = cmd /\ cmd.dat = fr[1] /\ (cmd.lst <=> Len(fr) = 1)
  BY DEF Asked
<1>2. reg' = [reg EXCEPT !.count = 0 - 1, !.err = TRUE, !.cmd = cmd.dat,
                         !.state = EndOr(cmd, IF Cmd[cmd.dat] \in {"RD8", "WR8"} THEN "A8" ELSE "DRAIN")]
  BY <1>1 DEF RegRests, RegEdge, RegIdle, RegA8, RegL8, RegWR8, RegRD8, RegReply, RegSta, RegDrain
<1>3. /\ reg'.count = 0 - 1 /\ reg'.err = TRUE /\ reg'.cmd = fr[1] /\ reg'.rvld = FALSE
      /\ reg'.state = EndOr(cmd, IF Cmd[cmd.dat] \in {"RD8", "WR8"} THEN "A8" ELSE "DRAIN")
  BY <1>1, <1>2, RegFields DEF RegRests
<1>4. RegOb = <<>> /\ RegRdyIb(rdy)
  BY DEF RegRests, RegOb, RegRdyIb
<1>5. CASE cmd.lst
  <2>0. Len(fr) = 1
    BY <1>1, <1>5, Zenon
  <2>4. ~(Len(fr) = 3) /\ ~(Len(fr) > 2)
    BY <2>0
  <2>1. Reply(fr) = <<fr[1]>> \o Status(FALSE) /\ Len(Writes(fr)) = 0
    BY <2>4, RegError, Zenon
  <2>2. reg'.state = "REPLY" /\ reg'.count < 0 /\ reg'.rvld = FALSE /\ reg'.err = TRUE
    BY <1>3, <1>5 DEF EndOr
  <2>5. Status(~reg'.err) = Status(FALSE)
    BY <2>2 DEF Status
  <2>6. Reply(fr) = <<fr[1]>> \o Status(~reg'.err) /\ Len(Writes(fr)) = 0
    BY <2>1, <2>5, Zenon
  <2>7. reg'.state # "RD8" /\ reg'.state # "STA" /\ ~(reg'.count >= 0)
    BY <1>3, <2>2
  <2>3. RegTells(fr, 0, 0)'
    BY <2>2, <2>6, <2>7, Zenon DEF RegTells
  <2> QED
    BY <1>3, <1>4, <1>5, <2>3 DEF RegBusy, RegRests, RegWrite
<1>6. CASE ~cmd.lst
  <2>1. reg'.state = IF Cmd[fr[1]] \in {"RD8", "WR8"} THEN "A8" ELSE "DRAIN"
    BY <1>1, <1>3, <1>6 DEF EndOr
  <2>2. RegAsks(fr, 1, 0, 0)'
    BY <1>3, <2>1 DEF RegAsks
  <2> QED
    BY <1>3, <1>4, <1>6, <2>2 DEF RegBusy, RegRests, RegWrite
<1> QED
  BY <1>5, <1>6

\* The register handler is given the rest of the request.
LEMMA RegListens ==
  ASSUME RegTypeOK, NEW fr \in Seq(Byte), fr # <<>>, NEW k \in 1 .. Len(fr) - 1, NEW j, NEW w,
         RegBusy(fr, k, j, w, TRUE), NEW mIb \in Bus(Beat), Asked(fr, k, mIb),
         NEW q, NEW rdy, RegEdge(mIb, q, rdy, Rdat[reg.addr], RegErr),
         NEW hr, hr <=> RegRdyIb(rdy),
         NEW k2, NEW j2, NEW open, Hears(mIb, hr, RegOb, q, k, k2, j, j2, open),
         NEW wr, Writing("REG", mIb, rdy, wr)
  PROVE  \E w2 : /\ RegOb = <<>> /\ j = 0 /\ Wrote(fr, w, wr, w2)
                 /\ open => RegBusy(fr, k2, j, w2, TRUE)'
                 /\ ~open => RegBusy(fr, k2, j, w2, FALSE)'
<1> open \in BOOLEAN /\ wr = IF RegWrite(mIb) /\ rdy /\ ~RegErr THEN <<<<reg.addr, mIb[1].dat>>>> ELSE <<>>
  BY DEF Hears, Writing
<1>0. PICK go \in BOOLEAN : go <=> mIb # <<>> /\ RegRdyIb(rdy)
  OBVIOUS
<1>8. /\ go => k2 = k + 1
      /\ ~go => k2 = k
      /\ open <=> ~(go /\ Ends(mIb))
  BY <1>0 DEF Hears
<1> USE <1>0, <1>8
<1> SUFFICES \E w2 : /\ RegOb = <<>> /\ j = 0
                     /\ wr = <<>> => w2 = w
                     /\ wr # <<>> => wr = <<WriteOf(fr, w + 1)>> /\ w2 = w + 1 /\ w + 3 <= Len(fr)
                     /\ RegBusy(fr, k2, j, w2, open)'
  BY DEF RegBusy, Wrote
<1>1. /\ reg.cmd = fr[1] /\ Cmd[fr[1]] \in {"RD8", "WR8", "NOSUBCMD"} /\ RegAsks(fr, k, j, w)
  BY DEF RegBusy
<1>2. Len(fr) \in Nat /\ (\A i \in 1 .. Len(fr) : fr[i] \in Byte) /\ fr[1] \in Byte /\ k \in Nat /\ k <= Len(fr) - 1
  BY LenProperties, ElementOfSeq, EmptySeq
<1>3. /\ reg.state \in {"A8", "L8", "WR8", "DRAIN"} /\ j = 0 /\ reg.count = 0 - 1 /\ ~reg.rvld /\ w \in Nat
  BY <1>1 DEF RegAsks
<1>4. RegOb = <<>>
  BY <1>3 DEF RegOb
<1>5. mIb # <<>> => mIb[1].dat = fr[k + 1] /\ (mIb[1].lst <=> k + 1 = Len(fr))
  BY DEF Asked
<1>6. CASE ~go
  <2>1. reg' = reg
    BY <1>3, <1>6 DEF RegRdyIb, RegEdge, RegIdle, RegA8, RegL8, RegWR8, RegRD8, RegReply, RegSta, RegDrain
  <2>2. wr = <<>>
    BY <1>6 DEF RegWrite, RegRdyIb
  <2>3. k2 = k /\ open
    BY <1>6
  <2>4. RegBusy(fr, k, j, w, TRUE)'
    BY <2>1, <1>1 DEF RegBusy, RegAsks
  <2> QED
    BY <1>3, <1>4, <2>2, <2>3, <2>4 DEF RegBusy
<1>7. CASE go
  <2>0. mIb # <<>> /\ k2 = k + 1
    BY <1>7
  <2>1. (open <=> k2 # Len(fr)) /\ k2 \in Nat /\ k2 <= Len(fr)
    BY <1>2, <1>5, <1>7, <2>0 DEF Ends
  <2>2. CASE reg.state = "A8"
    <3>1. reg' = [reg EXCEPT !.addr = mIb[1].dat,
                             !.state = EndOr(mIb[1], IF Cmd[reg.cmd] = "RD8" THEN "L8" ELSE "WR8")]
      BY <2>0, <2>2 DEF RegEdge, RegIdle, RegA8, RegL8, RegWR8, RegRD8, RegReply, RegSta, RegDrain
    <3>2. k = 1 /\ k2 = 2 /\ Cmd[fr[1]] \in {"RD8", "WR8"} /\ reg.err /\ w = 0
      BY <1>1, <2>0, <2>2 DEF RegAsks
    <3>3. /\ reg'.count = 0 - 1 /\ reg'.err = TRUE /\ reg'.cmd = fr[1] /\ reg'.rvld = FALSE /\ reg'.addr = fr[2]
          /\ reg'.state = EndOr(mIb[1], IF Cmd[fr[1]] = "RD8" THEN "L8" ELSE "WR8")
      BY <1>1, <1>3, <1>5, <2>0, <3>1, <3>2, RegFields
    <3>4. wr = <<>>
      BY <2>2 DEF RegWrite
    <3>5. CASE open
      <4>1. fr[2] \in Byte
        BY <1>2, <2>1, <3>2
      <4>2. Addr(fr[2], 0) = fr[2]
        BY <4>1, AddrIs
      <4>3. reg'.state = IF Cmd[fr[1]] = "RD8" THEN "L8" ELSE "WR8"
        BY <1>5, <2>0, <2>1, <3>3, <3>5 DEF EndOr
      <4>4. RegAsks(fr, k2, j, w)'
        BY <1>3, <3>2, <3>3, <4>2, <4>3 DEF RegAsks, GoodUpTo
      <4> QED
        BY <1>1, <1>3, <1>4, <3>3, <3>4, <3>5, <4>4 DEF RegBusy
    <3>6. CASE ~open
      <4>0. Len(fr) = 2
        BY <2>1, <3>2, <3>6, Zenon
      <4>1. ~(Len(fr) = 3) /\ ~(Len(fr) > 2)
        BY <4>0
      <4>2. Reply(fr) = <<fr[1]>> \o Status(FALSE) /\ Len(Writes(fr)) = 0
        BY <1>1, <4>1, RegError, Zenon
      <4>3. reg'.state = "REPLY"
        BY <1>5, <2>0, <2>1, <3>3, <3>6 DEF EndOr
      <4>4. RegTells(fr, j, w)'
        BY <1>3, <3>2, <3>3, <4>2, <4>3 DEF RegTells, Status
      <4> QED
        BY <1>1, <1>3, <1>4, <3>3, <3>4, <3>6, <4>4 DEF RegBusy
    <3> QED
      BY <3>5, <3>6
  <2>3. CASE reg.state = "L8"
    <3>1. reg' = IF mIb[1].lst THEN [reg EXCEPT !.count = mIb[1].dat, !.state = "REPLY"]
                 ELSE [reg EXCEPT !.state = "DRAIN"]
      BY <2>0, <2>3 DEF RegEdge, RegIdle, RegA8, RegL8, RegWR8, RegRD8, RegReply, RegSta, RegDrain
    <3>2. k = 2 /\ k2 = 3 /\ Cmd[fr[1]] = "RD8" /\ reg.addr = fr[2] /\ reg.err /\ w = 0
      BY <1>1, <2>0, <2>3 DEF RegAsks
    <3>3. wr = <<>>
      BY <2>3 DEF RegWrite
    <3>4. CASE open
      <4>1. reg' = [reg EXCEPT !.state = "DRAIN"]
        BY <1>5, <2>0, <2>1, <3>1, <3>4
      <4>2. /\ reg'.count = 0 - 1 /\ reg'.err = TRUE /\ reg'.cmd = fr[1] /\ reg'.rvld = FALSE
            /\ reg'.state = "DRAIN"
        BY <1>1, <1>3, <3>2, <4>1, RegFields
      <4>3. RegAsks(fr, k2, j, w)'
        BY <1>3, <3>2, <4>2 DEF RegAsks
      <4> QED
        BY <1>1, <1>3, <1>4, <3>3, <3>4, <4>2, <4>3 DEF RegBusy
    <3>5. CASE ~open
      <4>1. Len(fr) = 3 /\ fr[3] \in Byte
        BY <1>2, <2>1, <3>2, <3>5
      <4>2. reg' = [reg EXCEPT !.count = mIb[1].dat, !.state = "REPLY"]
        BY <1>5, <2>0, <2>1, <3>1, <3>5
      <4>3. /\ reg'.count = fr[3] /\ reg'.addr = fr[2] /\ reg'.cmd = fr[1] /\ reg'.rvld = FALSE
            /\ reg'.state = "REPLY"
        BY <1>1, <1>3, <1>5, <2>0, <3>2, <4>2, RegFields
      <4>4. fr[3] >= 0 /\ ~(fr[3] < 0) /\ Len(Writes(fr)) = 0
        BY <3>2, <4>1, WritesAre DEF Byte
      <4>5. RegTells(fr, j, w)'
        BY <1>3, <3>2, <4>1, <4>3, <4>4 DEF RegTells
      <4> QED
        BY <1>1, <1>3, <1>4, <3>3, <3>5, <4>3, <4>5 DEF RegBusy
    <3> QED
      BY <3>4, <3>5
  <2>4. CASE reg.state = "WR8"
    <3>0. rdy
      BY <1>7, <2>4 DEF RegRdyIb
    <3>1. reg' = [reg EXCEPT !.addr = NextAddr(@), !.err = RegErr,
                             !.state = EndOr(mIb[1], IF RegErr THEN "DRAIN" ELSE @)]
      BY <2>0, <2>4, <3>0 DEF RegEdge, RegIdle, RegA8, RegL8, RegWR8, RegRD8, RegReply, RegSta, RegDrain
    <3>2. k = w + 2 /\ k2 = w + 3 /\ Cmd[fr[1]] = "WR8" /\ reg.addr = Addr(fr[2], w) /\ GoodUpTo(fr[2], w)
      BY <1>1, <1>3, <2>0, <2>4 DEF RegAsks
    <3>3. fr[2] \in Byte /\ w + 3 <= Len(fr) /\ Len(fr) > 2
      BY <1>2, <1>3, <2>1, <3>2
    <3>4. NextAddr(Addr(fr[2], w)) = Addr(fr[2], w + 1)
      BY <1>3, <3>3, AddrIs
    <3>5. PICK err \in BOOLEAN : err <=> Addr(fr[2], w) \in BadAddr
      OBVIOUS
    <3>6. RegErr <=> err
      BY <3>2, <3>5 DEF RegErr
    <3>7. /\ reg'.count = 0 - 1 /\ (reg'.err <=> err) /\ reg'.cmd = fr[1] /\ reg'.rvld = FALSE
          /\ reg'.addr = Addr(fr[2], w + 1)
          /\ reg'.state = EndOr(mIb[1], IF err THEN "DRAIN" ELSE "WR8")
      <4>1. /\ reg'.count = reg.count /\ reg'.err = RegErr /\ reg'.cmd = reg.cmd /\ reg'.rvld = reg.rvld
            /\ reg'.addr = NextAddr(reg.addr)
            /\ reg'.state = EndOr(mIb[1], IF RegErr THEN "DRAIN" ELSE reg.state)
        BY <3>1, RegFields
      <4>2. reg.rvld = FALSE
        BY <1>3, RegFields
      <4>3. reg'.count = 0 - 1 /\ (reg'.err <=> err) /\ reg'.cmd = fr[1] /\ reg'.rvld = FALSE
        BY <1>1, <1>3, <3>6, <4>1, <4>2
      <4>4. reg'.state = EndOr(mIb[1], IF err THEN "DRAIN" ELSE "WR8")
        BY <2>4, <3>6, <4>1
      <4> QED
        BY <3>2, <3>4, <4>1, <4>3, <4>4
    <3>8. PICK w2 : w2 = IF err THEN w ELSE w + 1
      OBVIOUS
    <3>9. /\ wr = <<>> => w2 = w
          /\ wr # <<>> => wr = <<WriteOf(fr, w + 1)>> /\ w2 = w + 1 /\ w + 3 <= Len(fr)
      <4>1. CASE err
        BY <3>6, <3>8, <4>1
      <4>2. CASE ~err
        <5>1. wr = <<<<Addr(fr[2], w), fr[w + 3]>>>>
          BY <1>5, <2>0, <2>4, <3>0, <3>2, <3>6, <4>2 DEF RegWrite
        <5>2. PICK n : n = w + 1 /\ n - 1 = w /\ n + 2 = w + 3
          BY <1>3
        <5>3. WriteOf(fr, n) = <<Addr(fr[2], w), fr[w + 3]>>
          BY <5>2, Zenon DEF WriteOf
        <5> QED
          <6>1. w2 = w + 1
            BY <3>8, <4>2
          <6>2. wr # <<>>
            <7>1. \A x : <<x>> # <<>>
              OBVIOUS
            <7> QED
              BY <5>1, <7>1, Zenon
          <6> QED
            BY <3>3, <5>1, <5>2, <5>3, <6>1, <6>2, Zenon
      <4> QED
        BY <4>1, <4>2
    <3>10. GoodUpTo(fr[2], w2) /\ w2 \in Nat
      BY <1>3, <3>2, <3>5, <3>8 DEF GoodUpTo
    <3>11. CASE open
      <4>1. reg'.state = IF err THEN "DRAIN" ELSE "WR8"
        BY <1>5, <2>0, <2>1, <3>7, <3>11 DEF EndOr
      <4>2. /\ err => w2 = w /\ k2 > w2 + 2 /\ Addr(fr[2], w2) \in BadAddr
            /\ ~err => w2 = w + 1 /\ k2 = w2 + 2
        BY <1>3, <3>2, <3>5, <3>8
      <4>3. RegAsks(fr, k2, j, w2)'
        BY <1>3, <3>2, <3>7, <3>10, <4>1, <4>2 DEF RegAsks
      <4> QED
        BY <1>1, <1>3, <1>4, <3>7, <3>9, <3>11, <4>3 DEF RegBusy
    <3>12. CASE ~open
      <4>1. reg'.state = "REPLY"
        BY <1>5, <2>0, <2>1, <3>7, <3>12 DEF EndOr
      <4>2. Len(fr) = w + 3
        BY <2>1, <3>2, <3>12
      <4>3. w2 <= Len(fr) - 2 /\ (w2 < Len(fr) - 2 => Addr(fr[2], w2) \in BadAddr) /\ (w2 = Len(fr) - 2 <=> ~err)
        BY <1>3, <3>5, <3>8, <4>2
      <4>4. Reply(fr) = <<fr[1]>> \o Status(w2 = Len(fr) - 2) /\ Len(Writes(fr)) = w2
        BY <3>2, <3>3, <3>10, <4>3, RegWritten
      <4>5. Status(w2 = Len(fr) - 2) = Status(~reg'.err)
        BY <3>7, <4>3 DEF Status
      <4>6. RegTells(fr, j, w2)'
        BY <1>3, <3>7, <4>1, <4>4, <4>5 DEF RegTells
      <4> QED
        BY <1>1, <1>3, <1>4, <3>7, <3>9, <3>12, <4>6 DEF RegBusy
    <3> QED
      BY <3>11, <3>12
  <2>5. CASE reg.state = "DRAIN"
    <3>1. reg' = IF mIb[1].lst THEN [reg EXCEPT !.state = "REPLY"] ELSE reg
      BY <2>0, <2>5 DEF RegEdge, RegIdle, RegA8, RegL8, RegWR8, RegRD8, RegReply, RegSta, RegDrain
    <3>2. /\ reg.err
          /\ Cmd[fr[1]] = "WR8" => k > w + 2 /\ GoodUpTo(fr[2], w) /\ Addr(fr[2], w) \in BadAddr
          /\ Cmd[fr[1]] # "WR8" => w = 0
          /\ Cmd[fr[1]] = "RD8" => k >= 3
      BY <1>1, <2>5 DEF RegAsks
    <3>3. wr = <<>>
      BY <2>5 DEF RegWrite
    <3>4. CASE open
      <4>1. reg' = reg
        BY <1>5, <2>0, <2>1, <3>1, <3>4
      <4>2. (Cmd[fr[1]] = "WR8" => k2 > w + 2) /\ (Cmd[fr[1]] = "RD8" => k2 >= 3)
        BY <1>2, <1>3, <2>0, <3>2
      <4>3. RegAsks(fr, k2, j, w)'
        BY <1>3, <2>5, <3>2, <4>1, <4>2 DEF RegAsks
      <4> QED
        BY <1>1, <1>3, <1>4, <3>3, <3>4, <4>1, <4>3 DEF RegBusy
    <3>5. CASE ~open
      <4>1. reg' = [reg EXCEPT !.state = "REPLY"]
        BY <1>5, <2>0, <2>1, <3>1, <3>5
      <4>2. /\ reg'.count = 0 - 1 /\ reg'.err = TRUE /\ reg'.cmd = fr[1] /\ reg'.rvld = FALSE
            /\ reg'.state = "REPLY"
        BY <1>1, <1>3, <3>2, <4>1, RegFields
      <4>3. Reply(fr) = <<fr[1]>> \o Status(FALSE) /\ Len(Writes(fr)) = w
        <5>1. CASE Cmd[fr[1]] = "WR8"
          <6>1. Len(fr) > 2 /\ w < Len(fr) - 2 /\ w <= Len(fr) - 2 /\ w # Len(fr) - 2
            <7>1. k2 = Len(fr) /\ k > w + 2
              BY <2>1, <3>2, <3>5, <5>1, Zenon
            <7> QED
              BY <1>2, <1>3, <2>0, <7>1
          <6>2. Reply(fr) = <<fr[1]>> \o Status(w = Len(fr) - 2) /\ Len(Writes(fr)) = w
            BY <1>3, <3>2, <5>1, <6>1, RegWritten
          <6> QED
            BY <6>1, <6>2 DEF Status
        <5>2. CASE Cmd[fr[1]] # "WR8"
          <6>1. Cmd[fr[1]] = "RD8" => Len(fr) # 3
            <7>1. k2 = Len(fr) /\ (Cmd[fr[1]] = "RD8" => k >= 3)
              BY <2>1, <3>2, <3>5, Zenon
            <7> QED
              BY <1>2, <2>0, <7>1
          <6> QED
            BY <1>1, <3>2, <5>2, <6>1, RegError
        <5> QED
          BY <5>1, <5>2
      <4>4. RegTells(fr, j, w)'
        BY <1>3, <4>2, <4>3 DEF RegTells, Status
      <4> QED
        BY <1>1, <1>3, <1>4, <3>3, <3>5, <4>2, <4>4 DEF RegBusy
    <3> QED
      BY <3>4, <3>5
  <2> QED
    BY <1>3, <2>2, <2>3, <2>4, <2>5
<1> QED
  BY <1>6, <1>7

-----------------------------------------------------------------------------
(* Handlers: the register commands while the reply goes out. *)

\* The replies that are the command byte and a status.
LEMMA StatusReply ==
  ASSUME NEW fr \in Seq(Byte), fr # <<>>, NEW g \in BOOLEAN, Reply(fr) = <<fr[1]>> \o Status(g)
  PROVE  Len(Reply(fr)) = 2 /\ Reply(fr)[1] = fr[1] /\ Reply(fr)[2] = IF g THEN OK ELSE ALL_ONES
<1>1. fr[1] \in Byte /\ OK \in Byte /\ ALL_ONES \in Byte
  BY EmptySeq, LenProperties, ElementOfSeq, AllOnes
<1>2. PICK d \in Byte : d = (IF g THEN OK ELSE ALL_ONES) /\ Status(g) = <<d>>
  <2>1. CASE g
    BY <1>1, <2>1 DEF Status
  <2>2. CASE ~g
    BY <1>1, <2>2 DEF Status
  <2> QED
    BY <2>1, <2>2
<1>3. Reply(fr) = <<fr[1], d>>
  BY <1>1, <1>2, TwoBytes
<1> QED
  BY <1>2, <1>3

\* The register handler gives its reply.
LEMMA RegTold ==
  ASSUME RegTypeOK, NEW fr \in Seq(Byte), fr # <<>>, NEW k, NEW j, NEW w,
         RegBusy(fr, k, j, w, FALSE), NEW q \in BOOLEAN, NEW rdy \in BOOLEAN,
         RegEdge(<<>>, q, rdy, Rdat[reg.addr], RegErr), NEW ob, ob = RegOb,
         NEW gone \in BOOLEAN, gone <=> ob # <<>> /\ q, NEW j2, gone => j2 = j + 1, ~gone => j2 = j
  PROVE  /\ Told(fr, j, ob) /\ ~RegWrite(<<>>)
         /\ ~(gone /\ Ends(ob)) => RegBusy(fr, k, j2, w, FALSE)'
         /\ gone /\ Ends(ob) => RegRests'
<1>0. ~RegWrite(<<>>)
  BY DEF RegWrite
<1>1. /\ reg.cmd = fr[1] /\ Cmd[fr[1]] \in {"RD8", "WR8", "NOSUBCMD"} /\ RegTells(fr, j, w)
  BY DEF RegBusy
<1>2. reg.state \in {"REPLY", "RD8", "STA"} /\ w = Len(Writes(fr))
  BY <1>1 DEF RegTells
<1>3. \A x, y : <<x>> # <<>> /\ <<x>>[1] = x
  OBVIOUS
<1>4. reg.err \in BOOLEAN /\ reg.rvld \in BOOLEAN
  BY RegFields
<1>5. CASE reg.state = "REPLY"
  <2>1. ob = <<[dat |-> reg.cmd, lst |-> FALSE]>> /\ ob # <<>> /\ (gone <=> q)
    BY <1>3, <1>5 DEF RegOb
  <2>7. reg.count < 0 \/ reg.count >= 0
    BY RegFields DEF Byte
  <2>2. j = 0 /\ reg.rvld = FALSE
    <3>1. j = 0 /\ ~reg.rvld
      BY <1>1, <1>5, <2>7 DEF RegTells
    <3> QED
      BY <1>4, <3>1
  <2>3. ob[1].dat = fr[1] /\ ob[1].lst = FALSE
    BY <1>1, <2>1
  <2>4. reg' = IF q THEN [reg EXCEPT !.state = IF reg.count >= 0 THEN "RD8" ELSE "STA"] ELSE reg
    BY <1>5 DEF RegEdge, RegIdle, RegA8, RegL8, RegWR8, RegRD8, RegReply, RegSta, RegDrain
  <2>5. CASE reg.count < 0
    <3>1. Reply(fr) = <<fr[1]>> \o Status(~reg.err)
      BY <1>1, <1>5, <2>5 DEF RegTells
    <3>2. Len(Reply(fr)) = 2 /\ Reply(fr)[1] = fr[1] /\ Reply(fr)[2] = IF reg.err THEN ALL_ONES ELSE OK
      <4>1. PICK g \in BOOLEAN : g = ~reg.err
        OBVIOUS
      <4> QED
        BY <3>1, <4>1, StatusReply
    <3>3. Told(fr, j, ob)
      BY <2>1, <2>2, <2>3, <3>2 DEF Told
    <3>4. CASE q
      <4>1. reg' = [reg EXCEPT !.state = "STA"] /\ j2 = 1
        <5>1. ~(reg.count >= 0)
          BY <2>5, RegFields DEF Byte
        <5> QED
          BY <2>1, <2>2, <2>4, <3>4, <5>1
      <4>2. reg'.state = "STA" /\ reg'.rvld = FALSE /\ reg'.cmd = fr[1] /\ reg'.err = reg.err
        BY <1>1, <2>2, <4>1, RegFields
      <4>3. RegTells(fr, j2, w)'
        BY <1>2, <3>2, <4>1, <4>2 DEF RegTells
      <4> QED
        BY <1>0, <1>1, <2>3, <3>3, <4>2, <4>3 DEF RegBusy, Ends
    <3>5. CASE ~q
      BY <1>0, <1>1, <2>1, <2>3, <2>4, <3>3, <3>5 DEF RegBusy, RegTells, Ends
    <3> QED
      BY <3>4, <3>5
  <2>6. CASE reg.count >= 0
    <3>1. Cmd[fr[1]] = "RD8" /\ Len(fr) = 3 /\ reg.addr = fr[2] /\ reg.count = fr[3]
      BY <1>1, <1>5, <2>6 DEF RegTells
    <3>2. fr[2] \in Byte /\ fr[3] \in Nat
      <4>1. \A i \in 1 .. Len(fr) : fr[i] \in Byte
        BY ElementOfSeq
      <4> QED
        BY <3>1, <4>1 DEF Byte
    <3>3. PICK n : n = Good(fr[2], fr[3] + 1)
      OBVIOUS
    <3>4. n \in Nat /\ Len(Reply(fr)) = n + 2 /\ Reply(fr)[1] = fr[1]
      BY <3>1, <3>3, ReplyRead
    <3>5. Told(fr, j, ob)
      BY <2>1, <2>2, <2>3, <3>4 DEF Told
    <3>6. CASE q
      <4>1. reg' = [reg EXCEPT !.state = "RD8"] /\ j2 = 1
        BY <2>1, <2>2, <2>4, <2>6, <3>6
      <4>2. /\ reg'.state = "RD8" /\ reg'.rvld = FALSE /\ reg'.cmd = fr[1] /\ reg'.count = fr[3]
            /\ reg'.addr = fr[2]
        BY <1>1, <2>2, <3>1, <4>1, RegFields
      <4>3. Addr(fr[2], 0) = fr[2] /\ GoodUpTo(fr[2], 0) /\ fr[3] >= 0 /\ fr[3] - (1 - 1) = fr[3] /\ 1 - 1 = 0
        BY <3>2, AddrIs DEF GoodUpTo
      <4>4. RegTells(fr, j2, w)'
        <5>1. fr[3] - (j2 - 1) = fr[3] /\ j2 - 1 = 0 /\ j2 \in Nat \ {0}
          BY <3>2, <4>1
        <5> QED
          BY <1>2, <3>1, <4>2, <4>3, <5>1 DEF RegTells
      <4> QED
        BY <1>0, <1>1, <2>3, <3>5, <4>2, <4>4 DEF RegBusy, Ends
    <3>7. CASE ~q
      BY <1>0, <1>1, <2>1, <2>3, <2>4, <3>5, <3>7 DEF RegBusy, RegTells, Ends
    <3> QED
      BY <3>6, <3>7
  <2> QED
    BY <2>5, <2>6, <2>7
<1>6. CASE reg.state = "RD8"
  <2>1. /\ j \in Nat \ {0} /\ Cmd[fr[1]] = "RD8" /\ Len(fr) = 3
        /\ reg.count >= 0 /\ reg.count = fr[3] - (j - 1)
        /\ reg.addr = Addr(fr[2], j - 1) /\ GoodUpTo(fr[2], j - 1)
        /\ reg.rvld => /\ reg.err <=> reg.addr \in BadAddr
                       /\ reg.rdat = IF reg.err THEN ALL_ONES ELSE Rdat[reg.addr]
    BY <1>1, <1>6 DEF RegTells
  <2>2. fr[2] \in Byte /\ fr[3] \in Nat
    <3>1. \A i \in 1 .. Len(fr) : fr[i] \in Byte
      BY ElementOfSeq
    <3> QED
      BY <2>1, <3>1 DEF Byte
  <2>3. CASE ~reg.rvld
    <3>1. ob = <<>> /\ ~gone /\ j2 = j /\ Told(fr, j, ob)
      BY <1>6, <2>3 DEF RegOb, Told
    <3>2. reg' = IF rdy THEN [reg EXCEPT !.rvld = TRUE, !.rdat = IF RegErr THEN ALL_ONES ELSE Rdat[reg.addr],
                                 !.err = RegErr]
                 ELSE reg
      BY <1>6, <2>3 DEF RegEdge, RegIdle, RegA8, RegL8, RegWR8, RegRD8, RegReply, RegSta, RegDrain, RegRead
    <3>3. CASE ~rdy
      BY <1>0, <1>1, <3>1, <3>2, <3>3 DEF RegBusy, RegTells
    <3>4. CASE rdy
      <4>1. /\ reg'.state = "RD8" /\ reg'.cmd = reg.cmd /\ reg'.count = reg.count /\ reg'.addr = reg.addr
            /\ reg'.err = RegErr /\ reg'.rdat = (IF RegErr THEN ALL_ONES ELSE Rdat[reg.addr])
        BY <1>6, <3>2, <3>4, RegFields
      <4>2. RegErr <=> reg.addr \in BadAddr
        BY DEF RegErr
      <4>3. RegTells(fr, j, w)'
        BY <1>2, <2>1, <4>1, <4>2 DEF RegTells
      <4> QED
        BY <1>0, <1>1, <3>1, <4>1, <4>3 DEF RegBusy
    <3> QED
      BY <3>3, <3>4
  <2>4. CASE reg.rvld
    <3>1. ob = <<[dat |-> reg.rdat, lst |-> reg.err]>> /\ ob # <<>> /\ (gone <=> q)
          /\ ob[1].dat = reg.rdat /\ ob[1].lst = reg.err
      BY <1>3, <1>6, <2>4 DEF RegOb
    <3>2. reg' = IF q THEN [reg EXCEPT !.addr = NextAddr(@), !.count = @ - 1, !.rvld = FALSE,
                                 !.state = IF reg.err THEN "IDLE"
                                           ELSE IF reg.count = 0 THEN "STA" ELSE @]
                 ELSE reg
      BY <1>6, <2>4 DEF RegEdge, RegIdle, RegA8, RegL8, RegWR8, RegRD8, RegReply, RegSta, RegDrain, RegRead
    <3>3. PICK n : n = Good(fr[2], fr[3] + 1)
      OBVIOUS
    <3>4. /\ n \in 0 .. fr[3] + 1 /\ Len(Reply(fr)) = n + 2
          /\ \A i \in 1 .. n : Reply(fr)[i + 1] = Rdat[Addr(fr[2], i - 1)]
          /\ Reply(fr)[n + 2] = IF n = fr[3] + 1 THEN OK ELSE ALL_ONES
      BY <2>1, <3>3, ReplyRead
    <3>5. j - 1 \in 0 .. fr[3] + 1 /\ j \in 0 .. fr[3] + 1 /\ j - 1 < fr[3] + 1 /\ fr[3] + 1 \in Nat
      BY <2>1, <2>2
    <3>6. reg.err <=> Addr(fr[2], j - 1) \in BadAddr
      BY <2>1, <2>4
    <3>7. reg.err => n = j - 1
      <4>1. reg.err => Good(fr[2], fr[3] + 1) = j - 1
        BY <2>1, <3>5, <3>6, GoodOnly
      <4> QED
        BY <3>3, <4>1
    <3>8. ~reg.err => GoodUpTo(fr[2], j) /\ n >= j
      <4>1. ~reg.err => GoodUpTo(fr[2], j)
        BY <2>1, <3>5, <3>6 DEF GoodUpTo
      <4>2. n < fr[3] + 1 => Addr(fr[2], n) \in BadAddr
        BY <3>3, <3>5, GoodIs
      <4>3. ~reg.err /\ n < j => FALSE
        BY <2>1, <2>2, <3>4, <3>5, <4>1, <4>2 DEF GoodUpTo
      <4> QED
        BY <2>1, <3>4, <4>1, <4>3
    <3>9. Told(fr, j, ob)
      <4>1. CASE reg.err
        <5>1. n + 2 = j + 1 /\ n # fr[3] + 1 /\ Len(Reply(fr)) = j + 1 /\ j + 1 \in 1 .. j + 1
          BY <2>1, <3>4, <3>5, <3>7, <4>1
        <5>2. Reply(fr)[j + 1] = ALL_ONES /\ ob[1].dat = ALL_ONES
          BY <2>1, <2>4, <3>1, <3>4, <4>1, <5>1
        <5> QED
          BY <3>1, <4>1, <5>1, <5>2 DEF Told
      <4>2. CASE ~reg.err
        <5>1. j \in 1 .. n /\ j + 1 \in 1 .. n + 2 /\ j + 1 # n + 2
          BY <2>1, <3>4, <3>8, <4>2
        <5>2. Reply(fr)[j + 1] = Rdat[Addr(fr[2], j - 1)] /\ ob[1].dat = Rdat[Addr(fr[2], j - 1)]
          BY <2>1, <2>4, <3>1, <3>4, <4>2, <5>1
        <5> QED
          BY <3>1, <3>4, <4>2, <5>1, <5>2 DEF Told
      <4> QED
        BY <4>1, <4>2
    <3>10. CASE ~q
      BY <1>0, <1>1, <3>1, <3>2, <3>9, <3>10 DEF RegBusy, RegTells
    <3>11. CASE q
      <4>1. /\ reg'.state = (IF reg.err THEN "IDLE" ELSE IF reg.count = 0 THEN "STA" ELSE "RD8")
            /\ reg'.cmd = reg.cmd /\ reg'.count = reg.count - 1 /\ reg'.addr = NextAddr(reg.addr)
            /\ reg'.rvld = FALSE /\ reg'.err = reg.err
        BY <1>6, <3>2, <3>11, RegFields
      <4>2. j2 = j + 1
        BY <3>1, <3>11
      <4>3. CASE reg.err
        <5>1. RegRests' /\ gone /\ Ends(ob)
          BY <3>1, <3>11, <4>1, <4>3 DEF RegRests, Ends
        <5> QED
          BY <1>0, <3>9, <5>1
      <4>4. CASE ~reg.err
        <5>0. ~Ends(ob)
          BY <3>1, <4>4 DEF Ends
        <5>1. CASE reg.count = 0
          <6>1. n = fr[3] + 1 /\ j = fr[3] + 1
            BY <2>1, <2>2, <3>4, <3>8, <4>4, <5>1
          <6>2. Len(Reply(fr)) = j2 + 1 /\ Reply(fr)[j2 + 1] = OK /\ j2 \in Nat
            <7>0. n = j /\ j2 = j + 1 /\ j \in Nat
              BY <2>1, <4>2, <6>1
            <7>1. n + 2 = j2 + 1 /\ j2 \in Nat
              BY <7>0
            <7> QED
              BY <3>4, <6>1, <7>1
          <6>3. RegTells(fr, j2, w)'
            BY <1>2, <4>1, <4>4, <5>1, <6>2 DEF RegTells
          <6> QED
            BY <1>0, <1>1, <3>9, <4>1, <5>0, <6>3 DEF RegBusy
        <5>2. CASE reg.count # 0
          <6>1. /\ j2 \in Nat \ {0} /\ reg'.count >= 0 /\ reg'.count = fr[3] - (j2 - 1) /\ j2 - 1 = j
            <7>1. PICK c, m : c = reg.count /\ m = fr[3]
              OBVIOUS
            <7>2. c >= 0 /\ c = m - (j - 1) /\ j \in Nat \ {0} /\ m \in Nat /\ j2 = j + 1 /\ c # 0
              BY <2>1, <2>2, <4>2, <5>2, <7>1
            <7>3. c - 1 >= 0 /\ c - 1 = m - (j2 - 1) /\ j2 \in Nat \ {0} /\ j2 - 1 = j
              BY <7>2
            <7>4. reg'.count = c - 1
              BY <4>1, <7>1
            <7> QED
              BY <7>1, <7>3, <7>4
          <6>2. reg'.addr = Addr(fr[2], j2 - 1)
            <7>1. PICK i \in Nat : i = j - 1 /\ i + 1 = j
              BY <2>1
            <7>2. NextAddr(Addr(fr[2], i)) = Addr(fr[2], i + 1)
              BY <2>2, AddrIs
            <7> QED
              BY <2>1, <4>1, <6>1, <7>1, <7>2
          <6>3. reg'.state = "RD8" /\ GoodUpTo(fr[2], j2 - 1)
            BY <3>8, <4>1, <4>4, <5>2, <6>1
          <6>4. RegTells(fr, j2, w)'
            BY <1>2, <2>1, <4>1, <6>1, <6>2, <6>3 DEF RegTells
          <6> QED
            BY <1>0, <1>1, <3>9, <4>1, <5>0, <6>4 DEF RegBusy
        <5> QED
          BY <5>1, <5>2
      <4> QED
        BY <4>3, <4>4
    <3> QED
      BY <3>10, <3>11
  <2> QED
    BY <1>4, <2>3, <2>4
<1>7. CASE reg.state = "STA"
  <2>1. /\ reg.rvld = FALSE /\ j \in Nat /\ Len(Reply(fr)) = j + 1
        /\ Reply(fr)[j + 1] = IF reg.err THEN ALL_ONES ELSE OK
    BY <1>1, <1>4, <1>7 DEF RegTells
  <2>2. ob = <<[dat |-> IF reg.err THEN ALL_ONES ELSE OK, lst |-> TRUE]>> /\ (gone <=> q)
        /\ ob[1].dat = (IF reg.err THEN ALL_ONES ELSE OK) /\ ob[1].lst = TRUE /\ ob # <<>>
    BY <1>3, <1>7 DEF RegOb
  <2>3. Told(fr, j, ob)
    <3>1. j + 1 \in 1 .. Len(Reply(fr))
      BY <2>1
    <3> QED
      BY <2>1, <2>2, <3>1 DEF Told
  <2>4. reg' = IF q THEN [reg EXCEPT !.state = "IDLE"] ELSE reg
    BY <1>7 DEF RegEdge, RegIdle, RegA8, RegL8, RegWR8, RegRD8, RegReply, RegSta, RegDrain
  <2>5. CASE q
    <3>1. reg'.state = "IDLE" /\ reg'.rvld = FALSE
      BY <2>1, <2>4, <2>5, RegFields
    <3> QED
      BY <1>0, <2>2, <2>3, <2>5, <3>1 DEF RegRests, Ends
  <2>6. CASE ~q
    BY <1>0, <1>1, <2>2, <2>3, <2>4, <2>6 DEF RegBusy, RegTells
  <2> QED
    BY <2>5, <2>6
<1> QED
  BY <1>2, <1>5, <1>6, <1>7

-----------------------------------------------------------------------------
(* Handlers: all of them behind the multiplexer. *)

\* All handlers together.  h is the one that is selected, mIb what it is
\* given, q whether it may offer what it does.
AllRest == VerRests /\ BbRests /\ RegRests

\* The selected handler is at frame fr, the others rest.
Busy(h, fr, k, j, w, open) ==
  /\ h = "VERSION" => VerBusy(j, open)
  /\ h # "VERSION" => VerRests
  /\ h = "BITBANG" => BbBusy(fr, k, j, open)
  /\ h # "BITBANG" => BbRests
  /\ h = "REG" => RegBusy(fr, k, j, w, open)
  /\ h # "REG" => RegRests /\ w = 0

\* Each handler's edge of the clock; those not selected get nothing.
Edges(h, mIb, q, rdy) ==
  /\ h = "VERSION" => VerEdge(mIb, q)
  /\ h # "VERSION" => VerEdge(<<>>, TRUE)
  /\ h = "BITBANG" => BbEdge(mIb, q, rdy)
  /\ h # "BITBANG" => BbEdge(<<>>, TRUE, rdy)
  /\ h = "REG" => RegEdge(mIb, q, rdy, Rdat[reg.addr], RegErr)
  /\ h # "REG" => RegEdge(<<>>, TRUE, rdy, Rdat[reg.addr], RegErr)

\* What the selected handler offers.
Offers(h, mIb, ob) ==
  /\ h = "VERSION" => ob = VerOb(mIb)
  /\ h = "BITBANG" => ob = BbOb(mIb)
  /\ h = "REG" => ob = RegOb

\* Whether the selected handler takes a beat.
Takes(h, q, rdy, hr) ==
  /\ h = "VERSION" => (hr <=> VerRdyIb(q))
  /\ h = "BITBANG" => (hr <=> BbRdyIb(q, rdy))
  /\ h = "REG" => (hr <=> RegRdyIb(rdy))

HandlersTypeOK == VerTypeOK /\ BbTypeOK /\ RegTypeOK

\* What follows when frame fr is started.
Starts(h, fr, cmd, q, hr, ob, wr) ==
  /\ Told(fr, 0, ob) /\ wr = <<>>
  /\ h = "REG" => ob = <<>>
  /\ Ends(ob) => cmd.lst
  /\ ~hr => AllRest' /\ ~(ob # <<>> /\ q)
  /\ hr /\ q /\ Ends(ob) => AllRest' /\ cmd.lst /\ Len(Writes(fr)) = 0
  /\ hr /\ q /\ ob # <<>> /\ ~Ends(ob) => Busy(h, fr, 1, 1, 0, ~cmd.lst)'
  /\ hr /\ ~(q /\ ob # <<>>) => Busy(h, fr, 1, 0, 0, ~cmd.lst)'

\* What follows when the request goes on.
Listens(h, fr, j, w, wr, ob, k2, j2, open) ==
  /\ Told(fr, j, ob) /\ ~Ends(ob)
  /\ h = "REG" => ob = <<>>
  /\ \E w2 : /\ Wrote(fr, w, wr, w2)
             /\ open => Busy(h, fr, k2, j2, w2, TRUE)'
             /\ ~open => Busy(h, fr, k2, j2, w2, FALSE)'

\* What follows when the request is complete.
Tells(h, fr, j, w, wr, ob, gone, k2, j2) ==
  /\ Told(fr, j, ob) /\ wr = <<>>
  /\ ~(gone /\ Ends(ob)) => Busy(h, fr, k2, j2, w, FALSE)'
  /\ gone /\ Ends(ob) => AllRest' /\ w = Len(Writes(fr))

\* The handler each command selects.
LEMMA Selects ==
  ASSUME NEW fr \in Seq(Byte), fr # <<>>
  PROVE  /\ Handler(fr[1]) \in {"VERSION", "BITBANG", "REG", "NONE"}
         /\ Handler(fr[1]) = "VERSION" <=> Cmd[fr[1]] = "VERSION"
         /\ Handler(fr[1]) = "BITBANG" <=> Cmd[fr[1]] = "ECHO"
         /\ Handler(fr[1]) = "NONE" <=> Cmd[fr[1]] = "NONE"
         /\ Handler(fr[1]) = "REG" <=> Cmd[fr[1]] \in {"RD8", "WR8", "NOSUBCMD"}
<1>1. fr[1] \in Byte
  BY EmptySeq, LenProperties, ElementOfSeq
<1>2. Cmd[fr[1]] \in {"VERSION", "ECHO", "RD8", "WR8", "NOSUBCMD", "NONE"}
  BY <1>1, BusAssumption, RegsAssumption
<1> QED
  BY <1>2 DEF Handler

\* A frame for another handler than CommandReg has no writes.
LEMMA NoWrites ==
  ASSUME NEW fr \in Seq(Byte), fr # <<>>, Handler(fr[1]) # "REG"
  PROVE  Len(Writes(fr)) = 0
<1>1. Cmd[fr[1]] # "WR8"
  BY Selects
<1> QED
  BY <1>1, WritesAre

\* All handlers stay at rest when nothing is for them.
LEMMA AllResting ==
  ASSUME HandlersTypeOK, AllRest, NEW h, NEW rdy, Edges(h, <<>>, TRUE, rdy)
  PROVE  AllRest'
<1>1. VerEdge(<<>>, TRUE) /\ BbEdge(<<>>, TRUE, rdy) /\ RegEdge(<<>>, TRUE, rdy, Rdat[reg.addr], RegErr)
  BY Zenon DEF Edges
<1> QED
  BY <1>1, VerResting, BbResting, RegResting, Zenon DEF AllRest, HandlersTypeOK

\* The selected handler starts, the others rest.
LEMMA AllStart ==
  ASSUME HandlersTypeOK, AllRest, NEW fr \in Seq(Byte), fr # <<>>,
         NEW h, h = Handler(fr[1]), h # "NONE",
         NEW cmd \in Beat, Asked(fr, 0, <<cmd>>), NEW q \in BOOLEAN, NEW rdy \in BOOLEAN,
         Edges(h, <<cmd>>, q, rdy), NEW ob, Offers(h, <<cmd>>, ob),
         NEW hr, Takes(h, q, rdy, hr), NEW wr, Writing(h, <<cmd>>, rdy, wr)
  PROVE  Starts(h, fr, cmd, q, hr, ob, wr)
<1> USE DEF Starts
<1>1. h \in {"VERSION", "BITBANG", "REG"}
  BY Selects
<1> USE DEF HandlersTypeOK
<1>2. CASE h = "VERSION"
  <2>1. /\ VerEdge(<<cmd>>, q) /\ BbEdge(<<>>, TRUE, rdy) /\ RegEdge(<<>>, TRUE, rdy, Rdat[reg.addr], RegErr)
        /\ ob = VerOb(<<cmd>>) /\ (hr <=> VerRdyIb(q)) /\ wr = <<>> /\ Cmd[fr[1]] = "VERSION"
    BY <1>2, Selects DEF Edges, Offers, Takes, Writing
  <2>2. BbRests' /\ RegRests'
    BY <2>1, BbResting, RegResting DEF AllRest
  <2>3. /\ ob # <<>> /\ ~ob[1].lst /\ Told(fr, 0, ob) /\ (VerRdyIb(q) <=> q)
        /\ ~q => VerRests'
        /\ q => VerBusy(1, ~cmd.lst)'
    <3>1. VerRests
      BY DEF AllRest
    <3> QED
      BY <2>1, <3>1, VerStarts
  <2>4. q => Busy(h, fr, 1, 1, 0, ~cmd.lst)'
    BY <1>2, <2>2, <2>3 DEF Busy
  <2> QED
    BY <1>2, <2>1, <2>2, <2>3, <2>4 DEF AllRest, Ends
<1>3. CASE h = "BITBANG"
  <2>1. /\ BbEdge(<<cmd>>, q, rdy) /\ VerEdge(<<>>, TRUE) /\ RegEdge(<<>>, TRUE, rdy, Rdat[reg.addr], RegErr)
        /\ ob = BbOb(<<cmd>>) /\ (hr <=> BbRdyIb(q, rdy)) /\ wr = <<>> /\ Cmd[fr[1]] = "ECHO"
    BY <1>3, Selects DEF Edges, Offers, Takes, Writing
  <2>2. VerRests' /\ RegRests'
    BY <2>1, VerResting, RegResting DEF AllRest
  <2>3. /\ ob = <<cmd>> /\ Told(fr, 0, ob) /\ (BbRdyIb(q, rdy) <=> q)
        /\ ~q \/ cmd.lst => BbRests'
        /\ q /\ ~cmd.lst => BbBusy(fr, 1, 1, TRUE)'
    BY <2>1, BbStarts, Zenon DEF AllRest
  <2>4. ob # <<>> /\ ob[1] = cmd /\ (Ends(ob) <=> cmd.lst)
    BY <2>3 DEF Ends
  <2>5. q /\ ~cmd.lst => Busy(h, fr, 1, 1, 0, ~cmd.lst)'
    BY <1>3, <2>2, <2>3 DEF Busy
  <2>6. Len(Writes(fr)) = 0
    BY <1>3, NoWrites
  <2> QED
    BY <1>3, <2>1, <2>2, <2>3, <2>4, <2>5, <2>6 DEF AllRest
<1>4. CASE h = "REG"
  <2>1. /\ RegEdge(<<cmd>>, q, rdy, Rdat[reg.addr], RegErr) /\ VerEdge(<<>>, TRUE) /\ BbEdge(<<>>, TRUE, rdy)
        /\ ob = RegOb /\ (hr <=> RegRdyIb(rdy)) /\ Cmd[fr[1]] \in {"RD8", "WR8", "NOSUBCMD"}
        /\ wr = IF RegWrite(<<cmd>>) /\ rdy /\ ~RegErr THEN <<<<reg.addr, <<cmd>>[1].dat>>>> ELSE <<>>
    BY <1>4, Selects DEF Edges, Offers, Takes, Writing
  <2>2. VerRests' /\ BbRests'
    BY <2>1, VerResting, BbResting DEF AllRest
  <2>3. RegOb = <<>> /\ RegRdyIb(rdy) /\ (\A mIb : ~RegWrite(mIb)) /\ RegBusy(fr, 1, 0, 0, ~cmd.lst)'
    BY <2>1, RegStarts, Zenon DEF AllRest
  <2>4. Busy(h, fr, 1, 0, 0, ~cmd.lst)'
    BY <1>4, <2>2, <2>3 DEF Busy
  <2> QED
    BY <2>1, <2>3, <2>4 DEF Told, Ends
<1> QED
  BY <1>1, <1>2, <1>3, <1>4

\* It listens, the others rest.
LEMMA AllListen ==
  ASSUME HandlersTypeOK, NEW fr \in Seq(Byte), fr # <<>>, NEW h, h = Handler(fr[1]), h # "NONE",
         NEW k \in 1 .. Len(fr) - 1, NEW j, NEW w, Busy(h, fr, k, j, w, TRUE),
         NEW mIb \in Bus(Beat), Asked(fr, k, mIb), NEW q, NEW rdy \in BOOLEAN,
         Edges(h, mIb, q, rdy), NEW ob, Offers(h, mIb, ob),
         NEW hr, Takes(h, q, rdy, hr), NEW wr, Writing(h, mIb, rdy, wr),
         NEW k2, NEW j2, NEW open, Hears(mIb, hr, ob, q, k, k2, j, j2, open)
  PROVE  Listens(h, fr, j, w, wr, ob, k2, j2, open)
<1> USE DEF Listens
<1>1. h \in {"VERSION", "BITBANG", "REG"}
  BY Selects
<1> USE DEF HandlersTypeOK
<1>2. CASE h = "VERSION"
  <2>1. /\ VerEdge(mIb, q) /\ BbEdge(<<>>, TRUE, rdy) /\ RegEdge(<<>>, TRUE, rdy, Rdat[reg.addr], RegErr)
        /\ ob = VerOb(mIb) /\ (hr <=> VerRdyIb(q)) /\ wr = <<>>
    BY <1>2 DEF Edges, Offers, Takes, Writing
  <2>2. VerBusy(j, TRUE) /\ BbRests /\ RegRests /\ w = 0
    BY <1>2 DEF Busy
  <2>3. BbRests' /\ RegRests'
    BY <2>1, <2>2, BbResting, RegResting
  <2>4. ob = <<>> /\ VerRdyIb(q) /\ VerBusy(j, ~Ends(mIb))'
    BY <2>1, <2>2, VerListens
  <2>5. (~Ends(mIb) <=> open) /\ j2 = j /\ Told(fr, j, ob) /\ ~Ends(ob)
    BY <2>1, <2>4 DEF Ends, Told, Hears
  <2>6. (open => VerBusy(j2, TRUE)') /\ (~open => VerBusy(j2, FALSE)')
    BY <2>4, <2>5 DEF VerBusy
  <2>7. (open => Busy(h, fr, k2, j2, w, TRUE)') /\ (~open => Busy(h, fr, k2, j2, w, FALSE)')
    BY <1>2, <2>2, <2>3, <2>6 DEF Busy
  <2> QED
    BY <1>2, <2>1, <2>5, <2>7 DEF Wrote
<1>3. CASE h = "BITBANG"
  <2>1. /\ BbEdge(mIb, q, rdy) /\ VerEdge(<<>>, TRUE) /\ RegEdge(<<>>, TRUE, rdy, Rdat[reg.addr], RegErr)
        /\ ob = BbOb(mIb) /\ (hr <=> BbRdyIb(q, rdy)) /\ wr = <<>> /\ Cmd[fr[1]] = "ECHO"
    BY <1>3, Selects DEF Edges, Offers, Takes, Writing
  <2>2. BbBusy(fr, k, j, TRUE) /\ VerRests /\ RegRests /\ w = 0
    BY <1>3 DEF Busy
  <2>3. VerRests' /\ RegRests'
    BY <2>1, <2>2, VerResting, RegResting
  <2>5. /\ Told(fr, j, ob) /\ ~Ends(ob)
        /\ open => BbBusy(fr, k2, j2, TRUE)'
        /\ ~open => BbBusy(fr, k2, j2, FALSE)'
    <3>1. BbListened(fr, j, ob, k2, j2, open)
      BY <2>1, <2>2, BbListens, Zenon
    <3> QED
      BY <3>1 DEF BbListened
  <2>6. (open => Busy(h, fr, k2, j2, w, TRUE)') /\ (~open => Busy(h, fr, k2, j2, w, FALSE)')
    BY <1>3, <2>2, <2>3, <2>5 DEF Busy
  <2> QED
    BY <1>3, <2>1, <2>5, <2>6 DEF Wrote
<1>4. CASE h = "REG"
  <2>1. /\ RegEdge(mIb, q, rdy, Rdat[reg.addr], RegErr) /\ VerEdge(<<>>, TRUE) /\ BbEdge(<<>>, TRUE, rdy)
        /\ ob = RegOb /\ (hr <=> RegRdyIb(rdy))
        /\ Writing("REG", mIb, rdy, wr)
    BY <1>4 DEF Edges, Offers, Takes
  <2>2. RegBusy(fr, k, j, w, TRUE) /\ VerRests /\ BbRests
    BY <1>4 DEF Busy
  <2>3. VerRests' /\ BbRests'
    BY <2>1, <2>2, VerResting, BbResting
  <2>5. PICK w2 : /\ RegOb = <<>> /\ j = 0 /\ Wrote(fr, w, wr, w2)
                  /\ open => RegBusy(fr, k2, j, w2, TRUE)'
                  /\ ~open => RegBusy(fr, k2, j, w2, FALSE)'
    BY <2>1, <2>2, RegListens, Zenon
  <2>6. j2 = j /\ Told(fr, j, ob) /\ ~Ends(ob)
    BY <2>1, <2>5 DEF Told, Ends, Hears
  <2>7. (open => Busy(h, fr, k2, j2, w2, TRUE)') /\ (~open => Busy(h, fr, k2, j2, w2, FALSE)')
    BY <1>4, <2>3, <2>5, <2>6 DEF Busy
  <2> QED
    BY <2>1, <2>5, <2>6, <2>7 DEF Wrote
<1> QED
  BY <1>1, <1>2, <1>3, <1>4

\* It replies, the others rest.
LEMMA AllTell ==
  ASSUME HandlersTypeOK, NEW fr \in Seq(Byte), fr # <<>>, NEW h, h = Handler(fr[1]), h # "NONE",
         NEW k, NEW k2, NEW j, NEW w, Busy(h, fr, k, j, w, FALSE), NEW q \in BOOLEAN, NEW rdy \in BOOLEAN,
         Edges(h, <<>>, q, rdy), NEW ob, Offers(h, <<>>, ob), NEW wr, Writing(h, <<>>, rdy, wr),
         NEW gone \in BOOLEAN, gone <=> ob # <<>> /\ q, NEW j2, gone => j2 = j + 1, ~gone => j2 = j
  PROVE  Tells(h, fr, j, w, wr, ob, gone, k2, j2)
<1> USE DEF Tells
<1>1. h \in {"VERSION", "BITBANG", "REG"}
  BY Selects
<1> USE DEF HandlersTypeOK
<1>2. CASE h = "VERSION"
  <2>1. /\ VerEdge(<<>>, q) /\ BbEdge(<<>>, TRUE, rdy) /\ RegEdge(<<>>, TRUE, rdy, Rdat[reg.addr], RegErr)
        /\ ob = VerOb(<<>>) /\ wr = <<>> /\ Cmd[fr[1]] = "VERSION"
    BY <1>2, Selects DEF Edges, Offers, Writing
  <2>2. VerBusy(j, FALSE) /\ BbRests /\ RegRests /\ w = 0
    BY <1>2 DEF Busy
  <2>3. BbRests' /\ RegRests'
    BY <2>1, <2>2, BbResting, RegResting
  <2>4. /\ ob # <<>> /\ Told(fr, j, ob)
        /\ ~q => VerBusy(j, FALSE)'
        /\ q /\ ob[1].lst => VerRests'
        /\ q /\ ~ob[1].lst => VerBusy(j + 1, FALSE)'
    BY <2>1, <2>2, VerTells, Zenon
  <2>5. ~(gone /\ Ends(ob)) => VerBusy(j2, FALSE)'
    BY <2>4 DEF Ends
  <2>6. ~(gone /\ Ends(ob)) => Busy(h, fr, k2, j2, w, FALSE)'
    BY <1>2, <2>2, <2>3, <2>5 DEF Busy
  <2>7. gone /\ Ends(ob) => AllRest' /\ w = Len(Writes(fr))
    BY <1>2, <2>2, <2>3, <2>4, NoWrites DEF Ends, AllRest
  <2> QED
    BY <2>1, <2>4, <2>6, <2>7
<1>3. CASE h = "BITBANG"
  <2>1. /\ BbEdge(<<>>, q, rdy) /\ VerEdge(<<>>, TRUE) /\ RegEdge(<<>>, TRUE, rdy, Rdat[reg.addr], RegErr)
        /\ ob = BbOb(<<>>) /\ wr = <<>> /\ Cmd[fr[1]] = "ECHO"
    BY <1>3, Selects DEF Edges, Offers, Writing
  <2>2. BbBusy(fr, k, j, FALSE) /\ VerRests /\ RegRests /\ w = 0
    BY <1>3 DEF Busy
  <2>3. VerRests' /\ RegRests'
    BY <2>1, <2>2, VerResting, RegResting
  <2>4. /\ ob # <<>> /\ ob[1].lst /\ Told(fr, j, ob)
        /\ ~q => BbBusy(fr, k, j, FALSE)'
        /\ q => BbRests'
    BY <2>1, <2>2, BbTells, Zenon
  <2>5. ~(gone /\ Ends(ob)) => BbBusy(fr, k2, j2, FALSE)'
    BY <2>4 DEF Ends, BbBusy
  <2>6. ~(gone /\ Ends(ob)) => Busy(h, fr, k2, j2, w, FALSE)'
    BY <1>3, <2>2, <2>3, <2>5 DEF Busy
  <2>7. gone /\ Ends(ob) => AllRest' /\ w = Len(Writes(fr))
    BY <1>3, <2>2, <2>3, <2>4, NoWrites DEF Ends, AllRest
  <2> QED
    BY <2>1, <2>4, <2>6, <2>7
<1>4. CASE h = "REG"
  <2>1. /\ RegEdge(<<>>, q, rdy, Rdat[reg.addr], RegErr) /\ VerEdge(<<>>, TRUE) /\ BbEdge(<<>>, TRUE, rdy)
        /\ ob = RegOb
        /\ wr = IF RegWrite(<<>>) /\ rdy /\ ~RegErr THEN <<<<reg.addr, <<>>[1].dat>>>> ELSE <<>>
    BY <1>4 DEF Edges, Offers, Writing
  <2>2. RegBusy(fr, k, j, w, FALSE) /\ VerRests /\ BbRests
    BY <1>4 DEF Busy
  <2>3. VerRests' /\ BbRests'
    BY <2>1, <2>2, VerResting, BbResting
  <2>4. /\ Told(fr, j, ob) /\ ~RegWrite(<<>>)
        /\ ~(gone /\ Ends(ob)) => RegBusy(fr, k, j2, w, FALSE)'
        /\ gone /\ Ends(ob) => RegRests'
    BY <2>1, <2>2, RegTold, Zenon
  <2>5. ~(gone /\ Ends(ob)) => Busy(h, fr, k2, j2, w, FALSE)'
    BY <1>4, <2>3, <2>4 DEF Busy, RegBusy
  <2>6. w = Len(Writes(fr))
    BY <2>2 DEF RegBusy, RegTells
  <2> QED
    BY <2>1, <2>3, <2>4, <2>5, <2>6 DEF AllRest
<1> QED
  BY <1>1, <1>2, <1>3, <1>4

-----------------------------------------------------------------------------
(* The multiplexer: where it is in the frames, in each of its states. *)

\* The mux is at frame c: what comes next from the host is what follows k bytes
\* of frame f, what goes next is what follows j bytes of the reply to frame g,
\* and w registers were written for frame c.
AtIdle(c, f, k, g, j, w) ==
  mux.state = "IDLE" /\ f = c /\ k = 0 /\ g = c /\ j = 0 /\ w = 0 /\ AllRest

\* The mux holds the command byte of frame c and looks for its handler.
AtCmd(F, c, f, k, g, j, w) ==
  /\ mux.state = "CMD" /\ mux.obLstSeen = FALSE
  /\ Requested(F, c, 0, <<mux.cmd>>)
  /\ f = NextF(c, <<mux.cmd>>) /\ k = NextK(0, <<mux.cmd>>)
  /\ g = c /\ j = 0 /\ w = 0 /\ AllRest

\* The rest of the request goes to the handler.
AtFwd(F, c, f, k, g, j, w) ==
  /\ mux.state = "FWD" /\ mux.obLstSeen = FALSE /\ mux.cmd.lst = FALSE
  /\ F[c] # <<>> /\ mux.cmd.dat = F[c][1] /\ Handler(F[c][1]) # "NONE"
  /\ f = c /\ k \in 1 .. Len(F[c]) - 1
  /\ g = c /\ Busy(Handler(F[c][1]), F[c], k, j, w, TRUE)

\* The request is with the handler, whose reply is not complete.
AtWai(F, c, f, k, g, j, w) ==
  /\ mux.state = "WAI" /\ mux.obLstSeen = FALSE
  /\ F[c] # <<>> /\ mux.cmd.dat = F[c][1] /\ Handler(F[c][1]) # "NONE"
  /\ f = c + 1 /\ k = 0 /\ c < Len(F)
  /\ g = c /\ Busy(Handler(F[c][1]), F[c], 0, j, w, FALSE)

\* Nothing serves the request: it is drained and answered with CMD_ERROR.
AtErr(F, c, f, k, g, j, w) ==
  /\ mux.state = "ERR"
  /\ F[c] # <<>> /\ mux.cmd.dat = F[c][1] /\ Handler(F[c][1]) = "NONE"
  /\ mux.cmd.lst => f = c + 1 /\ k = 0 /\ c < Len(F)
  /\ ~mux.cmd.lst => f = c /\ k \in 1 .. Len(F[c]) - 1
  /\ mux.obLstSeen => g = c + 1
  /\ ~mux.obLstSeen => g = c
  /\ j = 0 /\ w = 0 /\ AllRest

\* The mux in one of its states (CommandMux).
Middle(F, c, f, k, g, j, w) ==
  /\ c \in 1 .. Len(F)
  /\ \/ AtIdle(c, f, k, g, j, w)
     \/ AtCmd(F, c, f, k, g, j, w)
     \/ AtFwd(F, c, f, k, g, j, w)
     \/ AtWai(F, c, f, k, g, j, w)
     \/ AtErr(F, c, f, k, g, j, w)

\* The mux stays at frame c or goes on to the next one.
Logs(F, c, w, wr, c2, w2) ==
  \/ c2 = c /\ Wrote(F[c], w, wr, w2)
  \/ c2 = c + 1 /\ w2 = 0 /\ wr = <<>> /\ w = Len(Writes(F[c])) /\ c < Len(F)

\* What the mux does with the handlers.
Ports(mIb, q2, rdy, hob, hr, wr) ==
  /\ Edges(sel, mIb, q2, rdy) /\ Offers(sel, mIb, hob) /\ Takes(sel, q2, rdy, hr)
  /\ Writing(sel, mIb, rdy, wr)

\* The ports of the mux are those of the selected handler.
LEMMA HasPorts ==
  ASSUME MuxTypeOK, NEW q \in BOOLEAN, NEW rdy \in BOOLEAN, NEW mIb, mIb = ToHandler(sel, ibBuf),
         NEW q2, q2 = HandlerRdyOb(sel, q), NEW wr,
         VerEdge(ToHandler("VERSION", ibBuf), HandlerRdyOb("VERSION", q)),
         BbEdge(ToHandler("BITBANG", ibBuf), HandlerRdyOb("BITBANG", q), rdy),
         RegEdge(ToHandler("REG", ibBuf), HandlerRdyOb("REG", q), rdy, Rdat[reg.addr], RegErr),
         q = OB!rdyIb,
         wr = LET toReg == ToHandler("REG", ibBuf)
              IN  IF RegWrite(toReg) /\ rdy /\ ~RegErr THEN <<<<reg.addr, toReg[1].dat>>>> ELSE <<>>
  PROVE  Ports(mIb, q2, rdy, HandlerOb, HandlerRdyIb(rdy), wr) /\ q2 \in BOOLEAN
         /\ HandlerRdyIb(rdy) \in BOOLEAN
<1>1. sel \in {"VERSION", "BITBANG", "REG", "NONE"}
  <2>1. mux.cmd.dat \in Byte
    BY DEF MuxTypeOK, Beat
  <2>2. Cmd[mux.cmd.dat] \in {"VERSION", "ECHO", "RD8", "WR8", "NOSUBCMD", "NONE"}
    BY <2>1, BusAssumption, RegsAssumption
  <2> QED
    BY <2>2 DEF sel, Handler
<1>2. \A h : h # sel => ToHandler(h, ibBuf) = <<>> /\ HandlerRdyOb(h, q) = TRUE
  BY DEF ToHandler, HandlerRdyOb
<1>3. q2 \in BOOLEAN
  BY DEF HandlerRdyOb
<1>4. HandlerRdyIb(rdy) \in BOOLEAN
  <2>1. \A x \in BOOLEAN : VerRdyIb(x) \in BOOLEAN
    BY DEF VerRdyIb
  <2>2. \A x \in BOOLEAN : BbRdyIb(x, rdy) \in BOOLEAN
    BY DEF BbRdyIb, rrdy
  <2>3. RegRdyIb(rdy) \in BOOLEAN
    BY DEF RegRdyIb
  <2>4. q2 = HandlerRdyOb(sel, OB!rdyIb)
    OBVIOUS
  <2> QED
    BY <1>3, <2>1, <2>2, <2>3, <2>4 DEF HandlerRdyIb
<1>5. Edges(sel, mIb, q2, rdy)
  BY <1>1, <1>2 DEF Edges
<1>6. Offers(sel, mIb, HandlerOb)
  BY DEF Offers, HandlerOb
<1>7. Takes(sel, q2, rdy, HandlerRdyIb(rdy))
  BY DEF Takes, HandlerRdyIb
<1>8. Writing(sel, mIb, rdy, wr)
  BY <1>1, <1>2 DEF Writing, RegWrite
<1> QED
  BY <1>3, <1>4, <1>5, <1>6, <1>7, <1>8 DEF Ports

-----------------------------------------------------------------------------
(* The multiplexer: steps in IDLE and CMD. *)

\* An edge of the mux: it takes what the pipeline offers if r, and offers ob.
Muxes(hob, hr, q, r, ob) ==
  /\ MuxEdge(ibBuf, hr, hob, q) /\ r = muxRdyIb(hr) /\ ob = muxOb(hob)
  /\ hr \in BOOLEAN /\ q \in BOOLEAN
  /\ MuxTypeOK /\ HandlersTypeOK /\ ibBuf \in Bus(Beat)

\* What follows an edge of the mux: it stays at its frame or goes on to the next.
MuxStep(F, c, g, j, w, wr, ob, f2, k2, g2, j2) ==
  /\ Replied(F, g, j, ob)
  /\ \E c2, w2 : Middle(F, c2, f2, k2, g2, j2, w2)' /\ Logs(F, c, w, wr, c2, w2)

\* Every frame that is followed by another is not empty.
LEMMA FrameOf ==
  ASSUME NEW F, Frames(F), NEW c \in 1 .. Len(F)
  PROVE  /\ F[c] \in Seq(Byte) /\ Len(F) \in Nat
         /\ c < Len(F) => F[c] # <<>>
BY LenProperties, ElementOfSeq DEF Frames

\* The record of the mux is that of its fields.
LEMMA MuxFields ==
  ASSUME MuxTypeOK
  PROVE  /\ mux = [state |-> mux.state, cmd |-> mux.cmd, obLstSeen |-> mux.obLstSeen]
         /\ mux.state \in {"IDLE", "CMD", "FWD", "WAI", "ERR"} /\ mux.cmd \in Beat
         /\ mux.obLstSeen \in BOOLEAN
         /\ mux.cmd = [dat |-> mux.cmd.dat, lst |-> mux.cmd.lst] /\ mux.cmd.lst \in BOOLEAN
BY DEF MuxTypeOK, Beat

\* The mux takes the command byte of the next frame.
LEMMA IdleStep ==
  ASSUME NEW F, Frames(F), NEW c \in 1 .. Len(F), NEW f, NEW k, NEW g, NEW j, NEW w,
         AtIdle(c, f, k, g, j, w), Requested(F, f, k, ibBuf),
         NEW hob, NEW hr, NEW q, NEW r, NEW ob, Muxes(hob, hr, q, r, ob),
         NEW rdy, NEW wr, NEW q2, q2 = HandlerRdyOb(sel, q), Ports(ToHandler(sel, ibBuf), q2, rdy, hob, hr, wr),
         NEW f2, NEW k2, NEW g2, NEW j2, Moved(r, f, k, ibBuf, f2, k2), Moved(q, g, j, ob, g2, j2)
  PROVE  MuxStep(F, c, g, j, w, wr, ob, f2, k2, g2, j2)
<1>1. mux.state = "IDLE" /\ f = c /\ k = 0 /\ g = c /\ j = 0 /\ w = 0 /\ AllRest
  BY DEF AtIdle
<1>2. /\ MuxEdge(ibBuf, hr, hob, q) /\ r = muxRdyIb(hr) /\ ob = muxOb(hob)
      /\ MuxTypeOK /\ HandlersTypeOK /\ ibBuf \in Bus(Beat) /\ q \in BOOLEAN
  BY DEF Muxes
<1>3. r /\ ob = <<>> /\ q2 = TRUE /\ ToHandler(sel, ibBuf) = <<>>
  BY <1>1, <1>2 DEF muxRdyIb, muxOb, Replying, HandlerRdyOb, ToHandler
<1>4. /\ f2 = NextF(c, ibBuf) /\ k2 = NextK(0, ibBuf)
      /\ g2 = c /\ j2 = 0
  BY <1>1, <1>2, <1>3 DEF Moved, NextF, NextK
<1>5. AllRest' /\ wr = <<>>
  <2>1. Edges(sel, <<>>, TRUE, rdy) /\ Writing(sel, <<>>, rdy, wr)
    BY <1>3 DEF Ports
  <2>2. AllRest'
    BY <1>1, <1>2, <2>1, AllResting
  <2>3. wr = <<>>
    BY <2>1 DEF Writing, RegWrite
  <2> QED
    BY <2>2, <2>3
<1>6. Replied(F, g, j, ob)
  BY <1>3 DEF Replied
<1>7. mux' = IF ibBuf = <<>> THEN [mux EXCEPT !.obLstSeen = FALSE]
             ELSE [state |-> "CMD", cmd |-> ibBuf[1], obLstSeen |-> FALSE]
  BY <1>1, <1>2 DEF MuxEdge, IdleEdge, CmdEdge, FwdEdge, WaiEdge, ErrEdge
<1>8. Middle(F, c, f2, k2, g2, j2, 0)'
  <2>1. CASE ibBuf = <<>>
    <3>1. f2 = c /\ k2 = 0
      BY <1>4, <2>1 DEF NextF, NextK
    <3>2. mux'.state = "IDLE"
      BY <1>1, <1>2, <1>7, <2>1, MuxFields
    <3> QED
      BY <1>4, <1>5, <3>1, <3>2 DEF Middle, AtIdle
  <2>2. CASE ibBuf # <<>>
    <3>1. mux' = [state |-> "CMD", cmd |-> ibBuf[1], obLstSeen |-> FALSE] /\ ibBuf = <<ibBuf[1]>>
      BY <1>2, <1>7, <2>2 DEF Bus
    <3>2. mux'.state = "CMD" /\ mux'.obLstSeen = FALSE /\ <<mux'.cmd>> = ibBuf
      BY <3>1
    <3>3. Requested(F, c, 0, <<mux'.cmd>>)
      BY <1>1, <3>2
    <3>4. f2 = NextF(c, <<mux'.cmd>>) /\ k2 = NextK(0, <<mux'.cmd>>)
      BY <1>4, <3>2
    <3>5. AtCmd(F, c, f2, k2, g2, j2, 0)'
      BY <1>4, <1>5, <3>2, <3>3, <3>4 DEF AtCmd
    <3> QED
      BY <3>5 DEF Middle
  <2> QED
    BY <2>1, <2>2
<1>9. Logs(F, c, w, wr, c, 0)
  BY <1>1, <1>5 DEF Logs, Wrote
<1> QED
  BY <1>6, <1>8, <1>9 DEF MuxStep

\* A beat of the reply to the frame that the mux is at.
LEMMA TellsReply ==
  ASSUME NEW F, NEW c \in 1 .. Len(F), F[c] # <<>>, NEW j, NEW ob, Told(F[c], j, ob),
         c = Len(F) /\ ob # <<>> => Cmd[F[c][1]] \in {"VERSION", "ECHO", "NONE"},
         Ends(ob) => MayEnd(F, c)
  PROVE  Replied(F, c, j, ob)
BY DEF Replied, Told, Settled, Ends

\* The commands of the other handlers.
LEMMA NotOfRegs ==
  ASSUME NEW fr \in Seq(Byte), fr # <<>>, Handler(fr[1]) # "REG"
  PROVE  Cmd[fr[1]] \in {"VERSION", "ECHO", "NONE"}
BY Selects

\* The mux gives the command byte to its handler, or has none.
LEMMA CmdStep ==
  ASSUME NEW F, Frames(F), NEW c \in 1 .. Len(F), NEW f, NEW k, NEW g, NEW j, NEW w,
         AtCmd(F, c, f, k, g, j, w), Requested(F, f, k, ibBuf),
         NEW hob, NEW hr, NEW q, NEW r, NEW ob, Muxes(hob, hr, q, r, ob),
         NEW rdy \in BOOLEAN, NEW wr, NEW q2, q2 = HandlerRdyOb(sel, q), Ports(ToHandler(sel, ibBuf), q2, rdy, hob, hr, wr),
         NEW f2, NEW k2, NEW g2, NEW j2, Moved(r, f, k, ibBuf, f2, k2), Moved(q, g, j, ob, g2, j2)
  PROVE  MuxStep(F, c, g, j, w, wr, ob, f2, k2, g2, j2)
<1>1. /\ mux.state = "CMD" /\ mux.obLstSeen = FALSE
      /\ Requested(F, c, 0, <<mux.cmd>>)
      /\ f = NextF(c, <<mux.cmd>>) /\ k = NextK(0, <<mux.cmd>>)
      /\ g = c /\ j = 0 /\ w = 0 /\ AllRest
  BY DEF AtCmd
<1>2. /\ MuxEdge(ibBuf, hr, hob, q) /\ r = muxRdyIb(hr) /\ ob = muxOb(hob)
      /\ MuxTypeOK /\ HandlersTypeOK /\ ibBuf \in Bus(Beat) /\ hr \in BOOLEAN /\ q \in BOOLEAN
  BY DEF Muxes
<1>3. ~r /\ q2 = q /\ ToHandler(sel, ibBuf) = <<mux.cmd>>
  BY <1>1, <1>2 DEF muxRdyIb, Replying, HandlerRdyOb, ToHandler
<1>4. f2 = f /\ k2 = k
  BY <1>3 DEF Moved
<1>5. PICK fr : fr = F[c]
  OBVIOUS
<1>6. fr \in Seq(Byte) /\ Len(F) \in Nat
  BY <1>5, FrameOf
<1>7. PICK cmd \in Beat : cmd = mux.cmd
  BY <1>2, MuxFields
<1>8. /\ <<cmd>> # <<>> /\ <<cmd>>[1] = cmd /\ 1 \in 1 .. Len(fr) /\ fr # <<>> /\ cmd.dat = fr[1]
      /\ cmd.lst => 1 = Len(fr) /\ c < Len(F)
      /\ ~cmd.lst => 1 < Len(fr)
  <2>1. <<cmd>> # <<>> /\ <<cmd>>[1] = cmd /\ 0 + 1 = 1
    OBVIOUS
  <2>2. /\ 1 \in 1 .. Len(fr) /\ cmd.dat = fr[1]
        /\ IF cmd.lst THEN 1 = Len(fr) /\ c < Len(F) ELSE 1 < Len(fr)
    BY <1>1, <1>5, <1>7, <2>1 DEF Requested
  <2>3. fr # <<>>
    BY <1>6, <2>2, EmptySeq
  <2> QED
    BY <2>1, <2>2, <2>3
<1>9. PICK h : h = Handler(fr[1]) /\ sel = h
  BY <1>7, <1>8 DEF sel
<1>10. /\ cmd.lst => f = c + 1 /\ k = 0
       /\ ~cmd.lst => f = c /\ k = 1
  BY <1>1, <1>7, <1>8 DEF NextF, NextK
<1>11. Edges(h, <<cmd>>, q, rdy) /\ Offers(h, <<cmd>>, hob) /\ Takes(h, q, rdy, hr) /\ Writing(h, <<cmd>>, rdy, wr)
  BY <1>3, <1>7, <1>9 DEF Ports
<1>12. \A seen, s : mux' = [mux EXCEPT !.obLstSeen = seen, !.state = s] =>
         mux'.obLstSeen = seen /\ mux'.state = s /\ mux'.cmd = cmd
  BY <1>2, <1>7, MuxFields
<1>13. mux' = [mux EXCEPT !.obLstSeen = mux.obLstSeen \/ (selOK /\ LstSeen(hob, q)),
                          !.state = IF ~selOK THEN "ERR"
                                    ELSE IF hr THEN (IF ~mux.cmd.lst THEN "FWD"
                                                     ELSE IF mux.obLstSeen \/ (selOK /\ LstSeen(hob, q))
                                                          THEN "IDLE" ELSE "WAI")
                                    ELSE mux.state]
  BY <1>1, <1>2 DEF MuxEdge, IdleEdge, CmdEdge, FwdEdge, WaiEdge, ErrEdge
<1>14. CASE h = "NONE"
  <2>1. ~selOK
    BY <1>9, <1>14 DEF selOK
  <2>2. ob = <<>>
    BY <1>1, <1>2, <2>1 DEF muxOb
  <2>3. g2 = c /\ j2 = 0
    BY <1>1, <1>2, <2>2 DEF Moved, NextF, NextK
  <2>4. mux'.state = "ERR" /\ mux'.obLstSeen = FALSE /\ mux'.cmd = cmd
    BY <1>1, <1>12, <1>13, <2>1
  <2>5. AllRest' /\ wr = <<>>
    <3>1. Edges(h, <<>>, TRUE, rdy)
      BY <1>11, <1>14 DEF Edges
    <3>2. AllRest'
      BY <1>1, <1>2, <3>1, AllResting
    <3> QED
      BY <1>11, <1>14, <3>2 DEF Writing
  <2>6. AtErr(F, c, f2, k2, g2, j2, 0)'
    BY <1>4, <1>5, <1>6, <1>8, <1>9, <1>10, <1>14, <2>3, <2>4, <2>5 DEF AtErr
  <2>7. Logs(F, c, w, wr, c, 0) /\ Replied(F, g, j, ob)
    BY <1>1, <2>2, <2>5 DEF Logs, Wrote, Replied
  <2> QED
    BY <2>6, <2>7 DEF MuxStep, Middle
<1>15. CASE h # "NONE"
  <2>1. selOK /\ ob = hob
    BY <1>1, <1>2, <1>9, <1>15 DEF selOK, muxOb, Replying
  <2>2. Asked(fr, 0, <<cmd>>)
    <3>1. Len(fr) \in Nat /\ 0 + 1 = 1
      BY <1>6, LenProperties
    <3>2. cmd.lst <=> 1 = Len(fr)
      <4>1. cmd.lst => 1 = Len(fr)
        BY <1>8, Zenon
      <4>2. ~cmd.lst => 1 < Len(fr)
        BY <1>8, Zenon
      <4>3. 1 < Len(fr) => ~(1 = Len(fr))
        <5>1. \A n \in Nat : 1 < n => ~(1 = n)
          OBVIOUS
        <5> QED
          BY <3>1, <5>1
      <4> QED
        BY <4>1, <4>2, <4>3, Zenon
    <3> QED
      BY <1>8, <3>1, <3>2 DEF Asked
  <2>3. /\ Told(fr, 0, ob) /\ wr = <<>>
        /\ h = "REG" => ob = <<>>
        /\ Ends(ob) => cmd.lst
        /\ ~hr => AllRest' /\ ~(ob # <<>> /\ q)
        /\ hr /\ q /\ Ends(ob) => AllRest' /\ cmd.lst /\ Len(Writes(fr)) = 0
        /\ hr /\ q /\ ob # <<>> /\ ~Ends(ob) => Busy(h, fr, 1, 1, 0, ~cmd.lst)'
        /\ hr /\ ~(q /\ ob # <<>>) => Busy(h, fr, 1, 0, 0, ~cmd.lst)'
    <3>1. /\ HandlersTypeOK /\ AllRest /\ fr \in Seq(Byte) /\ fr # <<>> /\ q \in BOOLEAN
          /\ Offers(h, <<cmd>>, ob)
      BY <1>1, <1>2, <1>6, <1>8, <1>11, <2>1
    <3>2. Starts(h, fr, cmd, q, hr, ob, wr)
      BY <1>9, <1>11, <1>15, <2>2, <3>1, AllStart, Zenon
    <3> QED
      BY <3>2 DEF Starts
  <2>4. Replied(F, g, j, ob)
    <3>1. ob # <<>> => Cmd[fr[1]] \in {"VERSION", "ECHO", "NONE"}
      BY <1>6, <1>8, <1>9, <2>3, NotOfRegs
    <3>2. Ends(ob) => MayEnd(F, c)
      BY <1>8, <2>3 DEF MayEnd
    <3> QED
      BY <1>1, <1>5, <1>8, <2>3, <3>1, <3>2, TellsReply
  <2>5. PICK seen \in BOOLEAN : seen <=> q /\ Ends(ob)
    OBVIOUS
  <2>6. LstSeen(hob, q) <=> seen
    BY <2>1, <2>5 DEF LstSeen, Ends
  <2>7. /\ mux'.cmd = cmd /\ (mux'.obLstSeen <=> seen) /\ mux'.obLstSeen \in BOOLEAN
        /\ ~hr => mux'.state = "CMD"
        /\ hr /\ ~cmd.lst => mux'.state = "FWD"
        /\ hr /\ cmd.lst /\ seen => mux'.state = "IDLE"
        /\ hr /\ cmd.lst /\ ~seen => mux'.state = "WAI"
    <3>1. (mux.obLstSeen \/ (selOK /\ LstSeen(hob, q))) = seen
      BY <1>1, <2>1, <2>5, <2>6
    <3> QED
      BY <1>1, <1>7, <1>12, <1>13, <2>1, <3>1
  <2>8. /\ q /\ Ends(ob) => g2 = c + 1 /\ j2 = 0
        /\ q /\ ob # <<>> /\ ~Ends(ob) => g2 = c /\ j2 = 1
        /\ ~(q /\ ob # <<>>) => g2 = c /\ j2 = 0
    BY <1>1, <1>2 DEF Moved, NextF, NextK, Ends
  <2>9. CASE ~hr
    <3>1. ~seen /\ g2 = c /\ j2 = 0 /\ AllRest'
      BY <2>3, <2>5, <2>8, <2>9 DEF Ends
    <3>2. mux'.state = "CMD" /\ mux'.obLstSeen = FALSE /\ mux'.cmd = mux.cmd
      BY <1>7, <2>7, <2>9, <3>1
    <3>3. AtCmd(F, c, f2, k2, g2, j2, 0)'
      BY <1>1, <1>4, <3>1, <3>2 DEF AtCmd
    <3>4. Logs(F, c, w, wr, c, 0)
      BY <1>1, <2>3 DEF Logs, Wrote
    <3> QED
      BY <2>4, <3>3, <3>4 DEF MuxStep, Middle
  <2>10. CASE hr /\ seen
    <3>1. cmd.lst /\ AllRest' /\ Len(Writes(fr)) = 0 /\ g2 = c + 1 /\ j2 = 0
      BY <2>3, <2>5, <2>8, <2>10
    <3>2. mux'.state = "IDLE" /\ f2 = c + 1 /\ k2 = 0 /\ c + 1 \in 1 .. Len(F)
      BY <1>4, <1>6, <1>8, <1>10, <2>7, <2>10, <3>1
    <3>3. Middle(F, c + 1, f2, k2, g2, j2, 0)'
      BY <3>1, <3>2 DEF Middle, AtIdle
    <3>4. Logs(F, c, w, wr, c + 1, 0)
      BY <1>1, <1>5, <1>8, <2>3, <3>1 DEF Logs
    <3> QED
      BY <2>4, <3>3, <3>4 DEF MuxStep
  <2>11. CASE hr /\ ~seen
    <3>1. g2 = c /\ Busy(h, fr, 1, j2, 0, ~cmd.lst)' /\ mux'.obLstSeen = FALSE /\ mux'.cmd = cmd
      <4>1. CASE q /\ ob # <<>>
        BY <2>3, <2>5, <2>7, <2>8, <2>11, <4>1
      <4>2. CASE ~(q /\ ob # <<>>)
        BY <2>3, <2>5, <2>7, <2>8, <2>11, <4>2
      <4> QED
        BY <4>1, <4>2
    <3>2. Logs(F, c, w, wr, c, 0)
      BY <1>1, <2>3 DEF Logs, Wrote
    <3>3. CASE cmd.lst
      <4>1. mux'.state = "WAI" /\ f2 = c + 1 /\ k2 = 0 /\ c < Len(F)
        BY <1>4, <1>8, <1>10, <2>7, <2>11, <3>3
      <4>2. Busy(h, fr, 0, j2, 0, FALSE)'
        BY <3>1, <3>3 DEF Busy, VerBusy, BbBusy, RegBusy
      <4>3. AtWai(F, c, f2, k2, g2, j2, 0)'
        BY <1>5, <1>8, <1>9, <1>15, <3>1, <4>1, <4>2 DEF AtWai
      <4> QED
        BY <2>4, <3>2, <4>3 DEF MuxStep, Middle
    <3>4. CASE ~cmd.lst
      <4>1. mux'.state = "FWD" /\ f2 = c /\ k2 = 1 /\ 1 \in 1 .. Len(fr) - 1 /\ cmd.lst = FALSE
        BY <1>4, <1>6, <1>7, <1>8, <1>10, <2>7, <2>11, <3>4 DEF Beat
      <4>2. Busy(h, fr, 1, j2, 0, TRUE)'
        BY <3>1, <3>4 DEF Busy, VerBusy, BbBusy, RegBusy
      <4>3. AtFwd(F, c, f2, k2, g2, j2, 0)'
        BY <1>5, <1>8, <1>9, <1>15, <3>1, <4>1, <4>2 DEF AtFwd
      <4> QED
        BY <2>4, <3>2, <4>3 DEF MuxStep, Middle
    <3> QED
      BY <3>3, <3>4
  <2> QED
    BY <2>5, <2>9, <2>10, <2>11, <1>2
<1> QED
  BY <1>14, <1>15

-----------------------------------------------------------------------------
(* The multiplexer: steps in FWD and WAI. *)

\* The mux forwards the rest of the request, and the reply meanwhile.
LEMMA FwdStep ==
  ASSUME NEW F, Frames(F), NEW c \in 1 .. Len(F), NEW f, NEW k, NEW g, NEW j, NEW w,
         AtFwd(F, c, f, k, g, j, w), Requested(F, f, k, ibBuf),
         NEW hob, NEW hr, NEW q, NEW r, NEW ob, Muxes(hob, hr, q, r, ob),
         NEW rdy \in BOOLEAN, NEW wr, NEW q2, q2 = HandlerRdyOb(sel, q), Ports(ToHandler(sel, ibBuf), q2, rdy, hob, hr, wr),
         NEW f2, NEW k2, NEW g2, NEW j2, Moved(r, f, k, ibBuf, f2, k2), Moved(q, g, j, ob, g2, j2)
  PROVE  MuxStep(F, c, g, j, w, wr, ob, f2, k2, g2, j2)
<1>1. /\ mux.state = "FWD" /\ mux.obLstSeen = FALSE /\ mux.cmd.lst = FALSE
      /\ F[c] # <<>> /\ mux.cmd.dat = F[c][1] /\ Handler(F[c][1]) # "NONE"
      /\ f = c /\ k \in 1 .. Len(F[c]) - 1
      /\ g = c /\ Busy(Handler(F[c][1]), F[c], k, j, w, TRUE)
  BY DEF AtFwd
<1>2. /\ MuxEdge(ibBuf, hr, hob, q) /\ r = muxRdyIb(hr) /\ ob = muxOb(hob)
      /\ MuxTypeOK /\ HandlersTypeOK /\ ibBuf \in Bus(Beat) /\ hr \in BOOLEAN /\ q \in BOOLEAN
  BY DEF Muxes
<1>3. (r <=> hr) /\ q2 = q /\ ToHandler(sel, ibBuf) = ibBuf
  BY <1>1, <1>2 DEF muxRdyIb, Replying, HandlerRdyOb, ToHandler
<1>5. PICK fr : fr = F[c]
  OBVIOUS
<1>6. fr \in Seq(Byte) /\ fr # <<>> /\ Len(F) \in Nat /\ Len(fr) \in Nat /\ k \in 1 .. Len(fr) - 1
  BY <1>1, <1>5, FrameOf, LenProperties
<1>9. PICK h : h = Handler(fr[1]) /\ sel = h /\ h # "NONE" /\ selOK
  BY <1>1, <1>5 DEF sel, selOK
<1>10. ob = hob
  BY <1>1, <1>2, <1>9 DEF muxOb, Replying
<1>11. Edges(h, ibBuf, q, rdy) /\ Offers(h, ibBuf, ob) /\ Takes(h, q, rdy, hr) /\ Writing(h, ibBuf, rdy, wr)
  BY <1>3, <1>9, <1>10 DEF Ports
<1>12. /\ ibBuf # <<>> => /\ k + 1 <= Len(fr) /\ k + 1 \in 1 .. Len(fr) /\ ibBuf[1].dat = fr[k + 1]
                          /\ ibBuf[1].lst => k + 1 = Len(fr) /\ c < Len(F)
                          /\ ~ibBuf[1].lst => k + 1 < Len(fr)
  <2>1. ibBuf # <<>> => /\ k + 1 \in 1 .. Len(fr) /\ ibBuf[1].dat = fr[k + 1]
                        /\ IF ibBuf[1].lst THEN k + 1 = Len(fr) /\ c < Len(F) ELSE k + 1 < Len(fr)
    BY <1>1, <1>5 DEF Requested
  <2> QED
    BY <1>6, <2>1
<1>13. Asked(fr, k, ibBuf)
  <2>1. \A n \in Nat : n < Len(fr) => ~(n = Len(fr))
    BY <1>6
  <2>2. k + 1 \in Nat
    BY <1>6
  <2>3. ibBuf # <<>> => (ibBuf[1].lst <=> k + 1 = Len(fr))
    BY <1>12, <2>1, <2>2, Zenon
  <2> QED
    BY <1>12, <2>3, Zenon DEF Asked
<1>14. PICK kk, jj, open : Hears(ibBuf, hr, ob, q, k, kk, j, jj, open)
  <2>1. PICK go \in BOOLEAN, gone \in BOOLEAN, open \in BOOLEAN :
          /\ go <=> ibBuf # <<>> /\ hr
          /\ gone <=> ob # <<>> /\ q
          /\ open <=> ~(ibBuf # <<>> /\ hr /\ Ends(ibBuf))
    OBVIOUS
  <2>2. PICK kk, jj : /\ go => kk = k + 1
                      /\ ~go => kk = k
                      /\ gone => jj = j + 1
                      /\ ~gone => jj = j
    OBVIOUS
  <2>3. Hears(ibBuf, hr, ob, q, k, kk, j, jj, open)
    BY <1>2, <2>1, <2>2 DEF Hears
  <2> QED
    BY <2>3, Zenon
<1>15. Listens(h, fr, j, w, wr, ob, kk, jj, open)
  <2>1. HandlersTypeOK /\ Busy(h, fr, k, j, w, TRUE) /\ ibBuf \in Bus(Beat) /\ q \in BOOLEAN /\ hr \in BOOLEAN
    BY <1>1, <1>2, <1>5, <1>9
  <2> QED
    BY <1>6, <1>9, <1>11, <1>13, <1>14, <2>1, AllListen, Zenon
<1>16. Told(fr, j, ob) /\ ~Ends(ob) /\ (h = "REG" => ob = <<>>)
  BY <1>15 DEF Listens
<1>17. PICK w2 : /\ Wrote(fr, w, wr, w2)
                 /\ open => Busy(h, fr, kk, jj, w2, TRUE)'
                 /\ ~open => Busy(h, fr, kk, jj, w2, FALSE)'
  BY <1>15, Zenon DEF Listens
<1>18. Replied(F, g, j, ob)
  <2>1. ob # <<>> => Cmd[fr[1]] \in {"VERSION", "ECHO", "NONE"}
    BY <1>6, <1>9, <1>16, NotOfRegs
  <2> QED
    BY <1>1, <1>5, <1>16, <2>1, TellsReply
<1>19. g2 = c /\ j2 = jj
  BY <1>1, <1>2, <1>14, <1>16 DEF Moved, NextF, NextK, Ends, Hears
<1>20. ~LstSeen(hob, q)
  BY <1>10, <1>16 DEF LstSeen, Ends
<1>21. mux' = [mux EXCEPT !.obLstSeen = FALSE,
                          !.state = IF hr /\ ibBuf # <<>> /\ ibBuf[1].lst THEN "WAI" ELSE "FWD"]
  BY <1>1, <1>2, <1>20, MuxFields DEF MuxEdge, IdleEdge, CmdEdge, FwdEdge, WaiEdge, ErrEdge
<1>22. Logs(F, c, w, wr, c, w2)
  BY <1>5, <1>17 DEF Logs
<1>23. CASE open
  <2>1. mux'.state = "FWD" /\ mux'.obLstSeen = FALSE /\ mux'.cmd = mux.cmd
    <3>1. ~(hr /\ ibBuf # <<>> /\ ibBuf[1].lst)
      BY <1>14, <1>23 DEF Hears, Ends
    <3> QED
      BY <1>2, <1>21, <3>1, MuxFields
  <2>2. f2 = c /\ k2 = kk /\ kk \in 1 .. Len(fr) - 1
    <3>1. CASE ibBuf # <<>> /\ hr
      <4>1. ~ibBuf[1].lst /\ kk = k + 1
        BY <1>14, <1>23, <3>1 DEF Hears, Ends
      <4>2. k + 1 \in 1 .. Len(fr) - 1
        BY <1>6, <1>12, <3>1, <4>1
      <4> QED
        BY <1>1, <1>3, <3>1, <4>1, <4>2 DEF Moved, NextF, NextK
    <3>2. CASE ~(ibBuf # <<>> /\ hr)
      BY <1>1, <1>3, <1>6, <1>14, <3>2 DEF Moved, NextF, NextK, Hears
    <3> QED
      BY <3>1, <3>2
  <2>3. AtFwd(F, c, f2, k2, g2, j2, w2)'
    BY <1>1, <1>5, <1>9, <1>17, <1>19, <1>23, <2>1, <2>2 DEF AtFwd
  <2> QED
    BY <1>18, <1>22, <2>3 DEF MuxStep, Middle
<1>24. CASE ~open
  <2>1. ibBuf # <<>> /\ hr /\ ibBuf[1].lst
    BY <1>14, <1>24 DEF Hears, Ends
  <2>2. mux'.state = "WAI" /\ mux'.obLstSeen = FALSE /\ mux'.cmd = mux.cmd
    BY <1>2, <1>21, <2>1, MuxFields
  <2>3. f2 = c + 1 /\ k2 = 0 /\ c < Len(F)
    BY <1>1, <1>3, <1>12, <2>1 DEF Moved, NextF, NextK
  <2>4. Busy(h, fr, 0, jj, w2, FALSE)'
    BY <1>17, <1>24 DEF Busy, VerBusy, BbBusy, RegBusy
  <2>5. AtWai(F, c, f2, k2, g2, j2, w2)'
    BY <1>1, <1>5, <1>9, <1>19, <2>2, <2>3, <2>4 DEF AtWai
  <2> QED
    BY <1>18, <1>22, <2>5 DEF MuxStep, Middle
<1> QED
  BY <1>23, <1>24

\* The mux waits for the end of the reply.
LEMMA WaiStep ==
  ASSUME NEW F, Frames(F), NEW c \in 1 .. Len(F), NEW f, NEW k, NEW g, NEW j, NEW w,
         AtWai(F, c, f, k, g, j, w), Requested(F, f, k, ibBuf),
         NEW hob, NEW hr, NEW q, NEW r, NEW ob, Muxes(hob, hr, q, r, ob),
         NEW rdy \in BOOLEAN, NEW wr, NEW q2, q2 = HandlerRdyOb(sel, q), Ports(ToHandler(sel, ibBuf), q2, rdy, hob, hr, wr),
         NEW f2, NEW k2, NEW g2, NEW j2, Moved(r, f, k, ibBuf, f2, k2), Moved(q, g, j, ob, g2, j2)
  PROVE  MuxStep(F, c, g, j, w, wr, ob, f2, k2, g2, j2)
<1>1. /\ mux.state = "WAI" /\ mux.obLstSeen = FALSE
      /\ F[c] # <<>> /\ mux.cmd.dat = F[c][1] /\ Handler(F[c][1]) # "NONE"
      /\ f = c + 1 /\ k = 0 /\ c < Len(F)
      /\ g = c /\ Busy(Handler(F[c][1]), F[c], 0, j, w, FALSE)
  BY DEF AtWai
<1>2. /\ MuxEdge(ibBuf, hr, hob, q) /\ r = muxRdyIb(hr) /\ ob = muxOb(hob)
      /\ MuxTypeOK /\ HandlersTypeOK /\ ibBuf \in Bus(Beat) /\ hr \in BOOLEAN /\ q \in BOOLEAN
  BY DEF Muxes
<1>3. ~r /\ q2 = q /\ ToHandler(sel, ibBuf) = <<>>
  BY <1>1, <1>2 DEF muxRdyIb, Replying, HandlerRdyOb, ToHandler
<1>4. f2 = c + 1 /\ k2 = 0
  BY <1>1, <1>3 DEF Moved
<1>5. PICK fr : fr = F[c]
  OBVIOUS
<1>6. fr \in Seq(Byte) /\ fr # <<>> /\ Len(F) \in Nat
  BY <1>1, <1>5, FrameOf
<1>9. PICK h : h = Handler(fr[1]) /\ sel = h /\ h # "NONE" /\ selOK
  BY <1>1, <1>5 DEF sel, selOK
<1>10. ob = hob
  BY <1>1, <1>2, <1>9 DEF muxOb, Replying
<1>11. Edges(h, <<>>, q, rdy) /\ Offers(h, <<>>, ob) /\ Writing(h, <<>>, rdy, wr)
  BY <1>3, <1>9, <1>10 DEF Ports
<1>12. PICK gone \in BOOLEAN : gone <=> ob # <<>> /\ q
  OBVIOUS
<1>13. PICK jj : (gone => jj = j + 1) /\ (~gone => jj = j)
  OBVIOUS
<1>14. Tells(h, fr, j, w, wr, ob, gone, 0, jj)
  <2>1. HandlersTypeOK /\ Busy(h, fr, 0, j, w, FALSE) /\ q \in BOOLEAN
    BY <1>1, <1>2, <1>5, <1>9
  <2> QED
    BY <1>6, <1>9, <1>11, <1>12, <1>13, <2>1, AllTell
<1>15. /\ Told(fr, j, ob) /\ wr = <<>>
       /\ ~(gone /\ Ends(ob)) => Busy(h, fr, 0, jj, w, FALSE)'
       /\ gone /\ Ends(ob) => AllRest' /\ w = Len(Writes(fr))
  BY <1>14 DEF Tells
<1>16. Replied(F, g, j, ob)
  BY <1>1, <1>5, <1>6, <1>15, TellsReply DEF MayEnd
<1>17. mux' = IF LstSeen(hob, q) THEN [mux EXCEPT !.state = "IDLE"] ELSE mux
  BY <1>1, <1>2 DEF MuxEdge, IdleEdge, CmdEdge, FwdEdge, WaiEdge, ErrEdge
<1>18. LstSeen(hob, q) <=> gone /\ Ends(ob)
  BY <1>10, <1>12 DEF LstSeen, Ends
<1>19. CASE gone /\ Ends(ob)
  <2>1. mux'.state = "IDLE" /\ g2 = c + 1 /\ j2 = 0 /\ c + 1 \in 1 .. Len(F)
    <3>1. mux'.state = "IDLE"
      BY <1>2, <1>17, <1>18, <1>19, MuxFields
    <3>2. g2 = c + 1 /\ j2 = 0
      BY <1>1, <1>12, <1>19 DEF Moved, NextF, NextK, Ends
    <3> QED
      BY <1>1, <1>6, <3>1, <3>2
  <2>2. Middle(F, c + 1, f2, k2, g2, j2, 0)'
    BY <1>4, <1>15, <1>19, <2>1 DEF Middle, AtIdle
  <2>3. Logs(F, c, w, wr, c + 1, 0)
    BY <1>1, <1>5, <1>15, <1>19 DEF Logs
  <2> QED
    BY <1>16, <2>2, <2>3 DEF MuxStep
<1>20. CASE ~(gone /\ Ends(ob))
  <2>1. mux' = mux
    BY <1>17, <1>18, <1>20
  <2>2. g2 = c /\ j2 = jj
    BY <1>1, <1>2, <1>12, <1>13, <1>20 DEF Moved, NextF, NextK, Ends
  <2>3. AtWai(F, c, f2, k2, g2, j2, w)'
    BY <1>1, <1>4, <1>5, <1>9, <1>15, <1>20, <2>1, <2>2 DEF AtWai
  <2>4. Logs(F, c, w, wr, c, w)
    BY <1>15 DEF Logs, Wrote
  <2> QED
    BY <1>16, <2>3, <2>4 DEF MuxStep, Middle
<1> QED
  BY <1>19, <1>20

-----------------------------------------------------------------------------
(* The multiplexer: steps in ERR, and all of them together. *)

\* The mux drains a request without a handler, and answers it.
LEMMA ErrStep ==
  ASSUME NEW F, Frames(F), NEW c \in 1 .. Len(F), NEW f, NEW k, NEW g, NEW j, NEW w,
         AtErr(F, c, f, k, g, j, w), Requested(F, f, k, ibBuf),
         NEW hob, NEW hr, NEW q, NEW r, NEW ob, Muxes(hob, hr, q, r, ob),
         NEW rdy \in BOOLEAN, NEW wr, NEW q2, q2 = HandlerRdyOb(sel, q), Ports(ToHandler(sel, ibBuf), q2, rdy, hob, hr, wr),
         NEW f2, NEW k2, NEW g2, NEW j2, Moved(r, f, k, ibBuf, f2, k2), Moved(q, g, j, ob, g2, j2)
  PROVE  MuxStep(F, c, g, j, w, wr, ob, f2, k2, g2, j2)
<1>1. /\ mux.state = "ERR"
      /\ F[c] # <<>> /\ mux.cmd.dat = F[c][1] /\ Handler(F[c][1]) = "NONE"
      /\ mux.cmd.lst => f = c + 1 /\ k = 0 /\ c < Len(F)
      /\ ~mux.cmd.lst => f = c /\ k \in 1 .. Len(F[c]) - 1
      /\ mux.obLstSeen => g = c + 1
      /\ ~mux.obLstSeen => g = c
      /\ j = 0 /\ w = 0 /\ AllRest
  BY DEF AtErr
<1>2. /\ MuxEdge(ibBuf, hr, hob, q) /\ r = muxRdyIb(hr) /\ ob = muxOb(hob)
      /\ MuxTypeOK /\ HandlersTypeOK /\ ibBuf \in Bus(Beat) /\ hr \in BOOLEAN /\ q \in BOOLEAN
  BY DEF Muxes
<1>3. PICK fr : fr = F[c]
  OBVIOUS
<1>4. fr \in Seq(Byte) /\ fr # <<>> /\ Len(F) \in Nat /\ Len(fr) \in Nat
  BY <1>1, <1>3, FrameOf, LenProperties
<1>5. PICK lst \in BOOLEAN, seen \in BOOLEAN : lst = mux.cmd.lst /\ seen = mux.obLstSeen
  BY <1>2, MuxFields
<1>6. (r <=> ~lst) /\ sel = "NONE" /\ ~selOK
  BY <1>1, <1>2, <1>5 DEF muxRdyIb, sel, selOK
<1>7. /\ seen => ob = <<>>
      /\ ~seen => ob = <<[dat |-> CMD_ERROR, lst |-> TRUE]>>
  BY <1>1, <1>2, <1>5, <1>6 DEF muxOb
<1>8. AllRest' /\ wr = <<>>
  <2>1. Edges(sel, <<>>, TRUE, rdy)
    BY <1>6 DEF Ports, Edges
  <2>2. AllRest'
    BY <1>1, <1>2, <2>1, AllResting
  <2> QED
    BY <1>6, <2>2 DEF Ports, Writing
<1>9. Cmd[fr[1]] = "NONE" /\ Reply(fr) = <<CMD_ERROR>>
  BY <1>1, <1>3, <1>4, Selects, ReplyCases
<1>10. Replied(F, g, j, ob)
  <2>1. CASE seen
    BY <1>7, <2>1 DEF Replied
  <2>2. CASE ~seen
    <3>1. ob # <<>> /\ ob[1].dat = CMD_ERROR /\ ob[1].lst = TRUE
      BY <1>7, <2>2
    <3>2. Len(Reply(fr)) = 1 /\ Reply(fr)[1] = CMD_ERROR /\ 0 + 1 = 1 /\ 1 \in 1 .. 1
      BY <1>9
    <3>3. Told(fr, 0, ob)
      BY <3>1, <3>2 DEF Told
    <3>4. Replied(F, c, 0, ob)
      BY <1>3, <1>4, <1>9, <3>3, TellsReply DEF MayEnd
    <3> QED
      BY <1>1, <1>5, <2>2, <3>4
  <2> QED
    BY <2>1, <2>2
<1>11. /\ seen \/ q => g2 = c + 1
       /\ ~(seen \/ q) => g2 = c
       /\ j2 = 0
  <2>1. CASE seen
    BY <1>1, <1>2, <1>5, <1>7, <2>1 DEF Moved, NextF, NextK
  <2>2. CASE ~seen
    <3>1. ob # <<>> /\ ob[1].lst = TRUE
      BY <1>7, <2>2
    <3> QED
      BY <1>1, <1>2, <1>5, <2>2, <3>1 DEF Moved, NextF, NextK
  <2> QED
    BY <2>1, <2>2
<1>12. PICK lst2 \in BOOLEAN, seen2 \in BOOLEAN :
         /\ lst2 <=> lst \/ (ibBuf # <<>> /\ ibBuf[1].lst)
         /\ seen2 <=> seen \/ q
  OBVIOUS
<1>13. /\ lst2 => f2 = c + 1 /\ k2 = 0 /\ c < Len(F)
       /\ ~lst2 => f2 = c /\ k2 \in 1 .. Len(fr) - 1
  <2>1. CASE lst
    BY <1>1, <1>5, <1>6, <1>12, <2>1 DEF Moved
  <2>2. CASE ~lst /\ ibBuf = <<>>
    BY <1>1, <1>3, <1>5, <1>6, <1>12, <2>2 DEF Moved, NextF, NextK
  <2>3. CASE ~lst /\ ibBuf # <<>>
    <3>1. f = c /\ k \in 1 .. Len(fr) - 1 /\ f2 = NextF(f, ibBuf) /\ k2 = NextK(k, ibBuf)
      BY <1>1, <1>3, <1>5, <1>6, <2>3 DEF Moved
    <3>2. /\ k + 1 \in 1 .. Len(fr)
          /\ ibBuf[1].lst => c < Len(F)
          /\ ~ibBuf[1].lst => k + 1 < Len(fr)
      BY <1>3, <2>3, <3>1 DEF Requested
    <3>3. (lst2 <=> ibBuf[1].lst)
      BY <1>12, <2>3
    <3>4. CASE lst2
      BY <2>3, <3>1, <3>2, <3>3, <3>4 DEF NextF, NextK
    <3>5. CASE ~lst2
      <4>1. f2 = c /\ k2 = k + 1
        BY <2>3, <3>1, <3>3, <3>5 DEF NextF, NextK
      <4>2. k + 1 \in 1 .. Len(fr) - 1
        BY <1>4, <3>1, <3>2, <3>3, <3>5
      <4> QED
        BY <3>5, <4>1, <4>2
    <3> QED
      BY <3>4, <3>5
  <2> QED
    BY <2>1, <2>2, <2>3
<1>14. mux' = [mux EXCEPT !.obLstSeen = mux.obLstSeen \/ q,
                          !.cmd.lst = mux.cmd.lst \/ (ibBuf # <<>> /\ ibBuf[1].lst),
                          !.state = IF mux.cmd.lst /\ mux.obLstSeen THEN "IDLE" ELSE mux.state]
  BY <1>1, <1>2 DEF MuxEdge, IdleEdge, CmdEdge, FwdEdge, WaiEdge, ErrEdge
<1>15. /\ mux'.obLstSeen = seen2 /\ mux'.cmd.lst = lst2 /\ mux'.cmd.dat = fr[1]
       /\ lst /\ seen => mux'.state = "IDLE"
       /\ ~(lst /\ seen) => mux'.state = "ERR"
  <2>1. (mux.obLstSeen \/ q) = seen2 /\ (mux.cmd.lst \/ (ibBuf # <<>> /\ ibBuf[1].lst)) = lst2
    BY <1>2, <1>5, <1>12
  <2>2. /\ mux'.obLstSeen = (mux.obLstSeen \/ q)
        /\ mux'.cmd.lst = (mux.cmd.lst \/ (ibBuf # <<>> /\ ibBuf[1].lst)) /\ mux'.cmd.dat = mux.cmd.dat
        /\ mux'.state = IF mux.cmd.lst /\ mux.obLstSeen THEN "IDLE" ELSE mux.state
    BY <1>2, <1>14, MuxFields
  <2> QED
    BY <1>1, <1>2, <1>3, <1>5, <1>12, <2>2
<1>16. CASE lst /\ seen
  <2>1. f2 = c + 1 /\ k2 = 0 /\ c < Len(F) /\ g2 = c + 1
    BY <1>11, <1>12, <1>13, <1>16
  <2>2. c + 1 \in 1 .. Len(F)
    BY <1>4, <2>1
  <2>3. Middle(F, c + 1, f2, k2, g2, j2, 0)'
    BY <1>8, <1>11, <1>15, <1>16, <2>1, <2>2 DEF Middle, AtIdle
  <2>4. Len(Writes(fr)) = 0
    BY <1>1, <1>3, <1>4, NoWrites
  <2>5. Logs(F, c, w, wr, c + 1, 0)
    BY <1>1, <1>3, <1>8, <2>1, <2>4 DEF Logs
  <2> QED
    BY <1>10, <2>3, <2>5 DEF MuxStep
<1>17. CASE ~(lst /\ seen)
  <2>1. /\ seen2 => g2 = c + 1
        /\ ~seen2 => g2 = c
    BY <1>11, <1>12
  <2>2. AtErr(F, c, f2, k2, g2, j2, 0)'
    BY <1>1, <1>3, <1>8, <1>11, <1>13, <1>15, <1>17, <2>1 DEF AtErr
  <2>3. Logs(F, c, w, wr, c, 0)
    BY <1>1, <1>8 DEF Logs, Wrote
  <2> QED
    BY <1>10, <2>2, <2>3 DEF MuxStep, Middle
<1> QED
  BY <1>16, <1>17

\* An edge of the mux in any of its states.
LEMMA ClkMux ==
  ASSUME NEW F, Frames(F), NEW c, NEW f, NEW k, NEW g, NEW j, NEW w,
         Middle(F, c, f, k, g, j, w), Requested(F, f, k, ibBuf),
         NEW hob, NEW hr, NEW q, NEW r, NEW ob, Muxes(hob, hr, q, r, ob),
         NEW rdy \in BOOLEAN, NEW wr, NEW q2, q2 = HandlerRdyOb(sel, q), Ports(ToHandler(sel, ibBuf), q2, rdy, hob, hr, wr),
         NEW f2, NEW k2, NEW g2, NEW j2, Moved(r, f, k, ibBuf, f2, k2), Moved(q, g, j, ob, g2, j2)
  PROVE  MuxStep(F, c, g, j, w, wr, ob, f2, k2, g2, j2)
<1>1. c \in 1 .. Len(F)
  BY DEF Middle
<1>2. CASE AtIdle(c, f, k, g, j, w)
  BY <1>1, <1>2, IdleStep, Zenon
<1>3. CASE AtCmd(F, c, f, k, g, j, w)
  BY <1>1, <1>3, CmdStep, Zenon
<1>4. CASE AtFwd(F, c, f, k, g, j, w)
  BY <1>1, <1>4, FwdStep, Zenon
<1>5. CASE AtWai(F, c, f, k, g, j, w)
  BY <1>1, <1>5, WaiStep, Zenon
<1>6. CASE AtErr(F, c, f, k, g, j, w)
  BY <1>1, <1>6, ErrStep, Zenon
<1> QED
  BY <1>2, <1>3, <1>4, <1>5, <1>6 DEF Middle

-----------------------------------------------------------------------------
(* The history: what is due, and the writes of all frames in one log. *)

\* The frames that are due are those from a + 1 on, but for one that was
\* answered early.
Due(F, a) ==
  /\ a \in 0 .. Len(F) /\ early \in BOOLEAN
  /\ early => a = Len(F) /\ a >= 1 /\ due = <<F[a]>> /\ F[a] # <<>>
  /\ ~early => a < Len(F) /\ Len(due) = Len(F) - a /\ \A i \in 1 .. Len(due) : due[i] = F[a + i]
  /\ due \in Seq(Seq(Byte)) /\ due # <<>>

\* W: what was ever written; B: where the writes of each frame begin.  w writes
\* were for frame c.
Done(F, c, w, n) == IF n < c THEN Len(Writes(F[n])) ELSE w

\* The writes of a frame begin behind those of the frame before it.
Begins(F, c, B) ==
  /\ B \in [1 .. c -> Nat]
  /\ \A n \in 1 .. c - 1 : B[n + 1] = B[n] + Len(Writes(F[n]))

\* The log of all writes is that of the frames up to c.
Log(F, c, w, W, B) ==
  /\ c \in 1 .. Len(F) /\ w \in Nat
  /\ W \in Seq(Byte \X Byte) /\ Begins(F, c, B) /\ Len(W) = B[c] + w
  /\ \A n \in 1 .. c : \A i \in 1 .. Done(F, c, w, n) : W[B[n] + i] = WriteOf(F[n], i)
  /\ w > 0 => w + 2 <= Len(F[c])

\* What was written since the last of a answers.
Kept(a, c, w, W, B) ==
  /\ a \in 0 .. c
  /\ a < c => written = SubSeq(W, B[a + 1] + 1, Len(W))
  /\ a = c => written = <<>> /\ w = 0

\* A rest of a sequence, element by element.
LEMMA SubSeqIs ==
  ASSUME NEW S, NEW s \in Seq(S), NEW m \in Nat, NEW n \in Nat, m <= n, n <= Len(s)
  PROVE  /\ SubSeq(s, m + 1, n) \in Seq(S) /\ Len(SubSeq(s, m + 1, n)) = n - m
         /\ \A i \in 1 .. n - m : SubSeq(s, m + 1, n)[i] = s[m + i]
<1>1. Len(s) \in Nat /\ \A i \in 1 .. Len(s) : s[i] \in S
  BY LenProperties, ElementOfSeq
<1>2. \A i \in m + 1 .. n : s[i] \in S
  BY <1>1
<1>3. SubSeq(s, m + 1, n) \in Seq(S) /\ Len(SubSeq(s, m + 1, n)) = (IF m + 1 <= n THEN n - (m + 1) + 1 ELSE 0)
      /\ \A i \in 1 .. n - (m + 1) + 1 : SubSeq(s, m + 1, n)[i] = s[m + 1 + i - 1]
  BY <1>1, <1>2, SubSeqProperties
<1>4. n - (m + 1) + 1 = n - m /\ (IF m + 1 <= n THEN n - (m + 1) + 1 ELSE 0) = n - m
  OBVIOUS
<1>5. \A i \in 1 .. n - m : m + 1 + i - 1 = m + i
  OBVIOUS
<1> QED
  BY <1>3, <1>4, <1>5

\* The writes of a frame begin no earlier than those of one before it.
LEMMA BeginsRise ==
  ASSUME NEW F, Frames(F), NEW c \in 1 .. Len(F), NEW B, Begins(F, c, B),
         NEW n \in 1 .. c
  PROVE  B[n] \in Nat /\ B[n] <= B[c] /\ (n < c => B[n] + Len(Writes(F[n])) <= B[c])
<1>1. Len(F) \in Nat /\ B \in [1 .. c -> Nat] /\ c \in Nat /\ n \in Nat
  BY LenProperties DEF Frames, Begins
<1>2. \A m \in 1 .. c - 1 : B[m + 1] = B[m] + Len(Writes(F[m])) /\ Len(Writes(F[m])) \in Nat
  <2> TAKE m \in 1 .. c - 1
  <2>1. m \in 1 .. Len(F)
    BY <1>1
  <2> QED
    BY <2>1, FrameOf, WritesAre DEF Begins
<1> DEFINE T == {d \in Nat : d < c => B[c - d] <= B[c]}
<1>3. 0 \in T
  BY <1>1
<1>4. \A d \in Nat : d \in T => d + 1 \in T
  <2> SUFFICES ASSUME NEW d \in Nat, d < c => B[c - d] <= B[c], d + 1 < c
               PROVE  B[c - (d + 1)] <= B[c]
    OBVIOUS
  <2>1. PICK m : m = c - (d + 1)
    OBVIOUS
  <2>2. m \in 1 .. c - 1 /\ m + 1 = c - d /\ m \in 1 .. c /\ c - d \in 1 .. c /\ c \in 1 .. c
    BY <1>1, <2>1
  <2>3. B[m] \in Nat /\ B[m + 1] \in Nat /\ B[c] \in Nat /\ B[m + 1] <= B[c]
    BY <1>1, <2>2
  <2>4. B[m] <= B[m + 1]
    BY <1>2, <2>2, <2>3
  <2> QED
    BY <2>1, <2>3, <2>4
<1>5. Nat \subseteq T
  BY <1>3, <1>4, Induct
<1>6. \A m \in 1 .. c : B[m] \in Nat /\ B[m] <= B[c]
  <2> TAKE m \in 1 .. c
  <2>1. c - m \in Nat /\ c - m < c /\ c - (c - m) = m
    BY <1>1
  <2>2. c - m \in T
    BY <1>5, <2>1
  <2> QED
    BY <1>1, <2>1, <2>2
<1>7. n < c => n \in 1 .. c - 1 /\ n + 1 \in 1 .. c
  BY <1>1
<1> QED
  BY <1>2, <1>6, <1>7

\* Nothing was written.
LEMMA LogStays ==
  ASSUME NEW F, Frames(F), NEW c, NEW w, NEW W, NEW B, Log(F, c, w, W, B), c < Len(F), w = Len(Writes(F[c]))
  PROVE  \E B2 : /\ Log(F, c + 1, 0, W, B2) /\ B2[c + 1] = Len(W)
                 /\ \A n \in 1 .. c : B2[n] = B[n]
<1>1. Len(F) \in Nat /\ c \in 1 .. Len(F) /\ c + 1 \in 1 .. Len(F) /\ B \in [1 .. c -> Nat] /\ Len(W) = B[c] + w
      /\ w \in Nat
  BY LenProperties DEF Frames, Log, Begins
<1>2. PICK B2 : B2 = [n \in 1 .. c + 1 |-> IF n <= c THEN B[n] ELSE Len(W)]
  OBVIOUS
<1>3. B2 \in [1 .. c + 1 -> Nat] /\ B2[c + 1] = Len(W) /\ \A n \in 1 .. c : B2[n] = B[n] /\ n \in 1 .. c + 1
  BY <1>1, <1>2
<1>4. Begins(F, c + 1, B2)
  <2>1. \A n \in 1 .. c : B2[n + 1] = B2[n] + Len(Writes(F[n]))
    <3> TAKE n \in 1 .. c
    <3>1. CASE n = c
      BY <1>1, <1>3, <3>1
    <3>2. CASE n # c
      <4>1. n \in 1 .. c - 1 /\ n + 1 \in 1 .. c
        BY <1>1, <3>2
      <4> QED
        BY <1>3, <4>1 DEF Log, Begins
    <3> QED
      BY <3>1, <3>2
  <2>2. 1 .. (c + 1) - 1 = 1 .. c
    BY <1>1
  <2> QED
    BY <1>3, <2>1, <2>2 DEF Begins
<1>5. \A n \in 1 .. c + 1 : \A i \in 1 .. Done(F, c + 1, 0, n) : W[B2[n] + i] = WriteOf(F[n], i)
  <2> TAKE n \in 1 .. c + 1
  <2> TAKE i \in 1 .. Done(F, c + 1, 0, n)
  <2>1. n # c + 1
    BY <1>1 DEF Done
  <2>2. n \in 1 .. c /\ n < c + 1
    BY <1>1, <2>1
  <2>3. Done(F, c, w, n) = Done(F, c + 1, 0, n)
    <3>1. n < c \/ n = c
      BY <1>1, <2>2
    <3> QED
      BY <2>2, <3>1 DEF Done
  <2> QED
    BY <1>3, <2>2, <2>3 DEF Log
<1>6. Len(W) = B2[c + 1] + 0
  BY <1>1, <1>3
<1>7. W \in Seq(Byte \X Byte) /\ 0 \in Nat /\ ~(0 > 0)
  BY DEF Log
<1> QED
  BY <1>1, <1>3, <1>4, <1>5, <1>6, <1>7 DEF Log

\* Another register was written.
LEMMA LogGrows ==
  ASSUME NEW F, Frames(F), NEW c, NEW w, NEW W, NEW B, Log(F, c, w, W, B), NEW e, e = WriteOf(F[c], w + 1),
         w + 3 <= Len(F[c])
  PROVE  Log(F, c, w + 1, Append(W, e), B) /\ e \in Byte \X Byte
<1>1. Len(F) \in Nat /\ c \in 1 .. Len(F) /\ B \in [1 .. c -> Nat] /\ Len(W) = B[c] + w /\ w \in Nat
      /\ W \in Seq(Byte \X Byte) /\ c \in 1 .. c
  BY LenProperties DEF Frames, Log, Begins
<1>2. F[c] \in Seq(Byte) /\ Len(F[c]) \in Nat
  BY <1>1, FrameOf, LenProperties
<1>3. e \in Byte \X Byte
  <2>0. 2 \in 1 .. Len(F[c]) /\ (w + 1) + 2 \in 1 .. Len(F[c]) /\ (w + 1) - 1 \in Nat
    BY <1>1, <1>2
  <2>1. F[c][2] \in Byte /\ F[c][(w + 1) + 2] \in Byte /\ (w + 1) - 1 \in Nat
    BY <1>2, <2>0, ElementOfSeq
  <2>2. Addr(F[c][2], (w + 1) - 1) \in Byte
    BY <2>1, AddrIs
  <2> QED
    BY <2>1, <2>2 DEF WriteOf
<1>4. PICK V : V = Append(W, e)
  OBVIOUS
<1>5. V \in Seq(Byte \X Byte) /\ Len(V) = Len(W) + 1 /\ V[Len(W) + 1] = e
      /\ \A i \in 1 .. Len(W) : V[i] = W[i]
  BY <1>1, <1>3, <1>4, AppendProperties
<1>6. \A n \in 1 .. c : \A i \in 1 .. Done(F, c, w + 1, n) : V[B[n] + i] = WriteOf(F[n], i)
  <2> TAKE n \in 1 .. c
  <2> TAKE i \in 1 .. Done(F, c, w + 1, n)
  <2>1. B[n] \in Nat /\ B[c] \in Nat
    BY <1>1
  <2>2. CASE n < c
    <3>1. i \in 1 .. Len(Writes(F[n])) /\ i \in 1 .. Done(F, c, w, n)
      BY <2>2 DEF Done
    <3>2. Len(Writes(F[n])) \in Nat /\ B[n] + Len(Writes(F[n])) <= B[c]
      <4>1. n \in 1 .. Len(F) /\ Begins(F, c, B)
        BY <1>1, <2>2 DEF Log
      <4> QED
        BY <1>1, <2>2, <4>1, FrameOf, WritesAre, BeginsRise
    <3>3. B[n] + i \in 1 .. Len(W)
      <4>1. i \in Nat /\ i >= 1 /\ i <= Len(Writes(F[n]))
        BY <3>1, <3>2
      <4>2. B[n] + i <= B[c]
        BY <2>1, <3>2, <4>1
      <4>3. B[c] <= Len(W) /\ Len(W) \in Nat
        BY <1>1, <2>1
      <4> QED
        BY <2>1, <4>1, <4>2, <4>3
    <3> QED
      BY <1>5, <3>1, <3>3 DEF Log
  <2>3. CASE n = c /\ i = w + 1
    <3>1. B[n] + i = Len(W) + 1
      BY <1>1, <2>1, <2>3
    <3> QED
      BY <1>5, <2>3, <3>1
  <2>4. CASE n = c /\ i # w + 1
    <3>1. i \in 1 .. w + 1
      BY <1>1, <2>4 DEF Done
    <3>2. i \in 1 .. w /\ i \in 1 .. Done(F, c, w, n) /\ B[n] + i \in 1 .. Len(W)
      BY <1>1, <2>1, <2>4, <3>1 DEF Done
    <3> QED
      BY <1>5, <3>2 DEF Log
  <2>5. n < c \/ n = c
    BY <1>1
  <2> QED
    BY <2>2, <2>3, <2>4, <2>5
<1>7. Len(V) = B[c] + (w + 1) /\ w + 1 \in Nat /\ (w + 1) + 2 <= Len(F[c])
  BY <1>1, <1>2, <1>5
<1> QED
  BY <1>1, <1>3, <1>4, <1>5, <1>6, <1>7 DEF Log

-----------------------------------------------------------------------------
(* The history: the log at an edge of the clock. *)

\* A rest of a longer sequence.
LEMMA RestConcat ==
  ASSUME NEW S, NEW s \in Seq(S), NEW t \in Seq(S), NEW m \in Nat, m <= Len(s)
  PROVE  SubSeq(s, m + 1, Len(s)) \o t = SubSeq(s \o t, m + 1, Len(s \o t))
<1>1. Len(s) \in Nat /\ Len(t) \in Nat /\ s \o t \in Seq(S) /\ Len(s \o t) = Len(s) + Len(t)
  BY LenProperties, ConcatProperties
<1>2. PICK u, v : u = SubSeq(s, m + 1, Len(s)) /\ v = SubSeq(s \o t, m + 1, Len(s \o t))
  OBVIOUS
<1>3. u \in Seq(S) /\ Len(u) = Len(s) - m /\ \A i \in 1 .. Len(s) - m : u[i] = s[m + i]
  BY <1>1, <1>2, SubSeqIs
<1>4. v \in Seq(S) /\ Len(v) = Len(s) + Len(t) - m
      /\ \A i \in 1 .. Len(s) + Len(t) - m : v[i] = (s \o t)[m + i]
  <2>1. m <= Len(s \o t) /\ Len(s \o t) \in Nat
    BY <1>1
  <2> QED
    BY <1>1, <1>2, <2>1, SubSeqIs
<1>5. u \o t \in Seq(S) /\ Len(u \o t) = Len(v)
  <2>1. u \o t \in Seq(S) /\ Len(u \o t) = Len(u) + Len(t)
    BY <1>3, ConcatProperties
  <2> QED
    BY <1>1, <1>3, <1>4, <2>1
<1>6. \A i \in 1 .. Len(v) : (u \o t)[i] = v[i]
  <2> TAKE i \in 1 .. Len(v)
  <2>1. (u \o t)[i] = IF i <= Len(u) THEN u[i] ELSE t[i - Len(u)]
    BY <1>1, <1>3, <1>4, ConcatProperties
  <2>2. (s \o t)[m + i] = IF m + i <= Len(s) THEN s[m + i] ELSE t[m + i - Len(s)]
    <3>1. m + i \in 1 .. Len(s) + Len(t)
      BY <1>1, <1>4
    <3> QED
      BY <3>1, ConcatProperties
  <2>3. CASE i <= Len(u)
    <3>1. m + i <= Len(s) /\ i \in 1 .. Len(s) - m /\ i \in 1 .. Len(s) + Len(t) - m
      BY <1>1, <1>3, <1>4, <2>3
    <3> QED
      BY <1>3, <1>4, <2>1, <2>2, <2>3, <3>1
  <2>4. CASE ~(i <= Len(u))
    <3>1. ~(m + i <= Len(s)) /\ m + i - Len(s) = i - Len(u) /\ i \in 1 .. Len(s) + Len(t) - m
      BY <1>1, <1>3, <1>4, <2>4
    <3> QED
      BY <1>4, <2>1, <2>2, <2>4, <3>1
  <2> QED
    BY <2>3, <2>4
<1>7. u \o t = v
  BY <1>4, <1>5, <1>6, SeqEqual
<1> QED
  BY <1>2, <1>7

\* A rest of a rest is a rest.
LEMMA RestOfRest ==
  ASSUME NEW S, NEW s \in Seq(S), NEW m \in Nat, NEW n \in Nat, m + n <= Len(s),
         NEW u, u = SubSeq(s, m + 1, Len(s))
  PROVE  SubSeq(u, n + 1, Len(u)) = SubSeq(s, (m + n) + 1, Len(s))
<1>1. Len(s) \in Nat /\ m <= Len(s) /\ m + n \in Nat
  BY LenProperties
<1>2. u \in Seq(S) /\ Len(u) = Len(s) - m /\ \A i \in 1 .. Len(s) - m : u[i] = s[m + i]
  BY <1>1, SubSeqIs
<1>3. PICK v, x : v = SubSeq(u, n + 1, Len(u)) /\ x = SubSeq(s, (m + n) + 1, Len(s))
  OBVIOUS
<1>4. v \in Seq(S) /\ Len(v) = Len(u) - n /\ \A i \in 1 .. Len(u) - n : v[i] = u[n + i]
  <2>1. Len(u) \in Nat /\ n <= Len(u)
    BY <1>1, <1>2
  <2> QED
    BY <1>2, <1>3, <2>1, SubSeqIs
<1>5. x \in Seq(S) /\ Len(x) = Len(s) - (m + n) /\ \A i \in 1 .. Len(s) - (m + n) : x[i] = s[(m + n) + i]
  BY <1>1, <1>3, SubSeqIs
<1>6. Len(v) = Len(x)
  BY <1>1, <1>2, <1>4, <1>5
<1>7. \A i \in 1 .. Len(v) : v[i] = x[i]
  <2> TAKE i \in 1 .. Len(v)
  <2>1. /\ i \in 1 .. Len(u) - n /\ i \in 1 .. Len(s) - (m + n) /\ n + i \in 1 .. Len(s) - m
        /\ m + (n + i) = (m + n) + i
    BY <1>1, <1>2, <1>4
  <2> QED
    BY <1>2, <1>4, <1>5, <2>1
<1> QED
  BY <1>3, <1>4, <1>5, <1>6, <1>7, SeqEqual

\* What was written grows.
LEMMA LogStep ==
  ASSUME NEW F, Frames(F), NEW c, NEW w, NEW W, NEW B, Log(F, c, w, W, B),
         NEW wr, NEW c2, NEW w2, Logs(F, c, w, wr, c2, w2)
  PROVE  \E B2 : /\ Log(F, c2, w2, W \o wr, B2) /\ wr \in Seq(Byte \X Byte)
                 /\ \A n \in 1 .. c : B2[n] = B[n]
                 /\ c2 = c \/ (c2 = c + 1 /\ wr = <<>> /\ B2[c2] = Len(W))
<1>1. W \in Seq(Byte \X Byte)
  BY DEF Log
<1>2. wr = <<>> => W \o wr = W /\ wr \in Seq(Byte \X Byte)
  BY <1>1, EmptySeq, ConcatEmptySeq
<1>3. CASE c2 = c /\ wr = <<>>
  BY <1>2, <1>3 DEF Logs, Wrote, Log
<1>4. CASE c2 = c /\ wr # <<>>
  <2>1. PICK e : e = WriteOf(F[c], w + 1)
    OBVIOUS
  <2>2. wr = <<e>> /\ w2 = w + 1 /\ w + 3 <= Len(F[c])
    <3>1. c2 # c + 1
      BY <1>4 DEF Log
    <3> QED
      BY <1>4, <2>1, <3>1 DEF Logs, Wrote
  <2>3. Log(F, c, w + 1, Append(W, e), B) /\ e \in Byte \X Byte
    BY <2>1, <2>2, LogGrows
  <2>4. Append(W, e) = W \o wr /\ wr \in Seq(Byte \X Byte)
    BY <1>1, <2>2, <2>3, AppendIsConcat
  <2> QED
    BY <1>4, <2>2, <2>3, <2>4
<1>5. CASE c2 # c
  <2>1. c2 = c + 1 /\ w2 = 0 /\ wr = <<>> /\ w = Len(Writes(F[c])) /\ c < Len(F)
    BY <1>5 DEF Logs
  <2>2. PICK B2 : /\ Log(F, c + 1, 0, W, B2) /\ B2[c + 1] = Len(W)
                  /\ \A n \in 1 .. c : B2[n] = B[n]
    BY <2>1, LogStays
  <2> QED
    BY <1>2, <2>1, <2>2
<1> QED
  BY <1>3, <1>4, <1>5

-----------------------------------------------------------------------------
(* The history: what is due at an edge of the clock, and what was written for it. *)

\* What is written in the history when something is answered.
LEMMA AnsweredIs ==
  ASSUME NEW out, NEW wr, Answered(out, wr)
  PROVE  /\ ~FrameEnd(out) => written' = written \o wr /\ due' = due /\ early' = early
         /\ FrameEnd(out) =>
              /\ written' = SubSeq(written \o wr, Len(Writes(due[1])) + 1, Len(written \o wr))
              /\ due' = (IF Len(due) > 1 THEN Tail(due) ELSE due)
              /\ Len(due) = 1 => early' = TRUE
              /\ Len(due) # 1 => early' = FALSE
<1>1. FrameEnd(out) => out # <<>>
  BY DEF FrameEnd
<1>2. FrameEnd(out) => early' = (Len(due) = 1)
  BY <1>1 DEF Answered
<1>3. /\ FrameEnd(out) /\ Len(due) = 1 => early' = TRUE
      /\ FrameEnd(out) /\ Len(due) # 1 => early' = FALSE
  BY <1>2, Zenon
<1> QED
  BY <1>1, <1>3 DEF Answered

\* What is due when the device answers a frame or not.
LEMMA DueStep ==
  ASSUME NEW F, Frames(F), NEW a, Due(F, a), NEW out, NEW wr, Answered(out, wr),
         FrameEnd(out) => Settled(F, a + 1)
  PROVE  /\ ~FrameEnd(out) => Due(F, a)'
         /\ FrameEnd(out) => /\ Due(F, a + 1)' /\ ~early /\ due[1] = F[a + 1] /\ due[1] # <<>>
                             /\ Len(due) = 1 => a + 1 = Len(F)
<1>1. Len(F) \in Nat /\ a \in Nat
  BY LenProperties DEF Frames, Due
<1>2. CASE ~FrameEnd(out)
  <2>1. due' = due /\ early' = early
    BY <1>2, AnsweredIs
  <2> QED
    BY <1>2, <2>1 DEF Due
<1>3. CASE FrameEnd(out)
  <2>1. a + 1 \in 1 .. Len(F) /\ F[a + 1] # <<>>
    BY <1>3 DEF Settled
  <2>2. ~early /\ Len(due) = Len(F) - a /\ due \in Seq(Seq(Byte)) /\ due # <<>>
        /\ \A i \in 1 .. Len(due) : due[i] = F[a + i]
    BY <1>1, <2>1 DEF Due
  <2>3. due[1] = F[a + 1] /\ (Len(due) = 1 => a + 1 = Len(F)) /\ Len(due) \in Nat /\ Len(due) >= 1
    BY <1>1, <2>1, <2>2
  <2>4. PICK d, e : d = due' /\ e = early'
    OBVIOUS
  <2>5. (Len(due) = 1 => e = TRUE) /\ (Len(due) # 1 => e = FALSE) /\ d = (IF Len(due) > 1 THEN Tail(due) ELSE due)
    BY <1>3, <2>4, AnsweredIs
  <2>6. CASE Len(due) = 1
    <3>1. e = TRUE /\ d = due
      BY <2>5, <2>6
    <3>2. due = <<F[a + 1]>>
      <4>1. F[a + 1] \in Seq(Byte)
        BY <2>1, FrameOf
      <4>2. <<F[a + 1]>> \in Seq(Seq(Byte)) /\ Len(<<F[a + 1]>>) = 1 /\ <<F[a + 1]>>[1] = F[a + 1]
        BY <4>1
      <4>3. \A i \in 1 .. Len(due) : due[i] = <<F[a + 1]>>[i]
        BY <2>3, <2>6, <4>2
      <4> QED
        BY <2>2, <2>6, <4>2, <4>3, SeqEqual
    <3>3. a + 1 \in 0 .. Len(F) /\ a + 1 = Len(F) /\ a + 1 >= 1
      BY <1>1, <2>3, <2>6
    <3>4. Due(F, a + 1)'
      BY <2>1, <2>2, <2>4, <3>1, <3>2, <3>3 DEF Due
    <3> QED
      BY <1>3, <2>1, <2>2, <2>3, <3>4
  <2>7. CASE Len(due) # 1
    <3>1. e = FALSE /\ d = Tail(due)
      <4>1. Len(due) > 1
        <5>1. PICK n : n = Len(due)
          OBVIOUS
        <5>2. n \in Nat /\ n >= 1 /\ n # 1
          BY <2>3, <2>7, <5>1
        <5>3. n > 1
          BY <5>2
        <5> QED
          BY <5>1, <5>3
      <4> QED
        BY <2>5, <2>7, <4>1
    <3>2. d \in Seq(Seq(Byte)) /\ Len(d) = Len(due) - 1 /\ \A i \in 1 .. Len(d) : d[i] = due[i + 1]
      BY <2>2, <3>1, HeadTailProperties
    <3>3. Len(d) = Len(F) - (a + 1) /\ a + 1 < Len(F) /\ d # <<>>
      BY <1>1, <2>2, <2>3, <2>7, <3>2, EmptySeq
    <3>4. \A i \in 1 .. Len(d) : d[i] = F[(a + 1) + i]
      <4> TAKE i \in 1 .. Len(d)
      <4>1. i + 1 \in 1 .. Len(due) /\ a + (i + 1) = (a + 1) + i
        BY <1>1, <2>3, <3>2
      <4> QED
        BY <2>2, <3>2, <4>1
    <3>5. a + 1 \in 0 .. Len(F)
      BY <1>1, <2>1
    <3>6. Due(F, a + 1)'
      <4>1. early' = FALSE /\ due' = d
        BY <2>4, <3>1
      <4>2. /\ early' \in BOOLEAN /\ ~early'
            /\ Len(due') = Len(F) - (a + 1) /\ due' \in Seq(Seq(Byte)) /\ due' # <<>>
            /\ \A i \in 1 .. Len(due') : due'[i] = F[(a + 1) + i]
        BY <3>2, <3>3, <3>4, <4>1
      <4> QED
        BY <3>3, <3>5, <4>2 DEF Due
    <3> QED
      BY <1>3, <2>1, <2>2, <2>3, <3>6
  <2> QED
    BY <2>6, <2>7
<1> QED
  BY <1>2, <1>3

\* What was written for frame n and not dropped yet.
LEMMA WritesKept ==
  ASSUME NEW F, Frames(F), NEW a \in Nat, NEW c, NEW w, NEW W, NEW B, Log(F, c, w, W, B), Kept(a, c, w, W, B),
         a + 1 < c
  PROVE  /\ SubSeq(written, 1, Len(Writes(F[a + 1]))) = Writes(F[a + 1])
         /\ B[a + 1] \in Nat /\ Len(Writes(F[a + 1])) \in Nat
         /\ B[a + 1] + Len(Writes(F[a + 1])) <= Len(W)
<1>1. Len(F) \in Nat /\ c \in 1 .. Len(F) /\ c \in Nat /\ w \in Nat /\ a + 1 \in 1 .. c /\ a + 1 \in 1 .. Len(F)
      /\ W \in Seq(Byte \X Byte) /\ Begins(F, c, B) /\ Len(W) = B[c] + w /\ B[c] \in Nat
  BY LenProperties DEF Frames, Log, Begins
<1>2. PICK b, s : b = B[a + 1] /\ s = Writes(F[a + 1])
  OBVIOUS
<1>3. s \in Seq(Byte \X Byte) /\ Len(s) \in Nat /\ \A i \in 1 .. Len(s) : s[i] = WriteOf(F[a + 1], i)
  BY <1>1, <1>2, FrameOf, WritesAre
<1>4. b \in Nat /\ b + Len(s) <= B[c]
  BY <1>1, <1>2, BeginsRise
<1>5. b <= Len(W) /\ b + Len(s) <= Len(W) /\ Len(W) \in Nat
  BY <1>1, <1>3, <1>4
<1>6. written = SubSeq(W, b + 1, Len(W))
  BY <1>1, <1>2 DEF Kept
<1>7. written \in Seq(Byte \X Byte) /\ Len(written) = Len(W) - b
      /\ \A i \in 1 .. Len(W) - b : written[i] = W[b + i]
  <2>1. Len(W) <= Len(W) /\ W \in Seq(Byte \X Byte)
    BY <1>1, <1>5
  <2> QED
    BY <1>4, <1>5, <1>6, <2>1, SubSeqIs
<1>8. \A i \in 1 .. Len(s) : written[i] = s[i]
  <2> TAKE i \in 1 .. Len(s)
  <2>1. i \in 1 .. Len(W) - b
    BY <1>3, <1>4, <1>5
  <2>2. W[b + i] = WriteOf(F[a + 1], i)
    <3>1. Done(F, c, w, a + 1) = Len(s)
      BY <1>2 DEF Done
    <3> QED
      BY <1>1, <1>2, <3>1 DEF Log
  <2> QED
    BY <1>3, <1>7, <2>1, <2>2
<1>9. PICK t : t = SubSeq(written, 1, Len(s))
  OBVIOUS
<1>10. t \in Seq(Byte \X Byte) /\ Len(t) = Len(s) /\ \A i \in 1 .. Len(s) : t[i] = written[i]
  <2>1. Len(s) <= Len(written) /\ 0 <= Len(s) /\ 0 \in Nat /\ Len(s) - 0 = Len(s) /\ 0 + 1 = 1
        /\ \A i \in 1 .. Len(s) : 0 + i = i
    BY <1>3, <1>4, <1>5, <1>7
  <2>2. SubSeq(written, 0 + 1, Len(s)) \in Seq(Byte \X Byte) /\ Len(SubSeq(written, 0 + 1, Len(s))) = Len(s) - 0
        /\ \A i \in 1 .. Len(s) - 0 : SubSeq(written, 0 + 1, Len(s))[i] = written[0 + i]
    BY <1>3, <1>7, <2>1, SubSeqIs
  <2> QED
    BY <1>9, <2>1, <2>2
<1>11. t = s
  BY <1>3, <1>8, <1>10, SeqEqual
<1> QED
  BY <1>2, <1>3, <1>4, <1>5, <1>9, <1>11

\* An edge of the clock in the history of what was written.
LEMMA KeptStep ==
  ASSUME NEW F, Frames(F), NEW a \in Nat, NEW c, NEW w, NEW W, NEW B, Log(F, c, w, W, B), Kept(a, c, w, W, B),
         NEW wr, NEW c2, NEW w2, Logs(F, c, w, wr, c2, w2), NEW out, Answered(out, wr),
         a = c => wr = <<>>,
         FrameEnd(out) => /\ a + 1 <= c /\ due[1] = F[a + 1]
                          /\ a + 1 = c => wr = <<>> /\ w = 0 /\ Len(Writes(F[c])) = 0
  PROVE  \E W2, B2 : /\ Log(F, c2, w2, W2, B2)
                     /\ ~FrameEnd(out) => Kept(a, c2, w2, W2, B2)'
                     /\ FrameEnd(out) => Kept(a + 1, c2, w2, W2, B2)'
<1>1. PICK B2 : /\ Log(F, c2, w2, W \o wr, B2) /\ wr \in Seq(Byte \X Byte)
                /\ \A n \in 1 .. c : B2[n] = B[n]
                /\ c2 = c \/ (c2 = c + 1 /\ wr = <<>> /\ B2[c2] = Len(W))
  BY LogStep
<1>2. PICK W2, v, x : W2 = W \o wr /\ v = written \o wr /\ x = written'
  OBVIOUS
<1>3. /\ Len(F) \in Nat /\ c \in 1 .. Len(F) /\ c \in Nat /\ w \in Nat /\ c2 \in Nat /\ c <= c2
      /\ W \in Seq(Byte \X Byte) /\ Begins(F, c, B) /\ Len(W) = B[c] + w /\ B[c] \in Nat
      /\ Begins(F, c2, B2) /\ Len(W) \in Nat
  <2>1. Len(F) \in Nat /\ c \in 1 .. Len(F) /\ w \in Nat /\ W \in Seq(Byte \X Byte) /\ Begins(F, c, B)
        /\ Len(W) = B[c] + w /\ Begins(F, c2, B2)
    BY <1>1, LenProperties DEF Frames, Log
  <2>2. c \in Nat /\ c \in 1 .. c
    BY <2>1
  <2>3. B[c] \in Nat /\ Len(W) \in Nat
    BY <2>1, <2>2, LenProperties DEF Begins
  <2>4. c2 \in Nat /\ c <= c2
    BY <1>1, <2>2
  <2> QED
    BY <2>1, <2>2, <2>3, <2>4
<1>4. a \in 0 .. c /\ a <= c2
  BY <1>3 DEF Kept
<1>5. W2 \in Seq(Byte \X Byte) /\ Len(W2) \in Nat /\ Len(W2) = Len(W) + Len(wr)
  BY <1>1, <1>2, <1>3, ConcatProperties, LenProperties
<1>6. a < c => v = SubSeq(W2, B2[a + 1] + 1, Len(W2)) /\ B2[a + 1] = B[a + 1] /\ B[a + 1] \in Nat
               /\ B[a + 1] <= Len(W)
  <2> SUFFICES ASSUME a < c
               PROVE  v = SubSeq(W2, B2[a + 1] + 1, Len(W2)) /\ B2[a + 1] = B[a + 1] /\ B[a + 1] \in Nat
                      /\ B[a + 1] <= Len(W)
    OBVIOUS
  <2>1. a + 1 \in 1 .. c /\ written = SubSeq(W, B[a + 1] + 1, Len(W))
    BY <1>3, <1>4 DEF Kept
  <2>2. B[a + 1] \in Nat /\ B[a + 1] <= B[c]
    BY <1>3, <2>1, BeginsRise
  <2>3. B[a + 1] <= Len(W)
    BY <1>3, <2>2
  <2>4. B2[a + 1] = B[a + 1]
    BY <1>1, <2>1
  <2>5. SubSeq(W, B[a + 1] + 1, Len(W)) \o wr = SubSeq(W \o wr, B[a + 1] + 1, Len(W \o wr))
    BY <1>1, <1>3, <2>2, <2>3, RestConcat
  <2> QED
    BY <1>2, <2>1, <2>2, <2>3, <2>4, <2>5
<1>7. ~FrameEnd(out) => Kept(a, c2, w2, W2, B2)'
  <2> SUFFICES ASSUME ~FrameEnd(out)
               PROVE  Kept(a, c2, w2, W2, B2)'
    OBVIOUS
  <2>1. x = v
    BY <1>2, AnsweredIs
  <2>2. CASE a < c
    <3>1. a \in 0 .. c2 /\ a # c2
      BY <1>3, <1>4, <2>2
    <3> QED
      BY <1>2, <1>6, <2>1, <2>2, <3>1 DEF Kept
  <2>3. CASE a = c
    <3>1. wr = <<>> /\ written = <<>> /\ w = 0 /\ x = <<>>
      BY <1>2, <2>1, <2>3 DEF Kept
    <3>2. CASE c2 = c
      <4>1. w2 = 0
        BY <1>3, <3>1, <3>2 DEF Logs, Wrote
      <4> QED
        BY <1>2, <1>4, <2>3, <3>1, <3>2, <4>1 DEF Kept
    <3>3. CASE c2 = c + 1
      <4>1. B2[a + 1] = Len(W2)
        BY <1>1, <1>3, <1>5, <2>3, <3>1, <3>3
      <4>2. SubSeq(W2, B2[a + 1] + 1, Len(W2)) = <<>>
        BY <1>5, <4>1, SubSeqEmpty
      <4>3. a \in 0 .. c2 /\ a < c2 /\ a # c2
        BY <1>3, <1>4, <2>3, <3>3
      <4> QED
        BY <1>2, <3>1, <4>2, <4>3 DEF Kept
    <3> QED
      BY <1>1, <3>2, <3>3
  <2> QED
    BY <1>3, <1>4, <2>2, <2>3
<1>8. FrameEnd(out) => Kept(a + 1, c2, w2, W2, B2)'
  <2> SUFFICES ASSUME FrameEnd(out)
               PROVE  Kept(a + 1, c2, w2, W2, B2)'
    OBVIOUS
  <2>1. PICK n : n = Len(Writes(F[a + 1]))
    OBVIOUS
  <2>2. x = SubSeq(v, n + 1, Len(v))
    BY <1>2, <2>1, AnsweredIs
  <2>3. a < c /\ a + 1 \in 0 .. c2
    BY <1>3, <1>4
  <2>4. CASE a + 1 < c2
    <3>1. a + 1 \in 1 .. c2 - 1 /\ a + 1 \in 1 .. c2 /\ c2 \in 1 .. Len(F) /\ a + 1 \in 1 .. Len(F)
      <4>1. c2 \in 1 .. Len(F)
        BY <1>1 DEF Log
      <4> QED
        BY <1>3, <2>4, <4>1
    <3>2. B2[(a + 1) + 1] = B2[a + 1] + n /\ n \in Nat
      <4>1. n \in Nat
        BY <2>1, <3>1, FrameOf, WritesAre
      <4> QED
        BY <1>3, <2>1, <3>1, <4>1 DEF Begins
    <3>3. B2[a + 1] \in Nat /\ B2[a + 1] + n <= B2[c2]
      BY <1>3, <2>1, <2>4, <3>1, BeginsRise
    <3>4. Len(W2) = B2[c2] + w2 /\ w2 \in Nat /\ B2[c2] \in Nat
      BY <1>1, <1>2, <1>3, <3>1 DEF Log, Begins
    <3>5. SubSeq(v, n + 1, Len(v)) = SubSeq(W2, (B2[a + 1] + n) + 1, Len(W2))
      <4>1. PICK m : m = B2[a + 1]
        OBVIOUS
      <4>2. m \in Nat /\ n \in Nat /\ m + n <= Len(W2)
        BY <3>2, <3>3, <3>4, <4>1
      <4>4. v = SubSeq(W2, m + 1, Len(W2))
        BY <1>6, <2>3, <4>1
      <4>3. SubSeq(v, n + 1, Len(v)) = SubSeq(W2, (m + n) + 1, Len(W2))
        BY <1>5, <4>2, <4>4, RestOfRest
      <4> QED
        BY <4>1, <4>3
    <3>6. PICK e : e = a + 1
      OBVIOUS
    <3>7. e \in 0 .. c2 /\ e # c2
      BY <1>3, <2>3, <2>4, <3>6
    <3>9. x = SubSeq(W2, B2[e + 1] + 1, Len(W2))
      BY <2>2, <3>2, <3>5, <3>6
    <3>8. Kept(e, c2, w2, W2, B2)'
      BY <1>2, <3>7, <3>9 DEF Kept
    <3> QED
      BY <3>6, <3>8 DEF Kept
  <2>5. CASE a + 1 = c2
    <3>1. c2 = c /\ wr = <<>> /\ w = 0 /\ n = 0
      BY <1>1, <1>3, <2>1, <2>3, <2>5
    <3>2. w2 = 0
      BY <1>3, <3>1 DEF Logs, Wrote
    <3>3. Len(W2) = B2[a + 1]
      BY <1>1, <1>2, <1>3, <1>5, <2>5, <3>1, <3>2 DEF Log
    <3>4. v = <<>>
      <4>1. SubSeq(W2, B2[a + 1] + 1, Len(W2)) = <<>>
        BY <1>5, <3>3, SubSeqEmpty
      <4> QED
        BY <1>6, <2>3, <4>1
    <3>5. x = <<>>
      <4>1. Len(v) = 0 /\ SubSeq(v, 0 + 1, 0) = <<>>
        BY <3>4, SubSeqEmpty
      <4> QED
        BY <2>2, <3>1, <4>1
    <3> QED
      BY <1>2, <2>3, <2>5, <3>2, <3>5 DEF Kept
  <2> QED
    BY <1>3, <1>4, <2>3, <2>4, <2>5
<1> QED
  BY <1>1, <1>2, <1>7, <1>8

-----------------------------------------------------------------------------
(* The device: types at an edge of the clock. *)

\* The types of the blocks, and the stages as SimpleBusPipeStage_proofs has them.
DeviceOK ==
  /\ DstTypeOK /\ MuxTypeOK /\ VerTypeOK /\ BbTypeOK /\ RegOK /\ StfOK
  /\ IBP!PipeInv /\ OBP!PipeInv

\* The stages keep their invariant.
LEMMA IbKeeps ==
  ASSUME IBP!PipeInv, NEW inp \in Bus(Beat), NEW r \in BOOLEAN, IB!Edge(inp, r)
  PROVE  IBP!PipeInv' /\ IBP!Next
<1>1. inp \in {<<>>} \union {<<b>> : b \in Beat} /\ r \in {TRUE, FALSE}
  BY DEF Bus
<1>2. IBP!Edge(inp, r)
  BY DEF IB!Edge, IBP!Edge
<1>3. IBP!Next
  BY <1>1, <1>2 DEF IBP!Next
<1> QED
  BY <1>3, IBP!PipeInvStep

\* The stage of the replies likewise.
LEMMA ObKeeps ==
  ASSUME OBP!PipeInv, NEW inp \in Bus(Beat), NEW r \in BOOLEAN, OB!Edge(inp, r)
  PROVE  OBP!PipeInv' /\ OBP!Next
<1>1. inp \in {<<>>} \union {<<b>> : b \in Beat} /\ r \in {TRUE, FALSE}
  BY DEF Bus
<1>2. OBP!Edge(inp, r)
  BY DEF OB!Edge, OBP!Edge
<1>3. OBP!Next
  BY <1>1, <1>2 DEF OBP!Next
<1> QED
  BY <1>3, OBP!PipeInvStep

\* What the blocks are given is of its type.
LEMMA Wires ==
  ASSUME DeviceOK, toDev \in Seq(Byte), NEW inp, FromHost(inp), NEW rdy \in BOOLEAN
  PROVE  /\ inp \in Bus(Byte)
         /\ ibBuf \in Bus(Beat) /\ ibOvfl \in Bus(Beat) /\ obBuf \in Bus(Beat) /\ obOvfl \in Bus(Beat)
         /\ IB!rdyIb \in BOOLEAN /\ OB!rdyIb \in BOOLEAN
         /\ DstOut(inp, IB!rdyIb) \in Bus(Beat)
         /\ HandlerOb \in Bus(Beat) /\ muxOb(HandlerOb) \in Bus(Beat)
         /\ \A hr \in BOOLEAN : muxRdyIb(hr) \in BOOLEAN
         /\ \A h : ToHandler(h, ibBuf) \in Bus(Beat)
         /\ \A h : \A q \in BOOLEAN : HandlerRdyOb(h, q) \in BOOLEAN
         /\ \A r \in BOOLEAN : StfRdyInp(r) \in BOOLEAN
         /\ RegTypeOK /\ StfTypeOK /\ RegErr \in BOOLEAN
         /\ Rdat[reg.addr] \in Byte
<1> USE DEF DeviceOK
<1>1. inp \in Bus(Byte)
  <2>1. CASE toDev = <<>>
    BY <2>1 DEF FromHost, Bus
  <2>2. CASE toDev # <<>>
    BY <2>2, HeadTailProperties, OneOnBus DEF FromHost
  <2> QED
    BY <2>1, <2>2
<1>2. ibBuf \in Bus(Beat) /\ ibOvfl \in Bus(Beat) /\ obBuf \in Bus(Beat) /\ obOvfl \in Bus(Beat)
  BY DEF IBP!PipeInv, IBP!Word, OBP!PipeInv, OBP!Word, Bus
<1>3. IB!rdyIb \in BOOLEAN /\ OB!rdyIb \in BOOLEAN
  BY DEF IB!rdyIb, OB!rdyIb
<1>4. RegTypeOK /\ StfTypeOK
  BY DEF RegOK, StfOK
<1>5. DstOut(inp, IB!rdyIb) \in Bus(Beat)
  <2>1. \A r \in BOOLEAN : DstOut(inp, r) \in Bus(Beat)
    BY <1>1, DstOutType
  <2> QED
    BY <1>3, <2>1
<1>6. HandlerOb \in Bus(Beat) /\ muxOb(HandlerOb) \in Bus(Beat)
  <2>1. HandlerOb \in Bus(Beat)
    BY <1>2, <1>4, HandlerObType
  <2> QED
    BY <2>1, MuxObType
<1>7. \A hr \in BOOLEAN : muxRdyIb(hr) \in BOOLEAN
  BY DEF muxRdyIb
<1>8. \A h : ToHandler(h, ibBuf) \in Bus(Beat)
  BY <1>2, ToHandlerType
<1>9. \A h : \A q \in BOOLEAN : HandlerRdyOb(h, q) \in BOOLEAN
  BY DEF HandlerRdyOb
<1>10. \A r \in BOOLEAN : StfRdyInp(r) \in BOOLEAN
  BY DEF StfRdyInp
<1>11. RegErr \in BOOLEAN /\ Rdat[reg.addr] \in Byte
  <2>1. reg.addr \in Byte
    BY <1>4, RegFields
  <2> QED
    BY <2>1, RegsAssumption DEF RegErr
<1> QED
  BY <1>1, <1>2, <1>3, <1>4, <1>5, <1>6, <1>7, <1>8, <1>9, <1>10, <1>11

-----------------------------------------------------------------------------
(* The device: an edge of the clock, block by block. *)

\* An edge of the clock is one of each block (CommandWrapper).
LEMMA WrapperIs ==
  ASSUME NEW inp, NEW rdyOut, NEW rdy, WrapperEdge(inp, rdyOut, rdy)
  PROVE  /\ DstEdge(inp, IB!rdyIb)
         /\ IB!Edge(DstOut(inp, IB!rdyIb), muxRdyIb(HandlerRdyIb(rdy)))
         /\ MuxEdge(ibBuf, HandlerRdyIb(rdy), HandlerOb, OB!rdyIb)
         /\ VerEdge(ToHandler("VERSION", ibBuf), HandlerRdyOb("VERSION", OB!rdyIb))
         /\ BbEdge(ToHandler("BITBANG", ibBuf), HandlerRdyOb("BITBANG", OB!rdyIb), rdy)
         /\ RegEdge(ToHandler("REG", ibBuf), HandlerRdyOb("REG", OB!rdyIb), rdy, Rdat[reg.addr], RegErr)
         /\ OB!Edge(muxOb(HandlerOb), StfRdyInp(rdyOut))
         /\ StfEdge(obBuf, rdyOut)
BY DEF WrapperEdge

\* The ready signal of the handlers is a Boolean.
LEMMA HandlerReady ==
  ASSUME NEW rdy \in BOOLEAN
  PROVE  HandlerRdyIb(rdy) \in BOOLEAN
<1>1. \A x \in BOOLEAN : VerRdyIb(x) \in BOOLEAN
  BY DEF VerRdyIb
<1>2. \A x \in BOOLEAN : BbRdyIb(x, rdy) \in BOOLEAN
  BY DEF BbRdyIb, rrdy
<1>3. RegRdyIb(rdy) \in BOOLEAN
  BY DEF RegRdyIb
<1>4. HandlerRdyOb(sel, OB!rdyIb) \in BOOLEAN
  BY DEF HandlerRdyOb, OB!rdyIb
<1> QED
  BY <1>1, <1>2, <1>3, <1>4 DEF HandlerRdyIb

\* Every edge of the clock keeps the types of the device, and is a step of the
\* pipeline stages.
LEMMA DeviceStep ==
  ASSUME DeviceOK, toDev \in Seq(Byte), NEW inp, FromHost(inp), NEW rdyOut \in BOOLEAN, NEW rdy \in BOOLEAN,
         WrapperEdge(inp, rdyOut, rdy)
  PROVE  DeviceOK' /\ IBP!Next /\ OBP!Next
<1>1. DstTypeOK /\ MuxTypeOK /\ VerTypeOK /\ BbTypeOK /\ RegOK /\ StfOK /\ IBP!PipeInv /\ OBP!PipeInv
  BY DEF DeviceOK
<1>2. PICK ibr, obr, hr, hob :
        ibr = IB!rdyIb /\ obr = OB!rdyIb /\ hr = HandlerRdyIb(rdy) /\ hob = HandlerOb
  OBVIOUS
<1>3. /\ inp \in Bus(Byte) /\ ibr \in BOOLEAN /\ obr \in BOOLEAN /\ hr \in BOOLEAN
      /\ ibBuf \in Bus(Beat) /\ obBuf \in Bus(Beat) /\ RegErr \in BOOLEAN /\ Rdat[reg.addr] \in Byte
  BY <1>2, Wires, HandlerReady, Zenon
<1>4. DstTypeOK'
  BY <1>1, <1>2, <1>3, WrapperIs, DstKeepsType
<1>5. IBP!PipeInv' /\ IBP!Next
  <2>1. PICK w, r : w = DstOut(inp, ibr) /\ r = muxRdyIb(hr)
    OBVIOUS
  <2>2. w \in Bus(Beat) /\ r \in BOOLEAN
    BY <1>2, <1>3, <2>1, Wires, Zenon
  <2>3. IB!Edge(w, r)
    BY <1>2, <2>1, WrapperIs
  <2> QED
    BY <1>1, <2>2, <2>3, IbKeeps
<1>6. MuxTypeOK'
  <2>1. MuxEdge(ibBuf, hr, hob, obr)
    BY <1>2, WrapperIs
  <2> QED
    BY <1>1, <1>3, <2>1, MuxKeepsType, Zenon
<1>7. VerTypeOK'
  BY <1>1, WrapperIs, VerKeepsType, Zenon
<1>8. BbTypeOK'
  <2>1. PICK m, r : m = ToHandler("BITBANG", ibBuf) /\ r = HandlerRdyOb("BITBANG", obr)
    OBVIOUS
  <2>2. m \in Bus(Beat) /\ r \in BOOLEAN
    BY <1>3, <2>1, Wires, Zenon
  <2>3. BbEdge(m, r, rdy)
    BY <1>2, <2>1, WrapperIs
  <2> QED
    BY <1>1, <2>2, <2>3, BbKeepsType, Zenon
<1>9. RegOK'
  <2>1. PICK m, r, d, e : m = ToHandler("REG", ibBuf) /\ r = HandlerRdyOb("REG", obr) /\ d = Rdat[reg.addr] /\ e = RegErr
    OBVIOUS
  <2>2. m \in Bus(Beat) /\ r \in BOOLEAN /\ d \in Byte /\ e \in BOOLEAN
    BY <1>3, <2>1, Wires, Zenon
  <2>3. RegEdge(m, r, rdy, d, e)
    BY <1>2, <2>1, WrapperIs
  <2> QED
    BY <1>1, <2>2, <2>3, RegKeepsType, Zenon
<1>10. OBP!PipeInv' /\ OBP!Next
  <2>1. PICK w, r : w = muxOb(hob) /\ r = StfRdyInp(rdyOut)
    OBVIOUS
  <2>2. w \in Bus(Beat) /\ r \in BOOLEAN
    BY <1>2, <2>1, Wires, Zenon
  <2>3. OB!Edge(w, r)
    BY <1>2, <2>1, WrapperIs
  <2> QED
    BY <1>1, <2>2, <2>3, ObKeeps
<1>11. StfOK'
  <2>1. StfEdge(obBuf, rdyOut)
    BY WrapperIs
  <2> QED
    BY <1>1, <1>3, <2>1, StfKeepsType
<1> QED
  BY <1>4, <1>5, <1>6, <1>7, <1>8, <1>9, <1>10, <1>11 DEF DeviceOK

\* Where the mux is.
LEMMA MiddleIs ==
  ASSUME NEW F, Frames(F), NEW c, NEW f, NEW k, NEW g, NEW j, NEW w, Middle(F, c, f, k, g, j, w)
  PROVE  /\ c \in 1 .. Len(F) /\ (g = c \/ g = c + 1)
         /\ g = c + 1 => sel = "NONE" /\ w = 0 /\ Len(Writes(F[c])) = 0
<1>1. c \in 1 .. Len(F) /\ Len(F) \in Nat
  BY LenProperties DEF Middle, Frames
<1>2. ~AtErr(F, c, f, k, g, j, w) => g = c
  BY DEF Middle, AtIdle, AtCmd, AtFwd, AtWai
<1>3. CASE AtErr(F, c, f, k, g, j, w)
  <2>1. F[c] # <<>> /\ mux.cmd.dat = F[c][1] /\ Handler(F[c][1]) = "NONE" /\ w = 0 /\ (g = c + 1 \/ g = c)
    BY <1>3 DEF AtErr
  <2>2. F[c] \in Seq(Byte)
    BY <1>1, FrameOf
  <2>3. Len(Writes(F[c])) = 0
    BY <2>1, <2>2, NoWrites
  <2> QED
    BY <1>1, <2>1, <2>3 DEF sel
<1> QED
  BY <1>1, <1>2, <1>3

\* Where the stuffer is.
LEMMA OutIs ==
  ASSUME NEW F, NEW a, NEW g, NEW j, OutAt(F, a, g, j), StfTypeOK, OBP!PipeInv
  PROVE  /\ a \in Nat /\ g \in Nat /\ g >= a + 1
         /\ stf.state = "LST" => g >= a + 2
<1>1. PICK f, k : Answering(F, a, f, k) /\ OutPipe(F, f, k, g, j)
  BY DEF OutAt
<1>2. \A x \in Nat : \A v : NextF(x, v) \in Nat /\ NextF(x, v) >= x
  BY DEF NextF
<1>3. PICK b1, b2, f1 : b1 = obBuf /\ b2 = obOvfl /\ f1 = NextF(f, b1)
  OBVIOUS
<1>4. f \in Nat /\ g = NextF(f1, b2)
  BY <1>1, <1>3 DEF OutPipe
<1>5. f1 \in Nat /\ f1 >= f
  BY <1>2, <1>3, <1>4
<1>6. g \in Nat /\ g >= f1
  BY <1>2, <1>4, <1>5
<1>7. a \in Nat /\ (stf.state = "LST" => f = a + 2) /\ (stf.state # "LST" => f = NextF(a + 1, stf.held))
  BY <1>1 DEF Answering
<1>8. f >= a + 1 /\ (stf.state = "LST" => f >= a + 2)
  <2>1. NextF(a + 1, stf.held) >= a + 1
    BY <1>2, <1>7
  <2> QED
    BY <1>7, <2>1
<1> QED
  BY <1>4, <1>5, <1>6, <1>7, <1>8

\* A COMMA that ends an answer.
LEMMA EndIsLst ==
  ASSUME NEW F, NEW a, NEW g, NEW j, OutAt(F, a, g, j), StfTypeOK, NEW rdy \in BOOLEAN,
         NEW out, out = (IF rdy THEN datOb ELSE <<>>), FrameEnd(out)
  PROVE  stf.state = "LST"
<1>1. escRcvd = (stf.state = "STUFF")
  BY DEF OutAt, Answering
<1>2. out = <<COMMA>> /\ ~escRcvd /\ COMMA # ESCAP
  BY BusAssumption DEF FrameEnd
<1>3. stf.state # "STUFF" /\ datOb = <<COMMA>>
  BY <1>1, <1>2
<1>4. SUFFICES ASSUME stf.state = "FWD"
               PROVE  FALSE
  BY <1>3 DEF StfTypeOK
<1>5. StfOut(obBuf) = IF obBuf = <<>> THEN <<>>
                      ELSE IF Special(obBuf[1].dat) THEN <<ESCAP>>
                      ELSE <<obBuf[1].dat>>
  BY <1>4 DEF StfOut
<1>6. obBuf = <<>> \/ Special(obBuf[1].dat) \/ obBuf[1].dat # COMMA
  BY DEF Special
<1>7. \A x, y : (<<x>> = <<y>> => x = y) /\ <<x>> # <<>>
  OBVIOUS
<1> QED
  BY <1>2, <1>3, <1>5, <1>6, <1>7 DEF datOb

-----------------------------------------------------------------------------
(* The device: an edge of the clock, all blocks together. *)

\* F: the frames; a of them are answered.  The mux is at frame c, k bytes of
\* frame f left the host's side of it, j bytes of the reply to frame g are put
\* out by it, and w registers are written for c.
Traced(F, a, c, f, k, g, j, w, W, B) ==
  /\ Frames(F) /\ Due(F, a)
  /\ InAt(F, f, k) /\ Middle(F, c, f, k, g, j, w) /\ OutAt(F, a, g, j)
  /\ Log(F, c, w, W, B) /\ Kept(a, c, w, W, B)

Trace == \E F, a, c, f, k, g, j, w, W, B : Traced(F, a, c, f, k, g, j, w, W, B)

\* What EachFrameAnswered says of an answer that ends.
AnsweredWell ==
  /\ due[1] # <<>> /\ ~early
  /\ answer = Reply(due[1])
  /\ SubSeq(written, 1, Len(Writes(due[1]))) = Writes(due[1])
  /\ Len(due) = 1 => Cmd[due[1][1]] = "NONE"

\* The device puts out a byte or none; one that ends an answer answers well.
Puts(out) ==
  /\ toHost' = toHost \o out /\ \E wr : Answered(out, wr)
  /\ out # <<>> => Len(toHost) < LinkDepth /\ out = datOb
  /\ FrameEnd(out) => AnsweredWell

\* The history of the frames and of what was written at an edge of the clock.
LEMMA ClkHistory ==
  ASSUME NEW F, NEW a, NEW c, NEW f, NEW k, NEW g, NEW j, NEW w, NEW W, NEW B,
         Traced(F, a, c, f, k, g, j, w, W, B), StfTypeOK, OBP!PipeInv,
         NEW rdy \in BOOLEAN, NEW out, out = (IF rdy THEN datOb ELSE <<>>),
         NEW wr, Answered(out, wr), NEW c2, NEW w2, Logs(F, c, w, wr, c2, w2), sel = "NONE" => wr = <<>>,
         FrameEnd(out) => a \in Nat /\ Settled(F, a + 1) /\ MayEnd(F, a + 1) /\ answer = Reply(F[a + 1])
  PROVE  /\ FrameEnd(out) => AnsweredWell
         /\ \E W2, B2 : /\ Log(F, c2, w2, W2, B2)
                        /\ ~FrameEnd(out) => Due(F, a)' /\ Kept(a, c2, w2, W2, B2)'
                        /\ FrameEnd(out) => Due(F, a + 1)' /\ Kept(a + 1, c2, w2, W2, B2)'
<1>1. /\ Frames(F) /\ Due(F, a) /\ Middle(F, c, f, k, g, j, w) /\ OutAt(F, a, g, j)
      /\ Log(F, c, w, W, B) /\ Kept(a, c, w, W, B)
  BY DEF Traced
<1>2. /\ c \in 1 .. Len(F) /\ (g = c \/ g = c + 1)
      /\ g = c + 1 => sel = "NONE" /\ w = 0 /\ Len(Writes(F[c])) = 0
  BY <1>1, MiddleIs
<1>3. a \in Nat /\ g \in Nat /\ g >= a + 1 /\ (stf.state = "LST" => g >= a + 2)
  BY <1>1, OutIs
<1>4. Len(F) \in Nat /\ c \in Nat
  BY <1>1, <1>2, LenProperties DEF Frames
<1>5. a = c => g = c + 1
  BY <1>2, <1>3, <1>4
<1>6. FrameEnd(out) => a + 1 <= c /\ (a + 1 = c => g = c + 1)
  <2>1. FrameEnd(out) => stf.state = "LST"
    BY <1>1, EndIsLst
  <2> QED
    BY <1>2, <1>3, <1>4, <2>1
<1>7. /\ ~FrameEnd(out) => Due(F, a)'
      /\ FrameEnd(out) => /\ Due(F, a + 1)' /\ ~early /\ due[1] = F[a + 1] /\ due[1] # <<>>
                          /\ Len(due) = 1 => a + 1 = Len(F)
  BY <1>1, DueStep
<1>8. \E W2, B2 : /\ Log(F, c2, w2, W2, B2)
                  /\ ~FrameEnd(out) => Kept(a, c2, w2, W2, B2)'
                  /\ FrameEnd(out) => Kept(a + 1, c2, w2, W2, B2)'
  <2>1. a = c => wr = <<>>
    BY <1>2, <1>5
  <2>2. FrameEnd(out) => /\ a + 1 <= c /\ due[1] = F[a + 1]
                         /\ a + 1 = c => wr = <<>> /\ w = 0 /\ Len(Writes(F[c])) = 0
    BY <1>2, <1>6, <1>7
  <2> QED
    BY <1>1, <1>3, <2>1, <2>2, KeptStep
<1>9. FrameEnd(out) => AnsweredWell
  <2> SUFFICES ASSUME FrameEnd(out)
               PROVE  AnsweredWell
    OBVIOUS
  <2>1. due[1] # <<>> /\ ~early /\ answer = Reply(due[1])
    BY <1>7
  <2>2. SubSeq(written, 1, Len(Writes(due[1]))) = Writes(due[1])
    <3>1. CASE a + 1 < c
      BY <1>1, <1>3, <1>7, <3>1, WritesKept
    <3>2. CASE a + 1 = c
      <4>1. Len(Writes(F[c])) = 0 /\ F[c] \in Seq(Byte)
        BY <1>1, <1>2, <1>6, <3>2, FrameOf
      <4>2. Writes(F[c]) = <<>>
        BY <4>1, WritesAre, EmptySeq
      <4>3. SubSeq(written, 1, 0) = <<>>
        BY SubSeqEmpty
      <4> QED
        BY <1>7, <3>2, <4>1, <4>2, <4>3
    <3> QED
      BY <1>3, <1>4, <1>6, <3>1, <3>2
  <2>3. Len(due) = 1 => Cmd[due[1][1]] = "NONE"
    <3>1. Len(due) = 1 => ~(a + 1 < Len(F))
      BY <1>4, <1>7
    <3> QED
      BY <1>7, <3>1 DEF MayEnd
  <2> QED
    BY <2>1, <2>2, <2>3 DEF AnsweredWell
<1> QED
  BY <1>7, <1>8, <1>9

\* An edge of the clock.
LEMMA ClkTrace ==
  ASSUME Trace, DeviceOK, toDev \in Seq(Byte), NEW rdy \in BOOLEAN, Clk(rdy)
  PROVE  /\ Trace'
         /\ \E out \in Bus(Byte) : Puts(out)
<1>1. PICK F, a, c, f, k, g, j, w, W, B : Traced(F, a, c, f, k, g, j, w, W, B)
  BY DEF Trace
<1>2. /\ Frames(F) /\ InAt(F, f, k) /\ Middle(F, c, f, k, g, j, w) /\ OutAt(F, a, g, j)
  BY <1>1 DEF Traced
<1>3. PICK inp, rdyOut, out, wr :
        /\ inp = (IF toDev = <<>> THEN <<>> ELSE <<Head(toDev)>>)
        /\ rdyOut = (Len(toHost) < LinkDepth) /\ out = (IF rdyOut THEN datOb ELSE <<>>)
        /\ wr = LET toReg == ToHandler("REG", ibBuf)
                IN  IF RegWrite(toReg) /\ rdy /\ ~RegErr THEN <<<<reg.addr, toReg[1].dat>>>> ELSE <<>>
  OBVIOUS
<1>4. /\ WrapperEdge(inp, rdyOut, rdy)
      /\ toDev' = (IF inp # <<>> /\ rdyIb THEN Tail(toDev) ELSE toDev)
      /\ toHost' = toHost \o out /\ Answered(out, wr)
      /\ UNCHANGED <<host, escSent>>
  BY <1>3 DEF Clk
<1>5. FromHost(inp) /\ rdyOut \in BOOLEAN
  BY <1>3 DEF FromHost
<1>6. PICK q, q2, hr, hob, r, ob, mIb :
        /\ q = OB!rdyIb /\ q2 = HandlerRdyOb(sel, q) /\ hr = HandlerRdyIb(rdy) /\ hob = HandlerOb
        /\ r = muxRdyIb(hr) /\ ob = muxOb(hob) /\ mIb = ToHandler(sel, ibBuf)
  OBVIOUS
<1>7. /\ q \in BOOLEAN /\ hr \in BOOLEAN /\ r \in BOOLEAN /\ ob \in Bus(Beat) /\ ibBuf \in Bus(Beat)
      /\ RegTypeOK /\ StfTypeOK
  BY <1>5, <1>6, Wires, HandlerReady, Zenon
<1>8. DstTypeOK /\ MuxTypeOK /\ VerTypeOK /\ BbTypeOK /\ IBP!PipeInv /\ OBP!PipeInv
  BY DEF DeviceOK
<1>9. Ports(mIb, q2, rdy, hob, hr, wr)
  <2>1. /\ VerEdge(ToHandler("VERSION", ibBuf), HandlerRdyOb("VERSION", q))
        /\ BbEdge(ToHandler("BITBANG", ibBuf), HandlerRdyOb("BITBANG", q), rdy)
        /\ RegEdge(ToHandler("REG", ibBuf), HandlerRdyOb("REG", q), rdy, Rdat[reg.addr], RegErr)
    BY <1>4, <1>6, WrapperIs
  <2> QED
    BY <1>3, <1>6, <1>7, <1>8, <2>1, HasPorts
<1>10. Muxes(hob, hr, q, r, ob)
  <2>1. MuxEdge(ibBuf, hr, hob, q)
    BY <1>4, <1>6, WrapperIs
  <2> QED
    BY <1>6, <1>7, <1>8, <2>1 DEF Muxes, HandlersTypeOK
<1>11. Requested(F, f, k, ibBuf)
  BY <1>2 DEF InAt, InPipe
<1>12. PICK f2, k2, g2, j2 : Moved(r, f, k, ibBuf, f2, k2) /\ Moved(q, g, j, ob, g2, j2)
  <2>1. \A x \in BOOLEAN : \A u, v, b : \E u2, v2 : Moved(x, u, v, b, u2, v2)
    BY DEF Moved
  <2> QED
    BY <1>7, <2>1
<1>13. MuxStep(F, c, g, j, w, wr, ob, f2, k2, g2, j2)
  <2>1. Ports(ToHandler(sel, ibBuf), q2, rdy, hob, hr, wr) /\ q2 = HandlerRdyOb(sel, q)
    BY <1>6, <1>9
  <2> QED
    BY <1>2, <1>10, <1>11, <1>12, <2>1, ClkMux, Zenon
<1>14. PICK c2, w2 : Middle(F, c2, f2, k2, g2, j2, w2)' /\ Logs(F, c, w, wr, c2, w2)
  BY <1>13 DEF MuxStep
<1>15. InAt(F, f2, k2)'
  <2>1. /\ DstEdge(inp, IB!rdyIb) /\ IB!Edge(DstOut(inp, IB!rdyIb), r)
    BY <1>4, <1>6, WrapperIs
  <2> QED
    BY <1>2, <1>4, <1>5, <1>7, <1>8, <1>12, <2>1, ClkIn, Zenon
<1>16. /\ ~FrameEnd(out) => OutAt(F, a, g2, j2)'
       /\ FrameEnd(out) => /\ OutAt(F, a + 1, g2, j2)'
                           /\ a \in Nat /\ Settled(F, a + 1) /\ MayEnd(F, a + 1)
                           /\ answer = Reply(F[a + 1])
  <2>1. OB!Edge(ob, StfRdyInp(rdyOut)) /\ StfEdge(obBuf, rdyOut)
    BY <1>4, <1>6, WrapperIs
  <2>2. q => Replied(F, g, j, ob)
    BY <1>13 DEF MuxStep
  <2> QED
    BY <1>2, <1>3, <1>4, <1>5, <1>6, <1>7, <1>8, <1>12, <2>1, <2>2, ClkOut, Zenon
<1>17. sel = "NONE" => wr = <<>>
  BY <1>9 DEF Ports, Writing
<1>18. /\ FrameEnd(out) => AnsweredWell
       /\ \E W2, B2 : /\ Log(F, c2, w2, W2, B2)
                      /\ ~FrameEnd(out) => Due(F, a)' /\ Kept(a, c2, w2, W2, B2)'
                      /\ FrameEnd(out) => Due(F, a + 1)' /\ Kept(a + 1, c2, w2, W2, B2)'
  BY <1>1, <1>3, <1>4, <1>5, <1>7, <1>8, <1>14, <1>16, <1>17, ClkHistory, Zenon
<1>19. PICK W2, B2 : /\ Log(F, c2, w2, W2, B2)
                     /\ ~FrameEnd(out) => Due(F, a)' /\ Kept(a, c2, w2, W2, B2)'
                     /\ FrameEnd(out) => Due(F, a + 1)' /\ Kept(a + 1, c2, w2, W2, B2)'
  BY <1>18
<1>20. Trace'
  <2>1. Frames(F)' /\ Log(F, c2, w2, W2, B2)'
    BY <1>2, <1>19
  <2>2. CASE ~FrameEnd(out)
    <3>1. Traced(F, a, c2, f2, k2, g2, j2, w2, W2, B2)'
      BY <1>14, <1>15, <1>16, <1>19, <2>1, <2>2 DEF Traced
    <3> QED
      BY <3>1, Zenon DEF Trace
  <2>3. CASE FrameEnd(out)
    <3>1. PICK a2 : a2 = a + 1
      OBVIOUS
    <3>2. Traced(F, a2, c2, f2, k2, g2, j2, w2, W2, B2)'
      BY <1>14, <1>15, <1>16, <1>19, <2>1, <2>3, <3>1 DEF Traced
    <3> QED
      BY <3>2, Zenon DEF Trace
  <2> QED
    BY <2>2, <2>3
<1>21. out \in Bus(Byte) /\ (out # <<>> => Len(toHost) < LinkDepth)
  <2>1. datOb \in Bus(Byte)
    <3>1. obBuf \in Bus(Beat) /\ StfOK
      BY <1>5, Wires DEF DeviceOK
    <3> QED
      BY <3>1, StfOutType DEF datOb
  <2>2. <<>> \in Bus(Byte)
    BY DEF Bus
  <2> QED
    BY <1>3, <2>1, <2>2
<1>22. Puts(out)
  BY <1>3, <1>4, <1>18, <1>21 DEF Puts
<1> QED
  BY <1>20, <1>21, <1>22

-----------------------------------------------------------------------------
(* The host sends: what is known of the frames stays so when they grow. *)

\* F2 is F after the host sent something more.
Longer(s, t) == Len(s) <= Len(t) /\ \A i \in 1 .. Len(s) : t[i] = s[i]
Extends(F, F2) ==
  /\ Frames(F) /\ Frames(F2) /\ Len(F) <= Len(F2)
  /\ \A n \in 1 .. Len(F) - 1 : F2[n] = F[n]
  /\ Longer(F[Len(F)], F2[Len(F)])

\* What is known of frame n stays so.
LEMMA FrameStays ==
  ASSUME NEW F, NEW F2, Extends(F, F2), NEW n \in 1 .. Len(F)
  PROVE  /\ n \in 1 .. Len(F2) /\ Len(F) \in Nat /\ Len(F2) \in Nat
         /\ F[n] \in Seq(Byte) /\ F2[n] \in Seq(Byte) /\ Len(F[n]) \in Nat /\ Len(F2[n]) \in Nat
         /\ Len(F[n]) <= Len(F2[n]) /\ \A i \in 1 .. Len(F[n]) : F2[n][i] = F[n][i]
         /\ n < Len(F) => F2[n] = F[n] /\ n < Len(F2)
         /\ F[n] # <<>> => F2[n] # <<>> /\ F2[n][1] = F[n][1] /\ Len(F[n]) >= 1
<1>1. Frames(F) /\ Frames(F2) /\ Len(F) <= Len(F2) /\ Len(F) \in Nat /\ Len(F2) \in Nat
      /\ (\A m \in 1 .. Len(F) - 1 : F2[m] = F[m])
      /\ Longer(F[Len(F)], F2[Len(F)])
  BY LenProperties DEF Extends, Frames
<1>2. n \in 1 .. Len(F2) /\ (n < Len(F) => n \in 1 .. Len(F) - 1 /\ n < Len(F2))
  BY <1>1
<1>3. F[n] \in Seq(Byte) /\ F2[n] \in Seq(Byte)
  BY <1>1, <1>2, FrameOf
<1>4. Len(F[n]) \in Nat /\ Len(F2[n]) \in Nat
  BY <1>3, LenProperties
<1>5. Longer(F[n], F2[n])
  <2>1. CASE n < Len(F)
    <3>1. F2[n] = F[n]
      BY <1>1, <1>2, <2>1
    <3> QED
      BY <1>4, <3>1 DEF Longer
  <2>2. CASE n = Len(F)
    BY <1>1, <2>2
  <2> QED
    BY <1>1, <2>1, <2>2
<1>6. Len(F[n]) <= Len(F2[n]) /\ \A i \in 1 .. Len(F[n]) : F2[n][i] = F[n][i]
  BY <1>5 DEF Longer
<1>7. F[n] # <<>> => F2[n] # <<>> /\ F2[n][1] = F[n][1] /\ Len(F[n]) >= 1
  <2> SUFFICES ASSUME F[n] # <<>> PROVE F2[n] # <<>> /\ F2[n][1] = F[n][1] /\ Len(F[n]) >= 1
    OBVIOUS
  <2>1. Len(F[n]) >= 1
    BY <1>3, <1>4, EmptySeq
  <2>2. F2[n] # <<>>
    BY <1>3, <1>4, <1>6, <2>1, EmptySeq
  <2>3. 1 \in 1 .. Len(F[n])
    BY <1>4, <2>1
  <2> QED
    BY <1>6, <2>1, <2>2, <2>3
<1> QED
  BY <1>1, <1>2, <1>3, <1>4, <1>6, <1>7

\* A beat of a request stays one.
LEMMA RequestedStays ==
  ASSUME NEW F, NEW F2, Extends(F, F2), NEW f, NEW k, NEW w, Requested(F, f, k, w)
  PROVE  Requested(F2, f, k, w)
<1> SUFFICES ASSUME w # <<>>
             PROVE  Requested(F2, f, k, w)
  BY DEF Requested
<1>1. /\ f \in 1 .. Len(F) /\ k + 1 \in 1 .. Len(F[f]) /\ w[1].dat = F[f][k + 1]
      /\ w[1].lst => k + 1 = Len(F[f]) /\ f < Len(F)
      /\ ~w[1].lst => k + 1 < Len(F[f])
  BY DEF Requested
<1>2. /\ f \in 1 .. Len(F2) /\ Len(F) \in Nat /\ Len(F2) \in Nat
      /\ Len(F[f]) \in Nat /\ Len(F2[f]) \in Nat
      /\ Len(F[f]) <= Len(F2[f]) /\ \A i \in 1 .. Len(F[f]) : F2[f][i] = F[f][i]
      /\ f < Len(F) => F2[f] = F[f] /\ f < Len(F2)
  BY <1>1, FrameStays
<1>3. k + 1 \in 1 .. Len(F2[f]) /\ w[1].dat = F2[f][k + 1]
  BY <1>1, <1>2
<1>4. w[1].lst => k + 1 = Len(F2[f]) /\ f < Len(F2)
  BY <1>1, <1>2
<1>5. ~w[1].lst => k + 1 < Len(F2[f])
  <2>1. k + 1 < Len(F[f]) => k + 1 < Len(F2[f])
    BY <1>1, <1>2
  <2> QED
    BY <1>1, <2>1
<1> QED
  BY <1>2, <1>3, <1>4, <1>5 DEF Requested

\* A place stays one.
LEMMA PlaceStays ==
  ASSUME NEW F, NEW F2, Extends(F, F2), NEW x, PlaceOK(F, x)
  PROVE  PlaceOK(F2, x)
<1>1. /\ x \in Place /\ x.f \in 1 .. Len(F)
      /\ x.held # <<>> => x.k + 1 <= Len(F[x.f]) /\ x.held[1] = F[x.f][x.k + 1]
      /\ x.held = <<>> => x.k = 0
      /\ x.state \in {"INIT", "SYNC"} => x.held = <<>> /\ x.f = 1
  BY DEF PlaceOK
<1>2. PICK f, k : f = x.f /\ k = x.k
  OBVIOUS
<1>3. k \in Nat
  BY <1>1, <1>2 DEF Place
<1>4. /\ f \in 1 .. Len(F2) /\ Len(F[f]) \in Nat /\ Len(F2[f]) \in Nat
      /\ Len(F[f]) <= Len(F2[f]) /\ \A i \in 1 .. Len(F[f]) : F2[f][i] = F[f][i]
  BY <1>1, <1>2, FrameStays
<1>5. x.held # <<>> => k + 1 <= Len(F2[f]) /\ x.held[1] = F2[f][k + 1]
  <2> SUFFICES ASSUME x.held # <<>> PROVE k + 1 <= Len(F2[f]) /\ x.held[1] = F2[f][k + 1]
    OBVIOUS
  <2>1. k + 1 <= Len(F[f]) /\ x.held[1] = F[f][k + 1]
    BY <1>1, <1>2
  <2>2. k + 1 \in 1 .. Len(F[f]) /\ k + 1 <= Len(F2[f])
    BY <1>3, <1>4, <2>1
  <2> QED
    BY <1>4, <2>1, <2>2
<1> QED
  BY <1>1, <1>2, <1>4, <1>5 DEF PlaceOK

\* A byte that follows in F follows in F2.
LEMMA FitsStays ==
  ASSUME NEW F, NEW F2, Extends(F, F2), NEW x, NEW b, PlaceOK(F, x), Fits(F, x, b), PlaceOK(F, After(x, b))
  PROVE  Fits(F2, x, b)
<1>1. CASE x.state = "RUN" /\ b = COMMA /\ x.held # <<>>
  <2>1. x \in Place /\ x.f \in 1 .. Len(F) /\ x.k + 1 = Len(F[x.f])
    BY <1>1 DEF PlaceOK, Fits
  <2>2. After(x, b) = At("RUN", <<>>, x.f + 1, 0)
    BY <1>1, <2>1, AfterCases
  <2>3. x.f + 1 \in 1 .. Len(F)
    BY <2>2 DEF PlaceOK, At
  <2>4. x.f < Len(F)
    <3>1. Len(F) \in Nat
      BY <2>1, FrameStays
    <3> QED
      BY <2>1, <2>3, <3>1
  <2>5. F2[x.f] = F[x.f]
    BY <2>1, <2>4, FrameStays
  <2> QED
    BY <1>1, <2>1, <2>5 DEF Fits
<1>2. CASE ~(x.state = "RUN" /\ b = COMMA /\ x.held # <<>>)
  BY <1>2 DEF Fits
<1> QED
  BY <1>1, <1>2

\* A reply that is under way stays what it is.
LEMMA ReplyStays ==
  ASSUME NEW F, NEW F2, Extends(F, F2), NEW f, Settled(F, f)
  PROVE  /\ Settled(F2, f) /\ (MayEnd(F, f) => MayEnd(F2, f) /\ Reply(F2[f]) = Reply(F[f]))
         /\ Len(Reply(F[f])) \in Nat /\ Len(Reply(F2[f])) \in Nat /\ Len(Reply(F[f])) <= Len(Reply(F2[f]))
         /\ \A i \in 1 .. Len(Reply(F[f])) : Reply(F2[f])[i] = Reply(F[f])[i]
         /\ Reply(F2[f]) = Reply(F[f]) \/ ~MayEnd(F, f)
<1>1. f \in 1 .. Len(F) /\ F[f] # <<>> /\ (f = Len(F) => Cmd[F[f][1]] \in {"VERSION", "ECHO", "NONE"})
  BY DEF Settled
<1>2. /\ f \in 1 .. Len(F2) /\ Len(F) \in Nat /\ Len(F2) \in Nat
      /\ F[f] \in Seq(Byte) /\ F2[f] \in Seq(Byte)
      /\ Len(F[f]) \in Nat /\ Len(F2[f]) \in Nat
      /\ Len(F[f]) <= Len(F2[f]) /\ \A i \in 1 .. Len(F[f]) : F2[f][i] = F[f][i]
      /\ f < Len(F) => F2[f] = F[f] /\ f < Len(F2)
      /\ F2[f] # <<>> /\ F2[f][1] = F[f][1]
  BY <1>1, FrameStays
<1>3. Settled(F2, f)
  <2>1. f = Len(F2) => f = Len(F)
    BY <1>1, <1>2
  <2> QED
    BY <1>1, <1>2, <2>1 DEF Settled
<1>4. MayEnd(F, f) => MayEnd(F2, f)
  BY <1>1, <1>2 DEF MayEnd
<1>5. Len(Reply(F[f])) \in Nat /\ Len(Reply(F2[f])) \in Nat
  BY <1>1, <1>2, ReplyType
<1>6. CASE Reply(F2[f]) = Reply(F[f])
  BY <1>3, <1>4, <1>5, <1>6
<1>7. CASE Reply(F2[f]) # Reply(F[f])
  <2>1. f = Len(F) /\ Cmd[F[f][1]] = "ECHO"
    <3>1. f = Len(F)
      BY <1>1, <1>2, <1>7
    <3>2. Cmd[F[f][1]] = "NONE" => Reply(F2[f]) = <<CMD_ERROR>> /\ Reply(F[f]) = <<CMD_ERROR>>
      BY <1>2, ReplyCases
    <3>3. Cmd[F[f][1]] = "VERSION" => Reply(F2[f]) = <<F[f][1]>> \o VERSION /\ Reply(F[f]) = <<F[f][1]>> \o VERSION
      BY <1>2, ReplyCases
    <3> QED
      BY <1>1, <1>7, <3>1, <3>2, <3>3
  <2>2. Reply(F[f]) = F[f] /\ Reply(F2[f]) = F2[f]
    BY <1>2, <2>1, ReplyCases
  <2>3. ~MayEnd(F, f)
    BY <1>1, <1>2, <2>1 DEF MayEnd
  <2> QED
    BY <1>2, <1>3, <1>5, <2>2, <2>3
<1> QED
  BY <1>6, <1>7

\* A beat of a reply stays one.
LEMMA RepliedStays ==
  ASSUME NEW F, NEW F2, Extends(F, F2), NEW f, NEW k, NEW w, Replied(F, f, k, w)
  PROVE  Replied(F2, f, k, w)
<1> SUFFICES ASSUME w # <<>>
             PROVE  Replied(F2, f, k, w)
  BY DEF Replied
<1>1. /\ Settled(F, f) /\ k + 1 \in 1 .. Len(Reply(F[f]))
      /\ w[1].dat = Reply(F[f])[k + 1]
      /\ w[1].lst <=> k + 1 = Len(Reply(F[f]))
      /\ w[1].lst => MayEnd(F, f)
  BY DEF Replied
<1>2. PICK s, t : s = Reply(F[f]) /\ t = Reply(F2[f])
  OBVIOUS
<1>3. /\ Settled(F2, f) /\ (MayEnd(F, f) => MayEnd(F2, f) /\ t = s)
      /\ Len(s) \in Nat /\ Len(t) \in Nat /\ Len(s) <= Len(t)
      /\ \A i \in 1 .. Len(s) : t[i] = s[i]
  BY <1>1, <1>2, ReplyStays
<1>4. k + 1 \in 1 .. Len(t) /\ w[1].dat = t[k + 1]
  BY <1>1, <1>2, <1>3
<1>5. w[1].lst <=> k + 1 = Len(t)
  <2>1. CASE w[1].lst
    BY <1>1, <1>2, <1>3, <2>1
  <2>2. CASE ~w[1].lst
    <3>1. k + 1 # Len(s) /\ k + 1 \in 1 .. Len(s)
      BY <1>1, <1>2, <2>2
    <3>2. k + 1 # Len(t)
      BY <1>3, <3>1
    <3> QED
      BY <2>2, <3>2
  <2> QED
    BY <2>1, <2>2
<1> QED
  BY <1>1, <1>2, <1>3, <1>4, <1>5 DEF Replied

-----------------------------------------------------------------------------
(* The host sends: replies, handlers and the log when the frames grow. *)

\* The log is that of the longer frames, too.
LEMMA LogExtends ==
  ASSUME NEW F, NEW F2, Extends(F, F2), NEW c, NEW w, NEW W, NEW B, Log(F, c, w, W, B)
  PROVE  Log(F2, c, w, W, B)
<1>1. /\ c \in 1 .. Len(F) /\ w \in Nat
      /\ W \in Seq(Byte \X Byte) /\ Begins(F, c, B) /\ Len(W) = B[c] + w
      /\ \A n \in 1 .. c : \A i \in 1 .. Done(F, c, w, n) : W[B[n] + i] = WriteOf(F[n], i)
      /\ w > 0 => w + 2 <= Len(F[c])
  BY DEF Log
<1>2. /\ c \in 1 .. Len(F2) /\ Len(F) \in Nat /\ Len(F2) \in Nat /\ c \in Nat
      /\ Len(F[c]) \in Nat /\ Len(F2[c]) \in Nat
      /\ Len(F[c]) <= Len(F2[c]) /\ \A i \in 1 .. Len(F[c]) : F2[c][i] = F[c][i]
  BY <1>1, FrameStays
<1>3. \A n \in 1 .. c - 1 : F2[n] = F[n] /\ n < c
  <2> TAKE n \in 1 .. c - 1
  <2>1. n \in 1 .. Len(F) /\ n < Len(F) /\ n < c
    BY <1>1, <1>2
  <2> QED
    BY <2>1, FrameStays
<1>4. Begins(F2, c, B)
  BY <1>1, <1>3 DEF Begins
<1>5. w > 0 => w + 2 <= Len(F2[c])
  BY <1>1, <1>2
<1>6. \A n \in 1 .. c : \A i \in 1 .. Done(F2, c, w, n) : W[B[n] + i] = WriteOf(F2[n], i)
  <2> TAKE n \in 1 .. c
  <2> TAKE i \in 1 .. Done(F2, c, w, n)
  <2>1. CASE n < c
    <3>1. n \in 1 .. c - 1
      BY <1>2, <2>1
    <3>2. F2[n] = F[n]
      BY <1>3, <3>1
    <3>3. i \in 1 .. Done(F, c, w, n)
      BY <2>1, <3>2 DEF Done
    <3> QED
      BY <1>1, <3>2, <3>3
  <2>2. CASE n = c
    <3>1. i \in 1 .. w /\ i \in 1 .. Done(F, c, w, n)
      BY <1>2, <2>2 DEF Done
    <3>2. w > 0 /\ i \in Nat /\ i <= w
      BY <1>1, <3>1
    <3>3. 2 \in 1 .. Len(F[c]) /\ i + 2 \in 1 .. Len(F[c])
      BY <1>1, <1>2, <3>2
    <3>4. WriteOf(F2[c], i) = WriteOf(F[c], i)
      BY <1>2, <3>3 DEF WriteOf
    <3> QED
      BY <1>1, <2>2, <3>1, <3>4
  <2> QED
    BY <1>2, <2>1, <2>2
<1> QED
  BY <1>1, <1>2, <1>4, <1>5, <1>6 DEF Log

\* The answer is one to the longer frames, too.
LEMMA AnsweringStays ==
  ASSUME NEW F, NEW F2, Extends(F, F2), NEW a, NEW f, NEW k, Answering(F, a, f, k)
  PROVE  Answering(F2, a, f, k)
<1>1. /\ a \in Nat /\ answer \in Seq(Byte) /\ Len(answer) \in Nat
      /\ answer # <<>> => Settled(F, a + 1) /\ Len(answer) <= Len(Reply(F[a + 1]))
      /\ \A i \in 1 .. Len(answer) : answer[i] = Reply(F[a + 1])[i]
      /\ stf.state = "LST" => /\ answer # <<>> /\ Len(answer) = Len(Reply(F[a + 1]))
                              /\ MayEnd(F, a + 1) /\ f = a + 2 /\ k = 0
      /\ Replied(F, a + 1, Len(answer), stf.held)
  BY LenProperties DEF Answering
<1>2. Replied(F2, a + 1, Len(answer), stf.held)
  BY <1>1, RepliedStays
<1>3. PICK s, t : s = Reply(F[a + 1]) /\ t = Reply(F2[a + 1])
  OBVIOUS
<1>4. answer # <<>> => /\ Settled(F2, a + 1) /\ Len(answer) <= Len(t)
                       /\ \A i \in 1 .. Len(answer) : answer[i] = t[i]
                       /\ MayEnd(F, a + 1) => MayEnd(F2, a + 1) /\ t = s
  <2> SUFFICES ASSUME answer # <<>>
               PROVE  /\ Settled(F2, a + 1) /\ Len(answer) <= Len(t)
                      /\ \A i \in 1 .. Len(answer) : answer[i] = t[i]
                      /\ MayEnd(F, a + 1) => MayEnd(F2, a + 1) /\ t = s
    OBVIOUS
  <2>1. /\ Settled(F2, a + 1) /\ (MayEnd(F, a + 1) => MayEnd(F2, a + 1) /\ t = s)
        /\ Len(s) \in Nat /\ Len(t) \in Nat /\ Len(s) <= Len(t)
        /\ \A i \in 1 .. Len(s) : t[i] = s[i]
    BY <1>1, <1>3, ReplyStays
  <2>2. Len(answer) <= Len(s) /\ \A i \in 1 .. Len(answer) : answer[i] = s[i]
    BY <1>1, <1>3
  <2>3. \A i \in 1 .. Len(answer) : i \in 1 .. Len(s)
    BY <1>1, <2>1, <2>2
  <2> QED
    BY <1>1, <2>1, <2>2, <2>3
<1>5. answer = <<>> => \A i \in 1 .. Len(answer) : answer[i] = t[i]
  BY EmptySeq
<1>6. stf.state = "LST" => /\ answer # <<>> /\ Len(answer) = Len(t)
                           /\ MayEnd(F2, a + 1) /\ f = a + 2 /\ k = 0
  BY <1>1, <1>3, <1>4
<1> QED
  BY <1>1, <1>2, <1>3, <1>4, <1>5, <1>6 DEF Answering

\* Where the stuffer is, it stays.
LEMMA OutStays ==
  ASSUME NEW F, NEW F2, Extends(F, F2), NEW a, NEW g, NEW j, OutAt(F, a, g, j)
  PROVE  OutAt(F2, a, g, j)
<1>1. PICK f, k : Answering(F, a, f, k) /\ OutPipe(F, f, k, g, j)
  BY DEF OutAt
<1>2. Answering(F2, a, f, k)
  BY <1>1, AnsweringStays
<1>3. OutPipe(F2, f, k, g, j)
  <2>1. PICK f1, k1 : f1 = NextF(f, obBuf) /\ k1 = NextK(k, obBuf)
    OBVIOUS
  <2>2. /\ f \in Nat /\ k \in Nat /\ Replied(F, f, k, obBuf) /\ Replied(F, f1, k1, obOvfl)
        /\ g = NextF(f1, obOvfl) /\ j = NextK(k1, obOvfl)
    BY <1>1, <2>1 DEF OutPipe
  <2>3. Replied(F2, f, k, obBuf) /\ Replied(F2, f1, k1, obOvfl)
    BY <2>2, RepliedStays
  <2> QED
    BY <2>1, <2>2, <2>3 DEF OutPipe
<1> QED
  BY <1>2, <1>3 DEF OutAt

\* A handler that listens has only looked at what has come.
LEMMA BusyStays ==
  ASSUME NEW fr \in Seq(Byte), NEW f2 \in Seq(Byte), Len(fr) <= Len(f2), \A i \in 1 .. Len(fr) : f2[i] = fr[i],
         NEW h, NEW k \in 1 .. Len(fr) - 1, NEW j, NEW w, Busy(h, fr, k, j, w, TRUE)
  PROVE  Busy(h, f2, k, j, w, TRUE)
<1>1. Len(fr) \in Nat /\ Len(f2) \in Nat /\ k \in Nat /\ k >= 1 /\ k + 1 <= Len(fr)
  BY LenProperties
<1>2. f2[1] = fr[1]
  <2>1. 1 \in 1 .. Len(fr)
    BY <1>1
  <2> QED
    BY <2>1
<1>3. k >= 2 => f2[2] = fr[2]
  <2>1. k >= 2 => 2 \in 1 .. Len(fr)
    BY <1>1
  <2> QED
    BY <2>1
<1>4. BbBusy(fr, k, j, TRUE) => BbBusy(f2, k, j, TRUE)
  <2> SUFFICES ASSUME BbBusy(fr, k, j, TRUE)
               PROVE  BbBusy(f2, k, j, TRUE)
    OBVIOUS
  <2>1. /\ bb.state = "FWD" /\ j \in Nat /\ ~bb.lstSeen /\ k = j + Len(bb.held)
        /\ bb.held # <<>> => j + 1 <= Len(fr) /\ bb.held[1] = fr[j + 1]
    BY DEF BbBusy
  <2>2. bb.held # <<>> => j + 1 <= Len(f2) /\ bb.held[1] = f2[j + 1]
    <3>1. j + 1 <= Len(fr) => j + 1 <= Len(f2) /\ j + 1 \in 1 .. Len(fr)
      BY <1>1, <2>1
    <3> QED
      BY <2>1, <3>1
  <2> QED
    BY <2>1, <2>2 DEF BbBusy
<1>5. RegBusy(fr, k, j, w, TRUE) => RegBusy(f2, k, j, w, TRUE)
  <2> SUFFICES ASSUME RegBusy(fr, k, j, w, TRUE)
               PROVE  RegBusy(f2, k, j, w, TRUE)
    OBVIOUS
  <2>1. reg.cmd = f2[1] /\ Cmd[f2[1]] \in {"RD8", "WR8", "NOSUBCMD"} /\ RegAsks(fr, k, j, w)
    BY <1>2 DEF RegBusy
  <2>2. w \in Nat
    BY <2>1 DEF RegAsks
  <2>3. RegAsks(f2, k, j, w)
    <3>1. k = w + 2 \/ k = 2 \/ k > w + 2 => k >= 2
      BY <1>1, <2>2
    <3>2. /\ reg.state \in {"A8", "L8", "WR8", "DRAIN"}
          /\ j = 0 /\ reg.count = 0 - 1 /\ ~reg.rvld /\ w \in Nat
          /\ reg.state = "A8" => k = 1 /\ Cmd[f2[1]] \in {"RD8", "WR8"} /\ reg.err /\ w = 0
      BY <1>2, <2>1 DEF RegAsks
    <3>3. reg.state = "L8" => k = 2 /\ Cmd[f2[1]] = "RD8" /\ reg.addr = f2[2] /\ reg.err /\ w = 0
      BY <1>2, <1>3, <2>1, <3>1 DEF RegAsks
    <3>4. reg.state = "WR8" => /\ k = w + 2 /\ Cmd[f2[1]] = "WR8"
                               /\ reg.addr = Addr(f2[2], w) /\ GoodUpTo(f2[2], w)
      BY <1>2, <1>3, <2>1, <3>1 DEF RegAsks
    <3>5. reg.state = "DRAIN" => /\ reg.err
                                 /\ Cmd[f2[1]] = "WR8" => /\ k > w + 2 /\ GoodUpTo(f2[2], w)
                                                          /\ Addr(f2[2], w) \in BadAddr
                                 /\ Cmd[f2[1]] # "WR8" => w = 0
                                 /\ Cmd[f2[1]] = "RD8" => k >= 3
      BY <1>2, <1>3, <2>1, <3>1 DEF RegAsks
    <3> QED
      BY <3>2, <3>3, <3>4, <3>5 DEF RegAsks
  <2> QED
    BY <2>1, <2>3 DEF RegBusy
<1> QED
  BY <1>4, <1>5 DEF Busy

\* Where the mux is, it stays.
LEMMA MiddleStays ==
  ASSUME NEW F, NEW F2, Extends(F, F2), NEW c, NEW f, NEW k, NEW g, NEW j, NEW w, Middle(F, c, f, k, g, j, w)
  PROVE  Middle(F2, c, f, k, g, j, w)
<1>1. c \in 1 .. Len(F)
  BY DEF Middle
<1>2. PICK fr, f2 : fr = F[c] /\ f2 = F2[c]
  OBVIOUS
<1>3. /\ c \in 1 .. Len(F2) /\ Len(F) \in Nat /\ Len(F2) \in Nat
      /\ fr \in Seq(Byte) /\ f2 \in Seq(Byte) /\ Len(fr) \in Nat /\ Len(f2) \in Nat
      /\ Len(fr) <= Len(f2) /\ \A i \in 1 .. Len(fr) : f2[i] = fr[i]
      /\ c < Len(F) => f2 = fr /\ c < Len(F2)
      /\ fr # <<>> => f2 # <<>> /\ f2[1] = fr[1] /\ Len(fr) >= 1
  BY <1>1, <1>2, FrameStays
<1>4. AtCmd(F, c, f, k, g, j, w) => AtCmd(F2, c, f, k, g, j, w)
  BY RequestedStays DEF AtCmd
<1>5. AtFwd(F, c, f, k, g, j, w) => AtFwd(F2, c, f, k, g, j, w)
  <2> SUFFICES ASSUME AtFwd(F, c, f, k, g, j, w)
               PROVE  AtFwd(F2, c, f, k, g, j, w)
    OBVIOUS
  <2>1. fr # <<>> /\ k \in 1 .. Len(fr) - 1 /\ Busy(Handler(fr[1]), fr, k, j, w, TRUE)
    BY <1>2 DEF AtFwd
  <2>2. Busy(Handler(fr[1]), f2, k, j, w, TRUE)
    BY <1>3, <2>1, BusyStays
  <2>3. k \in 1 .. Len(f2) - 1
    BY <1>3, <2>1
  <2> QED
    BY <1>2, <1>3, <2>1, <2>2, <2>3 DEF AtFwd
<1>6. AtWai(F, c, f, k, g, j, w) => AtWai(F2, c, f, k, g, j, w)
  BY <1>2, <1>3 DEF AtWai
<1>7. AtErr(F, c, f, k, g, j, w) => AtErr(F2, c, f, k, g, j, w)
  <2> SUFFICES ASSUME AtErr(F, c, f, k, g, j, w)
               PROVE  AtErr(F2, c, f, k, g, j, w)
    OBVIOUS
  <2>1. ~mux.cmd.lst => k \in 1 .. Len(f2) - 1
    <3>1. ~mux.cmd.lst => k \in 1 .. Len(fr) - 1
      BY <1>2 DEF AtErr
    <3> QED
      BY <1>3, <3>1
  <2> QED
    BY <1>2, <1>3, <2>1 DEF AtErr
<1> QED
  BY <1>3, <1>4, <1>5, <1>6, <1>7 DEF Middle

-----------------------------------------------------------------------------
(* The host sends: the trace when the device stands still. *)

\* What only depends on the device stays while the device does.
LEMMA MiddleHolds ==
  ASSUME UNCHANGED device, NEW F, NEW c, NEW f, NEW k, NEW g, NEW j, NEW w, Middle(F, c, f, k, g, j, w)
  PROVE  Middle(F, c, f, k, g, j, w)'
<1>1. mux' = mux /\ ver' = ver /\ bb' = bb /\ reg' = reg
  BY DEF device
<1>2. AllRest => AllRest'
  BY <1>1 DEF AllRest, VerRests, BbRests, RegRests
<1>3. \A h, fr, l : Busy(h, fr, l, j, w, TRUE) => Busy(h, fr, l, j, w, TRUE)'
  <2> SUFFICES ASSUME NEW h, NEW fr, NEW l, Busy(h, fr, l, j, w, TRUE)
               PROVE  Busy(h, fr, l, j, w, TRUE)'
    OBVIOUS
  <2>1. (VerBusy(j, TRUE) => VerBusy(j, TRUE)') /\ (VerRests => VerRests')
    BY <1>1 DEF VerBusy, VerRests
  <2>2. (BbBusy(fr, l, j, TRUE) => BbBusy(fr, l, j, TRUE)') /\ (BbRests => BbRests')
    BY <1>1 DEF BbBusy, BbRests
  <2>3. (RegBusy(fr, l, j, w, TRUE) => RegBusy(fr, l, j, w, TRUE)') /\ (RegRests => RegRests')
    BY <1>1 DEF RegBusy, RegAsks, RegRests
  <2> QED
    BY <2>1, <2>2, <2>3 DEF Busy
<1>4. \A h, fr, l : Busy(h, fr, l, j, w, FALSE) => Busy(h, fr, l, j, w, FALSE)'
  <2> SUFFICES ASSUME NEW h, NEW fr, NEW l, Busy(h, fr, l, j, w, FALSE)
               PROVE  Busy(h, fr, l, j, w, FALSE)'
    OBVIOUS
  <2>1. (VerBusy(j, FALSE) => VerBusy(j, FALSE)') /\ (VerRests => VerRests')
    BY <1>1 DEF VerBusy, VerRests
  <2>2. (BbBusy(fr, l, j, FALSE) => BbBusy(fr, l, j, FALSE)') /\ (BbRests => BbRests')
    BY <1>1 DEF BbBusy, BbRests
  <2>3. (RegBusy(fr, l, j, w, FALSE) => RegBusy(fr, l, j, w, FALSE)') /\ (RegRests => RegRests')
    BY <1>1 DEF RegBusy, RegTells, RegRests
  <2> QED
    BY <2>1, <2>2, <2>3 DEF Busy
<1>5. AtIdle(c, f, k, g, j, w) => AtIdle(c, f, k, g, j, w)'
  BY <1>1, <1>2 DEF AtIdle
<1>6. AtCmd(F, c, f, k, g, j, w) => AtCmd(F, c, f, k, g, j, w)'
  BY <1>1, <1>2 DEF AtCmd
<1>7. AtFwd(F, c, f, k, g, j, w) => AtFwd(F, c, f, k, g, j, w)'
  BY <1>1, <1>3 DEF AtFwd
<1>8. AtWai(F, c, f, k, g, j, w) => AtWai(F, c, f, k, g, j, w)'
  BY <1>1, <1>4 DEF AtWai
<1>9. AtErr(F, c, f, k, g, j, w) => AtErr(F, c, f, k, g, j, w)'
  BY <1>1, <1>2 DEF AtErr
<1> QED
  BY <1>5, <1>6, <1>7, <1>8, <1>9 DEF Middle

\* The reply stays on its way.
LEMMA OutHolds ==
  ASSUME UNCHANGED <<device, answer, escRcvd>>, NEW F, NEW a, NEW g, NEW j, OutAt(F, a, g, j)
  PROVE  OutAt(F, a, g, j)'
<1>1. PICK f, k : Answering(F, a, f, k) /\ OutPipe(F, f, k, g, j)
  BY DEF OutAt
<1>2. stf' = stf /\ obBuf' = obBuf /\ obOvfl' = obOvfl /\ answer' = answer /\ escRcvd' = escRcvd
  BY DEF device
<1>3. Answering(F, a, f, k)'
  BY <1>1, <1>2 DEF Answering
<1>4. OutPipe(F, f, k, g, j)'
  BY <1>1, <1>2 DEF OutPipe
<1> QED
  BY <1>3, <1>4 DEF OutAt

\* What the host may add to the frames, and what becomes of the bytes then.
Sends(F, a, F2) ==
  /\ Extends(F, F2) /\ Due(F2, a)'
  /\ \A x : Arrives(F, x) => Arrives(F2, x)'

\* The request stays on its way.
LEMMA SendsIn ==
  ASSUME UNCHANGED device, NEW F, NEW a, NEW F2, Sends(F, a, F2), NEW f, NEW k, InAt(F, f, k)
  PROVE  InAt(F2, f, k)'
<1>1. PICK f2, k2 : InPipe(F, f, k, f2, k2) /\ Arrives(F, At(dst.state, dst.held, f2, k2))
  BY DEF InAt
<1>2. dst' = dst /\ ibBuf' = ibBuf /\ ibOvfl' = ibOvfl
  BY DEF device
<1>3. InPipe(F2, f, k, f2, k2)'
  <2>1. PICK f1, k1 : f1 = NextF(f, ibBuf) /\ k1 = NextK(k, ibBuf)
    OBVIOUS
  <2>2. /\ f \in Nat /\ k \in Nat /\ Requested(F, f, k, ibBuf) /\ Requested(F, f1, k1, ibOvfl)
        /\ f2 = NextF(f1, ibOvfl) /\ k2 = NextK(k1, ibOvfl)
    BY <1>1, <2>1 DEF InPipe
  <2>3. Requested(F2, f, k, ibBuf) /\ Requested(F2, f1, k1, ibOvfl)
    BY <2>2, RequestedStays DEF Sends
  <2>4. InPipe(F2, f, k, f2, k2)
    BY <2>1, <2>2, <2>3 DEF InPipe
  <2> QED
    BY <1>2, <2>4 DEF InPipe
<1>4. PICK x : x = At(dst.state, dst.held, f2, k2)
  OBVIOUS
<1>5. Arrives(F2, x)'
  BY <1>1, <1>4 DEF Sends
<1>6. x = At(dst.state, dst.held, f2, k2)'
  BY <1>2, <1>4
<1> QED
  BY <1>3, <1>5, <1>6 DEF InAt, Arrives, Way

\* A step of the host.
LEMMA HostTrace ==
  ASSUME UNCHANGED <<device, answer, escRcvd, written>>, Trace,
         \A F, a : Frames(F) /\ Due(F, a) => \E F2 : Sends(F, a, F2)
  PROVE  Trace'
<1>1. PICK F, a, c, f, k, g, j, w, W, B : Traced(F, a, c, f, k, g, j, w, W, B)
  BY DEF Trace
<1>2. /\ Frames(F) /\ Due(F, a) /\ InAt(F, f, k) /\ Middle(F, c, f, k, g, j, w) /\ OutAt(F, a, g, j)
      /\ Log(F, c, w, W, B) /\ Kept(a, c, w, W, B)
  BY <1>1 DEF Traced
<1>3. PICK F2 : Sends(F, a, F2)
  BY <1>2
<1>4. Extends(F, F2) /\ Due(F2, a)' /\ Frames(F2)
  BY <1>3 DEF Sends, Extends
<1>5. InAt(F2, f, k)'
  BY <1>2, <1>3, SendsIn, Zenon
<1>6. Middle(F2, c, f, k, g, j, w)'
  <2>1. Middle(F2, c, f, k, g, j, w)
    BY <1>2, <1>4, MiddleStays
  <2> QED
    BY <2>1, MiddleHolds
<1>7. OutAt(F2, a, g, j)'
  <2>1. OutAt(F2, a, g, j)
    BY <1>2, <1>4, OutStays
  <2> QED
    BY <2>1, OutHolds
<1>8. Log(F2, c, w, W, B)
  BY <1>2, <1>4, LogExtends
<1>9. Kept(a, c, w, W, B)'
  BY <1>2 DEF Kept
<1>10. Traced(F2, a, c, f, k, g, j, w, W, B)'
  BY <1>4, <1>5, <1>6, <1>7, <1>8, <1>9 DEF Traced
<1> QED
  BY <1>10, Zenon DEF Trace

-----------------------------------------------------------------------------
(* The host sends: one byte more in the frames. *)

\* The last frame got longer by byte b.
Added(F, b, F2) == F2 = [F EXCEPT ![Len(F)] = Append(@, b)]

\* The frames after byte b was sent, where no special byte is quoted if ~esc.
Grown(F, esc, b, F2) ==
  /\ esc \/ ~Special(b) => Added(F, b, F2)
  /\ ~esc /\ b = COMMA /\ F[Len(F)] # <<>> => F2 = Append(F, <<>>)
  /\ ~esc /\ (b = ESCAP \/ (b = COMMA /\ F[Len(F)] = <<>>)) => F2 = F

\* The last frame is the one that is being sent.
LEMMA LastFrame ==
  ASSUME NEW F, Frames(F)
  PROVE  /\ Len(F) \in Nat /\ Len(F) >= 1 /\ Len(F) \in 1 .. Len(F)
         /\ F[Len(F)] \in Seq(Byte) /\ Len(F[Len(F)]) \in Nat
<1>1. F \in Seq(Seq(Byte)) /\ F # <<>>
  BY DEF Frames
<1>2. Len(F) \in Nat /\ Len(F) >= 1
  BY <1>1, EmptySeq, LenProperties
<1> QED
  BY <1>1, <1>2, ElementOfSeq, LenProperties

\* Nothing sent is an extension, too.
LEMMA ExtendsItself ==
  ASSUME NEW F, Frames(F)
  PROVE  Extends(F, F)
BY LastFrame DEF Extends, Longer

\* The frames with one more byte in the last one.
LEMMA ByteAdded ==
  ASSUME NEW F, Frames(F), NEW b \in Byte, NEW F2, Added(F, b, F2)
  PROVE  /\ Extends(F, F2) /\ Len(F2) = Len(F) /\ (\A n \in 1 .. Len(F) - 1 : F2[n] = F[n])
         /\ F2[Len(F)] = Append(F[Len(F)], b)
         /\ Len(F2[Len(F)]) = Len(F[Len(F)]) + 1 /\ F2[Len(F)][Len(F[Len(F)]) + 1] = b
<1>1. F \in Seq(Seq(Byte)) /\ \A i \in 1 .. Len(F) - 1 : F[i] # <<>>
  BY DEF Frames
<1>2. PICK n, s, t : n = Len(F) /\ s = F[n] /\ t = Append(s, b)
  OBVIOUS
<1>3. n \in Nat /\ n >= 1 /\ n \in 1 .. n /\ s \in Seq(Byte) /\ Len(s) \in Nat
  BY <1>2, LastFrame
<1>4. t \in Seq(Byte) /\ Len(t) = Len(s) + 1 /\ t[Len(s) + 1] = b /\ \A i \in 1 .. Len(s) : t[i] = s[i]
  BY <1>2, <1>3, AppendProperties
<1>5. F2 = [F EXCEPT ![n] = t]
  BY <1>2 DEF Added
<1>6. F2 \in Seq(Seq(Byte)) /\ Len(F2) = n /\ \A i \in 1 .. n : F2[i] = IF i = n THEN t ELSE F[i]
  BY <1>1, <1>2, <1>3, <1>4, <1>5, ExceptSeq
<1>7. F2[n] = t /\ \A i \in 1 .. n - 1 : F2[i] = F[i] /\ F2[i] # <<>>
  <2>1. \A i \in 1 .. n - 1 : i \in 1 .. n /\ i # n
    BY <1>3
  <2> QED
    BY <1>1, <1>2, <1>3, <1>6, <2>1
<1>8. F2 # <<>>
  BY <1>3, <1>6, EmptySeq
<1>9. Frames(F2)
  BY <1>6, <1>7, <1>8 DEF Frames
<1>10. Longer(s, t)
  BY <1>3, <1>4 DEF Longer
<1>11. Extends(F, F2)
  BY <1>2, <1>3, <1>6, <1>7, <1>9, <1>10 DEF Extends
<1> QED
  BY <1>2, <1>4, <1>6, <1>7, <1>11

\* The frames with a new one behind them.
LEMMA FrameAdded ==
  ASSUME NEW F, Frames(F), F[Len(F)] # <<>>, NEW F2, F2 = Append(F, <<>>)
  PROVE  /\ Extends(F, F2) /\ Len(F2) = Len(F) + 1 /\ (\A n \in 1 .. Len(F) : F2[n] = F[n])
         /\ F2[Len(F) + 1] = <<>>
<1>1. F \in Seq(Seq(Byte)) /\ \A i \in 1 .. Len(F) - 1 : F[i] # <<>>
  BY DEF Frames
<1>2. Len(F) \in Nat /\ Len(F) >= 1 /\ Len(F) \in 1 .. Len(F) /\ Len(F[Len(F)]) \in Nat
  BY LastFrame
<1>3. <<>> \in Seq(Byte)
  OBVIOUS
<1>4. F2 \in Seq(Seq(Byte)) /\ Len(F2) = Len(F) + 1 /\ F2[Len(F) + 1] = <<>> /\ \A n \in 1 .. Len(F) : F2[n] = F[n]
  BY <1>1, <1>3, AppendProperties
<1>5. F2 # <<>> /\ \A i \in 1 .. Len(F2) - 1 : F2[i] # <<>>
  <2>1. \A i \in 1 .. Len(F2) - 1 : i \in 1 .. Len(F) /\ (i = Len(F) \/ i \in 1 .. Len(F) - 1)
    BY <1>2, <1>4
  <2> QED
    BY <1>1, <1>2, <1>4, <2>1, EmptySeq
<1>6. Frames(F2)
  BY <1>4, <1>5 DEF Frames
<1>7. Longer(F[Len(F)], F2[Len(F)])
  BY <1>2, <1>4 DEF Longer
<1>8. Len(F) <= Len(F2) /\ \A i \in 1 .. Len(F) - 1 : F2[i] = F[i]
  BY <1>2, <1>4
<1> QED
  BY <1>4, <1>6, <1>7, <1>8 DEF Extends

\* The frames after a byte was sent are frames, and extend those before.
LEMMA GrownIs ==
  ASSUME NEW F, Frames(F), NEW b \in Byte, NEW esc \in BOOLEAN
  PROVE  \E F2 : Grown(F, esc, b, F2) /\ Extends(F, F2)
<1>1. COMMA # ESCAP
  BY BusAssumption
<1>2. CASE esc \/ ~Special(b)
  <2>1. PICK F2 : Added(F, b, F2)
    BY DEF Added
  <2> QED
    BY <1>2, <2>1, ByteAdded DEF Grown, Special
<1>3. CASE ~esc /\ b = COMMA /\ F[Len(F)] # <<>>
  <2>1. PICK F2 : F2 = Append(F, <<>>)
    OBVIOUS
  <2> QED
    BY <1>1, <1>3, <2>1, FrameAdded DEF Grown, Special
<1>4. CASE ~esc /\ (b = ESCAP \/ (b = COMMA /\ F[Len(F)] = <<>>))
  BY <1>1, <1>4, ExtendsItself DEF Grown, Special
<1> QED
  BY <1>2, <1>3, <1>4 DEF Special

\* The frames that are due when a byte was sent.
LEMMA LastDue ==
  ASSUME NEW F, Frames(F), NEW a, Due(F, a)
  PROVE  Len(due) \in Nat /\ Len(due) >= 1 /\ due[Len(due)] = F[Len(F)] /\ a \in Nat
<1>1. Len(F) \in Nat /\ a \in Nat /\ due \in Seq(Seq(Byte)) /\ due # <<>>
  BY LenProperties DEF Frames, Due
<1>2. Len(due) \in Nat /\ Len(due) >= 1
  BY <1>1, EmptySeq, LenProperties
<1>3. CASE early
  <2>1. a = Len(F) /\ due = <<F[a]>>
    BY <1>3 DEF Due
  <2> QED
    BY <1>1, <1>2, <2>1
<1>4. CASE ~early
  <2>1. Len(due) = Len(F) - a /\ \A i \in 1 .. Len(due) : due[i] = F[a + i]
    BY <1>4 DEF Due
  <2>2. Len(due) \in 1 .. Len(due) /\ a + Len(due) = Len(F)
    BY <1>1, <1>2, <2>1
  <2> QED
    BY <1>1, <1>2, <2>1, <2>2
<1> QED
  BY <1>3, <1>4 DEF Due

\* What is due after a byte was sent.
LEMMA DueSent ==
  ASSUME NEW F, Frames(F), NEW a, Due(F, a), escSent \in BOOLEAN, NEW b \in Byte, Sent(b),
         NEW F2, Grown(F, escSent, b, F2)
  PROVE  Due(F2, a)'
<1>1. Len(F) \in Nat /\ Len(F) >= 1 /\ a \in Nat /\ a \in 0 .. Len(F)
      /\ due \in Seq(Seq(Byte)) /\ due # <<>> /\ early \in BOOLEAN
  BY LastFrame, LastDue DEF Due
<1>2. Len(due) \in Nat /\ Len(due) >= 1 /\ due[Len(due)] = F[Len(F)]
  BY LastDue
<1>3. COMMA # ESCAP
  BY BusAssumption
<1>4. PICK n, m, d, e : n = Len(F) /\ m = Len(due) /\ d = due' /\ e = early'
  OBVIOUS
<1>5. /\ early => a = n /\ due = <<F[a]>> /\ F[a] # <<>>
      /\ ~early => a < n /\ m = n - a /\ \A i \in 1 .. m : due[i] = F[a + i]
  BY <1>4 DEF Due
<1>6. CASE F2 = F /\ d = due /\ e = early
  BY <1>4, <1>6 DEF Due
<1>7. CASE escSent \/ ~Special(b)
  <2>1. d = [due EXCEPT ![m] = Append(due[m], b)] /\ e = early
    BY <1>4, <1>7 DEF Sent, Cur, Special
  <2>2. PICK s, t : s = F[n] /\ t = Append(s, b)
    OBVIOUS
  <2>3. s \in Seq(Byte) /\ Len(s) \in Nat /\ n \in 1 .. n
    BY <1>4, <2>2, LastFrame
  <2>4. t \in Seq(Byte) /\ Len(t) = Len(s) + 1
    BY <2>2, <2>3, AppendProperties
  <2>5. Len(F2) = n /\ (\A i \in 1 .. n - 1 : F2[i] = F[i]) /\ F2[n] = t
    <3>1. Added(F, b, F2)
      BY <1>7 DEF Grown
    <3>2. /\ Extends(F, F2) /\ Len(F2) = Len(F) /\ (\A i \in 1 .. Len(F) - 1 : F2[i] = F[i])
          /\ F2[Len(F)] = Append(F[Len(F)], b)
          /\ Len(F2[Len(F)]) = Len(F[Len(F)]) + 1 /\ F2[Len(F)][Len(F[Len(F)]) + 1] = b
      BY <3>1, ByteAdded
    <3> QED
      BY <1>4, <2>2, <3>2
  <2>6. d \in Seq(Seq(Byte)) /\ Len(d) = m /\ \A i \in 1 .. m : d[i] = IF i = m THEN t ELSE due[i]
    <3>1. m \in 1 .. Len(due) /\ due[m] = s
      BY <1>2, <1>4, <2>2
    <3> QED
      BY <1>1, <1>4, <2>1, <2>2, <2>4, <3>1, ExceptSeq
  <2>7. d # <<>>
    BY <1>2, <1>4, <2>6, EmptySeq
  <2>8. CASE early
    <3>1. m = 1 /\ a = n
      BY <1>4, <1>5, <2>8
    <3>2. d = <<t>>
      <4>1. <<t>> \in Seq(Seq(Byte)) /\ Len(<<t>>) = 1 /\ <<t>>[1] = t
        BY <2>4
      <4>2. Len(d) = 1 /\ d[1] = t
        BY <2>6, <3>1
      <4>3. \A i \in 1 .. Len(d) : d[i] = <<t>>[i]
        BY <4>1, <4>2
      <4> QED
        BY <2>6, <4>1, <4>2, <4>3, SeqEqual
    <3>3. t # <<>>
      BY <2>3, <2>4, EmptySeq
    <3>4. due' = <<F2[a]>> /\ F2[a] # <<>>
      BY <1>4, <2>5, <3>1, <3>2, <3>3
    <3>5. a >= 1 /\ a = Len(F2) /\ a \in 0 .. Len(F2)
      BY <1>1, <1>4, <2>5, <3>1
    <3>6. early' = early
      BY <1>4, <2>1
    <3>7. early' /\ early' \in BOOLEAN
      BY <1>1, <2>8, <3>6, Zenon
    <3>8. due' \in Seq(Seq(Byte)) /\ due' # <<>>
      BY <1>4, <2>6, <2>7
    <3> QED
      BY <3>4, <3>5, <3>7, <3>8, Zenon DEF Due
  <2>9. CASE ~early
    <3>1. a < n /\ m = n - a /\ \A i \in 1 .. m : due[i] = F[a + i]
      BY <1>5, <2>9
    <3>2. \A i \in 1 .. m : d[i] = F2[a + i]
      <4> TAKE i \in 1 .. m
      <4>1. CASE i = m
        <5>1. a + i = n
          BY <1>1, <1>4, <3>1, <4>1
        <5> QED
          BY <2>5, <2>6, <4>1, <5>1
      <4>2. CASE i # m
        <5>1. a + i \in 1 .. n - 1
          BY <1>1, <1>2, <1>4, <3>1, <4>2
        <5> QED
          BY <2>5, <2>6, <3>1, <4>2, <5>1
      <4> QED
        BY <4>1, <4>2
    <3>3. Len(d) = Len(F2) - a /\ a < Len(F2) /\ a \in 0 .. Len(F2)
      BY <1>1, <1>4, <2>5, <2>6, <3>1
    <3>4. early' = early
      BY <1>4, <2>1
    <3>5. ~early' /\ early' \in BOOLEAN
      BY <1>1, <2>9, <3>4, Zenon
    <3>6. \A i \in 1 .. Len(d) : d[i] = F2[a + i]
      BY <2>6, <3>2
    <3> QED
      BY <1>4, <2>6, <2>7, <3>3, <3>5, <3>6, Zenon DEF Due
  <2> QED
    BY <2>8, <2>9
<1>8. CASE ~escSent /\ b = COMMA /\ F[Len(F)] # <<>>
  <2>1. e = FALSE /\ d = (IF early THEN <<<<>>>> ELSE Append(due, <<>>))
    BY <1>2, <1>3, <1>4, <1>8 DEF Sent, Cur
  <2>2. Len(F2) = n + 1 /\ (\A i \in 1 .. n : F2[i] = F[i]) /\ F2[n + 1] = <<>>
    <3>1. F2 = Append(F, <<>>)
      BY <1>8 DEF Grown
    <3> QED
      BY <1>4, <1>8, <3>1, FrameAdded
  <2>3. <<>> \in Seq(Byte)
    OBVIOUS
  <2>4. /\ d \in Seq(Seq(Byte)) /\ d # <<>>
        /\ a < n + 1 /\ Len(d) = n + 1 - a /\ \A i \in 1 .. Len(d) : d[i] = F2[a + i]
    <3>1. CASE early
      <4>1. d = <<<<>>>> /\ a = n
        BY <1>5, <2>1, <3>1
      <4>2. d \in Seq(Seq(Byte)) /\ Len(d) = 1 /\ d[1] = <<>> /\ d # <<>>
        BY <2>3, <4>1
      <4> QED
        BY <1>1, <1>4, <2>2, <4>1, <4>2
    <3>2. CASE ~early
      <4>1. a < n /\ m = n - a /\ \A i \in 1 .. m : due[i] = F[a + i]
        BY <1>5, <3>2
      <4>2. /\ d \in Seq(Seq(Byte)) /\ Len(d) = m + 1 /\ d[m + 1] = <<>>
            /\ \A i \in 1 .. m : d[i] = due[i]
        BY <1>1, <1>4, <2>1, <2>3, <3>2, AppendProperties
      <4>3. d # <<>>
        BY <1>2, <1>4, <4>2, EmptySeq
      <4>4. \A i \in 1 .. Len(d) : d[i] = F2[a + i]
        <5> TAKE i \in 1 .. Len(d)
        <5>1. CASE i = m + 1
          <6>1. a + i = n + 1
            BY <1>1, <1>2, <1>4, <4>1, <5>1
          <6> QED
            BY <2>2, <4>2, <5>1, <6>1
        <5>2. CASE i # m + 1
          <6>1. n \in Nat /\ m \in Nat /\ a \in Nat /\ i \in 1 .. m + 1
            BY <1>1, <1>2, <1>4, <4>2
          <6>2. i \in 1 .. m /\ a + i \in 1 .. n
            BY <4>1, <5>2, <6>1
          <6> QED
            BY <2>2, <4>1, <4>2, <6>2
        <5> QED
          BY <5>1, <5>2
      <4>5. a < n + 1 /\ Len(d) = n + 1 - a
        <5>1. n \in Nat /\ m \in Nat
          BY <1>1, <1>2, <1>4
        <5> QED
          BY <1>1, <4>1, <4>2, <5>1
      <4> QED
        BY <4>2, <4>3, <4>4, <4>5
    <3> QED
      BY <1>1, <3>1, <3>2
  <2>5. a \in 0 .. Len(F2) /\ a < Len(F2) /\ Len(d) = Len(F2) - a
    BY <1>1, <1>4, <2>2, <2>4
  <2>6. ~early' /\ early' \in BOOLEAN
    <3>1. early' = FALSE
      BY <1>4, <2>1
    <3> QED
      BY <3>1
  <2> QED
    BY <1>4, <2>4, <2>5, <2>6, Zenon DEF Due
<1>9. CASE ~escSent /\ (b = ESCAP \/ (b = COMMA /\ F[Len(F)] = <<>>))
  <2>1. F2 = F
    BY <1>9 DEF Grown
  <2>2. d = due /\ e = early
    BY <1>2, <1>3, <1>4, <1>9 DEF Sent, Cur
  <2> QED
    BY <1>6, <2>1, <2>2
<1> QED
  BY <1>7, <1>8, <1>9 DEF Special

-----------------------------------------------------------------------------
(* The host sends: one byte more on the link. *)

\* The host and the link.
Hosts == [state : {"CLOSED", "OPEN", "IDLE", "BUSY"}, req : Requests \union {NoRequest}, tx : Seq(Byte),
          rx : {"RX", "ESC", "DONE"}, cmd : Bus(Byte), got : Seq(Byte)]

HostOK ==
  /\ host \in Hosts
  /\ toDev \in Seq(Byte) /\ toHost \in Seq(Byte)
  /\ Len(toDev) <= LinkDepth /\ Len(toHost) <= LinkDepth
  /\ escSent \in BOOLEAN

\* A byte is written: the first one of what is to be.
LEMMA WriteIs ==
  ASSUME HostOK, Write, NEW b, b = Head(host.tx)
  PROVE  /\ b \in Byte /\ host.tx \in Seq(Byte) /\ host.tx # <<>> /\ b = host.tx[1]
         /\ Len(toDev) \in Nat /\ Len(toDev') = Len(toDev) + 1 /\ toDev' \in Seq(Byte)
         /\ toDev'[Len(toDev) + 1] = b /\ \A i \in 1 .. Len(toDev) : toDev'[i] = toDev[i]
         /\ Len(toDev') <= LinkDepth /\ toHost' = toHost
         /\ host'.tx = Tail(host.tx) /\ host'.tx \in Seq(Byte) /\ Len(host'.tx) = Len(host.tx) - 1
         /\ \A i \in 1 .. Len(host'.tx) : host'.tx[i] = host.tx[i + 1]
         /\ host.state \in {"CLOSED", "OPEN", "IDLE", "BUSY"}
         /\ host.state = "OPEN" /\ Len(host.tx) = 1 => host'.state = "IDLE"
         /\ ~(host.state = "OPEN" /\ Len(host.tx) = 1) => host'.state = host.state
         /\ host' = [host EXCEPT !.tx = host'.tx, !.state = host'.state]
<1>1. PICK s, t : s = host.tx /\ t = Tail(s)
  OBVIOUS
<1>2. s \in Seq(Byte) /\ s # <<>> /\ host.state \in {"CLOSED", "OPEN", "IDLE", "BUSY"}
  BY <1>1 DEF HostOK, Hosts, Write
<1>3. b \in Byte /\ b = s[1] /\ t \in Seq(Byte) /\ Len(t) = Len(s) - 1 /\ \A i \in 1 .. Len(t) : t[i] = s[i + 1]
  BY <1>1, <1>2, HeadTailProperties
<1>4. toDev' = Append(toDev, b) /\ toHost' = toHost /\ Len(toDev) < LinkDepth /\ toDev \in Seq(Byte)
  BY DEF Write, HostOK
<1>5. /\ toDev' \in Seq(Byte) /\ Len(toDev') = Len(toDev) + 1 /\ toDev'[Len(toDev) + 1] = b
      /\ \A i \in 1 .. Len(toDev) : toDev'[i] = toDev[i]
  BY <1>3, <1>4, AppendProperties
<1>6. Len(toDev) \in Nat /\ Len(toDev') <= LinkDepth
  <2>1. Len(toDev) \in Nat /\ LinkDepth \in Nat
    BY <1>4, LenProperties, HostAssumption
  <2> QED
    BY <1>4, <1>5, <2>1
<1>7. PICK u : u = IF host.state = "OPEN" /\ Len(s) = 1 THEN "IDLE" ELSE host.state
  OBVIOUS
<1>8. host' = [host EXCEPT !.tx = t, !.state = u]
  BY <1>1, <1>7 DEF Write
<1>9. host'.tx = t /\ host'.state = u
  BY <1>8 DEF HostOK, Hosts
<1> QED
  BY <1>1, <1>2, <1>3, <1>4, <1>5, <1>6, <1>7, <1>8, <1>9

\* Writing keeps the types.
LEMMA WriteKeeps ==
  ASSUME HostOK, Write, NEW b, b = Head(host.tx), Sent(b)
  PROVE  HostOK'
<1>1. /\ toDev' \in Seq(Byte) /\ Len(toDev') <= LinkDepth /\ toHost' = toHost
      /\ host'.tx \in Seq(Byte) /\ host' = [host EXCEPT !.tx = host'.tx, !.state = host'.state]
      /\ host'.state \in {"CLOSED", "OPEN", "IDLE", "BUSY"}
  BY WriteIs
<1>2. escSent' \in BOOLEAN
  BY DEF Sent
<1> QED
  BY <1>1, <1>2 DEF HostOK, Hosts

\* The host synchronizes before it sends anything else.
LEMMA SyncsSent ==
  ASSUME HostOK, Write, NEW b, b = Head(host.tx), NEW e \in Place, HostSyncs(e)
  PROVE  /\ e.state \in {"INIT", "SYNC"} => b = COMMA
         /\ HostSyncs(After(e, b))'
<1>1. PICK e2 : e2 = After(e, b)
  OBVIOUS
<1>2. /\ e.state = "INIT" => e2.state = "SYNC"
      /\ e.state # "INIT" => e2.state \in {"RUN", "ESC"}
  BY <1>1, AfterCases DEF At, Special
<1>3. PICK s, t : s = host.tx /\ t = host'.tx
  OBVIOUS
<1>4. /\ host.state = "OPEN" => \A i \in 1 .. Len(s) : s[i] = COMMA
      /\ e.state = "INIT" => s = <<>> \/ (host.state = "OPEN" /\ Len(s) >= 2)
      /\ e.state = "SYNC" => s = <<>> \/ host.state = "OPEN"
      /\ host.state \in {"IDLE", "BUSY"} => e.state \notin {"INIT", "SYNC"}
      /\ host.state \in {"CLOSED", "IDLE"} => s = <<>>
  BY <1>3 DEF HostSyncs
<1>5. /\ s \in Seq(Byte) /\ s # <<>> /\ b = s[1] /\ t \in Seq(Byte) /\ Len(t) = Len(s) - 1
      /\ \A i \in 1 .. Len(t) : t[i] = s[i + 1]
      /\ host.state \in {"CLOSED", "OPEN", "IDLE", "BUSY"}
      /\ host.state = "OPEN" /\ Len(s) = 1 => host'.state = "IDLE"
      /\ ~(host.state = "OPEN" /\ Len(s) = 1) => host'.state = host.state
  BY <1>3, WriteIs
<1>6. Len(s) \in Nat /\ Len(s) >= 1 /\ Len(t) \in Nat
  BY <1>5, EmptySeq, LenProperties
<1>7. host.state = "OPEN" => b = COMMA
  BY <1>4, <1>5, <1>6
<1>8. e.state \in {"INIT", "SYNC"} => b = COMMA
  BY <1>4, <1>5, <1>7
<1>9. HostSyncs(e2)'
  <2>1. CASE host.state = "OPEN" /\ Len(s) = 1
    <3>1. host'.state = "IDLE" /\ Len(t) = 0
      BY <1>5, <1>6, <2>1
    <3>2. t = <<>>
      BY <1>5, <3>1, EmptySeq
    <3>3. e2.state # "INIT" /\ e2.state # "SYNC"
      BY <1>2, <1>4, <1>5, <2>1
    <3> QED
      BY <1>3, <3>1, <3>2, <3>3 DEF HostSyncs
  <2>2. CASE host.state = "OPEN" /\ Len(s) # 1
    <3>1. host'.state = "OPEN" /\ Len(t) >= 1
      BY <1>5, <1>6, <2>2
    <3>2. t # <<>>
      BY <3>1, EmptySeq
    <3>3. \A i \in 1 .. Len(t) : t[i] = COMMA
      <4>1. \A i \in 1 .. Len(t) : i + 1 \in 1 .. Len(s)
        BY <1>5, <1>6
      <4> QED
        BY <1>4, <1>5, <2>2, <4>1
    <3>4. e2.state # "INIT"
      BY <1>2
    <3> QED
      BY <1>3, <3>1, <3>2, <3>3, <3>4 DEF HostSyncs
  <2>3. CASE host.state # "OPEN"
    <3>1. host.state = "BUSY" /\ host'.state = "BUSY"
      BY <1>4, <1>5, <2>3
    <3>2. e2.state # "INIT" /\ e2.state # "SYNC"
      BY <1>2, <1>4, <3>1
    <3> QED
      BY <1>3, <3>1, <3>2 DEF HostSyncs
  <2> QED
    BY <2>1, <2>2, <2>3
<1> QED
  BY <1>1, <1>8, <1>9

\* Where everything sent is, when another byte was sent.
Ended(F, e, b, F2, e2) == PlaceOK(F2, e2) /\ Fits(F2, e, b) /\ AtEnd(F2, e2)'

\* The destuffer will be at the end again.
LEMMA EndSent ==
  ASSUME escSent \in BOOLEAN, NEW b \in Byte, Sent(b), NEW F, NEW F2, Grown(F, escSent, b, F2), Frames(F),
         NEW e, PlaceOK(F, e), AtEnd(F, e), e.state \in {"INIT", "SYNC"} => b = COMMA,
         NEW e2, e2 = After(e, b)
  PROVE  Ended(F, e, b, F2, e2)
<1>1. COMMA # ESCAP
  BY BusAssumption
<1>2. /\ e \in Place /\ (e.held = <<>> => e.k = 0)
      /\ e.held # <<>> => e.k + 1 <= Len(F[e.f]) /\ e.held[1] = F[e.f][e.k + 1]
      /\ e.state \in {"INIT", "SYNC"} => e.held = <<>> /\ e.f = 1
  BY DEF PlaceOK
<1>3. PICK n, k, s : n = Len(F) /\ k = e.k /\ s = F[n]
  OBVIOUS
<1>4. n \in Nat /\ n >= 1 /\ n \in 1 .. n /\ s \in Seq(Byte) /\ Len(s) \in Nat /\ k \in Nat
  BY <1>2, <1>3, LastFrame DEF Place
<1>5. e.f = n /\ k + Len(e.held) = Len(s) /\ (escSent <=> e.state = "ESC")
  BY <1>3 DEF AtEnd
<1>6. escSent' = (~escSent /\ b = ESCAP)
  BY DEF Sent
<1>7. /\ e.held = <<>> => Len(s) = 0 /\ s = <<>> /\ k = 0
      /\ e.held # <<>> => Len(s) = k + 1 /\ s # <<>>
  <2>1. e.held \in Bus(Byte)
    BY <1>2 DEF Place
  <2>2. CASE e.held = <<>>
    BY <1>2, <1>3, <1>4, <1>5, <2>2, EmptySeq
  <2>3. CASE e.held # <<>>
    <3>1. Len(e.held) = 1
      <4>1. PICK v \in Byte : e.held = <<v>>
        BY <2>1, <2>3 DEF Bus
      <4> QED
        BY <4>1
    <3> QED
      BY <1>4, <1>5, <2>3, <3>1, EmptySeq
  <2> QED
    BY <2>2, <2>3
<1>8. CASE e.state \in {"INIT", "SYNC"}
  <2>1. F2 = F
    BY <1>1, <1>3, <1>5, <1>2, <1>7, <1>8 DEF Grown
  <2>2. PICK st : e2 = At(st, e.held, e.f, e.k) /\ st \in {"SYNC", "RUN"}
    BY <1>2, <1>8, AfterCases
  <2>3. /\ e2 \in Place /\ e2.state = st /\ e2.held = <<>> /\ e2.f = e.f /\ e2.k = e.k /\ e.f = 1 /\ e.k = 0
    BY <1>2, <1>8, <2>2 DEF At, Place
  <2>4. PlaceOK(F, e2)
    BY <1>3, <1>4, <1>5, <2>3 DEF PlaceOK
  <2>5. Fits(F, e, b)
    BY <1>8 DEF Fits
  <2>6. AtEnd(F, e2)'
    BY <1>1, <1>3, <1>5, <1>6, <1>8, <1>2, <2>2, <2>3 DEF AtEnd
  <2> QED
    BY <2>1, <2>4, <2>5, <2>6 DEF Ended
<1>9. CASE e.state = "RUN" /\ b = ESCAP
  <2>1. F2 = F
    BY <1>1, <1>5, <1>9 DEF Grown
  <2>2. e2 = At("ESC", e.held, e.f, e.k)
    BY <1>2, <1>9, AfterCases
  <2>3. /\ e2 \in Place /\ e2.state = "ESC" /\ e2.held = e.held /\ e2.f = e.f /\ e2.k = e.k
    BY <1>2, <2>2 DEF At, Place
  <2>4. PlaceOK(F, e2)
    BY <2>3 DEF PlaceOK
  <2>5. Fits(F, e, b)
    BY <1>1, <1>9 DEF Fits
  <2>6. AtEnd(F, e2)'
    BY <1>3, <1>5, <1>6, <1>9, <2>3 DEF AtEnd
  <2> QED
    BY <2>1, <2>4, <2>5, <2>6 DEF Ended
<1>10. CASE e.state = "RUN" /\ b = COMMA /\ e.held = <<>>
  <2>1. F2 = F
    BY <1>1, <1>3, <1>5, <1>7, <1>10 DEF Grown
  <2>2. e2 = At("RUN", <<>>, e.f, 0)
    BY <1>2, <1>10, AfterCases
  <2>3. /\ e2 \in Place /\ e2.state = "RUN" /\ e2.held = e.held /\ e2.f = e.f /\ e2.k = e.k
    BY <1>2, <1>10, <2>2 DEF At, Place
  <2>4. PlaceOK(F, e2)
    BY <1>10, <2>3 DEF PlaceOK
  <2>5. Fits(F, e, b)
    BY <1>10 DEF Fits
  <2>6. AtEnd(F, e2)'
    BY <1>1, <1>3, <1>5, <1>6, <1>10, <2>3 DEF AtEnd
  <2> QED
    BY <2>1, <2>4, <2>5, <2>6 DEF Ended
<1>11. CASE e.state = "RUN" /\ b = COMMA /\ e.held # <<>>
  <2>1. F2 = Append(F, <<>>)
    BY <1>1, <1>3, <1>5, <1>7, <1>11 DEF Grown
  <2>2. Len(F2) = n + 1 /\ F2[n] = s /\ F2[n + 1] = <<>>
    BY <1>3, <1>4, <1>7, <1>11, <2>1, FrameAdded
  <2>3. e2 = At("RUN", <<>>, e.f + 1, 0)
    BY <1>2, <1>11, AfterCases
  <2>4. e2 \in Place /\ e2.state = "RUN" /\ e2.held = <<>> /\ e2.f = n + 1 /\ e2.k = 0
    BY <1>2, <1>5, <2>3 DEF At, Place, Bus
  <2>5. PlaceOK(F2, e2)
    BY <1>4, <2>2, <2>4 DEF PlaceOK
  <2>6. Fits(F2, e, b)
    BY <1>3, <1>5, <1>7, <1>11, <2>2 DEF Fits
  <2>7. AtEnd(F2, e2)'
    BY <1>1, <1>6, <1>11, <2>2, <2>4 DEF AtEnd
  <2> QED
    BY <2>5, <2>6, <2>7 DEF Ended
<1>12. CASE e.state = "ESC" \/ (e.state = "RUN" /\ ~Special(b))
  <2>1. Added(F, b, F2)
    BY <1>5, <1>12 DEF Grown
  <2>2. Len(F2) = n /\ Len(F2[n]) = Len(s) + 1 /\ F2[n][Len(s) + 1] = b
    <3>1. Len(F2) = Len(F) /\ Len(F2[Len(F)]) = Len(F[Len(F)]) + 1 /\ F2[Len(F)][Len(F[Len(F)]) + 1] = b
      BY <2>1, ByteAdded
    <3> QED
      BY <1>3, <3>1
  <2>3. PICK k2 : k2 = IF e.held = <<>> THEN e.k ELSE e.k + 1
    OBVIOUS
  <2>4. k2 = Len(s)
    BY <1>3, <1>7, <2>3
  <2>5. e2 = At("RUN", <<b>>, e.f, k2)
    BY <1>2, <1>12, <2>3, AfterCases
  <2>6. /\ e2 \in Place /\ e2.state = "RUN" /\ e2.held = <<b>> /\ e2.f = n /\ e2.k = Len(s)
    BY <1>4, <1>5, <2>4, <2>5, BeatOnBus DEF At, Place, Bus
  <2>7. PlaceOK(F2, e2)
    <3>1. e2.k + 1 <= Len(F2[e2.f]) /\ e2.held[1] = F2[e2.f][e2.k + 1] /\ e2.held # <<>>
      BY <1>4, <2>2, <2>6
    <3> QED
      BY <1>4, <2>2, <2>6, <3>1 DEF PlaceOK
  <2>8. Fits(F2, e, b)
    BY <1>12 DEF Fits, Special
  <2>9. AtEnd(F2, e2)'
    <3>1. escSent' = FALSE
      BY <1>5, <1>6, <1>12 DEF Special
    <3>2. e2.k + Len(e2.held) = Len(F2[Len(F2)])
      BY <1>4, <2>2, <2>6
    <3> QED
      BY <2>2, <2>6, <3>1, <3>2 DEF AtEnd
  <2> QED
    BY <2>7, <2>8, <2>9 DEF Ended
<1> QED
  BY <1>2, <1>8, <1>9, <1>10, <1>11, <1>12 DEF Place, Special

-----------------------------------------------------------------------------
(* The host sends: a step of writing. *)

\* The bytes on their way, when another one was sent.
LEMMA WayGrows ==
  ASSUME NEW F, NEW F2, Extends(F, F2), NEW X, NEW x, Way(F, X, x), Len(toDev) \in Nat,
         NEW b, Len(toDev') = Len(toDev) + 1, toDev'[Len(toDev) + 1] = b,
         \A i \in 1 .. Len(toDev) : toDev'[i] = toDev[i],
         NEW e, e = X[Len(toDev)], NEW e2, e2 = After(e, b), PlaceOK(F2, e2), Fits(F2, e, b)
  PROVE  \E Y : Way(F2, Y, x)' /\ Y[Len(toDev) + 1] = e2
<1>1. PICK n, t, u : n = Len(toDev) /\ t = toDev /\ u = toDev'
  OBVIOUS
<1>2. n \in Nat /\ Len(u) = n + 1 /\ u[n + 1] = b /\ \A i \in 1 .. n : u[i] = t[i]
  BY <1>1
<1>3. /\ X \in [0 .. n -> Place] /\ X[0] = x /\ e = X[n]
      /\ \A i \in 0 .. n : PlaceOK(F, X[i])
      /\ \A i \in 1 .. n : X[i] = After(X[i - 1], t[i]) /\ Fits(F, X[i - 1], t[i])
  BY <1>1 DEF Way
<1>4. PICK Y : Y = [i \in 0 .. n + 1 |-> IF i <= n THEN X[i] ELSE e2]
  OBVIOUS
<1>5. Y[n + 1] = e2 /\ \A i \in 0 .. n : Y[i] = X[i]
  BY <1>2, <1>4
<1>6. Y \in [0 .. n + 1 -> Place]
  <2>1. e2 \in Place
    BY DEF PlaceOK
  <2>2. \A i \in 0 .. n + 1 : i <= n => X[i] \in Place
    BY <1>2, <1>3
  <2> QED
    BY <1>4, <2>1, <2>2
<1>7. \A i \in 0 .. n + 1 : PlaceOK(F2, Y[i])
  <2> TAKE i \in 0 .. n + 1
  <2>1. CASE i \in 0 .. n
    BY <1>3, <1>5, <2>1, PlaceStays
  <2>2. CASE i = n + 1
    BY <1>5, <2>2
  <2> QED
    BY <1>2, <2>1, <2>2
<1>8. \A i \in 1 .. n + 1 : Y[i] = After(Y[i - 1], u[i]) /\ Fits(F2, Y[i - 1], u[i])
  <2> TAKE i \in 1 .. n + 1
  <2>1. CASE i \in 1 .. n
    <3>1. PICK m : m = i - 1
      OBVIOUS
    <3>2. m \in 0 .. n /\ i \in 0 .. n
      BY <1>2, <2>1, <3>1
    <3>3. X[i] = After(X[m], t[i]) /\ Fits(F, X[m], t[i]) /\ PlaceOK(F, X[m]) /\ PlaceOK(F, X[i])
      BY <1>3, <2>1, <3>1, <3>2
    <3>4. Fits(F2, X[m], t[i])
      BY <3>3, FitsStays
    <3>5. Y[i] = X[i] /\ Y[m] = X[m] /\ u[i] = t[i]
      BY <1>2, <1>5, <2>1, <3>2
    <3> QED
      BY <3>1, <3>3, <3>4, <3>5
  <2>2. CASE i = n + 1
    <3>1. i - 1 = n /\ n \in 0 .. n
      BY <1>2, <2>2
    <3>2. Y[i] = e2 /\ Y[i - 1] = e /\ u[i] = b
      BY <1>2, <1>3, <1>5, <2>2, <3>1
    <3> QED
      BY <3>2
  <2> QED
    BY <1>2, <2>1, <2>2
<1>9. Way(F2, Y, x)'
  <2>1. /\ Y \in [0 .. Len(u) -> Place] /\ Y[0] = x
        /\ \A i \in 0 .. Len(u) : PlaceOK(F2, Y[i])
        /\ \A i \in 1 .. Len(u) : Y[i] = After(Y[i - 1], u[i]) /\ Fits(F2, Y[i - 1], u[i])
    <3>1. 0 \in 0 .. n
      BY <1>2
    <3> QED
      BY <1>2, <1>3, <1>5, <1>6, <1>7, <1>8, <3>1
  <2> QED
    BY <1>1, <2>1 DEF Way
<1> QED
  BY <1>1, <1>5, <1>9

\* The host writes a byte.
LEMMA WriteTrace ==
  ASSUME HostOK, Trace, HostWrite
  PROVE  HostOK' /\ Trace'
<1>1. PICK b : b = Head(host.tx)
  OBVIOUS
<1>2. Write /\ Sent(b) /\ UNCHANGED <<device, answer, escRcvd, written>> /\ escSent \in BOOLEAN
  BY <1>1 DEF HostWrite, HostOK
<1>3. /\ b \in Byte /\ Len(toDev) \in Nat /\ Len(toDev') = Len(toDev) + 1 /\ toDev'[Len(toDev) + 1] = b
      /\ \A i \in 1 .. Len(toDev) : toDev'[i] = toDev[i]
  BY <1>1, <1>2, WriteIs
<1>4. ASSUME NEW F, NEW a, Frames(F), Due(F, a)
      PROVE  \E F2 : Sends(F, a, F2)
  <2>1. PICK esc \in BOOLEAN : esc = escSent
    BY <1>2
  <2>2. PICK F2 : Grown(F, esc, b, F2) /\ Extends(F, F2)
    BY <1>3, <1>4, GrownIs
  <2>3. Grown(F, escSent, b, F2)
    BY <2>1, <2>2
  <2>4. Due(F2, a)'
    BY <1>2, <1>3, <1>4, <2>3, DueSent, Zenon
  <2>5. ASSUME NEW x, Arrives(F, x)
        PROVE  Arrives(F2, x)'
    <3>1. PICK X : Way(F, X, x) /\ AtEnd(F, X[Len(toDev)]) /\ HostSyncs(X[Len(toDev)])
      BY <2>5 DEF Arrives
    <3>2. PICK e, e2 : e = X[Len(toDev)] /\ e2 = After(e, b)
      OBVIOUS
    <3>3. AtEnd(F, e) /\ HostSyncs(e) /\ PlaceOK(F, e) /\ e \in Place
      <4>1. Len(toDev) \in 0 .. Len(toDev)
        BY <1>3
      <4>2. PlaceOK(F, e)
        BY <3>1, <3>2, <4>1 DEF Way
      <4> QED
        BY <3>1, <3>2, <4>2 DEF PlaceOK
    <3>4. (e.state \in {"INIT", "SYNC"} => b = COMMA) /\ HostSyncs(e2)'
      BY <1>1, <1>2, <3>2, <3>3, SyncsSent
    <3>5. Ended(F, e, b, F2, e2)
      BY <1>2, <1>3, <1>4, <2>3, <3>2, <3>3, <3>4, EndSent, Zenon
    <3>6. PlaceOK(F2, e2) /\ Fits(F2, e, b) /\ AtEnd(F2, e2)'
      BY <3>5 DEF Ended
    <3>7. PICK Y : Way(F2, Y, x)' /\ Y[Len(toDev) + 1] = e2
      BY <1>3, <2>2, <3>1, <3>2, <3>6, WayGrows
    <3>8. Y[Len(toDev')] = e2
      BY <1>3, <3>7
    <3> QED
      BY <3>4, <3>6, <3>7, <3>8 DEF Arrives, AtEnd, HostSyncs
  <2>6. Sends(F, a, F2)
    BY <2>2, <2>4, <2>5 DEF Sends
  <2> QED
    BY <2>6
<1> QED
  BY <1>1, <1>2, <1>4, HostTrace, WriteKeeps

-----------------------------------------------------------------------------
(* Functions by recursion: that they exist, and what their steps keep. *)

\* g takes s through the steps G.
Iterated(n, G, s, g) == g[0] = s /\ \A i \in 1 .. n : g[i] = G[i][g[i - 1]]

\* A function defined by recursion exists, and has a property that each of
\* its steps keeps.
LEMMA Iterates ==
  ASSUME NEW n \in Nat, NEW S, NEW s \in S, NEW G \in [1 .. n -> [S -> S]]
  PROVE  \E g \in [0 .. n -> S] : Iterated(n, G, s, g)
<1> DEFINE Upto(m, g) == /\ g \in [0 .. m -> S] /\ g[0] = s
                         /\ \A i \in 1 .. m : g[i] = G[i][g[i - 1]]
           T == {m \in Nat : m <= n => \E g : Upto(m, g)}
<1>1. 0 \in T
  <2>1. Upto(0, [i \in 0 .. 0 |-> s])
    OBVIOUS
  <2> QED
    BY <2>1
<1>2. \A m \in Nat : m \in T => m + 1 \in T
  <2> SUFFICES ASSUME NEW m \in Nat, m <= n => \E g : Upto(m, g), m + 1 <= n
               PROVE  \E g : Upto(m + 1, g)
    OBVIOUS
  <2>1. PICK g : Upto(m, g)
    OBVIOUS
  <2>2. PICK x : x = G[m + 1][g[m]]
    OBVIOUS
  <2>3. x \in S
    <3>1. m + 1 \in 1 .. n /\ m \in 0 .. m
      OBVIOUS
    <3> QED
      BY <2>1, <2>2, <3>1
  <2>4. PICK k : k = [i \in 0 .. m + 1 |-> IF i <= m THEN g[i] ELSE x]
    OBVIOUS
  <2>5. k \in [0 .. m + 1 -> S]
    <3>1. \A i \in 0 .. m + 1 : i <= m => g[i] \in S
      BY <2>1
    <3> QED
      BY <2>3, <2>4, <3>1
  <2>6. k[m + 1] = x /\ \A i \in 0 .. m : k[i] = g[i]
    BY <2>4
  <2>7. \A i \in 1 .. m + 1 : k[i] = G[i][k[i - 1]]
    <3> TAKE i \in 1 .. m + 1
    <3>1. CASE i = m + 1
      <4>1. i - 1 = m /\ m \in 0 .. m
        BY <3>1
      <4> QED
        BY <2>2, <2>6, <3>1, <4>1
    <3>2. CASE i # m + 1
      <4>1. i \in 1 .. m /\ i \in 0 .. m /\ i - 1 \in 0 .. m
        BY <3>2
      <4> QED
        BY <2>1, <2>6, <4>1
    <3> QED
      BY <3>1, <3>2
  <2>8. k[0] = s
    <3>1. 0 \in 0 .. m
      OBVIOUS
    <3> QED
      BY <2>1, <2>6, <3>1
  <2>9. Upto(m + 1, k)
    BY <2>5, <2>7, <2>8
  <2> QED
    BY <2>9
<1>3. Nat \subseteq T
  <2> HIDE DEF T
  <2> QED
    BY <1>1, <1>2, Induct
<1> QED
  BY <1>3 DEF Iterated

\* What each step keeps holds at the end.
LEMMA Along ==
  ASSUME NEW n \in Nat, NEW S, NEW h, h[0] \in S, \A i \in 1 .. n : h[i - 1] \in S => h[i] \in S
  PROVE  h[n] \in S
<1> DEFINE T == {m \in Nat : m <= n => h[m] \in S}
<1>1. 0 \in T
  OBVIOUS
<1>2. \A m \in Nat : m \in T => m + 1 \in T
  <2> SUFFICES ASSUME NEW m \in Nat, m <= n => h[m] \in S, m + 1 <= n
               PROVE  h[m + 1] \in S
    OBVIOUS
  <2>1. PICK k : k = m + 1
    OBVIOUS
  <2>2. k \in 1 .. n /\ k - 1 = m
    BY <2>1
  <2> QED
    BY <2>1, <2>2
<1>3. Nat \subseteq T
  <2> HIDE DEF T
  <2> QED
    BY <1>1, <1>2, Induct
<1> QED
  BY <1>3

\* The bytes that are to be written for a frame.
Quoted(b) == IF Special(b) THEN <<ESCAP, b>> ELSE <<b>>

\* g: what is written for the first bytes of a frame.
Stuffing(f, g) ==
  /\ g \in [0 .. Len(f) -> Seq(Byte)] /\ g[0] = <<>>
  /\ \A i \in 1 .. Len(f) : g[i] = g[i - 1] \o Quoted(f[i])

\* The stuffed form of a frame is that of all its bytes.
LEMMA StuffedBy ==
  ASSUME NEW f \in Seq(Byte)
  PROVE  \E g : Stuffing(f, g) /\ Stuffed(f) = g[Len(f)]
<1>1. PICK n : n = Len(f)
  OBVIOUS
<1>2. n \in Nat /\ \A i \in 1 .. n : f[i] \in Byte
  BY <1>1, LenProperties, ElementOfSeq
<1>3. \A s \in Seq(Byte), i \in 1 .. n : s \o Quoted(f[i]) \in Seq(Byte)
  <2> TAKE s \in Seq(Byte), i \in 1 .. n
  <2>1. <<ESCAP, f[i]>> \in Seq(Byte) /\ <<f[i]>> \in Seq(Byte)
    BY <1>2, BusAssumption
  <2>2. Quoted(f[i]) \in Seq(Byte)
    BY <2>1 DEF Quoted
  <2> QED
    BY <2>2, ConcatProperties
<1>4. PICK h : /\ h = CHOOSE g : g = [i \in 0 .. n |-> IF i = 0 THEN <<>> ELSE g[i - 1] \o Quoted(f[i])]
               /\ Stuffed(f) = h[n]
  BY <1>1 DEF Stuffed, Quoted
<1>5. \E g : g = [i \in 0 .. n |-> IF i = 0 THEN <<>> ELSE g[i - 1] \o Quoted(f[i])]
  <2>1. PICK G : G = [i \in 1 .. n |-> [s \in Seq(Byte) |-> s \o Quoted(f[i])]]
    OBVIOUS
  <2>2. G \in [1 .. n -> [Seq(Byte) -> Seq(Byte)]]
    BY <1>3, <2>1
  <2>3. <<>> \in Seq(Byte)
    OBVIOUS
  <2>4. PICK g \in [0 .. n -> Seq(Byte)] : g[0] = <<>> /\ \A i \in 1 .. n : g[i] = G[i][g[i - 1]]
    <3>1. \E g \in [0 .. n -> Seq(Byte)] : Iterated(n, G, <<>>, g)
      BY <1>2, <2>2, <2>3, Iterates
    <3> QED
      BY <3>1 DEF Iterated
  <2>7. \A i \in 1 .. n : G[i][g[i - 1]] = g[i - 1] \o Quoted(f[i])
    <3>1. \A i \in 1 .. n : i - 1 \in 0 .. n
      BY <1>2
    <3> QED
      BY <2>1, <2>4, <3>1
  <2>8. g = [i \in 0 .. n |-> IF i = 0 THEN <<>> ELSE g[i - 1] \o Quoted(f[i])]
    <3>1. \A i \in 0 .. n : i = 0 \/ i \in 1 .. n
      BY <1>2
    <3> QED
      BY <2>4, <2>7, <3>1
  <2> QED
    BY <2>8
<1>6. h = [i \in 0 .. n |-> IF i = 0 THEN <<>> ELSE h[i - 1] \o Quoted(f[i])]
  BY <1>4, <1>5
<1>7. h[0] = <<>> /\ \A i \in 1 .. n : h[i] = h[i - 1] \o Quoted(f[i])
  BY <1>2, <1>6
<1>8. \A m \in 0 .. n : h[m] \in Seq(Byte)
  <2> TAKE m \in 0 .. n
  <2>1. h[0] \in Seq(Byte)
    BY <1>7
  <2>2. \A i \in 1 .. m : h[i - 1] \in Seq(Byte) => h[i] \in Seq(Byte)
    <3>1. \A i \in 1 .. m : i \in 1 .. n
      BY <1>2
    <3> QED
      BY <1>3, <1>7, <3>1, Zenon
  <2>3. m \in Nat
    BY <1>2
  <2> QED
    BY <2>1, <2>2, <2>3, Along, Zenon
<1>9. h \in [0 .. n -> Seq(Byte)]
  BY <1>6, <1>8
<1> QED
  BY <1>1, <1>4, <1>7, <1>9 DEF Stuffing

\* It is a sequence of bytes.
LEMMA StuffedType ==
  ASSUME NEW f \in Seq(Byte)
  PROVE  Stuffed(f) \in Seq(Byte)
<1>1. PICK g : Stuffing(f, g) /\ Stuffed(f) = g[Len(f)]
  BY StuffedBy
<1>2. Len(f) \in 0 .. Len(f)
  BY LenProperties
<1> QED
  BY <1>1, <1>2 DEF Stuffing

-----------------------------------------------------------------------------
(* The host reads. *)

\* A byte that is read keeps the types of the host.
LEMMA RxByteType ==
  ASSUME NEW h \in Hosts, NEW b \in Byte
  PROVE  RxByte(h, b) \in Hosts /\ RxByte(h, b).state = h.state /\ RxByte(h, b).tx = h.tx
         /\ RxByte(h, b).req = h.req
<1>1. <<b>> \in Bus(Byte)
  BY OneOnBus
<1>2. PICK l : l = Append(h.got, b)
  OBVIOUS
<1>3. l \in Seq(Byte)
  BY <1>2, AppendProperties DEF Hosts
<1>4. CASE h.rx # "ESC" /\ b = COMMA
  BY <1>4 DEF RxByte, Hosts
<1>5. CASE h.rx # "ESC" /\ b = ESCAP /\ b # COMMA
  BY <1>5 DEF RxByte, Hosts
<1>6. CASE ~(h.rx # "ESC" /\ (b = COMMA \/ b = ESCAP)) /\ h.cmd = <<>>
  BY <1>1, <1>6 DEF RxByte, Hosts
<1>7. CASE ~(h.rx # "ESC" /\ (b = COMMA \/ b = ESCAP)) /\ h.cmd # <<>>
  <2>1. PICK u : u = IF Len(h.got) < h.req.rlen THEN l ELSE h.got
    OBVIOUS
  <2>2. u \in Seq(Byte)
    BY <1>3, <2>1 DEF Hosts
  <2>3. RxByte(h, b) = [h EXCEPT !.rx = "RX", !.got = u]
    BY <1>2, <1>7, <2>1 DEF RxByte
  <2> QED
    BY <2>2, <2>3 DEF Hosts
<1> QED
  BY <1>4, <1>5, <1>6, <1>7

\* One byte of a read.
RxStep(h, b) == IF h.rx = "DONE" THEN h ELSE RxByte(h, b)

\* The host behind each of the bytes of a read.
LEMMA ReadBy ==
  ASSUME HostOK, NEW n, Read(n)
  PROVE  \E g : /\ g[0] = host /\ g[n] = host'
                /\ \A i \in 1 .. n : g[i] = RxStep(g[i - 1], toHost[i])
                /\ \A i \in 0 .. n : /\ g[i] \in Hosts /\ g[i].state = host.state /\ g[i].tx = host.tx
                                      /\ g[i].req = host.req
<1>1. PICK s, h0 : s = toHost /\ h0 = host
  OBVIOUS
<1>2. s \in Seq(Byte) /\ Len(s) \in Nat /\ h0 \in Hosts
  BY <1>1, LenProperties DEF HostOK, Hosts
<1>3. n \in 1 .. Len(s) /\ h0.state = "BUSY" /\ toDev' = toDev /\ toHost' = SubSeq(s, n + 1, Len(s))
  BY <1>1 DEF Read
<1>4. n \in Nat /\ \A i \in 1 .. n : s[i] \in Byte
  BY <1>2, <1>3, ElementOfSeq
<1>5. PICK S : S = {h \in Hosts : h.state = h0.state /\ h.tx = h0.tx /\ h.req = h0.req}
  OBVIOUS
<1>6. \A h \in S, i \in 1 .. n : RxStep(h, s[i]) \in S
  BY <1>4, <1>5, RxByteType DEF RxStep
<1>7. PICK f : /\ f = CHOOSE g : g = [i \in 0 .. n |-> IF i = 0 THEN h0 ELSE RxStep(g[i - 1], s[i])]
               /\ host' = f[n]
  BY <1>1 DEF Read, RxStep
<1>8. h0 \in S
  BY <1>2, <1>5
<1>9. \E g : g = [i \in 0 .. n |-> IF i = 0 THEN h0 ELSE RxStep(g[i - 1], s[i])]
  <2>1. PICK G : G = [i \in 1 .. n |-> [h \in S |-> RxStep(h, s[i])]]
    OBVIOUS
  <2>2. G \in [1 .. n -> [S -> S]]
    BY <1>6, <2>1
  <2>3. PICK g \in [0 .. n -> S] : g[0] = h0 /\ \A i \in 1 .. n : g[i] = G[i][g[i - 1]]
    <3>1. \E g \in [0 .. n -> S] : Iterated(n, G, h0, g)
      BY <1>4, <1>8, <2>2, Iterates
    <3> QED
      BY <3>1 DEF Iterated
  <2>4. \A i \in 1 .. n : G[i][g[i - 1]] = RxStep(g[i - 1], s[i])
    <3>1. \A i \in 1 .. n : i - 1 \in 0 .. n
      BY <1>4
    <3> QED
      BY <2>1, <2>3, <3>1
  <2>5. g = [i \in 0 .. n |-> IF i = 0 THEN h0 ELSE RxStep(g[i - 1], s[i])]
    <3>1. \A i \in 0 .. n : i = 0 \/ i \in 1 .. n
      BY <1>4
    <3> QED
      BY <2>3, <2>4, <3>1
  <2> QED
    BY <2>5
<1>10. f = [i \in 0 .. n |-> IF i = 0 THEN h0 ELSE RxStep(f[i - 1], s[i])]
  BY <1>7, <1>9
<1>11. f[0] = h0 /\ \A i \in 1 .. n : f[i] = RxStep(f[i - 1], s[i])
  BY <1>4, <1>10
<1>12. \A m \in 0 .. n : f[m] \in S
  <2> TAKE m \in 0 .. n
  <2>1. f[0] \in S
    BY <1>8, <1>11
  <2>2. \A i \in 1 .. m : f[i - 1] \in S => f[i] \in S
    <3>1. \A i \in 1 .. m : i \in 1 .. n
      BY <1>4
    <3> QED
      BY <1>6, <1>11, <3>1, Zenon
  <2>3. m \in Nat
    BY <1>4
  <2> QED
    BY <2>1, <2>2, <2>3, Along, Zenon
<1>13. f[0] = host /\ f[n] = host'
  BY <1>1, <1>7, <1>11
<1>14. \A i \in 1 .. n : f[i] = RxStep(f[i - 1], toHost[i])
  BY <1>1, <1>11, Zenon
<1>15. \A i \in 0 .. n : f[i] \in Hosts /\ f[i].state = host.state /\ f[i].tx = host.tx /\ f[i].req = host.req
  <2>1. \A y \in S : y \in Hosts /\ y.state = host.state /\ y.tx = host.tx /\ y.req = host.req
    BY <1>1, <1>5
  <2> QED
    BY <1>12, <2>1, Zenon
<1> QED
  BY <1>13, <1>14, <1>15, Zenon

\* Reading changes nothing but what was received.
LEMMA ReadIs ==
  ASSUME HostOK, NEW n, Read(n)
  PROVE  host' \in Hosts /\ host'.state = host.state /\ host'.tx = host.tx /\ host.state = "BUSY"
         /\ host'.req = host.req /\ n \in 1 .. Len(toHost) /\ host.rx # "DONE"
         /\ toDev' = toDev /\ toHost' = SubSeq(toHost, n + 1, Len(toHost))
         /\ toHost' \in Seq(Byte) /\ Len(toHost') <= Len(toHost)
<1>1. PICK s, t : s = toHost /\ t = SubSeq(s, n + 1, Len(s))
  OBVIOUS
<1>2. s \in Seq(Byte) /\ Len(s) \in Nat
  BY <1>1, LenProperties DEF HostOK
<1>3. /\ n \in 1 .. Len(s) /\ host.state = "BUSY" /\ toDev' = toDev /\ host.rx # "DONE"
      /\ toHost' = SubSeq(s, n + 1, Len(s))
  BY <1>1 DEF Read
<1>4. n \in Nat /\ n <= Len(s) /\ n \in 0 .. n
  BY <1>2, <1>3
<1>5. t \in Seq(Byte) /\ Len(t) = Len(s) - n
  BY <1>1, <1>2, <1>4, SubSeqIs
<1>6. PICK g : /\ g[0] = host /\ g[n] = host'
               /\ \A i \in 0 .. n : /\ g[i] \in Hosts /\ g[i].state = host.state /\ g[i].tx = host.tx
                                     /\ g[i].req = host.req
  BY ReadBy
<1>7. Len(t) <= Len(s)
  BY <1>2, <1>4, <1>5
<1> QED
  BY <1>1, <1>3, <1>4, <1>5, <1>6, <1>7

\* Where everything sent is, stays so.
Same == UNCHANGED <<device, toDev, due, escSent, answer, escRcvd, early, written>>

\* What the trace does not mention may change.
LEMMA SameTrace ==
  ASSUME Same, Trace, toDev \in Seq(Byte), \A x \in Place : HostSyncs(x) => HostSyncs(x)'
  PROVE  Trace'
<1>1. UNCHANGED <<device, answer, escRcvd, written>>
  BY DEF Same
<1>2. ASSUME NEW F, NEW a, Frames(F), Due(F, a)
      PROVE  \E F2 : Sends(F, a, F2)
  <2>1. Due(F, a)'
    BY <1>2 DEF Due, Same
  <2>2. ASSUME NEW x, Arrives(F, x)
        PROVE  Arrives(F, x)'
    <3>1. PICK X : Way(F, X, x) /\ AtEnd(F, X[Len(toDev)]) /\ HostSyncs(X[Len(toDev)])
      BY <2>2 DEF Arrives
    <3>2. PICK n, e : n = Len(toDev) /\ e = X[n]
      OBVIOUS
    <3>3. toDev' = toDev /\ escSent' = escSent
      BY DEF Same
    <3>4. Way(F, X, x)'
      BY <3>1, <3>3 DEF Way
    <3>5. AtEnd(F, e)'
      BY <3>1, <3>2, <3>3 DEF AtEnd
    <3>6. HostSyncs(e)'
      <4>1. X \in [0 .. n -> Place] /\ n \in 0 .. n
        BY <3>1, <3>2, LenProperties DEF Way
      <4> QED
        BY <3>1, <3>2, <4>1
    <3>7. X[Len(toDev')] = e
      BY <3>2, <3>3
    <3> QED
      BY <3>4, <3>5, <3>6, <3>7 DEF Arrives, AtEnd, HostSyncs
  <2>3. Sends(F, a, F)
    BY <1>2, <2>1, <2>2, ExtendsItself DEF Sends
  <2> QED
    BY <2>3
<1> QED
  BY <1>1, <1>2, HostTrace

-----------------------------------------------------------------------------
(* The host opens and closes the link, and starts and ends a transfer. *)

\* The host when the link is closed.
LEMMA ClosedType ==
  /\ Closed \in Hosts
  /\ Closed.state = "CLOSED" /\ Closed.tx = <<>>
<1>1. <<>> \in Seq(Byte) /\ <<>> \in Bus(Byte)
  BY DEF Bus
<1> QED
  BY <1>1 DEF Closed, Hosts

\* The host opens the link.
LEMMA OpenTrace ==
  ASSUME HostOK, Trace, HostOpen
  PROVE  HostOK' /\ Trace'
<1>1. Open /\ Same /\ host.state = "CLOSED" /\ toDev' = toDev /\ escSent' = escSent
  BY DEF HostOpen, NotSent, Same, Open
<1>2. PICK t : t = <<COMMA, COMMA, COMMA, COMMA>>
  OBVIOUS
<1>3. t \in Seq(Byte) /\ Len(t) = 4 /\ t # <<>> /\ \A i \in 1 .. Len(t) : t[i] = COMMA
  BY <1>2, BusAssumption
<1>4. host' = [Closed EXCEPT !.state = "OPEN", !.tx = t]
  BY <1>1, <1>2 DEF Open
<1>5. host' \in Hosts /\ host'.state = "OPEN" /\ host'.tx = t
  BY <1>3, <1>4, ClosedType DEF Hosts
<1>6. toHost' \in Seq(Byte) /\ Len(toHost') <= Len(toHost)
  <2>1. PICK n \in 0 .. Len(toHost) : toHost' = SubSeq(toHost, n + 1, Len(toHost))
    BY <1>1 DEF Open
  <2>2. toHost \in Seq(Byte) /\ Len(toHost) \in Nat /\ n \in Nat /\ n <= Len(toHost)
    BY LenProperties DEF HostOK
  <2>3. toHost' \in Seq(Byte) /\ Len(toHost') = Len(toHost) - n
    BY <2>1, <2>2, SubSeqIs
  <2> QED
    BY <2>2, <2>3
<1>7. HostOK'
  <2>1. Len(toHost') <= LinkDepth
    <3>1. Len(toHost) \in Nat /\ Len(toHost') \in Nat /\ LinkDepth \in Nat /\ Len(toHost) <= LinkDepth
      BY <1>6, LenProperties, HostAssumption DEF HostOK
    <3> QED
      BY <1>6, <3>1
  <2> QED
    BY <1>1, <1>5, <1>6, <2>1 DEF HostOK
<1>8. \A x \in Place : HostSyncs(x) => HostSyncs(x)'
  <2>1. Len(t) >= 2
    BY <1>3
  <2>2. \A x : HostSyncs(x)'
    <3>1. PICK h : h = host'
      OBVIOUS
    <3>2. /\ h.state = "OPEN" /\ h.tx = t /\ t # <<>> /\ Len(t) >= 2
          /\ \A i \in 1 .. Len(t) : t[i] = COMMA
      BY <1>3, <1>5, <2>1, <3>1
    <3> QED
      BY <3>1, <3>2 DEF HostSyncs
  <2> QED
    BY <2>2
<1> QED
  BY <1>1, <1>7, <1>8, SameTrace DEF HostOK

\* The host stays as it is, as far as the bytes to be written go.
LEMMA XferTrace ==
  ASSUME HostOK, Trace, HostXfer
  PROVE  HostOK' /\ Trace'
<1>1. PICK r \in Requests : Xfer(r) /\ Same /\ toDev' = toDev /\ toHost' = toHost /\ escSent' = escSent
  BY DEF HostXfer, NotSent, Same, Xfer, link
<1>2. r.frame \in Seq(Byte)
  BY HostAssumption
<1>3. PICK t : t = Stuffed(r.frame) \o <<COMMA>>
  OBVIOUS
<1>4. t \in Seq(Byte)
  <2>1. Stuffed(r.frame) \in Seq(Byte)
    BY <1>2, StuffedType
  <2>2. <<COMMA>> \in Seq(Byte)
    BY BusAssumption
  <2> QED
    BY <1>3, <2>1, <2>2, ConcatProperties
<1>5. host' = [Closed EXCEPT !.state = "BUSY", !.req = r, !.tx = t] /\ host.state = "IDLE"
  BY <1>1, <1>3 DEF Xfer
<1>6. host' \in Hosts /\ host'.state = "BUSY"
  BY <1>4, <1>5, ClosedType DEF Hosts
<1>7. HostOK'
  BY <1>1, <1>6 DEF HostOK
<1>8. \A x \in Place : HostSyncs(x) => HostSyncs(x)'
  BY <1>5, <1>6 DEF HostSyncs
<1> QED
  BY <1>1, <1>7, <1>8, SameTrace DEF HostOK

\* The host reads.
LEMMA ReadTrace ==
  ASSUME HostOK, Trace, HostRead
  PROVE  HostOK' /\ Trace'
<1>1. PICK n : Read(n) /\ Same /\ escSent' = escSent
  BY DEF HostRead, NotSent, Same, Read
<1>2. /\ host' \in Hosts /\ host'.state = host.state /\ host'.tx = host.tx
      /\ toDev' = toDev /\ toHost' \in Seq(Byte) /\ Len(toHost') <= Len(toHost)
  BY <1>1, ReadIs
<1>3. HostOK'
  <2>1. Len(toHost') <= LinkDepth
    <3>1. Len(toHost) \in Nat /\ Len(toHost') \in Nat /\ LinkDepth \in Nat /\ Len(toHost) <= LinkDepth
      BY <1>2, LenProperties, HostAssumption DEF HostOK
    <3> QED
      BY <1>2, <3>1
  <2> QED
    BY <1>1, <1>2, <2>1 DEF HostOK
<1>4. \A x \in Place : HostSyncs(x) => HostSyncs(x)'
  BY <1>2 DEF HostSyncs
<1> QED
  BY <1>1, <1>3, <1>4, SameTrace DEF HostOK

\* The host gives up or returns what it has.
LEMMA EndTrace ==
  ASSUME HostOK, Trace, HostReturn \/ HostTimeout \/ HostCrash
  PROVE  HostOK' /\ Trace'
<1>1. Same /\ toDev' = toDev /\ toHost' = toHost /\ escSent' = escSent
  BY DEF HostReturn, HostTimeout, HostCrash, NotSent, Same, Return, Timeout, Crash, link
<1>2. /\ host' = [Closed EXCEPT !.state = host'.state] /\ host'.tx = <<>>
      /\ (host.state = "BUSY" /\ host'.state = "IDLE") \/ host'.state = "CLOSED"
  <2>1. CASE HostReturn
    BY <2>1, ClosedType DEF HostReturn, Return, Complete, Hosts
  <2>2. CASE HostTimeout
    BY <2>2, ClosedType DEF HostTimeout, Timeout, Hosts
  <2>3. CASE HostCrash
    BY <2>3, ClosedType DEF HostCrash, Crash, Hosts
  <2> QED
    BY <2>1, <2>2, <2>3
<1>3. host' \in Hosts
  BY <1>2, ClosedType DEF Hosts
<1>4. HostOK'
  BY <1>1, <1>3 DEF HostOK
<1>5. \A x \in Place : HostSyncs(x) => HostSyncs(x)'
  BY <1>2 DEF HostSyncs
<1> QED
  BY <1>1, <1>4, <1>5, SameTrace DEF HostOK

-----------------------------------------------------------------------------
(* The inductive invariant. *)

\* Inductive: the types, and a history of all frames ever sent in which every
\* byte, beat and write in the system has its place.  EachFrameAnswered alone is
\* not inductive: that the answer is the reply to the frame that is due depends
\* on what every block between the host and the handlers holds.
IInv == DeviceOK /\ HostOK /\ Trace

\* The initial states.
LEMMA DeviceInit ==
  ASSUME WrapperInit
  PROVE  DeviceOK
<1> USE DEF WrapperInit
<1>1. <<>> \in Bus(Byte) /\ <<>> \in Bus(Beat) /\ 0 \in Byte
  BY AllOnes DEF Bus
<1>2. DstTypeOK /\ MuxTypeOK /\ BbTypeOK
  BY <1>1 DEF DstInit, DstTypeOK, MuxInit, MuxTypeOK, Beat, BbInit, BbTypeOK
<1>3. VerTypeOK
  BY VerLen DEF VerInit, VerTypeOK
<1>4. RegOK
  BY <1>1, BusAssumption DEF RegInit, RegOK, RegTypeOK, Byte
<1>5. StfOK
  BY <1>1 DEF StfInit, StfOK, StfTypeOK
<1>6. IBP!PipeInv /\ OBP!PipeInv
  BY IBP!PipeInvInit, OBP!PipeInvInit DEF IB!PipeInit, IBP!PipeInit, OB!PipeInit, OBP!PipeInit
<1> QED
  BY <1>2, <1>3, <1>4, <1>5, <1>6 DEF DeviceOK

\* The host starts with its types.
LEMMA HostStarts ==
  ASSUME HostInit, escSent = FALSE
  PROVE  HostOK
<1>1. toDev = <<>> /\ toHost = <<>> /\ host = Closed
  BY DEF HostInit
<1>2. Len(toDev) <= LinkDepth /\ Len(toHost) <= LinkDepth
  BY <1>1, HostAssumption
<1>3. toDev \in Seq(Byte) /\ toHost \in Seq(Byte) /\ host \in Hosts
  BY <1>1, ClosedType
<1>4. escSent \in BOOLEAN
  OBVIOUS
<1> QED
  BY <1>2, <1>3, <1>4 DEF HostOK

\* One frame, empty so far, and nothing on its way.
LEMMA TraceInit ==
  ASSUME Init
  PROVE  Trace
<1>1. /\ WrapperInit /\ HostInit /\ due = <<<<>>>> /\ escSent = FALSE
      /\ answer = <<>> /\ escRcvd = FALSE /\ early = FALSE /\ written = <<>>
  BY DEF Init
<1>2. PICK e, F, W, B : e = <<>> /\ F = <<e>> /\ W = <<>> /\ B = [n \in 1 .. 1 |-> 0]
  OBVIOUS
<1>3. /\ e \in Seq(Byte) /\ F \in Seq(Seq(Byte)) /\ F # <<>> /\ Len(F) = 1 /\ F[1] = e /\ Len(e) = 0 /\ 1 \in 1 .. Len(F)
  BY <1>2
<1>4. Frames(F)
  BY <1>3 DEF Frames
<1>5. Due(F, 0)
  <2>1. due = F
    BY <1>1, <1>2
  <2>2. Len(due) = Len(F) - 0 /\ \A i \in 1 .. Len(due) : due[i] = F[0 + i]
    BY <1>3, <2>1
  <2>3. ~early /\ early \in BOOLEAN
    BY <1>1
  <2>4. 0 \in 0 .. Len(F) /\ 0 < Len(F) /\ due \in Seq(Seq(Byte)) /\ due # <<>>
    BY <1>3, <2>1
  <2> QED
    BY <2>2, <2>3, <2>4 DEF Due
<1>6. InAt(F, 1, 0)
  <2>1. dst = [state |-> "INIT", held |-> <<>>] /\ ibBuf = <<>> /\ ibOvfl = <<>>
    BY <1>1 DEF WrapperInit, DstInit, IB!PipeInit
  <2>2. InPipe(F, 1, 0, 1, 0)
    BY <2>1 DEF InPipe, NextF, NextK, Requested
  <2>3. PICK x, X : x = At("INIT", <<>>, 1, 0) /\ X = [i \in 0 .. 0 |-> x]
    OBVIOUS
  <2>4. /\ x \in Place /\ x.state = "INIT" /\ x.held = <<>> /\ x.f = 1 /\ x.k = 0
    BY <2>3 DEF At, Place, Bus
  <2>5. PlaceOK(F, x)
    BY <1>3, <2>4 DEF PlaceOK
  <2>6. toDev = <<>> /\ Len(toDev) = 0 /\ host = Closed
    BY <1>1 DEF HostInit
  <2>7. Way(F, X, x)
    BY <2>3, <2>4, <2>5, <2>6 DEF Way
  <2>8. X[Len(toDev)] = x
    BY <2>3, <2>6
  <2>9. AtEnd(F, x)
    BY <1>1, <1>3, <2>4 DEF AtEnd
  <2>10. HostSyncs(x)
    BY <2>4, <2>6, ClosedType DEF HostSyncs
  <2>11. Arrives(F, x)
    BY <2>7, <2>8, <2>9, <2>10 DEF Arrives
  <2>12. x = At(dst.state, dst.held, 1, 0)
    BY <2>1, <2>3
  <2> QED
    BY <2>2, <2>11, <2>12 DEF InAt
<1>7. Middle(F, 1, 1, 0, 1, 0, 0)
  <2>1. mux.state = "IDLE" /\ AllRest
    BY <1>1 DEF WrapperInit, MuxInit, VerInit, BbInit, RegInit, AllRest, VerRests, BbRests, RegRests
  <2> QED
    BY <1>3, <2>1 DEF Middle, AtIdle
<1>8. OutAt(F, 0, 1, 0)
  <2>1. stf.state = "FWD" /\ stf.held = <<>> /\ obBuf = <<>> /\ obOvfl = <<>>
    BY <1>1 DEF WrapperInit, StfInit, OB!PipeInit
  <2>2. Answering(F, 0, 1, 0)
    <3>1. answer = <<>> /\ Len(answer) = 0 /\ answer \in Seq(Byte)
      BY <1>1
    <3>2. escRcvd = (stf.state = "STUFF")
      BY <1>1, <2>1
    <3>3. Replied(F, 0 + 1, Len(answer), stf.held) /\ 1 = NextF(0 + 1, stf.held) /\ 0 = NextK(Len(answer), stf.held)
      BY <2>1, <3>1 DEF Replied, NextF, NextK
    <3> QED
      BY <2>1, <3>1, <3>2, <3>3 DEF Answering
  <2>3. OutPipe(F, 1, 0, 1, 0)
    BY <2>1 DEF OutPipe, Replied, NextF, NextK
  <2> QED
    BY <2>2, <2>3 DEF OutAt
<1>9. Log(F, 1, 0, W, B)
  <2>1. Begins(F, 1, B) /\ B[1] = 0
    BY <1>2 DEF Begins
  <2>2. W \in Seq(Byte \X Byte) /\ Len(W) = B[1] + 0
    BY <1>2, <2>1
  <2>3. \A n \in 1 .. 1 : \A i \in 1 .. Done(F, 1, 0, n) : W[B[n] + i] = WriteOf(F[n], i)
    BY DEF Done
  <2> QED
    BY <1>3, <2>1, <2>2, <2>3 DEF Log
<1>10. Kept(0, 1, 0, W, B)
  <2>1. B[0 + 1] = 0 /\ Len(W) = 0
    BY <1>2
  <2>2. W \in Seq(Byte)
    BY <1>2
  <2>3. Len(SubSeq(W, 0 + 1, 0)) = 0 /\ SubSeq(W, 0 + 1, 0) \in Seq(Byte)
    BY <2>1, <2>2, SubSeqIs
  <2>4. SubSeq(W, B[0 + 1] + 1, Len(W)) = <<>>
    BY <2>1, <2>3, EmptySeq
  <2> QED
    BY <1>1, <2>4, 0 \in 0 .. 1 DEF Kept
<1>11. Traced(F, 0, 1, 1, 0, 1, 0, 0, W, B)
  BY <1>4, <1>5, <1>6, <1>7, <1>8, <1>9, <1>10 DEF Traced
<1> QED
  BY <1>11, Zenon DEF Trace

\* The invariant holds initially.
LEMMA IInvInit == Init => IInv
<1> SUFFICES ASSUME Init PROVE IInv
  OBVIOUS
<1>1. WrapperInit /\ HostInit /\ escSent = FALSE
  BY DEF Init
<1> QED
  BY <1>1, DeviceInit, HostStarts, TraceInit DEF IInv

\* An edge of the clock keeps it, and what leaves the device answers well.
LEMMA ClkKeeps ==
  ASSUME IInv, NEW rdy \in BOOLEAN, Clk(rdy)
  PROVE  /\ IInv' /\ IBP!Next /\ OBP!Next
         /\ \E out \in Bus(Byte) : Puts(out)
<1>1. DeviceOK /\ HostOK /\ Trace /\ toDev \in Seq(Byte) /\ toHost \in Seq(Byte)
  BY DEF IInv, HostOK
<1>2. /\ Trace'
      /\ \E out \in Bus(Byte) : Puts(out)
  BY <1>1, ClkTrace, Zenon
<1>3. PICK out \in Bus(Byte) : /\ Puts(out) /\ toHost' = toHost \o out
                               /\ out # <<>> => Len(toHost) < LinkDepth
                               /\ FrameEnd(out) => AnsweredWell
  BY <1>2 DEF Puts
<1>4. PICK inp, rdyOut : /\ inp = IF toDev = <<>> THEN <<>> ELSE <<Head(toDev)>>
                         /\ rdyOut = (Len(toHost) < LinkDepth)
  OBVIOUS
<1>5. /\ WrapperEdge(inp, rdyOut, rdy) /\ toDev' = (IF inp # <<>> /\ rdyIb THEN Tail(toDev) ELSE toDev)
      /\ UNCHANGED <<host, escSent>>
  BY <1>4 DEF Clk
<1>6. DeviceOK' /\ IBP!Next /\ OBP!Next
  <2>1. FromHost(inp) /\ rdyOut \in BOOLEAN
    BY <1>4 DEF FromHost
  <2> QED
    BY <1>1, <1>5, <2>1, DeviceStep
<1>7. toDev' \in Seq(Byte) /\ Len(toDev') <= LinkDepth
  <2>1. Len(toDev) \in Nat /\ LinkDepth \in Nat /\ Len(toDev) <= LinkDepth
    BY <1>1, LenProperties, HostAssumption DEF HostOK
  <2>2. CASE toDev' = toDev
    BY <1>1, <2>1, <2>2
  <2>3. CASE toDev # <<>> /\ toDev' = Tail(toDev)
    <3>1. Tail(toDev) \in Seq(Byte) /\ Len(Tail(toDev)) = Len(toDev) - 1
      BY <1>1, <2>3, HeadTailProperties
    <3> QED
      BY <2>1, <2>3, <3>1
  <2> QED
    BY <1>4, <1>5, <2>2, <2>3
<1>8. toHost' \in Seq(Byte) /\ Len(toHost') <= LinkDepth
  <2>1. Len(toHost) \in Nat /\ LinkDepth \in Nat /\ Len(toHost) <= LinkDepth
    BY <1>1, LenProperties, HostAssumption DEF HostOK
  <2>2. out \in Seq(Byte) /\ (out = <<>> => Len(out) = 0) /\ (out # <<>> => Len(out) = 1)
    <3>1. CASE out # <<>>
      <4>1. PICK b \in Byte : out = <<b>>
        BY <3>1 DEF Bus
      <4> QED
        BY <4>1
    <3>2. CASE out = <<>>
      BY <3>2
    <3> QED
      BY <3>1, <3>2
  <2>3. toHost' \in Seq(Byte) /\ Len(toHost') = Len(toHost) + Len(out)
    BY <1>1, <1>3, <2>2, ConcatProperties
  <2> QED
    BY <1>3, <2>1, <2>2, <2>3
<1>9. HostOK'
  BY <1>1, <1>5, <1>7, <1>8 DEF HostOK
<1> QED
  BY <1>2, <1>3, <1>6, <1>9 DEF IInv

\* A step that leaves the device alone keeps its types.
LEMMA DeviceHolds ==
  ASSUME DeviceOK, UNCHANGED device
  PROVE  DeviceOK'
<1>1. /\ dst' = dst /\ ibBuf' = ibBuf /\ ibOvfl' = ibOvfl /\ mux' = mux /\ ver' = ver /\ bb' = bb /\ reg' = reg
      /\ obBuf' = obBuf /\ obOvfl' = obOvfl /\ stf' = stf
  BY DEF device
<1>2. IBP!PipeInv' /\ OBP!PipeInv'
  BY <1>1 DEF DeviceOK, IBP!PipeInv, OBP!PipeInv, IBP!Word, OBP!Word, IBP!OvflBehindBuf, OBP!OvflBehindBuf
<1>3. DstTypeOK' /\ MuxTypeOK' /\ VerTypeOK' /\ BbTypeOK'
  BY <1>1 DEF DeviceOK, DstTypeOK, MuxTypeOK, VerTypeOK, BbTypeOK
<1>4. RegOK' /\ StfOK'
  BY <1>1 DEF DeviceOK, RegOK, RegTypeOK, StfOK, StfTypeOK
<1> QED
  BY <1>2, <1>3, <1>4 DEF DeviceOK

\* The host's steps keep it.
LEMMA HostKeeps ==
  ASSUME IInv, HostOpen \/ HostXfer \/ HostWrite \/ HostRead \/ HostReturn \/ HostTimeout \/ HostCrash
  PROVE  IInv' /\ UNCHANGED device /\ Len(toHost') <= Len(toHost)
<1>1. DeviceOK /\ HostOK /\ Trace
  BY DEF IInv
<1>2. UNCHANGED device
  BY DEF HostOpen, HostXfer, HostWrite, HostRead, HostReturn, HostTimeout, HostCrash
<1>3. DeviceOK'
  BY <1>1, <1>2, DeviceHolds
<1>4. HostOK' /\ Trace'
  BY <1>1, OpenTrace, XferTrace, WriteTrace, ReadTrace, EndTrace
<1>5. Len(toHost') <= Len(toHost)
  <2>1. toHost \in Seq(Byte) /\ Len(toHost) \in Nat
    BY <1>1, LenProperties DEF HostOK
  <2>2. CASE HostOpen
    <3>1. PICK n \in 0 .. Len(toHost) : toHost' = SubSeq(toHost, n + 1, Len(toHost))
      BY <2>2 DEF HostOpen, Open
    <3>2. n \in Nat /\ n <= Len(toHost)
      BY <2>1
    <3>3. Len(toHost') = Len(toHost) - n
      BY <2>1, <3>1, <3>2, SubSeqIs
    <3> QED
      BY <2>1, <3>2, <3>3
  <2>3. CASE HostRead
    BY <1>1, <2>3, ReadIs DEF HostRead
  <2>4. CASE HostXfer \/ HostWrite \/ HostReturn \/ HostTimeout \/ HostCrash
    <3>1. toHost' = toHost
      BY <2>4 DEF HostXfer, HostWrite, HostReturn, HostTimeout, HostCrash, Xfer, Write, Return, Timeout, Crash, link
    <3> QED
      BY <2>1, <3>1
  <2> QED
    BY <2>2, <2>3, <2>4
<1> QED
  BY <1>2, <1>3, <1>4, <1>5 DEF IInv

\* Every step keeps it.
LEMMA IInvStep == IInv /\ [Next]_vars => IInv'
<1> SUFFICES ASSUME IInv, [Next]_vars PROVE IInv'
  OBVIOUS
<1>1. CASE Next
  BY <1>1, ClkKeeps, HostKeeps DEF Next
<1>2. CASE UNCHANGED vars
  <2>1. DeviceOK /\ HostOK /\ Trace /\ toDev \in Seq(Byte)
    BY DEF IInv, HostOK
  <2>2. UNCHANGED device /\ Same /\ UNCHANGED <<host, link, escSent>>
    BY <1>2 DEF vars, history, Same, link
  <2>3. DeviceOK' /\ HostOK'
    BY <2>1, <2>2, DeviceHolds DEF HostOK, link
  <2>4. \A x \in Place : HostSyncs(x) => HostSyncs(x)'
    BY <2>2 DEF HostSyncs
  <2> QED
    BY <2>1, <2>2, <2>3, <2>4, SameTrace DEF IInv
<1> QED
  BY <1>1, <1>2

-----------------------------------------------------------------------------
(* What the device answers. *)

\* The invariant holds in every reachable state.
LEMMA IInvHolds == Spec => []IInv
BY IInvInit, IInvStep, PTL DEF Spec

\* Type correctness of the command path and the host: every register of the
\* device, what is on the link, and the history have their types, for every set of
\* requests, every register file and every depth of the link.
THEOREM TypeCorrect == Spec => []TypeOK
<1>1. IInv => TypeOK
  <2> SUFFICES ASSUME IInv PROVE TypeOK
    OBVIOUS
  <2>1. DeviceOK /\ HostOK
    BY DEF IInv
  <2>2. PICK F, a, c, f, k, g, j, w, W, B : Traced(F, a, c, f, k, g, j, w, W, B)
    BY DEF IInv, Trace
  <2>3. due \in Seq(Seq(Byte)) /\ due # <<>>
    BY <2>2 DEF Traced, Due
  <2>4. answer \in Seq(Byte)
    BY <2>2 DEF Traced, OutAt, Answering
  <2>5. WrapperTypeOK
    <3>1. DstTypeOK /\ MuxTypeOK /\ VerTypeOK /\ BbTypeOK /\ RegTypeOK /\ StfTypeOK
      BY <2>1 DEF DeviceOK, RegOK, StfOK
    <3>2. ibBuf \in Bus(Beat) /\ ibOvfl \in Bus(Beat) /\ obBuf \in Bus(Beat) /\ obOvfl \in Bus(Beat)
      BY <2>1 DEF DeviceOK, IBP!PipeInv, OBP!PipeInv, IBP!Word, OBP!Word, Bus
    <3> QED
      BY <3>1, <3>2 DEF WrapperTypeOK
  <2> QED
    BY <2>1, <2>3, <2>4, <2>5 DEF TypeOK, HostOK, Hosts
<1> QED
  BY <1>1, IInvHolds, PTL

\* Every frame is answered by its own reply, once its registers are written and in
\* its place in the order of requests: an end of frame that leaves ByteStuffer.vhd
\* is that of the reply CommandMux.vhd and the handlers owe to the oldest frame
\* that is not answered; only a command without a handler is answered early.
THEOREM Answers == Spec => EachFrameAnswered
<1>1. IInv /\ [Next]_vars =>
        [Len(toHost') > Len(toHost) /\ FrameEnd(<<toHost'[Len(toHost')]>>) => AnsweredWell]_vars
  <2> SUFFICES ASSUME IInv, Next, Len(toHost') > Len(toHost), FrameEnd(<<toHost'[Len(toHost')]>>)
               PROVE  AnsweredWell
    BY DEF vars
  <2>1. toHost \in Seq(Byte) /\ Len(toHost) \in Nat
    BY LenProperties DEF IInv, HostOK
  <2>2. CASE \E rdy \in BOOLEAN : Clk(rdy)
    <3>1. PICK out \in Bus(Byte) : toHost' = toHost \o out /\ (FrameEnd(out) => AnsweredWell)
      BY <2>2, ClkKeeps DEF Puts
    <3>2. CASE out = <<>>
      <4>1. toHost' = toHost
        BY <2>1, <3>1, <3>2
      <4> QED
        BY <2>1, <4>1
    <3>3. CASE out # <<>>
      <4>1. PICK b \in Byte : out = <<b>>
        BY <3>3 DEF Bus
      <4>2. <<b>> \in Seq(Byte) /\ Len(<<b>>) = 1
        OBVIOUS
      <4>3. Len(toHost') = Len(toHost) + 1 /\ toHost'[Len(toHost) + 1] = b
        BY <2>1, <3>1, <4>1, <4>2, ConcatProperties
      <4>4. FrameEnd(out)
        BY <4>1, <4>3
      <4> QED
        BY <3>1, <4>4
    <3> QED
      BY <3>2, <3>3
  <2>3. CASE HostOpen \/ HostXfer \/ HostWrite \/ HostRead \/ HostReturn \/ HostTimeout \/ HostCrash
    <3>1. Len(toHost') <= Len(toHost)
      BY <2>3, HostKeeps
    <3>2. toHost' \in Seq(Byte) /\ Len(toHost') \in Nat
      BY <2>3, HostKeeps, LenProperties DEF IInv, HostOK
    <3> QED
      BY <2>1, <3>1, <3>2
  <2> QED
    BY <2>2, <2>3 DEF Next
<1>2. [][Len(toHost') > Len(toHost) /\ FrameEnd(<<toHost'[Len(toHost')]>>) => AnsweredWell]_vars => EachFrameAnswered
  BY DEF EachFrameAnswered, AnsweredWell
<1> QED
  BY <1>1, <1>2, IInvHolds, PTL DEF Spec

\* A step of the system is one of each queue, or none.
LEMMA PipeSteps == IInv /\ [Next]_vars => [IB!Queue!Next]_(ibBuf \o ibOvfl) /\ [OB!Queue!Next]_(obBuf \o obOvfl)
<1> SUFFICES ASSUME IInv, [Next]_vars
             PROVE  [IB!Queue!Next]_(ibBuf \o ibOvfl) /\ [OB!Queue!Next]_(obBuf \o obOvfl)
  OBVIOUS
<1>1. IBP!PipeInv /\ OBP!PipeInv
  BY DEF IInv, DeviceOK
<1>2. CASE UNCHANGED device
  BY <1>2 DEF device
<1>3. CASE \E rdy \in BOOLEAN : Clk(rdy)
  <2>1. IBP!Next /\ OBP!Next
    BY <1>3, ClkKeeps
  <2>2. [IB!Queue!Next]_(ibBuf \o ibOvfl)
    BY <1>1, <2>1, IBP!QueueStep
       DEF IBP!pipe, IBP!Queue!Next, IB!Queue!Next, IB!Queue!Put, IB!Queue!Take, IB!Queue!TakePut,
           IBP!Queue!Put, IBP!Queue!Take, IBP!Queue!TakePut
  <2>3. [OB!Queue!Next]_(obBuf \o obOvfl)
    BY <1>1, <2>1, OBP!QueueStep
       DEF OBP!pipe, OBP!Queue!Next, OB!Queue!Next, OB!Queue!Put, OB!Queue!Take, OB!Queue!TakePut,
           OBP!Queue!Put, OBP!Queue!Take, OBP!Queue!TakePut
  <2> QED
    BY <2>2, <2>3
<1> QED
  BY <1>2, <1>3, HostKeeps DEF Next, vars

\* Both pipeline stages of CommandWrapper.vhd are queues of at most two beats in
\* the whole path, with the destuffer, the mux and the stuffer around them: no beat
\* is lost, doubled or overtaken.
THEOREM StagesAreQueues == Spec => PipeIsQueue
<1>1. Init => ibBuf \o ibOvfl = <<>> /\ obBuf \o obOvfl = <<>>
  BY DEF Init, WrapperInit, IB!PipeInit, OB!PipeInit
<1>2. Init => IB!Queue!Init /\ OB!Queue!Init
  BY <1>1 DEF IB!Queue!Init, OB!Queue!Init
<1> QED
  BY <1>2, PipeSteps, IInvHolds, PTL
     DEF Spec, PipeIsQueue, IB!IsQueue, OB!IsQueue, IB!Queue!Spec, OB!Queue!Spec

-----------------------------------------------------------------------------
(* A transfer gets its own reply: what the host still has to send. *)

\* S: a frame as it is sent, with the COMMA; P: where its bytes end in S.
Encodes(f, S, P) ==
  /\ P \in [0 .. Len(f) -> Nat] /\ P[0] = 0
  /\ S \in Seq(Byte) /\ Len(S) = P[Len(f)] + 1 /\ S[Len(S)] = COMMA
  /\ \A i \in 1 .. Len(f) :
       /\ Special(f[i]) => P[i] = P[i - 1] + 2 /\ S[P[i - 1] + 1] = ESCAP /\ S[P[i - 1] + 2] = f[i]
       /\ ~Special(f[i]) => P[i] = P[i - 1] + 1 /\ S[P[i - 1] + 1] = f[i]

\* t is S without its first n elements.
Rest(S, n, t) ==
  /\ n \in Nat /\ t \in Seq(Byte) /\ Len(S) = n + Len(t)
  /\ \A i \in 1 .. Len(t) : t[i] = S[n + i]

\* Of frame f the bytes p are sent, or an ESCAP more (esc); t is to be sent.
Sending(f, p, esc, t) ==
  \E S, P : /\ Encodes(f, S, P)
            /\ p \in Seq(Byte) /\ Len(p) <= Len(f) /\ \A i \in 1 .. Len(p) : p[i] = f[i]
            /\ esc => Len(p) < Len(f) /\ Special(f[Len(p) + 1]) /\ Rest(S, P[Len(p)] + 1, t)
            /\ ~esc => Rest(S, P[Len(p)], t)

\* A byte and its quotation.
LEMMA QuotedIs ==
  ASSUME NEW s \in Seq(Byte), NEW b \in Byte, NEW t, t = s \o Quoted(b)
  PROVE  /\ t \in Seq(Byte) /\ Longer(s, t)
         /\ Special(b) => Len(t) = Len(s) + 2 /\ t[Len(s) + 1] = ESCAP /\ t[Len(s) + 2] = b
         /\ ~Special(b) => Len(t) = Len(s) + 1 /\ t[Len(s) + 1] = b
<1>1. PICK q : q = Quoted(b)
  OBVIOUS
<1>2. /\ q \in Seq(Byte)
      /\ Special(b) => Len(q) = 2 /\ q[1] = ESCAP /\ q[2] = b
      /\ ~Special(b) => Len(q) = 1 /\ q[1] = b
  <2>1. ESCAP \in Byte
    BY BusAssumption
  <2>2. CASE Special(b)
    <3>1. q = <<ESCAP, b>>
      BY <1>1, <2>2 DEF Quoted
    <3> QED
      BY <2>1, <2>2, <3>1
  <2>3. CASE ~Special(b)
    <3>1. q = <<b>>
      BY <1>1, <2>3 DEF Quoted
    <3> QED
      BY <2>3, <3>1
  <2> QED
    BY <2>2, <2>3
<1>3. /\ t \in Seq(Byte) /\ Len(t) = Len(s) + Len(q)
      /\ \A i \in 1 .. Len(s) + Len(q) : t[i] = IF i <= Len(s) THEN s[i] ELSE q[i - Len(s)]
  BY <1>1, <1>2, ConcatProperties
<1>4. Len(s) \in Nat /\ Len(q) \in Nat
  BY <1>2, LenProperties
<1>5. Longer(s, t)
  <2>1. \A i \in 1 .. Len(s) : i \in 1 .. Len(s) + Len(q) /\ i <= Len(s)
    BY <1>4
  <2>2. Len(s) <= Len(t)
    BY <1>3, <1>4
  <2> QED
    BY <1>3, <2>1, <2>2 DEF Longer
<1>6. \A i \in 1 .. Len(q) : t[Len(s) + i] = q[i]
  <2> TAKE i \in 1 .. Len(q)
  <2>1. PICK k : k = Len(s) + i
    OBVIOUS
  <2>2. k \in 1 .. Len(s) + Len(q) /\ ~(k <= Len(s)) /\ k - Len(s) = i
    BY <1>4, <2>1
  <2>3. t[k] = q[k - Len(s)]
    BY <1>3, <2>2
  <2> QED
    BY <2>1, <2>2, <2>3
<1>7. CASE Special(b)
  <2>0. Len(q) = 2
    BY <1>2, <1>7
  <2>1. 1 \in 1 .. Len(q) /\ 2 \in 1 .. Len(q)
    BY <2>0
  <2> QED
    BY <1>2, <1>3, <1>5, <1>6, <1>7, <2>1
<1>8. CASE ~Special(b)
  <2>0. Len(q) = 1
    BY <1>2, <1>8
  <2>1. 1 \in 1 .. Len(q)
    BY <2>0
  <2> QED
    BY <1>2, <1>3, <1>5, <1>6, <1>8, <2>1
<1> QED
  BY <1>7, <1>8

\* Longer is transitive.
LEMMA LongerStill ==
  ASSUME NEW r \in Seq(Byte), NEW s \in Seq(Byte), NEW t \in Seq(Byte), Longer(r, s), Longer(s, t)
  PROVE  Longer(r, t)
<1>1. Len(r) \in Nat /\ Len(s) \in Nat /\ Len(t) \in Nat
  BY LenProperties
<1>2. \A i \in 1 .. Len(r) : i \in 1 .. Len(s)
  BY <1>1 DEF Longer
<1> QED
  BY <1>1, <1>2 DEF Longer

\* What is written for the first bytes starts what is written for more.
LEMMA StuffingGrows ==
  ASSUME NEW f \in Seq(Byte), NEW g, Stuffing(f, g), NEW i \in 0 .. Len(f)
  PROVE  \A k \in i .. Len(f) : Longer(g[i], g[k])
<1>1. PICK n : n = Len(f)
  OBVIOUS
<1>2. n \in Nat /\ i \in Nat /\ i <= n
  BY <1>1, LenProperties
<1>3. /\ g \in [0 .. n -> Seq(Byte)]
      /\ \A k \in 1 .. n : g[k] = g[k - 1] \o Quoted(f[k])
  BY <1>1 DEF Stuffing
<1>4. \A k \in 1 .. n : Longer(g[k - 1], g[k])
  <2> TAKE k \in 1 .. n
  <2>1. k - 1 \in 0 .. n
    BY <1>2
  <2>2. g[k - 1] \in Seq(Byte) /\ f[k] \in Byte
    BY <1>1, <1>3, <2>1, ElementOfSeq
  <2> QED
    BY <1>3, <2>2, QuotedIs
<1> DEFINE T == {d \in Nat : i + d <= n => Longer(g[i], g[i + d])}
<1>5. 0 \in T
  <2>1. g[i] \in Seq(Byte)
    BY <1>2, <1>3
  <2>2. Longer(g[i], g[i])
    BY <2>1, LenProperties DEF Longer
  <2> QED
    BY <1>2, <2>2
<1>6. \A d \in Nat : d \in T => d + 1 \in T
  <2> SUFFICES ASSUME NEW d \in Nat, i + d <= n => Longer(g[i], g[i + d]), i + (d + 1) <= n
               PROVE  Longer(g[i], g[i + (d + 1)])
    OBVIOUS
  <2>1. PICK k, k1 : k = i + d /\ k1 = i + (d + 1)
    OBVIOUS
  <2>2. k1 \in 1 .. n /\ k1 - 1 = k /\ k \in 0 .. n /\ k1 \in 0 .. n /\ i \in 0 .. n /\ k <= n
    BY <1>2, <2>1
  <2>3. Longer(g[k], g[k1])
    BY <1>4, <2>2
  <2>4. Longer(g[i], g[k])
    BY <2>1, <2>2
  <2>5. g[i] \in Seq(Byte) /\ g[k] \in Seq(Byte) /\ g[k1] \in Seq(Byte)
    BY <1>3, <2>2
  <2> QED
    BY <2>1, <2>3, <2>4, <2>5, LongerStill
<1>7. Nat \subseteq T
  <2> HIDE DEF T
  <2> QED
    BY <1>5, <1>6, Induct
<1> SUFFICES ASSUME NEW k \in i .. n PROVE Longer(g[i], g[k])
  BY <1>1
<1>8. k - i \in Nat /\ i + (k - i) = k /\ k <= n
  BY <1>2
<1>9. k - i \in T
  BY <1>7, <1>8
<1>10. PICK d : d = k - i
  OBVIOUS
<1>11. i + d = k /\ d \in T
  BY <1>8, <1>9, <1>10
<1> QED
  BY <1>8, <1>11

\* A sequence with one element more.
LEMMA OneMore ==
  ASSUME NEW s \in Seq(Byte), NEW b \in Byte, NEW t, t = Append(s, b)
  PROVE  /\ t \in Seq(Byte) /\ Len(s) \in Nat /\ Len(t) = Len(s) + 1 /\ t[Len(s) + 1] = b
         /\ \A i \in 1 .. Len(s) : t[i] = s[i]
BY AppendProperties, LenProperties

\* A request as CmdXfer writes it: the stuffed frame and a COMMA.
LEMMA StuffedEncodes ==
  ASSUME NEW f \in Seq(Byte)
  PROVE  \E P : Encodes(f, Stuffed(f) \o <<COMMA>>, P)
<1>0. PICK S : S = Stuffed(f) \o <<COMMA>>
  OBVIOUS
<1>1. PICK g : Stuffing(f, g) /\ Stuffed(f) = g[Len(f)]
  BY StuffedBy
<1>2. PICK n, h : n = Len(f) /\ h = g[n]
  OBVIOUS
<1>3. n \in Nat /\ n \in 0 .. n /\ g \in [0 .. n -> Seq(Byte)] /\ g[0] = <<>>
  BY <1>1, <1>2, LenProperties DEF Stuffing
<1>4. h \in Seq(Byte) /\ S = h \o <<COMMA>>
  BY <1>0, <1>1, <1>2, <1>3
<1>5. Len(h) \in Nat /\ S \in Seq(Byte) /\ Len(S) = Len(h) + 1 /\ S[Len(S)] = COMMA
      /\ \A i \in 1 .. Len(h) : S[i] = h[i]
  <2>1. h \in Seq(Byte) /\ Len(h) \in Nat /\ COMMA \in Byte
    BY <1>4, LenProperties, BusAssumption
  <2>2. S = Append(h, COMMA)
    BY <1>4
  <2>3. S \in Seq(Byte) /\ Len(S) = Len(h) + 1 /\ S[Len(h) + 1] = COMMA /\ \A i \in 1 .. Len(h) : S[i] = h[i]
    BY <2>1, <2>2, OneMore
  <2>4. S[Len(S)] = COMMA
    BY <2>3
  <2> QED
    BY <2>1, <2>3, <2>4
<1>6. PICK P : P = [i \in 0 .. n |-> Len(g[i])]
  OBVIOUS
<1>7. P \in [0 .. n -> Nat] /\ P[0] = 0 /\ P[n] = Len(h)
  <2>1. \A i \in 0 .. n : Len(g[i]) \in Nat
    BY <1>3, LenProperties
  <2>2. 0 \in 0 .. n
    BY <1>3
  <2> QED
    BY <1>2, <1>3, <1>6, <2>1, <2>2
<1>8. ASSUME NEW i \in 1 .. n
      PROVE  /\ Special(f[i]) => P[i] = P[i - 1] + 2 /\ S[P[i - 1] + 1] = ESCAP /\ S[P[i - 1] + 2] = f[i]
             /\ ~Special(f[i]) => P[i] = P[i - 1] + 1 /\ S[P[i - 1] + 1] = f[i]
  <2>1. PICK u, v, b : u = g[i - 1] /\ v = g[i] /\ b = f[i]
    OBVIOUS
  <2>2. i - 1 \in 0 .. n /\ i \in 0 .. n
    BY <1>3
  <2>3. u \in Seq(Byte) /\ v \in Seq(Byte) /\ b \in Byte /\ v = u \o Quoted(b)
    BY <1>1, <1>2, <1>3, <2>1, <2>2, ElementOfSeq DEF Stuffing
  <2>4. P[i - 1] = Len(u) /\ P[i] = Len(v) /\ Len(u) \in Nat /\ Len(v) \in Nat
    BY <1>6, <2>1, <2>2, <2>3, LenProperties
  <2>5. /\ Special(b) => Len(v) = Len(u) + 2 /\ v[Len(u) + 1] = ESCAP /\ v[Len(u) + 2] = b
        /\ ~Special(b) => Len(v) = Len(u) + 1 /\ v[Len(u) + 1] = b
    BY <2>3, QuotedIs
  <2>6. \A k \in 1 .. Len(v) : S[k] = v[k]
    <3>1. Longer(v, h)
      <4>1. n \in i .. n
        BY <1>3
      <4> QED
        BY <1>1, <1>2, <2>1, <2>2, <4>1, StuffingGrows
    <3>2. \A k \in 1 .. Len(v) : k \in 1 .. Len(h)
      BY <1>5, <2>4, <3>1 DEF Longer
    <3> QED
      BY <1>5, <3>1, <3>2 DEF Longer
  <2>7. CASE Special(b)
    <3>1. Len(u) + 1 \in 1 .. Len(v) /\ Len(u) + 2 \in 1 .. Len(v)
      BY <2>4, <2>5, <2>7
    <3> QED
      BY <2>1, <2>4, <2>5, <2>6, <2>7, <3>1
  <2>8. CASE ~Special(b)
    <3>1. Len(u) + 1 \in 1 .. Len(v)
      BY <2>4, <2>5, <2>8
    <3> QED
      BY <2>1, <2>4, <2>5, <2>6, <2>8, <3>1
  <2> QED
    BY <2>7, <2>8
<1>9. Encodes(f, S, P)
  BY <1>2, <1>5, <1>7, <1>8 DEF Encodes
<1> QED
  BY <1>0, <1>9

\* A request begins to be sent.
LEMMA SendStarts ==
  ASSUME NEW f \in Seq(Byte), NEW t, t = Stuffed(f) \o <<COMMA>>
  PROVE  Sending(f, <<>>, FALSE, t)
<1>1. PICK P : Encodes(f, t, P)
  BY StuffedEncodes, Zenon
<1>2. t \in Seq(Byte) /\ Len(t) \in Nat /\ P[0] = 0
  BY <1>1, LenProperties DEF Encodes
<1>3. Rest(t, 0, t)
  BY <1>2 DEF Rest
<1>4. PICK p : p = <<>>
  OBVIOUS
<1>5. p \in Seq(Byte) /\ Len(p) = 0 /\ Len(p) <= Len(f) /\ \A i \in 1 .. Len(p) : p[i] = f[i]
  BY <1>4, LenProperties
<1>6. Rest(t, P[Len(p)], t)
  BY <1>2, <1>3, <1>5
<1>7. Sending(f, p, FALSE, t)
  BY <1>1, <1>5, <1>6 DEF Sending
<1> QED
  BY <1>4, <1>7

\* What is to be sent is never nothing: the COMMA is.
LEMMA SendingMore ==
  ASSUME NEW f \in Seq(Byte), NEW p, NEW esc \in BOOLEAN, NEW t, Sending(f, p, esc, t)
  PROVE  t # <<>> /\ p \in Seq(Byte) /\ Len(p) <= Len(f) /\ \A i \in 1 .. Len(p) : p[i] = f[i]
<1>1. PICK S, P : /\ Encodes(f, S, P)
                  /\ p \in Seq(Byte) /\ Len(p) <= Len(f) /\ \A i \in 1 .. Len(p) : p[i] = f[i]
                  /\ esc => Len(p) < Len(f) /\ Special(f[Len(p) + 1]) /\ Rest(S, P[Len(p)] + 1, t)
                  /\ ~esc => Rest(S, P[Len(p)], t)
  BY DEF Sending
<1>2. PICK n, k : n = Len(f) /\ k = Len(p)
  OBVIOUS
<1>3. /\ n \in Nat /\ k \in 0 .. n
      /\ P \in [0 .. n -> Nat] /\ Len(S) = P[n] + 1
      /\ \A i \in 1 .. n : P[i] >= P[i - 1] + 1 /\ (Special(f[i]) => P[i] = P[i - 1] + 2)
  <2>1. n \in Nat /\ k \in Nat
    BY <1>1, <1>2, LenProperties
  <2>2. P \in [0 .. n -> Nat] /\ Len(S) = P[n] + 1
    BY <1>1, <1>2 DEF Encodes
  <2>3. \A i \in 1 .. n : /\ Special(f[i]) => P[i] = P[i - 1] + 2
                          /\ ~Special(f[i]) => P[i] = P[i - 1] + 1
    BY <1>1, <1>2 DEF Encodes
  <2>4. \A i \in 1 .. n : P[i - 1] \in Nat
    <3>1. \A i \in 1 .. n : i - 1 \in 0 .. n
      BY <2>1
    <3> QED
      BY <2>2, <3>1
  <2>5. k \in 0 .. n
    BY <1>1, <1>2, <2>1
  <2>6. \A i \in 1 .. n : P[i] >= P[i - 1] + 1
    BY <2>3, <2>4
  <2> QED
    BY <2>1, <2>2, <2>3, <2>5, <2>6
<1>4. \A i \in 0 .. n : P[i] <= P[n]
  <2> DEFINE T == {d \in Nat : d <= n => P[n - d] <= P[n]}
  <2>1. 0 \in T
    <3>1. n - 0 = n /\ P[n] \in Nat
      BY <1>3
    <3> QED
      BY <3>1
  <2>2. \A d \in Nat : d \in T => d + 1 \in T
    <3> SUFFICES ASSUME NEW d \in Nat, d <= n => P[n - d] <= P[n], d + 1 <= n
                 PROVE  P[n - (d + 1)] <= P[n]
      OBVIOUS
    <3>1. PICK i, i1 : i = n - d /\ i1 = n - (d + 1)
      OBVIOUS
    <3>2. i \in 1 .. n /\ i - 1 = i1 /\ i \in 0 .. n /\ i1 \in 0 .. n /\ n \in 0 .. n
      BY <1>3, <3>1
    <3>3. P[i] \in Nat /\ P[i1] \in Nat /\ P[n] \in Nat /\ P[i] >= P[i1] + 1 /\ P[i] <= P[n]
      BY <1>3, <3>1, <3>2
    <3> QED
      BY <3>1, <3>3
  <2>3. Nat \subseteq T
    <3> HIDE DEF T
    <3> QED
      BY <2>1, <2>2, Induct
  <2> TAKE i \in 0 .. n
  <2>4. PICK d : d = n - i
    OBVIOUS
  <2>5. d \in Nat /\ n - d = i /\ d <= n
    BY <1>3, <2>4
  <2> QED
    BY <2>3, <2>5
<1>5. P[k] \in Nat /\ P[n] \in Nat /\ P[k] <= P[n]
  BY <1>3, <1>4
<1>6. t \in Seq(Byte) /\ Len(t) \in Nat /\ (esc => Len(S) = P[k] + 1 + Len(t)) /\ (~esc => Len(S) = P[k] + Len(t))
  BY <1>1, <1>2, LenProperties DEF Rest
<1>7. esc => P[k] + 2 <= P[n]
  <2> SUFFICES ASSUME esc PROVE P[k] + 2 <= P[n]
    OBVIOUS
  <2>1. PICK i : i = k + 1
    OBVIOUS
  <2>2. i \in 1 .. n /\ i \in 0 .. n /\ i - 1 = k /\ Special(f[i])
    BY <1>1, <1>2, <1>3, <2>1
  <2>3. P[i] = P[k] + 2 /\ P[i] <= P[n]
    BY <1>3, <1>4, <2>2
  <2> QED
    BY <1>5, <2>3
<1>8. Len(t) >= 1
  BY <1>3, <1>5, <1>6, <1>7
<1>9. t # <<>>
  BY <1>8
<1> QED
  BY <1>1, <1>9

\* Byte b is sent: one of the frame, an ESCAP, or the COMMA behind all.
SendsNext(f, p, esc, b, t2) ==
  \/ (esc \/ ~Special(b)) /\ Sending(f, Append(p, b), FALSE, t2)
  \/ ~esc /\ b = ESCAP /\ Sending(f, p, TRUE, t2)
  \/ ~esc /\ b = COMMA /\ p = f /\ t2 = <<>>

\* The first byte of what is to be sent is one of these.
LEMMA SendByte ==
  ASSUME NEW f \in Seq(Byte), NEW p, NEW esc \in BOOLEAN, NEW t \in Seq(Byte), Sending(f, p, esc, t),
         NEW b, b = t[1], NEW t2, t2 = Tail(t)
  PROVE  SendsNext(f, p, esc, b, t2)
<1>1. PICK S, P : /\ Encodes(f, S, P)
                  /\ p \in Seq(Byte) /\ Len(p) <= Len(f) /\ \A i \in 1 .. Len(p) : p[i] = f[i]
                  /\ esc => Len(p) < Len(f) /\ Special(f[Len(p) + 1]) /\ Rest(S, P[Len(p)] + 1, t)
                  /\ ~esc => Rest(S, P[Len(p)], t)
  BY DEF Sending
<1>2. PICK n, k, k1, c : n = Len(f) /\ k = Len(p) /\ k1 = k + 1 /\ c = f[k1]
  OBVIOUS
<1>3. n \in Nat /\ k \in 0 .. n /\ k1 - 1 = k
  BY <1>1, <1>2, LenProperties
<1>4. P \in [0 .. n -> Nat] /\ P[0] = 0 /\ S \in Seq(Byte) /\ Len(S) = P[n] + 1 /\ S[Len(S)] = COMMA
  BY <1>1, <1>2 DEF Encodes
<1>5. P[k] \in Nat
  BY <1>3, <1>4
<1>6. t # <<>> /\ t2 \in Seq(Byte) /\ Len(t) \in Nat /\ Len(t) >= 1 /\ Len(t2) = Len(t) - 1
      /\ \A i \in 1 .. Len(t2) : t2[i] = t[i + 1]
  <2>1. t # <<>>
    BY SendingMore
  <2> QED
    BY <2>1, HeadTailProperties, LenProperties, EmptySeq
<1>7. ASSUME NEW m, Rest(S, m, t)
      PROVE  Rest(S, m + 1, t2) /\ b = S[m + 1]
  <2>1. m \in Nat /\ Len(S) = m + Len(t) /\ \A i \in 1 .. Len(t) : t[i] = S[m + i]
    BY <1>7 DEF Rest
  <2>2. 1 \in 1 .. Len(t)
    BY <1>6
  <2>3. b = S[m + 1]
    BY <2>1, <2>2
  <2>4. \A i \in 1 .. Len(t2) : t2[i] = S[m + 1 + i]
    <3> TAKE i \in 1 .. Len(t2)
    <3>1. i + 1 \in 1 .. Len(t) /\ m + (i + 1) = m + 1 + i
      BY <1>6, <2>1
    <3> QED
      BY <1>6, <2>1, <3>1
  <2>5. Len(S) = m + 1 + Len(t2) /\ m + 1 \in Nat
    BY <1>6, <2>1
  <2> QED
    BY <1>6, <2>3, <2>4, <2>5 DEF Rest
<1>8. k < n => k1 \in 1 .. n /\ c \in Byte
      /\ (Special(c) => P[k1] = P[k] + 2 /\ S[P[k] + 1] = ESCAP /\ S[P[k] + 2] = c)
      /\ (~Special(c) => P[k1] = P[k] + 1 /\ S[P[k] + 1] = c)
  <2> SUFFICES ASSUME k < n
               PROVE  k1 \in 1 .. n /\ c \in Byte
                      /\ (Special(c) => P[k1] = P[k] + 2 /\ S[P[k] + 1] = ESCAP /\ S[P[k] + 2] = c)
                      /\ (~Special(c) => P[k1] = P[k] + 1 /\ S[P[k] + 1] = c)
    OBVIOUS
  <2>1. k1 \in 1 .. n
    BY <1>2, <1>3
  <2>2. c \in Byte
    BY <1>2, <2>1, ElementOfSeq
  <2>3. \A i \in 1 .. n : /\ Special(f[i]) => P[i] = P[i - 1] + 2 /\ S[P[i - 1] + 1] = ESCAP /\ S[P[i - 1] + 2] = f[i]
                          /\ ~Special(f[i]) => P[i] = P[i - 1] + 1 /\ S[P[i - 1] + 1] = f[i]
    BY <1>1, <1>2 DEF Encodes
  <2>4. /\ Special(f[k1]) => P[k1] = P[k1 - 1] + 2 /\ S[P[k1 - 1] + 1] = ESCAP /\ S[P[k1 - 1] + 2] = f[k1]
        /\ ~Special(f[k1]) => P[k1] = P[k1 - 1] + 1 /\ S[P[k1 - 1] + 1] = f[k1]
    BY <2>1, <2>3
  <2> QED
    BY <1>2, <1>3, <2>1, <2>2, <2>4
\* The byte of the frame goes to p.
<1>9. ASSUME k < n, b = c, Rest(S, P[k1], t2)
      PROVE  Sending(f, Append(p, b), FALSE, t2)
  <2>1. PICK p2 : p2 = Append(p, b)
    OBVIOUS
  <2>2. b \in Byte /\ k1 \in 1 .. n
    BY <1>8, <1>9
  <2>3. p2 \in Seq(Byte) /\ Len(p2) = Len(p) + 1 /\ p2[Len(p) + 1] = b /\ \A i \in 1 .. Len(p) : p2[i] = p[i]
    BY <1>1, <2>1, <2>2, OneMore
  <2>4. Len(p2) = k1 /\ Len(p2) <= Len(f)
    BY <1>2, <2>2, <2>3
  <2>5. \A i \in 1 .. Len(p2) : p2[i] = f[i]
    <3> TAKE i \in 1 .. Len(p2)
    <3>1. i = k1 \/ i \in 1 .. k
      BY <1>2, <1>3, <2>4
    <3> QED
      BY <1>1, <1>2, <1>9, <2>3, <3>1
  <2>6. Rest(S, P[Len(p2)], t2)
    BY <1>9, <2>4
  <2>7. Sending(f, p2, FALSE, t2)
    BY <1>1, <2>3, <2>4, <2>5, <2>6 DEF Sending
  <2> QED
    BY <2>1, <2>7
<1>10. CASE esc
  <2>1. k < n /\ Special(c) /\ Rest(S, P[k] + 1, t)
    BY <1>1, <1>2, <1>10
  <2>2. PICK m : m = P[k] + 1
    OBVIOUS
  <2>3. Rest(S, m + 1, t2) /\ b = S[m + 1]
    BY <1>7, <2>1, <2>2
  <2>4. m + 1 = P[k] + 2
    BY <1>5, <2>2
  <2>5. b = c /\ Rest(S, P[k1], t2)
    BY <1>8, <2>1, <2>3, <2>4
  <2>6. Sending(f, Append(p, b), FALSE, t2)
    BY <1>9, <2>1, <2>5
  <2> QED
    BY <1>10, <2>6 DEF SendsNext
<1>11. CASE ~esc /\ k < n /\ Special(c)
  <2>1. Rest(S, P[k] + 1, t2) /\ b = ESCAP
    BY <1>1, <1>2, <1>7, <1>8, <1>11
  <2>2. Len(p) < Len(f) /\ Special(f[Len(p) + 1]) /\ Rest(S, P[Len(p)] + 1, t2)
    BY <1>2, <1>11, <2>1
  <2>3. Sending(f, p, TRUE, t2)
    BY <1>1, <2>2 DEF Sending
  <2> QED
    BY <1>11, <2>1, <2>3 DEF SendsNext
<1>12. CASE ~esc /\ k < n /\ ~Special(c)
  <2>1. Rest(S, P[k] + 1, t2) /\ b = c
    BY <1>1, <1>2, <1>7, <1>8, <1>12
  <2>2. Rest(S, P[k1], t2)
    BY <1>8, <1>12, <2>1
  <2>3. Sending(f, Append(p, b), FALSE, t2)
    BY <1>9, <1>12, <2>1, <2>2
  <2>4. ~Special(b)
    BY <1>12, <2>1
  <2> QED
    BY <2>3, <2>4, Zenon DEF SendsNext
<1>13. CASE ~esc /\ k = n
  <2>1. Rest(S, P[n] + 1, t2) /\ b = S[P[n] + 1]
    BY <1>1, <1>2, <1>7, <1>13
  <2>2. b = COMMA
    BY <1>4, <2>1
  <2>3. Len(t2) = 0
    <3>1. Len(S) = P[n] + 1 + Len(t2) /\ Len(t2) \in Nat
      BY <1>6, <2>1, LenProperties DEF Rest
    <3>2. P[n] \in Nat
      BY <1>5, <1>13
    <3>3. Len(S) = P[n] + 1
      BY <1>4
    <3>4. PICK x \in Nat, y \in Nat : x = P[n] /\ y = Len(t2)
      BY <3>1, <3>2
    <3>5. x + 1 = x + 1 + y
      BY <3>1, <3>3, <3>4
    <3>6. y = 0
      BY <3>5
    <3> QED
      BY <3>4, <3>6
  <2>4. t2 = <<>>
    BY <1>6, <2>3, EmptySeq
  <2>5. p = f
    BY <1>1, <1>2, <1>13, SeqEqual
  <2> QED
    BY <1>13, <2>2, <2>4, <2>5 DEF SendsNext
<1> QED
  <2>1. k < n \/ k = n
    BY <1>3
  <2> QED
    BY <1>10, <1>11, <1>12, <1>13, <2>1

-----------------------------------------------------------------------------
(* A transfer gets its own reply: what the host has received. *)

Rcvs == [rx : {"RX", "ESC", "DONE"}, cmd : Bus(Byte), got : Seq(Byte)]
Rcv(h) == [rx |-> h.rx, cmd |-> h.cmd, got |-> h.got]

\* RxByte on what the host receives, with room for m bytes.
Stored(x, b, m) ==
  IF x.cmd = <<>> THEN [rx |-> "RX", cmd |-> <<b>>, got |-> x.got]
  ELSE [rx |-> "RX", cmd |-> x.cmd, got |-> IF Len(x.got) < m THEN Append(x.got, b) ELSE x.got]
RcvByte(x, b, m) ==
  IF x.rx # "ESC" /\ b = COMMA THEN [rx |-> "DONE", cmd |-> x.cmd, got |-> x.got]
  ELSE IF x.rx # "ESC" /\ b = ESCAP THEN [rx |-> "ESC", cmd |-> x.cmd, got |-> x.got]
  ELSE Stored(x, b, m)

\* It is what RxByte does.
LEMMA RcvIs ==
  ASSUME NEW h \in Hosts, NEW b \in Byte
  PROVE  Rcv(h) \in Rcvs /\ Rcv(RxByte(h, b)) = RcvByte(Rcv(h), b, h.req.rlen)
<1>1. Rcv(h) \in Rcvs /\ Rcv(h).rx = h.rx /\ Rcv(h).cmd = h.cmd /\ Rcv(h).got = h.got
  BY DEF Rcv, Rcvs, Hosts
<1>2. PICK x, m : x = Rcv(h) /\ m = h.req.rlen
  OBVIOUS
<1>3. CASE h.rx # "ESC" /\ b = COMMA
  <2>1. RxByte(h, b) = [h EXCEPT !.rx = "DONE"]
    BY <1>3 DEF RxByte
  <2>2. Rcv(RxByte(h, b)) = [rx |-> "DONE", cmd |-> h.cmd, got |-> h.got]
    BY <2>1 DEF Rcv, Hosts
  <2>3. RcvByte(x, b, m) = [rx |-> "DONE", cmd |-> x.cmd, got |-> x.got]
    BY <1>1, <1>2, <1>3 DEF RcvByte
  <2> QED
    BY <1>1, <1>2, <2>2, <2>3
<1>4. CASE h.rx # "ESC" /\ b # COMMA /\ b = ESCAP
  <2>1. RxByte(h, b) = [h EXCEPT !.rx = "ESC"]
    BY <1>4 DEF RxByte
  <2>2. Rcv(RxByte(h, b)) = [rx |-> "ESC", cmd |-> h.cmd, got |-> h.got]
    BY <2>1 DEF Rcv, Hosts
  <2>3. RcvByte(x, b, m) = [rx |-> "ESC", cmd |-> x.cmd, got |-> x.got]
    BY <1>1, <1>2, <1>4 DEF RcvByte
  <2> QED
    BY <1>1, <1>2, <2>2, <2>3
<1>5. CASE ~(h.rx # "ESC" /\ (b = COMMA \/ b = ESCAP)) /\ h.cmd = <<>>
  <2>1. RxByte(h, b) = [h EXCEPT !.rx = "RX", !.cmd = <<b>>]
    BY <1>5 DEF RxByte
  <2>2. Rcv(RxByte(h, b)) = [rx |-> "RX", cmd |-> <<b>>, got |-> h.got]
    BY <2>1 DEF Rcv, Hosts
  <2>3. RcvByte(x, b, m) = [rx |-> "RX", cmd |-> <<b>>, got |-> x.got]
    BY <1>1, <1>2, <1>5 DEF RcvByte, Stored
  <2> QED
    BY <1>1, <1>2, <2>2, <2>3
<1>6. CASE ~(h.rx # "ESC" /\ (b = COMMA \/ b = ESCAP)) /\ h.cmd # <<>>
  <2>0. PICK u : u = IF Len(h.got) < m THEN Append(h.got, b) ELSE h.got
    OBVIOUS
  <2>1. RxByte(h, b) = [h EXCEPT !.rx = "RX", !.got = u]
    BY <1>2, <1>6, <2>0 DEF RxByte
  <2>2. Rcv(RxByte(h, b)) = [rx |-> "RX", cmd |-> h.cmd, got |-> u]
    BY <2>1 DEF Rcv, Hosts
  <2>3. RcvByte(x, b, m) = [rx |-> "RX", cmd |-> x.cmd, got |-> u]
    BY <1>1, <1>2, <1>6, <2>0 DEF RcvByte, Stored
  <2> QED
    BY <1>1, <1>2, <2>2, <2>3
<1> QED
  BY <1>1, <1>3, <1>4, <1>5, <1>6

\* x has received the bytes s of a reply, with room for m.
Took(x, s, m) ==
  /\ s = <<>> => x.cmd = <<>> /\ x.got = <<>>
  /\ s # <<>> => /\ x.cmd = <<s[1]>> /\ x.got \in Seq(Byte)
                 /\ Len(x.got) = IF Len(s) - 1 <= m THEN Len(s) - 1 ELSE m
                 /\ \A i \in 1 .. Len(x.got) : x.got[i] = s[i + 1]

\* One byte more is stored.
LEMMA TookMore ==
  ASSUME NEW x \in Rcvs, NEW s \in Seq(Byte), NEW m \in Nat, Took(x, s, m), NEW b \in Byte,
         NEW s2, s2 = Append(s, b)
  PROVE  Took(Stored(x, b, m), s2, m)
<1>1. s2 \in Seq(Byte) /\ Len(s) \in Nat /\ Len(s2) = Len(s) + 1 /\ s2[Len(s) + 1] = b
      /\ (\A i \in 1 .. Len(s) : s2[i] = s[i]) /\ s2 # <<>>
  BY OneMore, EmptySeq
<1>2. PICK y : y = Stored(x, b, m)
  OBVIOUS
<1>3. CASE s = <<>>
  <2>1. x.cmd = <<>> /\ x.got = <<>> /\ Len(s) = 0
    BY <1>3 DEF Took
  <2>2. y = [rx |-> "RX", cmd |-> <<b>>, got |-> <<>>]
    BY <1>2, <2>1 DEF Stored
  <2>3. y.cmd = <<b>> /\ y.got = <<>> /\ y.got \in Seq(Byte) /\ Len(y.got) = 0
    BY <2>2
  <2>4. s2[1] = b /\ Len(s2) - 1 = 0 /\ 0 <= m
    BY <1>1, <2>1
  <2>5. y.cmd = <<s2[1]>> /\ (Len(y.got) = IF Len(s2) - 1 <= m THEN Len(s2) - 1 ELSE m)
        /\ \A i \in 1 .. Len(y.got) : y.got[i] = s2[i + 1]
    BY <2>3, <2>4
  <2> QED
    BY <1>1, <1>2, <2>3, <2>5 DEF Took
<1>4. CASE s # <<>>
  <2>1. /\ x.cmd = <<s[1]>> /\ x.got \in Seq(Byte)
        /\ Len(x.got) = IF Len(s) - 1 <= m THEN Len(s) - 1 ELSE m
        /\ \A i \in 1 .. Len(x.got) : x.got[i] = s[i + 1]
    BY <1>4 DEF Took
  <2>2. Len(s) >= 1 /\ s2[1] = s[1] /\ x.cmd # <<>>
    BY <1>1, <1>4, <2>1, EmptySeq
  <2>3. PICK n, l, g : n = Len(x.got) /\ l = Len(s) /\ g = IF n < m THEN Append(x.got, b) ELSE x.got
    OBVIOUS
  <2>4. y = [rx |-> "RX", cmd |-> x.cmd, got |-> g]
    BY <1>2, <2>2, <2>3 DEF Stored
  <2>5. y.cmd = <<s2[1]>> /\ y.got = g
    BY <2>1, <2>2, <2>4
  <2>6. n \in Nat /\ l \in Nat /\ l >= 1 /\ Len(s2) = l + 1
        /\ (l - 1 <= m => n = l - 1) /\ (~(l - 1 <= m) => n = m)
    BY <1>1, <2>1, <2>2, <2>3, LenProperties
  <2>7. g \in Seq(Byte) /\ (Len(g) = IF Len(s2) - 1 <= m THEN Len(s2) - 1 ELSE m)
        /\ \A i \in 1 .. Len(g) : g[i] = s2[i + 1]
    <3>1. CASE n < m
      <4>1. g = Append(x.got, b)
        BY <2>3, <3>1
      <4>2. g \in Seq(Byte) /\ Len(g) = n + 1 /\ g[n + 1] = b /\ \A i \in 1 .. n : g[i] = x.got[i]
        BY <2>1, <2>3, <4>1, OneMore
      <4>3. n = l - 1 /\ Len(s2) - 1 = l /\ l <= m
        BY <2>6, <3>1
      <4>4. \A i \in 1 .. Len(g) : g[i] = s2[i + 1]
        <5> TAKE i \in 1 .. Len(g)
        <5>1. CASE i = n + 1
          <6>1. i + 1 = l + 1
            BY <2>6, <4>3, <5>1
          <6>2. s2[l + 1] = b
            BY <1>1, <2>3
          <6> QED
            BY <4>2, <5>1, <6>1, <6>2
        <5>2. CASE i # n + 1
          <6>1. i \in 1 .. n /\ i + 1 \in 1 .. l
            BY <2>6, <4>2, <4>3, <5>2
          <6> QED
            BY <1>1, <2>1, <2>3, <4>2, <6>1
        <5> QED
          BY <5>1, <5>2
      <4>5. Len(g) = l
        BY <2>6, <4>2, <4>3
      <4> QED
        BY <4>2, <4>3, <4>4, <4>5
    <3>2. CASE ~(n < m)
      <4>1. g = x.got /\ Len(g) = n /\ g \in Seq(Byte)
        BY <2>1, <2>3, <3>2
      <4>2. n = m /\ l >= m + 1 /\ ~(Len(s2) - 1 <= m)
        BY <2>6, <3>2
      <4>3. \A i \in 1 .. Len(g) : g[i] = s2[i + 1]
        <5> TAKE i \in 1 .. Len(g)
        <5>1. i + 1 \in 1 .. l
          BY <2>6, <4>1, <4>2
        <5> QED
          BY <1>1, <2>1, <2>3, <4>1, <5>1
      <4> QED
        BY <4>1, <4>2, <4>3
    <3> QED
      BY <3>1, <3>2
  <2> QED
    BY <1>1, <1>2, <2>5, <2>7 DEF Took
<1> QED
  BY <1>3, <1>4

\* A byte keeps the types.
LEMMA RcvByteType ==
  ASSUME NEW x \in Rcvs, NEW b \in Byte, NEW m \in Nat
  PROVE  RcvByte(x, b, m) \in Rcvs /\ Stored(x, b, m) \in Rcvs /\ Stored(x, b, m).rx = "RX"
<1>1. <<b>> \in Bus(Byte) /\ x.cmd \in Bus(Byte) /\ x.got \in Seq(Byte)
  BY OneOnBus DEF Rcvs
<1>2. PICK g : g = IF Len(x.got) < m THEN Append(x.got, b) ELSE x.got
  OBVIOUS
<1>3. g \in Seq(Byte)
  <2>1. Append(x.got, b) \in Seq(Byte)
    BY <1>1, AppendProperties
  <2> QED
    BY <1>1, <1>2, <2>1
<1>4. Stored(x, b, m) \in Rcvs /\ Stored(x, b, m).rx = "RX"
  <2>1. CASE x.cmd = <<>>
    <3>1. Stored(x, b, m) = [rx |-> "RX", cmd |-> <<b>>, got |-> x.got]
      BY <2>1 DEF Stored
    <3> QED
      BY <1>1, <3>1 DEF Rcvs
  <2>2. CASE x.cmd # <<>>
    <3>1. Stored(x, b, m) = [rx |-> "RX", cmd |-> x.cmd, got |-> g]
      BY <1>2, <2>2 DEF Stored
    <3> QED
      BY <1>1, <1>3, <3>1 DEF Rcvs
  <2> QED
    BY <2>1, <2>2
<1>5. [rx |-> "DONE", cmd |-> x.cmd, got |-> x.got] \in Rcvs /\ [rx |-> "ESC", cmd |-> x.cmd, got |-> x.got] \in Rcvs
  BY <1>1 DEF Rcvs
<1> QED
  BY <1>4, <1>5 DEF RcvByte

\* Having received x, the host has received z when it has read s as well.
Reaches(s, x, m, z) ==
  \E Y \in [0 .. Len(s) -> Rcvs] :
    /\ Y[0] = x /\ Y[Len(s)] = z
    /\ \A i \in 1 .. Len(s) : Y[i - 1].rx # "DONE" /\ Y[i] = RcvByte(Y[i - 1], s[i], m)

\* With nothing on the link there is nothing more.
LEMMA ReachesNone ==
  ASSUME NEW x \in Rcvs, NEW m
  PROVE  Reaches(<<>>, x, m, x)
<1>1. PICK Y : Y = [i \in 0 .. 0 |-> x]
  OBVIOUS
<1>2. PICK s : s = <<>>
  OBVIOUS
<1>3. Len(s) = 0
  BY <1>2
<1>4. Y \in [0 .. Len(s) -> Rcvs] /\ Y[0] = x /\ Y[Len(s)] = x /\ 1 .. Len(s) = {}
  BY <1>1, <1>3
<1>5. Reaches(s, x, m, x)
  BY <1>4 DEF Reaches
<1> QED
  BY <1>2, <1>5

\* Nothing is received behind the end of a reply.
LEMMA ReachesDone ==
  ASSUME NEW s \in Seq(Byte), NEW x, NEW m, NEW z, Reaches(s, x, m, z)
  PROVE  z \in Rcvs /\ (x.rx = "DONE" => s = <<>> /\ z = x)
<1>1. PICK Y \in [0 .. Len(s) -> Rcvs] :
        /\ Y[0] = x /\ Y[Len(s)] = z
        /\ \A i \in 1 .. Len(s) : Y[i - 1].rx # "DONE"
  BY DEF Reaches
<1>2. Len(s) \in Nat /\ Len(s) \in 0 .. Len(s)
  BY LenProperties
<1>3. z \in Rcvs
  BY <1>1, <1>2
<1>4. x.rx = "DONE" => Len(s) = 0
  <2> SUFFICES ASSUME x.rx = "DONE", Len(s) >= 1 PROVE FALSE
    BY <1>2
  <2>1. 1 \in 1 .. Len(s) /\ 1 - 1 = 0
    BY <1>2
  <2>2. Y[1 - 1].rx # "DONE"
    BY <1>1, <2>1
  <2> QED
    BY <1>1, <2>1, <2>2
<1>5. Len(s) = 0 => s = <<>> /\ z = x
  BY <1>1, EmptySeq
<1> QED
  BY <1>3, <1>4, <1>5

\* One byte more on the link.
LEMMA ReachesMore ==
  ASSUME NEW s \in Seq(Byte), NEW x, NEW m \in Nat, NEW z, Reaches(s, x, m, z), z.rx # "DONE",
         NEW b \in Byte, NEW s2, s2 = Append(s, b)
  PROVE  Reaches(s2, x, m, RcvByte(z, b, m))
<1>1. PICK Y \in [0 .. Len(s) -> Rcvs] :
        /\ Y[0] = x /\ Y[Len(s)] = z
        /\ \A i \in 1 .. Len(s) : Y[i - 1].rx # "DONE" /\ Y[i] = RcvByte(Y[i - 1], s[i], m)
  BY DEF Reaches
<1>2. PICK n, y : n = Len(s) /\ y = RcvByte(z, b, m)
  OBVIOUS
<1>3. n \in Nat /\ Len(s2) = n + 1 /\ s2[n + 1] = b /\ \A i \in 1 .. n : s2[i] = s[i]
  BY <1>2, OneMore
<1>4. z \in Rcvs /\ y \in Rcvs
  BY <1>2, ReachesDone, RcvByteType
<1>5. PICK Z : Z = [i \in 0 .. n + 1 |-> IF i <= n THEN Y[i] ELSE y]
  OBVIOUS
<1>6. Z \in [0 .. n + 1 -> Rcvs] /\ (\A i \in 0 .. n : Z[i] = Y[i]) /\ Z[n + 1] = y
  <2>1. \A i \in 0 .. n + 1 : i <= n => Y[i] \in Rcvs
    BY <1>1, <1>2, <1>3
  <2> QED
    BY <1>3, <1>4, <1>5, <2>1
<1>7. \A i \in 1 .. n + 1 : Z[i - 1].rx # "DONE" /\ Z[i] = RcvByte(Z[i - 1], s2[i], m)
  <2> TAKE i \in 1 .. n + 1
  <2>1. CASE i = n + 1
    <3>1. i - 1 = n /\ n \in 0 .. n
      BY <1>3, <2>1
    <3>2. Z[i - 1] = z /\ Z[i] = y /\ s2[i] = b
      BY <1>1, <1>2, <1>3, <1>6, <2>1, <3>1
    <3> QED
      BY <1>2, <3>2
  <2>2. CASE i # n + 1
    <3>1. i \in 1 .. n /\ i \in 0 .. n /\ i - 1 \in 0 .. n
      BY <1>3, <2>2
    <3>2. Z[i - 1] = Y[i - 1] /\ Z[i] = Y[i] /\ s2[i] = s[i]
      BY <1>3, <1>6, <3>1
    <3> QED
      BY <1>1, <1>2, <3>1, <3>2
  <2> QED
    BY <2>1, <2>2
<1>8. Z[0] = x
  BY <1>1, <1>3, <1>6
<1>9. Reaches(s2, x, m, y)
  BY <1>3, <1>6, <1>7, <1>8 DEF Reaches
<1> QED
  BY <1>2, <1>9

\* What was on the link is read.
LEMMA ReachesRead ==
  ASSUME HostOK, NEW n, Read(n), NEW m, m = host.req.rlen, NEW x, x = Rcv(host), NEW z, Reaches(toHost, x, m, z),
         NEW x2, x2 = Rcv(host'), NEW s2, s2 = toHost'
  PROVE  Reaches(s2, x2, m, z)
<1>1. PICK s, l : s = toHost /\ l = Len(s)
  OBVIOUS
<1>2. s \in Seq(Byte) /\ l \in Nat
  BY <1>1, LenProperties DEF HostOK
<1>3. n \in 1 .. l /\ s2 = SubSeq(s, n + 1, l)
  BY <1>1, ReadIs
<1>4. n \in Nat /\ n <= l
  BY <1>2, <1>3
<1>5. s2 \in Seq(Byte) /\ Len(s2) = l - n /\ \A i \in 1 .. l - n : s2[i] = s[n + i]
  BY <1>1, <1>2, <1>3, <1>4, SubSeqIs
<1>6. PICK Y \in [0 .. l -> Rcvs] :
        /\ Y[0] = x /\ Y[l] = z
        /\ \A i \in 1 .. l : Y[i - 1].rx # "DONE" /\ Y[i] = RcvByte(Y[i - 1], s[i], m)
  BY <1>1 DEF Reaches
<1>7. PICK g : /\ g[0] = host /\ g[n] = host'
               /\ \A i \in 1 .. n : g[i] = RxStep(g[i - 1], s[i])
               /\ \A i \in 0 .. n : g[i] \in Hosts /\ g[i].req = host.req
  BY <1>1, ReadBy
<1> DEFINE T == {d \in Nat : d <= n => Rcv(g[d]) = Y[d]}
<1>8. 0 \in T
  BY <1>6, <1>7
<1>9. \A d \in Nat : d \in T => d + 1 \in T
  <2> SUFFICES ASSUME NEW d \in Nat, d <= n => Rcv(g[d]) = Y[d], d + 1 <= n
               PROVE  Rcv(g[d + 1]) = Y[d + 1]
    OBVIOUS
  <2>1. PICK i : i = d + 1
    OBVIOUS
  <2>2. i \in 1 .. n /\ i \in 1 .. l /\ i - 1 = d /\ d \in 0 .. n
    <3>1. i \in Nat /\ i >= 1 /\ i - 1 = d /\ i <= n
      BY <2>1
    <3>2. i \in 1 .. n /\ d \in 0 .. n
      BY <1>4, <3>1
    <3>3. i <= l
      BY <1>2, <1>4, <3>1
    <3>4. i \in 1 .. l
      BY <1>2, <3>1, <3>3
    <3> QED
      BY <3>1, <3>2, <3>4
  <2>3. PICK h, b : h = g[d] /\ b = s[i]
    OBVIOUS
  <2>4. h \in Hosts /\ h.req.rlen = m /\ b \in Byte
    BY <1>1, <1>2, <1>7, <2>2, <2>3, ElementOfSeq
  <2>5. Rcv(h) = Y[d] /\ Y[d].rx # "DONE" /\ Y[i] = RcvByte(Y[d], b, m)
    BY <1>6, <2>2, <2>3
  <2>6. h.rx # "DONE"
    BY <2>5 DEF Rcv
  <2>7. g[i] = RxByte(h, b)
    BY <1>7, <2>2, <2>3, <2>6 DEF RxStep
  <2>8. Rcv(RxByte(h, b)) = RcvByte(Rcv(h), b, m)
    BY <2>4, RcvIs
  <2> QED
    BY <2>1, <2>5, <2>7, <2>8
<1>10. Nat \subseteq T
  <2> HIDE DEF T
  <2> QED
    BY <1>8, <1>9, Induct
<1>11. Y[n] = x2
  BY <1>4, <1>7, <1>10
<1> HIDE DEF T
<1>12. PICK Z : Z = [i \in 0 .. l - n |-> Y[n + i]]
  OBVIOUS
<1>13. /\ Z \in [0 .. l - n -> Rcvs] /\ Z[0] = x2 /\ Z[l - n] = z
       /\ \A i \in 0 .. l - n : Z[i] = Y[n + i]
  <2>1. \A i \in 0 .. l - n : n + i \in 0 .. l
    BY <1>2, <1>4
  <2>2. 0 \in 0 .. l - n /\ l - n \in 0 .. l - n /\ n + 0 = n /\ n + (l - n) = l
    BY <1>2, <1>4
  <2> QED
    BY <1>6, <1>11, <1>12, <2>1, <2>2
<1>14. \A i \in 1 .. l - n : Z[i - 1].rx # "DONE" /\ Z[i] = RcvByte(Z[i - 1], s2[i], m)
  <2> TAKE i \in 1 .. l - n
  <2>1. PICK k : k = n + i
    OBVIOUS
  <2>2. k \in 1 .. l /\ i \in 0 .. l - n /\ i - 1 \in 0 .. l - n /\ n + (i - 1) = k - 1
    BY <1>2, <1>4, <2>1
  <2>3. Z[i] = Y[k] /\ Z[i - 1] = Y[k - 1] /\ s2[i] = s[k]
    BY <1>5, <1>13, <2>1, <2>2
  <2> QED
    BY <1>6, <2>2, <2>3
<1> QED
  BY <1>5, <1>13, <1>14 DEF Reaches

-----------------------------------------------------------------------------
(* A transfer gets its own reply: the invariant. *)

\* The reply is not complete, and the host has, or will have, what came of it:
\* the frame is being sent, or is and no other.
Asks(f, m, z) ==
  /\ ~early /\ Took(z, answer, m) /\ z.rx = IF escRcvd THEN "ESC" ELSE "RX"
  /\ \/ \E p : due = <<p>> /\ Sending(f, p, escSent, host.tx)
     \/ host.tx = <<>> /\ ~escSent /\ due = <<f, <<>>>>

\* The reply is complete; an early one may come while the frame is being sent.
HasReply(f, m, z) ==
  /\ answer = <<>> /\ ~escRcvd /\ z.rx = "DONE" /\ Took(z, Reply(f), m)
  /\ \/ early /\ Cmd[f[1]] = "NONE" /\ \E p : due = <<p>> /\ Sending(f, p, escSent, host.tx)
     \/ host.tx = <<>> /\ ~escSent /\ due = <<<<>>>>

\* The transfer of request r: x is received, the rest of the reply is on the link
\* or in the device.
Serves(r, x) ==
  /\ r \in Requests
  /\ \E z : Reaches(toHost, x, r.rlen, z) /\ (Asks(r.frame, r.rlen, z) \/ HasReply(r.frame, r.rlen, z))
Transfers == Serves(host.req, Rcv(host))

\* Inductive with IInv.
InStep ==
  ~disturbed =>
    /\ host.state = "OPEN" => \A i \in 1 .. Len(host.tx) : host.tx[i] = COMMA
    /\ host.state = "IDLE" => host.tx = <<>>
    /\ host.state \in {"OPEN", "IDLE"} => Quiet(toHost)
    /\ host.state = "BUSY" => Transfers

\* The device answers only what is due.
LEMMA DatOfDue ==
  ASSUME Trace, DeviceOK, datOb # <<>>
  PROVE  ~early /\ due[1] # <<>>
<1>1. PICK F, a, c, f, k, g, j, w, W, B : Traced(F, a, c, f, k, g, j, w, W, B)
  BY DEF Trace
<1>2. Due(F, a) /\ OutAt(F, a, g, j)
  BY <1>1 DEF Traced
<1>3. PICK f1, k1 : Answering(F, a, f1, k1) /\ OutPipe(F, f1, k1, g, j)
  BY <1>2 DEF OutAt
<1>4. stf.state \in {"FWD", "STUFF", "LST"} /\ a \in Nat
  BY <1>3 DEF DeviceOK, StfOK, StfTypeOK, Answering
<1>5. Settled(F, a + 1)
  <2>1. CASE stf.state = "STUFF"
    <3>1. Replied(F, a + 1, Len(answer), stf.held) /\ stf.held # <<>>
      BY <1>3, <2>1 DEF Answering
    <3> QED
      BY <3>1 DEF Replied
  <2>2. CASE stf.state = "LST"
    BY <1>3, <2>2 DEF Answering
  <2>3. CASE stf.state = "FWD"
    <3>1. obBuf # <<>>
      BY <2>3 DEF datOb, StfOut
    <3>2. stf.held = <<>> /\ f1 = NextF(a + 1, stf.held)
      BY <1>3, <2>3 DEF Answering
    <3>3. f1 = a + 1
      BY <3>2 DEF NextF
    <3>4. Replied(F, f1, k1, obBuf)
      BY <1>3 DEF OutPipe
    <3> QED
      BY <3>1, <3>3, <3>4 DEF Replied
  <2> QED
    BY <1>4, <2>1, <2>2, <2>3
<1>6. a + 1 \in 1 .. Len(F) /\ F[a + 1] # <<>>
  BY <1>5 DEF Settled
<1>7. ~early
  <2> SUFFICES ASSUME early PROVE FALSE
    OBVIOUS
  <2>1. a = Len(F)
    BY <1>2 DEF Due
  <2> QED
    BY <1>4, <1>6, <2>1
<1>8. due[1] = F[a + 1]
  <2>1. Len(due) = Len(F) - a /\ \A i \in 1 .. Len(due) : due[i] = F[a + i]
    BY <1>2, <1>7 DEF Due
  <2>2. 1 \in 1 .. Len(due)
    BY <1>4, <1>6, <2>1
  <2> QED
    BY <2>1, <2>2
<1> QED
  BY <1>6, <1>7, <1>8

\* A frame that was answered early has a first byte.
LEMMA EarlyDue ==
  ASSUME Trace
  PROVE  early \in BOOLEAN /\ (early => due[1] # <<>>)
<1>1. PICK F, a, c, f, k, g, j, w, W, B : Traced(F, a, c, f, k, g, j, w, W, B)
  BY DEF Trace
<1>2. Due(F, a)
  BY <1>1 DEF Traced
<1>3. early \in BOOLEAN
  BY <1>2 DEF Due
<1>4. ASSUME early PROVE due[1] # <<>>
  <2>1. due = <<F[a]>> /\ F[a] # <<>>
    BY <1>2, <1>4 DEF Due
  <2> QED
    BY <2>1
<1> QED
  BY <1>3, <1>4

\* What is known of the history of the answer.
LEMMA AnswerType ==
  ASSUME Trace
  PROVE  answer \in Seq(Byte) /\ escRcvd \in BOOLEAN
<1>1. PICK F, a, c, f, k, g, j, w, W, B : Traced(F, a, c, f, k, g, j, w, W, B)
  BY DEF Trace
<1>2. PICK f1, k1 : Answering(F, a, f1, k1)
  BY <1>1 DEF Traced, OutAt
<1>3. answer \in Seq(Byte) /\ escRcvd = (stf.state = "STUFF")
  BY <1>2 DEF Answering
<1> QED
  BY <1>3

\* A byte of an answer that does not end it.
LEMMA ByteTaken ==
  ASSUME NEW z \in Rcvs, NEW m \in Nat, Took(z, answer, m), z.rx = (IF escRcvd THEN "ESC" ELSE "RX"),
         answer \in Seq(Byte), escRcvd \in BOOLEAN,
         NEW b \in Byte, NEW wr, Answered(<<b>>, wr), ~FrameEnd(<<b>>), NEW z2, z2 = RcvByte(z, b, m)
  PROVE  Took(z2, answer', m) /\ z2.rx = (IF escRcvd' THEN "ESC" ELSE "RX") /\ due' = due /\ early' = early
<1>1. <<b>> # <<>> /\ (<<b>> = <<ESCAP>> <=> b = ESCAP) /\ (<<b>> = <<COMMA>> <=> b = COMMA)
  OBVIOUS
<1>2. /\ escRcvd' = (~escRcvd /\ b = ESCAP)
      /\ answer' = IF escRcvd' THEN answer ELSE answer \o <<b>>
      /\ due' = due /\ early' = early
  BY <1>1 DEF Answered
<1>3. escRcvd \/ b # COMMA
  BY <1>1 DEF FrameEnd
<1>4. CASE ~escRcvd /\ b = ESCAP
  <2>1. z.rx = "RX" /\ b # COMMA
    BY <1>3, <1>4
  <2>2. z2 = [rx |-> "ESC", cmd |-> z.cmd, got |-> z.got]
    BY <1>4, <2>1 DEF RcvByte
  <2>3. escRcvd' /\ answer' = answer
    BY <1>2, <1>4
  <2>4. Took(z2, answer, m)
    BY <2>2 DEF Took
  <2> QED
    BY <1>2, <2>2, <2>3, <2>4
<1>5. CASE escRcvd \/ b # ESCAP
  <2>1. (z.rx = "ESC") \/ (z.rx = "RX" /\ b # COMMA /\ b # ESCAP)
    BY <1>3, <1>5
  <2>2. z2 = Stored(z, b, m)
    BY <2>1 DEF RcvByte
  <2>3. ~escRcvd' /\ answer' = answer \o <<b>>
    BY <1>2, <1>5
  <2>4. PICK s2 : s2 = Append(answer, b)
    OBVIOUS
  <2>5. Took(z2, s2, m) /\ z2.rx = "RX"
    BY <2>2, <2>4, TookMore, RcvByteType
  <2>6. answer' = s2
    BY <2>3, <2>4
  <2> QED
    BY <1>2, <2>3, <2>5, <2>6
<1> QED
  BY <1>4, <1>5

\* The end of an answer.
LEMMA EndTaken ==
  ASSUME NEW z \in Rcvs, NEW m \in Nat, NEW s, Took(z, s, m), z.rx = "RX", NEW z2, z2 = RcvByte(z, COMMA, m)
  PROVE  Took(z2, s, m) /\ z2.rx = "DONE"
<1>1. z2 = [rx |-> "DONE", cmd |-> z.cmd, got |-> z.got]
  BY DEF RcvByte
<1> QED
  BY <1>1 DEF Took

\* The reply to a frame without a handler is known from its first byte.
LEMMA ReplyEarly ==
  ASSUME NEW f \in Seq(Byte), NEW p, p # <<>>, NEW esc \in BOOLEAN, NEW t, Sending(f, p, esc, t), Cmd[p[1]] = "NONE"
  PROVE  Cmd[f[1]] = "NONE" /\ Reply(f) = Reply(p)
<1>1. p \in Seq(Byte) /\ Len(p) <= Len(f) /\ \A i \in 1 .. Len(p) : p[i] = f[i]
  BY SendingMore
<1>2. 1 \in 1 .. Len(p)
  <2>1. Len(p) \in Nat \ {0}
    BY <1>1, EmptySeq
  <2> QED
    BY <2>1
<1>3. p[1] = f[1]
  BY <1>1, <1>2
<1>4. Reply(f) = <<CMD_ERROR>> /\ Reply(p) = <<CMD_ERROR>>
  BY <1>3, ReplyCases
<1> QED
  BY <1>3, <1>4

\* An answer ends.
LEMMA EndStep ==
  ASSUME NEW f \in Seq(Byte), NEW m \in Nat, NEW z \in Rcvs, Asks(f, m, z), escSent \in BOOLEAN, escRcvd \in BOOLEAN,
         UNCHANGED <<host, escSent>>,
         NEW wr, Answered(<<COMMA>>, wr), FrameEnd(<<COMMA>>), AnsweredWell, NEW z2, z2 = RcvByte(z, COMMA, m)
  PROVE  HasReply(f, m, z2)'
<1>1. ~escRcvd /\ z.rx = "RX" /\ Took(z, answer, m)
  BY DEF FrameEnd, Asks
<1>2. z2.rx = "DONE" /\ Took(z2, answer, m)
  BY <1>1, EndTaken
<1>3. <<COMMA>> # <<>>
  OBVIOUS
<1>4. answer' = <<>> /\ escRcvd' = FALSE /\ early' = (Len(due) = 1)
      /\ due' = IF Len(due) > 1 THEN Tail(due) ELSE due
  BY <1>3 DEF Answered
<1>5. due[1] # <<>> /\ answer = Reply(due[1]) /\ (Len(due) = 1 => Cmd[due[1][1]] = "NONE")
  BY DEF AnsweredWell
<1>6. CASE \E p : due = <<p>> /\ Sending(f, p, escSent, host.tx)
  <2>1. PICK p : due = <<p>> /\ Sending(f, p, escSent, host.tx)
    BY <1>6
  <2>2. due[1] = p /\ Len(due) = 1
    BY <2>1
  <2>3. early' /\ due' = <<p>>
    <3>1. early' = TRUE
      BY <1>4, <2>2
    <3>2. ~(Len(due) > 1)
      BY <2>2
    <3>3. due' = due
      BY <1>4, <3>2, Zenon
    <3> QED
      BY <2>1, <3>1, <3>3
  <2>4. PICK t : t = host.tx
    OBVIOUS
  <2>5. Cmd[f[1]] = "NONE" /\ Reply(f) = answer
    <3>1. p # <<>> /\ Cmd[p[1]] = "NONE" /\ Sending(f, p, escSent, t)
      BY <1>5, <2>1, <2>2, <2>4
    <3> QED
      BY <1>5, <2>2, <3>1, ReplyEarly
  <2>6. Sending(f, p, escSent, host.tx)'
    BY <2>1 DEF Sending
  <2>7. Took(z2, Reply(f), m)
    BY <1>2, <2>5
  <2>8. Took(z2, Reply(f), m)'
    BY <2>7
  <2> QED
    BY <1>2, <1>4, <2>3, <2>5, <2>6, <2>8 DEF HasReply
<1>7. CASE host.tx = <<>> /\ ~escSent /\ due = <<f, <<>>>>
  <2>1. due[1] = f /\ Len(due) = 2 /\ Tail(due) = <<<<>>>>
    BY <1>7
  <2>2. due' = <<<<>>>> /\ host'.tx = <<>> /\ ~escSent'
    BY <1>4, <1>7, <2>1
  <2>3. Took(z2, Reply(f), m)
    BY <1>2, <1>5, <2>1
  <2>4. Took(z2, Reply(f), m)'
    BY <2>3
  <2> QED
    BY <1>2, <1>4, <2>2, <2>4 DEF HasReply
<1> QED
  BY <1>6, <1>7 DEF Asks

\* An edge of the clock during a transfer.
LEMMA ClkServes ==
  ASSUME IInv, NEW r, NEW x, Serves(r, x), UNCHANGED <<host, escSent>>, NEW out \in Bus(Byte), Puts(out)
  PROVE  Serves(r, x)'
<1>1. PICK wr : Answered(out, wr)
  BY DEF Puts
<1>2. toHost' = toHost \o out /\ (out # <<>> => out = datOb) /\ (FrameEnd(out) => AnsweredWell)
  BY DEF Puts
<1>3. /\ Trace /\ DeviceOK /\ toHost \in Seq(Byte) /\ escSent \in BOOLEAN
      /\ answer \in Seq(Byte) /\ escRcvd \in BOOLEAN
  BY AnswerType DEF IInv, HostOK
<1>4. PICK f, m : f = r.frame /\ m = r.rlen
  OBVIOUS
<1>5. r \in Requests /\ f \in Seq(Byte) /\ m \in Nat
  BY <1>4, HostAssumption DEF Serves
<1>6. PICK z : Reaches(toHost, x, m, z) /\ (Asks(f, m, z) \/ HasReply(f, m, z))
  BY <1>4 DEF Serves
<1>7. z \in Rcvs
  BY <1>3, <1>6, ReachesDone
<1>8. CASE out = <<>>
  <2>1. toHost' = toHost
    BY <1>2, <1>3, <1>8
  <2>2. UNCHANGED <<due, answer, escRcvd, early>>
    BY <1>1, <1>8 DEF Answered
  <2>3. Reaches(toHost, x, m, z)'
    BY <1>6, <2>1 DEF Reaches
  <2>4. Asks(f, m, z) => Asks(f, m, z)'
    BY <2>2 DEF Asks
  <2>5. HasReply(f, m, z) => HasReply(f, m, z)'
    BY <2>2 DEF HasReply
  <2> QED
    BY <1>4, <1>5, <1>6, <2>3, <2>4, <2>5 DEF Serves
<1>9. CASE out # <<>>
  <2>1. PICK b \in Byte : out = <<b>>
    BY <1>9 DEF Bus
  <2>2. ~early /\ due[1] # <<>>
    BY <1>2, <1>3, <1>9, DatOfDue
  <2>3. Asks(f, m, z)
    BY <1>6, <2>2 DEF HasReply
  <2>4. PICK s2, z2 : s2 = Append(toHost, b) /\ z2 = RcvByte(z, b, m)
    OBVIOUS
  <2>5. toHost' = s2
    BY <1>2, <1>3, <2>1, <2>4
  <2>6. z.rx # "DONE"
    BY <2>3 DEF Asks
  <2>7. Reaches(s2, x, m, z2)
    BY <1>3, <1>5, <1>6, <2>4, <2>6, ReachesMore
  <2>8. Reaches(toHost, x, m, z2)'
    BY <2>5, <2>7
  <2>9. CASE FrameEnd(out)
    <3>1. b = COMMA /\ out = <<COMMA>>
      BY <2>1, <2>9 DEF FrameEnd
    <3>2. HasReply(f, m, z2)'
      BY <1>1, <1>2, <1>3, <1>5, <1>7, <2>3, <2>4, <2>9, <3>1, EndStep
    <3> QED
      BY <1>4, <1>5, <2>8, <3>2 DEF Serves
  <2>10. CASE ~FrameEnd(out)
    <3>1. Took(z, answer, m) /\ z.rx = (IF escRcvd THEN "ESC" ELSE "RX")
      BY <2>3 DEF Asks
    <3>2. Took(z2, answer', m) /\ z2.rx = (IF escRcvd' THEN "ESC" ELSE "RX") /\ due' = due /\ early' = early
      BY <1>1, <1>3, <1>5, <1>7, <2>1, <2>4, <2>10, <3>1, ByteTaken
    <3>3. Took(z2, answer, m)'
      BY <3>2
    <3>4. Asks(f, m, z2)'
      BY <2>3, <3>2, <3>3 DEF Asks
    <3> QED
      BY <1>4, <1>5, <2>8, <3>4 DEF Serves
  <2> QED
    BY <2>9, <2>10
<1> QED
  BY <1>8, <1>9

\* The clock keeps host and device in step.
LEMMA ClkInStep ==
  ASSUME IInv, InStep, NEW rdy \in BOOLEAN, Clk(rdy)
  PROVE  InStep'
<1>1. PICK out \in Bus(Byte) : Puts(out)
  BY ClkKeeps
<1>2. UNCHANGED <<host, escSent, disturbed>>
  BY DEF Clk
<1> SUFFICES ASSUME ~disturbed PROVE InStep'
  BY <1>2 DEF InStep
<1>3. host.state = "BUSY" => Transfers'
  <2> SUFFICES ASSUME host.state = "BUSY" PROVE Transfers'
    OBVIOUS
  <2>1. PICK r, x : r = host.req /\ x = Rcv(host)
    OBVIOUS
  <2>2. Serves(r, x)
    BY <2>1 DEF InStep, Transfers
  <2>3. Serves(r, x)'
    BY <1>1, <1>2, <2>2, ClkServes
  <2>4. Rcv(host') = x /\ host'.req = r
    BY <1>2, <2>1
  <2> QED
    BY <2>3, <2>4 DEF Transfers
<1>4. Quiet(toHost) => Quiet(toHost)'
  <2> SUFFICES ASSUME Quiet(toHost) PROVE Quiet(toHost)'
    OBVIOUS
  <2>1. due = <<<<>>>> /\ toHost = <<>> /\ Trace /\ DeviceOK
    BY DEF Quiet, IInv
  <2>2. due[1] = <<>>
    BY <2>1
  <2>3. out = <<>>
    BY <1>1, <2>1, <2>2, DatOfDue DEF Puts
  <2>4. toHost' = toHost /\ UNCHANGED <<due, answer, escRcvd>>
    BY <1>1, <2>1, <2>3 DEF Puts, Answered
  <2> QED
    BY <1>2, <2>4 DEF Quiet
<1> QED
  BY <1>2, <1>3, <1>4 DEF InStep

\* What is due when a byte is sent.
LEMMA SentIs ==
  ASSUME NEW b \in Byte, Sent(b), NEW p \in Seq(Byte), due = <<p>>, escSent \in BOOLEAN, early \in BOOLEAN
  PROVE  /\ escSent \/ ~Special(b) => escSent' = FALSE /\ due' = <<Append(p, b)>> /\ early' = early
         /\ ~escSent /\ b = ESCAP => escSent' = TRUE /\ due' = due /\ early' = early
         /\ ~escSent /\ b = COMMA => /\ escSent' = FALSE
                                     /\ p = <<>> => due' = due /\ early' = early
                                     /\ p # <<>> => early' = FALSE /\ (due' = IF early THEN <<<<>>>> ELSE <<p, <<>>>>)
<1>1. COMMA # ESCAP /\ (Special(b) <=> b = COMMA \/ b = ESCAP)
  BY BusAssumption DEF Special
<1>2. Cur = 1 /\ due[Cur] = p
  BY DEF Cur
<1>3. [due EXCEPT ![Cur] = Append(@, b)] = <<Append(p, b)>>
  BY <1>2
<1>4. Append(due, <<>>) = <<p, <<>>>>
  <2>1. PICK u : u = <<>>
    OBVIOUS
  <2>2. PICK s, t, v : s = <<p>> /\ t = Append(s, u) /\ v = <<p, u>>
    OBVIOUS
  <2>3. u \in Seq(Byte)
    BY <2>1
  <2>4. s \in Seq(Seq(Byte)) /\ Len(s) = 1 /\ s[1] = p
    BY <2>2
  <2>5. v \in Seq(Seq(Byte)) /\ Len(v) = 2 /\ v[1] = p /\ v[2] = u
    BY <2>2, <2>3
  <2>6. t \in Seq(Seq(Byte)) /\ Len(t) = Len(s) + 1 /\ t[Len(s) + 1] = u /\ \A i \in 1 .. Len(s) : t[i] = s[i]
    BY <2>2, <2>3, <2>4, AppendProperties
  <2>7. Len(t) = 2 /\ t[1] = p /\ t[2] = u
    BY <2>4, <2>6
  <2>8. \A i \in 1 .. Len(t) : t[i] = v[i]
    <3> TAKE i \in 1 .. Len(t)
    <3>1. i = 1 \/ i = 2
      BY <2>7
    <3> QED
      BY <2>5, <2>7, <3>1
  <2>9. t = v
    BY <2>5, <2>6, <2>7, <2>8, SeqEqual
  <2>10. t = Append(due, u)
    BY <2>2
  <2> QED
    BY <2>1, <2>2, <2>9, <2>10
<1>5. escSent' = (~escSent /\ b = ESCAP)
  BY DEF Sent
<1>6. CASE ~escSent /\ b = ESCAP
  BY <1>1, <1>5, <1>6 DEF Sent
<1>7. CASE escSent \/ (b # COMMA /\ b # ESCAP)
  <2>1. due' = <<Append(p, b)>> /\ early' = early
    BY <1>1, <1>3, <1>7 DEF Sent
  <2>2. escSent' = FALSE
    BY <1>5, <1>7
  <2>3. ~(~escSent /\ b = ESCAP) /\ ~(~escSent /\ b = COMMA)
    BY <1>7
  <2> QED
    BY <2>1, <2>2, <2>3
<1>8. CASE ~escSent /\ b = COMMA /\ p = <<>>
  <2>1. due' = due /\ early' = early
    BY <1>1, <1>2, <1>8 DEF Sent
  <2>2. escSent' = FALSE
    BY <1>1, <1>5, <1>8
  <2> QED
    BY <1>1, <1>8, <2>1, <2>2
<1>9. CASE ~escSent /\ b = COMMA /\ p # <<>>
  <2>1. early' = FALSE /\ (due' = IF early THEN <<<<>>>> ELSE Append(due, <<>>))
    BY <1>1, <1>2, <1>9 DEF Sent
  <2>2. escSent' = FALSE
    BY <1>1, <1>5, <1>9
  <2>3. due' = IF early THEN <<<<>>>> ELSE <<p, <<>>>>
    BY <1>4, <2>1
  <2> QED
    BY <1>1, <1>9, <2>1, <2>2, <2>3
<1> QED
  BY <1>6, <1>7, <1>8, <1>9

\* The transfer goes on, or everything is sent.
GoesOn(f) == \E p : due' = <<p>> /\ Sending(f, p, escSent', host'.tx)
AllSent(f) ==
  /\ host'.tx = <<>> /\ ~escSent' /\ ~early'
  /\ due' = IF early THEN <<<<>>>> ELSE <<f, <<>>>>

\* A byte of the request is sent.
LEMMA SendStep ==
  ASSUME HostOK, early \in BOOLEAN, NEW f \in Seq(Byte), f # <<>>, NEW p, due = <<p>>, Sending(f, p, escSent, host.tx),
         Write, NEW b, b = Head(host.tx), Sent(b)
  PROVE  (GoesOn(f) /\ early' = early) \/ AllSent(f)
<1>0. PICK esc \in BOOLEAN : esc = escSent
  BY DEF HostOK
<1>1. PICK t, t2 : t = host.tx /\ t2 = host'.tx
  OBVIOUS
<1>2. b \in Byte /\ t \in Seq(Byte) /\ b = t[1] /\ t2 = Tail(t)
  BY <1>0, <1>1, WriteIs
<1>3. Sending(f, p, esc, t)
  BY <1>0, <1>1
<1>4. p \in Seq(Byte)
  BY <1>3, SendingMore
<1>5. /\ esc \/ ~Special(b) => escSent' = FALSE /\ due' = <<Append(p, b)>> /\ early' = early
      /\ ~esc /\ b = ESCAP => escSent' = TRUE /\ due' = due /\ early' = early
      /\ ~esc /\ b = COMMA => /\ escSent' = FALSE
                              /\ p # <<>> => early' = FALSE /\ (due' = IF early THEN <<<<>>>> ELSE <<p, <<>>>>)
  BY <1>0, <1>1, <1>2, <1>4, SentIs
<1>6. SendsNext(f, p, esc, b, t2)
  BY <1>2, <1>3, SendByte
<1>7. CASE (esc \/ ~Special(b)) /\ Sending(f, Append(p, b), FALSE, t2)
  <2>1. PICK p2 : p2 = Append(p, b)
    OBVIOUS
  <2>2. due' = <<p2>> /\ Sending(f, p2, escSent', host'.tx)
    BY <1>0, <1>1, <1>5, <1>7, <2>1
  <2> QED
    BY <1>5, <1>7, <2>2 DEF GoesOn
<1>8. CASE ~esc /\ b = ESCAP /\ Sending(f, p, TRUE, t2)
  <2>1. due' = <<p>> /\ Sending(f, p, escSent', host'.tx)
    BY <1>0, <1>1, <1>5, <1>8
  <2> QED
    BY <1>5, <1>8, <2>1 DEF GoesOn
<1>9. CASE ~esc /\ b = COMMA /\ p = f /\ t2 = <<>>
  <2>1. escSent' = FALSE /\ early' = FALSE /\ (due' = IF early THEN <<<<>>>> ELSE <<f, <<>>>>)
    BY <1>5, <1>9
  <2> QED
    BY <1>0, <1>1, <1>9, <2>1 DEF AllSent
<1> QED
  BY <1>6, <1>7, <1>8, <1>9 DEF SendsNext

\* The host writes a byte of the request.
LEMMA WriteServes ==
  ASSUME IInv, NEW r, NEW x, Serves(r, x), Write, NEW b, b = Head(host.tx), Sent(b),
         UNCHANGED <<toHost, answer, escRcvd>>
  PROVE  Serves(r, x)'
<1>1. PICK f, m : f = r.frame /\ m = r.rlen
  OBVIOUS
<1>2. r \in Requests /\ f \in Seq(Byte) /\ f # <<>>
  BY <1>1, HostAssumption DEF Serves
<1>3. PICK z : Reaches(toHost, x, m, z) /\ (Asks(f, m, z) \/ HasReply(f, m, z))
  BY <1>1 DEF Serves
<1>4. HostOK /\ early \in BOOLEAN /\ host.tx # <<>>
  BY EarlyDue, WriteIs DEF IInv
<1>5. Reaches(toHost, x, m, z)'
  BY <1>3 DEF Reaches
<1>6. CASE Asks(f, m, z)
  <2>1. PICK p : due = <<p>> /\ Sending(f, p, escSent, host.tx)
    BY <1>4, <1>6 DEF Asks
  <2>2. (GoesOn(f) /\ early' = early) \/ AllSent(f)
    BY <1>2, <1>4, <2>1, SendStep
  <2>3. ~early /\ Took(z, answer, m) /\ z.rx = IF escRcvd THEN "ESC" ELSE "RX"
    BY <1>6 DEF Asks
  <2>4. Took(z, answer, m)' /\ z.rx = IF escRcvd' THEN "ESC" ELSE "RX"
    BY <2>3
  <2>5. CASE GoesOn(f) /\ early' = early
    <3>1. \E p2 : due' = <<p2>> /\ Sending(f, p2, escSent, host.tx)'
      BY <2>5 DEF GoesOn, Sending
    <3>2. Asks(f, m, z)'
      BY <2>3, <2>4, <2>5, <3>1 DEF Asks
    <3> QED
      BY <1>1, <1>2, <1>5, <3>2 DEF Serves
  <2>6. CASE AllSent(f)
    <3>1. host'.tx = <<>> /\ ~escSent' /\ due' = <<f, <<>>>> /\ ~early'
      BY <2>3, <2>6 DEF AllSent
    <3>2. Asks(f, m, z)'
      BY <2>4, <3>1 DEF Asks
    <3> QED
      BY <1>1, <1>2, <1>5, <3>2 DEF Serves
  <2> QED
    BY <2>2, <2>5, <2>6
<1>7. CASE HasReply(f, m, z)
  <2>1. early /\ Cmd[f[1]] = "NONE" /\ \E p : due = <<p>> /\ Sending(f, p, escSent, host.tx)
    BY <1>4, <1>7 DEF HasReply
  <2>2. PICK p : due = <<p>> /\ Sending(f, p, escSent, host.tx)
    BY <2>1
  <2>3. (GoesOn(f) /\ early' = early) \/ AllSent(f)
    BY <1>2, <1>4, <2>2, SendStep
  <2>4. answer' = <<>> /\ ~escRcvd' /\ z.rx = "DONE" /\ Took(z, Reply(f), m)
    BY <1>7 DEF HasReply
  <2>5. Took(z, Reply(f), m)'
    BY <2>4
  <2>6. CASE GoesOn(f) /\ early' = early
    <3>1. \E p2 : due' = <<p2>> /\ Sending(f, p2, escSent, host.tx)'
      BY <2>6 DEF GoesOn, Sending
    <3>2. early'
      BY <2>1, <2>6
    <3>3. HasReply(f, m, z)'
      BY <2>1, <2>4, <2>5, <3>1, <3>2 DEF HasReply
    <3> QED
      BY <1>1, <1>2, <1>5, <3>3 DEF Serves
  <2>7. CASE AllSent(f)
    <3>1. host'.tx = <<>> /\ ~escSent' /\ due' = <<<<>>>>
      BY <2>1, <2>7 DEF AllSent
    <3>2. HasReply(f, m, z)'
      BY <2>4, <2>5, <3>1 DEF HasReply
    <3> QED
      BY <1>1, <1>2, <1>5, <3>2 DEF Serves
  <2> QED
    BY <2>3, <2>6, <2>7
<1> QED
  BY <1>3, <1>6, <1>7

\* A byte written keeps host and device in step.
LEMMA WriteInStep ==
  ASSUME IInv, InStep, HostWrite
  PROVE  InStep'
<1>1. PICK b : b = Head(host.tx)
  OBVIOUS
<1>2. Write /\ Sent(b) /\ UNCHANGED <<answer, escRcvd, disturbed>>
  BY <1>1 DEF HostWrite
<1>3. HostOK /\ early \in BOOLEAN /\ escSent \in BOOLEAN /\ host \in Hosts
  BY EarlyDue DEF IInv, HostOK
<1>4. /\ b \in Byte /\ host.tx \in Seq(Byte) /\ host.tx # <<>> /\ b = host.tx[1] /\ toHost' = toHost
      /\ Len(host'.tx) = Len(host.tx) - 1 /\ host'.tx \in Seq(Byte)
      /\ \A i \in 1 .. Len(host'.tx) : host'.tx[i] = host.tx[i + 1]
      /\ host.state = "OPEN" /\ Len(host.tx) = 1 => host'.state = "IDLE"
      /\ ~(host.state = "OPEN" /\ Len(host.tx) = 1) => host'.state = host.state
      /\ host' = [host EXCEPT !.tx = host'.tx, !.state = host'.state]
      /\ host.state \in {"CLOSED", "OPEN", "IDLE", "BUSY"}
  BY <1>1, <1>2, <1>3, WriteIs
<1> SUFFICES ASSUME ~disturbed PROVE InStep'
  BY <1>2 DEF InStep
<1>5. CASE host.state = "CLOSED"
  BY <1>4, <1>5 DEF InStep
<1>6. CASE host.state = "OPEN"
  <2>1. Quiet(toHost) /\ \A i \in 1 .. Len(host.tx) : host.tx[i] = COMMA
    BY <1>6 DEF InStep
  <2>2. Len(host.tx) \in Nat /\ Len(host.tx) >= 1 /\ Len(host'.tx) \in Nat
    BY <1>4, EmptySeq, LenProperties
  <2>3. 1 \in 1 .. Len(host.tx) /\ \A i \in 1 .. Len(host'.tx) : i + 1 \in 1 .. Len(host.tx)
    BY <1>4, <2>2
  <2>4. b = COMMA /\ \A i \in 1 .. Len(host'.tx) : host'.tx[i] = COMMA
    BY <1>4, <2>1, <2>3
  <2>5. host'.state = "OPEN" \/ (host'.state = "IDLE" /\ host'.tx = <<>>)
    <3>1. Len(host.tx) = 1 => Len(host'.tx) = 0
      BY <1>4
    <3>2. Len(host.tx) = 1 => host'.tx = <<>>
      BY <1>4, <3>1, EmptySeq
    <3> QED
      BY <1>4, <1>6, <3>2
  <2>6. Quiet(toHost)'
    <3>1. due = <<<<>>>> /\ ~escSent /\ answer = <<>> /\ ~escRcvd /\ toHost = <<>>
      BY <2>1 DEF Quiet
    <3>2. PICK p : p = <<>>
      OBVIOUS
    <3>3. p \in Seq(Byte) /\ due = <<p>>
      BY <3>1, <3>2
    <3>4. escSent' = FALSE /\ due' = due
      BY <1>2, <1>3, <1>4, <2>4, <3>1, <3>2, <3>3, SentIs
    <3> QED
      BY <1>2, <1>4, <3>1, <3>4 DEF Quiet
  <2>7. host'.state # "BUSY"
    BY <2>5
  <2> QED
    BY <2>4, <2>5, <2>6, <2>7 DEF InStep
<1>7. CASE host.state = "IDLE"
  BY <1>4, <1>7 DEF InStep
<1>8. CASE host.state = "BUSY"
  <2>1. host'.state = "BUSY"
    BY <1>4, <1>8
  <2>2. PICK r, x : r = host.req /\ x = Rcv(host)
    OBVIOUS
  <2>3. host'.req = r /\ Rcv(host') = x
    <3>1. host'.req = host.req /\ host'.rx = host.rx /\ host'.cmd = host.cmd /\ host'.got = host.got
      BY <1>3, <1>4 DEF Hosts
    <3> QED
      BY <2>2, <3>1 DEF Rcv
  <2>4. Serves(r, x)
    BY <1>8, <2>2 DEF InStep, Transfers
  <2>5. Serves(r, x)'
    BY <1>1, <1>2, <1>4, <2>4, WriteServes
  <2>6. Transfers'
    BY <2>3, <2>5 DEF Transfers
  <2> QED
    BY <2>1, <2>6 DEF InStep
<1> QED
  BY <1>4, <1>5, <1>6, <1>7, <1>8

\* The host starts a transfer when the device is quiet.
LEMMA XferInStep ==
  ASSUME IInv, InStep, HostXfer
  PROVE  InStep'
<1>1. PICK r \in Requests : Xfer(r) /\ NotSent /\ UNCHANGED disturbed
  BY DEF HostXfer
<1>2. PICK f, m, t : f = r.frame /\ m = r.rlen /\ t = Stuffed(f) \o <<COMMA>>
  OBVIOUS
<1>3. f \in Seq(Byte) /\ early \in BOOLEAN /\ (early => due[1] # <<>>) /\ escSent \in BOOLEAN
  BY <1>2, EarlyDue, HostAssumption DEF IInv, HostOK
<1> SUFFICES ASSUME ~disturbed PROVE InStep'
  BY <1>1 DEF InStep
<1>4. host.state = "IDLE" /\ host' = [Closed EXCEPT !.state = "BUSY", !.req = r, !.tx = t] /\ toHost' = toHost
  BY <1>1, <1>2 DEF Xfer, link
<1>5. Quiet(toHost)
  BY <1>4 DEF InStep
<1>6. due = <<<<>>>> /\ ~escSent /\ answer = <<>> /\ ~escRcvd /\ toHost = <<>>
  BY <1>5 DEF Quiet
<1>7. PICK x : x = [rx |-> "RX", cmd |-> <<>>, got |-> <<>>]
  OBVIOUS
<1>8. host'.state = "BUSY" /\ host'.req = r /\ host'.tx = t /\ Rcv(host') = x
  BY <1>4, <1>7 DEF Closed, Rcv
<1>9. x \in Rcvs /\ Took(x, <<>>, m) /\ x.rx = "RX"
  <2>1. <<>> \in Bus(Byte) /\ <<>> \in Seq(Byte)
    BY DEF Bus
  <2> QED
    BY <1>7, <2>1 DEF Rcvs, Took
<1>10. Reaches(toHost, x, m, x)'
  <2>1. Reaches(<<>>, x, m, x)
    BY <1>9, ReachesNone
  <2>2. toHost' = <<>>
    BY <1>4, <1>6
  <2> QED
    BY <2>1, <2>2
<1>11. Asks(f, m, x)'
  <2>1. due' = <<<<>>>> /\ escSent' = FALSE /\ answer' = <<>> /\ ~escRcvd' /\ early' = early
    BY <1>1, <1>3, <1>6 DEF NotSent
  <2>2. ~early'
    <3>1. due[1] = <<>>
      BY <1>6
    <3> QED
      BY <1>3, <2>1, <3>1
  <2>3. PICK p : p = <<>>
    OBVIOUS
  <2>4. Sending(f, p, FALSE, t)
    BY <1>2, <1>3, <2>3, SendStarts
  <2>5. due' = <<p>> /\ Sending(f, p, escSent', host'.tx)
    BY <1>8, <2>1, <2>3, <2>4
  <2>6. \E q : due' = <<q>> /\ Sending(f, q, escSent, host.tx)'
    BY <2>5 DEF Sending
  <2>7. Took(x, answer, m)' /\ x.rx = IF escRcvd' THEN "ESC" ELSE "RX"
    BY <1>9, <2>1
  <2> QED
    BY <2>2, <2>6, <2>7 DEF Asks
<1>12. Serves(r, x)'
  BY <1>2, <1>10, <1>11 DEF Serves
<1>13. Transfers'
  BY <1>8, <1>12 DEF Transfers
<1> QED
  BY <1>8, <1>13 DEF InStep

\* What was received is read.
LEMMA ReadInStep ==
  ASSUME IInv, InStep, HostRead
  PROVE  InStep'
<1>1. PICK n : Read(n) /\ NotSent /\ UNCHANGED disturbed
  BY DEF HostRead
<1>2. HostOK /\ host.state = "BUSY"
  BY <1>1 DEF IInv, Read
<1>3. host'.state = "BUSY" /\ host'.tx = host.tx /\ host'.req = host.req
  BY <1>1, <1>2, ReadIs
<1> SUFFICES ASSUME ~disturbed PROVE InStep'
  BY <1>1 DEF InStep
<1>4. PICK r, x, m, f, x2, s2 : /\ r = host.req /\ x = Rcv(host) /\ m = r.rlen /\ f = r.frame
                                /\ x2 = Rcv(host') /\ s2 = toHost'
  OBVIOUS
<1>5. r \in Requests /\ \E z : Reaches(toHost, x, m, z) /\ (Asks(f, m, z) \/ HasReply(f, m, z))
  BY <1>2, <1>4 DEF InStep, Transfers, Serves
<1>6. PICK z : Reaches(toHost, x, m, z) /\ (Asks(f, m, z) \/ HasReply(f, m, z))
  BY <1>5
<1>7. m = host.req.rlen
  BY <1>4
<1>8. Reaches(s2, x2, m, z)
  BY <1>1, <1>2, <1>4, <1>6, <1>7, ReachesRead
<1>9. Reaches(toHost, x2, m, z)'
  BY <1>4, <1>8
<1>10. UNCHANGED <<due, escSent, answer, escRcvd, early>> /\ host'.tx = host.tx
  BY <1>1, <1>3 DEF NotSent
<1>11. \A p : Sending(f, p, escSent, host.tx) => Sending(f, p, escSent, host.tx)'
  BY <1>10 DEF Sending
<1>12. Asks(f, m, z) => Asks(f, m, z)'
  BY <1>10, <1>11 DEF Asks
<1>13. HasReply(f, m, z) => HasReply(f, m, z)'
  BY <1>10, <1>11 DEF HasReply
<1>14. Serves(r, x2)'
  BY <1>4, <1>5, <1>6, <1>9, <1>12, <1>13 DEF Serves
<1>15. Transfers'
  BY <1>3, <1>4, <1>14 DEF Transfers
<1> QED
  BY <1>3, <1>15 DEF InStep

\* A complete transfer has the reply, and leaves nothing.
LEMMA CompleteIs ==
  ASSUME IInv, InStep, ~disturbed, Complete
  PROVE  Quiet(toHost) /\ host.req \in Requests /\ Took(Rcv(host), Reply(host.req.frame), host.req.rlen)
<1>1. host.state = "BUSY" /\ host.rx = "DONE" /\ host.tx = <<>>
  BY DEF Complete
<1>2. PICK r, x, m, f : r = host.req /\ x = Rcv(host) /\ m = r.rlen /\ f = r.frame
  OBVIOUS
<1>3. r \in Requests /\ \E z : Reaches(toHost, x, m, z) /\ (Asks(f, m, z) \/ HasReply(f, m, z))
  BY <1>1, <1>2 DEF InStep, Transfers, Serves
<1>4. PICK z : Reaches(toHost, x, m, z) /\ (Asks(f, m, z) \/ HasReply(f, m, z))
  BY <1>3
<1>5. x.rx = "DONE" /\ toHost \in Seq(Byte) /\ f \in Seq(Byte) /\ escSent \in BOOLEAN
  BY <1>1, <1>2, <1>3, HostAssumption DEF Rcv, IInv, HostOK
<1>6. toHost = <<>> /\ z = x
  BY <1>4, <1>5, ReachesDone
<1>7. HasReply(f, m, z)
  BY <1>4, <1>5, <1>6 DEF Asks
<1>8. \A p : ~Sending(f, p, escSent, host.tx)
  BY <1>1, <1>5, SendingMore
<1>9. due = <<<<>>>> /\ ~escSent /\ answer = <<>> /\ ~escRcvd /\ Took(x, Reply(f), m)
  BY <1>6, <1>7, <1>8 DEF HasReply
<1> QED
  BY <1>2, <1>3, <1>6, <1>9 DEF Quiet

\* Opening the link, the end of a transfer, and nothing keep it.
LEMMA OthersInStep ==
  ASSUME IInv, InStep, HostOpen \/ HostReturn \/ HostTimeout \/ HostCrash \/ UNCHANGED vars
  PROVE  InStep'
<1>1. CASE HostOpen
  <2>1. /\ host' = [Closed EXCEPT !.state = "OPEN", !.tx = <<COMMA, COMMA, COMMA, COMMA>>]
        /\ NotSent /\ disturbed' = ~Quiet(toHost')
    BY <1>1 DEF HostOpen, Open
  <2>2. PICK t : t = <<COMMA, COMMA, COMMA, COMMA>>
    OBVIOUS
  <2>3. host'.state = "OPEN" /\ host'.tx = t /\ \A i \in 1 .. Len(t) : t[i] = COMMA
    BY <2>1, <2>2 DEF Closed
  <2>4. ~disturbed' => Quiet(toHost)'
    <3> SUFFICES ASSUME ~disturbed' PROVE Quiet(toHost)'
      OBVIOUS
    <3>1. Quiet(toHost')
      BY <2>1
    <3> QED
      BY <2>1, <3>1 DEF Quiet, NotSent
  <2> QED
    BY <2>3, <2>4 DEF InStep
<1>2. CASE HostReturn
  <2>1. Complete /\ host' = [Closed EXCEPT !.state = "IDLE"] /\ toHost' = toHost /\ NotSent /\ UNCHANGED disturbed
    BY <1>2 DEF HostReturn, Return, link
  <2>2. host'.state = "IDLE" /\ host'.tx = <<>>
    BY <2>1 DEF Closed
  <2>3. ~disturbed' => Quiet(toHost)'
    <3> SUFFICES ASSUME ~disturbed PROVE Quiet(toHost)'
      BY <2>1
    <3>1. Quiet(toHost)
      BY <2>1, CompleteIs
    <3> QED
      BY <2>1, <3>1 DEF Quiet, NotSent
  <2> QED
    BY <2>2, <2>3 DEF InStep
<1>3. CASE HostTimeout
  BY <1>3 DEF HostTimeout, InStep
<1>4. CASE HostCrash
  <2>1. host'.state = "CLOSED"
    BY <1>4 DEF HostCrash, Crash, Closed
  <2> QED
    BY <2>1 DEF InStep
<1>5. CASE UNCHANGED vars
  <2>1. UNCHANGED <<host, toHost, due, escSent, answer, escRcvd, early, disturbed>>
    BY <1>5 DEF vars, history, link
  <2>2. \A f, p : Sending(f, p, escSent, host.tx) => Sending(f, p, escSent, host.tx)'
    BY <2>1 DEF Sending
  <2>3. \A f, m, z : (Asks(f, m, z) => Asks(f, m, z)') /\ (HasReply(f, m, z) => HasReply(f, m, z)')
    BY <2>1, <2>2 DEF Asks, HasReply
  <2>4. Transfers => Transfers'
    BY <2>1, <2>3 DEF Transfers, Serves
  <2>5. Quiet(toHost) => Quiet(toHost)'
    BY <2>1 DEF Quiet
  <2> QED
    BY <2>1, <2>4, <2>5 DEF InStep
<1> QED
  BY <1>1, <1>2, <1>3, <1>4, <1>5

\* Host and device stay in step.
LEMMA InStepHolds == Spec => []InStep
<1>1. Init => InStep
  <2> SUFFICES ASSUME Init PROVE InStep
    OBVIOUS
  <2>1. host.state = "CLOSED"
    BY DEF Init, HostInit, Closed
  <2> QED
    BY <2>1 DEF InStep
<1>2. IInv /\ InStep /\ [Next]_vars => InStep'
  BY ClkInStep, XferInStep, WriteInStep, ReadInStep, OthersInStep DEF Next
<1> QED
  BY <1>1, <1>2, IInvHolds, PTL DEF Spec

\* A transfer that fifoXferFrameVec completes returns the reply to its own request,
\* cut to the buffer, as long as none was cut short since the link was opened: what
\* the host has, what is on the link and what the device still has to put out are
\* the reply to the frame it sent, and nothing of another frame.
THEOREM OwnReply == Spec => []ReplyIsMine
<1>1. IInv /\ InStep => ReplyIsMine
  <2> SUFFICES ASSUME IInv, InStep, Complete, ~disturbed
               PROVE  LET rep == Reply(host.req.frame)
                      IN  /\ host.cmd = <<rep[1]>>
                          /\ host.got = SubSeq(rep, 2, IF Len(rep) <= host.req.rlen THEN Len(rep)
                                                       ELSE host.req.rlen + 1)
    BY DEF ReplyIsMine
  <2>1. PICK f, m, rep, got : f = host.req.frame /\ m = host.req.rlen /\ rep = Reply(f) /\ got = host.got
    OBVIOUS
  <2>2. host.req \in Requests /\ Took(Rcv(host), rep, m)
    BY <2>1, CompleteIs
  <2>3. f \in Seq(Byte) /\ f # <<>> /\ m \in Nat
    BY <2>1, <2>2, HostAssumption
  <2>4. rep \in Seq(Byte) /\ Len(rep) \in Nat /\ Len(rep) >= 1
    BY <2>1, <2>3, ReplyType
  <2>5. rep # <<>>
    BY <2>4
  <2>6. /\ host.cmd = <<rep[1]>> /\ got \in Seq(Byte)
        /\ Len(got) = IF Len(rep) - 1 <= m THEN Len(rep) - 1 ELSE m
        /\ \A i \in 1 .. Len(got) : got[i] = rep[i + 1]
    BY <2>1, <2>2, <2>5 DEF Took, Rcv
  <2>7. PICK e : e = IF Len(rep) <= m THEN Len(rep) ELSE m + 1
    OBVIOUS
  <2>8. e \in Nat /\ 1 <= e /\ e <= Len(rep) /\ Len(got) = e - 1
    BY <2>3, <2>4, <2>6, <2>7
  <2>9. PICK s : s = SubSeq(rep, 1 + 1, e)
    OBVIOUS
  <2>10. s \in Seq(Byte) /\ Len(s) = e - 1 /\ \A i \in 1 .. e - 1 : s[i] = rep[1 + i]
    BY <2>4, <2>8, <2>9, SubSeqIs
  <2>11. \A i \in 1 .. Len(got) : got[i] = s[i]
    <3> TAKE i \in 1 .. Len(got)
    <3>1. i \in 1 .. e - 1 /\ i + 1 = 1 + i
      BY <2>8
    <3> QED
      BY <2>6, <2>10, <3>1
  <2>12. got = s
    BY <2>6, <2>8, <2>10, <2>11, SeqEqual
  <2>13. s = SubSeq(rep, 2, e)
    BY <2>9
  <2> QED
    BY <2>1, <2>6, <2>7, <2>12, <2>13
<1> QED
  BY <1>1, IInvHolds, InStepHolds, PTL
=============================================================================
