--------------------------- MODULE CommandHandlers --------------------------
(***************************************************************************)
(* Three handlers of commands: hdl/CommandVersion.vhd, hdl/CommandReg.vhd  *)
(* in one clock domain, and hdl/CommandBitBang.vhd in loopback.            *)
(***************************************************************************)
EXTENDS SimpleBus

CONSTANT VERSION     \* the bytes of VERSION_C, with the board's version in front

ASSUME VersionAssumption == VERSION \in Seq(Byte) /\ VERSION # <<>>

VARIABLES
  ver,
  reg,    \* count: -1 stands for the value with the top bit set
  bb      \* held: wdat with wvld
-----------------------------------------------------------------------------
(* CommandVersion: answers with the command byte, at once, and once the    *)
(* rest of the request is drained with the version.                        *)

VerInit == ver = [state |-> "ECHO", addr |-> 1]

VerTypeOK == ver \in [state : {"ECHO", "DRAIN", "PLAY"}, addr : 1 .. Len(VERSION)]

VerOb(mIb) ==
  CASE ver.state = "ECHO"  -> IF mIb = <<>> THEN <<>> ELSE <<[mIb[1] EXCEPT !.lst = FALSE]>>
    [] ver.state = "DRAIN" -> <<>>
    [] ver.state = "PLAY"  -> <<[dat |-> VERSION[ver.addr], lst |-> ver.addr = Len(VERSION)]>>

VerRdyIb(rOb) == ver.state = "DRAIN" \/ (ver.state = "ECHO" /\ rOb)

VerEdge(mIb, rOb) ==
  \/ /\ ver.state = "ECHO"
     /\ ver' = [addr |-> 1, state |-> IF ~rOb \/ mIb = <<>> THEN "ECHO"
                                      ELSE IF mIb[1].lst THEN "PLAY" ELSE "DRAIN"]
  \/ /\ ver.state = "DRAIN"
     /\ ver' = IF mIb # <<>> /\ mIb[1].lst THEN [ver EXCEPT !.state = "PLAY"] ELSE ver
  \/ /\ ver.state = "PLAY"
     /\ ver' = IF ~rOb THEN ver
               ELSE IF ver.addr = Len(VERSION) THEN [ver EXCEPT !.state = "ECHO"]
               ELSE [ver EXCEPT !.addr = @ + 1]
-----------------------------------------------------------------------------
(* CommandReg: reads and writes a sequence of registers.                   *)
(*                                                                         *)
(*   request  RD8 addr count-1        reply  RD8 d0 ... dn status          *)
(*   request  WR8 addr d0 ... dn      reply  WR8 status                    *)
(*                                                                         *)
(* The registers may take their time (rdy), and refuse (err): a read that  *)
(* failed ends with the status in place of the data.                       *)

RegInit == reg = [state |-> "IDLE", addr |-> 0, count |-> 0 - 1, cmd |-> 0, rdat |-> 0,
                  rvld |-> FALSE, err |-> FALSE]

RegTypeOK ==
  reg \in [state : {"IDLE", "A8", "L8", "RD8", "WR8", "STA", "DRAIN", "REPLY"},
           addr : Byte, count : Byte \union {0 - 1}, cmd : Byte, rdat : Byte,
           rvld : BOOLEAN, err : BOOLEAN]

ALL_ONES == NumBytes - 1
OK       == 0

NextAddr(a) == (a + 1) % NumBytes

\* The port of the registers: a read, a write, or nothing.
RegRead       == reg.state = "RD8" /\ ~reg.rvld
RegWrite(mIb) == reg.state = "WR8" /\ mIb # <<>>

RegOb ==
  CASE reg.state = "REPLY" -> <<[dat |-> reg.cmd, lst |-> FALSE]>>
    [] reg.state = "STA"   -> <<[dat |-> IF reg.err THEN ALL_ONES ELSE OK, lst |-> TRUE]>>
    [] reg.state = "RD8"   -> IF reg.rvld THEN <<[dat |-> reg.rdat, lst |-> reg.err]>> ELSE <<>>
    [] OTHER               -> <<>>

RegRdyIb(rdy) ==
  reg.state \in {"IDLE", "A8", "L8", "DRAIN"} \/ (reg.state = "WR8" /\ rdy)

\* A request that ends early is answered with an error.
EndOr(beat, state) == IF beat.lst THEN "REPLY" ELSE state

RegIdle(mIb) ==
  /\ reg.state = "IDLE"
  /\ reg' = IF mIb = <<>> THEN [reg EXCEPT !.count = 0 - 1, !.err = TRUE]
            ELSE [reg EXCEPT
              !.count = 0 - 1, !.err = TRUE, !.cmd = mIb[1].dat,
              !.state = EndOr(mIb[1], IF Cmd[mIb[1].dat] \in {"RD8", "WR8"} THEN "A8"
                                      ELSE "DRAIN")]

RegA8(mIb) ==
  /\ reg.state = "A8"
  /\ reg' = IF mIb = <<>> THEN reg
            ELSE [reg EXCEPT
              !.addr  = mIb[1].dat,
              !.state = EndOr(mIb[1], IF Cmd[reg.cmd] = "RD8" THEN "L8" ELSE "WR8")]

RegL8Short(mIb) ==                              \* mutant: the count is 1 too small
  /\ reg.state = "L8"
  /\ reg' = IF mIb = <<>> THEN reg
            ELSE IF mIb[1].lst THEN [reg EXCEPT !.count = mIb[1].dat - 1, !.state = "REPLY"]
            ELSE [reg EXCEPT !.state = "DRAIN"]
RegL8(mIb) ==
  /\ reg.state = "L8"
  /\ reg' = IF mIb = <<>> THEN reg
            ELSE IF mIb[1].lst THEN [reg EXCEPT !.count = mIb[1].dat, !.state = "REPLY"]
            ELSE [reg EXCEPT !.state = "DRAIN"]

RegWR8(mIb, rdy, err) ==
  /\ reg.state = "WR8"
  /\ reg' = IF mIb = <<>> \/ ~rdy THEN reg
            ELSE [reg EXCEPT !.addr = NextAddr(@), !.err = err,
                             !.state = EndOr(mIb[1], IF err THEN "DRAIN" ELSE @)]

\* A register's value is fetched, then sent.
RegRD8(rOb, rdy, rdat, err) ==
  LET sent == reg.rvld /\ rOb
  IN  /\ reg.state = "RD8"
      /\ reg' = IF RegRead /\ rdy
                THEN [reg EXCEPT !.rvld = TRUE, !.rdat = IF err THEN ALL_ONES ELSE rdat,
                                 !.err = err]
                ELSE IF ~sent THEN reg
                ELSE [reg EXCEPT !.addr = NextAddr(@), !.count = @ - 1, !.rvld = FALSE,
                                 !.state = IF reg.err THEN "IDLE"
                                           ELSE IF reg.count = 0 THEN "STA" ELSE @]

RegReply(rOb) ==
  /\ reg.state = "REPLY"
  /\ reg' = IF rOb THEN [reg EXCEPT !.state = IF reg.count >= 0 THEN "RD8" ELSE "STA"]
            ELSE reg

RegSta(rOb) ==
  /\ reg.state = "STA"
  /\ reg' = IF rOb THEN [reg EXCEPT !.state = "IDLE"] ELSE reg

RegDrain(mIb) ==
  /\ reg.state = "DRAIN"
  /\ reg' = IF mIb # <<>> /\ mIb[1].lst THEN [reg EXCEPT !.state = "REPLY"] ELSE reg

RegEdge(mIb, rOb, rdy, rdat, err) ==
  \/ RegIdle(mIb) \/ RegA8(mIb) \/ RegL8(mIb) \/ RegWR8(mIb, rdy, err)
  \/ RegRD8(rOb, rdy, rdat, err) \/ RegReply(rOb) \/ RegSta(rOb) \/ RegDrain(mIb)
-----------------------------------------------------------------------------
(* CommandBitBang with the register of hdl/BitBangIF.vhd in loopback       *)
(* (CMD_BB_NONE_C): answers with the bytes of the request, each one as it  *)
(* comes, so request and reply are under way at the same time.  How long   *)
(* the engine takes for a byte (i2c_timo) is left open.                    *)

BbInit == bb = [state |-> "ECHO", lstSeen |-> FALSE, held |-> <<>>]

BbTypeOK == bb \in [state : {"ECHO", "FWD"}, lstSeen : BOOLEAN, held : Bus(Byte)]

BbOb(mIb) ==
  IF bb.state = "ECHO" THEN mIb
  ELSE IF bb.held = <<>> THEN <<>>
  ELSE <<[dat |-> bb.held[1], lst |-> bb.lstSeen]>>

\* The engine takes a byte when its answer to the last one is gone, or going.
wrdy(rOb)       == bb.state = "ECHO" \/ rOb
rrdy(rOb, free) == free /\ (bb.held = <<>> \/ wrdy(rOb))

BbRdyIb(rOb, free) == IF bb.state = "ECHO" THEN rOb ELSE ~bb.lstSeen /\ rrdy(rOb, free)

BbEcho(mIb, rOb) ==
  /\ bb.state = "ECHO"
  /\ bb' = [state   |-> IF rOb /\ mIb # <<>> /\ ~mIb[1].lst THEN "FWD" ELSE "ECHO",
            lstSeen |-> FALSE, held |-> <<>>]

BbFwd(mIb, rOb, free) ==
  LET got  == ~bb.lstSeen /\ mIb # <<>> /\ rrdy(rOb, free)
      done == rOb /\ bb.held # <<>> /\ bb.lstSeen
  IN  /\ bb.state = "FWD"
      /\ bb' = [state   |-> IF done THEN "ECHO" ELSE "FWD",
                lstSeen |-> ~done /\ (bb.lstSeen \/ (got /\ mIb[1].lst)),
                held    |-> IF got THEN <<mIb[1].dat>>
                            ELSE IF rOb THEN <<>> ELSE bb.held]

BbEdge(mIb, rOb, free) == BbEcho(mIb, rOb) \/ BbFwd(mIb, rOb, free)
=============================================================================
