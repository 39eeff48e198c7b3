-------------------------------- MODULE I2CHost --------------------------------
(***************************************************************************)
(* The I2C functions of sw/fwComm.c, and sw/dac47cxSup.c, the bits of      *)
(* sw/tca6408FECSup.c and sw/at24EepromSup.c over them. The host drives    *)
(* the lines itself: a setting of the lines, or a byte with its nine       *)
(* clocks, is one transfer over USB, which may get lost with a part of it  *)
(* done. An operation is a list of such steps with what becomes of it when *)
(* a transfer fails or a byte is not acknowledged.                         *)
(***************************************************************************)
EXTENDS BusI2C

CONSTANTS
  Operations,   (* what the program may ask for                            *)
  MaxOps,       (* how many operations in a behaviour                      *)
  MaxBusFaults  (* transfers that get lost in it                           *)

ASSUME I2CAssumption == MaxOps \in Nat /\ MaxBusFaults \in Nat

VARIABLES
  bus,      \* the lines, and the chips
  op,       \* the operation under way, or the last one
  i2cpc,    \* its next step, 0 if none is under way
  res,      \* what it will return: "ok", or an error
  got,      \* the bytes it has read
  ops,      \* operations that may still be started
  lost,     \* transfers that may still get lost
  before    \* history: the operation, what there was when it began, and the losses left
i2cVars == <<bus, op, i2cpc, res, got, ops, lost, before>>

\* An operation: [kind, sla, reg, data, len, bit, on].
NoOp == [kind |-> "none", sla |-> 0, reg |-> 0, data |-> <<>>, len |-> 0, bit |-> 0, on |-> 0]

\* Steps. io: what a lost transfer does, nak: what a byte without acknowledge does;
\* both name the error, and "return" or the step the code jumps to.
Lines(scl, sda, io)     == [do |-> "lines", out |-> <<scl, sda>>, io |-> io, nak |-> "-"]
SendByte(v, io, nak)        == [do |-> "byte", out |-> v, io |-> io, nak |-> nak]
ReadByte(last, io)      == [do |-> "read", out |-> last, io |-> io, nak |-> "-"]
-------------------------------------------------------------------------------
bb_i2c_start(restart, io) ==
  (IF restart THEN <<Lines(0, 1, io), Lines(1, 1, io)>> ELSE <<>>)
    \o <<Lines(1, 0, io), Lines(0, 0, io)>>

\* -- mutant: SDA is high already
StopWithoutEdge(io) == <<Lines(1, 1, io)>>
bb_i2c_stop(io) == <<Lines(1, 0, io), Lines(1, 1, io)>>

bb_i2c_write(bytes, naks) == [i \in DOMAIN bytes |-> SendByte(bytes[i], "bail", naks[i])]
bb_i2c_read(len)          == [i \in 1 .. len |-> ReadByte(i = len, "bail")]

\* The nine clocks of a byte, the acknowledge last; a read byte is all ones.
Clocks(v, ack) ==
  LET bit(i) == IF i = 9 THEN ack ELSE Bit(v, 8 - i)
  IN  [j \in 1 .. 27 |-> <<IF j % 3 = 2 THEN 1 ELSE 0, bit((j + 2) \div 3)>>]
bb_i2c_xfer(step) ==
  IF step.do = "byte" THEN Clocks(step.out, 1)
  ELSE IF step.do = "read" THEN Clocks(255, IF step.out THEN 1 ELSE 0)
  ELSE <<step.out>>

Seen(seen) == [i \in 1 .. 9 |-> seen[3 * i]]
Value(seen) == FoldLeft(LAMBDA v, x : 2 * v + x, 0, SubSeq(Seen(seen), 1, 8))

\* Data that are not acknowledged are reported by their number, which the register
\* functions take for success.
bb_i2c_rw_a8(o) ==
  bb_i2c_start(FALSE, "return") \o bb_i2c_write(<<o.sla, o.reg % 256>>, <<"ENODEV", "EIO">>)
    \o (IF o.len > 0
        THEN bb_i2c_start(TRUE, "bail") \o bb_i2c_write(<<o.sla + 1>>, <<"EIO">>) \o bb_i2c_read(o.len)
        ELSE bb_i2c_write(o.data, [i \in DOMAIN o.data |-> "stop"]))
    \o bb_i2c_stop("return")

\* The acknowledge of the command byte and of the second address is not looked at;
\* nor is the error of a stop.
dac47cxReadReg(o) ==
  bb_i2c_start(FALSE, "return") \o bb_i2c_write(<<DAC, 6 + 8 * o.reg>>, <<"ENODEV", "next">>)
    \o bb_i2c_start(TRUE, "bail") \o bb_i2c_write(<<DAC + 1>>, <<"next">>) \o bb_i2c_read(2)
    \o bb_i2c_stop("ignore")

\* A lost transfer leaves the bus without a stop.
dac47cxWriteReg(o) ==
  bb_i2c_start(FALSE, "return")
    \o [i \in 1 .. 4 |-> SendByte((<<DAC, 8 * o.reg>> \o o.data)[i], "return", IF i = 1 THEN "ENODEV" ELSE "stop")]
    \o bb_i2c_stop("ignore")

\* -- mutant: all of it at once
PutAll(o) == Len(o.data)
\* The pages of a write: up to the end of the first of them, or of the data.
PutLen(o) ==
  LET room == EepromPage - (o.reg % EepromPage)
  IN  IF room < Len(o.data) THEN room ELSE Len(o.data)

ProgramOf(o) ==
  CASE o.kind = "dacGet"   -> dac47cxReadReg(o)
    [] o.kind = "dacSet"   -> dac47cxWriteReg(o)
    [] o.kind = "eeWrite"  -> bb_i2c_rw_a8([o EXCEPT !.data = SubSeq(@, 1, PutLen(o))])
    [] OTHER               -> bb_i2c_rw_a8(o)

\* at24EepromRead and at24EepromWrite refuse what does not end before the last byte.
check(o) ==
  o.kind \in {"eeRead", "eeWrite"} => o.reg + o.len + Len(o.data) < Cardinality(DOMAIN Memory[AT24])

\* One bit of a register of the expander; its other bits are kept (sw/tca6408FECSup.c).
WithBit(v, o) == v - 2 ^ o.bit * Bit(v, o.bit) + 2 ^ o.bit * o.on
-------------------------------------------------------------------------------
I2cInit ==
  /\ bus = I2cIdle /\ op = NoOp /\ i2cpc = 0 /\ res = "ok" /\ got = <<>>
  /\ ops = MaxOps /\ lost = MaxBusFaults /\ before = [op |-> NoOp, mem |-> Memory, seen |-> TRUE, lost |-> lost]

I2cStep  == ProgramOf(op)[i2cpc]
I2cDone  == i2cpc = Len(ProgramOf(op)) + 1
ToStop   == Len(ProgramOf(op)) - 1
I2cEnds(r)  == i2cpc' = 0 /\ res' = r

\* Clock and data are high, or a start has been seen and no clock since: chips see a start.
StartIsSeen == bus.scl = 1 /\ ~bus.drive /\ (bus.sda = 1 \/ (bus.phase = "address" /\ bus.n = 0))

I2cBegin(o) ==
  /\ i2cpc = 0 /\ ops > 0 /\ check(o) /\ ops' = ops - 1
  /\ op' = o /\ i2cpc' = 1 /\ res' = "ok" /\ got' = <<>>
  /\ before' = [op |-> o, mem |-> bus.mem, seen |-> StartIsSeen, lost |-> lost]
  /\ UNCHANGED <<bus, lost>>

I2cTransfer ==
  /\ i2cpc > 0 /\ ~I2cDone
  /\ LET d   == Drive(bus, bb_i2c_xfer(I2cStep))
         nak == I2cStep.do = "byte" /\ Seen(d.seen)[9] = 1 /\ I2cStep.nak # "next"
     IN  /\ bus' = d.bus
         /\ got' = IF I2cStep.do = "read" THEN Append(got, Value(d.seen)) ELSE got
         /\ i2cpc' = IF nak THEN ToStop ELSE i2cpc + 1
         /\ res' = IF ~nak THEN res ELSE IF I2cStep.nak = "stop" THEN "short" ELSE I2cStep.nak
  /\ UNCHANGED <<op, ops, lost, before>>

\* The transfer or its reply is lost, with none, a part or all of it done.
I2cLost ==
  /\ i2cpc > 0 /\ ~I2cDone /\ lost > 0 /\ lost' = lost - 1
  /\ \E k \in 0 .. Len(bb_i2c_xfer(I2cStep)) :
       bus' = Drive(bus, SubSeq(bb_i2c_xfer(I2cStep), 1, k)).bus
  /\ CASE I2cStep.io = "bail"   -> i2cpc' = ToStop /\ res' = "IO"
       [] I2cStep.io = "ignore" -> I2cEnds(res)
       [] I2cStep.io = "return" -> I2cEnds(IF res \in {"ok", "short"} THEN "IO" ELSE res)
  /\ UNCHANGED <<op, got, ops, before>>

ReadForBit   == op.kind = "setBit" /\ op.len > 0 /\ res = "ok"
MorePages    == op.kind = "eeWrite" /\ res = "ok" /\ PutLen(op) < Len(op.data)
EepromIsBusy == op.kind = "eeWrite" /\ res = "ENODEV"

\* An operation goes on with the register whose bit is changed, with the next page, or
\* with the same page while the EEPROM does not answer.
I2cGoOn ==
  /\ I2cDone /\ i2cpc' = 1 /\ res' = "ok"
  /\ \/ ReadForBit   /\ op' = [op EXCEPT !.len = 0, !.data = <<WithBit(got[1], op)>>]
     \/ MorePages    /\ op' = [op EXCEPT !.reg = @ + PutLen(op), !.data = SubSeq(@, PutLen(op) + 1, Len(@))]
     \/ EepromIsBusy /\ UNCHANGED op
  /\ UNCHANGED <<bus, got, ops, lost, before>>

\* It is over; for an EEPROM that does not answer, after a second.
I2cReturn ==
  /\ I2cDone /\ ~ReadForBit /\ ~MorePages
  /\ I2cEnds(res)
  /\ UNCHANGED <<bus, op, got, ops, lost, before>>

\* The EEPROM has written its page.
PageWritten ==
  /\ bus.busy /\ bus' = [bus EXCEPT !.busy = FALSE]
  /\ UNCHANGED <<op, i2cpc, res, got, ops, lost, before>>

I2cNext ==
  (\E o \in Operations : I2cBegin(o)) \/ I2cTransfer \/ I2cLost \/ I2cGoOn \/ I2cReturn \/ PageWritten
-------------------------------------------------------------------------------
\* What the memories are to be after an operation, and what it is to read.
Asked(o, mem) ==
  CASE o.kind = "write"   -> [mem EXCEPT ![o.sla][o.reg] = o.data[1]]
    [] o.kind = "setBit"  -> [mem EXCEPT ![o.sla][o.reg] = WithBit(@, o)]
    [] o.kind = "dacSet"  -> [mem EXCEPT ![DAC][2 * o.reg] = o.data[1], ![DAC][2 * o.reg + 1] = o.data[2]]
    [] o.kind = "eeWrite" -> [mem EXCEPT ![AT24] = [a \in DOMAIN @ |->
                                IF a \in o.reg .. o.reg + Len(o.data) - 1 THEN o.data[a - o.reg + 1] ELSE @[a]]]
    [] OTHER -> mem
Wanted(o, mem) ==
  IF o.kind = "dacGet" THEN <<mem[DAC][2 * o.reg], mem[DAC][2 * o.reg + 1]>>
  ELSE [i \in 1 .. o.len |-> mem[o.sla][o.reg + i - 1]]

NotLost == before.lost = lost

\* An operation that no transfer is lost in does what it is asked for, and nothing else,
\* whatever became of the operations before it, as long as the chips can see its start;
\* the EEPROM may be busy (at24EepromRead).
AsAsked ==
  i2cpc = 0 /\ op # NoOp /\ NotLost /\ before.seen =>
    \/ /\ res = "ok" /\ bus.mem = Asked(before.op, before.mem)
       /\ before.op.kind # "setBit" => got = Wanted(before.op, before.mem)
    \/ res = "ENODEV" /\ before.op.sla = AT24

\* No operation changes what it is not asked to change, in any of its steps, whichever
\* transfer is lost in it: not even a read that is cut short, or a page of the EEPROM.
\* The premise is that the chips could see the start of the operation (before.seen). If
\* they could not, a chip that an earlier lost transfer left in the middle of something
\* takes the bytes of this operation for that: behind a dacSet that was cut short
\* (dac47cxSup.c:77) the converter may store them as the contents of its register.
OnlyAsked ==
  [][ bus'.mem # bus.mem /\ before.seen =>
        \A d \in DOMAIN Memory : \A a \in DOMAIN Memory[d] :
          bus'.mem[d][a] \in {bus.mem[d][a], Asked(before.op, before.mem)[d][a]} ]_i2cVars

\* What bb_i2c_read_reg promises: it returns the value of the register, or an error
\* ("RETURNS: read value, negative status on error").
ReadsTheRegister ==
  i2cpc = 0 /\ before.op.kind = "read" /\ NotLost /\ res = "ok" =>
    got = Wanted(before.op, before.mem)
===============================================================================
