-------------------------------- MODULE BusI2C --------------------------------
(***************************************************************************)
(* The two lines of the I2C bus and the chips on it, which are not part of *)
(* the repository: an I/O expander (TCA6408, one pointer and registers of  *)
(* a byte), a converter (MCP47CX, a command byte and registers of two),    *)
(* and an EEPROM (AT24, an address and bytes, written at STOP). All see    *)
(* the same lines, so that one machine follows the bits for them; hdl/     *)
(* BitBangIF.vhd puts out what it is told and tells what it saw before.    *)
(***************************************************************************)
EXTENDS Integers, Sequences, SequencesExt, FiniteSets

CONSTANTS
  Memory,    (* device address -> register -> what is in it at power-up    *)
  EepromPage (* bytes the EEPROM writes at once                            *)

TCA  == 64       \* 0x40
DAC  == 194      \* 0xc2
AT24 == 160      \* 0xa0

\* i2c: lines [scl, sda as the host drives it], drive: a chip pulls SDA down.
\* A byte is followed in phase, n bits of it are in sh; dev and buf belong to the
\* chip that is addressed. Every chip has a pointer of its own, and keeps it.
I2cIdle ==
  [scl |-> 1, sda |-> 1, drive |-> FALSE, phase |-> "idle", n |-> 0, sh |-> 0, mack |-> FALSE,
   dev |-> 0, first |-> FALSE, ptr |-> [d \in DOMAIN Memory |-> 0], buf |-> <<>>, mem |-> Memory, busy |-> FALSE]

Sda(b) == IF b.drive THEN 0 ELSE b.sda
Bit(v, i) == (v \div 2 ^ i) % 2
InMem(b, d, a) == a \in DOMAIN b.mem[d]
RegOf(b, d, a)   == IF InMem(b, d, a) THEN b.mem[d][a] ELSE 255
WithReg(b, d, a, v) == IF InMem(b, d, a) THEN [b EXCEPT !.mem[d][a] = v] ELSE b
-------------------------------------------------------------------------------
\* A byte was received and is acknowledged.
Address(b) ==
  LET d == b.sh - (b.sh % 2)
  IN  IF d \notin DOMAIN b.mem \/ (d = AT24 /\ b.busy) THEN [b EXCEPT !.phase = "others"]
      ELSE [b EXCEPT !.dev = d, !.drive = TRUE, !.first = TRUE, !.buf = <<>>,
                     !.phase = IF b.sh % 2 = 1 THEN "read" ELSE "write"]

StoreByte(b) ==
  CASE b.first -> [b EXCEPT !.first = FALSE,
                            !.ptr[b.dev] = IF b.dev = DAC THEN 2 * (b.sh \div 8) ELSE b.sh]
    [] ~b.first /\ b.dev = TCA  -> WithReg(b, TCA, b.ptr[TCA], b.sh)
    [] ~b.first /\ b.dev = AT24 -> [b EXCEPT !.buf = Append(@, b.sh)]
    [] OTHER -> IF Len(b.buf) = 0 THEN [b EXCEPT !.buf = <<b.sh>>]
                ELSE [WithReg(WithReg(b, DAC, b.ptr[DAC], b.buf[1]), DAC, b.ptr[DAC] + 1, b.sh) EXCEPT !.buf = <<>>]

LoadByte(b) ==
  LET v == RegOf(b, b.dev, b.ptr[b.dev]) IN  [b EXCEPT !.sh = v, !.drive = Bit(v, 7) = 0]

\* An EEPROM writes its page when the STOP comes behind a byte.
CommitPage(b) ==
  IF b.dev # AT24 \/ b.phase # "write" \/ b.buf = <<>> \/ b.n > 1 THEN b
  ELSE LET at(i) == ((b.ptr[AT24] \div EepromPage) * EepromPage) + ((b.ptr[AT24] + i - 1) % EepromPage)
       IN  [FoldLeft(LAMBDA m, i : WithReg(m, AT24, at(i), b.buf[i]), b, [i \in DOMAIN b.buf |-> i])
              EXCEPT !.busy = TRUE]

BusStart(b) == [b EXCEPT !.phase = "address", !.n = 0, !.sh = 0]
BusStop(b)  == [CommitPage(b) EXCEPT !.phase = "idle", !.n = 0]

Rise(b) ==
  CASE b.phase \in {"address", "write"} /\ b.n < 8 ->
         [b EXCEPT !.n = @ + 1, !.sh = (2 * @ + Sda(b)) % 256]
    [] b.phase = "read" -> [b EXCEPT !.n = @ + 1, !.mack = (Sda(b) = 0)]
    [] b.phase \in {"address", "write"} /\ b.n = 8 -> [b EXCEPT !.n = 9]
    [] OTHER -> b

Fall(b) ==
  CASE b.phase = "address" /\ b.n = 8 -> Address(b)
    [] b.phase = "write" /\ b.n = 8   -> [StoreByte(b) EXCEPT !.drive = TRUE]
    [] b.phase = "write" /\ b.n = 9   -> [b EXCEPT !.n = 0, !.drive = FALSE]
    [] b.phase = "read" /\ b.n \in 1 .. 7 -> [b EXCEPT !.drive = Bit(b.sh, 7 - b.n) = 0]
    [] b.phase = "read" /\ b.n = 8 -> [b EXCEPT !.drive = FALSE]
    [] b.phase = "read" /\ b.n = 9 /\ (b.mack \/ b.first) ->
         LET more == [b EXCEPT !.n = 0, !.first = FALSE,
                               !.ptr[b.dev] = IF b.first \/ b.dev = TCA THEN @ ELSE @ + 1]
         IN  LoadByte(more)
    [] b.phase = "read" /\ b.n = 9 -> [b EXCEPT !.phase = "others", !.drive = FALSE]
    [] OTHER -> b
-------------------------------------------------------------------------------
SetScl(b, v) ==
  IF v = b.scl THEN b
  ELSE IF v = 1 THEN Rise([b EXCEPT !.scl = 1]) ELSE Fall([b EXCEPT !.scl = 0])

SetSda(b, v) ==
  LET c == [b EXCEPT !.sda = v]
  IN  IF b.scl = 0 \/ Sda(c) = Sda(b) THEN c
      ELSE IF Sda(c) = 0 THEN BusStart(c) ELSE BusStop(c)

\* A line falls at once and rises through its resistor.
SetLines(b, line) ==
  IF line[2] = 0 THEN SetScl(SetSda(b, 0), line[1]) ELSE SetSda(SetScl(b, line[1]), 1)

\* What is seen of a list of settings: SDA before each of them.
Drive(b, lines) ==
  FoldLeft(LAMBDA r, line : [bus  |-> SetLines(r.bus, line),
                             seen |-> Append(r.seen, Sda(r.bus))],
           [bus |-> b, seen |-> <<>>], lines)
===============================================================================
