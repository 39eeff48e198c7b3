------------------------------- MODULE UnitData -------------------------------
(***************************************************************************)
(* sw/unitData.c and scopeCalData.h: the calibration of a unit, how it is  *)
(* laid out in the last block of the flash, and how it is read from there. *)
(* A number is its bit pattern, a sequence of bytes, the least significant *)
(* first.  Programming may stop after any byte (FlashPrograms has the      *)
(* transfers; here is what is in the block then).                          *)
(***************************************************************************)
EXTENDS Integers, Sequences, SequencesExt

CONSTANTS
  Double,        (* bytes of a number                                      *)
  NaN, ZeroVolts,     (* two numbers                                            *)
  Volts,         (* numbers a calibration may hold                         *)
  ChannelCounts, (* how many channels units are created for                *)
  Cuts(_),       (* of so many bytes, how many may be programmed           *)
  Touched(_),    (* the channels of a unit whose numbers are set           *)
  BlockSize,     (* bytes in the block of the flash                        *)
  OldBlocks      (* [block, holds]: what earlier software left             *)

ASSUME UnitDataAssumption ==
  /\ Double \in Nat \ {0} /\ BlockSize \in Nat
  /\ {NaN, ZeroVolts} \cup Volts \subseteq [1 .. Double -> 0 .. 255]
  /\ ChannelCounts \subseteq Nat

VARIABLES
  ud,       \* the object in memory: NoData, or [version, calData]
  block,    \* the bytes programmed in the block of the flash, the others are erased
  holds     \* history: the object the block is to hold, or NoData
udVars == <<ud, block, holds>>

NoData == [version |-> 0, calData |-> <<>>]
ok(d)  == [st |-> "ok", ud |-> d]
err(e) == [st |-> e, ud |-> NoData]

LAYOUT_VERSION_2 == 2
TAG_TERM    == 255
TAG_CALDATA == 4
OldTags  == 1 .. 3       \* SCALE_VOLTS, OFFSET_VOLTS, SCALE_RELAT
O_PAYLOAD == 4
IO_DAT    == 2
MAKE_VERSION(n) == (n % 16) * 16 + LAYOUT_VERSION_2
MAKE_CHECK(v)   == 255 - v

CalSize == 3 * Double
ScopeCalData(f, o, t) == [fullScaleVolt |-> f, offsetVolt |-> o, postGainOffsetTick |-> t]
scope_cal_data_init   == ScopeCalData(NaN, ZeroVolts, ZeroVolts)
-------------------------------------------------------------------------------
unitDataCreate(n) ==
  IF n > 15 THEN NoData
  ELSE [version |-> LAYOUT_VERSION_2, calData |-> [ch \in 1 .. n |-> scope_cal_data_init]]

serializeCalData(c) == c.fullScaleVolt \o c.offsetVolt \o c.postGainOffsetTick

\* -- mutant: without the terminating tag
SizeNoTerm(n) == O_PAYLOAD + IO_DAT + CalSize * n
unitDataGetSerializedSize(n) == O_PAYLOAD + IO_DAT + CalSize * n + 1

\* The bytes of d in a buffer of size bytes, or <<>> when that is refused.
unitDataSerialize(d, size) ==
  LET n   == Len(d.calData)
      tot == unitDataGetSerializedSize(n)
  IN  IF tot > size \/ d.version # LAYOUT_VERSION_2 \/ n > 15 \/ tot > 65535 THEN <<>>
      ELSE <<MAKE_VERSION(n), MAKE_CHECK(MAKE_VERSION(n)), tot % 256, tot \div 256,
             TAG_CALDATA, (CalSize * n) % 256>>
           \o FlattenSeq([ch \in 1 .. n |-> serializeCalData(d.calData[ch])]) \o <<TAG_TERM>>

\* A buffer is indexed from 0 as in C.
scanDouble(buf, off)  == [j \in 1 .. Double |-> buf[off + j - 1]]
scanCalData(buf, off) ==
  ScopeCalData(scanDouble(buf, off), scanDouble(buf, off + Double), scanDouble(buf, off + 2 * Double))
scanArray(buf, off, n) == [ch \in 1 .. n |-> scanCalData(buf, off + IO_DAT + (ch - 1) * CalSize)]

\* The offsets of the items; -1 stands for one that does not fit.
itemsOf(buf, tot) ==
  LET items[off \in Nat] ==
        IF buf[off] = TAG_TERM THEN <<>>
        ELSE LET size == IF off + 1 < tot THEN IO_DAT + buf[off + 1] ELSE 1
             IN  IF off + size >= tot THEN <<-1>> ELSE <<off>> \o items[off + size]
  IN  items[O_PAYLOAD]

\* scanArray refuses a second CALDATA item, and one of an unexpected size.
unitDataParse(buf) ==
  LET n   == buf[0] \div 16
      tot == buf[2] + 256 * buf[3]
      its == itemsOf(buf, tot)
      cal == SelectSeq(its, LAMBDA off : off >= 0 /\ buf[off] = TAG_CALDATA)
  IN  IF BlockSize <= O_PAYLOAD THEN err("EINVAL")
      ELSE IF buf[0] = TAG_TERM THEN err("ENODATA")
      ELSE IF MAKE_CHECK(buf[0]) # buf[1] THEN err("EINVAL")
      ELSE IF buf[0] % 16 # LAYOUT_VERSION_2 THEN err("ENOTSUP")
      ELSE IF tot > BlockSize THEN err("EINVAL")
      ELSE IF Contains(its, -1) \/ Len(cal) > 1 THEN err("EINVAL")
      ELSE IF cal = <<>> THEN err("ENODATA")
      ELSE IF buf[cal[1] + 1] # CalSize * n THEN err("EINVAL")
      ELSE ok([version |-> buf[0] % 16, calData |-> scanArray(buf, cal[1], n)])
-------------------------------------------------------------------------------
Contents(bytes) == [a \in 0 .. BlockSize - 1 |-> IF a < Len(bytes) THEN bytes[a + 1] ELSE TAG_TERM]

UdInit ==
  /\ ud = NoData
  /\ \/ block = <<>> /\ holds = NoData
     \/ \E old \in OldBlocks : block = old.block /\ holds = old.holds

Create(n) ==
  /\ ud = NoData /\ ud' = unitDataCreate(n)
  /\ UNCHANGED <<block, holds>>

\* unitDataSetFullScaleVolt, unitDataSetOffsetVolt: refused for a channel there is not.
SetVolt(field, ch, v) ==
  /\ ud # NoData
  /\ ud' = IF ch > Len(ud.calData) THEN ud ELSE [ud EXCEPT !.calData[ch][field] = v]
  /\ UNCHANGED <<block, holds>>

SetCalData(ch, c) ==
  /\ ch \in DOMAIN ud.calData
  /\ ud' = [ud EXCEPT !.calData[ch] = c]
  /\ UNCHANGED <<block, holds>>

\* unitDataToFlash: the block is erased, then programmed, k bytes of it.
ToFlash(k) ==
  LET bytes == unitDataSerialize(ud, BlockSize)
  IN  /\ ud # NoData /\ bytes # <<>> /\ k <= Len(bytes)
      /\ block' = SubSeq(bytes, 1, k)
      /\ holds' = ud
      /\ UNCHANGED ud

\* unitDataFromFlash into an object that replaces the one in memory.
FromFlash ==
  /\ LET r == unitDataParse(Contents(block))
     IN  ud' = IF r.st = "ok" THEN r.ud ELSE NoData
  /\ UNCHANGED <<block, holds>>

UdNext ==
  \/ \E n \in ChannelCounts : Create(n)
  \/ \E field \in {"fullScaleVolt", "offsetVolt"}, ch \in Touched(ud), v \in Volts : SetVolt(field, ch, v)
  \/ \E ch \in Touched(ud), v \in Volts : SetCalData(ch, ScopeCalData(v, v, v))
  \/ \E k \in Cuts(Len(unitDataSerialize(ud, BlockSize))) : ToFlash(k)
  \/ FromFlash
-------------------------------------------------------------------------------
\* A number is behind this many bytes of the block.
Behind(ch, i) == O_PAYLOAD + IO_DAT + (ch - 1) * CalSize + i * Double
Fields == <<"fullScaleVolt", "offsetVolt", "postGainOffsetTick">>

\* What unitDataParse makes of the block, whenever the programming of it ended
\* (unitDataFlash.c 132-136). The size of the item is a byte, so that more than
\* ten channels, which unitDataCreate and unitDataSerialize allow, are not read
\* back. Otherwise: data written to the end are read, an erased or an old block
\* is not, and a part of the data, which the bytes of an erased flash may
\* complete to something well-formed, has no other number of channels and no
\* other value for a number that was programmed.
ReadBack ==
  LET r == unitDataParse(Contents(block))
      n == Len(holds.calData)
  IN  IF holds = NoData THEN r.st # "ok"
      ELSE /\ Len(block) = Len(unitDataSerialize(holds, BlockSize)) =>
                (r.st = "ok" <=> CalSize * n < 256)
           /\ r.st = "ok" =>
                /\ Len(r.ud.calData) = n
                /\ \A ch \in 1 .. n, i \in 1 .. 3 :
                     Behind(ch, i) <= Len(block) => r.ud.calData[ch][Fields[i]] = holds.calData[ch][Fields[i]]
===============================================================================
