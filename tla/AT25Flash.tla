------------------------------- MODULE AT25Flash -------------------------------
(***************************************************************************)
(* The SPI flash chip, as sw/at25Sup.c uses it.  A byte is the set of its  *)
(* bits that are 1: programming can only remove some, erasing a block sets *)
(* them all.  While the chip is busy it only answers requests for its      *)
(* status; every write needs its own write-enable.                         *)
(***************************************************************************)
EXTENDS Integers, Sequences

CONSTANTS
  Size,      (* bytes                                                       *)
  Page,      (* AT25_PAGE: the most that one command can program            *)
  Bits       (* of a byte                                                   *)

Addr   == 0 .. Size - 1
Byte   == SUBSET Bits
Erased == Bits                          \* 0xff

Memories == [Addr -> Byte]

\* busy: empty, or what memory and protection will be when the chip is done.
FlashInit(mem) == [mem |-> mem, prot |-> TRUE, wel |-> FALSE, epe |-> FALSE, busy |-> <<>>]

EraseBlock(mem, at, size) ==
  [a \in Addr |-> IF a \div size = at \div size THEN Erased ELSE mem[a]]

\* Addresses wrap around within the page.
ProgramPage(mem, at, data) ==
  [a \in Addr |-> LET i == ((a - at) % Page) + 1
                  IN  IF a \div Page = at \div Page /\ i \in DOMAIN data
                      THEN mem[a] \cap data[i] ELSE mem[a]]

Busy(f, mem, prot) == [f EXCEPT !.busy = <<[mem |-> mem, prot |-> prot]>>]
Refused(f)         == [f EXCEPT !.wel = FALSE, !.epe = TRUE]

\* The effect of a command c on the chip f.
Obey(f, c) ==
  CASE f.busy # <<>>                -> f
    [] c.do = "WRITE_ENA"           -> [f EXCEPT !.wel = TRUE]
    [] c.do = "WRITE_DIS"           -> [f EXCEPT !.wel = FALSE]
    [] c.do = "STATUS_WR" /\ f.wel  -> Busy(f, f.mem, c.size # 0)
    [] c.do = "ERASE" /\ f.wel      -> IF f.prot THEN Refused(f)
                                       ELSE Busy(f, EraseBlock(f.mem, c.at, c.size), f.prot)
    [] c.do = "PAGE_WRITE" /\ f.wel -> IF f.prot THEN Refused(f)
                                       ELSE Busy(f, ProgramPage(f.mem, c.at, c.data), f.prot)
    [] OTHER                        -> f

\* The chip if not all of the command arrives: chip-select ends a page at any byte.
ObeyPart(f, c) ==
  {f, Obey(f, c)} \cup
  (IF c.do = "PAGE_WRITE" THEN {Obey(f, [c EXCEPT !.data = SubSeq(@, 1, n)]) : n \in DOMAIN c.data}
   ELSE {})

Settled(f, mem, prot, failed) ==
  [mem |-> mem, prot |-> prot, wel |-> FALSE, epe |-> failed, busy |-> <<>>]

Done(f) == Settled(f, f.busy[1].mem, f.busy[1].prot, FALSE)

\* Some of the bytes have been changed, from the bottom up, when it stops.
PartlyDone(f) ==
  {[a \in Addr |-> IF a < n THEN f.busy[1].mem[a] ELSE f.mem[a]] : n \in Addr}

Failed(f) == {Settled(f, mem, f.prot, TRUE) : mem \in PartlyDone(f)}

\* Power comes back: the bits that protect the blocks are not volatile.
PoweredUp(f) ==
  IF f.busy = <<>> THEN {Settled(f, f.mem, f.prot, FALSE)}
  ELSE {Settled(f, mem, prot, FALSE) : mem \in PartlyDone(f), prot \in {f.prot, f.busy[1].prot}}
=============================================================================
