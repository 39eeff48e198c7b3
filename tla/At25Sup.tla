-------------------------------- MODULE At25Sup --------------------------------
(***************************************************************************)
(* What the functions of sw/at25Sup.c, sw/flash.c and sw/unitDataFlash.c   *)
(* do, as the sequence of the transfers they make and of the tests of      *)
(* their results.  Each of these is a step of FlashPrograms; whatever      *)
(* happens between two of them happens there.                              *)
(*                                                                         *)
(* What C does when a step fails is in the step:                           *)
(*   "bail"   the program fails, and runs the clean-up in the step's bail  *)
(*   "rest"   part of a clean-up fails: only the rest of it is run         *)
(*   "next"   the result is not looked at                                  *)
(* A clean-up is a sequence of the names of functions.                     *)
(***************************************************************************)
EXTENDS AT25Flash, SequencesExt

CONSTANTS Blocks          \* blocks[]: the three sizes of an erase, ascending

ASSUME FlashAssumption ==
  /\ Page \in Nat \ {0} /\ Len(Blocks) = 3
  /\ \A i \in 1 .. 3 : Blocks[i] \in Nat \ {0} /\ Size % Blocks[i] = 0 /\ Blocks[i] % Page = 0
  /\ Blocks[2] % Blocks[1] = 0 /\ Blocks[3] % Blocks[2] = 0

deviceBlockSize == Blocks[1]
unitDataAddr    == Size - deviceBlockSize

Step(do, at, size, data, fails, bail) ==
  [do |-> do, at |-> at, size |-> size, data |-> data, fails |-> fails, bail |-> bail]

Cmd(do, fails, bail) == Step(do, 0, 0, <<>>, fails, bail)

at25_write_ena(fails, bail)     == <<Cmd("WRITE_ENA", fails, bail)>>
at25_write_dis                  == <<Cmd("WRITE_DIS", "next", <<>>)>>
at25_status_poll(fails, bail)   == <<Cmd("POLL", fails, bail)>>
at25_status01_write(val, fails, bail) ==
  <<Step("STATUS_WR", 0, val, <<>>, fails, bail)>> \o at25_status_poll(fails, bail)

\* Writing the status clears write-enable again.
at25_global_unlock(bail) ==
  at25_write_ena("bail", bail) \o at25_status01_write(0, "bail", bail) \o at25_write_ena("bail", bail)

\* Only called where the result is not looked at.
at25_global_lock(rest) ==
  at25_write_ena("rest", rest) \o at25_status01_write(60, "rest", rest)

Cleanup(names) ==
  FlattenSeq([i \in DOMAIN names |->
    IF names[i] = "at25_global_lock" THEN at25_global_lock(SubSeq(names, i + 1, Len(names)))
    ELSE at25_write_dis])

at25_open1 == <<Cmd("RESUME", "bail", <<>>), Cmd("ID", "bail", <<>>)>>

at25_block_erase(at, size, bail) ==
  <<Step("ERASE", at, size, <<>>, "bail", bail), Cmd("POLL_EPE", "bail", bail)>>

\* The largest block that 'at' is aligned to, and that is not larger than 'size'.
Largest(S)   == CHOOSE b \in S : \A c \in S : c <= b
algnblk(at)  == Largest({Blocks[1]} \cup {b \in ToSet(Blocks) : at % b = 0})
RoundedUp(size) ==                           \* mutant: the smallest that is not smaller
  IF size <= Blocks[1] THEN Blocks[1] ELSE IF size <= Blocks[2] THEN Blocks[2] ELSE Blocks[3]
sz2bsz(size) == Largest({Blocks[1]} \cup {b \in ToSet(Blocks) : b <= size})

EraseSize(at, size) == IF size < algnblk(at) THEN sz2bsz(size) ELSE algnblk(at)

EraseBlocks(from, to, bsz, bail) ==
  FlattenSeq([i \in 1 .. (to - from) \div bsz |->
    at25_global_unlock(bail) \o at25_block_erase(from + (i - 1) * bsz, bsz, bail)])

AlignDown(a, bsz) == (a \div bsz) * bsz
AlignUpOneMore(a, bsz) == AlignDown(a + bsz, bsz)      \* mutant
AlignUp(a, bsz)   == AlignDown(a + bsz - 1, bsz)

\* Without write-enable nothing is erased, and the result is not negative.
at25_area_erase(at, size, bail) ==
  LET bsz    == EraseSize(at, size)
      blocks == EraseBlocks(AlignDown(at, bsz), AlignUp(at + size, bsz), bsz, bail)
  IN  <<Step("WEL_OR_SKIP", 0, Len(blocks), <<>>, "bail", bail)>> \o blocks

verify(at, data, bail) == <<Step("VERIFY", at, 0, data, "bail", bail)>>
Blank(size)            == [i \in 1 .. size |-> Erased]

\* Page by page, where the first one may be entered in the middle.  The test for a
\* programming error looks at 'st', which is not what at25_status_poll returned: it never fails.
PageWrite(at, data, bail) ==
  <<Step("PAGE_WRITE", at, 0, data, "bail", bail)>> \o at25_status_poll("bail", bail)
    \o at25_write_ena("next", <<>>)

PagesUnaligned(at, data, bail) ==            \* mutant: pages counted from the address
  FlattenSeq([i \in 1 .. (Len(data) + Page - 1) \div Page |->
    PageWrite(at + (i - 1) * Page,
              SubSeq(data, (i - 1) * Page + 1, IF i * Page < Len(data) THEN i * Page ELSE Len(data)),
              bail)])
Pages(at, data, bail) ==
  LET first == at \div Page
      last  == (at + Len(data) - 1) \div Page
      page(p) == LET from == IF p * Page > at THEN p * Page ELSE at
                     to   == IF (p + 1) * Page < at + Len(data) THEN (p + 1) * Page ELSE at + Len(data)
                 IN  PageWrite(from, SubSeq(data, from - at + 1, to - at), bail)
  IN  FlattenSeq([i \in 1 .. last - first + 1 |-> page(first + i - 1)])

\* caller: the clean-up of the function that called.
at25_prog(at, data, check, caller) ==
  LET lock == <<"at25_global_lock", "at25_write_dis">>
      bail == IF "EXEC_PROG" \in check THEN lock \o caller ELSE caller
  IN  (IF "CHECK_ERASED" \in check THEN verify(at, Blank(Len(data)), caller) ELSE <<>>)
      \o (IF "EXEC_PROG" \in check THEN at25_global_unlock(caller) \o Pages(at, data, bail) ELSE <<>>)
      \o (IF "CHECK_VERIFY" \in check THEN verify(at, data, bail) ELSE <<>>)
      \o (IF "EXEC_PROG" \in check THEN Cleanup(lock) ELSE <<>>)

All == {"CHECK_ERASED", "EXEC_PROG", "CHECK_VERIFY"}

flash_write(at, data) ==
  LET bail == <<"at25_write_dis">>
  IN  at25_open1 \o at25_write_ena("bail", bail) \o at25_area_erase(at, Len(data), bail)
      \o at25_prog(at, data, All, bail) \o Cleanup(bail)

\* Without data the block is only erased; the one byte that is checked stands for a dummy.
toFlashCB(data) ==
  LET bail == <<"at25_write_dis">>
  IN  at25_open1 \o at25_write_ena("bail", <<>>) \o <<Cmd("WEL", "bail", bail)>>
      \o at25_global_unlock(bail) \o at25_block_erase(unitDataAddr, deviceBlockSize, bail)
      \o (IF data = <<>> THEN at25_prog(unitDataAddr, Blank(1), {"CHECK_ERASED"}, bail)
          ELSE at25_prog(unitDataAddr, data, All, bail))
      \o Cleanup(bail)

fromFlashCB == at25_open1 \o <<Cmd("NOT_BLANK", "bail", <<>>), Cmd("READ", "bail", <<>>)>>

\* The commands of bbcli's --SPI option, which are run one after the other.
Commands(cmds, at, data) ==
  at25_open1 \o FlattenSeq([i \in DOMAIN cmds |->
    CASE cmds[i] = "Wena"  -> at25_write_ena("bail", <<>>)
      [] cmds[i] = "Wdis"  -> <<Cmd("WRITE_DIS", "bail", <<>>)>>
      [] cmds[i] = "Erase" -> at25_area_erase(at, Len(data), <<>>)
      [] cmds[i] = "Prog"  -> at25_prog(at, data, All, <<>>)])
=============================================================================
