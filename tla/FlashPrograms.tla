----------------------------- MODULE FlashPrograms -----------------------------
(***************************************************************************)
(* Programs that write the flash, one after the other: flash_write, the    *)
(* unit data of the scope library, and bbcli.  A transfer may time out,    *)
(* whether the chip got the command or not, or only part of a page; a      *)
(* program may end between two transfers or in one; the chip may fail to   *)
(* erase or program; the power may fail.                                   *)
(***************************************************************************)
EXTENDS At25Sup

CONSTANTS
  Requests,      (* [kind, cmds, at, data]                                 *)
  OldMemory,     (* what is in the flash at first                          *)
  MaxRequests, MaxFaults                                        (* bounds  *)

VARIABLES
  flash,         \* the chip
  req, todo, result,   \* the program: what it does, still has to, and how that went
  read,          \* what it read
  stored,        \* history: the unit data that is known to be in the flash, or <<>>
  reach,         \* history: what this program, or a command still at work, may change
  smooth,        \* history: nothing has gone wrong since the program began
  requests, faults     \* counters for the bounds

program == <<req, todo, result, read>>
vars    == <<flash, program, stored, reach, smooth, requests, faults>>

Nothing == [kind |-> "none", cmds |-> <<>>, at |-> 0, data |-> <<>>]

Init ==
  /\ flash = FlashInit(OldMemory)
  /\ req = Nothing /\ todo = <<>> /\ result = "ok" /\ read = <<>>
  /\ stored = <<>> /\ reach = {} /\ smooth = TRUE /\ requests = 0 /\ faults = 0

\* Where a program may change something: in blocks that hold a byte it is to write, of a
\* size that what it writes needs.
Reach(r) ==
  CASE r.kind \in {"unit", "clear"}  -> unitDataAddr .. Size - 1
    [] r.kind \in {"write", "bbcli"} ->
         {a \in Addr : \E b \in ToSet(Blocks) :
            /\ b <= Len(r.data) \/ b = Blocks[1]
            /\ \E i \in DOMAIN r.data : (r.at + i - 1) \div b = a \div b}
    [] OTHER -> {}

Program(r) ==
  CASE r.kind = "write" -> flash_write(r.at, r.data)
    [] r.kind = "unit"  -> toFlashCB(r.data)
    [] r.kind = "clear" -> toFlashCB(<<>>)
    [] r.kind = "get"   -> fromFlashCB
    [] r.kind = "bbcli" -> Commands(r.cmds, r.at, r.data)

Idle == flash.busy = <<>>

Begin(r) ==
  /\ todo = <<>> /\ requests < MaxRequests
  /\ req' = r /\ todo' = Program(r) /\ result' = "ok" /\ read' = <<>>
  /\ reach' = Reach(r) \cup (IF Idle THEN {} ELSE reach)
  /\ stored' = IF unitDataAddr \in Reach(r) THEN <<>> ELSE stored
  /\ smooth' = Idle
  /\ requests' = requests + 1
  /\ UNCHANGED <<flash, faults>>

Ends(rest, res) ==
  stored' = IF rest = <<>> /\ res = "ok" /\ req.kind = "unit" THEN req.data ELSE stored

Continue(rest) ==
  /\ todo' = rest /\ Ends(rest, result)
  /\ UNCHANGED <<req, result>>

\* The step at the head of todo failed.
Bail ==
  LET step == Head(todo)
      rest == IF step.fails = "next" THEN Tail(todo) ELSE Cleanup(step.bail)
  IN  /\ todo' = rest /\ UNCHANGED req
      /\ result' = IF step.fails = "bail" THEN "failed" ELSE result
      /\ Ends(rest, result')

Holds(data) == \A i \in DOMAIN data : flash.mem[req.at + i - 1] = data[i]

VerifyIgnored(step) ==                       \* mutant: a mismatch is only reported
  CASE step.do = "ID"        -> Idle
    [] step.do = "POLL_EPE"  -> ~ flash.epe
    [] step.do = "WEL"       -> flash.wel
    [] step.do = "NOT_BLANK" -> flash.mem[unitDataAddr] # Erased
    [] OTHER                 -> TRUE

\* What is read while the chip is busy is all ones.
Succeeds(step) ==
  CASE step.do = "ID"        -> Idle
    [] step.do = "POLL_EPE"  -> ~ flash.epe
    [] step.do = "WEL"       -> flash.wel
    [] step.do = "VERIFY"    -> \A i \in DOMAIN step.data : flash.mem[step.at + i - 1] = step.data[i]
    [] step.do = "NOT_BLANK" -> flash.mem[unitDataAddr] # Erased
    [] OTHER                 -> TRUE

\* at25_status_poll repeats the transfer while the chip is busy.
Waits(step) == step.do \in {"POLL", "POLL_EPE"} /\ ~ Idle

Transfer ==
  /\ todo # <<>>
  /\ LET step == Head(todo)
     IN  /\ ~ Waits(step)
         /\ flash' = Obey(flash, step)
         /\ IF ~ Succeeds(step) THEN Bail
            ELSE IF step.do = "WEL_OR_SKIP" /\ ~ flash.wel
                 THEN Continue(SubSeq(todo, step.size + 2, Len(todo)))
                 ELSE Continue(Tail(todo))
         /\ read' = IF step.do = "READ"
                    THEN SubSeq([i \in 1 .. Size |-> flash.mem[i - 1]], unitDataAddr + 1, Size)
                    ELSE read
  /\ UNCHANGED <<reach, smooth, requests, faults>>

Fault == faults < MaxFaults /\ faults' = faults + 1 /\ smooth' = FALSE

\* No reply in time, or an error of the operating system.
TransferFails ==
  /\ todo # <<>> /\ Fault
  /\ flash' \in ObeyPart(flash, Head(todo))
  /\ Bail
  /\ UNCHANGED <<read, reach, requests>>

ProgramEnds ==
  /\ todo # <<>> /\ Fault
  /\ flash' \in ObeyPart(flash, Head(todo))
  /\ todo' = <<>> /\ result' = "failed"
  /\ UNCHANGED <<req, read, stored, reach, requests>>

ChipDone ==
  /\ ~ Idle /\ flash' = Done(flash)
  /\ UNCHANGED <<program, stored, reach, smooth, requests, faults>>

ChipFails ==
  /\ ~ Idle /\ Fault /\ flash' \in Failed(flash)
  /\ UNCHANGED <<program, stored, reach, requests>>

PowerFails ==
  /\ Fault /\ flash' \in PoweredUp(flash)
  /\ todo' = <<>> /\ result' = IF todo = <<>> THEN result ELSE "failed"
  /\ UNCHANGED <<req, read, stored, reach, requests>>

Next ==
  \/ \E r \in Requests : Begin(r)
  \/ Transfer
  \/ TransferFails
  \/ ProgramEnds
  \/ ChipDone
  \/ ChipFails
  \/ PowerFails

Spec == Init /\ [][Next]_vars
-----------------------------------------------------------------------------
Finished == todo = <<>> /\ req # Nothing
Writes   ==
  \/ req.kind \in {"write", "unit"}
  \/ req.kind = "bbcli" /\ req.cmds[Len(req.cmds)] = "Prog"
ErasesOnly ==
  \/ req.kind = "clear"
  \/ /\ req.kind = "bbcli" /\ req.cmds[1] = "Wena"
     /\ "Erase" \in ToSet(req.cmds) /\ "Prog" \notin ToSet(req.cmds)
ToErase == IF req.kind = "clear" THEN unitDataAddr .. Size - 1 ELSE req.at .. req.at + Len(req.data) - 1

\* A program that reports success has put its data into the flash, also if the chip failed
\* to program a page, a transfer of the clean-up was lost, or an earlier program had ended
\* half way.  (at25_prog, flash.c:50-80, unitDataFlash.c:95-147)
SuccessIsWritten ==
  Finished /\ result = "ok" /\ Writes => Holds(req.data)

\* A program in which nothing goes wrong succeeds, in whatever state earlier ones left chip
\* and memory.  One that ends by programming leaves the chip write protected.  One that only
\* erases does not: the blocks it erased, and all others, stay unprotected, since only at25_prog
\* with AT25_EXEC_PROG calls at25_global_lock, and bbcli when it is told to.
\* (at25Sup.c:564-568, 700-725; unitDataFlash.c:122-144)
SmoothSucceeds ==
  Finished /\ smooth =>
    /\ Writes /\ (req.kind = "bbcli" => req.cmds[1] = "Wena") => result = "ok"
    /\ Writes /\ result = "ok" => flash.prot /\ ~ flash.wel /\ Idle
    /\ ErasesOnly => /\ result = "ok" /\ ~ flash.prot /\ ~ flash.wel /\ Idle
                     /\ \A a \in ToErase : flash.mem[a] = Erased

\* Unit data that was written with success is what is read back later, whatever was done
\* to other parts of the flash in between and however that ended.
\* (fromFlashCB, unitDataFlash.c:75-93)
UnitDataReadBack ==
  Finished /\ req.kind = "get" /\ stored # <<>> =>
    /\ smooth => result = "ok"
    /\ result = "ok" => \A i \in DOMAIN stored : read[i] = stored[i]

\* Nothing changes but in blocks that hold a byte to be written, and no block is larger than
\* what is to be written needs, wherever it begins and ends.
\* (at25_area_erase, sz2bsz, algnblk: at25Sup.c:670-720)
OthersKept ==
  [][\A a \in Addr : flash'.mem[a] # flash.mem[a] => a \in reach]_vars

=============================================================================
