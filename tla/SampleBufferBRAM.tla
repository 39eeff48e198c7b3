--------------------------- MODULE SampleBufferBRAM ---------------------------
(***************************************************************************)
(* The block-RAM sample buffer of hdl/SampleBufferBRAM.vhd: a ring memory  *)
(* which the writer fills until it is told how many words are valid, and   *)
(* which the reader then empties while the writer is halted.               *)
(*                                                                         *)
(* A word is known by its age, the number of samples the recorder took     *)
(* since (Old if that is more than the ring can hold).  The operators      *)
(* describe one edge of either clock.                                      *)
(***************************************************************************)
EXTENDS SampleMemory

VARIABLES
  bWr, waddr, ram,   \* write side: state, nsmpl, tgl; address; memory
  bRd, rdata         \* read side: state, raddr, tgl; output register

Addr == 0 .. MemDepth - 1
Old  == MemDepth
Ages == 0 .. Old

AddrNext(a) == IF a = MemDepth - 1 THEN 0 ELSE a + 1

BufTypeOK ==
  /\ bWr \in [state : {"WRITE", "NSMPLS_HI", "HALT"}, nsmpl : RamAddr, tgl : BOOLEAN]
  /\ waddr \in Addr /\ ram \in [Addr -> Ages]
  /\ bRd \in [state : {"WAITRD", "PRELD", "READ"}, raddr : Addr, tgl : BOOLEAN]
  /\ rdata \in Ages

BufInit ==
  /\ bWr = [state |-> "WRITE", nsmpl |-> 0, tgl |-> FALSE]
  /\ waddr = 0 /\ ram = [a \in Addr |-> Old]
  /\ bRd = [state |-> "WAITRD", raddr |-> 0, tgl |-> FALSE]
  /\ rdata = Old
-----------------------------------------------------------------------------
(* The write side.                                                         *)

setLo(n, w) == IF AddrSpace >= LoWord THEN (n \div LoWord) * LoWord + w
                                      ELSE w % AddrSpace
setHi(n, w) == IF AddrSpace > LoWord
               THEN (w % (AddrSpace \div LoWord)) * LoWord + (n % LoWord)
               ELSE n

bufWrEna(wrEna, cmd) == bWr.state = "WRITE" /\ wrEna /\ ~cmd

BufWrCombEarly(wrEna, cmd, dat, rdTglSync) ==  \* mutant: handed over with the first word
  \/ /\ bWr.state = "WRITE"
     /\ bWr' = IF wrEna /\ cmd
               THEN [bWr EXCEPT !.nsmpl = setLo(@, dat), !.state = "NSMPLS_HI",
                                !.tgl = ~@]
               ELSE bWr
  \/ /\ bWr.state = "NSMPLS_HI"
     /\ bWr' = IF wrEna
               THEN [bWr EXCEPT !.nsmpl = setHi(@, dat), !.state = "HALT"]
               ELSE bWr
  \/ /\ bWr.state = "HALT"
     /\ bWr' = IF rdTglSync = bWr.tgl THEN [bWr EXCEPT !.state = "WRITE"] ELSE bWr
BufWrComb(wrEna, cmd, dat, rdTglSync) ==
  \/ /\ bWr.state = "WRITE"
     /\ bWr' = IF wrEna /\ cmd
               THEN [bWr EXCEPT !.nsmpl = setLo(@, dat), !.state = "NSMPLS_HI"]
               ELSE bWr
  \/ /\ bWr.state = "NSMPLS_HI"
     /\ bWr' = IF wrEna
               THEN [bWr EXCEPT !.nsmpl = setHi(@, dat), !.state = "HALT", !.tgl = ~@]
               ELSE bWr
  \/ /\ bWr.state = "HALT"
     /\ bWr' = IF rdTglSync = bWr.tgl THEN [bWr EXCEPT !.state = "WRITE"] ELSE bWr

\* One more sample was offered: everything is one sample older.
Aged(age, offered) == IF offered /\ age < Old THEN age + 1 ELSE age

BufWrRam(wrEna, cmd) ==
  LET offered == wrEna /\ ~cmd
      aged    == [a \in Addr |-> Aged(ram[a], offered)]
  IN  IF bufWrEna(wrEna, cmd)
      THEN ram' = [aged EXCEPT ![waddr] = 0] /\ waddr' = AddrNext(waddr)
      ELSE ram' = aged /\ UNCHANGED waddr
-----------------------------------------------------------------------------
(* The read side.                                                          *)

rdEmp           == bRd.state # "READ"
rdLst(rdFlush)  == ~rdEmp /\ (bRd.raddr = waddr \/ rdFlush)

\* The address of the oldest valid word.  No words means all of them.
raddrFirst ==
  IF AddrSpace > MemDepth /\ bWr.nsmpl >= MemDepth THEN waddr
  ELSE IF AddrSpace > MemDepth /\ bWr.nsmpl > waddr
       THEN (waddr - bWr.nsmpl + MemDepth) % AddrSpace
       ELSE (waddr - bWr.nsmpl) % AddrSpace

\* The word that leaves the output register after the edge.
BufRdComb(rdEna, rdFlush, wrTglSync) ==
  \/ /\ bRd.state = "WAITRD"
     /\ bRd' = IF wrTglSync # bRd.tgl
               THEN [bRd EXCEPT !.raddr = raddrFirst, !.state = "PRELD"]
               ELSE bRd
  \/ /\ bRd.state = "PRELD"
     /\ bRd' = [bRd EXCEPT !.raddr = AddrNext(@), !.state = "READ"]
  \/ /\ bRd.state = "READ"
     /\ bRd' = IF ~(rdEna \/ rdFlush) THEN bRd
               ELSE IF rdLst(rdFlush)
               THEN [bRd EXCEPT !.raddr = AddrNext(@), !.state = "WAITRD", !.tgl = ~@]
               ELSE [bRd EXCEPT !.raddr = AddrNext(@)]

\* The register loads from the memory as it is before the edge.
rdataNext(rdEna, rdFlush) ==
  IF bRd.state = "PRELD" \/ (bRd.state = "READ" /\ (rdEna \/ rdFlush))
  THEN ram[bRd.raddr] ELSE rdata
=============================================================================
