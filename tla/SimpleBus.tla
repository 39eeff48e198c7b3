------------------------------- MODULE SimpleBus -------------------------------
(***************************************************************************)
(* The byte bus between the blocks of the command interface                *)
(* (hdl/CommandMuxPkg.vhd, SimpleBusMstType).  What is on a bus during a   *)
(* clock cycle is <<>> (not valid) or a sequence of one beat.  A beat      *)
(* moves at an edge when the other side is ready.                          *)
(*                                                                         *)
(* A byte is a number below NumBytes; arithmetic on bytes wraps there.     *)
(***************************************************************************)
EXTENDS Integers, Sequences

CONSTANTS
  NumBytes,
  COMMA, ESCAP,  (* the bytes that end a frame and quote one of the two     *)
  CMD_ERROR,     (* the reply to a command nobody supports                  *)
  Cmd            (* what each byte means as a command                       *)

Byte == 0 .. NumBytes - 1

ASSUME BusAssumption ==
  /\ NumBytes \in Nat \ {0}
  /\ {COMMA, ESCAP, CMD_ERROR} \subseteq Byte /\ COMMA # ESCAP
  /\ Cmd \in [Byte -> {"VERSION", "ECHO", "ACQ_PARMS", "RD8", "WR8", "NOSUBCMD", "NONE"}]

Beat   == [dat : Byte, lst : BOOLEAN]
Bus(T) == {<<>>} \union {<<x>> : x \in T}

Special(b) == b \in {COMMA, ESCAP}
=============================================================================
