---------------------------- MODULE ByteStuffing ----------------------------
(***************************************************************************)
(* hdl/ByteStuffer.vhd and hdl/ByteDeStuffer.vhd: frames as bytes.  A      *)
(* COMMA follows the last byte of a frame, a COMMA or an ESCAP in the      *)
(* frame is preceded by ESCAP.                                             *)
(***************************************************************************)
EXTENDS SimpleBus

VARIABLES
  stf,   \* held: the byte that waits behind its ESCAP, with its lst flag
  dst    \* held: the register dat with its valid flag
-----------------------------------------------------------------------------
(* ByteStuffer: turns the beats of a frame into bytes.                     *)

StfInit == stf = [state |-> "FWD", held |-> <<>>]

StfTypeOK == stf \in [state : {"FWD", "STUFF", "LST"}, held : Bus(Beat)]

StfRdyInp(rdyOut) == stf.state = "FWD" /\ rdyOut

StfOut(inp) ==
  CASE stf.state = "STUFF" -> <<stf.held[1].dat>>
    [] stf.state = "LST"   -> <<COMMA>>
    [] stf.state = "FWD"   -> IF inp = <<>> THEN <<>>
                              ELSE IF Special(inp[1].dat) THEN <<ESCAP>>
                              ELSE <<inp[1].dat>>

EndOfFrame(lst) == IF lst THEN "LST" ELSE "FWD"

StfEdge(inp, rdyOut) ==
  IF ~rdyOut THEN UNCHANGED stf
  ELSE stf' =
    CASE stf.state = "STUFF" -> [state |-> EndOfFrame(stf.held[1].lst), held |-> <<>>]
      [] stf.state = "LST"   -> [stf EXCEPT !.state = "FWD"]
      [] stf.state = "FWD" /\ inp = <<>> -> stf
      [] stf.state = "FWD" /\ inp # <<>> ->
           IF Special(inp[1].dat) THEN [state |-> "STUFF", held |-> inp]
           ELSE [stf EXCEPT !.state = EndOfFrame(inp[1].lst)]
-----------------------------------------------------------------------------
(* ByteDeStuffer: turns bytes into the beats of frames.                    *)
(*                                                                         *)
(* Whether a byte is the last one of its frame is only known when the next *)
(* one is there: the byte is held, and leaves together with its successor  *)
(* being consumed.  An ESCAP is no successor.  After a reset two bytes     *)
(* that are not ESCAP, the second a COMMA, synchronize.  (rstOut and       *)
(* synOut are connected to nothing.)                                       *)

DstInit == dst = [state |-> "INIT", held |-> <<>>]

DstTypeOK == dst \in [state : {"INIT", "SYNC", "RUN", "ESC"}, held : Bus(Byte)]

DstRdyInp(rdyOut) == dst.state \in {"INIT", "SYNC"} \/ dst.held = <<>> \/ rdyOut

\* inp: the byte that is offered, if any.
DstOut(inp, rdyOut) ==
  IF dst.held = <<>> \/ inp = <<>> \/ (dst.state = "RUN" /\ inp[1] = ESCAP) THEN <<>>
  ELSE <<[dat |-> dst.held[1],
          lst |-> dst.state = "RUN" /\ inp[1] = COMMA /\ rdyOut]>>

DstNext(b) ==
  CASE dst.state = "INIT" -> IF b # ESCAP THEN [dst EXCEPT !.state = "SYNC"] ELSE dst
    [] dst.state = "SYNC" -> IF b = ESCAP THEN [dst EXCEPT !.state = "INIT"]
                             ELSE IF b = COMMA THEN [dst EXCEPT !.state = "RUN"]
                             ELSE dst
    [] dst.state = "RUN"  -> IF b = COMMA THEN [dst EXCEPT !.held = <<>>]
                             ELSE IF b = ESCAP THEN [dst EXCEPT !.state = "ESC"]
                             ELSE [dst EXCEPT !.held = <<b>>]
    [] dst.state = "ESC"  -> [state |-> "RUN", held |-> <<b>>]

DstEdge(inp, rdyOut) ==
  IF inp # <<>> /\ DstRdyInp(rdyOut) THEN dst' = DstNext(inp[1]) ELSE UNCHANGED dst
=============================================================================
