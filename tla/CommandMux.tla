------------------------------ MODULE CommandMux ------------------------------
(***************************************************************************)
(* hdl/CommandMux.vhd: hands a frame to the handler its first byte selects *)
(* and that handler's reply back; nobody's command is answered with        *)
(* CMD_ERROR.                                                              *)
(*                                                                         *)
(* Request and reply overlap: a handler may have replied before the last   *)
(* beat of the request passed (obLstSeen), or reply long after (WAI).      *)
(*                                                                         *)
(* The input abrt is left open (its default is '0') wherever the           *)
(* multiplexer is synthesized; only the simulation drives it.              *)
(***************************************************************************)
EXTENDS SimpleBus

VARIABLE mux

MuxInit == mux = [state |-> "IDLE", cmd |-> [dat |-> 0, lst |-> FALSE], obLstSeen |-> FALSE]

MuxTypeOK == mux \in [state : {"IDLE", "CMD", "FWD", "WAI", "ERR"}, cmd : Beat,
                      obLstSeen : BOOLEAN]

\* Which handler a command byte selects.
Handler(b) == CASE Cmd[b] = "VERSION" -> "VERSION"
                [] Cmd[b] = "ECHO"    -> "BITBANG"
                [] Cmd[b] \in {"ACQ_PARMS", "NONE"} -> Cmd[b]
                [] OTHER              -> "REG"
sel   == Handler(mux.cmd.dat)
selOK == sel # "NONE"

\* busMuxedIb and rdyMuxedOb of handler h; whoever is not selected is drained.
ToHandler(h, busIb) ==
  IF h # sel THEN <<>>
  ELSE IF mux.state = "CMD" THEN <<mux.cmd>>
  ELSE IF mux.state = "FWD" THEN busIb
  ELSE <<>>

Replying == mux.state \in {"CMD", "WAI"} \/ (mux.state = "FWD" /\ ~mux.obLstSeen)

HandlerRdyOb(h, rdyOb) == h = sel /\ Replying => rdyOb

\* hOb: what the selected handler offers.
muxOb(hOb) == IF selOK /\ Replying THEN hOb
              ELSE IF mux.state = "ERR" /\ ~mux.obLstSeen
              THEN <<[dat |-> CMD_ERROR, lst |-> TRUE]>>
              ELSE <<>>

muxRdyIb(hRdy) ==
  \/ mux.state = "IDLE"
  \/ mux.state = "FWD" /\ hRdy
  \/ mux.state = "ERR" /\ ~mux.cmd.lst

LstSeen(hOb, rdyOb) == rdyOb /\ hOb # <<>> /\ hOb[1].lst

IdleEdge(busIb) ==
  /\ mux.state = "IDLE"
  /\ mux' = IF busIb = <<>> THEN [mux EXCEPT !.obLstSeen = FALSE]
            ELSE [state |-> "CMD", cmd |-> busIb[1], obLstSeen |-> FALSE]

CmdEdgeForgets(hRdy, hOb, rdyOb) ==             \* mutant: the reply's end is not noted
  LET ns == IF ~mux.cmd.lst THEN "FWD" ELSE "WAI"
  IN  /\ mux.state = "CMD"
      /\ mux' = [mux EXCEPT !.state = IF ~selOK THEN "ERR" ELSE IF hRdy THEN ns ELSE @]
CmdEdge(hRdy, hOb, rdyOb) ==
  LET seen == mux.obLstSeen \/ (selOK /\ LstSeen(hOb, rdyOb))
      ns   == IF ~mux.cmd.lst THEN "FWD" ELSE IF seen THEN "IDLE" ELSE "WAI"
  IN  /\ mux.state = "CMD"
      /\ mux' = [mux EXCEPT !.obLstSeen = seen,
                            !.state = IF ~selOK THEN "ERR" ELSE IF hRdy THEN ns ELSE @]

FwdEdge(busIb, hRdy, hOb, rdyOb) ==
  LET seen == mux.obLstSeen \/ LstSeen(hOb, rdyOb)
      last == hRdy /\ busIb # <<>> /\ busIb[1].lst
  IN  /\ mux.state = "FWD"
      /\ mux' = [mux EXCEPT !.obLstSeen = seen,
                            !.state = IF ~last THEN @ ELSE IF seen THEN "IDLE" ELSE "WAI"]

WaiEdge(hOb, rdyOb) ==
  /\ mux.state = "WAI"
  /\ mux' = IF LstSeen(hOb, rdyOb) THEN [mux EXCEPT !.state = "IDLE"] ELSE mux

\* "abuse 'lst' flag in cmd": it tells that the request was drained.
ErrEdge(busIb, rdyOb) ==
  /\ mux.state = "ERR"
  /\ mux' = [mux EXCEPT
       !.obLstSeen = @ \/ rdyOb,
       !.cmd.lst   = @ \/ (busIb # <<>> /\ busIb[1].lst),
       !.state     = IF mux.cmd.lst /\ mux.obLstSeen THEN "IDLE" ELSE @]

MuxEdge(busIb, hRdy, hOb, rdyOb) ==
  \/ IdleEdge(busIb)
  \/ CmdEdge(hRdy, hOb, rdyOb)
  \/ FwdEdge(busIb, hRdy, hOb, rdyOb)
  \/ WaiEdge(hOb, rdyOb)
  \/ ErrEdge(busIb, rdyOb)
=============================================================================
