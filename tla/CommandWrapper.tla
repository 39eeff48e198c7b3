---------------------------- MODULE CommandWrapper ----------------------------
(***************************************************************************)
(* hdl/CommandWrapper.vhd: destuffer, pipeline stage, multiplexer with its *)
(* handlers, pipeline stage, stuffer.  All of them in one clock domain.    *)
(* Of the handlers there are CommandVersion, one CommandReg (as in         *)
(* CommandGenRegs), and of those that hdl/ScopeCommandWrapper.vhd adds     *)
(* CommandBitBang in loopback.                                             *)
(***************************************************************************)
EXTENDS ByteStuffing, CommandMux, CommandHandlers

CONSTANTS
  Rdat,       (* what every register reads                                 *)
  BadAddr     (* the addresses where the registers flag an error           *)

\* (The parameter command has a composition of its own, AcqParmPath.)
ASSUME RegsAssumption ==
  /\ Rdat \in [Byte -> Byte] /\ BadAddr \subseteq Byte
  /\ \A b \in Byte : Cmd[b] # "ACQ_PARMS"

VARIABLES ibBuf, ibOvfl, obBuf, obOvfl     \* U_PIPE_IB, U_PIPE_OB

IB == INSTANCE SimpleBusPipeStage WITH buf <- ibBuf, ovfl <- ibOvfl, Beats <- Beat
OB == INSTANCE SimpleBusPipeStage WITH buf <- obBuf, ovfl <- obOvfl, Beats <- Beat

device == <<dst, ibBuf, ibOvfl, mux, ver, bb, reg, obBuf, obOvfl, stf>>

WrapperInit == DstInit /\ IB!PipeInit /\ MuxInit /\ VerInit /\ BbInit /\ RegInit /\ OB!PipeInit /\ StfInit

WrapperTypeOK ==
  /\ DstTypeOK /\ MuxTypeOK /\ VerTypeOK /\ BbTypeOK /\ RegTypeOK /\ StfTypeOK
  /\ {ibBuf, ibOvfl, obBuf, obOvfl} \subseteq Bus(Beat)

\* The ports of the wrapper.
datOb  == StfOut(obBuf)
rdyIb  == DstRdyInp(IB!rdyIb)

\* What the selected handler offers, and whether it is ready.
HandlerOb ==
  CASE sel = "VERSION" -> VerOb(ToHandler(sel, ibBuf))
    [] sel = "BITBANG" -> BbOb(ToHandler(sel, ibBuf))
    [] OTHER           -> RegOb
HandlerRdyIb(rdy) ==
  CASE sel = "VERSION" -> VerRdyIb(HandlerRdyOb(sel, OB!rdyIb))
    [] sel = "BITBANG" -> BbRdyIb(HandlerRdyOb(sel, OB!rdyIb), rdy)
    [] OTHER           -> RegRdyIb(rdy)

RegErr == reg.addr \in BadAddr

\* An edge of the clock: inp is the byte that is offered, rdyOb whether
\* a byte is taken, rdy whether the registers (or the bit-bang
\* engine) are ready.
WrapperEdge(inp, rdyOb, rdy) ==
  /\ DstEdge(inp, IB!rdyIb)
  /\ IB!Edge(DstOut(inp, IB!rdyIb), muxRdyIb(HandlerRdyIb(rdy)))
  /\ MuxEdge(ibBuf, HandlerRdyIb(rdy), HandlerOb, OB!rdyIb)
  /\ VerEdge(ToHandler("VERSION", ibBuf), HandlerRdyOb("VERSION", OB!rdyIb))
  /\ BbEdge(ToHandler("BITBANG", ibBuf), HandlerRdyOb("BITBANG", OB!rdyIb), rdy)
  /\ RegEdge(ToHandler("REG", ibBuf), HandlerRdyOb("REG", OB!rdyIb), rdy, Rdat[reg.addr], RegErr)
  /\ OB!Edge(muxOb(HandlerOb), StfRdyInp(rdyOb))
  /\ StfEdge(obBuf, rdyOb)
=============================================================================
