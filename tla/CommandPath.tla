------------------------------ MODULE CommandPath ------------------------------
(***************************************************************************)
(* Commands from the host's transfer (CmdXfer) through the command         *)
(* interface of the firmware (CommandWrapper) and back.                    *)
(*                                                                         *)
(* History variables decode both directions of the link by the rules of    *)
(* the protocol alone: frames end with a COMMA, an ESCAP quotes, empty     *)
(* frames mean nothing.                                                    *)
(***************************************************************************)
EXTENDS CommandWrapper, CmdXfer

VARIABLES
  due,         \* history: the frames sent and not answered, the last one is
               \* still being sent
  escSent,     \* history: the last byte sent was a quoting ESCAP
  answer,      \* history: what came of the answer to the first one
  escRcvd,     \* history: its last byte was a quoting ESCAP
  early,       \* history: the first one was answered before it was complete
  written,     \* history: the registers written since the last answer
  disturbed    \* history: a transfer was cut short

history == <<due, escSent, answer, escRcvd, early, written, disturbed>>
vars    == <<device, host, link, faults, history>>

Init ==
  /\ WrapperInit /\ HostInit
  /\ due = <<<<>>>> /\ escSent = FALSE
  /\ answer = <<>> /\ escRcvd = FALSE /\ early = FALSE /\ written = <<>>
  /\ disturbed = FALSE
-----------------------------------------------------------------------------
(* What a frame has to be answered with.                                   *)

Addr(a, i) == (a + i) % NumBytes

\* How many of n registers from a on can be accessed.
Good(a, n) ==
  CHOOSE k \in 0 .. n : /\ \A i \in 0 .. k - 1 : Addr(a, i) \notin BadAddr
                        /\ k < n => Addr(a, k) \in BadAddr

Status(good) == IF good THEN <<OK>> ELSE <<ALL_ONES>>

\* "Incomplete requests also result in an error reply - without any data."
Reply(f) ==
  LET k == Good(f[2], IF Cmd[f[1]] = "RD8" THEN f[3] + 1 ELSE Len(f) - 2)
  IN  CASE Cmd[f[1]] = "NONE"    -> <<CMD_ERROR>>
        [] Cmd[f[1]] = "VERSION" -> <<f[1]>> \o VERSION
        [] Cmd[f[1]] = "ECHO"    -> f
        [] Cmd[f[1]] = "RD8" /\ Len(f) = 3 ->
             <<f[1]>> \o [i \in 1 .. k |-> Rdat[Addr(f[2], i - 1)]] \o Status(k = f[3] + 1)
        [] Cmd[f[1]] = "WR8" /\ Len(f) > 2 -> <<f[1]>> \o Status(k = Len(f) - 2)
        [] OTHER -> <<f[1], ALL_ONES>>

Writes(f) ==
  IF Len(f) > 2 /\ Cmd[f[1]] = "WR8"
  THEN [i \in 1 .. Good(f[2], Len(f) - 2) |-> <<Addr(f[2], i - 1), f[i + 2]>>]
  ELSE <<>>
-----------------------------------------------------------------------------
(* The history.                                                            *)

\* The frames that are due after byte b was sent.
Cur == Len(due)
Sent(b) ==
  /\ escSent' = (~escSent /\ b = ESCAP)
  /\ IF ~escSent /\ b = ESCAP THEN UNCHANGED <<due, early>>
     ELSE IF escSent \/ b # COMMA
     THEN due' = [due EXCEPT ![Cur] = Append(@, b)] /\ UNCHANGED early
     ELSE IF due[Cur] = <<>> THEN UNCHANGED <<due, early>>
     ELSE /\ due' = IF early THEN <<<<>>>> ELSE Append(due, <<>>)
          /\ early' = FALSE

FrameEnd(out) == out = <<COMMA>> /\ ~escRcvd

\* The device put out (at most one byte) on the link and wrote wr (at most one
\* register).  Writes for a later frame may come before the end of an answer.
Answered(out, wr) ==
  LET log == written \o wr
  IN  IF out = <<>>
      THEN written' = log /\ UNCHANGED <<due, answer, escRcvd, early>>
      ELSE IF FrameEnd(out)
      THEN /\ answer' = <<>> /\ escRcvd' = FALSE
           /\ written' = SubSeq(log, Len(Writes(due[1])) + 1, Len(log))
           /\ due' = IF Len(due) > 1 THEN Tail(due) ELSE due
           /\ early' = (Len(due) = 1)
      ELSE /\ escRcvd' = (~escRcvd /\ out = <<ESCAP>>)
           /\ answer' = IF escRcvd' THEN answer ELSE answer \o out
           /\ written' = log
           /\ UNCHANGED <<due, early>>

\* Nothing is under way in the device, and no reply on the link.
Quiet(replies) ==
  due = <<<<>>>> /\ ~escSent /\ answer = <<>> /\ ~escRcvd /\ replies = <<>>
-----------------------------------------------------------------------------
\* An edge of the device's clock; rdy: the registers are ready.
Clk(rdy) ==
  LET inp    == IF toDev = <<>> THEN <<>> ELSE <<Head(toDev)>>
      rdyOut == Len(toHost) < LinkDepth
      out    == IF rdyOut THEN datOb ELSE <<>>
      toReg  == ToHandler("REG", ibBuf)
      wr     == IF RegWrite(toReg) /\ rdy /\ ~RegErr THEN <<<<reg.addr, toReg[1].dat>>>> ELSE <<>>
  IN  /\ WrapperEdge(inp, rdyOut, rdy)
      /\ toDev' = IF inp # <<>> /\ rdyIb THEN Tail(toDev) ELSE toDev
      /\ toHost' = toHost \o out
      /\ Answered(out, wr)
      /\ UNCHANGED <<host, faults, escSent, disturbed>>

NotSent == UNCHANGED <<due, escSent, answer, escRcvd, early, written>>

HostOpen    == Open /\ NotSent /\ disturbed' = ~Quiet(toHost') /\ UNCHANGED device
HostXfer    == \E r \in Requests : Xfer(r) /\ NotSent /\ UNCHANGED <<device, disturbed>>
HostWrite   == /\ Write /\ Sent(Head(host.tx))
               /\ UNCHANGED <<device, answer, escRcvd, written, disturbed>>
HostRead    == \E n \in 1 .. LinkDepth : Read(n) /\ NotSent /\ UNCHANGED <<device, disturbed>>
HostReturn  == Return /\ NotSent /\ UNCHANGED <<device, disturbed>>
HostTimeout == Timeout /\ NotSent /\ disturbed' = TRUE /\ UNCHANGED device
HostCrash   == Crash /\ NotSent /\ UNCHANGED <<device, disturbed>>

Next ==
  \/ \E rdy \in BOOLEAN : Clk(rdy)
  \/ HostOpen \/ HostXfer \/ HostWrite \/ HostRead \/ HostReturn
  \/ HostTimeout \/ HostCrash

Spec == Init /\ [][Next]_vars
-----------------------------------------------------------------------------
(* Properties.                                                             *)

\* Type correctness.
TypeOK ==
  /\ WrapperTypeOK
  /\ host.state \in {"CLOSED", "OPEN", "IDLE", "BUSY"} /\ host.rx \in {"RX", "ESC", "DONE"}
  /\ host.tx \in Seq(Byte) /\ host.got \in Seq(Byte) /\ host.cmd \in Bus(Byte)
  /\ Len(toDev) <= LinkDepth /\ Len(toHost) <= LinkDepth
  /\ due \in Seq(Seq(Byte)) /\ due # <<>> /\ answer \in Seq(Byte)

\* Every frame that was sent is answered once, in order, with exactly the reply
\* its command calls for, and has written exactly the registers it had to;
\* only the error reply may come before the frame is complete.  This holds
\* whatever the host does to the link: cut off frames are frames.
EachFrameAnswered ==
  [][Len(toHost') > Len(toHost) /\ FrameEnd(<<toHost'[Len(toHost')]>>) =>
       /\ due[1] # <<>> /\ ~early
       /\ answer = Reply(due[1])
       /\ SubSeq(written, 1, Len(Writes(due[1]))) = Writes(due[1])
       /\ Len(due) = 1 => Cmd[due[1][1]] = "NONE"]_vars

\* A transfer returns the reply to its own request, cut to the buffer, as
\* long as none was cut short since the link was opened.  Opening it while the
\* device still has something to answer does not synchronize ("syncing
\* commas"), opening it when the device is quiet does.
ReplyIsMine ==
  Complete /\ ~disturbed =>
    LET rep == Reply(host.req.frame)
    IN  /\ host.cmd = <<rep[1]>>
        /\ host.got = SubSeq(rep, 2, IF Len(rep) <= host.req.rlen THEN Len(rep)
                                     ELSE host.req.rlen + 1)

\* Both pipeline stages are queues for what passes them.
PipeIsQueue == IB!IsQueue /\ OB!IsQueue
-----------------------------------------------------------------------------
(* Liveness.  The clock runs, the registers are ready now and then, the    *)
(* host goes on.                                                           *)

FairSpec ==
  /\ Spec
  /\ WF_vars(Clk(TRUE)) /\ WF_vars(HostWrite) /\ WF_vars(HostRead) /\ WF_vars(HostReturn)

\* A transfer in step with the device ends, and needs no timeout for it: host
\* and device never wait for each other, although both send before they have
\* read everything.
TransferEnds == host.state = "BUSY" /\ ~disturbed ~> host.state # "BUSY"
=============================================================================
