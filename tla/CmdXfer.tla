------------------------------- MODULE CmdXfer -------------------------------
(***************************************************************************)
(* The host's side of the byte link, sw/cmdXfer.c: fifoOpen sends four     *)
(* COMMAs, fifoXferFrameVec sends a request and reads the reply while it   *)
(* still sends.  One transfer is under way at a time.                      *)
(*                                                                         *)
(* The link (driver, USB chip and its FIFOs) keeps the bytes in order and  *)
(* holds at most LinkDepth of them in each direction.                      *)
(***************************************************************************)
EXTENDS SimpleBus

CONSTANTS
  Requests,    (* [frame: the command byte and what follows; rlen: room]    *)
  LinkDepth,
  MaxFaults    (* bound: timeouts and crashes of the host                   *)

ASSUME HostAssumption ==
  /\ \A r \in Requests : r.frame \in Seq(Byte) /\ r.frame # <<>> /\ r.rlen \in Nat
  /\ LinkDepth \in Nat \ {0} /\ MaxFaults \in Nat

VARIABLES
  host,               \* tx: bytes still to be written; cmd: the command read back
  toDev, toHost,      \* the link
  faults

link == <<toDev, toHost>>

NoRequest == [frame |-> <<>>, rlen |-> 0]
Closed    == [state |-> "CLOSED", req |-> NoRequest, tx |-> <<>>, rx |-> "RX",
              cmd |-> <<>>, got |-> <<>>]

HostInit == host = Closed /\ toDev = <<>> /\ toHost = <<>> /\ faults = 0

\* stuff(): each byte, or two for one that is special.
StuffedNoEscape(f) == f                        \* mutant: an ESCAP is not quoted
Stuffed(f) ==
  LET from[i \in 0 .. Len(f)] ==
        IF i = 0 THEN <<>>
        ELSE from[i - 1] \o (IF Special(f[i]) THEN <<ESCAP, f[i]>> ELSE <<f[i]>>)
  IN  from[Len(f)]

\* TCSAFLUSH discards what has been received, not what is still on its way.
Open ==
  /\ host.state = "CLOSED"
  /\ host' = [Closed EXCEPT !.state = "OPEN", !.tx = <<COMMA, COMMA, COMMA, COMMA>>]
  /\ \E n \in 0 .. Len(toHost) : toHost' = SubSeq(toHost, n + 1, Len(toHost))
  /\ UNCHANGED <<toDev, faults>>

Xfer(r) ==
  /\ host.state = "IDLE"
  /\ host' = [Closed EXCEPT !.state = "BUSY", !.req = r, !.tx = Stuffed(r.frame) \o <<COMMA>>]
  /\ UNCHANGED <<link, faults>>

Write ==
  /\ host.tx # <<>> /\ Len(toDev) < LinkDepth
  /\ toDev' = Append(toDev, Head(host.tx))
  /\ host' = [host EXCEPT !.tx = Tail(@),
                          !.state = IF @ = "OPEN" /\ Len(host.tx) = 1 THEN "IDLE" ELSE @]
  /\ UNCHANGED <<toHost, faults>>

\* One byte of the reply; a reply longer than the buffer is truncated.
RxByte(h, b) ==
  IF h.rx # "ESC" /\ b = COMMA THEN [h EXCEPT !.rx = "DONE"]
  ELSE IF h.rx # "ESC" /\ b = ESCAP THEN [h EXCEPT !.rx = "ESC"]
  ELSE IF h.cmd = <<>> THEN [h EXCEPT !.rx = "RX", !.cmd = <<b>>]
  ELSE [h EXCEPT !.rx = "RX", !.got = IF Len(@) < h.req.rlen THEN Append(@, b) ELSE @]

\* A read of n bytes: those behind a COMMA are dropped with a warning.
Read(n) ==
  LET rx[i \in 0 .. n] ==
        IF i = 0 THEN host
        ELSE IF rx[i - 1].rx = "DONE" THEN rx[i - 1]
        ELSE RxByte(rx[i - 1], toHost[i])
  IN  /\ host.state = "BUSY" /\ host.rx # "DONE"
      /\ n \in 1 .. Len(toHost)
      /\ host' = rx[n]
      /\ toHost' = SubSeq(toHost, n + 1, Len(toHost))
      /\ UNCHANGED <<toDev, faults>>

Complete == host.state = "BUSY" /\ host.rx = "DONE" /\ host.tx = <<>>

Return ==
  /\ Complete
  /\ host' = [Closed EXCEPT !.state = "IDLE"]
  /\ UNCHANGED <<link, faults>>

\* Nothing could be written or read for a second.
Timeout ==
  /\ host.state = "BUSY" /\ ~Complete /\ faults < MaxFaults
  /\ host.rx = "DONE" \/ toHost = <<>>
  /\ host.tx = <<>> \/ Len(toDev) = LinkDepth
  /\ host' = [Closed EXCEPT !.state = "IDLE"]
  /\ faults' = faults + 1
  /\ UNCHANGED link

\* The program ends, wherever it is.
Crash ==
  /\ host.state # "CLOSED" /\ faults < MaxFaults
  /\ host' = Closed
  /\ faults' = faults + 1
  /\ UNCHANGED link
=============================================================================
