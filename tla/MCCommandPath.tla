----------------------------- MODULE MCCommandPath -----------------------------
(* A small instance of CommandPath: eight byte values.                      *)
EXTENDS CommandPath

MCCmd     == [b \in 0 .. 7 |-> CASE b = 0 -> "VERSION" [] b = 1 -> "RD8" [] b = 2 -> "WR8"
                                 [] b = 3 -> "NOSUBCMD" [] b = 7 -> "ECHO" [] OTHER -> "NONE"]
\* COMMA is 4, ESCAP is 5.
MCVERSION == <<5, 4>>
MCRdat    == [a \in 0 .. 7 |-> (a + 4) % 8]
MCBadAddr == {2}

Req(f, n) == [frame |-> f, rlen |-> n]
\* Requests that end early are what is left when a transfer is broken off.
MCRequests ==
  {Req(<<0>>, 1), Req(<<1, 1, 1>>, 3), Req(<<2, 1, 5, 6, 6>>, 1), Req(<<4, 1>>, 1), Req(<<7>>, 1), Req(<<7, 4>>, 1)}
=============================================================================
