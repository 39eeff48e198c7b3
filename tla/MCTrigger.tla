------------------------------- MODULE MCTrigger -------------------------------
(* Small instances of Trigger.                                              *)
EXTENDS Trigger

Parm(src, rising, lvl, hyst, nprets, nsamples, autoTimeMs) ==
  [src |-> src, rising |-> rising, lvl |-> lvl, hyst |-> hyst, nprets |-> nprets,
   nsamples |-> nsamples, autoTimeMs |-> autoTimeMs]

MCLvlMin == -2

\* Few and many samples before the trigger, both channels and the external
\* trigger, both edges; a level with hysteresis inside the range, a sum of both
\* that is saturated and one that wraps before; the timer at once, after a
\* millisecond and never.
MCParms == {Parm("CHA", TRUE, 0, 1, 1, 1, AUTO_TIME_STOP), Parm("CHB", FALSE, 1, 3, 1, 1, 1),
            Parm("CHA", FALSE, 0, 3, 0, 0, 0), Parm("EXT", TRUE, 0, 0, 2, 2, 1)}

Smpl(a, b, dor, ext) == [CHA |-> a, CHB |-> b, dor |-> dor, ext |-> ext]

\* The other channel is the complement, the external level goes with the sign,
\* and a channel is out of range at its limit.
MCSamples == {Smpl(v, 0 - v - 1, v = LvlMax, v > 0) : v \in {LvlMin, 0, LvlMax}}
=============================================================================
