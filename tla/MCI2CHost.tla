------------------------------- MODULE MCI2CHost -------------------------------
EXTENDS I2CHost, TLC
MCMemory == (TCA :> (1 :> 60 @@ 3 :> 255)) @@ (DAC :> (0 :> 8 @@ 1 :> 7 @@ 2 :> 9 @@ 3 :> 6))
              @@ (AT24 :> [a \in 0 .. 4 |-> 16 + a])
O(k, sla, reg, data, len) == [NoOp EXCEPT !.kind = k, !.sla = sla, !.reg = reg, !.data = data, !.len = len]
MCOperations ==
  {O("write", TCA, 3, <<0>>, 0), O("read", TCA, 1, <<>>, 1),
   [O("setBit", TCA, 1, <<>>, 1) EXCEPT !.bit = 2, !.on = 0],
   O("dacSet", DAC, 1, <<3, 21>>, 0), O("dacGet", DAC, 1, <<>>, 2),
   O("eeWrite", AT24, 1, <<7, 8>>, 0), O("eeRead", AT24, 0, <<>>, 3)}
MCI2cSpec == I2cInit /\ [][I2cNext]_i2cVars
===============================================================================
