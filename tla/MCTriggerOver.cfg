SPECIFICATION TrgSpec
CONSTANTS
  MemDepth = 3
  AddrSpace = 4
  LoWord = 4
  Parms <- MCParms
  Samples <- MCSamples
  LvlMin <- MCLvlMin
  LvlMax = 1
  Decimated = {TRUE, FALSE}
  TickPeriod = 2
  AUTO_TIME_STOP = 2
INVARIANTS OverRangeOfMemory
