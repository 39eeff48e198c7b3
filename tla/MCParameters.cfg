SPECIFICATION ParametersSpec
CONSTANTS
  NumBytes = 4
  COMMA = 1
  ESCAP = 2
  CMD_ERROR = 3
  Cmd <- MCCmd
  MASK_LEN = 2
  MEM_DEPTH_G = 3
  Requests <- MCRequests
  StallAtAck = FALSE
  MemDepth = 3
  AddrSpace = 4
  LoWord = 4
  Parms <- MCParms
  Samples <- MCSamples
  LvlMin <- MCLvlMin
  LvlMax = 1
  Decimated = {TRUE, FALSE}
  TickPeriod = 2
  AUTO_TIME_STOP = 2
INVARIANTS HeldWhileTaken RecorderValid TriggerIsEdge OverRangeExact
PROPERTIES AnsweredWhenApplied AnswerEnds AutoTriggers
