SPECIFICATION FairSpec
CONSTANTS
  NumBytes = 4
  COMMA = 1
  ESCAP = 2
  CMD_ERROR = 3
  Cmd <- MCCmd
  MASK_LEN = 2
  MEM_DEPTH_G = 3
  Requests <- MCRequests
  StallAtAck = TRUE
PROPERTIES AnswerEnds
