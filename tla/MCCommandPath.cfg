SPECIFICATION FairSpec
CONSTANTS
  NumBytes = 8
  COMMA = 4
  ESCAP = 5
  CMD_ERROR = 6
  Cmd <- MCCmd
  VERSION <- MCVERSION
  Rdat <- MCRdat
  BadAddr <- MCBadAddr
  Requests <- MCRequests
  LinkDepth = 2
  MaxFaults = 1
INVARIANTS ReplyIsMine
PROPERTIES EachFrameAnswered PipeIsQueue TransferEnds
