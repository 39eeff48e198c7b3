SPECIFICATION HostSpec
CONSTANTS
  Size = 32
  Page = 2
  Bits = {0, 1}
  Blocks <- MCBlocks
  Requests <- MCRequests
  OldMemory <- MCOld
  MaxRequests = 3
  MaxFaults = 1
  Double = 8
  NaN <- MCNaN
  ZeroVolts <- MCZero
  Volts <- MCVolts
  ChannelCounts <- MCCounts
  Cuts <- MCCuts
  Touched <- MCTouched
  BlockSize = 367
  OldBlocks <- MCOldBlocks
  ScopeKeys <- MCScopeKeys
  Recordings <- MCRecordings
  MaxH5Faults = 2
  Channels <- MCChannels
  Boards <- MCBoards
  Edits <- MCEdits
  NoValue = NoValue
  Zeroed = 0
  MaxSetFaults = 2
  Memory <- MCMemory
  EepromPage = 2
  Operations <- MCOperations
  MaxOps = 2
  MaxBusFaults = 1
  Configs <- MCConfigs
  BoardRequests <- MCBoardRequests
  DivRegs = 2
  FbRegs = 2
  FB = 3
  IdivMax = 5
  FdivMax = 6
  FdivMaxCasc = 4
  DacMax = 15
  DacMax8 = 7
  MaxBoardOps = 4
  MaxBoardFaults = 1
INVARIANTS SuccessIsWritten SmoothSucceeds UnitDataReadBack
  ReadBack FileOrNothing Restored AsAsked
  ReadyMeansConfigured DacKept ClockAsAsked
PROPERTIES OthersKept OnlyAsked
CHECK_DEADLOCK FALSE
