SPECIFICATION FairSpec
CONSTANTS
  Data = {a}
  NoData = NoData
  Depth = 4
  bin2Gray <- MCbin2Gray
  OutReg = TRUE
  RdRst = {FALSE, TRUE}
  WrPerRd = 2
  RdPerWr = 2
INVARIANTS IInv InOrder
PROPERTIES Delivered ResetCompletes
