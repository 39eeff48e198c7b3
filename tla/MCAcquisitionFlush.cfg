SPECIFICATION Spec
CONSTANTS
  MemDepth = 4
  AddrSpace = 4
  LoWord = 4
  Parms <- MCFewParms
  NBytes = 2
  Cmds = {"READ", "FLUSH"}
  Decimated = {TRUE}
  WrPerRd = 3
  RdPerWr = 2
INVARIANTS WindowStored
