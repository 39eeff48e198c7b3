SPECIFICATION FairSpec
CONSTANTS
  MemDepth = 3
  AddrSpace = 4
  LoWord = 2
  Parms <- MCFewParms
  NBytes = 2
  Cmds = {"READ", "FLUSH", "MSIZE", "SFREQ"}
  Decimated = {TRUE}
  WrPerRd = 2
  RdPerWr = 2
INVARIANTS WindowIntact ReadNotEmpty HaltedWhileReading
PROPERTIES ReleaseBeforeRestart Recycles
