CONSTANTS
  Memory <- MCMemory
  EepromPage = 2
  Operations <- MCOperations
  MaxOps = 2
  MaxBusFaults = 1
SPECIFICATION MCI2cSpec
INVARIANT ReadsTheRegister
CHECK_DEADLOCK FALSE
