SPECIFICATION Spec
CONSTANTS
  Clients = {"C", "Python"}
  memSize = 2
  Wrap = 8
  MaxCic0 = 2
  MaxCic1 = 2
  MaxShift = 1
  InfScale = 1
  Masks <- MCMasks
  Values <- MCValues
  Faults = {"lost", "noreply"}
  MaxFaults = 2
INVARIANTS Confined PyInSync
PROPERTIES RetryWorks
