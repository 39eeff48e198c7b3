SPECIFICATION Spec
CONSTANTS
  Clients = {"C"}
  memSize = 2
  Wrap = 8
  MaxCic0 = 2
  MaxCic1 = 2
  MaxShift = 1
  InfScale = 1
  Masks <- MCMasks
  Values <- MCValues
  Faults = {}
  MaxFaults = 0
INVARIANTS NptsKnown
