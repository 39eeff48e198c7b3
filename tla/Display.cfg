SPECIFICATION FairSpec
CONSTANTS
  Bufs = {b1, b2, b3}
  Writers = {w1}
  MaxAge = 2
  NoBuf = NoBuf
INVARIANTS NotReused NoLeak HdrOfData
PROPERTIES NewestFirst GoesOn
