\* A line is deleted while a snapshot is being accepted.
CONSTANTS
  Layer = {tunnel, ims}
  Value = {up}
  Generation = {g1}
  None = None
  TTL = 1
  MaxTime = 0
  MaxSeq = 1
  MaxSent = 1
  MaxUnderWay = 1
SYMMETRY FactSymmetry
SPECIFICATION FSpec
INVARIANT
  PurgedLineIsGone
