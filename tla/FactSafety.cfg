\* Two processes take turns; facts expire; reports overtake each other.
CONSTANTS
  Layer = {tunnel, ims}
  Value = {up, down}
  Generation = {g1, g2}
  None = None
  TTL = 1
  MaxTime = 2
  MaxSeq = 2
  MaxSent = 1
  MaxUnderWay = 2
SYMMETRY FactSymmetry
SPECIFICATION FSpec
INVARIANTS
  FTypeOK
  
  FreshnessKept
PROPERTY
  ImplementsRegister
