\* Two owners, a quota of one record, a capacity of two, and a blob more than fits.
CONSTANTS
  Identity = {i1, i2}
  Bid = {b1, b2, b3}
  MaxSize = 1
  IdentityCap = 1
  TotalCap = 2
  Handler = {h1, h2}
  Sweeper = Sweeper
  TTL = {1}
  MaxNow = 1
  MaxPuts = 3
  MaxFaults = 1
SPECIFICATION Spec
SYMMETRY Symmetry
INVARIANTS TypeOK Mirrors Overshoot
PROPERTIES KeepsContract
CONSTRAINT Bounded
CHECK_DEADLOCK FALSE
