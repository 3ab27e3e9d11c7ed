\* Two owners, two blob ids each, records of one or two units; an owner may
\* store one large record or two small ones, the relay three units in all.
CONSTANTS
  Identity = {i1, i2}
  Bid = {b1, b2}
  MaxSize = 2
  IdentityCap = 2
  TotalCap = 3
  Handler = {h1, h2}
  Sweeper = Sweeper
  Free = Free
  TTL = {1}
  MaxNow = 1
  MaxCrashes = 1
SPECIFICATION Spec
SYMMETRY Symmetry
INVARIANTS TypeOK Accounted ServesLive TempsOwned
PROPERTIES ImplementsStore
