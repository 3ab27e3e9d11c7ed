\* One blob, two handlers: a record that expired is deleted and written again
\* between two steps of the sweep.
CONSTANTS
  Identity = {i1}
  Bid = {b1}
  MaxSize = 1
  IdentityCap = 2
  TotalCap = 2
  Handler = {h1, h2}
  Sweeper = Sweeper
  Free = Free
  TTL = {1}
  MaxNow = 2
  MaxCrashes = 1
SPECIFICATION Spec
PROPERTY OnlyExpiredReaped
