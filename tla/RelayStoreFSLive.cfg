\* One owner, one handler, two blobs of one byte; a crash at any point.
CONSTANTS
  Identity = {i1}
  Bid = {b1, b2}
  MaxSize = 1
  IdentityCap = 2
  TotalCap = 2
  Handler = {h1}
  Sweeper = Sweeper
  Free = Free
  TTL = {1}
  MaxNow = 2
  MaxCrashes = 1
SPECIFICATION FairSpec
PROPERTY Reclaimed
