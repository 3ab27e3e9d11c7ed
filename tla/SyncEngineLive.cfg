\* Users also write during syncs, tombstones are pruned at once, and a sync fails
\* once: the devices agree in the end.
CONSTANTS
  Device = {d1, d2}
  Name = {n1}
  Content = {c1, c2}
  None = None
  Overlap = FALSE
  EditsWhileSyncing = TRUE
  PruneAge = 0
  MaxEdits = 3
  MaxFaults = 1
  MaxExpired = 0
  MaxCopies = 3
SPECIFICATION FairSpec
PROPERTY Converges
