\* Two devices; once, a file cannot be read or is too large to be synced.
CONSTANTS
  Device = {d1, d2}
  Name = {n1}
  Content = {c1}
  None = None
  Overlap = FALSE
  EditsWhileSyncing = FALSE
  PruneAge = 3
  MaxEdits = 2
  MaxFaults = 1
  MaxExpired = 0
  MaxCopies = 1
SPECIFICATION Spec
PROPERTY TombstonesAreDeletions
