\* Two devices sync at the same time, nothing fails.
CONSTANTS
  Device = {d1, d2}
  Name = {n1}
  Content = {c1, c2}
  None = None
  Overlap = TRUE
  EditsWhileSyncing = FALSE
  PruneAge = 3
  MaxEdits = 3
  MaxFaults = 0
  MaxExpired = 0
  MaxCopies = 1
SPECIFICATION Spec
PROPERTY DropsOnlyOrphans
