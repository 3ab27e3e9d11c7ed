\* Two devices and one file, three writes, one fault at any point of a sync; syncs
\* follow each other.
CONSTANTS
  Device = {d1, d2}
  Name = {n1}
  Content = {c1, c2, c3}
  None = None
  Overlap = FALSE
  EditsWhileSyncing = FALSE
  PruneAge = 3
  MaxEdits = 3
  MaxFaults = 1
  MaxExpired = 1
  MaxCopies = 2
SPECIFICATION Spec
SYMMETRY Symmetry
INVARIANTS TypeOK ManifestBacked NewestSurvives
PROPERTIES DropsOnlyOrphans KeepsEdits DeletionsPropagate
