CONSTANTS
  Path = {a, b, c}
  Initial = {a, b}
  None = None
  Task = {t1, t2}
  Overwrites = TRUE
  MaxVersions = 2
  MaxEdits = 2
  MaxOps = 4
  MaxCrashes = 1
SYMMETRY Symmetry
CONSTRAINT Bounded
SPECIFICATION Spec
INVARIANTS TypeOK NoForeignText EditsKept TrashListed
CHECK_DEADLOCK FALSE
