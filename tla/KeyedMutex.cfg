\* Three calls, each with any non-empty subset of three paths.
CONSTANTS
  Op = {o1, o2, o3}
  Key = {k1, k2, k3}
  None = None
SPECIFICATION FairSpec
INVARIANTS TypeOK Serialised NoStaleTail
PROPERTIES EveryCallSettles ImplementsLock
CHECK_DEADLOCK FALSE
