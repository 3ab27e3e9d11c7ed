CONSTANTS
  Conn = {c1, c2}
  Identity = {i1, i2}
  None = None
  SendQueue = 1
  MaxConns = 2
  MaxAuths = 2
SYMMETRY Symmetry
CONSTRAINT ReauthOne
SPECIFICATION Spec
INVARIANTS TypeOK SlotsMatch SubscribedOnce NoGhostPeer ShutdownCloses NeverStuck
CHECK_DEADLOCK FALSE
