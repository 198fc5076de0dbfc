CONSTANTS
  c1 = c1
  c2 = c2
  u1 = u1
  u2 = u2
  None = None
  Conns = {c1, c2}
  Users = {u1, u2}
  MaxRequests <- OneEach
  MaxStops = 2
  Faults = {"link", "db", "stop"}
SPECIFICATION Spec
CHECK_DEADLOCK FALSE
INVARIANTS
  IndexesAgree
  NoGhostPlayers
  StopReachesEveryPlayer
PROPERTIES
  ImplementsRegistry
