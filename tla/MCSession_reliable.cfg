CONSTANTS
  c1 = c1
  c2 = c2
  u1 = u1
  u2 = u2
  None = None
  Conns = {c1, c2}
  Users = {u1}
  MaxRequests <- TwoAndOne
  MaxStops = 1
  Faults = {}
SPECIFICATION FairSpec
CHECK_DEADLOCK FALSE
INVARIANTS
  TypeOK
  PlayersAreNewest
  SafeStopPersists
PROPERTIES
  SafeStopEmpties
  LogoutIsSaved
