CONSTANTS
  u1 = u1
  u2 = u2
  None = None
  Users = {u1, u2}
  Spaces <- Kinds
  Steering <- Ways
  Times <- Readings
  Size = 30
  MinSize <- MinSizes
  MAX_DEPTH = 6
  MAX_OBJECTS = 0
  MAX_SPEED <- Speeds
  BODY_RADIUS = 12
  RANGE = 2
SPECIFICATION MapsSpec
CHECK_DEADLOCK FALSE
INVARIANTS
  TreesHoldPlayers
  QueriesAreExact
  NeverAhead
