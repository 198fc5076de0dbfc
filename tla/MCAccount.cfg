CONSTANTS
  c1 = c1
  c2 = c2
  u1 = u1
  u2 = u2
  p1 = p1
  None = None
  Invalid = Invalid
  Conns = {c1, c2}
  Users = {u1, u2}
  Passwords = {p1}
  Times = {1, 2}
  Existing <- Registered
  MaxRequests <- TwoAndOne
  LevelMax = 1
  INT32_MAX = 5
  TickGain = 3
  TickLoss = 2
SPECIFICATION FairSpec
CHECK_DEADLOCK FALSE
INVARIANTS
  TypeOK
  CreatedIsOwned
  WriteFindsItsRow
  RecordsAreSane
PROPERTY
  CreateIsAnswered
