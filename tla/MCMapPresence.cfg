CONSTANTS
  c1 = c1
  c2 = c2
  u1 = u1
  m1 = m1
  m2 = m2
  None = None
  Conns = {c1, c2}
  Users = {u1}
  Maps = {m1, m2}
  Careful = {c1}
  MaxSeq = 2
  Long = 4
  Short = 2
  MaxSent <- RequestsOf
  MaxOut = 3
SPECIFICATION Spec
CHECK_DEADLOCK FALSE
INVARIANTS
  TypeOK
  PresenceAgrees
  NoticesFollowInit
PROPERTIES
  InputIsApplied
