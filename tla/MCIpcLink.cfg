CONSTANTS
  d1 = d1
  a1 = a1
  None = None
  Clients = {d1}
  AppIds = {a1}
  AppOf <- SameApp
  ChanSize = 1
  MaxConns = 3
  MaxRequests = 2
  MaxBreaks = 2
SPECIFICATION FairSpec
CHECK_DEADLOCK FALSE
INVARIANTS
  TypeOK
  PairsMatch
PROPERTIES
  AnswersInOrder
  LinkRecovers
  RequestsAreAnswered
