CONSTANTS
  None = None
  Wires <- StreamWires
  Cuts <- StreamCuts
  ReadMax = 33
  Sizes = {20}
  Levels = {0}
  MaxSends = 3
  HeadSize = 8
  MaxPackage = 20
  MaxRecv = 60
  MaxSend = 25
  WsWires <- WebSocketWires
  WsCuts <- WebSocketCuts
  WsReadMax = 1000
  WsSizes = {126, 65535, 65536}
  MaxHeld = 205
  MaxWsSend = 65000
  FileSizes = {0, 2}
  MaxEditions = 3
  Workers = {"worker0"}
  Breakable <- BreakableFiles
  MaxBroken = 1
  MaxEdits = 2
  MaxRequests = 2
SPECIFICATION TaskTypesSpec
CHECK_DEADLOCK FALSE
INVARIANTS
  PackagesArriveWhole
  HonestClientsAreServed
  MessagesArriveWhole
  WsHonestClientsAreServed
  ClientsSeeNoGap
  BodyIsTheFile
  NotModifiedIsTrue
  NoReloadIsLost
  HandlersAreCurrent
