--------------------------- MODULE Session_proofs ---------------------------
(***************************************************************************)
(* Proofs about Session, for every set of connections and users, every     *)
(* bound and every combination of faults.                                  *)
(***************************************************************************)
EXTENDS Session, SequenceTheorems, TLAPS

-----------------------------------------------------------------------------
(* Type correctness.  A write request names the user of a player, hence    *)
(* the step needs IndexesAgree: a player's record always has a user.       *)

LEMMA InitTypeOK == Init => TypeOK
<1> SUFFICES ASSUME Init PROVE TypeOK
    OBVIOUS
<1>1. ConnTypeOK
    BY DEF Init, ConnTypeOK
<1>2. VMTypeOK
    BY DEF Init, VMTypeOK, NoRecord, Records
<1>3. CtlTypeOK
    BY SessionAssumption DEF Init, CtlTypeOK
<1>4. IpcTypeOK
    BY DEF Init, IpcTypeOK
<1>5. HistTypeOK
    BY DEF Init, HistTypeOK
<1> QED BY <1>1, <1>2, <1>3, <1>4, <1>5 DEF TypeOK

\* What a step leaves alone keeps its type.
LEMMA TypeFrame ==
    ASSUME TypeOK
    PROVE  /\ UNCHANGED <<conn, w2o, o2w>> => ConnTypeOK'
           /\ UNCHANGED vmVars => VMTypeOK'
           /\ UNCHANGED ctlVars => CtlTypeOK'
           /\ UNCHANGED ipcVars => IpcTypeOK'
           /\ UNCHANGED histVars => HistTypeOK'
<1> USE DEF TypeOK
<1>1. UNCHANGED <<conn, w2o, o2w>> => ConnTypeOK'
    BY DEF ConnTypeOK
<1>2. UNCHANGED vmVars => VMTypeOK'
    BY DEF VMTypeOK, vmVars
<1>3. UNCHANGED ctlVars => CtlTypeOK'
    BY DEF CtlTypeOK, ctlVars
<1>4. UNCHANGED ipcVars => IpcTypeOK'
    BY DEF IpcTypeOK, ipcVars
<1>5. UNCHANGED histVars => HistTypeOK'
    BY DEF HistTypeOK, histVars
<1> QED BY <1>1, <1>2, <1>3, <1>4, <1>5

\* The messages the actions build have the type of their queue.
LEMMA MessageTypes ==
    /\ \A t \in {"new", "close", "example"} : Event(t) \in Events
    /\ \A u \in Users, g \in BOOLEAN : LoginEvent(u, g) \in Events
    /\ {"close", "ok", "notmatch", "stopped", "example"} = Replies
BY DEF Event, Events, LoginEvent, Replies

LEMMA TellType ==
    ASSUME ConnTypeOK, NEW c \in Conns, NEW r \in Replies, Tell(c, r)
    PROVE  o2w' \in [Conns -> Seq(Replies)]
<1>1. Append(o2w[c], r) \in Seq(Replies)
    BY DEF ConnTypeOK
<1> QED BY <1>1 DEF Tell, ConnTypeOK

LEMMA TypeStep ==
    ASSUME TypeOK, IndexesAgree, [Next]_vars
    PROVE  TypeOK'
<1> USE DEF TypeOK
<1>1. ASSUME NEW c \in Conns, NewConnection(c) PROVE TypeOK'
    <2>1. ConnTypeOK'
        BY <1>1, MessageTypes DEF NewConnection, ConnTypeOK
    <2> QED BY TypeFrame, <1>1, <2>1 DEF NewConnection
<1>2. ASSUME NEW c \in Conns, NEW e \in Events, ClientSends(c, e) PROVE TypeOK'
    <2>1. ConnTypeOK'
        BY <1>2 DEF ClientSends, ConnTypeOK
    <2>2. HistTypeOK'
        BY <1>2 DEF ClientSends, HistTypeOK
    <2> QED BY TypeFrame, <1>2, <2>1, <2>2 DEF ClientSends
<1>3. ASSUME NEW c \in Conns, ConnectionEnds(c) PROVE TypeOK'
    <2>1. ConnTypeOK'
        BY <1>3, MessageTypes DEF ConnectionEnds, ConnTypeOK
    <2> QED BY TypeFrame, <1>3, <2>1 DEF ConnectionEnds
<1>4. ASSUME NEW c \in Conns, WorkerReceives(c) PROVE TypeOK'
    <2>1. ConnTypeOK'
        BY <1>4 DEF WorkerReceives, ConnTypeOK
    <2> QED BY TypeFrame, <1>4, <2>1 DEF WorkerReceives
<1>5. ASSUME NEW c \in Conns, OnNewConnection(c) PROVE TypeOK'
    <2>1. w2o' \in [Conns -> Seq(Events)]
        BY <1>5 DEF OnNewConnection, Takes, ConnTypeOK
    <2>3. o2w' \in [Conns -> Seq(Replies)]
        BY <1>5, TellType, MessageTypes DEF OnNewConnection, ConnTypeOK
    <2>4. ConnTypeOK'
        BY <1>5, <2>1, <2>3 DEF OnNewConnection, ConnTypeOK
    <2>2. VMTypeOK'
        BY <1>5 DEF OnNewConnection, VMTypeOK
    <2> QED BY TypeFrame, <1>5, <2>4, <2>2 DEF OnNewConnection
<1>6. ASSUME NEW c \in Conns, OnCloseConnection(c) PROVE TypeOK'
    <2>1. ConnTypeOK'
        BY <1>6 DEF OnCloseConnection, Takes, ConnTypeOK
    <2>2. VMTypeOK'
        <3>1. NoRecord \in Records
            BY DEF NoRecord, Records
        <3> QED BY <1>6, <3>1
                DEF OnCloseConnection, RemovePlayerByPlayerId, VMTypeOK
    <2>3. IpcTypeOK' /\ HistTypeOK'
        <3>1. CASE c \in players
            <4>1. record[c].user \in Users
                BY <3>1 DEF IndexesAgree, VMTypeOK
            <4>2. lastVer[record[c].user] \in Nat
                BY <4>1 DEF HistTypeOK
            <4>3. WriteReq(record[c]) \in Requests
                BY <4>1, <4>2 DEF WriteReq, Requests, VMTypeOK, Records
            <4>4. IpcTypeOK'
                <5>1. OnLogout(c) /\ UNCHANGED <<link, toLua, db>>
                    BY <1>6, <3>1 DEF OnCloseConnection
                <5>2. toDb' \in Seq(Requests)
                    BY <4>3, <5>1 DEF OnLogout, Send2IPC, IpcTypeOK
                <5> QED BY <5>1, <5>2 DEF IpcTypeOK
            <4>5. HistTypeOK'
                BY <1>6, <3>1, <4>1
                   DEF OnCloseConnection, OnLogout, HistTypeOK
            <4> QED BY <4>4, <4>5
        <3>2. CASE c \notin players
            BY <1>6, <3>2, TypeFrame DEF OnCloseConnection, ipcVars, histVars
        <3> QED BY <3>1, <3>2
    <2> QED BY TypeFrame, <1>6, <2>1, <2>2, <2>3 DEF OnCloseConnection
<1>7. ASSUME NEW c \in Conns, OnExample(c) PROVE TypeOK'
    <2>1. /\ <<"example">> \in Seq(Replies)
          /\ <<"example", "close">> \in Seq(Replies)
        BY DEF Replies
    <2>2. w2o' \in [Conns -> Seq(Events)] /\ o2w' \in [Conns -> Seq(Replies)]
        BY <1>7, <2>1 DEF OnExample, Takes, ConnTypeOK
    <2>3. ConnTypeOK'
        BY <1>7, <2>2 DEF OnExample, ConnTypeOK
    <2> QED BY TypeFrame, <1>7, <2>3 DEF OnExample
<1>8. ASSUME NEW c \in Conns, OnLoginRequest(c) PROVE TypeOK'
    <2>6. w2o' \in [Conns -> Seq(Events)]
        BY <1>8 DEF OnLoginRequest, Takes, ConnTypeOK
    <2>7. o2w' \in [Conns -> Seq(Replies)]
        BY <1>8, TellType, MessageTypes DEF OnLoginRequest, ConnTypeOK
    <2>1. ConnTypeOK'
        BY <1>8, <2>6, <2>7 DEF OnLoginRequest, ConnTypeOK
    <2> DEFINE e == Head(w2o[c])
    <2>2. e \in Events /\ e.type = "login"
        BY <1>8 DEF OnLoginRequest, Takes, ConnTypeOK
    <2>3. e.user \in Users /\ e.good \in BOOLEAN
        BY <2>2 DEF Events
    <2>4. SelectReq(c, e.user, e.good) \in Requests
        BY <2>3 DEF SelectReq, Requests, HistTypeOK
    <2>5. IpcTypeOK'
        BY <1>8, <2>4 DEF OnLoginRequest, Send2IPC, IpcTypeOK
    <2>8. HistTypeOK'
        BY <1>8, <2>3 DEF OnLoginRequest, HistTypeOK
    <2> QED BY TypeFrame, <1>8, <2>1, <2>5, <2>8 DEF OnLoginRequest
<1>9. ASSUME OnLoginAnswer PROVE TypeOK'
    <2> DEFINE a == Head(toLua)
    <2>1. a \in Answers /\ toLua' \in Seq(Answers)
        BY <1>9 DEF OnLoginAnswer, IpcTypeOK
    <2>2. a.conn \in Conns /\ a.user \in Users /\ a.prog \in SUBSET Conns /\ a.ver \in Nat
        BY <2>1 DEF Answers
    <2>3. ConnTypeOK'
        <3>1. \E r \in Replies : Tell(a.conn, r)
            BY <1>9, MessageTypes DEF OnLoginAnswer
        <3>2. o2w' \in [Conns -> Seq(Replies)]
            BY <2>2, <3>1, TellType
        <3> QED BY <1>9, <3>2
                DEF OnLoginAnswer, ConnTypeOK
    <2>4. VMTypeOK'
        <3>1. CASE UNCHANGED vmVars
            BY <3>1, TypeFrame
        <3>2. CASE CreatePlayer(a) /\ UNCHANGED online
            BY <2>2, <3>2 DEF CreatePlayer, VMTypeOK, Records
        <3> QED BY <1>9, <3>1, <3>2 DEF OnLoginAnswer
    <2>5. IpcTypeOK'
        BY <1>9, <2>1 DEF OnLoginAnswer, IpcTypeOK
    <2>6. CtlTypeOK' /\ HistTypeOK'
        <3>1. UNCHANGED <<ctlVars, histVars>>
            BY <1>9 DEF OnLoginAnswer
        <3> QED BY TypeFrame, <3>1
    <2> QED BY <2>3, <2>4, <2>5, <2>6
<1>10. ASSUME OnTick PROVE TypeOK'
    <2>1. VMTypeOK'
        <3>1. ASSUME NEW d \in Conns
              PROVE  [record[d] EXCEPT !.prog = @ \cup {d}] \in Records
            <4>1. record[d] \in Records
                BY DEF VMTypeOK
            <4> QED BY <4>1 DEF Records
        <3>2. record' \in [Conns -> Records]
            BY <1>10, <3>1 DEF OnTick, VMTypeOK
        <3> QED BY <1>10, <3>2 DEF OnTick, VMTypeOK
    <2>2. HistTypeOK'
        BY <1>10 DEF OnTick, HistTypeOK, VMTypeOK
    <2> QED BY TypeFrame, <1>10, <2>1, <2>2 DEF OnTick
<1>11. ASSUME OnSafeStop PROVE TypeOK'
    <2>1. ConnTypeOK'
        BY <1>11 DEF OnSafeStop, SafeStop, ConnTypeOK, Replies
    <2>2. CtlTypeOK'
        BY <1>11 DEF OnSafeStop, SafeStop, CtlTypeOK, VMTypeOK
    <2> QED BY TypeFrame, <1>11, <2>1, <2>2 DEF OnSafeStop, SafeStop
<1>12. ASSUME OnStop PROVE TypeOK'
    <2>1. VMTypeOK'
        BY <1>12 DEF OnStop, VMTypeOK, NoRecord, Records
    <2>2. CtlTypeOK'
        BY <1>12 DEF OnStop, CtlTypeOK
    <2> QED BY TypeFrame, <1>12, <2>1, <2>2 DEF OnStop
<1>13. ASSUME DbSelect PROVE TypeOK'
    <2> DEFINE m == Head(toDb)
    <2>2. m \in Requests /\ m.op = "select" /\ toDb' \in Seq(Requests)
        BY <1>13 DEF DbSelect, IpcTypeOK
    <2>3. m.conn \in Conns /\ m.user \in Users /\ m.good \in BOOLEAN
        BY <2>2 DEF Requests
    <2>4. \A f \in BOOLEAN : LoginAnswer(m, f) \in Answers
        BY <2>3 DEF LoginAnswer, Answers, IpcTypeOK
    <2>5. toLua' \in Seq(Answers)
        <3>1. PICK f \in BOOLEAN :
                 toLua' = IF link /\ running
                            THEN Append(toLua, LoginAnswer(m, f)) ELSE toLua
            BY <1>13 DEF DbSelect
        <3> HIDE DEF m
        <3> QED BY <2>4, <3>1 DEF IpcTypeOK
    <2>1. IpcTypeOK'
        BY <1>13, <2>2, <2>5 DEF DbSelect, IpcTypeOK
    <2> QED BY TypeFrame, <1>13, <2>1 DEF DbSelect
<1>14. ASSUME DbWrite PROVE TypeOK'
    <2>1. IpcTypeOK'
        <3> DEFINE m == Head(toDb)
        <3>1. m \in Requests /\ m.op = "write" /\ toDb' \in Seq(Requests)
            BY <1>14 DEF DbWrite, IpcTypeOK
        <3>2. [prog |-> m.prog, ver |-> m.ver]
                \in [prog : SUBSET Conns, ver : Nat]
            BY <3>1 DEF Requests
        <3>3. db' = [db EXCEPT ![m.user] = [prog |-> m.prog, ver |-> m.ver]]
              \/ UNCHANGED db
            BY <1>14 DEF DbWrite
        <3>4. db' \in [Users -> [prog : SUBSET Conns, ver : Nat]]
            <4> HIDE DEF m
            <4> QED BY <3>2, <3>3 DEF IpcTypeOK
        <3> QED BY <1>14, <3>1, <3>4 DEF DbWrite, IpcTypeOK
    <2> QED BY TypeFrame, <1>14, <2>1 DEF DbWrite
<1>15. ASSUME LinkDown PROVE TypeOK'
    <2>1. PICK k \in 0..Len(toDb) : toDb' = SubSeq(toDb, 1, k)
        BY <1>15 DEF LinkDown
    <2>2. toDb' \in Seq(Requests)
        BY <2>1, SubSeqProperties, ElementOfSeq, LenProperties DEF IpcTypeOK
    <2>3. IpcTypeOK'
        <3>1. link' = FALSE /\ toLua' = <<>> /\ db' = db
            BY <1>15 DEF LinkDown
        <3>2. toLua' \in Seq(Answers)
            BY <3>1
        <3> QED BY <2>2, <3>1, <3>2 DEF IpcTypeOK
    <2> QED BY TypeFrame, <1>15, <2>3 DEF LinkDown
<1>16. ASSUME LinkUp PROVE TypeOK'
    <2>1. IpcTypeOK'
        BY <1>16 DEF LinkUp, IpcTypeOK
    <2> QED BY TypeFrame, <1>16, <2>1 DEF LinkUp
<1>17. CASE UNCHANGED vars
    BY <1>17, TypeFrame DEF vars
<1>18. ASSUME NEW c \in Conns, Client(c) PROVE TypeOK'
    <2>1. CASE ClientSendsLogin(c)
        BY <2>1, <1>2, MessageTypes DEF ClientSendsLogin
    <2>2. CASE ClientSendsExample(c)
        BY <2>2, <1>2, MessageTypes DEF ClientSendsExample
    <2>3. CASE PeerCloses(c)
        BY <2>3, <1>3 DEF PeerCloses
    <2> QED BY <1>18, <1>1, <2>1, <2>2, <2>3 DEF Client
<1>19. ASSUME NEW c \in Conns, Worker(c) \/ VM(c) PROVE TypeOK'
    BY <1>19, <1>3, <1>4, <1>5, <1>6, <1>7, <1>8 DEF Worker, WorkerCloses, VM
<1> QED BY <1>9, <1>10, <1>11, <1>12, <1>13, <1>14, <1>15, <1>16, <1>17,
           <1>18, <1>19 DEF Next, Dbsvrgo

-----------------------------------------------------------------------------
(* Which actions touch what. *)

LEMMA VMChanges ==
    ASSUME [Next]_vars
    PROVE  \/ UNCHANGED vmVars
           \/ \E c \in Conns : OnNewConnection(c) \/ OnCloseConnection(c)
           \/ OnLoginAnswer
           \/ OnTick
           \/ OnStop
<1>1. ASSUME NEW c \in Conns, Client(c) PROVE UNCHANGED vmVars
    BY <1>1 DEF Client, NewConnection, ClientSendsLogin, ClientSendsExample,
                ClientSends, PeerCloses, ConnectionEnds
<1>2. ASSUME NEW c \in Conns, Worker(c) PROVE UNCHANGED vmVars
    BY <1>2 DEF Worker, WorkerReceives, WorkerCloses, ConnectionEnds
<1>3. ASSUME NEW c \in Conns, OnExample(c) \/ OnLoginRequest(c)
      PROVE  UNCHANGED vmVars
    BY <1>3 DEF OnExample, OnLoginRequest
<1>4. OnSafeStop => UNCHANGED vmVars
    BY DEF OnSafeStop, SafeStop
<1>5. Dbsvrgo => UNCHANGED vmVars
    BY DEF Dbsvrgo, DbSelect, DbWrite
<1>6. LinkDown \/ LinkUp => UNCHANGED vmVars
    BY DEF LinkDown, LinkUp
<1>7. UNCHANGED vars => UNCHANGED vmVars
    BY DEF vars
<1> QED BY <1>1, <1>2, <1>3, <1>4, <1>5, <1>6, <1>7 DEF Next, VM

\* The tunnel of a connection to the VM grows at its end, by events other
\* than a closing as long as the connection lasts, and shrinks at its front.
LEMMA QueueChanges ==
    ASSUME [Next]_vars
    PROVE  \/ UNCHANGED <<conn, w2o>>
           \/ \E c \in Conns :
                \/ NewConnection(c)
                \/ \E e \in Events : e.type # "close" /\ ClientSends(c, e)
                \/ conn[c] \in {"open", "closing"} /\ ConnectionEnds(c)
                \/ WorkerReceives(c)
                \/ VM(c)
<1>1. ASSUME NEW c \in Conns, ClientSendsLogin(c) \/ ClientSendsExample(c)
      PROVE  \E e \in Events : e.type # "close" /\ ClientSends(c, e)
    <2>1. \A u \in Users, g \in BOOLEAN : LoginEvent(u, g).type # "close"
        BY DEF LoginEvent
    <2>2. Event("example").type # "close"
        BY DEF Event
    <2> QED BY <1>1, <2>1, <2>2, MessageTypes
            DEF ClientSendsLogin, ClientSendsExample
<1>2. ASSUME NEW c \in Conns, PeerCloses(c) \/ WorkerCloses(c)
      PROVE  conn[c] \in {"open", "closing"} /\ ConnectionEnds(c)
    BY <1>2 DEF PeerCloses, WorkerCloses
<1>3. OnLoginAnswer => UNCHANGED <<conn, w2o>>
    BY DEF OnLoginAnswer
<1>4. OnTick \/ OnStop => UNCHANGED <<conn, w2o>>
    BY DEF OnTick, OnStop
<1>5. OnSafeStop => UNCHANGED <<conn, w2o>>
    BY DEF OnSafeStop, SafeStop
<1>6. Dbsvrgo => UNCHANGED <<conn, w2o>>
    BY DEF Dbsvrgo, DbSelect, DbWrite
<1>7. LinkDown \/ LinkUp => UNCHANGED <<conn, w2o>>
    BY DEF LinkDown, LinkUp
<1>8. UNCHANGED vars => UNCHANGED <<conn, w2o>>
    BY DEF vars
<1> QED BY <1>1, <1>2, <1>3, <1>4, <1>5, <1>6, <1>7, <1>8
        DEF Next, Client, Worker

-----------------------------------------------------------------------------
(* The indexes of PlayerMgr *)

LEMMA IndexesStep ==
    ASSUME TypeOK, IndexesAgree, [Next]_vars
    PROVE  IndexesAgree'
<1> USE DEF TypeOK, VMTypeOK
<1>1. CASE UNCHANGED vmVars
    BY <1>1 DEF vmVars, IndexesAgree
<1>2. ASSUME NEW c \in Conns, OnNewConnection(c) PROVE IndexesAgree'
    BY <1>2 DEF OnNewConnection, IndexesAgree
<1>3. ASSUME NEW c \in Conns, OnCloseConnection(c) PROVE IndexesAgree'
    <2>1. CASE c \notin players
        BY <1>3, <2>1 DEF OnCloseConnection, IndexesAgree
    <2>2. CASE c \in players
        <3> DEFINE u == playerIdToUserId[c]
        <3>1. u \in Users /\ userIdToPlayerId[u] = c
            BY <2>2 DEF IndexesAgree
        <3>2. RemovePlayerByPlayerId(c)
            BY <1>3, <2>2 DEF OnCloseConnection
        <3>3. \A d \in Conns : d # c => /\ record'[d] = record[d]
                                        /\ playerIdToUserId'[d]
                                             = playerIdToUserId[d]
                                        /\ d \in players' <=> d \in players
            BY <3>2 DEF RemovePlayerByPlayerId
        <3>4. c \notin players' /\ playerIdToUserId'[c] = None
            BY <3>2 DEF RemovePlayerByPlayerId
        <3>5. \A v \in Users : userIdToPlayerId'[v]
                                 = IF v = u THEN None ELSE userIdToPlayerId[v]
            BY <3>1, <3>2, SessionAssumption DEF RemovePlayerByPlayerId
        <3>6. \A d \in players : d # c => record[d].user # u
            BY <3>1 DEF IndexesAgree
        <3>7. ASSUME NEW v \in Users, v # u, userIdToPlayerId[v] # None
              PROVE  userIdToPlayerId[v] # c
            BY <2>2, <3>7 DEF IndexesAgree
        <3>8. ASSUME NEW d \in Conns
              PROVE  IF d \in players'
                       THEN /\ playerIdToUserId'[d] = record'[d].user
                            /\ playerIdToUserId'[d] # None
                            /\ userIdToPlayerId'[record'[d].user] = d
                       ELSE playerIdToUserId'[d] = None
            <4>1. CASE d = c
                BY <3>4, <4>1
            <4>2. CASE d # c /\ d \in players
                <5>1. /\ playerIdToUserId[d] = record[d].user
                      /\ record[d].user \in Users
                      /\ userIdToPlayerId[record[d].user] = d
                    BY <4>2 DEF IndexesAgree
                <5>2. userIdToPlayerId'[record[d].user] = d
                    BY <3>5, <3>6, <4>2, <5>1
                <5> QED BY <3>3, <4>2, <5>1, <5>2, SessionAssumption
            <4>3. CASE d # c /\ d \notin players
                BY <3>3, <4>3 DEF IndexesAgree
            <4> QED BY <4>1, <4>2, <4>3
        <3>9. ASSUME NEW v \in Users, userIdToPlayerId'[v] # None
              PROVE  /\ userIdToPlayerId'[v] \in players'
                     /\ record'[userIdToPlayerId'[v]].user = v
            <4>1. v # u /\ userIdToPlayerId'[v] = userIdToPlayerId[v]
                BY <3>5, <3>9
            <4>2. /\ userIdToPlayerId[v] \in players
                  /\ record[userIdToPlayerId[v]].user = v
                BY <3>9, <4>1 DEF IndexesAgree
            <4>3. userIdToPlayerId[v] # c
                BY <3>7, <3>9, <4>1
            <4> QED BY <3>3, <4>1, <4>2, <4>3
        <3> QED BY <3>8, <3>9 DEF IndexesAgree
    <2> QED BY <2>1, <2>2
<1>4. ASSUME OnLoginAnswer PROVE IndexesAgree'
    <2> DEFINE a == Head(toLua)
    <2>5. toLua # <<>> /\ toLua \in Seq(Answers)
        BY <1>4 DEF OnLoginAnswer, IpcTypeOK
    <2>6. a \in Answers
        BY <2>5
    <2>1. a.conn \in Conns /\ a.user \in Users
        BY <2>6 DEF Answers
    <2>2. CASE UNCHANGED vmVars
        BY <1>1, <2>2
    <2>3. CASE MayCreatePlayer(a) /\ CreatePlayer(a)
        <3>1. a.conn \notin players /\ userIdToPlayerId[a.user] = None
            BY <2>1, <2>3 DEF MayCreatePlayer, UserHasPlayer, IndexesAgree
        <3>2. \A d \in players : record[d].user # a.user
            BY <3>1, SessionAssumption DEF IndexesAgree
        <3>3. \A d \in Conns : d # a.conn =>
                /\ record'[d] = record[d]
                /\ playerIdToUserId'[d] = playerIdToUserId[d]
                /\ d \in players' <=> d \in players
            BY <2>1, <2>3 DEF CreatePlayer
        <3>4. /\ a.conn \in players'
              /\ playerIdToUserId'[a.conn] = a.user
              /\ record'[a.conn].user = a.user
              /\ userIdToPlayerId'[a.user] = a.conn
            BY <2>1, <2>3 DEF CreatePlayer
        <3>5. \A v \in Users : v # a.user =>
                userIdToPlayerId'[v] = userIdToPlayerId[v]
            BY <2>1, <2>3 DEF CreatePlayer
        <3> HIDE DEF a
        <3> QED BY <2>1, <3>1, <3>2, <3>3, <3>4, <3>5, SessionAssumption
                DEF IndexesAgree
    <2>4. UNCHANGED vmVars \/ (MayCreatePlayer(a) /\ CreatePlayer(a))
        BY <1>4 DEF OnLoginAnswer
    <2> HIDE DEF a
    <2> QED BY <2>2, <2>3, <2>4
<1>5. ASSUME OnTick PROVE IndexesAgree'
    <2>1. \A c \in Conns : record'[c].user = record[c].user
        BY <1>5 DEF OnTick, Records
    <2> QED BY <1>5, <2>1, SessionAssumption DEF OnTick, IndexesAgree
<1>6. ASSUME OnStop PROVE IndexesAgree'
    BY <1>6 DEF OnStop, UserHasPlayer, IndexesAgree
<1> QED BY <1>1, <1>2, <1>3, <1>4, <1>5, <1>6, VMChanges

-----------------------------------------------------------------------------
(* Connections and their tunnels.  A closing is the last thing a worker    *)
(* says about a connection: until the VM takes it the connection may be    *)
(* online, afterwards nothing about it can arrive any more.                *)

Last(q) == q[Len(q)]

QueueOrder ==
    \A c \in Conns :
        /\ conn[c] = "idle" => w2o[c] = <<>> /\ c \notin online
        /\ conn[c] = "closed" => \/ w2o[c] = <<>> /\ c \notin online
                                 \/ w2o[c] # <<>> /\ Last(w2o[c]).type = "close"
        /\ \A i \in DOMAIN w2o[c] :
             w2o[c][i].type = "close" => conn[c] = "closed" /\ i = Len(w2o[c])

LEMMA TailProps ==
    ASSUME NEW S, NEW q \in Seq(S), q # <<>>
    PROVE  /\ Tail(q) \in Seq(S)
           /\ Len(Tail(q)) = Len(q) - 1
           /\ \A i \in 1..Len(q) - 1 : Tail(q)[i] = q[i + 1]
           /\ Head(q) = q[1]
           /\ Len(q) \in Nat \ {0}
           /\ DOMAIN q = 1..Len(q)
           /\ DOMAIN Tail(q) = 1..Len(q) - 1
OBVIOUS

LEMMA AppendProps ==
    ASSUME NEW S, NEW q \in Seq(S), NEW e \in S
    PROVE  /\ Append(q, e) \in Seq(S)
           /\ Append(q, e) # <<>>
           /\ Len(Append(q, e)) = Len(q) + 1
           /\ \A i \in 1..Len(q) : Append(q, e)[i] = q[i]
           /\ Append(q, e)[Len(q) + 1] = e
           /\ DOMAIN q = 1..Len(q)
           /\ DOMAIN Append(q, e) = 1..Len(q) + 1
           /\ Len(q) \in Nat
OBVIOUS

LEMMA LastIsClose ==
    ASSUME NEW q \in Seq(Events), q # <<>>, Last(q).type = "close"
    PROVE  InQueue(Event("close"), q)
<1>1. Len(q) \in DOMAIN q /\ q[Len(q)] \in Events
    OBVIOUS
<1>2. q[Len(q)] = Event("close")
    BY <1>1 DEF Last, Events, Event
<1> QED BY <1>1, <1>2 DEF InQueue

LEMMA QueueStep ==
    ASSUME TypeOK, QueueOrder, PlayersAreOnline, [Next]_vars
    PROVE  QueueOrder'
<1> USE DEF TypeOK, ConnTypeOK
\* What the VM does to one tunnel.
<1>1. ASSUME NEW c \in Conns, w2o[c] # <<>>, UNCHANGED conn,
             w2o' = [w2o EXCEPT ![c] = Tail(@)],
             \/ Head(w2o[c]).type = "close" /\ online' = online \ {c}
             \/ Head(w2o[c]).type # "close" /\ online' \subseteq online \cup {c}
      PROVE  QueueOrder'
    <2>1. ASSUME NEW d \in Conns, d # c
          PROVE  w2o'[d] = w2o[d] /\ conn'[d] = conn[d]
                 /\ (d \in online' => d \in online)
        BY <1>1, <2>1
    <2>2. w2o'[c] = Tail(w2o[c])
        BY <1>1
    <2> DEFINE q == w2o[c]
    <2>3. /\ Len(q) \in Nat \ {0} /\ Len(Tail(q)) = Len(q) - 1
          /\ Head(q) = q[1]
          /\ \A i \in 1..Len(q) - 1 : Tail(q)[i] = q[i + 1]
          /\ DOMAIN q = 1..Len(q) /\ DOMAIN Tail(q) = 1..Len(q) - 1
        BY <1>1, TailProps
    <2>4. conn[c] # "idle"
        BY <1>1 DEF QueueOrder
    <2>5. \A i \in DOMAIN Tail(q) : Tail(q)[i].type = "close" =>
             conn[c] = "closed" /\ i = Len(Tail(q))
        <3>1. \A i \in DOMAIN q : q[i].type = "close" =>
                 conn[c] = "closed" /\ i = Len(q)
            BY DEF QueueOrder
        <3> HIDE DEF q
        <3> QED BY <2>3, <3>1
    <2>6. CASE conn[c] = "closed"
        <3>1. q[Len(q)].type = "close"
            BY <1>1, <2>6 DEF QueueOrder, Last
        <3>2. CASE Len(q) = 1
            <4>1. Tail(q) = <<>>
                <5> HIDE DEF q
                <5> QED BY <2>3, <3>2, TailProps
            <4>2. c \notin online'
                BY <1>1, <2>3, <3>1, <3>2
            <4> QED BY <2>1, <2>2, <2>4, <2>5, <4>1, <4>2, <1>1 DEF QueueOrder
        <3>3. CASE Len(q) # 1
            <4>1. Len(Tail(q)) # 0 /\ Tail(q)[Len(Tail(q))].type = "close"
                <5> HIDE DEF q
                <5> QED BY <2>3, <3>1, <3>3
            <4>2. Tail(q) # <<>> /\ Last(Tail(q)).type = "close"
                <5> HIDE DEF q
                <5>1. Len(<<>>) = 0
                    OBVIOUS
                <5>2. Tail(q) # <<>>
                    BY <4>1, <5>1
                <5>3. Last(Tail(q)).type = "close"
                    BY <4>1 DEF Last
                <5> QED BY <5>2, <5>3
            <4> QED BY <2>1, <2>2, <2>4, <2>5, <4>2, <1>1 DEF QueueOrder
        <3> QED BY <3>2, <3>3
    <2>7. CASE conn[c] # "closed"
        BY <2>1, <2>2, <2>4, <2>5, <2>7, <1>1 DEF QueueOrder
    <2> QED BY <2>6, <2>7
\* What a worker does to one tunnel.
<1>2. ASSUME NEW c \in Conns, NEW e \in Events, UNCHANGED online,
             conn[c] # "closed",
             w2o' = [w2o EXCEPT ![c] = Append(@, e)],
             \/ conn' = [conn EXCEPT ![c] = "closed"] /\ e.type = "close"
             \/ conn' = [conn EXCEPT ![c] = "open"] /\ e.type # "close"
      PROVE  QueueOrder'
    <2>1. ASSUME NEW d \in Conns, d # c
          PROVE  w2o'[d] = w2o[d] /\ conn'[d] = conn[d]
        BY <1>2, <2>1
    <2>7. conn'[c] = IF e.type = "close" THEN "closed" ELSE "open"
        BY <1>2
    <2> DEFINE q == w2o[c]
    <2>2. w2o'[c] = Append(q, e)
        BY <1>2
    <2>3. /\ Len(q) \in Nat /\ Len(Append(q, e)) = Len(q) + 1
          /\ \A i \in 1..Len(q) : Append(q, e)[i] = q[i]
          /\ Append(q, e)[Len(q) + 1] = e /\ Append(q, e) # <<>>
          /\ DOMAIN q = 1..Len(q) /\ DOMAIN Append(q, e) = 1..Len(q) + 1
        BY AppendProps, SMTT(20)
    <2>4. \A i \in DOMAIN q : q[i].type # "close"
        BY <1>2 DEF QueueOrder
    <2>5. \A i \in DOMAIN Append(q, e) : Append(q, e)[i].type = "close" =>
             e.type = "close" /\ i = Len(Append(q, e))
        <3> HIDE DEF q
        <3> QED BY <2>3, <2>4
    <2>6. Last(Append(q, e)) = e
        <3> HIDE DEF q
        <3> QED BY <2>3 DEF Last
    <2> HIDE DEF q
    <2>8. ASSUME NEW d \in Conns
          PROVE  /\ conn'[d] = "idle" => w2o'[d] = <<>> /\ d \notin online'
                 /\ conn'[d] = "closed" =>
                      \/ w2o'[d] = <<>> /\ d \notin online'
                      \/ w2o'[d] # <<>> /\ Last(w2o'[d]).type = "close"
                 /\ \A i \in DOMAIN w2o'[d] : w2o'[d][i].type = "close" =>
                      conn'[d] = "closed" /\ i = Len(w2o'[d])
        <3>1. CASE d = c
            BY <3>1, <2>2, <2>3, <2>5, <2>6, <2>7
        <3>2. CASE d # c
            BY <3>2, <1>2, <2>1 DEF QueueOrder
        <3> QED BY <3>1, <3>2
    <2> QED BY <2>8 DEF QueueOrder, Last
<1>3. CASE UNCHANGED <<conn, w2o, online>>
    BY <1>3 DEF QueueOrder
<1>4. ASSUME NEW c \in Conns, NewConnection(c) PROVE QueueOrder'
    <2>1. Event("new") \in Events /\ Event("new").type # "close"
        BY MessageTypes DEF Event
    <2> QED BY <1>2, <1>4, <2>1 DEF NewConnection, vmVars
<1>5. ASSUME NEW c \in Conns, NEW e \in Events, e.type # "close",
             ClientSends(c, e)
      PROVE  QueueOrder'
    <2>1. conn' = [conn EXCEPT ![c] = "open"]
        BY <1>5 DEF ClientSends
    <2> QED BY <1>2, <1>5, <2>1 DEF ClientSends, vmVars
<1>6. ASSUME NEW c \in Conns, conn[c] \in {"open", "closing"},
             ConnectionEnds(c)
      PROVE  QueueOrder'
    <2>1. Event("close") \in Events /\ Event("close").type = "close"
        BY MessageTypes DEF Event
    <2> QED BY <1>2, <1>6, <2>1 DEF ConnectionEnds, vmVars
<1>7. ASSUME NEW c \in Conns, WorkerReceives(c) PROVE QueueOrder'
    <2>1. w2o' = w2o /\ online' = online
        BY <1>7 DEF WorkerReceives, vmVars
    <2>2. \A d \in Conns : \/ conn'[d] = conn[d]
                           \/ conn[d] = "open" /\ conn'[d] = "closing"
        BY <1>7 DEF WorkerReceives
    <2> QED BY <2>1, <2>2 DEF QueueOrder
<1>8. ASSUME NEW c \in Conns, VM(c) PROVE QueueOrder'
    <2>1. CASE OnNewConnection(c)
        BY <1>1, <2>1 DEF OnNewConnection, Takes
    <2>2. CASE OnCloseConnection(c)
        BY <1>1, <2>2 DEF OnCloseConnection, Takes
    <2>3. CASE OnExample(c)
        BY <1>1, <2>3 DEF OnExample, Takes, vmVars
    <2>4. CASE OnLoginRequest(c)
        BY <1>1, <2>4 DEF OnLoginRequest, Takes, vmVars
    <2> QED BY <1>8, <2>1, <2>2, <2>3, <2>4 DEF VM
<1>9. ASSUME UNCHANGED <<conn, w2o>> PROVE QueueOrder'
    <2>1. CASE UNCHANGED online
        BY <1>3, <1>9, <2>1
    <2>2. ASSUME NEW c \in Conns, OnNewConnection(c) \/ OnCloseConnection(c)
          PROVE  QueueOrder'
        BY <1>8, <2>2 DEF VM
    <2>3. OnLoginAnswer \/ OnTick \/ OnStop => UNCHANGED online
        BY DEF OnLoginAnswer, OnTick, OnStop, vmVars
    <2> QED BY <2>1, <2>2, <2>3, VMChanges DEF vmVars
<1> QED BY <1>4, <1>5, <1>6, <1>7, <1>8, <1>9, QueueChanges

LEMMA OnlineStep ==
    ASSUME TypeOK, PlayersAreOnline, [Next]_vars
    PROVE  PlayersAreOnline'
<1> USE DEF PlayersAreOnline
<1>1. CASE UNCHANGED vmVars
    BY <1>1 DEF vmVars
<1>2. ASSUME NEW c \in Conns, OnNewConnection(c) \/ OnCloseConnection(c)
      PROVE  PlayersAreOnline'
    BY <1>2 DEF OnNewConnection, OnCloseConnection, RemovePlayerByPlayerId
<1>3. CASE OnLoginAnswer
    <2> DEFINE a == Head(toLua)
    <2>1. UNCHANGED vmVars \/ (MayCreatePlayer(a) /\ CreatePlayer(a)
                               /\ UNCHANGED online)
        BY <1>3 DEF OnLoginAnswer
    <2> HIDE DEF a
    <2> QED BY <1>1, <2>1 DEF MayCreatePlayer, CreatePlayer
<1>4. CASE OnTick \/ OnStop
    BY <1>4 DEF OnTick, OnStop
<1> QED BY <1>1, <1>2, <1>3, <1>4, VMChanges

-----------------------------------------------------------------------------
(* The safe stop *)

\* Where the order to leave, or the report of having left, is for player c.
Doomed(c) ==
    \/ conn[c] = "open" /\ InQueue("close", o2w[c])
    \/ conn[c] = "closing"
    \/ InQueue(Event("close"), w2o[c])

LEMMA InQueueAppend ==
    ASSUME NEW S, NEW q \in Seq(S), NEW x \in S, NEW e, InQueue(e, q) \/ e = x
    PROVE  InQueue(e, Append(q, x))
<1>1. CASE InQueue(e, q)
    <2>1. PICK i \in DOMAIN q : q[i] = e
        BY <1>1 DEF InQueue
    <2>2. i \in DOMAIN Append(q, x) /\ Append(q, x)[i] = e
        BY <2>1, AppendProps
    <2> QED BY <2>2 DEF InQueue
<1>2. CASE e = x
    <2>1. Len(q) + 1 \in DOMAIN Append(q, x) /\ Append(q, x)[Len(q) + 1] = x
        BY AppendProps
    <2> QED BY <1>2, <2>1 DEF InQueue
<1> QED BY <1>1, <1>2

LEMMA InQueueTail ==
    ASSUME NEW S, NEW q \in Seq(S), q # <<>>, NEW e, InQueue(e, q),
           e # Head(q)
    PROVE  InQueue(e, Tail(q))
<1>1. PICK i \in DOMAIN q : q[i] = e
    BY DEF InQueue
<1>2. i # 1
    BY <1>1, TailProps
<1>3. i - 1 \in DOMAIN Tail(q) /\ Tail(q)[i - 1] = e
    BY <1>1, <1>2, TailProps
<1> QED BY <1>3 DEF InQueue

LEMMA InQueueConcat ==
    ASSUME NEW S, NEW q \in Seq(S), NEW r \in Seq(S), NEW e, InQueue(e, q)
    PROVE  InQueue(e, q \o r)
<1>1. PICK i \in DOMAIN q : q[i] = e
    BY DEF InQueue
<1>2. i \in DOMAIN (q \o r) /\ (q \o r)[i] = e
    BY <1>1
<1> QED BY <1>2 DEF InQueue

\* The VM never takes back what it has told a worker.
LEMMA RepliesGrow ==
    ASSUME TypeOK, NEW c \in Conns, InQueue("close", o2w[c]),
           \/ UNCHANGED o2w
           \/ \E d \in Conns, r \in Replies : Tell(d, r)
           \/ \E d \in Conns : OnExample(d)
           \/ OnSafeStop
    PROVE  InQueue("close", o2w'[c])
<1> USE DEF TypeOK, ConnTypeOK
<1>1. CASE UNCHANGED o2w
    BY <1>1
<1>2. ASSUME NEW d \in Conns, NEW r \in Replies, Tell(d, r)
      PROVE  InQueue("close", o2w'[c])
    <2>1. o2w'[c] = o2w[c] \/ o2w'[c] = Append(o2w[c], r)
        BY <1>2 DEF Tell
    <2>2. InQueue("close", Append(o2w[c], r))
        BY InQueueAppend
    <2> QED BY <2>1, <2>2
<1>3. ASSUME NEW d \in Conns, OnExample(d) PROVE InQueue("close", o2w'[c])
    <2>1. PICK r \in {<<"example">>, <<"example", "close">>} :
            o2w' = [o2w EXCEPT ![d] = @ \o r]
        BY <1>3 DEF OnExample
    <2>2. r \in Seq(Replies)
        <3>1. /\ <<"example">> \in Seq(Replies)
              /\ <<"example", "close">> \in Seq(Replies)
            BY DEF Replies
        <3> QED BY <3>1
    <2>3. o2w'[c] = o2w[c] \/ o2w'[c] = o2w[c] \o r
        BY <2>1
    <2> QED BY <2>2, <2>3, InQueueConcat
<1>4. ASSUME OnSafeStop PROVE InQueue("close", o2w'[c])
    <2>1. "close" \in Replies
        BY DEF Replies
    <2>2. o2w'[c] = o2w[c] \/ o2w'[c] = Append(o2w[c], "close")
        BY <1>4 DEF OnSafeStop, SafeStop
    <2> QED BY <2>1, <2>2, InQueueAppend
<1> QED BY <1>1, <1>2, <1>3, <1>4

LEMMA DoomedStep ==
    ASSUME TypeOK, QueueOrder, [Next]_vars,
           NEW c \in Conns, c \in players', Doomed(c)
    PROVE  Doomed(c)'
<1> USE DEF TypeOK, ConnTypeOK
<1>1. Event("close") \in Events /\ Event("close").type = "close"
    BY MessageTypes DEF Event
<1>2. CASE UNCHANGED <<conn, w2o>> /\ (InQueue("close", o2w[c]) =>
                                         InQueue("close", o2w'[c]))
    BY <1>2 DEF Doomed
<1>3. ASSUME NEW d \in Conns, NEW e \in Events, UNCHANGED o2w,
             w2o' = [w2o EXCEPT ![d] = Append(@, e)],
             \/ UNCHANGED conn
             \/ conn[d] = "idle" /\ conn' = [conn EXCEPT ![d] = "open"]
             \/ conn' = [conn EXCEPT ![d] = "closed"] /\ e = Event("close")
      PROVE  Doomed(c)'
    <2>1. CASE InQueue(Event("close"), w2o[c])
        <3>1. w2o'[c] = w2o[c] \/ w2o'[c] = Append(w2o[c], e)
            BY <1>3
        <3>2. InQueue(Event("close"), w2o'[c])
            BY <2>1, <3>1, InQueueAppend
        <3> QED BY <3>2 DEF Doomed
    <2>2. CASE d = c /\ e = Event("close")
        <3>1. w2o'[c] = Append(w2o[c], e)
            BY <1>3, <2>2
        <3>2. InQueue(Event("close"), w2o'[c])
            BY <2>2, <3>1, InQueueAppend
        <3> QED BY <3>2 DEF Doomed
    <2>3. CASE d # c
        BY <1>3, <2>3 DEF Doomed
    <2>4. CASE UNCHANGED conn
        BY <1>3, <2>1, <2>4 DEF Doomed
    <2>5. CASE d = c /\ conn[c] = "idle"
        BY <2>1, <2>5 DEF Doomed
    <2> QED BY <1>3, <2>2, <2>3, <2>4, <2>5
<1>4. ASSUME NEW d \in Conns, NewConnection(d) PROVE Doomed(c)'
    BY <1>3, <1>4, MessageTypes DEF NewConnection
<1>5. ASSUME NEW d \in Conns, NEW e \in Events, ClientSends(d, e)
      PROVE  Doomed(c)'
    BY <1>3, <1>5 DEF ClientSends
<1>6. ASSUME NEW d \in Conns, ConnectionEnds(d) PROVE Doomed(c)'
    BY <1>1, <1>3, <1>6 DEF ConnectionEnds
<1>7. ASSUME NEW d \in Conns, WorkerReceives(d) PROVE Doomed(c)'
    <2>1. UNCHANGED w2o /\ o2w' = [o2w EXCEPT ![d] = Tail(@)]
        BY <1>7 DEF WorkerReceives
    <2>2. CASE InQueue(Event("close"), w2o[c])
        BY <2>1, <2>2 DEF Doomed
    <2>3. CASE conn[c] = "closing"
        BY <1>7, <2>3 DEF WorkerReceives, Doomed
    <2>4. CASE conn[c] = "open" /\ InQueue("close", o2w[c])
        <3>1. CASE c # d
            BY <1>7, <2>4, <3>1 DEF WorkerReceives, Doomed
        <3>2. CASE c = d /\ Head(o2w[c]) = "close"
            BY <1>7, <2>4, <3>2 DEF WorkerReceives, Doomed
        <3>3. CASE c = d /\ Head(o2w[c]) # "close"
            <4>1. o2w[c] # <<>> /\ o2w'[c] = Tail(o2w[c])
                BY <1>7, <2>1, <3>3 DEF WorkerReceives
            <4>2. InQueue("close", o2w'[c])
                BY <2>4, <3>3, <4>1, InQueueTail
            <4>3. conn' = conn
                BY <1>7, <3>3 DEF WorkerReceives
            <4> QED BY <2>4, <4>2, <4>3 DEF Doomed
        <3> QED BY <3>1, <3>2, <3>3
    <2> QED BY <2>2, <2>3, <2>4 DEF Doomed
\* The VM takes an event: only the closing makes a doomed player's tunnel
\* forget, and with it the player goes.
<1>8. ASSUME NEW d \in Conns, NEW t, Takes(d, t), UNCHANGED conn,
             d = c => t # "close",
             InQueue("close", o2w[c]) => InQueue("close", o2w'[c])
      PROVE  Doomed(c)'
    <2>1. CASE InQueue(Event("close"), w2o[c])
        <3>1. CASE d = c
            <4>1. w2o[c] # <<>> /\ w2o'[c] = Tail(w2o[c])
                  /\ Head(w2o[c]) # Event("close")
                BY <1>1, <1>8, <3>1 DEF Takes
            <4>2. InQueue(Event("close"), w2o'[c])
                BY <2>1, <4>1, InQueueTail
            <4> QED BY <4>2 DEF Doomed
        <3>2. CASE d # c
            BY <1>8, <2>1, <3>2 DEF Takes, Doomed
        <3> QED BY <3>1, <3>2
    <2>2. CASE ~InQueue(Event("close"), w2o[c])
        BY <1>8, <2>2 DEF Doomed
    <2> QED BY <2>1, <2>2
<1>9. ASSUME NEW d \in Conns, VM(d) PROVE Doomed(c)'
    <2>1. CASE OnNewConnection(d)
        BY <1>8, <2>1, RepliesGrow, MessageTypes DEF OnNewConnection
    <2>2. CASE OnCloseConnection(d)
        <3>1. d # c
            BY <2>2 DEF OnCloseConnection, RemovePlayerByPlayerId
        <3> QED BY <1>8, <2>2, <3>1 DEF OnCloseConnection
    <2>3. CASE OnExample(d)
        <3>1. InQueue("close", o2w[c]) => InQueue("close", o2w'[c])
            BY <2>3, RepliesGrow
        <3> QED BY <1>8, <2>3, <3>1 DEF OnExample
    <2>4. CASE OnLoginRequest(d)
        <3>1. UNCHANGED o2w \/ Tell(d, "stopped")
            BY <2>4 DEF OnLoginRequest
        <3>2. InQueue("close", o2w[c]) => InQueue("close", o2w'[c])
            BY <3>1, RepliesGrow, MessageTypes
        <3> QED BY <1>8, <2>4, <3>2 DEF OnLoginRequest
    <2> QED BY <1>9, <2>1, <2>2, <2>3, <2>4 DEF VM
<1>10. CASE OnLoginAnswer
    <2>1. Head(toLua).conn \in Conns
        <3>1. toLua # <<>> /\ toLua \in Seq(Answers)
            BY <1>10 DEF OnLoginAnswer, IpcTypeOK
        <3>2. Head(toLua) \in Answers
            BY <3>1
        <3> QED BY <3>2 DEF Answers
    <2>2. \E r \in Replies : Tell(Head(toLua).conn, r)
        BY <1>10, MessageTypes DEF OnLoginAnswer
    <2>3. InQueue("close", o2w[c]) => InQueue("close", o2w'[c])
        BY <2>1, <2>2, RepliesGrow
    <2>4. UNCHANGED <<conn, w2o>>
        BY <1>10 DEF OnLoginAnswer
    <2> QED BY <1>2, <2>3, <2>4
<1>11. CASE OnSafeStop
    <2>1. UNCHANGED <<conn, w2o>>
        BY <1>11 DEF OnSafeStop, SafeStop
    <2> QED BY <1>2, <1>11, <2>1, RepliesGrow
<1>12. CASE UNCHANGED <<conn, w2o, o2w>>
    BY <1>2, <1>12
<1>13. OnTick \/ OnStop \/ Dbsvrgo \/ LinkDown \/ LinkUp \/ UNCHANGED vars
         => UNCHANGED <<conn, w2o, o2w>>
    BY DEF OnTick, OnStop, Dbsvrgo, DbSelect, DbWrite, LinkDown, LinkUp, vars
<1>14. ASSUME NEW d \in Conns, Client(d) PROVE Doomed(c)'
    BY <1>4, <1>5, <1>6, <1>14, MessageTypes
       DEF Client, ClientSendsLogin, ClientSendsExample, PeerCloses
<1>15. ASSUME NEW d \in Conns, Worker(d) PROVE Doomed(c)'
    BY <1>6, <1>7, <1>15 DEF Worker, WorkerCloses
<1> QED BY <1>9, <1>10, <1>11, <1>12, <1>13, <1>14, <1>15 DEF Next

LEMMA NoNewPlayer ==
    ASSUME [Next]_vars, safeStop
    PROVE  players' \subseteq players
<1>1. \A c \in Conns : OnNewConnection(c) \/ OnCloseConnection(c)
         => players' \subseteq players
    BY DEF OnNewConnection, OnCloseConnection, RemovePlayerByPlayerId
<1>2. OnLoginAnswer => UNCHANGED vmVars
    BY DEF OnLoginAnswer
<1>3. OnTick \/ OnStop => players' \subseteq players
    BY DEF OnTick, OnStop
<1>4. UNCHANGED vmVars => players' \subseteq players
    BY DEF vmVars
<1> QED BY <1>1, <1>2, <1>3, <1>4, VMChanges

LEMMA OnlySafeStopStops ==
    ASSUME [Next]_vars
    PROVE  UNCHANGED safeStop \/ OnSafeStop
<1>1. ASSUME NEW c \in Conns, Client(c) \/ Worker(c) PROVE UNCHANGED safeStop
    BY <1>1 DEF Client, NewConnection, ClientSendsLogin, ClientSendsExample,
        ClientSends, PeerCloses, ConnectionEnds, Worker, WorkerReceives,
        WorkerCloses, ctlVars
<1>2. ASSUME NEW c \in Conns, VM(c) PROVE UNCHANGED safeStop
    BY <1>2 DEF VM, OnNewConnection, OnCloseConnection, OnExample,
        OnLoginRequest, ctlVars
<1>3. OnLoginAnswer \/ OnTick \/ OnStop => UNCHANGED safeStop
    BY DEF OnLoginAnswer, OnTick, OnStop, ctlVars
<1>4. Dbsvrgo \/ LinkDown \/ LinkUp \/ UNCHANGED vars => UNCHANGED safeStop
    BY DEF Dbsvrgo, DbSelect, DbWrite, LinkDown, LinkUp, vars, ctlVars
<1> QED BY <1>1, <1>2, <1>3, <1>4 DEF Next

LEMMA StopStep ==
    ASSUME TypeOK, TypeOK', QueueOrder, PlayersAreOnline,
           StopReachesEveryPlayer, [Next]_vars
    PROVE  StopReachesEveryPlayer'
<1> SUFFICES ASSUME safeStop', NEW c \in Conns, c \in players'
             PROVE  Doomed(c)'
    <2>1. players' \subseteq Conns
        BY DEF TypeOK, VMTypeOK
    <2> QED BY <2>1 DEF StopReachesEveryPlayer, Doomed
<1>1. CASE safeStop
    <2>1. c \in players
        BY <1>1, NoNewPlayer
    <2>2. Doomed(c)
        BY <1>1, <2>1 DEF StopReachesEveryPlayer, Doomed
    <2> QED BY <2>2, DoomedStep
<1>2. CASE ~safeStop
    <2>1. OnSafeStop
        BY <1>2, OnlySafeStopStops
    <2>2. /\ players' = players /\ UNCHANGED <<conn, w2o>>
          /\ c \in players => o2w'[c] = Append(o2w[c], "close")
        BY <2>1 DEF OnSafeStop, SafeStop, vmVars
    <2>3. c \in online /\ InQueue("close", o2w'[c])
        <3>1. "close" \in Replies
            BY DEF Replies
        <3> QED BY <2>2, <3>1, InQueueAppend
                DEF PlayersAreOnline, TypeOK, ConnTypeOK
    <2>4. conn[c] # "idle"
        BY <2>3 DEF QueueOrder
    <2>5. conn[c] = "closed" => InQueue(Event("close"), w2o[c])
        BY <2>3, LastIsClose DEF QueueOrder, TypeOK, ConnTypeOK
    <2> QED BY <2>2, <2>3, <2>4, <2>5 DEF Doomed, TypeOK, ConnTypeOK
<1> QED BY <1>1, <1>2

-----------------------------------------------------------------------------
(* The theorems *)

IInv ==
    /\ TypeOK
    /\ IndexesAgree
    /\ PlayersAreOnline
    /\ QueueOrder
    /\ StopReachesEveryPlayer

LEMMA InitIInv == Init => IInv
<1> SUFFICES ASSUME Init PROVE IInv
    OBVIOUS
<1>1. TypeOK
    BY InitTypeOK
<1>2. IndexesAgree /\ PlayersAreOnline /\ StopReachesEveryPlayer
    BY DEF Init, IndexesAgree, PlayersAreOnline, StopReachesEveryPlayer
<1>3. QueueOrder
    <2>1. DOMAIN <<>> = {}
        OBVIOUS
    <2>2. \A c \in Conns : w2o[c] = <<>> /\ conn[c] = "idle" /\ online = {}
        BY DEF Init
    <2> QED BY <2>1, <2>2 DEF QueueOrder
<1> QED BY <1>1, <1>2, <1>3 DEF IInv

LEMMA IInvStep == IInv /\ [Next]_vars => IInv'
<1> SUFFICES ASSUME IInv, [Next]_vars PROVE IInv'
    OBVIOUS
<1>1. TypeOK'
    BY TypeStep DEF IInv
<1>2. IndexesAgree'
    BY IndexesStep DEF IInv
<1>3. PlayersAreOnline'
    BY OnlineStep DEF IInv
<1>4. QueueOrder'
    BY QueueStep DEF IInv
<1>5. StopReachesEveryPlayer'
    BY <1>1, StopStep DEF IInv
<1> QED BY <1>1, <1>2, <1>3, <1>4, <1>5 DEF IInv

\* The inductive invariant holds in every reachable state.
THEOREM Inductive == Spec => []IInv
<1> QED BY InitIInv, IInvStep, PTL DEF Spec

\* The variables keep their types, for every number of connections, users,
\* requests and safe stops and every combination of faults.
THEOREM TypeCorrect == Spec => []TypeOK
<1>1. IInv => TypeOK
    BY DEF IInv
<1> QED BY <1>1, Inductive, PTL

\* PlayerMgr's two indexes are always inverse and name exactly its players.
THEOREM IndexesCorrect == Spec => []IndexesAgree
<1>1. IInv => IndexesAgree
    BY DEF IInv
<1> QED BY <1>1, Inductive, PTL

\* A player's connection is always one the VM takes to be online: no answer
\* of the database, however late, creates a player for a closed connection.
THEOREM PlayersOnlineCorrect == Spec => []PlayersAreOnline
<1>1. IInv => PlayersAreOnline
    BY DEF IInv
<1> QED BY <1>1, Inductive, PTL

\* A connection that is gone is not online, or its closing is on its way.
THEOREM NoGhostCorrect == Spec => []NoGhostPlayers
<1>1. IInv => NoGhostPlayers
    <2> SUFFICES ASSUME IInv, NEW c \in online,
                        conn[c] \notin {"open", "closing"}
                 PROVE  InQueue(Event("close"), w2o[c])
        BY DEF NoGhostPlayers
    <2>1. c \in Conns /\ conn[c] \in {"idle", "closed"}
        BY DEF IInv, TypeOK, VMTypeOK, ConnTypeOK
    <2>2. w2o[c] \in Seq(Events) /\ w2o[c] # <<>> /\ Last(w2o[c]).type = "close"
        BY <2>1 DEF IInv, TypeOK, ConnTypeOK, QueueOrder
    <2> QED BY <2>2, LastIsClose
<1> QED BY <1>1, Inductive, PTL

\* After the safe stop the order to disconnect is under way for every
\* remaining player, or has been obeyed.
THEOREM StopReachesCorrect == Spec => []StopReachesEveryPlayer
<1>1. IInv => StopReachesEveryPlayer
    BY DEF IInv
<1> QED BY <1>1, Inductive, PTL

\* Once the safe stop has begun no step creates a player.
THEOREM NoPlayerAfterStopCorrect == Spec => NoPlayerAfterStop
<1>1. [Next]_vars => [safeStop => players' \subseteq players]_vars
    BY NoNewPlayer
<1> QED BY <1>1, PTL DEF Spec, NoPlayerAfterStop

-----------------------------------------------------------------------------
(* Refinement: the sessions of the abstract registry, read off the player  *)
(* objects, are what PlayerMgr's user index says.                          *)

Sessions == [u \in Users |-> SessionOf(u)]

SessionsMatch == Sessions = userIdToPlayerId

LEMMA SessionsAreIndex == IInv => SessionsMatch
<1> USE DEF IInv, TypeOK, VMTypeOK
<1> SUFFICES ASSUME IInv, NEW u \in Users
             PROVE  SessionOf(u) = userIdToPlayerId[u]
    BY DEF Sessions, SessionsMatch
<1>1. CASE userIdToPlayerId[u] = None
    <2>1. ~ \E c \in players : record[c].user = u
        BY <1>1, SessionAssumption DEF IndexesAgree
    <2> QED BY <1>1, <2>1 DEF SessionOf
<1>2. CASE userIdToPlayerId[u] # None
    <2>1. /\ userIdToPlayerId[u] \in players
          /\ record[userIdToPlayerId[u]].user = u
        BY <1>2 DEF IndexesAgree
    <2>2. \A c \in players : record[c].user = u => c = userIdToPlayerId[u]
        BY DEF IndexesAgree
    <2> QED BY <2>1, <2>2 DEF SessionOf
<1> QED BY <1>1, <1>2

LEMMA RegistryInit == IInv /\ Init => Registry!Init
<1> SUFFICES ASSUME IInv, Init PROVE Registry!Init
    OBVIOUS
<1>1. Sessions = userIdToPlayerId
    BY SessionsAreIndex DEF SessionsMatch
<1> QED BY <1>1 DEF Init, Registry!Init, Sessions

LEMMA RegistryStep ==
    ASSUME IInv, SessionsMatch, SessionsMatch', [Next]_vars
    PROVE  [Registry!Next]_Registry!vars
<1> USE DEF IInv, TypeOK, VMTypeOK
<1>1. Sessions = userIdToPlayerId
    BY DEF SessionsMatch
<1>2. Sessions' = userIdToPlayerId'
    BY DEF SessionsMatch
<1>3. CASE UNCHANGED <<userIdToPlayerId, safeStop>>
    BY <1>1, <1>2, <1>3 DEF Registry!vars, Sessions
<1>4. ASSUME NEW c \in Conns, OnCloseConnection(c), c \in players
      PROVE  Registry!Next
    <2>1. /\ playerIdToUserId[c] \in Users
          /\ userIdToPlayerId[playerIdToUserId[c]] # None
        BY <1>4, SessionAssumption DEF IndexesAgree
    <2>2. /\ userIdToPlayerId' = [userIdToPlayerId EXCEPT
                                    ![playerIdToUserId[c]] = None]
          /\ UNCHANGED safeStop
        BY <1>4, <2>1, SessionAssumption
           DEF OnCloseConnection, RemovePlayerByPlayerId, ctlVars
    <2>3. Registry!Close(playerIdToUserId[c])
        BY <1>1, <1>2, <2>1, <2>2 DEF Registry!Close, Sessions
    <2> QED BY <2>1, <2>3 DEF Registry!Next
<1>5. ASSUME OnLoginAnswer, ~UNCHANGED vmVars PROVE Registry!Next
    <2> DEFINE a == Head(toLua)
    <2>1. toLua # <<>> /\ toLua \in Seq(Answers)
        BY <1>5 DEF OnLoginAnswer, IpcTypeOK
    <2>2. a \in Answers
        BY <2>1
    <2>3. a.conn \in Conns /\ a.user \in Users
        BY <2>2 DEF Answers
    <2>4. ~safeStop /\ MayCreatePlayer(a) /\ CreatePlayer(a)
          /\ UNCHANGED safeStop
        BY <1>5 DEF OnLoginAnswer, ctlVars
    <2> HIDE DEF a
    <2>5. a.conn \notin players /\ userIdToPlayerId[a.user] = None
        BY <2>3, <2>4 DEF MayCreatePlayer, UserHasPlayer, IndexesAgree
    <2>6. \A v \in Users : userIdToPlayerId[v] # a.conn
        BY <2>3, <2>5, SessionAssumption DEF IndexesAgree
    <2>7. userIdToPlayerId' = [userIdToPlayerId EXCEPT ![a.user] = a.conn]
        BY <2>4 DEF CreatePlayer
    <2>8. Registry!Open(a.user, a.conn)
        BY <1>1, <1>2, <2>4, <2>5, <2>6, <2>7 DEF Registry!Open, Sessions
    <2> QED BY <2>3, <2>8 DEF Registry!Next
<1>6. ASSUME OnSafeStop PROVE Registry!Next
    <2>1. safeStop' = TRUE /\ UNCHANGED userIdToPlayerId
        BY <1>6 DEF OnSafeStop, SafeStop, vmVars
    <2> QED BY <1>1, <1>2, <2>1 DEF Registry!Next, Registry!Stop, Sessions
<1>7. ASSUME OnStop PROVE Registry!Next
    <2>1. UNCHANGED safeStop
        BY <1>7 DEF OnStop
    <2>2. userIdToPlayerId' = [u \in Users |-> None]
        BY <1>7 DEF OnStop, UserHasPlayer, IndexesAgree
    <2> QED BY <1>1, <1>2, <2>1, <2>2
            DEF Registry!Next, Registry!Shutdown, Sessions
<1>8. ASSUME NEW c \in Conns,
             OnNewConnection(c) \/ (OnCloseConnection(c) /\ c \notin players)
      PROVE  UNCHANGED <<userIdToPlayerId, safeStop>>
    BY <1>8 DEF OnNewConnection, OnCloseConnection, ctlVars
<1>9. OnTick => UNCHANGED <<userIdToPlayerId, safeStop>>
    BY DEF OnTick, ctlVars
<1>10. CASE UNCHANGED vmVars
    BY <1>3, <1>6, <1>10, OnlySafeStopStops DEF vmVars
<1> QED BY <1>3, <1>4, <1>5, <1>7, <1>8, <1>9, <1>10, VMChanges

\* The server implements the abstract registry: a user never has two
\* sessions, a connection never carries two, none opens after the safe stop.
THEOREM Refinement == Spec => ImplementsRegistry
<1>1. /\ IInv /\ SessionsMatch /\ SessionsMatch' /\ [Next]_vars
      => [Registry!Next]_Registry!vars
    BY RegistryStep
<1> QED BY <1>1, SessionsAreIndex, RegistryInit, Inductive, PTL
        DEF Spec, ImplementsRegistry, Registry!Spec

-----------------------------------------------------------------------------
(* Without a fault of the link or of the database, for a user two of whose *)
(* logins were never under way at once: the rows only grow, and a player   *)
(* plays on from the newest record.  PlayersAreNewest is not inductive: it *)
(* needs that the writes under way build on one another, that a login is   *)
(* served after all of them, and that no login is under way for a player.  *)

\* For user u, whose row holds progress p and version v and whose last write is
\* number n: the writes in q build on the row and on one another, and the last
\* of them, or the row when there is none, is number n.
RowsGrow(q, u, p, v, n) ==
    /\ \A i \in DOMAIN q : IsWrite(q[i], u) =>
         /\ p \subseteq q[i].prog
         /\ \A j \in DOMAIN q :
              i < j /\ IsWrite(q[j], u) => q[i].prog \subseteq q[j].prog
         /\ (\A j \in DOMAIN q : i < j => ~IsWrite(q[j], u)) => q[i].ver = n
    /\ (\A i \in DOMAIN q : ~IsWrite(q[i], u)) => v = n

\* At most one login of u is under way, in q or among the answers a; it is
\* served after every write, and its answer is the row as it stands.
OneLogin(q, a, u, p, v) ==
    /\ \A i, j \in DOMAIN q : IsLogin(q[i], u) =>
         /\ IsWrite(q[j], u) => j < i
         /\ IsLogin(q[j], u) => j = i
    /\ \A i \in DOMAIN a : IsGood(a[i], u) =>
         /\ a[i].found => a[i].prog = p /\ a[i].ver = v
         /\ \A j \in DOMAIN q : ~IsWrite(q[j], u) /\ ~IsLogin(q[j], u)
         /\ \A j \in DOMAIN a : IsGood(a[j], u) => j = i

Settled(q, a, u, p, v, n) == RowsGrow(q, u, p, v, n) /\ OneLogin(q, a, u, p, v)

\* Record r of a player of u is the newest, and no login of u is under way.
Owns(q, a, u, p, n, r) ==
    /\ r.ver = n
    /\ p \subseteq r.prog
    /\ \A i \in DOMAIN q :
         ~IsLogin(q[i], u) /\ (IsWrite(q[i], u) => q[i].prog \subseteq r.prog)
    /\ \A i \in DOMAIN a : ~IsGood(a[i], u)

NewestInv ==
    /\ link
    /\ \A u \in Users \ raced :
         /\ Settled(toDb, toLua, u, db[u].prog, db[u].ver, lastVer[u])
         /\ \A c \in players : record[c].user = u =>
              Owns(toDb, toLua, u, db[u].prog, lastVer[u], record[c])

\* A request that neither writes nor logs in.
LEMMA SettledAppend ==
    ASSUME NEW S, NEW q \in Seq(S), NEW e \in S, NEW a, NEW u, NEW p, NEW v, NEW n,
           ~IsWrite(e, u), ~IsLogin(e, u)
    PROVE  /\ Settled(q, a, u, p, v, n) => Settled(Append(q, e), a, u, p, v, n)
           /\ \A r : Owns(q, a, u, p, n, r) => Owns(Append(q, e), a, u, p, n, r)
<1> PICK t : t = Append(q, e)
    OBVIOUS
<1>1. /\ \A i \in DOMAIN q : i \in DOMAIN t /\ t[i] = q[i]
      /\ \A i \in DOMAIN t : i \in DOMAIN q \/ t[i] = e
    BY AppendProps
<1>2. RowsGrow(q, u, p, v, n) => RowsGrow(t, u, p, v, n)
    BY <1>1 DEF RowsGrow
<1>3. OneLogin(q, a, u, p, v) => OneLogin(t, a, u, p, v)
    BY <1>1 DEF OneLogin
<1>4. \A r : Owns(q, a, u, p, n, r) => Owns(t, a, u, p, n, r)
    BY <1>1 DEF Owns
<1> QED BY <1>2, <1>3, <1>4 DEF Settled

\* A player's record is written back: number n + 1.
LEMMA SettledWrite ==
    ASSUME NEW S, NEW q \in Seq(S), NEW e \in S, NEW a, NEW u, NEW p, NEW v, NEW n,
           NEW r, NEW k, Settled(q, a, u, p, v, n), Owns(q, a, u, p, n, r),
           IsWrite(e, u), ~IsLogin(e, u), e.prog = r.prog, e.ver = k
    PROVE  Settled(Append(q, e), a, u, p, v, k)
<1> PICK t, l : t = Append(q, e) /\ l = Len(q) + 1
    OBVIOUS
<1>1. /\ \A i \in DOMAIN q : i \in DOMAIN t /\ t[i] = q[i] /\ i < l
      /\ \A i \in DOMAIN t : i = l \/ (i \in DOMAIN q /\ t[i] = q[i])
      /\ l \in DOMAIN t /\ t[l] = e
      /\ \A i \in DOMAIN t : ~(l < i)
    BY AppendProps
<1>2. RowsGrow(t, u, p, v, k)
    <2>1. ASSUME NEW i \in DOMAIN t, IsWrite(t[i], u)
          PROVE  p \subseteq t[i].prog
        BY <1>1, <2>1 DEF Settled, RowsGrow, Owns
    <2>2. ASSUME NEW i \in DOMAIN t, NEW j \in DOMAIN t, i < j,
                 IsWrite(t[i], u), IsWrite(t[j], u)
          PROVE  t[i].prog \subseteq t[j].prog
        <3>1. i \in DOMAIN q /\ t[i] = q[i]
            BY <1>1, <2>2
        <3>2. CASE j = l
            BY <1>1, <2>2, <3>1, <3>2 DEF Owns
        <3>3. CASE j \in DOMAIN q /\ t[j] = q[j]
            BY <2>2, <3>1, <3>3 DEF Settled, RowsGrow
        <3> QED BY <1>1, <3>2, <3>3
    <2>3. ASSUME NEW i \in DOMAIN t, IsWrite(t[i], u),
                 \A j \in DOMAIN t : i < j => ~IsWrite(t[j], u)
          PROVE  t[i].ver = k
        BY <1>1, <2>3
    <2>4. \E i \in DOMAIN t : IsWrite(t[i], u)
        BY <1>1
    <2> QED BY <2>1, <2>2, <2>3, <2>4 DEF RowsGrow
<1>3. OneLogin(t, a, u, p, v)
    BY <1>1 DEF Settled, OneLogin, Owns
<1> QED BY <1>2, <1>3 DEF Settled

\* A login while none is under way.
LEMMA SettledLogin ==
    ASSUME NEW S, NEW q \in Seq(S), NEW e \in S, NEW a, NEW u, NEW p, NEW v, NEW n,
           Settled(q, a, u, p, v, n), ~IsWrite(e, u),
           \A i \in DOMAIN q : ~IsLogin(q[i], u),
           \A i \in DOMAIN a : ~IsGood(a[i], u)
    PROVE  Settled(Append(q, e), a, u, p, v, n)
<1> PICK t, l : t = Append(q, e) /\ l = Len(q) + 1
    OBVIOUS
<1>1. /\ \A i \in DOMAIN q : i \in DOMAIN t /\ t[i] = q[i] /\ i < l
      /\ \A i \in DOMAIN t : i = l \/ (i \in DOMAIN q /\ t[i] = q[i])
      /\ l \in DOMAIN t /\ t[l] = e
      /\ \A i \in DOMAIN t : ~(l < i)
    BY AppendProps
<1>2. RowsGrow(t, u, p, v, n)
    BY <1>1 DEF Settled, RowsGrow
<1>3. OneLogin(t, a, u, p, v)
    BY <1>1 DEF OneLogin
<1> QED BY <1>2, <1>3 DEF Settled

\* The first request is taken and is not a write: the row stays.
LEMMA SettledTail ==
    ASSUME NEW S, NEW q \in Seq(S), q # <<>>, NEW a, NEW u, NEW p, NEW v, NEW n,
           ~IsWrite(Head(q), u)
    PROVE  /\ Settled(q, a, u, p, v, n) => Settled(Tail(q), a, u, p, v, n)
           /\ \A r : Owns(q, a, u, p, n, r) => Owns(Tail(q), a, u, p, n, r)
<1> PICK t : t = Tail(q)
    OBVIOUS
<1>1. /\ \A i \in DOMAIN t : i + 1 \in DOMAIN q /\ t[i] = q[i + 1]
      /\ \A i \in DOMAIN q : i = 1 \/ (i - 1 \in DOMAIN t /\ t[i - 1] = q[i])
      /\ 1 \in DOMAIN q /\ q[1] = Head(q)
      /\ DOMAIN q \subseteq Nat /\ DOMAIN t \subseteq Nat
    BY TailProps
<1>2. ASSUME RowsGrow(q, u, p, v, n) PROVE RowsGrow(t, u, p, v, n)
    <2>1. ASSUME NEW i \in DOMAIN t, IsWrite(t[i], u)
          PROVE  p \subseteq t[i].prog
        BY <1>1, <1>2, <2>1 DEF RowsGrow
    <2>2. ASSUME NEW i \in DOMAIN t, NEW j \in DOMAIN t, i < j,
                 IsWrite(t[i], u), IsWrite(t[j], u)
          PROVE  t[i].prog \subseteq t[j].prog
        <3>1. i + 1 < j + 1
            BY <1>1, <2>2
        <3> QED BY <1>1, <1>2, <2>2, <3>1 DEF RowsGrow
    <2>3. ASSUME NEW i \in DOMAIN t, IsWrite(t[i], u),
                 \A j \in DOMAIN t : i < j => ~IsWrite(t[j], u)
          PROVE  t[i].ver = n
        <3>1. ASSUME NEW j \in DOMAIN q, i + 1 < j PROVE ~IsWrite(q[j], u)
            <4>1. j # 1 /\ i < j - 1
                BY <1>1, <3>1
            <4> QED BY <1>1, <2>3, <4>1
        <3> QED BY <1>1, <1>2, <2>3, <3>1 DEF RowsGrow
    <2>4. (\A i \in DOMAIN t : ~IsWrite(t[i], u)) => v = n
        BY <1>1, <1>2 DEF RowsGrow
    <2> QED BY <2>1, <2>2, <2>3, <2>4 DEF RowsGrow
<1>3. ASSUME OneLogin(q, a, u, p, v) PROVE OneLogin(t, a, u, p, v)
    <2>1. ASSUME NEW i \in DOMAIN t, NEW j \in DOMAIN t, IsLogin(t[i], u)
          PROVE  /\ IsWrite(t[j], u) => j < i
                 /\ IsLogin(t[j], u) => j = i
        <3>1. /\ IsWrite(t[j], u) => j + 1 < i + 1
              /\ IsLogin(t[j], u) => j + 1 = i + 1
            BY <1>1, <1>3, <2>1 DEF OneLogin
        <3> QED BY <1>1, <3>1
    <2> QED BY <1>1, <1>3, <2>1 DEF OneLogin
<1>4. \A r : Owns(q, a, u, p, n, r) => Owns(t, a, u, p, n, r)
    BY <1>1 DEF Owns
<1> QED BY <1>2, <1>3, <1>4 DEF Settled

\* dbsvrgo serves a write.
LEMMA SettledWritten ==
    ASSUME NEW S, NEW q \in Seq(S), q # <<>>, NEW a, NEW u, NEW p, NEW v, NEW n,
           NEW w, NEW k, IsWrite(Head(q), u), ~IsLogin(Head(q), u),
           w = Head(q).prog, k = Head(q).ver
    PROVE  /\ Settled(q, a, u, p, v, n) => Settled(Tail(q), a, u, w, k, n)
           /\ \A r : Owns(q, a, u, p, n, r) => Owns(Tail(q), a, u, w, n, r)
<1> PICK t : t = Tail(q)
    OBVIOUS
<1>1. /\ \A i \in DOMAIN t : i + 1 \in DOMAIN q /\ t[i] = q[i + 1] /\ 1 < i + 1
      /\ \A i \in DOMAIN q : i = 1 \/ (i - 1 \in DOMAIN t /\ t[i - 1] = q[i])
      /\ 1 \in DOMAIN q /\ q[1] = Head(q)
      /\ DOMAIN q \subseteq Nat /\ DOMAIN t \subseteq Nat
    BY TailProps
<1>2. ASSUME RowsGrow(q, u, p, v, n) PROVE RowsGrow(t, u, w, k, n)
    <2>1. ASSUME NEW i \in DOMAIN t, IsWrite(t[i], u)
          PROVE  w \subseteq t[i].prog
        BY <1>1, <1>2, <2>1 DEF RowsGrow
    <2>2. ASSUME NEW i \in DOMAIN t, NEW j \in DOMAIN t, i < j,
                 IsWrite(t[i], u), IsWrite(t[j], u)
          PROVE  t[i].prog \subseteq t[j].prog
        <3>1. i + 1 < j + 1
            BY <1>1, <2>2
        <3> QED BY <1>1, <1>2, <2>2, <3>1 DEF RowsGrow
    <2>3. ASSUME NEW i \in DOMAIN t, IsWrite(t[i], u),
                 \A j \in DOMAIN t : i < j => ~IsWrite(t[j], u)
          PROVE  t[i].ver = n
        <3>1. ASSUME NEW j \in DOMAIN q, i + 1 < j PROVE ~IsWrite(q[j], u)
            <4>1. j # 1 /\ i < j - 1
                BY <1>1, <3>1
            <4> QED BY <1>1, <2>3, <4>1
        <3> QED BY <1>1, <1>2, <2>3, <3>1 DEF RowsGrow
    <2>4. (\A i \in DOMAIN t : ~IsWrite(t[i], u)) => k = n
        <3> SUFFICES ASSUME \A i \in DOMAIN t : ~IsWrite(t[i], u) PROVE k = n
            OBVIOUS
        <3>1. ASSUME NEW j \in DOMAIN q, 1 < j PROVE ~IsWrite(q[j], u)
            <4>1. j # 1
                BY <1>1, <3>1
            <4> QED BY <1>1, <4>1
        <3> QED BY <1>1, <1>2, <3>1 DEF RowsGrow
    <2> QED BY <2>1, <2>2, <2>3, <2>4 DEF RowsGrow
<1>3. ASSUME OneLogin(q, a, u, p, v) PROVE OneLogin(t, a, u, w, k)
    <2>1. ASSUME NEW i \in DOMAIN t, NEW j \in DOMAIN t, IsLogin(t[i], u)
          PROVE  /\ IsWrite(t[j], u) => j < i
                 /\ IsLogin(t[j], u) => j = i
        <3>1. /\ IsWrite(t[j], u) => j + 1 < i + 1
              /\ IsLogin(t[j], u) => j + 1 = i + 1
            BY <1>1, <1>3, <2>1 DEF OneLogin
        <3> QED BY <1>1, <3>1
    <2>2. \A i \in DOMAIN a : ~IsGood(a[i], u)
        BY <1>1, <1>3 DEF OneLogin
    <2> QED BY <2>1, <2>2 DEF OneLogin
<1>4. \A r : Owns(q, a, u, p, n, r) => Owns(t, a, u, w, n, r)
    BY <1>1 DEF Owns
<1> QED BY <1>2, <1>3, <1>4 DEF Settled

\* An answer that is not that of a login of u with the right password.
LEMMA SettledAnswer ==
    ASSUME NEW S, NEW q, NEW a \in Seq(S), NEW e \in S, NEW u, NEW p, NEW v, NEW n,
           ~IsGood(e, u)
    PROVE  /\ Settled(q, a, u, p, v, n) => Settled(q, Append(a, e), u, p, v, n)
           /\ \A r : Owns(q, a, u, p, n, r) => Owns(q, Append(a, e), u, p, n, r)
<1> PICK t : t = Append(a, e)
    OBVIOUS
<1>1. \A i \in DOMAIN t : (i \in DOMAIN a /\ t[i] = a[i]) \/ t[i] = e
    BY AppendProps
<1>2. OneLogin(q, a, u, p, v) => OneLogin(q, t, u, p, v)
    BY <1>1 DEF OneLogin
<1>3. \A r : Owns(q, a, u, p, n, r) => Owns(q, t, u, p, n, r)
    BY <1>1 DEF Owns
<1> QED BY <1>2, <1>3 DEF Settled

\* dbsvrgo serves a login.
LEMMA SettledServed ==
    ASSUME NEW S, NEW q \in Seq(S), q # <<>>, NEW T, NEW a \in Seq(T), NEW e \in T,
           NEW u, NEW p, NEW v, NEW n, Settled(q, a, u, p, v, n),
           IsLogin(Head(q), u), ~IsWrite(Head(q), u), e.prog = p, e.ver = v
    PROVE  Settled(Tail(q), Append(a, e), u, p, v, n)
<1> PICK s, t, l : s = Tail(q) /\ t = Append(a, e) /\ l = Len(a) + 1
    OBVIOUS
<1>1. /\ \A i \in DOMAIN s : i + 1 \in DOMAIN q /\ s[i] = q[i + 1] /\ 1 < i + 1
      /\ 1 \in DOMAIN q /\ q[1] = Head(q)
      /\ \A i \in DOMAIN q : ~(i < 1)
    BY TailProps
<1>2. \A i \in DOMAIN t : i = l \/ (i \in DOMAIN a /\ t[i] = a[i])
    BY AppendProps
<1>3. t[l] = e
    BY AppendProps
<1>4. RowsGrow(s, u, p, v, n)
    BY SettledTail DEF Settled
<1>5. \A i \in DOMAIN s : ~IsWrite(s[i], u) /\ ~IsLogin(s[i], u)
    BY <1>1 DEF Settled, OneLogin
<1>6. \A i \in DOMAIN a : ~IsGood(a[i], u)
    BY <1>1 DEF Settled, OneLogin
<1>7. OneLogin(s, t, u, p, v)
    BY <1>2, <1>3, <1>5, <1>6 DEF OneLogin
<1> QED BY <1>4, <1>7 DEF Settled

\* The VM meets the first answer: if it is that of a login with the right
\* password, a player created with it is the newest.
LEMMA SettledMet ==
    ASSUME NEW S, NEW q, NEW a \in Seq(S), a # <<>>, NEW u, NEW p, NEW v, NEW n
    PROVE  /\ Settled(q, a, u, p, v, n) => Settled(q, Tail(a), u, p, v, n)
           /\ \A r : Owns(q, a, u, p, n, r) => Owns(q, Tail(a), u, p, n, r)
           /\ \A r : /\ Settled(q, a, u, p, v, n)
                     /\ IsGood(Head(a), u) /\ Head(a).found
                     /\ r.prog = Head(a).prog /\ r.ver = Head(a).ver
                     => Owns(q, Tail(a), u, p, n, r)
<1> PICK t : t = Tail(a)
    OBVIOUS
<1>1. /\ \A i \in DOMAIN t : i + 1 \in DOMAIN a /\ t[i] = a[i + 1] /\ i + 1 # 1
      /\ 1 \in DOMAIN a /\ a[1] = Head(a)
      /\ DOMAIN t \subseteq Nat
    BY TailProps
<1>2. ASSUME OneLogin(q, a, u, p, v) PROVE OneLogin(q, t, u, p, v)
    <2>1. ASSUME NEW i \in DOMAIN t, NEW j \in DOMAIN t,
                 IsGood(t[i], u), IsGood(t[j], u)
          PROVE  i = j
        <3>1. i + 1 = j + 1
            BY <1>1, <1>2, <2>1 DEF OneLogin
        <3> QED BY <1>1, <3>1
    <2> QED BY <1>1, <1>2, <2>1 DEF OneLogin
<1>3. \A r : Owns(q, a, u, p, n, r) => Owns(q, t, u, p, n, r)
    BY <1>1 DEF Owns
<1>4. ASSUME NEW r, Settled(q, a, u, p, v, n), IsGood(Head(a), u), Head(a).found,
             r.prog = Head(a).prog, r.ver = Head(a).ver
      PROVE  Owns(q, t, u, p, n, r)
    <2>1. /\ r.prog = p /\ r.ver = v
          /\ \A j \in DOMAIN q : ~IsWrite(q[j], u) /\ ~IsLogin(q[j], u)
          /\ \A j \in DOMAIN a : IsGood(a[j], u) => j = 1
        BY <1>1, <1>4 DEF Settled, OneLogin
    <2>2. v = n
        BY <1>4, <2>1 DEF Settled, RowsGrow
    <2>3. \A i \in DOMAIN t : ~IsGood(t[i], u)
        BY <1>1, <2>1
    <2> QED BY <2>1, <2>2, <2>3 DEF Owns
<1> QED BY <1>2, <1>3, <1>4 DEF Settled

\* Which actions concern the records on their way, and those of the players.
LEMMA NewestChanges ==
    ASSUME [Next]_vars
    PROVE  \/ UNCHANGED <<link, toDb, toLua, db, lastVer, raced, players, record>>
           \/ \E c \in Conns : OnCloseConnection(c) /\ c \in players
           \/ \E c \in Conns : OnLoginRequest(c)
           \/ OnLoginAnswer \/ OnTick \/ OnStop
           \/ DbSelect \/ DbWrite \/ LinkDown \/ LinkUp
<1> DEFINE Same == UNCHANGED <<link, toDb, toLua, db, lastVer, raced, players,
                               record>>
<1>1. ASSUME NEW c \in Conns, Client(c) \/ Worker(c) PROVE Same
    BY <1>1 DEF Client, NewConnection, ClientSendsLogin, ClientSendsExample,
        ClientSends, PeerCloses, ConnectionEnds, Worker, WorkerReceives,
        WorkerCloses, vmVars, ipcVars, histVars
<1>2. ASSUME NEW c \in Conns,
             \/ OnNewConnection(c) \/ OnExample(c)
             \/ OnCloseConnection(c) /\ c \notin players
      PROVE  Same
    BY <1>2 DEF OnNewConnection, OnExample, OnCloseConnection, vmVars, ipcVars,
                histVars
<1>3. OnSafeStop \/ UNCHANGED vars => Same
    BY DEF OnSafeStop, SafeStop, vars, vmVars, ipcVars, histVars
<1> QED BY <1>1, <1>2, <1>3 DEF Next, VM, Dbsvrgo

LEMMA RequestFacts ==
    ASSUME IInv, NEW c \in Conns
    PROVE  /\ c \in players =>
                LET r == WriteReq(record[c]) IN
                /\ record[c].user \in Users
                /\ r \in Requests /\ IsWrite(r, record[c].user)
                /\ r.op = "write" /\ r.prog = record[c].prog
                /\ r.ver = lastVer[record[c].user] + 1
           /\ OnLoginRequest(c) => \E u \in Users, g \in BOOLEAN :
                LET r == SelectReq(c, u, g) IN
                /\ r \in Requests /\ r.op = "select" /\ r.user = u /\ r.good = g
                /\ \/ UNCHANGED <<toDb, raced>>
                   \/ /\ Send2IPC(r)
                      /\ ~UserHasPlayer(u)
                      /\ raced' = IF g /\ LoginUnderWay(u) THEN raced \cup {u}
                                                           ELSE raced
<1> USE DEF IInv, TypeOK, VMTypeOK, HistTypeOK
<1>1. ASSUME c \in players
      PROVE  LET r == WriteReq(record[c]) IN
             /\ record[c].user \in Users
             /\ r \in Requests /\ IsWrite(r, record[c].user)
             /\ r.op = "write" /\ r.prog = record[c].prog
             /\ r.ver = lastVer[record[c].user] + 1
    <2>1. record[c].user \in Users
        BY <1>1 DEF IndexesAgree
    <2>2. lastVer[record[c].user] \in Nat
        BY <2>1
    <2>3. WriteReq(record[c]) \in Requests
        BY <2>1, <2>2 DEF WriteReq, Requests, Records
    <2> QED BY <2>1, <2>3 DEF WriteReq, IsWrite
<1>2. ASSUME OnLoginRequest(c)
      PROVE  \E u \in Users, g \in BOOLEAN :
               LET r == SelectReq(c, u, g) IN
               /\ r \in Requests /\ r.op = "select" /\ r.user = u /\ r.good = g
               /\ \/ UNCHANGED <<toDb, raced>>
                  \/ /\ Send2IPC(r)
                     /\ ~UserHasPlayer(u)
                     /\ raced' = IF g /\ LoginUnderWay(u) THEN raced \cup {u}
                                                          ELSE raced
    <2> DEFINE e == Head(w2o[c])
    <2>1. e \in Events /\ e.type = "login"
        BY <1>2 DEF OnLoginRequest, Takes, ConnTypeOK
    <2>2. e.user \in Users /\ e.good \in BOOLEAN
        BY <2>1 DEF Events
    <2>3. \/ UNCHANGED <<toDb, raced>>
          \/ /\ Send2IPC(SelectReq(c, e.user, e.good))
             /\ ~UserHasPlayer(e.user)
             /\ raced' = IF e.good /\ LoginUnderWay(e.user)
                           THEN raced \cup {e.user} ELSE raced
        BY <1>2 DEF OnLoginRequest
    <2> HIDE DEF e
    <2>4. SelectReq(c, e.user, e.good) \in Requests
        BY <2>2 DEF SelectReq, Requests
    <2>5. /\ SelectReq(c, e.user, e.good).op = "select"
          /\ SelectReq(c, e.user, e.good).user = e.user
          /\ SelectReq(c, e.user, e.good).good = e.good
        BY DEF SelectReq
    <2> QED BY <2>2, <2>3, <2>4, <2>5
<1> QED BY <1>1, <1>2

LEMMA NewestStep ==
    ASSUME "link" \notin Faults, "db" \notin Faults,
           IInv, IInv', NewestInv, [Next]_vars
    PROVE  NewestInv'
<1>1. /\ toDb \in Seq(Requests) /\ toLua \in Seq(Answers)
      /\ record \in [Conns -> Records] /\ players \subseteq Conns
    BY DEF IInv, TypeOK, IpcTypeOK, VMTypeOK
<1>2. /\ link
      /\ \A u \in Users \ raced :
           /\ Settled(toDb, toLua, u, db[u].prog, db[u].ver, lastVer[u])
           /\ \A c \in players : record[c].user = u =>
                Owns(toDb, toLua, u, db[u].prog, lastVer[u], record[c])
    BY DEF NewestInv
<1>3. CASE UNCHANGED <<link, toDb, toLua, db, lastVer, raced, players, record>>
    BY <1>2, <1>3 DEF NewestInv
\* The record of the player is written back, and its user has no other.
<1>4. ASSUME NEW c \in Conns, OnCloseConnection(c), c \in players
      PROVE  NewestInv'
    <2>1. PICK r, x : r = WriteReq(record[c]) /\ x = record[c].user
        OBVIOUS
    <2>2. /\ x \in Users /\ r \in Requests /\ IsWrite(r, x) /\ r.op = "write"
          /\ r.prog = record[c].prog /\ r.ver = lastVer[x] + 1
        BY <1>4, <2>1, RequestFacts
    <2>3. /\ toDb' = Append(toDb, r) /\ UNCHANGED <<link, toLua, db, raced>>
          /\ lastVer' = [lastVer EXCEPT ![x] = @ + 1]
          /\ players' = players \ {c}
          /\ record' = [record EXCEPT ![c] = NoRecord]
        BY <1>2, <1>4, <2>1
           DEF OnCloseConnection, OnLogout, Send2IPC, RemovePlayerByPlayerId
    <2>4. \A u \in Users : lastVer'[u] = IF u = x THEN r.ver ELSE lastVer[u]
        BY <2>2, <2>3 DEF IInv, TypeOK, HistTypeOK
    <2>5. \A d \in players' : d \in players /\ d # c /\ record'[d] = record[d]
        BY <1>1, <2>3
    <2>6. \A d \in players' : record'[d].user # x
        BY <1>1, <1>4, <2>1, <2>5 DEF IInv, IndexesAgree
    <2>7. \A u : ~IsLogin(r, u) /\ (IsWrite(r, u) => u = x)
        BY <2>2 DEF IsLogin, IsWrite
    <2>8. ASSUME NEW u \in Users \ raced
          PROVE  /\ Settled(toDb', toLua', u, db'[u].prog, db'[u].ver, lastVer'[u])
                 /\ \A d \in players' : record'[d].user = u =>
                      Owns(toDb', toLua', u, db'[u].prog, lastVer'[u], record'[d])
        <3>1. CASE u = x
            <4>1. Settled(Append(toDb, r), toLua, u, db[u].prog, db[u].ver, r.ver)
                BY <1>1, <1>2, <1>4, <2>1, <2>2, <2>7, <3>1, SettledWrite
            <4> QED BY <2>3, <2>4, <2>6, <3>1, <4>1
        <3>2. CASE u # x
            <4>1. ~IsWrite(r, u) /\ ~IsLogin(r, u)
                BY <2>7, <3>2
            <4>2. /\ Settled(Append(toDb, r), toLua, u, db[u].prog, db[u].ver,
                             lastVer[u])
                  /\ \A d \in players : record[d].user = u =>
                       Owns(Append(toDb, r), toLua, u, db[u].prog, lastVer[u],
                            record[d])
                BY <1>1, <1>2, <2>2, <4>1, SettledAppend
            <4> QED BY <2>3, <2>4, <2>5, <3>2, <4>2
        <3> QED BY <3>1, <3>2
    <2> QED BY <1>2, <2>3, <2>8 DEF NewestInv
\* The login is the only one of its user under way, and its user has no player.
<1>5. ASSUME NEW c \in Conns, OnLoginRequest(c)
      PROVE  NewestInv'
    <2>1. UNCHANGED <<link, toLua, db, lastVer, players, record>>
        BY <1>5 DEF OnLoginRequest, vmVars
    <2>2. CASE UNCHANGED <<toDb, raced>>
        BY <1>2, <2>1, <2>2 DEF NewestInv
    <2>3. ASSUME NEW x \in Users, NEW g \in BOOLEAN, NEW r \in Requests,
                 r.op = "select", r.user = x, r.good = g, Send2IPC(r),
                 ~UserHasPlayer(x),
                 raced' = IF g /\ LoginUnderWay(x) THEN raced \cup {x} ELSE raced
          PROVE  NewestInv'
        <3>1. toDb' = Append(toDb, r)
            BY <1>2, <2>3 DEF Send2IPC
        <3>2. /\ \A u : ~IsWrite(r, u)
              /\ \A u : IsLogin(r, u) => u = x /\ g
            BY <2>3 DEF IsWrite, IsLogin, IsGood
        <3>3. \A d \in players : record[d].user # x
            BY <1>1, <2>3 DEF IInv, IndexesAgree, UserHasPlayer
        <3>4. ASSUME NEW u \in Users \ raced'
              PROVE  /\ Settled(toDb', toLua, u, db[u].prog, db[u].ver, lastVer[u])
                     /\ \A d \in players : record[d].user = u =>
                          Owns(toDb', toLua, u, db[u].prog, lastVer[u], record[d])
            <4>1. u \in Users \ raced
                BY <2>3
            <4>2. CASE IsLogin(r, u)
                <5>1. u = x /\ ~LoginUnderWay(u)
                    BY <2>3, <3>2, <3>4, <4>2
                <5>2. /\ \A i \in DOMAIN toDb : ~IsLogin(toDb[i], u)
                      /\ \A i \in DOMAIN toLua : ~IsGood(toLua[i], u)
                    BY <5>1 DEF LoginUnderWay
                <5>3. Settled(Append(toDb, r), toLua, u, db[u].prog, db[u].ver,
                              lastVer[u])
                    BY <1>1, <1>2, <2>3, <3>2, <4>1, <5>2, SettledLogin
                <5> QED BY <3>1, <3>3, <5>1, <5>3
            <4>3. CASE ~IsLogin(r, u)
                BY <1>1, <1>2, <2>3, <3>1, <3>2, <4>1, <4>3, SettledAppend
            <4> QED BY <4>2, <4>3
        <3> QED BY <1>2, <2>1, <3>4 DEF NewestInv
    <2> QED BY <1>5, <2>2, <2>3, RequestFacts
\* A new player has the row as it stands, which nothing under way will change.
<1>6. ASSUME OnLoginAnswer PROVE NewestInv'
    <2>1. PICK a : a = Head(toLua)
        OBVIOUS
    <2>2. /\ toLua # <<>> /\ toLua' = Tail(toLua)
          /\ UNCHANGED <<link, toDb, db, lastVer, raced>>
          /\ \/ UNCHANGED <<players, record>>
             \/ a.found /\ a.good /\ MayCreatePlayer(a) /\ CreatePlayer(a)
        <3>1. /\ toLua # <<>> /\ toLua' = Tail(toLua)
              /\ UNCHANGED <<link, toDb, db, histVars>>
            BY <1>6 DEF OnLoginAnswer
        <3>2. \/ UNCHANGED vmVars
              \/ a.found /\ a.good /\ MayCreatePlayer(a) /\ CreatePlayer(a)
            BY <1>6, <2>1 DEF OnLoginAnswer
        <3> QED BY <3>1, <3>2 DEF vmVars, histVars
    <2>3. a.conn \in Conns /\ a.user \in Users
        <3>1. a \in Answers
            BY <1>1, <2>1, <2>2
        <3> QED BY <3>1 DEF Answers
    <2>4. ASSUME NEW u \in Users \ raced
          PROVE  /\ Settled(toDb, Tail(toLua), u, db[u].prog, db[u].ver, lastVer[u])
                 /\ \A d \in players : record[d].user = u =>
                      Owns(toDb, Tail(toLua), u, db[u].prog, lastVer[u], record[d])
        BY <1>1, <1>2, <2>2, SettledMet
    <2>5. CASE UNCHANGED <<players, record>>
        BY <1>2, <2>2, <2>4, <2>5 DEF NewestInv
    <2>6. CASE a.found /\ a.good /\ MayCreatePlayer(a) /\ CreatePlayer(a)
        <3>1. PICK r : r = [user |-> a.user, prog |-> a.prog, ver |-> a.ver]
            OBVIOUS
        <3>2. /\ players' = players \cup {a.conn} /\ a.conn \notin players
              /\ record' = [record EXCEPT ![a.conn] = r]
            BY <2>6, <3>1 DEF CreatePlayer, MayCreatePlayer
        <3>3. record'[a.conn] = r /\ \A d \in players : record'[d] = record[d]
            BY <1>1, <2>3, <3>2
        <3>4. r.user = a.user /\ r.prog = a.prog /\ r.ver = a.ver
            BY <3>1
        <3>5. ASSUME a.user \notin raced
              PROVE  Owns(toDb, Tail(toLua), a.user, db[a.user].prog,
                          lastVer[a.user], r)
            <4>1. IsGood(a, a.user)
                BY <2>6 DEF IsGood
            <4>2. Settled(toDb, toLua, a.user, db[a.user].prog, db[a.user].ver,
                          lastVer[a.user])
                BY <1>2, <2>3, <3>5
            <4> QED BY <1>1, <2>1, <2>2, <2>6, <3>4, <4>1, <4>2, SettledMet
        <3>6. ASSUME NEW u \in Users \ raced, NEW d \in players',
                     record'[d].user = u
              PROVE  Owns(toDb, Tail(toLua), u, db[u].prog, lastVer[u], record'[d])
            <4>1. CASE d = a.conn
                BY <3>3, <3>4, <3>5, <3>6, <4>1
            <4>2. CASE d \in players
                BY <2>4, <3>3, <3>6, <4>2
            <4> QED BY <3>2, <4>1, <4>2
        <3> QED BY <1>2, <2>2, <2>4, <3>6 DEF NewestInv
    <2> QED BY <2>2, <2>5, <2>6
<1>7. ASSUME OnTick PROVE NewestInv'
    <2>1. UNCHANGED <<link, toDb, toLua, db, lastVer, raced, players>>
        BY <1>7 DEF OnTick, ipcVars
    <2>2. ASSUME NEW d \in players
          PROVE  /\ record'[d].user = record[d].user
                 /\ record'[d].ver = record[d].ver
                 /\ record[d].prog \subseteq record'[d].prog
        <3>1. record'[d] = [record[d] EXCEPT !.prog = @ \cup {d}]
            BY <1>1, <1>7 DEF OnTick
        <3>2. record[d] \in Records
            BY <1>1
        <3> QED BY <3>1, <3>2 DEF Records
    <2>3. ASSUME NEW u \in Users \ raced, NEW d \in players, record'[d].user = u
          PROVE  Owns(toDb, toLua, u, db[u].prog, lastVer[u], record'[d])
        <3>1. Owns(toDb, toLua, u, db[u].prog, lastVer[u], record[d])
            BY <1>2, <2>2, <2>3
        <3> QED BY <2>2, <3>1 DEF Owns
    <2> QED BY <1>2, <2>1, <2>3 DEF NewestInv
<1>8. ASSUME OnStop PROVE NewestInv'
    <2>1. players' = {} /\ UNCHANGED <<link, toDb, toLua, db, lastVer, raced>>
        BY <1>8 DEF OnStop, ipcVars, histVars
    <2> QED BY <1>2, <2>1 DEF NewestInv
\* A login is answered with the row as it stands.
<1>9. ASSUME DbSelect PROVE NewestInv'
    <2>1. PICK m, e : m = Head(toDb) /\ e = LoginAnswer(m, TRUE)
        OBVIOUS
    <2>2. /\ toDb # <<>> /\ m.op = "select" /\ toDb' = Tail(toDb)
          /\ UNCHANGED <<link, db, lastVer, raced, players, record>>
          /\ UNCHANGED toLua \/ toLua' = Append(toLua, e)
        BY <1>9, <2>1 DEF DbSelect, vmVars, histVars
    <2>3. m \in Requests
        BY <1>1, <2>1, <2>2
    <2>4. e \in Answers
        <3>1. m.conn \in Conns /\ m.user \in Users /\ m.good \in BOOLEAN
            BY <2>2, <2>3 DEF Requests
        <3> QED BY <2>1, <3>1 DEF LoginAnswer, Answers, IInv, TypeOK, IpcTypeOK
    <2>5. /\ e.user = m.user /\ e.good = m.good
          /\ e.prog = db[m.user].prog /\ e.ver = db[m.user].ver
        BY <2>1 DEF LoginAnswer
    <2>6. /\ \A u : ~IsWrite(m, u)
          /\ \A u : IsLogin(m, u) => u = m.user
          /\ \A u : IsGood(e, u) => IsLogin(m, u)
        BY <2>2, <2>5 DEF IsWrite, IsLogin, IsGood
    <2>7. ASSUME NEW u \in Users \ raced
          PROVE  /\ Settled(toDb', toLua', u, db[u].prog, db[u].ver, lastVer[u])
                 /\ \A d \in players : record[d].user = u =>
                      Owns(toDb', toLua', u, db[u].prog, lastVer[u], record[d])
        <3>1. /\ Settled(toDb', toLua, u, db[u].prog, db[u].ver, lastVer[u])
              /\ \A d \in players : record[d].user = u =>
                   Owns(toDb', toLua, u, db[u].prog, lastVer[u], record[d])
            BY <1>1, <1>2, <2>1, <2>2, <2>6, SettledTail
        <3>2. CASE UNCHANGED toLua
            BY <3>1, <3>2
        <3>3. CASE toLua' = Append(toLua, e) /\ ~IsGood(e, u)
            BY <1>1, <2>4, <3>1, <3>3, SettledAnswer
        <3>4. CASE toLua' = Append(toLua, e) /\ IsGood(e, u)
            <4>1. IsLogin(m, u) /\ u = m.user
                BY <2>6, <3>4
            <4>2. \A d \in players : record[d].user # u
                BY <1>1, <1>2, <2>1, <2>2, <4>1, TailProps DEF Owns
            <4>3. Settled(Tail(toDb), Append(toLua, e), u, db[u].prog, db[u].ver,
                          lastVer[u])
                BY <1>1, <1>2, <2>1, <2>2, <2>4, <2>5, <2>6, <4>1, SettledServed
            <4> QED BY <2>2, <3>4, <4>2, <4>3
        <3> QED BY <2>2, <3>2, <3>3, <3>4
    <2> QED BY <1>2, <2>2, <2>7 DEF NewestInv
<1>10. ASSUME DbWrite PROVE NewestInv'
    <2>1. PICK m : m = Head(toDb)
        OBVIOUS
    <2>2. /\ toDb # <<>> /\ m.op = "write" /\ toDb' = Tail(toDb)
          /\ UNCHANGED <<link, toLua, lastVer, raced, players, record>>
          /\ db' = [db EXCEPT ![m.user] = [prog |-> m.prog, ver |-> m.ver]]
        BY <1>10, <2>1 DEF DbWrite, vmVars, histVars
    <2>3. /\ \A u : ~IsLogin(m, u)
          /\ \A u : IsWrite(m, u) <=> u = m.user
        BY <2>2 DEF IsWrite, IsLogin
    <2>4. \A u \in Users :
             db'[u] = IF u = m.user THEN [prog |-> m.prog, ver |-> m.ver]
                                    ELSE db[u]
        BY <2>2 DEF IInv, TypeOK, IpcTypeOK
    <2>5. ASSUME NEW u \in Users \ raced
          PROVE  /\ Settled(toDb', toLua, u, db'[u].prog, db'[u].ver, lastVer[u])
                 /\ \A d \in players : record[d].user = u =>
                      Owns(toDb', toLua, u, db'[u].prog, lastVer[u], record[d])
        <3>1. CASE u = m.user
            <4>1. db'[u].prog = m.prog /\ db'[u].ver = m.ver
                BY <2>4, <3>1
            <4> QED BY <1>1, <1>2, <2>1, <2>2, <2>3, <3>1, <4>1, SettledWritten
        <3>2. CASE u # m.user
            <4>1. db'[u] = db[u] /\ ~IsWrite(m, u)
                BY <2>3, <2>4, <3>2
            <4> QED BY <1>1, <1>2, <2>1, <2>2, <4>1, SettledTail
        <3> QED BY <3>1, <3>2
    <2> QED BY <1>2, <2>2, <2>5 DEF NewestInv
<1>11. ~LinkDown /\ ~LinkUp
    BY <1>2 DEF LinkDown, LinkUp
<1> QED BY <1>3, <1>4, <1>5, <1>6, <1>7, <1>8, <1>9, <1>10, <1>11, NewestChanges

LEMMA NewestInductive ==
    ASSUME "link" \notin Faults, "db" \notin Faults
    PROVE  Spec => []NewestInv
<1>1. Init => NewestInv
    <2> SUFFICES ASSUME Init PROVE NewestInv
        OBVIOUS
    <2>1. /\ toDb = <<>> /\ toLua = <<>> /\ link /\ players = {}
          /\ \A u \in Users : db[u].ver = 0 /\ lastVer[u] = 0
        BY DEF Init
    <2> QED BY <2>1, EmptySeq DEF NewestInv, Settled, RowsGrow, OneLogin
<1>2. IInv /\ IInv' /\ NewestInv /\ [Next]_vars => NewestInv'
    BY NewestStep
<1> QED BY <1>1, <1>2, Inductive, PTL DEF Spec

\* As long as the link holds and the database serves every request, whoever
\* plays has the newest record of the user, and what is on its way to the row
\* is in it, for every user two of whose logins were never under way at once.
THEOREM NewestCorrect ==
    ASSUME "link" \notin Faults, "db" \notin Faults
    PROVE  Spec => []PlayersAreNewest
<1>1. IInv /\ NewestInv => PlayersAreNewest
    <2> SUFFICES ASSUME IInv, NewestInv, NEW c \in players,
                        record[c].user \notin raced
                 PROVE  LET u == record[c].user IN
                        /\ record[c].ver = lastVer[u]
                        /\ db[u].prog \subseteq record[c].prog
                        /\ \A i \in DOMAIN toDb :
                             IsWrite(toDb[i], u) => toDb[i].prog \subseteq record[c].prog
        BY DEF PlayersAreNewest
    <2>1. record[c].user \in Users
        BY DEF IInv, TypeOK, VMTypeOK, IndexesAgree
    <2> QED BY <2>1 DEF NewestInv, Owns
<1> QED BY <1>1, NewestInductive, Inductive, PTL

\* The rows of the users whose logins never raced keep what they hold.
RowsKeep == NothingIsTakenBack(Users \ raced)

\* Under the same assumptions no step takes back what the row of such a user
\* held: the lost update of SavedStaysSaved needs two logins under way at once.
THEOREM OnlyRacesTakeBack ==
    ASSUME "link" \notin Faults, "db" \notin Faults
    PROVE  Spec => [][RowsKeep]_vars
<1>1. IInv /\ NewestInv /\ [Next]_vars => [RowsKeep]_vars
    <2> SUFFICES ASSUME IInv, NewestInv, [Next]_vars, NEW u \in Users \ raced
                 PROVE  db[u].prog \subseteq db'[u].prog
        BY DEF RowsKeep, NothingIsTakenBack
    <2>1. CASE DbWrite
        <3>1. PICK q : q = toDb
            OBVIOUS
        <3>2. /\ q # <<>> /\ q \in Seq(Requests) /\ Head(q).op = "write"
              /\ \/ db' = [db EXCEPT ![Head(q).user] =
                             [prog |-> Head(q).prog, ver |-> Head(q).ver]]
                 \/ UNCHANGED db
            BY <2>1, <3>1 DEF DbWrite, IInv, TypeOK, IpcTypeOK
        <3>3. 1 \in DOMAIN q /\ q[1] = Head(q)
            BY <3>2, TailProps
        <3>4. IsWrite(q[1], u) => db[u].prog \subseteq q[1].prog
            BY <3>1, <3>3 DEF NewestInv, Settled, RowsGrow
        <3> QED BY <3>2, <3>3, <3>4 DEF IsWrite, IInv, TypeOK, IpcTypeOK
    <2>2. CASE UNCHANGED db
        BY <2>2
    <2>3. DbWrite \/ UNCHANGED db
        <3>1. ASSUME NEW c \in Conns, OnCloseConnection(c) \/ OnLoginRequest(c)
              PROVE  UNCHANGED db
            BY <3>1 DEF OnCloseConnection, OnLoginRequest
        <3>2. OnLoginAnswer \/ OnTick \/ OnStop => UNCHANGED db
            BY DEF OnLoginAnswer, OnTick, OnStop, ipcVars
        <3>3. DbSelect \/ LinkDown \/ LinkUp => UNCHANGED db
            BY DEF DbSelect, LinkDown, LinkUp
        <3> QED BY <3>1, <3>2, <3>3, NewestChanges
    <2> QED BY <2>1, <2>2, <2>3
<1> QED BY <1>1, NewestInductive, Inductive, PTL DEF Spec

-----------------------------------------------------------------------------
(* The safe stop loses nothing, as long as nothing fails.  A connection is *)
(* reported as new once, so a session that has ended is never played       *)
(* again; and after the safe stop no player of its user is left whose      *)
(* record could overwrite what it has written.                             *)

SessionsOnce ==
    \A c \in Conns :
        /\ \A i \in DOMAIN w2o[c] :
             w2o[c][i].type = "new" => i = 1 /\ c \notin online /\ c \notin played
        /\ conn[c] = "idle" => c \notin played
        /\ c \in played /\ c \notin players => c \notin online
        /\ c \in played /\ c \in players => c \in record[c].prog

\* The row of u will hold session c when dbsvrgo has served all of q; p is
\* what it holds now.
Persisted(q, p, c, u) ==
    \/ \E i \in DOMAIN q :
         /\ IsWrite(q[i], u) /\ c \in q[i].prog
         /\ \A j \in DOMAIN q : i < j => ~IsWrite(q[j], u)
    \/ c \in p /\ \A j \in DOMAIN q : ~IsWrite(q[j], u)

\* Session c of user u is still there, or it was the user's last and its play
\* is on its way to the row.
Saved(c, u) ==
    \/ c \in players /\ record[c].user = u
    \/ /\ c \notin players
       /\ \A p \in players : record[p].user # u
       /\ c \in played => Persisted(toDb, db[u].prog, c, u)

StopInv ==
    /\ ~safeStop => \A c \in Conns : atStop[c] = None
    /\ \A c \in Conns : atStop[c] # None => Saved(c, atStop[c])

PersistInv == link /\ SessionsOnce /\ StopInv

\* Which actions concern the requests to dbsvrgo and the rows.
LEMMA IpcChanges ==
    ASSUME [Next]_vars
    PROVE  \/ UNCHANGED <<link, toDb, db, lastVer>>
           \/ \E c \in Conns : OnCloseConnection(c) /\ c \in players
           \/ \E c \in Conns : OnLoginRequest(c)
           \/ DbSelect \/ DbWrite \/ LinkDown \/ LinkUp
<1>1. ASSUME NEW c \in Conns, Client(c) \/ Worker(c)
      PROVE  UNCHANGED <<link, toDb, db, lastVer>>
    BY <1>1 DEF Client, NewConnection, ClientSendsLogin, ClientSendsExample,
        ClientSends, PeerCloses, ConnectionEnds, Worker, WorkerReceives,
        WorkerCloses, ipcVars, histVars
<1>2. ASSUME NEW c \in Conns,
             \/ OnNewConnection(c) \/ OnExample(c)
             \/ OnCloseConnection(c) /\ c \notin players
      PROVE  UNCHANGED <<link, toDb, db, lastVer>>
    BY <1>2 DEF OnNewConnection, OnExample, OnCloseConnection, ipcVars, histVars
<1>3. OnLoginAnswer \/ OnTick \/ OnSafeStop \/ OnStop \/ UNCHANGED vars
        => UNCHANGED <<link, toDb, db, lastVer>>
    BY DEF OnLoginAnswer, OnTick, OnSafeStop, SafeStop, OnStop, vars, ipcVars,
           histVars
<1> QED BY <1>1, <1>2, <1>3 DEF Next, VM, Dbsvrgo

\* Only a tick lets a session play.
LEMMA PlayedChanges ==
    ASSUME [Next]_vars
    PROVE  UNCHANGED played \/ OnTick
<1>1. ASSUME NEW c \in Conns, Client(c) \/ Worker(c) \/ VM(c)
      PROVE  UNCHANGED played
    BY <1>1 DEF Client, NewConnection, ClientSendsLogin, ClientSendsExample,
        ClientSends, PeerCloses, ConnectionEnds, Worker, WorkerReceives,
        WorkerCloses, VM, OnNewConnection, OnExample, OnCloseConnection,
        OnLoginRequest, histVars
<1>2. OnLoginAnswer \/ OnSafeStop \/ OnStop \/ Dbsvrgo \/ LinkDown \/ LinkUp
        \/ UNCHANGED vars => UNCHANGED played
    BY DEF OnLoginAnswer, OnSafeStop, SafeStop, OnStop, Dbsvrgo, DbSelect,
           DbWrite, LinkDown, LinkUp, vars, histVars
<1> QED BY <1>1, <1>2 DEF Next

\* How the player and the play of one connection may change.
PlayChange(c) ==
    /\ c \notin online /\ c \in online' => OnNewConnection(c)
    /\ c \in players /\ c \notin players' => OnCloseConnection(c)
    /\ c \notin players /\ c \in players' =>
         c \in online /\ c \in online' /\ ~safeStop /\ UNCHANGED played
    /\ c \in players /\ c \in players' =>
         /\ record'[c].user = record[c].user
         /\ c \in record[c].prog => c \in record'[c].prog
    /\ c \notin played /\ c \in played' =>
         /\ c \in players /\ UNCHANGED <<players, online>>
         /\ c \in record'[c].prog
    /\ c \in played => c \in played'

LEMMA PlayChanges ==
    ASSUME "stop" \notin Faults, IInv, [Next]_vars, NEW c \in Conns
    PROVE  PlayChange(c)
<1>1. CASE OnTick
    <2>1. UNCHANGED <<online, players>> /\ played' = played \cup players
        BY <1>1 DEF OnTick
    <2>2. ASSUME c \in players
          PROVE  record'[c].user = record[c].user /\ c \in record'[c].prog
        <3>1. record'[c] = [record[c] EXCEPT !.prog = @ \cup {c}]
            BY <1>1, <2>2 DEF OnTick
        <3>2. record[c] \in Records
            BY DEF IInv, TypeOK, VMTypeOK
        <3> QED BY <3>1, <3>2 DEF Records
    <2> QED BY <2>1, <2>2 DEF PlayChange
<1>2. CASE UNCHANGED vmVars /\ UNCHANGED played
    BY <1>2 DEF PlayChange, vmVars
<1>3. ASSUME NEW d \in Conns, OnNewConnection(d), UNCHANGED played
      PROVE  PlayChange(c)
    <2>1. online' = online \cup {d} /\ UNCHANGED <<players, record>>
        BY <1>3 DEF OnNewConnection
    <2> QED BY <1>3, <2>1 DEF PlayChange
<1>4. ASSUME NEW d \in Conns, OnCloseConnection(d), UNCHANGED played
      PROVE  PlayChange(c)
    <2>1. online' = online \ {d}
        BY <1>4 DEF OnCloseConnection
    <2>2. \/ UNCHANGED <<players, record>>
          \/ /\ players' = players \ {d}
             /\ record' = [record EXCEPT ![d] = NoRecord]
        BY <1>4 DEF OnCloseConnection, RemovePlayerByPlayerId
    <2>3. c # d => record'[c] = record[c]
        BY <2>2 DEF IInv, TypeOK, VMTypeOK
    <2> QED BY <1>4, <2>1, <2>2, <2>3 DEF PlayChange
<1>5. ASSUME OnLoginAnswer, UNCHANGED played PROVE PlayChange(c)
    <2>1. PICK a : a = Head(toLua)
        OBVIOUS
    <2>2. \/ UNCHANGED vmVars
          \/ ~safeStop /\ MayCreatePlayer(a) /\ CreatePlayer(a) /\ UNCHANGED online
        BY <1>5, <2>1 DEF OnLoginAnswer
    <2>3. CASE ~safeStop /\ MayCreatePlayer(a) /\ CreatePlayer(a)
               /\ UNCHANGED online
        <3>1. /\ a.conn \in online /\ a.conn \notin players
              /\ players' = players \cup {a.conn}
              /\ c # a.conn => record'[c] = record[c]
            BY <2>3 DEF MayCreatePlayer, CreatePlayer, IInv, TypeOK, VMTypeOK
        <3>2. played' = played
            BY <1>5
        <3>3. online' = online /\ ~safeStop
            BY <2>3
        <3>4. c \in players => c \in players' /\ c # a.conn
            BY <3>1
        <3>5. c \notin players /\ c \in players' => c = a.conn
            BY <3>1
        <3>6. c \in players => record'[c] = record[c]
            BY <3>1, <3>4
        <3> QED BY <3>1, <3>2, <3>3, <3>4, <3>5, <3>6 DEF PlayChange
    <2> QED BY <1>2, <1>5, <2>2, <2>3
<1>6. ~OnStop
    BY DEF OnStop
<1> QED BY <1>1, <1>2, <1>3, <1>4, <1>5, <1>6, PlayedChanges, VMChanges

\* How the tunnel of a connection may change: a connection is reported as new
\* when it is accepted and never again.
TunnelChange(c) ==
    \/ UNCHANGED <<w2o[c]>>
    \/ conn[c] = "idle" /\ w2o'[c] = Append(w2o[c], Event("new"))
    \/ \E e \in Events : e.type # "new" /\ w2o'[c] = Append(w2o[c], e)
    \/ w2o[c] # <<>> /\ w2o'[c] = Tail(w2o[c])

LEMMA TunnelChanges ==
    ASSUME TypeOK, [Next]_vars, NEW c \in Conns
    PROVE  /\ TunnelChange(c)
           /\ conn'[c] = "idle" => conn[c] = "idle"
<1> USE DEF TypeOK, ConnTypeOK
<1>1. CASE UNCHANGED <<conn, w2o>>
    BY <1>1 DEF TunnelChange
<1>2. ASSUME NEW d \in Conns, NewConnection(d)
      PROVE  TunnelChange(c) /\ (conn'[c] = "idle" => conn[c] = "idle")
    BY <1>2 DEF NewConnection, TunnelChange
<1>3. ASSUME NEW d \in Conns, ClientSendsLogin(d) \/ ClientSendsExample(d)
      PROVE  TunnelChange(c) /\ (conn'[c] = "idle" => conn[c] = "idle")
    <2>1. \E e \in Events : e.type # "new" /\ ClientSends(d, e)
        <3>1. \A u \in Users, g \in BOOLEAN : LoginEvent(u, g).type # "new"
            BY DEF LoginEvent
        <3>2. Event("example").type # "new"
            BY DEF Event
        <3> QED BY <1>3, <3>1, <3>2, MessageTypes
                DEF ClientSendsLogin, ClientSendsExample
    <2>2. PICK e \in Events : e.type # "new" /\ ClientSends(d, e)
        BY <2>1
    <2>3. w2o' = [w2o EXCEPT ![d] = Append(@, e)] /\ UNCHANGED conn
        BY <2>2 DEF ClientSends
    <2> QED BY <2>2, <2>3 DEF TunnelChange
<1>4. ASSUME NEW d \in Conns, PeerCloses(d) \/ WorkerCloses(d)
      PROVE  TunnelChange(c) /\ (conn'[c] = "idle" => conn[c] = "idle")
    <2>1. Event("close") \in Events /\ Event("close").type # "new"
        BY MessageTypes DEF Event
    <2>2. /\ w2o' = [w2o EXCEPT ![d] = Append(@, Event("close"))]
          /\ conn' = [conn EXCEPT ![d] = "closed"]
        BY <1>4 DEF PeerCloses, WorkerCloses, ConnectionEnds
    <2> QED BY <2>1, <2>2 DEF TunnelChange
<1>5. ASSUME NEW d \in Conns, WorkerReceives(d)
      PROVE  TunnelChange(c) /\ (conn'[c] = "idle" => conn[c] = "idle")
    BY <1>5 DEF WorkerReceives, TunnelChange
<1>6. ASSUME NEW d \in Conns, VM(d)
      PROVE  TunnelChange(c) /\ (conn'[c] = "idle" => conn[c] = "idle")
    <2>1. /\ UNCHANGED conn /\ w2o[d] # <<>>
          /\ w2o' = [w2o EXCEPT ![d] = Tail(@)]
        BY <1>6 DEF VM, OnNewConnection, OnCloseConnection, OnExample,
                    OnLoginRequest, Takes
    <2> QED BY <2>1 DEF TunnelChange
<1>7. OnLoginAnswer \/ OnTick \/ OnSafeStop \/ OnStop \/ Dbsvrgo \/ LinkDown
        \/ LinkUp \/ UNCHANGED vars => UNCHANGED <<conn, w2o>>
    BY DEF OnLoginAnswer, OnTick, OnSafeStop, SafeStop, OnStop, Dbsvrgo,
           DbSelect, DbWrite, LinkDown, LinkUp, vars
<1> QED BY <1>1, <1>2, <1>3, <1>4, <1>5, <1>6, <1>7
        DEF Next, Client, Worker

LEMMA OnceStep ==
    ASSUME "stop" \notin Faults, IInv, IInv', SessionsOnce, [Next]_vars
    PROVE  SessionsOnce'
<1> SUFFICES ASSUME NEW c \in Conns
             PROVE  /\ \A i \in DOMAIN w2o'[c] : w2o'[c][i].type = "new" =>
                         i = 1 /\ c \notin online' /\ c \notin played'
                    /\ conn'[c] = "idle" => c \notin played'
                    /\ c \in played' /\ c \notin players' => c \notin online'
                    /\ c \in played' /\ c \in players' => c \in record'[c].prog
    BY DEF SessionsOnce
<1>1. /\ \A i \in DOMAIN w2o[c] : w2o[c][i].type = "new" =>
           i = 1 /\ c \notin online /\ c \notin played
      /\ conn[c] = "idle" => c \notin played
      /\ c \in played /\ c \notin players => c \notin online
      /\ c \in played /\ c \in players => c \in record[c].prog
    BY DEF SessionsOnce
<1>2. PlayChange(c) /\ TunnelChange(c) /\ (conn'[c] = "idle" => conn[c] = "idle")
    BY PlayChanges, TunnelChanges DEF IInv
<1>3. /\ c \in players => c \in online
      /\ w2o[c] \in Seq(Events)
      /\ conn[c] = "idle" => w2o[c] = <<>> /\ c \notin online
    BY DEF IInv, PlayersAreOnline, TypeOK, ConnTypeOK, QueueOrder
<1>4. ASSUME OnNewConnection(c)
      PROVE  /\ w2o[c] # <<>> /\ w2o'[c] = Tail(w2o[c])
             /\ w2o[c][1].type = "new" /\ 1 \in DOMAIN w2o[c]
    <2>1. w2o[c] # <<>> /\ Head(w2o[c]).type = "new" /\ w2o'[c] = Tail(w2o[c])
        BY <1>4 DEF OnNewConnection, Takes, IInv, TypeOK, ConnTypeOK
    <2> QED BY <1>3, <2>1, TailProps
<1>5. conn'[c] = "idle" => c \notin played'
    BY <1>1, <1>2, <1>3 DEF PlayChange
<1>6. c \in played' /\ c \notin players' => c \notin online'
    <2>1. OnCloseConnection(c) => c \notin online'
        BY DEF OnCloseConnection
    <2> QED BY <1>1, <1>2, <1>4, <2>1 DEF PlayChange
<1>7. c \in played' /\ c \in players' => c \in record'[c].prog
    BY <1>1, <1>2 DEF PlayChange
<1>8. ASSUME NEW i \in DOMAIN w2o'[c], w2o'[c][i].type = "new"
      PROVE  i = 1 /\ c \notin online' /\ c \notin played'
    <2>1. PICK q, t : q = w2o[c] /\ t = w2o'[c]
        OBVIOUS
    <2>2. c \notin online /\ c \notin played /\ ~OnNewConnection(c) =>
            c \notin online' /\ c \notin played'
        BY <1>2, <1>3 DEF PlayChange
    <2>3. CASE t = q
        <3>1. ~OnNewConnection(c)
            <4>1. Tail(q) # q \/ q = <<>>
                <5>1. q \in Seq(Events)
                    BY <1>3, <2>1
                <5>2. q # <<>> => Len(Tail(q)) = Len(q) - 1 /\ Len(q) \in Nat
                    BY <5>1, TailProps
                <5> QED BY <5>2
            <4> QED BY <1>4, <2>1, <2>3, <4>1
        <3> QED BY <1>1, <1>8, <2>1, <2>2, <2>3, <3>1
    <2>4. CASE conn[c] = "idle" /\ t = Append(q, Event("new"))
        <3>1. q = <<>>
            BY <1>3, <2>1, <2>4
        <3>2. i = 1
            BY <1>8, <2>1, <2>4, <3>1
        <3>3. c \notin online /\ c \notin played /\ ~OnNewConnection(c)
            BY <1>1, <1>3, <1>4, <2>1, <2>4, <3>1
        <3> QED BY <2>2, <3>2, <3>3
    <2>5. ASSUME NEW e \in Events, e.type # "new", t = Append(q, e)
          PROVE  i = 1 /\ c \notin online' /\ c \notin played'
        <3>1. q \in Seq(Events)
            BY <1>3, <2>1
        <3>2. i \in DOMAIN q /\ t[i] = q[i]
            BY <1>8, <2>1, <2>5, <3>1, AppendProps
        <3>3. Len(t) = Len(q) + 1 /\ Len(q) \in Nat
            BY <2>5, <3>1, AppendProps
        <3>4. ~OnNewConnection(c)
            <4>1. q # <<>> => Len(Tail(q)) = Len(q) - 1
                BY <3>1, TailProps
            <4>2. q # <<>> => t # Tail(q)
                BY <3>3, <4>1
            <4> QED BY <1>4, <2>1, <4>2
        <3> QED BY <1>1, <1>8, <2>1, <2>2, <3>2, <3>4
    <2>6. CASE q # <<>> /\ t = Tail(q)
        <3>1. q \in Seq(Events)
            BY <1>3, <2>1
        <3>2. i + 1 \in DOMAIN q /\ t[i] = q[i + 1] /\ i \in Nat /\ i # 0
            BY <1>8, <2>1, <2>6, <3>1, TailProps
        <3>3. i + 1 = 1
            BY <1>1, <1>8, <2>1, <3>2
        <3> QED BY <3>2, <3>3
    <2> QED BY <1>2, <2>1, <2>3, <2>4, <2>5, <2>6 DEF TunnelChange
<1> QED BY <1>5, <1>6, <1>7, <1>8

\* A request that does not write u's row changes nothing.
LEMMA PersistedAppend ==
    ASSUME NEW q \in Seq(Requests), NEW e \in Requests, NEW p, NEW c, NEW u,
           Persisted(q, p, c, u), ~IsWrite(e, u)
    PROVE  Persisted(Append(q, e), p, c, u)
<1>1. PICK t : t = Append(q, e)
    OBVIOUS
<1>2. \A j \in DOMAIN t : (j \in DOMAIN q /\ t[j] = q[j]) \/ t[j] = e
    BY <1>1, AppendProps
<1>3. \A i \in DOMAIN q : i \in DOMAIN t /\ t[i] = q[i]
    BY <1>1, AppendProps
<1>4. \A j \in DOMAIN t : ~IsWrite(t[j], u) \/ (j \in DOMAIN q /\ t[j] = q[j])
    BY <1>2
<1> QED BY <1>1, <1>3, <1>4 DEF Persisted

\* A write with session c at the end of the queue settles it.
LEMMA PersistedLast ==
    ASSUME NEW q \in Seq(Requests), NEW e \in Requests, NEW p, NEW c, NEW u,
           IsWrite(e, u), c \in e.prog
    PROVE  Persisted(Append(q, e), p, c, u)
<1>1. PICK t, n : t = Append(q, e) /\ n = Len(q)
    OBVIOUS
<1>2. n \in Nat /\ DOMAIN t = 1..n + 1 /\ t[n + 1] = e
    BY <1>1, AppendProps
<1>3. n + 1 \in DOMAIN t /\ \A j \in DOMAIN t : ~(n + 1 < j)
    BY <1>2
<1> QED BY <1>1, <1>2, <1>3 DEF Persisted

\* dbsvrgo serves the first request: r is what the row holds afterwards.
LEMMA PersistedTail ==
    ASSUME NEW q \in Seq(Requests), q # <<>>, NEW p, NEW r, NEW c, NEW u,
           Persisted(q, p, c, u),
           IsWrite(Head(q), u) => r = Head(q).prog,
           ~IsWrite(Head(q), u) => r = p
    PROVE  Persisted(Tail(q), r, c, u)
<1>1. PICK t : t = Tail(q)
    OBVIOUS
<1>2. /\ Head(q) = q[1] /\ 1 \in DOMAIN q
      /\ \A j \in DOMAIN t : j + 1 \in DOMAIN q /\ t[j] = q[j + 1] /\ 1 < j + 1
      /\ \A i \in DOMAIN q : i # 1 => i - 1 \in DOMAIN t /\ t[i - 1] = q[i]
      /\ \A i \in DOMAIN q, j \in DOMAIN t : i - 1 < j => i < j + 1
    BY <1>1, TailProps
<1>3. ASSUME NEW i \in DOMAIN q, IsWrite(q[i], u), c \in q[i].prog,
             \A j \in DOMAIN q : i < j => ~IsWrite(q[j], u)
      PROVE  Persisted(t, r, c, u)
    <2>1. CASE i = 1
        <3>1. c \in r
            BY <1>2, <1>3, <2>1
        <3>2. \A j \in DOMAIN t : ~IsWrite(t[j], u)
            BY <1>2, <1>3, <2>1
        <3> QED BY <3>1, <3>2 DEF Persisted
    <2>2. CASE i # 1
        <3>1. PICK k : k = i - 1
            OBVIOUS
        <3>2. k \in DOMAIN t /\ IsWrite(t[k], u) /\ c \in t[k].prog
            BY <1>2, <1>3, <2>2, <3>1
        <3>3. \A j \in DOMAIN t : k < j => ~IsWrite(t[j], u)
            BY <1>2, <1>3, <3>1
        <3> QED BY <3>2, <3>3 DEF Persisted
    <2> QED BY <2>1, <2>2
<1>4. ASSUME c \in p, \A j \in DOMAIN q : ~IsWrite(q[j], u)
      PROVE  Persisted(t, r, c, u)
    <2>1. c \in r
        BY <1>2, <1>4
    <2>2. \A j \in DOMAIN t : ~IsWrite(t[j], u)
        BY <1>2, <1>4
    <2> QED BY <2>1, <2>2 DEF Persisted
<1> QED BY <1>1, <1>3, <1>4 DEF Persisted

\* Only a player of u writes u's row: without one the play of c stays saved.
LEMMA PersistedStep ==
    ASSUME "link" \notin Faults, "db" \notin Faults, IInv, link, [Next]_vars,
           NEW c \in Conns, NEW u \in Users,
           \A p \in players : record[p].user # u,
           Persisted(toDb, db[u].prog, c, u)
    PROVE  Persisted(toDb', db'[u].prog, c, u)
<1>1. toDb \in Seq(Requests)
    BY DEF IInv, TypeOK, IpcTypeOK
<1>2. CASE UNCHANGED <<link, toDb, db, lastVer>>
    BY <1>2
<1>3. ASSUME NEW d \in Conns, OnCloseConnection(d), d \in players
      PROVE  Persisted(toDb', db'[u].prog, c, u)
    <2>1. PICK r : r = WriteReq(record[d])
        OBVIOUS
    <2>2. r \in Requests /\ IsWrite(r, record[d].user)
        BY <1>3, <2>1, RequestFacts
    <2>3. toDb' = Append(toDb, r) /\ UNCHANGED db
        BY <1>3, <2>1 DEF OnCloseConnection, OnLogout, Send2IPC
    <2>4. ~IsWrite(r, u)
        BY <1>3, <2>2 DEF IsWrite
    <2> QED BY <1>1, <2>2, <2>3, <2>4, PersistedAppend
<1>4. ASSUME NEW d \in Conns, OnLoginRequest(d)
      PROVE  Persisted(toDb', db'[u].prog, c, u)
    <2>1. UNCHANGED db
        BY <1>4 DEF OnLoginRequest
    <2>2. CASE UNCHANGED toDb
        BY <2>1, <2>2
    <2>3. ASSUME NEW x \in Users, NEW r \in Requests, r.op = "select",
                 Send2IPC(r)
          PROVE  Persisted(toDb', db'[u].prog, c, u)
        <3>1. toDb' = Append(toDb, r) /\ ~IsWrite(r, u)
            BY <2>3 DEF Send2IPC, IsWrite
        <3> QED BY <1>1, <2>1, <3>1, PersistedAppend
    <2> QED BY <1>4, <2>2, <2>3, RequestFacts
<1>5. ASSUME DbSelect \/ DbWrite
      PROVE  Persisted(toDb', db'[u].prog, c, u)
    <2>1. /\ toDb # <<>> /\ toDb' = Tail(toDb)
          /\ \/ Head(toDb).op = "select" /\ UNCHANGED db
             \/ /\ Head(toDb).op = "write"
                /\ db' = [db EXCEPT ![Head(toDb).user] =
                            [prog |-> Head(toDb).prog, ver |-> Head(toDb).ver]]
        BY <1>5 DEF DbSelect, DbWrite
    <2>2. PICK p, r : p = db[u].prog /\ r = db'[u].prog
        OBVIOUS
    <2>3. /\ IsWrite(Head(toDb), u) => r = Head(toDb).prog
          /\ ~IsWrite(Head(toDb), u) => r = p
        BY <2>1, <2>2 DEF IsWrite, IInv, TypeOK, IpcTypeOK
    <2>4. Persisted(Tail(toDb), r, c, u)
        BY <1>1, <2>1, <2>2, <2>3, PersistedTail
    <2> QED BY <2>1, <2>2, <2>4
<1>6. ~LinkDown /\ ~LinkUp
    BY DEF LinkDown, LinkUp
<1> QED BY <1>2, <1>3, <1>4, <1>5, <1>6, IpcChanges

LEMMA SavedStep ==
    ASSUME Faults = {}, IInv, link, SessionsOnce, [Next]_vars, safeStop,
           NEW c \in Conns, NEW u \in Users, Saved(c, u)
    PROVE  Saved(c, u)'
<1>1. players' \subseteq players /\ players \subseteq Conns
    BY NoNewPlayer DEF IInv, TypeOK, VMTypeOK
<1>2. \A p \in Conns : PlayChange(p)
    BY PlayChanges
<1>3. \A p \in players' : record'[p].user = record[p].user
    BY <1>1, <1>2 DEF PlayChange
<1>4. CASE c \in players'
    BY <1>1, <1>3, <1>4 DEF Saved
<1>5. CASE c \in players /\ c \notin players'
    <2>1. record[c].user = u /\ OnCloseConnection(c)
        BY <1>2, <1>5 DEF Saved, PlayChange
    <2>2. \A p \in players' : record'[p].user # u
        <3>1. \A p \in players : record[p].user = u => p = c
            BY <1>1, <1>5, <2>1 DEF IInv, IndexesAgree
        <3> QED BY <1>1, <1>3, <1>5, <3>1
    <2>3. PICK r : r = WriteReq(record[c])
        OBVIOUS
    <2>4. r \in Requests /\ IsWrite(r, u) /\ r.prog = record[c].prog
        BY <1>5, <2>1, <2>3, RequestFacts
    <2>5. toDb' = Append(toDb, r) /\ played' = played
        BY <1>5, <2>1, <2>3 DEF OnCloseConnection, OnLogout, Send2IPC
    <2>6. c \in played => c \in r.prog
        BY <1>5, <2>4 DEF SessionsOnce
    <2>7. toDb \in Seq(Requests)
        BY DEF IInv, TypeOK, IpcTypeOK
    <2>8. c \in played' => Persisted(toDb', db'[u].prog, c, u)
        BY <2>4, <2>5, <2>6, <2>7, PersistedLast
    <2> QED BY <1>5, <2>2, <2>8 DEF Saved
<1>6. CASE c \notin players
    <2>1. /\ \A p \in players : record[p].user # u
          /\ c \in played => Persisted(toDb, db[u].prog, c, u)
        BY <1>6 DEF Saved
    <2>2. c \in played' => c \in played
        BY <1>2, <1>6 DEF PlayChange
    <2>3. c \in played => Persisted(toDb', db'[u].prog, c, u)
        BY <2>1, PersistedStep
    <2>4. \A p \in players' : record'[p].user # u
        BY <1>1, <1>3, <2>1
    <2> QED BY <1>1, <1>6, <2>2, <2>3, <2>4 DEF Saved
<1> QED BY <1>4, <1>5, <1>6

LEMMA AtStopChanges ==
    ASSUME [Next]_vars
    PROVE  \/ UNCHANGED <<safeStop, atStop>>
           \/ OnSafeStop
<1>1. ASSUME NEW c \in Conns, Client(c) \/ Worker(c) \/ VM(c)
      PROVE  UNCHANGED <<safeStop, atStop>>
    BY <1>1 DEF Client, NewConnection, ClientSendsLogin, ClientSendsExample,
        ClientSends, PeerCloses, ConnectionEnds, Worker, WorkerReceives,
        WorkerCloses, VM, OnNewConnection, OnExample, OnCloseConnection,
        OnLoginRequest, ctlVars
<1>2. OnLoginAnswer \/ OnTick \/ OnStop \/ Dbsvrgo \/ LinkDown \/ LinkUp
        \/ UNCHANGED vars => UNCHANGED <<safeStop, atStop>>
    BY DEF OnLoginAnswer, OnTick, OnStop, Dbsvrgo, DbSelect, DbWrite, LinkDown,
           LinkUp, vars, ctlVars
<1> QED BY <1>1, <1>2 DEF Next

LEMMA PersistStep ==
    ASSUME Faults = {}, IInv, IInv', PersistInv, [Next]_vars
    PROVE  PersistInv'
<1>1. link /\ SessionsOnce
    BY DEF PersistInv
<1>2. /\ ~safeStop => \A c \in Conns : atStop[c] = None
      /\ \A c \in Conns : atStop[c] # None => Saved(c, atStop[c])
      /\ \A c \in Conns : atStop[c] # None => atStop[c] \in Users
    BY DEF PersistInv, StopInv, IInv, TypeOK, CtlTypeOK
<1>3. SessionsOnce'
    BY <1>1, OnceStep
<1>4. link'
    <2>1. ~LinkDown
        BY DEF LinkDown
    <2>2. ASSUME NEW c \in Conns, OnCloseConnection(c) \/ OnLoginRequest(c)
          PROVE  link' = link
        BY <2>2 DEF OnCloseConnection, OnLoginRequest
    <2>3. DbSelect \/ DbWrite => link' = link
        BY DEF DbSelect, DbWrite
    <2>4. LinkUp => link'
        BY DEF LinkUp
    <2> QED BY <1>1, <2>1, <2>2, <2>3, <2>4, IpcChanges
<1>5. ASSUME UNCHANGED <<safeStop, atStop>> PROVE StopInv'
    <2>1. ASSUME NEW c \in Conns, atStop[c] # None
          PROVE  Saved(c, atStop[c])'
        <3>1. PICK u \in Users : u = atStop[c]
            BY <1>2, <2>1
        <3>2. safeStop /\ Saved(c, u)
            BY <1>2, <2>1, <3>1
        <3>3. Saved(c, u)'
            BY <1>1, <3>2, SavedStep
        <3> QED BY <1>5, <3>1, <3>3
    <2> QED BY <1>2, <1>5, <2>1 DEF StopInv
<1>6. ASSUME OnSafeStop PROVE StopInv'
    <2>1. /\ safeStop' = TRUE
          /\ atStop' = IF safeStop THEN atStop ELSE playerIdToUserId
          /\ UNCHANGED <<players, record>>
        BY <1>6 DEF OnSafeStop, SafeStop, vmVars
    <2>2. CASE safeStop
        <3>1. ASSUME NEW c \in Conns, atStop'[c] # None
              PROVE  Saved(c, atStop[c])'
            <4>1. PICK u \in Users : u = atStop[c]
                BY <1>2, <2>1, <2>2, <3>1
            <4>2. Saved(c, u)
                BY <1>2, <2>1, <2>2, <3>1, <4>1
            <4>3. Saved(c, u)'
                BY <1>1, <2>2, <4>2, SavedStep
            <4> QED BY <2>1, <2>2, <4>1, <4>3
        <3> QED BY <2>1, <2>2, <3>1 DEF StopInv
    <2>3. CASE ~safeStop
        <3>1. ASSUME NEW c \in Conns, atStop'[c] # None
              PROVE  c \in players' /\ record'[c].user = atStop'[c]
            <4>1. playerIdToUserId[c] # None /\ atStop'[c] = playerIdToUserId[c]
                BY <2>1, <2>3, <3>1
            <4> QED BY <2>1, <4>1 DEF IInv, IndexesAgree
        <3> QED BY <2>1, <3>1 DEF StopInv, Saved
    <2> QED BY <2>2, <2>3
<1> QED BY <1>3, <1>4, <1>5, <1>6, AtStopChanges DEF PersistInv

\* "Persisting all player data to the database": as long as the link and the
\* database serve and the process is not killed, what a session that is live
\* when the safe stop arrives has achieved is in its record, on its way to the
\* database or in its row, for any number of users and connections, until the
\* end.
THEOREM StopPersistsCorrect ==
    ASSUME Faults = {}
    PROVE  Spec => []SafeStopPersists
<1>1. Init => PersistInv
    <2> SUFFICES ASSUME Init PROVE PersistInv
        OBVIOUS
    <2>1. SessionsOnce
        <3>1. DOMAIN <<>> = {}
            OBVIOUS
        <3>2. played = {} /\ \A c \in Conns : w2o[c] = <<>>
            BY DEF Init
        <3> QED BY <3>1, <3>2 DEF SessionsOnce
    <2> QED BY <2>1 DEF Init, PersistInv, StopInv
<1>2. IInv /\ IInv' /\ PersistInv /\ [Next]_vars => PersistInv'
    BY PersistStep
<1>3. IInv /\ PersistInv => SafeStopPersists
    <2> SUFFICES ASSUME IInv, PersistInv, NEW c \in played, atStop[c] # None
                 PROVE  Kept(c, atStop[c])
        BY DEF SafeStopPersists
    <2>1. c \in Conns
        BY DEF IInv, TypeOK, HistTypeOK
    <2>2. Saved(c, atStop[c]) /\ (c \in players => c \in record[c].prog)
        BY <2>1 DEF PersistInv, StopInv, SessionsOnce
    <2> QED BY <2>2 DEF Saved, Persisted, Kept, IsWrite
<1> QED BY <1>1, <1>2, <1>3, Inductive, PTL DEF Spec
=============================================================================
