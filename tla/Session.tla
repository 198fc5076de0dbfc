------------------------------ MODULE Session ------------------------------
(***************************************************************************)
(* Client sessions of the map server: a connection is accepted by a worker *)
(* thread, the worker forwards its events to the Lua VM of the "other"     *)
(* thread, a login asks the database service dbsvrgo for the user's record *)
(* and the answer, some time later, creates the Player; closing the        *)
(* connection, or the safe stop, ends the session and writes the record    *)
(* back.                                                                   *)
(*                                                                         *)
(* Four places run concurrently and are joined by FIFO queues: the worker  *)
(* of a connection (conn), the Lua VM (online, players, the two indexes,   *)
(* record), and dbsvrgo (db).  w2o and o2w are the tunnels between a       *)
(* worker and the VM, kept per connection since two connections may live   *)
(* on different workers; toDb and toLua are the two directions of the IPC  *)
(* connection, toDb including the channel of dbsvrgo's worker goroutine.   *)
(*                                                                         *)
(* The data of a player is abstracted to what can get lost: prog is the    *)
(* set of sessions (named by their connection) whose play is in the        *)
(* record, ver counts the writes of the record.                            *)
(***************************************************************************)
EXTENDS Naturals, Sequences

CONSTANTS
    Conns,        \* connections ("gid_workerIdx"); a gid is never used twice
    Users,        \* user ids, all registered in the database
    None,         \* Lua's nil
    MaxRequests,  \* bound: requests the client of each connection sends
    MaxStops,     \* bound: safe stop datagrams that reach the server
    Faults        \* what may go wrong: "link", "db", "stop"

ASSUME SessionAssumption ==
    /\ None \notin Conns
    /\ None \notin Users
    /\ MaxRequests \in [Conns -> Nat]
    /\ MaxStops \in Nat
    /\ Faults \subseteq {"link", "db", "stop"}

VARIABLES
    conn,              \* worker: connection -> its state
    w2o,               \* tunnel worker -> VM, per connection
    o2w,               \* tunnel VM -> worker, per connection
    online,            \* PlayerMgr.playerIdOnlineList
    players,           \* keys of PlayerMgr.players
    userIdToPlayerId,  \* PlayerMgr.userIdToPlayerId
    playerIdToUserId,  \* PlayerMgr.playerIdToUserId
    record,            \* Player.DbUserRecord, per connection
    safeStop,          \* MapSvr.safeStop
    running,           \* the process has not been stopped
    link,              \* the IPC connection is up and authenticated
    toDb,              \* requests on their way to, or queued in, dbsvrgo
    toLua,             \* answers of dbsvrgo on their way to the VM
    db,                \* table db_user_record
    sent,              \* history: requests each client has sent
    stops,             \* history: safe stops received
    lastVer,           \* history: user -> writes of its record sent so far
    played,            \* history: sessions whose play changed their record
    raced,             \* history: users with two logins on their way at once
    atStop             \* history: connection -> its user at the safe stop

vmVars == <<online, players, userIdToPlayerId, playerIdToUserId, record>>
ctlVars == <<safeStop, running, stops, atStop>>
ipcVars == <<link, toDb, toLua, db>>
histVars == <<sent, lastVer, played, raced>>
vars == <<conn, w2o, o2w, vmVars, ctlVars, ipcVars, histVars>>

-----------------------------------------------------------------------------
(* Data *)

\* What a worker tells the VM about a connection.
Events == [type : {"new", "close", "example"}, user : {None}, good : {FALSE}]
          \cup [type : {"login"}, user : Users, good : BOOLEAN]

Event(t) == [type |-> t, user |-> None, good |-> FALSE]

\* good: the password of the request is the one in the database.
LoginEvent(u, g) == [type |-> "login", user |-> u, good |-> g]

\* What the VM tells the worker: to close the connection, or a package to
\* forward to the client (the code of a ProtoCSResLogin, or an example).
Replies == {"close", "ok", "notmatch", "stopped", "example"}

Records == [user : Users \cup {None}, prog : SUBSET Conns, ver : Nat]

NoRecord == [user |-> None, prog |-> {}, ver |-> 0]

\* SelectDbUserRecordLoginReq
SelectReq(c, u, g) ==
    [op |-> "select", conn |-> c, user |-> u, good |-> g, prog |-> {}, ver |-> 0]

\* (faulty variant: the record is sent without its key)
WriteReqWithoutKey(r) ==
    [op |-> "write", conn |-> None, user |-> None, good |-> FALSE,
     prog |-> r.prog, ver |-> lastVer[r.user] + 1]

\* PROTO_CMD_DBSVRGO_WRITE_DBUSERRECORD_REQ with OP_REPLACE.
WriteReq(r) ==
    [op |-> "write", conn |-> None, user |-> r.user, good |-> FALSE,
     prog |-> r.prog, ver |-> lastVer[r.user] + 1]

Requests == [op : {"select"}, conn : Conns, user : Users, good : BOOLEAN,
             prog : {{}}, ver : {0}]
            \cup [op : {"write"}, conn : {None}, user : Users, good : {FALSE},
                  prog : SUBSET Conns, ver : Nat]

\* SelectDbUserRecordLoginRes; found is ret = 0.
Answers == [conn : Conns, user : Users, good : BOOLEAN, found : BOOLEAN,
            prog : SUBSET Conns, ver : Nat]

LoginAnswer(m, f) ==
    [conn |-> m.conn, user |-> m.user, good |-> m.good, found |-> f,
     prog |-> IF f THEN db[m.user].prog ELSE {},
     ver |-> IF f THEN db[m.user].ver ELSE 0]

IsWrite(m, u) == m.op = "write" /\ m.user = u

\* A request, or an answer, of a login of u with the right password.
IsGood(m, u) == m.user = u /\ m.good
IsLogin(m, u) == m.op = "select" /\ IsGood(m, u)

InQueue(e, q) == \E i \in DOMAIN q : q[i] = e

ConnTypeOK ==
    /\ conn \in [Conns -> {"idle", "open", "closing", "closed"}]
    /\ w2o \in [Conns -> Seq(Events)]
    /\ o2w \in [Conns -> Seq(Replies)]

VMTypeOK ==
    /\ online \in SUBSET Conns
    /\ players \in SUBSET Conns
    /\ userIdToPlayerId \in [Users -> Conns \cup {None}]
    /\ playerIdToUserId \in [Conns -> Users \cup {None}]
    /\ record \in [Conns -> Records]

CtlTypeOK ==
    /\ safeStop \in BOOLEAN
    /\ running \in BOOLEAN
    /\ stops \in Nat
    /\ atStop \in [Conns -> Users \cup {None}]

IpcTypeOK ==
    /\ link \in BOOLEAN
    /\ toDb \in Seq(Requests)
    /\ toLua \in Seq(Answers)
    /\ db \in [Users -> [prog : SUBSET Conns, ver : Nat]]

HistTypeOK ==
    /\ sent \in [Conns -> Nat]
    /\ lastVer \in [Users -> Nat]
    /\ played \in SUBSET Conns
    /\ raced \in SUBSET Users

TypeOK == ConnTypeOK /\ VMTypeOK /\ CtlTypeOK /\ IpcTypeOK /\ HistTypeOK

Init ==
    /\ conn = [c \in Conns |-> "idle"]
    /\ w2o = [c \in Conns |-> <<>>]
    /\ o2w = [c \in Conns |-> <<>>]
    /\ online = {}
    /\ players = {}
    /\ userIdToPlayerId = [u \in Users |-> None]
    /\ playerIdToUserId = [c \in Conns |-> None]
    /\ record = [c \in Conns |-> NoRecord]
    /\ safeStop = FALSE
    /\ running = TRUE
    /\ link = TRUE
    /\ toDb = <<>>
    /\ toLua = <<>>
    /\ db = [u \in Users |-> [prog |-> {}, ver |-> 0]]
    /\ sent = [c \in Conns |-> 0]
    /\ stops = 0
    /\ lastVer = [u \in Users |-> 0]
    /\ played = {}
    /\ raced = {}
    /\ atStop = [c \in Conns |-> None]

-----------------------------------------------------------------------------
(* The worker and the client behind a connection *)

\* on_new_connection
NewConnection(c) ==
    /\ running
    /\ conn[c] = "idle"
    /\ conn' = [conn EXCEPT ![c] = "open"]
    /\ w2o' = [w2o EXCEPT ![c] = Append(@, Event("new"))]
    /\ UNCHANGED <<o2w, vmVars, ctlVars, ipcVars, histVars>>

\* A complete package of an open connection goes to the VM unchanged.  A client
\* sends the requests meant for clients; the two events of a connection are
\* taken to come from its worker, although the tunnel would pass them on.
ClientSends(c, e) ==
    /\ running
    /\ conn[c] = "open"
    /\ sent[c] < MaxRequests[c]
    /\ sent' = [sent EXCEPT ![c] = @ + 1]
    /\ w2o' = [w2o EXCEPT ![c] = Append(@, e)]
    /\ UNCHANGED <<conn, o2w, vmVars, ctlVars, ipcVars, lastVer, played, raced>>

ClientSendsLogin(c) ==
    \E u \in Users, g \in BOOLEAN : ClientSends(c, LoginEvent(u, g))

ClientSendsExample(c) == ClientSends(c, Event("example"))

\* (faulty variant: the VM is not told)
ConnectionEndsSilently(c) ==
    /\ conn' = [conn EXCEPT ![c] = "closed"]
    /\ UNCHANGED <<w2o, o2w, vmVars, ctlVars, ipcVars, histVars>>

\* on_close_connection, common to both ways a connection ends.
ConnectionEnds(c) ==
    /\ conn' = [conn EXCEPT ![c] = "closed"]
    /\ w2o' = [w2o EXCEPT ![c] = Append(@, Event("close"))]
    /\ UNCHANGED <<o2w, vmVars, ctlVars, ipcVars, histVars>>

\* The peer hangs up or breaks the protocol.
PeerCloses(c) ==
    /\ running
    /\ conn[c] = "open"
    /\ ConnectionEnds(c)

\* The event loop gets to a connection marked by set_conn_is_close.
WorkerCloses(c) ==
    /\ running
    /\ conn[c] = "closing"
    /\ ConnectionEnds(c)

\* (faulty variant: the close command is forwarded like any package)
WorkerReceivesNoClose(c) ==
    /\ running
    /\ o2w[c] # <<>>
    /\ o2w' = [o2w EXCEPT ![c] = Tail(@)]
    /\ UNCHANGED <<conn, w2o, vmVars, ctlVars, ipcVars, histVars>>

\* on_worker_tunnel: a close command marks the connection if it is still
\* there, any other package is forwarded to the client.
WorkerReceives(c) ==
    /\ running
    /\ o2w[c] # <<>>
    /\ o2w' = [o2w EXCEPT ![c] = Tail(@)]
    /\ conn' = IF Head(o2w[c]) = "close" /\ conn[c] = "open"
                 THEN [conn EXCEPT ![c] = "closing"]
                 ELSE conn
    /\ UNCHANGED <<w2o, vmVars, ctlVars, ipcVars, histVars>>

-----------------------------------------------------------------------------
(* PlayerMgr and the message handlers of the VM *)

\* PlayerMgr.GetPlayerByUserId(u) ~= nil
UserHasPlayer(u) == userIdToPlayerId[u] \in players

\* Send2Client
Tell(c, r) == o2w' = [o2w EXCEPT ![c] = Append(@, r)]

\* Send2IPC: without an authenticated connection the package is dropped.
Send2IPC(m) == toDb' = IF link THEN Append(toDb, m) ELSE toDb

\* The VM takes the next event of connection c.
Takes(c, t) ==
    /\ running
    /\ w2o[c] # <<>>
    /\ Head(w2o[c]).type = t
    /\ w2o' = [w2o EXCEPT ![c] = Tail(@)]

\* PROTO_CMD_TUNNEL_WORKER2OTHER_EVENT_NEW_CLIENT_CONNECTION
OnNewConnection(c) ==
    /\ Takes(c, "new")
    /\ online' = online \cup {c}
    /\ IF c \in players THEN Tell(c, "close") ELSE UNCHANGED o2w
    /\ UNCHANGED <<conn, players, userIdToPlayerId, playerIdToUserId, record,
                   ctlVars, ipcVars, histVars>>

\* (faulty variant: the user index keeps its entry)
RemovePlayerKeepsIndex(c) ==
    /\ players' = players \ {c}
    /\ record' = [record EXCEPT ![c] = NoRecord]
    /\ playerIdToUserId' = [playerIdToUserId EXCEPT ![c] = None]
    /\ UNCHANGED userIdToPlayerId

\* PlayerMgr.RemovePlayerByPlayerId
RemovePlayerByPlayerId(c) ==
    LET u == playerIdToUserId[c] IN
    /\ players' = players \ {c}
    /\ record' = [record EXCEPT ![c] = NoRecord]
    /\ userIdToPlayerId' = IF u # None
                             THEN [userIdToPlayerId EXCEPT ![u] = None]
                             ELSE userIdToPlayerId
    /\ playerIdToUserId' = [playerIdToUserId EXCEPT ![c] = None]

\* (faulty variant: the record is not written back)
OnLogoutUnsaved(c) == UNCHANGED <<toDb, lastVer>>

\* Player:OnLogout writes the whole record back.
OnLogout(c) ==
    /\ Send2IPC(WriteReq(record[c]))
    /\ lastVer' = [lastVer EXCEPT ![record[c].user] = @ + 1]

\* PROTO_CMD_TUNNEL_WORKER2OTHER_EVENT_CLOSE_CLIENT_CONNECTION
OnCloseConnection(c) ==
    /\ Takes(c, "close")
    /\ online' = online \ {c}
    /\ \/ /\ c \in players
          /\ OnLogout(c)
          /\ RemovePlayerByPlayerId(c)
       \/ /\ c \notin players
          /\ UNCHANGED <<players, userIdToPlayerId, playerIdToUserId, record,
                         toDb, lastVer>>
    /\ UNCHANGED <<conn, o2w, ctlVars, link, toLua, db, sent, played, raced>>

\* PROTO_CMD_CS_REQ_EXAMPLE: a client that has not logged in is answered and
\* disconnected.
OnExample(c) ==
    /\ Takes(c, "example")
    /\ o2w' = [o2w EXCEPT ![c] =
                 @ \o IF c \in players THEN <<"example">>
                                       ELSE <<"example", "close">>]
    /\ UNCHANGED <<conn, vmVars, ctlVars, ipcVars, histVars>>

\* A login of u with the right password is with dbsvrgo or answered, and the VM
\* has not met the answer.
LoginUnderWay(u) ==
    \/ \E i \in DOMAIN toDb : IsLogin(toDb[i], u)
    \/ \E i \in DOMAIN toLua : IsGood(toLua[i], u)

\* PROTO_CMD_CS_REQ_LOGIN.  Nobody remembers that a login of the user is under
\* way, so a second one is sent as well.
OnLoginRequest(c) ==
    LET e == Head(w2o[c]) IN
    /\ Takes(c, "login")
    /\ \/ /\ c \in players \/ (~safeStop /\ UserHasPlayer(e.user))
          /\ UNCHANGED <<o2w, toDb, raced>>
       \/ /\ c \notin players
          /\ safeStop
          /\ Tell(c, "stopped")
          /\ UNCHANGED <<toDb, raced>>
       \/ /\ c \notin players
          /\ ~safeStop
          /\ ~UserHasPlayer(e.user)
          /\ Send2IPC(SelectReq(c, e.user, e.good))
          /\ raced' = IF e.good /\ LoginUnderWay(e.user)
                        THEN raced \cup {e.user} ELSE raced
          /\ UNCHANGED o2w
    /\ UNCHANGED <<conn, vmVars, ctlVars, link, toLua, db, sent, lastVer, played>>

\* (faulty variant: a check of the login callback is missing)
MayCreateSecond(a) == a.conn \in online /\ a.conn \notin players

\* The guards of the login callback that lead to a new player.
MayCreatePlayer(a) ==
    /\ a.conn \in online
    /\ a.conn \notin players
    /\ ~UserHasPlayer(a.user)

\* PlayerMgr.CreatePlayer, BindUserIdAndPlayerId and Player:OnLogin
CreatePlayer(a) ==
    /\ players' = players \cup {a.conn}
    /\ userIdToPlayerId' = [userIdToPlayerId EXCEPT ![a.user] = a.conn]
    /\ playerIdToUserId' = [playerIdToUserId EXCEPT ![a.conn] = a.user]
    /\ record' = [record EXCEPT ![a.conn] =
                    [user |-> a.user, prog |-> a.prog, ver |-> a.ver]]

\* PROTO_CMD_DBSVRGO_SELECT_DBUSERRECORD_LOGIN_RES.  A login refused because
\* the connection or the user already has a player, or the connection is
\* gone, is answered with the same OK as one that succeeds.
OnLoginAnswer ==
    LET a == Head(toLua) IN
    /\ running
    /\ toLua # <<>>
    /\ toLua' = Tail(toLua)
    /\ \/ /\ safeStop
          /\ Tell(a.conn, "stopped")
          /\ UNCHANGED vmVars
       \/ /\ ~safeStop
          /\ ~(a.found /\ a.good)
          /\ Tell(a.conn, "notmatch")
          /\ UNCHANGED vmVars
       \/ /\ ~safeStop
          /\ a.found /\ a.good
          /\ ~MayCreatePlayer(a)
          /\ Tell(a.conn, "ok")
          /\ UNCHANGED vmVars
       \/ /\ ~safeStop
          /\ a.found /\ a.good
          /\ MayCreatePlayer(a)
          /\ Tell(a.conn, "ok")
          /\ CreatePlayer(a)
          /\ UNCHANGED online
    /\ UNCHANGED <<conn, w2o, ctlVars, link, toDb, db, histVars>>

\* PlayerMgr.OnTick: the components of every player change its record.
OnTick ==
    /\ running
    /\ \E c \in players : c \notin record[c].prog
    /\ record' = [c \in Conns |->
                    IF c \in players
                      THEN [record[c] EXCEPT !.prog = @ \cup {c}]
                      ELSE record[c]]
    /\ played' = played \cup players
    /\ UNCHANGED <<conn, w2o, o2w, online, players, userIdToPlayerId,
                   playerIdToUserId, ctlVars, ipcVars, sent, lastVer, raced>>

\* PROTO_CMD_UDP_SAFESTOP_REQ, MapSvr.OnSafeStop, PlayerMgr.OnSafeStop: the
\* connection of every player is to be closed.
SafeStop(told) ==
    /\ running
    /\ stops < MaxStops
    /\ stops' = stops + 1
    /\ safeStop' = TRUE
    /\ o2w' = [c \in Conns |-> IF c \in told THEN Append(o2w[c], "close")
                                             ELSE o2w[c]]
    /\ atStop' = IF safeStop THEN atStop ELSE playerIdToUserId
    /\ UNCHANGED <<conn, w2o, vmVars, running, ipcVars, histVars>>

\* (faulty variant: nobody is disconnected)
OnSafeStopQuietly == SafeStop({})

OnSafeStop == SafeStop(players)

\* MapSvr.OnStop, PlayerMgr.OnStop: every player is removed, none is saved,
\* and the process ends.
OnStop ==
    /\ "stop" \in Faults
    /\ running
    /\ running' = FALSE
    /\ players' = {}
    /\ record' = [c \in Conns |-> NoRecord]
    /\ userIdToPlayerId' = [u \in Users |->
                              IF UserHasPlayer(u) THEN None
                                                  ELSE userIdToPlayerId[u]]
    /\ playerIdToUserId' = [c \in Conns |-> IF c \in players
                                              THEN None
                                              ELSE playerIdToUserId[c]]
    /\ UNCHANGED <<conn, w2o, o2w, online, safeStop, stops, atStop, ipcVars,
                   histVars>>

-----------------------------------------------------------------------------
(* dbsvrgo: one worker goroutine takes the requests in order *)

\* (faulty variant: requests are served concurrently, in any order)
DbSelectUnordered ==
    \E i \in DOMAIN toDb :
        /\ toDb[i].op = "select"
        /\ toDb' = SubSeq(toDb, 1, i - 1) \o SubSeq(toDb, i + 1, Len(toDb))
        /\ toLua' = Append(toLua, LoginAnswer(toDb[i], TRUE))
        /\ UNCHANGED <<conn, w2o, o2w, vmVars, ctlVars, link, db, histVars>>

\* handleSelectDbUserRecordLoginReq; the answer is lost without a connection.
DbSelect ==
    LET m == Head(toDb) IN
    /\ toDb # <<>>
    /\ m.op = "select"
    /\ toDb' = Tail(toDb)
    /\ \E f \in (IF "db" \in Faults THEN BOOLEAN ELSE {TRUE}) :
         toLua' = IF link /\ running THEN Append(toLua, LoginAnswer(m, f))
                                     ELSE toLua
    /\ UNCHANGED <<conn, w2o, o2w, vmVars, ctlVars, link, db, histVars>>

\* handleWriteUserRecord: OP_REPLACE overwrites the row; an error of the
\* database is logged and nobody is told.
DbWrite ==
    LET m == Head(toDb) IN
    /\ toDb # <<>>
    /\ m.op = "write"
    /\ toDb' = Tail(toDb)
    /\ \/ db' = [db EXCEPT ![m.user] = [prog |-> m.prog, ver |-> m.ver]]
       \/ "db" \in Faults /\ UNCHANGED db
    /\ UNCHANGED <<conn, w2o, o2w, vmVars, ctlVars, link, toLua, histVars>>

\* The IPC connection breaks: what dbsvrgo had read stays in its channel,
\* the rest and every answer under way are lost.
LinkDown ==
    /\ "link" \in Faults
    /\ link
    /\ link' = FALSE
    /\ \E k \in 0..Len(toDb) : toDb' = SubSeq(toDb, 1, k)
    /\ toLua' = <<>>
    /\ UNCHANGED <<conn, w2o, o2w, vmVars, ctlVars, db, histVars>>

\* dbsvrgo has reconnected and its handshake was accepted.
LinkUp ==
    /\ ~link
    /\ running
    /\ link' = TRUE
    /\ UNCHANGED <<conn, w2o, o2w, vmVars, ctlVars, toDb, toLua, db, histVars>>

-----------------------------------------------------------------------------
Worker(c) == WorkerReceives(c) \/ WorkerCloses(c)

VM(c) ==
    \/ OnNewConnection(c)
    \/ OnCloseConnection(c)
    \/ OnExample(c)
    \/ OnLoginRequest(c)

Client(c) ==
    \/ NewConnection(c)
    \/ ClientSendsLogin(c)
    \/ ClientSendsExample(c)
    \/ PeerCloses(c)

Dbsvrgo == DbSelect \/ DbWrite

Next ==
    \/ \E c \in Conns : Client(c) \/ Worker(c) \/ VM(c)
    \/ OnLoginAnswer
    \/ OnTick
    \/ OnSafeStop
    \/ OnStop
    \/ Dbsvrgo
    \/ LinkDown
    \/ LinkUp

Spec == Init /\ [][Next]_vars

\* The threads of the server and dbsvrgo keep taking what is in their
\* queues; nothing is assumed of clients, of the operator or of the link.
Fairness ==
    /\ \A c \in Conns : WF_vars(Worker(c)) /\ WF_vars(VM(c))
    /\ WF_vars(OnLoginAnswer)
    /\ WF_vars(Dbsvrgo)

FairSpec == Spec /\ Fairness

-----------------------------------------------------------------------------
(* Properties *)

\* The two indexes of PlayerMgr are inverse to one another and name exactly
\* the players there are: BindUserIdAndPlayerId and RemovePlayerByPlayerId
\* never leave an entry of another player behind, whatever the order in which
\* logins and closings of several connections arrive.
IndexesAgree ==
    /\ \A c \in Conns :
         IF c \in players
           THEN /\ playerIdToUserId[c] = record[c].user
                /\ playerIdToUserId[c] # None
                /\ userIdToPlayerId[record[c].user] = c
           ELSE playerIdToUserId[c] = None
    /\ \A u \in Users :
         userIdToPlayerId[u] # None => /\ userIdToPlayerId[u] \in players
                                       /\ record[userIdToPlayerId[u]].user = u

\* A player is only there for a connection the VM takes to be online, so a
\* login answered after its connection was closed creates no player.
PlayersAreOnline == players \subseteq online

\* Whoever is online has a live connection or its closing is already on its
\* way to the VM: no player is left behind by a connection that is gone.
NoGhostPlayers ==
    running => \A c \in online :
                 \/ conn[c] \in {"open", "closing"}
                 \/ InQueue(Event("close"), w2o[c])

\* After the safe stop every remaining player is doomed: the order to close
\* its connection is under way, or obeyed, or the closing has been reported.
StopReachesEveryPlayer ==
    safeStop => \A c \in players :
                  \/ conn[c] = "open" /\ InQueue("close", o2w[c])
                  \/ conn[c] = "closing"
                  \/ InQueue(Event("close"), w2o[c])

\* No player is created once the safe stop has begun, not even by a login
\* whose database request was already out.
NoPlayerAfterStop == [][safeStop => players' \subseteq players]_vars

\* Whoever plays, plays on from the newest record: all that was written for the
\* user before, and all that is on its way to the row, is in the record of the
\* player, so that writing it back whole at the logout loses nothing.  A user
\* two of whose logins were on their way at the same time is excepted: see
\* SavedStaysSaved.  (Needs a link and a database without faults.)
PlayersAreNewest ==
    \A c \in players :
        LET u == record[c].user IN
        u \notin raced =>
            /\ record[c].ver = lastVer[u]
            /\ db[u].prog \subseteq record[c].prog
            /\ \A i \in DOMAIN toDb :
                 IsWrite(toDb[i], u) => toDb[i].prog \subseteq record[c].prog

\* The rows keep what sessions have achieved.
NothingIsTakenBack(users) ==
    \A u \in users : db[u].prog \subseteq db'[u].prog

\* README, safe stop: "Persisting all player data to the database", and
\* Player:OnLogout: "logout save to database".  What was saved stays saved.
SavedStaysSaved == [][NothingIsTakenBack(Users)]_vars

\* Where the progress of session c of user u still is.
Kept(c, u) ==
    \/ c \in players /\ c \in record[c].prog
    \/ \E i \in DOMAIN toDb : IsWrite(toDb[i], u) /\ c \in toDb[i].prog
    \/ c \in db[u].prog

\* README, safe stop: "Persisting all player data to the database".  What a
\* session that is live when the safe stop arrives has achieved is never lost.
SafeStopPersists ==
    \A c \in played : atStop[c] # None => Kept(c, atStop[c])

\* testing_client.ts takes ret 0 for "Login successful": a connection that is
\* online when OK is sent to it has a player.
OkMeansLoggedIn ==
    [][\A c \in online :
         o2w'[c] = Append(o2w[c], "ok") => c \in players']_vars

\* "Forcing all players offline": after a safe stop the players disappear.
SafeStopEmpties == safeStop ~> players = {}

\* A session whose connection is gone ends, and what it achieved reaches the
\* database and, unless two logins of its user race, stays there.  (Needs a
\* link and a database without faults.)
LogoutIsSaved ==
    \A c \in Conns, u \in Users :
        (conn[c] = "closed" /\ playerIdToUserId[c] = u /\ c \in played)
            ~> /\ c \notin players /\ c \in db[u].prog
               /\ [](c \in db[u].prog \/ u \in raced)

\* The session of user u, read off the player objects themselves.
SessionOf(u) ==
    IF \E c \in players : record[c].user = u
      THEN CHOOSE c \in players : record[c].user = u
      ELSE None

Registry == INSTANCE SessionRegistry
              WITH session <- [u \in Users |-> SessionOf(u)],
                   stopping <- safeStop

\* Session implements the abstract registry: whatever the interleaving of
\* login requests, answers, closings, ticks and stops, a user has at most one
\* session, a connection carries at most one, and none opens while stopping.
ImplementsRegistry == Registry!Spec
=============================================================================
