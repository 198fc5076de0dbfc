------------------------------ MODULE Account ------------------------------
(***************************************************************************)
(* User accounts: a client asks for an account, dbsvrgo inserts its row,   *)
(* a login reads the row, the components of the player change what it      *)
(* holds, and the end of the session writes it back, all while other       *)
(* clients create accounts, log in and leave.                              *)
(*                                                                         *)
(* Session shows how sessions open and close and keeps a user's row        *)
(* abstract; this module keeps the rows, with the two unique columns of    *)
(* the table (id and user_id) and the contents the components change.      *)
(* Events of a connection reach the VM in the order Session shows, so here *)
(* the VM takes them when they happen.  toDb and toLua are the two         *)
(* directions of the IPC connection; toDb includes the channel of          *)
(* dbsvrgo's worker goroutine.                                             *)
(***************************************************************************)
EXTENDS Bag

CONSTANTS
    Conns,        \* connections, never used twice
    Users,        \* user ids of 1 to 64 bytes
    Passwords,    \* passwords of 1 to 64 bytes
    Invalid,      \* an empty or too long input
    Times,        \* readings of the wall clock in milliseconds
    None,         \* Lua's nil, an absent record
    Existing,     \* the rows when the server starts
    LevelMax,     \* the level after which a player starts again at 0: 100
    MaxRequests   \* bound: requests the client of each connection sends

\* A row of db_user_record, and the record table a player holds.
Rows == [id : Times, user : Users, password : Passwords, level : Nat,
         bag : Seq(BagItems)]

\* PRIMARY KEY (id) and UNIQUE (user_id)
KeysAreUnique(t) ==
    \A r, s \in t : r.id = s.id \/ r.user = s.user => r = s

SaneRow(r) == r.level \in 0..LevelMax /\ SaneBag(r.bag)

ASSUME AccountAssumption ==
    /\ Invalid \notin Users \cup Passwords
    /\ None \notin Rows
    /\ LevelMax \in Nat
    /\ MaxRequests \in [Conns -> Nat]
    /\ Existing \subseteq Rows
    /\ KeysAreUnique(Existing)
    /\ \A r \in Existing : SaneRow(r)

VARIABLES
    conn,      \* connection -> what the VM knows of it
    player,    \* connection -> record of its player, or None
    safeStop,  \* MapSvr.safeStop
    link,      \* the IPC connection is up
    toDb,      \* requests on their way to, or queued in, dbsvrgo
    toLua,     \* answers of dbsvrgo on their way to the VM
    table,     \* table db_user_record
    sent,      \* history: requests each client has sent
    waiting,   \* history: create requests that have no answer yet
    lost,      \* history: connections a create of which the link has lost
    told       \* history: rows clients were told to be theirs

vmVars == <<conn, player, safeStop>>
dbVars == <<link, toDb, toLua, table>>
histVars == <<sent, waiting, lost, told>>
vars == <<vmVars, dbVars, histVars>>

-----------------------------------------------------------------------------
(* Messages *)

InsertReq(c, r) == [op |-> "insert", conn |-> c, row |-> r]

SelectReq(c, u, p) == [op |-> "select", conn |-> c, user |-> u, password |-> p]

WriteReq(r) == [op |-> "write", row |-> r]

Requests ==
    [op : {"insert"}, conn : Conns, row : Rows]
    \cup [op : {"select"}, conn : Conns, user : Users \cup {Invalid},
          password : Passwords \cup {Invalid}]
    \cup [op : {"write"}, row : Rows]

\* row is None if ret is -1; asked is history, the row the request named.
InsertRes(m, r) ==
    [op |-> "insert", conn |-> m.conn, row |-> r, asked |-> m.row]

SelectRes(m, r) ==
    [op |-> "select", conn |-> m.conn, row |-> r, user |-> m.user,
     password |-> m.password]

Answers ==
    [op : {"insert"}, conn : Conns, row : Rows \cup {None}, asked : Rows]
    \cup [op : {"select"}, conn : Conns, row : Rows \cup {None},
          user : Users \cup {Invalid}, password : Passwords \cup {Invalid}]

TypeOK ==
    /\ conn \in [Conns -> {"idle", "online", "gone"}]
    /\ player \in [Conns -> Rows \cup {None}]
    /\ safeStop \in BOOLEAN
    /\ link \in BOOLEAN
    /\ toDb \in Seq(Requests)
    /\ toLua \in Seq(Answers)
    /\ table \subseteq Rows
    /\ sent \in [Conns -> Nat]
    /\ waiting \in [Conns -> Int]
    /\ lost \subseteq Conns
    /\ told \subseteq [row : Rows, asked : Rows]

Init ==
    /\ conn = [c \in Conns |-> "idle"]
    /\ player = [c \in Conns |-> None]
    /\ safeStop = FALSE
    /\ link = TRUE
    /\ toDb = <<>>
    /\ toLua = <<>>
    /\ table = Existing
    /\ sent = [c \in Conns |-> 0]
    /\ waiting = [c \in Conns |-> 0]
    /\ lost = {}
    /\ told = {}

-----------------------------------------------------------------------------
(* The handlers of the VM *)

\* Send2IPC: without a connection the package is dropped.
Send2IPC(m) == toDb' = IF link THEN Append(toDb, m) ELSE toDb

\* PlayerMgr.GetPlayerByUserId(u) ~= nil
UserHasPlayer(u) == \E c \in Conns : player[c] # None /\ player[c].user = u

\* A connected client sends one more request.
ClientSends(c) ==
    /\ conn[c] = "online"
    /\ sent[c] < MaxRequests[c]
    /\ sent' = [sent EXCEPT ![c] = @ + 1]

OnNewConnection(c) ==
    /\ conn[c] = "idle"
    /\ conn' = [conn EXCEPT ![c] = "online"]
    /\ UNCHANGED <<player, safeStop, dbVars, histVars>>

\* The record of a new account; base_info is empty and read back as zeros.
NewRow(t, u, p) ==
    [id |-> t, user |-> u, password |-> p, level |-> 0, bag |-> <<>>]

\* (faulty variant: the password is not checked)
AcceptsAnyPassword(u, p) == ~safeStop /\ u # Invalid

\* The checks of the handler below; a refusal is answered on the spot.
AcceptsCreate(u, p) == ~safeStop /\ u # Invalid /\ p # Invalid

\* PROTO_CMD_CS_REQ_CREATE_USER: the id is the time the VM reads.
OnCreateUser(c) ==
    /\ ClientSends(c)
    /\ \E u \in Users \cup {Invalid}, p \in Passwords \cup {Invalid} :
         \/ /\ ~AcceptsCreate(u, p)
            /\ UNCHANGED <<toDb, waiting, lost>>
         \/ /\ AcceptsCreate(u, p)
            /\ \E t \in Times : Send2IPC(InsertReq(c, NewRow(t, u, p)))
            /\ waiting' = [waiting EXCEPT ![c] = @ + 1]
            /\ lost' = IF link THEN lost ELSE lost \cup {c}
    /\ UNCHANGED <<vmVars, link, toLua, table, told>>

\* PROTO_CMD_CS_REQ_LOGIN: a second login, of the connection or of the user,
\* is ignored; while stopping it is refused.
OnLogin(c) ==
    /\ ClientSends(c)
    /\ \E u \in Users \cup {Invalid}, p \in Passwords \cup {Invalid} :
         IF player[c] # None \/ safeStop \/ UserHasPlayer(u)
           THEN UNCHANGED toDb
           ELSE Send2IPC(SelectReq(c, u, p))
    /\ UNCHANGED <<vmVars, link, toLua, table, waiting, lost, told>>

\* PROTO_CMD_DBSVRGO_INSERT_DBUSERRECORD_RES: the client is told ret and the
\* row, or empty fields.
OnInsertAnswer ==
    LET a == Head(toLua) IN
    /\ toLua # <<>>
    /\ a.op = "insert"
    /\ toLua' = Tail(toLua)
    /\ told' = IF a.row = None THEN told
                               ELSE told \cup {[row |-> a.row, asked |-> a.asked]}
    /\ waiting' = [waiting EXCEPT ![a.conn] = @ - 1]
    /\ UNCHANGED <<vmVars, link, toDb, table, sent, lost>>

\* PROTO_CMD_DBSVRGO_SELECT_DBUSERRECORD_LOGIN_RES
OnLoginAnswer ==
    LET a == Head(toLua) IN
    /\ toLua # <<>>
    /\ a.op = "select"
    /\ toLua' = Tail(toLua)
    /\ player' = IF /\ ~safeStop
                    /\ a.row # None
                    /\ a.row.password = a.password
                    /\ conn[a.conn] = "online"
                    /\ player[a.conn] = None
                    /\ ~UserHasPlayer(a.user)
                   THEN [player EXCEPT ![a.conn] = a.row]
                   ELSE player
    /\ UNCHANGED <<conn, safeStop, link, toDb, table, histVars>>

\* PlayerCmptInfo:OnTick
LevelOnTick(level) == IF level + 1 > LevelMax THEN 0 ELSE level + 1

\* Player:OnTick calls the OnTick of every component.
Ticked(r) == [r EXCEPT !.level = LevelOnTick(@), !.bag = BagOnTick(@)]

\* PlayerMgr.OnTick
OnTick ==
    /\ \E c \in Conns : player[c] # None
    /\ player' = [c \in Conns |-> IF player[c] = None THEN None
                                                      ELSE Ticked(player[c])]
    /\ UNCHANGED <<conn, safeStop, dbVars, histVars>>

\* (faulty variant: the id is taken anew, as for a new account)
OnLogoutNewId(c) == \E t \in Times : Send2IPC(WriteReq([player[c] EXCEPT !.id = t]))

\* Player:OnLogout writes the whole record.
OnLogout(c) == Send2IPC(WriteReq(player[c]))

\* PROTO_CMD_TUNNEL_WORKER2OTHER_EVENT_CLOSE_CLIENT_CONNECTION
OnCloseConnection(c) ==
    /\ conn[c] = "online"
    /\ conn' = [conn EXCEPT ![c] = "gone"]
    /\ IF player[c] # None THEN OnLogout(c) ELSE UNCHANGED toDb
    /\ player' = [player EXCEPT ![c] = None]
    /\ UNCHANGED <<safeStop, link, toLua, table, histVars>>

\* MapSvr.OnSafeStop; the connections of the players are closed, which here
\* may happen at any time.
OnSafeStop ==
    /\ ~safeStop
    /\ safeStop' = TRUE
    /\ UNCHANGED <<conn, player, dbVars, histVars>>

-----------------------------------------------------------------------------
(* The handlers of dbsvrgo; any statement may fail. *)

\* Client.Send: without a connection the answer is dropped.
Answer(a) ==
    /\ toLua' = IF link THEN Append(toLua, a) ELSE toLua
    /\ lost' = IF a.op = "insert" /\ ~link THEN lost \cup {a.conn} ELSE lost

\* The head of the channel is handled.
Takes(op) ==
    /\ toDb # <<>>
    /\ Head(toDb).op = op
    /\ toDb' = Tail(toDb)

\* OP_REPLACE: INSERT ... ON CONFLICT (id) DO UPDATE.  The other unique
\* column makes the statement fail.
ReplaceRow(r) ==
    /\ \A s \in table : s.user = r.user => s.id = r.id
    /\ table' = {s \in table : s.id # r.id} \cup {r}

\* OP_INSERT: fails if one of the two unique columns is taken.
InsertRow(r) ==
    /\ \A s \in table : s.id # r.id /\ s.user # r.user
    /\ table' = table \cup {r}

\* (faulty variant: an error ends the handler, as in handleSelectUserRecord)
InsertFailsSilently(m) == UNCHANGED <<toLua, lost>>

\* ret = -1
InsertFails(m) == Answer(InsertRes(m, None))

\* handleInsertDbUserRecordReq: the new row is read back by its id.
DbInsert ==
    LET m == Head(toDb) IN
    /\ Takes("insert")
    /\ \/ UNCHANGED table /\ InsertFails(m)
       \/ InsertRow(m.row) /\ InsertFails(m)   \* it cannot be read back
       \/ InsertRow(m.row) /\ Answer(InsertRes(m, m.row))
    /\ UNCHANGED <<vmVars, link, sent, waiting, told>>

\* handleSelectDbUserRecordLoginReq
DbSelect ==
    LET m == Head(toDb) IN
    /\ Takes("select")
    /\ \/ Answer(SelectRes(m, None))
       \/ \E r \in table : r.user = m.user /\ Answer(SelectRes(m, r))
    /\ UNCHANGED <<vmVars, link, table, sent, waiting, told>>

\* handleWriteUserRecord: an error is logged and nobody is told.
DbWrite ==
    LET m == Head(toDb) IN
    /\ Takes("write")
    /\ UNCHANGED table \/ ReplaceRow(m.row)
    /\ UNCHANGED <<vmVars, link, toLua, histVars>>

InsertsOf(q) == {q[i].conn : i \in {j \in DOMAIN q : q[j].op = "insert"}}

\* The link breaks: dbsvrgo keeps what it has read, the rest is lost.
LinkDown ==
    /\ link
    /\ link' = FALSE
    /\ \E k \in 0..Len(toDb) :
         /\ toDb' = SubSeq(toDb, 1, k)
         /\ lost' = lost \cup InsertsOf(SubSeq(toDb, k + 1, Len(toDb)))
                         \cup InsertsOf(toLua)
    /\ toLua' = <<>>
    /\ UNCHANGED <<vmVars, table, sent, waiting, told>>

LinkUp ==
    /\ ~link
    /\ link' = TRUE
    /\ UNCHANGED <<vmVars, toDb, toLua, table, histVars>>

-----------------------------------------------------------------------------
VM(c) ==
    \/ OnNewConnection(c)
    \/ OnCreateUser(c)
    \/ OnLogin(c)
    \/ OnCloseConnection(c)

OnAnswer == OnInsertAnswer \/ OnLoginAnswer

Dbsvrgo == DbInsert \/ DbSelect \/ DbWrite

Next ==
    \/ \E c \in Conns : VM(c)
    \/ OnAnswer
    \/ OnTick
    \/ OnSafeStop
    \/ Dbsvrgo
    \/ LinkDown
    \/ LinkUp

Spec == Init /\ [][Next]_vars

\* The VM and dbsvrgo keep taking what is in their queues.
Fairness == WF_vars(OnAnswer) /\ WF_vars(Dbsvrgo)

FairSpec == Spec /\ Fairness

-----------------------------------------------------------------------------
(* Properties *)

\* The table has a row for this account: same id, user and password.
Owned(r) ==
    \E s \in table : /\ s.id = r.id
                     /\ s.user = r.user
                     /\ s.password = r.password

\* A client that was told its account is created was told the account it
\* asked for, and the account is still there with that id and password: no
\* later account made in the same millisecond or under the same name, and no
\* player's record written back, takes it over.
CreatedIsOwned ==
    \A t \in told : t.row = t.asked /\ Owned(t.row)

\* A record that is written back finds the row of its own account and none
\* of the two unique columns in its way, however late it is written: REPLACE
\* by id never creates a row and never fails on user_id.
WriteFindsItsRow ==
    /\ KeysAreUnique(table)
    /\ \A i \in DOMAIN toDb : toDb[i].op = "write" => Owned(toDb[i].row)

\* Every record, in the table, in a player or under way, can be stored and
\* read back: the level wraps at its maximum, no number of an item leaves
\* 1..INT32_MAX, and no item is there twice, however long its player plays.
RecordsAreSane ==
    /\ \A r \in table : SaneRow(r)
    /\ \A c \in Conns : player[c] # None => SaneRow(player[c])
    /\ \A i \in DOMAIN toDb :
         toDb[i].op \in {"insert", "write"} => SaneRow(toDb[i].row)
    /\ \A i \in DOMAIN toLua : toLua[i].row # None => SaneRow(toLua[i].row)

\* Every create request that is handed to dbsvrgo is answered, also when the
\* account exists or the database fails, unless the link has lost a create
\* request of the connection or its answer.
CreateIsAnswered ==
    \A c \in Conns : waiting[c] > 0 ~> (waiting[c] = 0 \/ c \in lost)
=============================================================================
