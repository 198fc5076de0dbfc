# TLA+ verification of mapsvrgo

mapsvrgo is a game server: a C++ process built on the *avant* framework runs
all game logic in a Lua VM, and a Go process, *dbsvrgo*, keeps the accounts in
PostgreSQL.  This directory holds TLA+ models of its concurrent and stateful
parts, TLC configurations that check them on small instances, and TLAPS proofs
of the most important results for every instance.

## 1. The system

Threads and processes, and what joins them:

    clients --WebSocket--> workers (n threads) --tunnel--> "other" thread (Lua VM)
                                               <--tunnel--        |    ^
                                                              IPC |    | UDP (safe stop)
                                                                  v    |
                                             dbsvrgo: recvLoop -> channel(1024) -> worker goroutine -> PostgreSQL

* A **worker** owns client connections.  It parses frames, forwards complete
  packages to the VM, tells the VM of new and closed connections, and obeys the
  VM's order to close a connection.  Both directions of a tunnel are FIFO.
* The **other** thread owns the Lua VM.  Every handler runs to completion, so
  one handler is one atomic step; between two handlers anything may happen
  elsewhere.  A Lua error in a callback ends the process.
* **dbsvrgo** connects to the other thread over TCP, identifies itself with a
  handshake, queues what it reads in a channel and serves it in order in one
  goroutine.  It reconnects for ever when the connection breaks.

| component | source | state | operations | what is hard |
|---|---|---|---|---|
| player sessions | `lua/Player/PlayerMgrLogic.lua`, `PlayerLogic.lua`, `lua/Msg/*` , `lua/MapSvr.lua` | online set, players, user/player indexes, record of each player, safeStop | connection opened/closed, login request, login answer, example, tick, safe stop, stop | logins wait for the database while connections close, other logins and the safe stop arrive |
| worker connections | `src/app/websocket_app.cpp`, `stream_app.cpp` | connection state, receive and send buffers, fragments of a message | accept, arrival of bytes, package from the VM, close, close command | bytes cut at any place, bursts, full buffers, garbage; the close command crosses the connection's own end |
| IPC link | `src/app/other_app.cpp`, `dbsvrgo/client/client.go` | `appid2gid`, `gid2appid`, current connection of the client | accept, handshake, close, send, reconnect | a reconnect seen before the old close; answers sent before the handshake |
| dbsvrgo worker | `dbsvrgo/worker/worker.go`, `mapper/mapper.go` | channel, table `db_user_record` | select, login select, insert, write | order of requests, a full channel, duplicate accounts, errors nobody is told of |
| 2D / 3D maps | `lua/Map/*`, `lua/Player/PlayerCmptMap*.lua` | players of a map, input, sequence numbers, accumulator, `nowMapId` | enter, leave, ping, input, tick | player component and map must agree; sequence numbers wrap; the tree must not name a player who has left |
| quadtree, octree | `lua/Map/MapQuadTreeLogic.lua`, `Map3DOctreeLogic.lua` | tree | insert, query | truncated halves, depth bound |
| bag, info | `lua/Player/PlayerCmptBagLogic.lua`, `PlayerCmptInfoLogic.lua` | item counts | add, sub, get, tick | counts at INT32_MAX |
| frame-sync rooms | `lua/FS/*` | rooms created from the configuration | create, tick, clean up | nothing yet: no room ever has a player (section 8) |
| Lua/protobuf conversion | `src/app/lua_plugin.cpp` | Lua stack | lua2protobuf, protobuf2lua | stack discipline on every path |
| big integers, random draw | `lua/Numeric`, `lua/Algorithm` | none | arithmetic, draw | borrow, sign, zero |
| hot reload | `src/app/lua_plugin.cpp`, `lua/Other.lua`, `lua/MapSvr.lua` | the VMs, a flag for each, `package.loaded`, the functions of each module | init, tick, reload instead of a tick, stop | a reload asked for during a reload, files that cannot be loaded |
| HTTP application | `src/app/http_app.cpp` | the open file, validators, what is left to send | request, block after block, end | the file changes between and during the steps of an answer |
| time, config, log, debug, generators, test clients | | | | not modelled, see section 8 |

What makes each correct:

* sessions: a user has at most one player and a connection at most one; the
  indexes agree; no player outlives its connection; after the safe stop nobody
  logs in, everybody leaves, nobody's progress is lost; OK means logged in.
* IPC link: the two maps are inverse; after a break the link comes back; an
  answer is only lost with the connection it belongs to.
* dbsvrgo: whoever plays has the newest record, so that writing it back whole
  takes nothing back; an account id and a user id are each unique.
* maps: a player component says "in map m" exactly when m lists the player; an
  accepted input is applied once and in order; a tick never meets a player who
  has left; the time debt stays bounded.
* trees: a query returns every object that intersects the range, none twice.
* bag: a count never leaves 0..INT32_MAX, and a refused operation changes nothing.
* connections: the VM gets exactly the packages a client sent, whole, once and
  in order, whatever the pieces they arrive in; an honest client is never closed
  by a parser nor left waiting; what a client gets of the VM's packages has no
  gap.
* HTTP: a complete body is one edition of the file; a 304 is true.
* hot reload: a reload that was asked for is made, and the VM never goes on with
  functions of several editions.
* conversion: the Lua stack is as high after a conversion as before.

## 2. Plan

| step | modules | state |
|---|---|---|
| 1 | `Session`, `SessionRegistry`, `MCSession`, `Session_proofs`: logins, logouts and stops between clients, workers, VM and database | done |
| 2 | `IpcLink`, `MCIpcLink`, `IpcLink_proofs`: registration and loss of the link between the VM's process and dbsvrgo | done |
| 3 | `MapPresence`, `MCMapPresence`, `MapPresence_proofs`: player component against map, requests against notices, input numbers | done |
| 4 | `MapClock`, `MapTree`, `MapTick`: accumulator, physics step, quadtree | done |
| 5 | `Maps`, `MCMaps`, `Maps_proofs`: the 3D physics and the octree, as the same code over three axes | done |
| 6 | `Bag`, `Account`, `MCAccount`, `Account_proofs`: accounts in dbsvrgo against two unique columns, and what a session does to a record; item counts up to INT32_MAX | done |
| 7 | `LuaProto`, `MCLuaProto`, `LuaProto_proofs`: conversion between messages and Lua tables, against reference definitions by depth | done |
| 8 | `ClientConn`, `StreamApp`, `WebSocketApp`, `WebSocketApp_proofs`: the two kinds of client connection, from bytes to packages and back | done |
| 9 | `HttpApp`: files served while they change | done |
| 10 | `HotReload`: flags, ticks and the modules of the VM | done |
| 11 | `TaskTypes`, `MCTaskTypes`, `TaskTypes_proofs`: 8 to 10 as the parts of one system, with the proofs of `StreamApp`, `HttpApp` and `HotReload` | done |

Every invariant and every action property a passing run checks is a theorem.
What is left to the runs alone is liveness (section 6, last part).

## 3. Modules

### Session

One module because the properties relate all the places a session touches.

| TLA+ | code |
|---|---|
| `conn[c]` | the worker's connection object: not yet accepted, open, marked by `set_conn_is_close`, gone |
| `w2o[c]`, `o2w[c]` | the two tunnels, split per connection (two connections may live on different workers, and on one worker the split only allows more interleavings) |
| `online`, `players`, `userIdToPlayerId`, `playerIdToUserId` | the four tables of `PlayerMgr`; a playerId is `gid_workerIdx`, so it is the connection itself |
| `record[c]` | `Player.DbUserRecord`: the user, the sessions whose play it contains, the number of writes of the row |
| `safeStop`, `running` | `MapSvr.safeStop`; the process has not been stopped |
| `link`, `toDb`, `toLua`, `db` | the IPC connection, requests under way or in the channel, answers under way, the table |
| `sent`, `stops` | bounds on the environment |
| `lastVer`, `played`, `raced`, `atStop` | history, read by properties (and by `ver` of the messages), never by a guard of a code action; `raced` has the users two of whose logins, both with the right password, were under way at the same time |

Each handler is one action: `OnNewConnection`, `OnCloseConnection`,
`OnExample`, `OnLoginRequest`, `OnLoginAnswer`, `OnTick`, `OnSafeStop`,
`OnStop`; `NewConnection`, `ClientSends*`, `PeerCloses`, `WorkerCloses`,
`WorkerReceives` are the client and the worker; `DbSelect`, `DbWrite` are
dbsvrgo; `LinkDown`, `LinkUp` the connection between them.  A handler's calls
are conjuncts of its action (`RemovePlayerByPlayerId`, `OnLogout`,
`CreatePlayer`).  `OnTick` stands for any change a component makes to its
record and only has to be taken once per session, since `prog` records that
the session changed its record, not how.

A client sends what is meant for clients, a login or an example.  The worker
forwards any command of a package as it is (`websocket_app.cpp:321-343`,
`other_app.cpp:102-139`), those of its own two events of a connection included;
that a connection is reported as new once (`SessionsOnce`, section 6) is a fact
about clients that leave them alone.

Operators marked "faulty variant" are not part of the specification: each is
what a definition would be with a plausible bug in the code it models, and
serves to see that a property notices.

### SessionRegistry

What the rest of the system may rely on: `session[u]`, a user's connection or
none, and `stopping`.  `Session` implements it under the mapping
`session[u] <- SessionOf(u)` (read off the player objects, not off the index),
`stopping <- safeStop`.

### IpcLink

The two ends of the connection between the VM's process and the processes of
dbsvrgo.  `Session` sees this link as up or down; here it is opened up, and the
requests are anonymous.

| TLA+ | code |
|---|---|
| `pc[c]`, `conn[c]` | where `connectLoop` of process c is, and `Client.conn` |
| `ch[c]`, `busy[c]` | `Worker.ch` (capacity 1024 in the code, `ChanSize` here) and the request the goroutine is serving |
| `srv[g]`, `owner[g]`, `up[g]`, `lastGid` | connection g as the server's event loop knows it, who dialled it, whether it is intact, and the numbers given out |
| `toSrv[g]`, `toCli[g]` | packages under way on a connection, each direction in order |
| `appid2gid`, `gid2appid` | `authenticated_ipc_pair` |
| `delivered`, `requests`, `breaks` | history: the answers the VM got, in order; bounds on the environment |

`Dial`, `SendHandshake`, `SendExample`, `Receive`, `ReceiveFails` are
`connectLoop` and `recvLoop`, `WorkerTakes` and `WorkerAnswers` the goroutine
of the worker: the client publishes a connection before it sends the handshake,
and the worker answers over whatever connection is published when it does.
`Accept`, `OnHandshake`, `OnExample`, `OnAnswer`, `OnClose`, `LuaRequests` are
the server's callbacks.  `Break` is the network.  A connection the server has
lost may still be in use by the client, and the other way round, until each
notices by itself.

### ClientConn, StreamApp, WebSocketApp

A worker's connection to one client.  What the client sends is a sequence of
frames (`wire`), each with the position of its first byte and its length; it is
not known to the code, which sees the bytes that have arrived.

| TLA+ | code |
|---|---|
| `got`, `read` | where the bytes that have arrived end, and where the receive buffer begins: `get_recv_buffer_size()` is `got - read` |
| `held` | `frame_payload_data`: the frames of an unfinished WebSocket message |
| `pc` | where `on_process_connection` is: waiting for an event, at its start, in its loop, at the checks after it |
| `state`, `closing` | accepted and told to the VM or not, over; `conn_is_close`, with who set it |
| `toVM` | what was forwarded: the event of the connection, packages, the event of its end |
| `toConn`, `sendBuf`, `accepted` | packages of the VM in the tunnel, bytes in the send buffer, packages put there |

`Arrive`, `Drain` and `HangUp` are the framework and the client: bytes arrive up
to any place of `Cuts`, never more than `ReadMax` before the application is
called, and a connection that is to be closed neither reads nor sends any more.
In `StreamApp` one turn of the parser's loop is `Refuse`, `Wait`, `Skip` or
`Forward`; in `WebSocketApp` it is `WsRefuse`, `WsWait`, `WsFragment` or
`WsProcessFrame`, and `WsProcessEnd` makes the two checks after the loop.
`OnWorkerTunnel` obeys a close order or sends a package, which closes the
connection instead when the send buffer is too full.  A header is abstracted to
the size it states, a payload to whether it parses; the length field of a frame
the server sends is modelled byte by byte (`LengthField`, `PayloadLength`),
because a property is about it.

### HttpApp

The handler of a request is one callback in the code, but it looks at the file
system several times, and in between the operator may `Replace`, `Overwrite` or
`Delete` the file: `Find`, `Stat`, `Compare`, `Open`, `Head200` are its steps,
each up to the next look.  `WriteFile` and `WriteListing` are one call of
`write_end_callback`, which the framework repeats whenever the client has taken
what was in the send buffer.  A file is known by its inode, so that one opened
before it was replaced stays what it was; an edition has the second it was
written in and its length in blocks.  `Keep` and `Abort` are the end of a
request, and `cache` is what the client keeps and asks about with the next.

### HotReload

The VMs of `lua_plugin` (one in the main thread, one per worker, one in the
other thread) and the modules of the last.

| TLA+ | code |
|---|---|
| `vm`, `flag`, `setting` | the states of `lua_plugin`, `lua_state_be_reload` and its like, the flags `reload()` has not set yet |
| `doing` | the thread is in a tick that reloads |
| `disk` | the files: their edition, which are broken, and whether they fail before they define anything or half way |
| `loaded`, `failed` | `package.loaded`; LuaJIT leaves a mark there for a file that ran and failed, none for one it could not compile (`Ran`); Lua 5.4 leaves none |
| `code`, `dispatch` | the edition of the functions in each module's table, and of those in the tables of `MsgHandler` |
| `asked`, `tookUp` | history: the edition on disk when a reload was asked for, and when one was made |

`OtherOnReload` is the whole of `Other:OnReload`, `MapSvr.OnReload` and the
three `OnReload`s at its end: which `require` succeeds follows from what each
file requires (`Requires`) and which are broken (`Loadable`), and a Lua error
that is not caught ends the process (`Call`).  An error message in
`lua/Other.lua:44` is put together with one argument too few, which is an error
of its own: a broken `MapSvr.lua`, or a file it needs that was never loaded,
always ends the process.

### TaskTypes

A server runs one of `stream_app`, `websocket_app` and `http_app` (`task_type`
in `main.ini`), and each of them hosts the VMs.  A connection, a request for a
file and the reloads share no state, so a behaviour of `TaskTypes` is that of
one of them, and its run checks all three.

### MapPresence

Who is in which map, on top of the session registry (`Registry!Open`, `Close`,
`Stop`, `Shutdown`), which `Session` implements: a step of a session here is a
step the sessions can take.

| TLA+ | code |
|---|---|
| `session[u]`, `stopping` | the registry's |
| `now[c]` | `PlayerCmptMap.nowMapId` of the player of connection c; `None` is -1 |
| `players[m][u]` | `Map.players[userId].lastSeq`, `None` if the map has no such player |
| `toSrv[c]`, `toCli[c]` | requests and answers under way, each in order |
| `at[c]`, `next[c]`, `waiting[c]` | what the client knows: its map, its next input number, whether an answer is due |
| `closed`, `sent` | the client has gone; bound on what it sends |

The connections in `Careful` have a client that obeys the rule the map checks:
its inputs count from 1 in every stay, and it sends nothing while an enter or
leave is unanswered.  All others send any request at any time, with any number.
`OnEnter`, `OnLeave`, `OnInput`, `OnClose`, `FixedUpdate`, `OnSafeStop`,
`OnStop` are the handlers; `Drops` is their common early return.  The managers
of 2D and of 3D maps have this code twice; the module is about either of them.

### MapClock, MapTree, MapTick, Maps

`MapClock` is the arithmetic of `Map:OnTick`: the last reading of the clock,
the accumulator, the number of steps made.  The clock is the system's, so a
reading may be smaller than the last one.  `MapTree` holds the operators of the
quadtree.  It is written over any set of axes, the kinds of map being a constant
(`Spaces`).  A tree is a record:

| TLA+ | code |
|---|---|
| a node: `low`, `size`, `depth` | `MapQuadTree`: `x`, `y`, `w` = `h`, `depth`; no two nodes of a tree have the same |
| `split` | the nodes with `children` |
| `held[u]` | the nodes whose `list` has the object of u, one entry for each time it is there, so that an object inserted twice is seen |
| `node[u]` | the object's `mapQuadTree`, `None` for nil |

The code recurses into children, which are one level deeper, down to
`MAX_DEPTH`; `QtInert` and `QtQuery` are functions by the number of levels left,
and `InertAt`, `Sink` and `Subdivide` take the function of the level below as
`below`.  `MapTick` is a map, over `axes`: players join, exit and steer, and
`OnTick` makes the steps that are due, each of which moves every player and
takes it out of the tree and puts it in again.  A direction is a combination of
signs; what floor makes of the components of the normalised vector is computed
exactly (`Floored`).

`Map3D` repeats the code of `Map` with a third axis, half the speed and an
octree that goes down to nodes of 2, not 4.  `Maps` gives the actions their 3D
names; a behaviour of it is that of one map of either kind, whose axes never
change.

### LuaProto

Every message that enters or leaves the VM is converted by
`protobuf2lua_nostack` or `lua2protobuf_nostack` (`src/app/lua_plugin.cpp`).
Neither recurses: a loop keeps one frame per message on a C++ stack, and what
it has in hand on the Lua stack.  The module is about the two staying in step.

| TLA+ | code |
|---|---|
| `lua` | the Lua stack |
| `cpp` | `cpp_stack`: of the first conversion, the message, the next field and `repeated_message_loop_idx`; of the second, the message to fill, where its table is, whether its walk has begun, and how much it pops when done |
| `heap` | the protobuf messages being filled; a message field holds places of this heap |
| `order` | the order in which `lua_next` meets the keys, any of `Orders` |
| `source` | history: what is converted |

One action is one turn of a loop: `OutPops`, `OutScalar`, `OutMessage`,
`OutScalars`, `OutNextItem`, `OutItemsDone` of the first conversion, `InSkips`,
`InScalar`, `InScalars`, `InMessage`, `InMessages`, `InPops` of the second.
`HandsOver` gives the table that was made back to the second conversion, as the
example handler does.  A call of `lua_next` with a key of another table is a
Lua error, which ends the process: no action is enabled then, and `NoLuaError`
says that it does not come to that.  A scalar is a number in the range of its
field, and its kind says how it looks in Lua (a 64-bit integer is a string that
reads as a number) and which Lua values the field accepts; strings that read as
no number are not put into 64-bit fields.  A repeated `float` field with
elements has no step, because the code's loop over it does not advance; no
message of `protocol/` has one.

### Bag, Account

`Bag` has one operator per method of `PlayerCmptBagLogic.lua`, on a list of
entries (`itemID`, `number`); each returns the list the method leaves behind.
The first entry of an item is the one found, the last one is the one removed,
as in the code; `SaneBag` says why this is the same entry.

`Account` follows the row of a user through the system.  Where `Session` has all
users registered and a row reduced to what could be lost, `Account` creates the
rows, and keeps their keys, passwords and contents.

| TLA+ | code |
|---|---|
| `conn[c]` | what the VM knows of a connection: not yet reported, in `playerIdOnlineList`, closed |
| `player[c]` | `Player.DbUserRecord` of the connection's player; the user index of `PlayerMgr` is read off it, which `IndexesAgree` of `Session` allows |
| `table` | `db_user_record`, a set of rows; `KeysAreUnique` is what its two constraints guarantee |
| `toDb`, `toLua`, `link` | as in `Session` |
| `waiting`, `lost`, `told` | history: creates without an answer, connections a create of which the link lost, rows clients were told of with what they had asked for |

`OnCreateUser`, `OnLogin`, `OnInsertAnswer`, `OnLoginAnswer`, `OnTick`,
`OnNewConnection`, `OnCloseConnection` and `OnSafeStop` are the handlers of the
VM; `DbInsert`, `DbSelect`, `DbWrite` those of dbsvrgo, with `InsertRow` and
`ReplaceRow` for the two statements `BuildSQL` makes.  Every statement may fail;
an insert may also succeed and not be read back.  The id of an account is any
reading of the wall clock, so it may repeat or go back.  The tunnels to the
workers are left to `Session`: here an event of a connection is handled when it
happens.  A player whose connection the safe stop closes leaves by
`OnCloseConnection`, which may happen at any time.

### Proof modules

`Session_proofs`, `IpcLink_proofs`, `MapPresence_proofs`, `Maps_proofs` (with
those of `MapClock`, `MapTree` and `MapTick`), `LuaProto_proofs`,
`Account_proofs` (with those of `Bag`), `WebSocketApp_proofs` and
`TaskTypes_proofs` (with those of `StreamApp`, `HttpApp` and `HotReload`):
section 6.

## 4. Runs

| run | instance | what it shows |
|---|---|---|
| `session_reliable` | 2 connections, 1 user, 2 requests on one connection and 1 on the other, 1 safe stop, no faults, fair | `TypeOK`; `PlayersAreNewest`: a player has the newest record of its user, with all that the row has and all that is on its way there, unless two logins of the user were under way at once; `SafeStopPersists`: what a session live at the safe stop achieved stays in a player, a queue or the database; `SafeStopEmpties`; `LogoutIsSaved`: what a session achieved whose connection is gone gets into the row and, with the same exception, stays there |
| `session_faults` | 2 connections, 2 users, 1 request each, 2 safe stops; link, database and process may fail | `IndexesAgree`: the tables of `PlayerMgr` agree; `NoGhostPlayers`: no connection that is gone stays online without its end being on the way; `StopReachesEveryPlayer`: after the safe stop every player left has been, or will be, told to go; and the refinement `ImplementsRegistry` |
| `session_ok` | 2 connections, 1 user, 1 request each, expected violation | `OkMeansLoggedIn` is false, see section 7 |
| `session_saved` | 2 connections, 1 user, 1 request each, no faults, no stop, fair, expected violation | `SavedStaysSaved` is false, see section 7 |
| `session_stoplink` | a link that may break, expected violation | `SafeStopPersists` is false, see section 7 |
| `ipclink` | 1 process, 3 connections, 2 breaks, 2 requests, a channel of 1, fair | `PairsMatch`: the two maps stay inverse; `AnswersInOrder`: if the server meets the handshakes of the process in the order of its connections, answers reach the VM in the order of the requests, over however many connections; `TypeOK`: the channel keeps its capacity; `LinkRecovers`: in the end the process is registered with the connection it uses; `RequestsAreAnswered`: a request on a connection that holds is answered |
| `map_presence` | 1 user, 2 connections (1 careful), 2 maps, numbers up to 2 | `PresenceAgrees`: the map lists the user exactly when the component says so; `NoticesFollowInit`: a client can tell which map a notice is about; `InputIsApplied`: no input of a careful client is lost, also when numbers wrap |
| `map_tick` | 2 players, a 2D map with 4 directions or a 3D map with 3, 30 px wide, 4 clock readings in any order | `TreesHoldPlayers`: the tree holds each player once, where the player says, and nobody else; `QueriesAreExact`: a query finds exactly those in range; `NeverAhead`: simulated time never exceeds the clock, and no step stays due |
| `lua_proto` | messages and tables of a schema with all kinds of fields, arrays of at most 2 messages, 2 orders of the names | `TableIsMade`, `MessageIsMade`: each conversion computes what a definition by depth says, two messages deep, and leaves the Lua stack balanced; `StacksInStep`, `NoLuaError`: both stacks agree at every turn; `Terminates` |
| `lua_badvalue` | tables whose array of messages does not begin with a table, expected violation | `BadValuesAreSkipped` is false, see section 7 |
| `account` | 2 connections, 2 and 1 requests, 2 user ids, 2 readings of the clock, one account that exists with one of each; breaking link, failing database, fair | `CreatedIsOwned`: an account a client was told of is what it asked for and stays its own; `WriteFindsItsRow`: a record written back finds its row, with nothing in its way; `RecordsAreSane`: levels and bags stay storable; `CreateIsAnswered`: every create is answered unless the link lost it; `TypeOK`: no account has a refused name or password |
| `task_types` | a TCP client with one of 5 byte streams or a WebSocket client with one of 5, 3 packages of the VM; a path with 3 editions of 0 or 2 blocks, or a listing; 3 VMs, 2 edits, 2 reloads, 1 of 4 files broken | `PackagesArriveWhole`, `MessagesArriveWhole`: the VM gets what the client sent, whole, once, in order; `HonestClientsAreServed`, `WsHonestClientsAreServed`: no parser closes an honest client or lets a whole package wait; `ClientsSeeNoGap`; `BodyIsTheFile`, `NotModifiedIsTrue`; `NoReloadIsLost`, `HandlersAreCurrent` |

Bounds of the sessions.  Two connections are enough for every conflict in the handlers, which
compare at most two sessions (two logins of one user, two users on two
connections); one more user than needed shows that the indexes do not mix users
up.  Two requests on one connection allow a login before and after the other
session, or a second login on one connection.  Two safe stops show
that a repeated one is harmless.

Bounds of the link.  Three connections allow one in use, one broken that the
server has not noticed, and one refused because of it; a channel of one is full
as soon as the worker is busy.  Two breaks, at any point including the
handshake, each followed by a reconnect.  A second process with the same
application id is covered by the proofs, which hold for any number.

Bounds of the connections.  All limits are scaled down and kept in proportion:
a package of at most 20 bytes where the code admits 10,240, 60 bytes for
2,048,000, 25 and 65,000 for the send buffers of 1,024,000.  The TCP streams
have a package at the limit, an empty one, one that does not parse, one too
large by a byte, and one that stalls until the buffer is too full; arrivals may
end in every header, before it, and inside and at the end of every payload.  The WebSocket
streams have fragments (an empty one among them) between whole messages, a
message that does not parse with a good one behind it, a ping, a message too
long in fragments and one in bytes; arrivals end before, in and after every
header and inside payloads.  The VM's packages take each of the three forms of
a length (126, 65,535, 65,536).  The proofs hold for every stream, cut and limit.

Bounds of the files.  A file is empty or has two blocks, which make a body that
can be cut in the middle; three
editions, each in the second of the last or the next, let a file change before
and after what a client kept, and twice within a second.

Bounds of the reloads.  Two edits and two requests let the second reload be
asked for before, in and after the first.  The files that may be broken are one
that only rooms need, the rooms' manager, which `MapSvr` needs, one that almost
every module needs, and `MapSvr`; one at a time, since what a second broken file
adds is already lost.

Bounds of the maps.  A sequence number that wraps after 2 (`MaxSeq`) and four
requests of the careful client reach the wrap within one stay; the other client
sends two.  A map of 30 px with the code's body radius, speeds and limits is
subdivided to nodes of 15, 7, 3 and, in 3D, 1, so the strips that cut-down halves leave
uncovered lie where players walk, and both borders are reached.  `MAX_OBJECTS`,
`MAX_DEPTH`, the smallest node and all speeds are the code's; the proofs of the
trees hold for any.  The readings
give ticks with no step, one, two and, from 0, the most a tick makes (five), and
every set-back between them, and the first may be below the limit of a tick.

Bounds of the conversion.  The schema has a message in a message, repeated
messages in repeated messages and repeated scalars, and two elements make the
order of frames visible.  The tables of Lua code lack fields, have unknown ones
and ones of other types, empty arrays, and elements that do not fit after ones
that do.

Bounds of the accounts.  Two user ids and two clock readings, one of each taken
at the start, let an insert fail on either unique column, on both, or on none,
and two inserts under way collide with each other.  Two requests of one client
and one of the other let an account be created, used by a login, changed and
written back while another client tries to create it.  The database could take
`2^31 - 1` of an item and levels up to 100; the instance has a limit of 5, gains
of 3, losses of 2 and levels up to 1 in place of 100, 99 and 100, so that a
bag is filled to the limit, refused, lowered and emptied again within four
ticks.  The proofs hold for every value.

Deadlock is not checked, since clients may stop sending, connections break for
good within the bounds, a process that has been stopped does nothing, and a
conversion ends.

## 5. Fairness

`FairSpec` of `Session` assumes weak fairness of each worker and of the VM per
connection (each thread runs an event loop that visits every ready queue), of
the VM's IPC input, and of dbsvrgo's single goroutine.  Nothing is assumed of
clients, of the operator, of ticks or of the link: a client may stay connected
for ever and a broken link may stay broken, which is why the run with
liveness has no faults.

`FairSpec` of `IpcLink` assumes weak fairness of each goroutine of dbsvrgo (the
connection loop, which also retries a failed dial for ever, and the worker) and
of the event loop of the thread that owns the VM.  Nothing is assumed of the
VM's requests.  `LinkRecovers` holds because a connection breaks finitely often
and because the server learns of a broken connection and of the new one through
the same event loop; its premise `ClosesAreOrdered` states that it sees the end
of the old connection before the handshake on the new one, which the client's
two seconds between them give it.  Without it the handshake would be refused
for ever, since nothing repeats it: that is the hazard listed at
`other_app.cpp:251`.

`FairSpec` of `Account` assumes weak fairness of dbsvrgo's goroutine and of the
VM's IPC input, as in `Session`, and nothing of clients, ticks and the link;
`CreateIsAnswered` excuses what the link lost.

`FairSpec` of `LuaProto` assumes weak fairness of `Next`: the loops are
sequential code that runs until it returns.

The maps have no liveness property: what a player does next is up to its client.
`TaskTypes` needs no fairness: that nobody is left waiting is stated of the
states in which the code has returned to its event loop
(`HonestClientsAreServed`, `NoReloadIsLost`).

## 6. Proofs

`Session_proofs` proves, for any sets of connections and users, any bounds and
any set of faults, from `SessionAssumption` (the sentinel `None` is neither a
connection nor a user, the bounds are natural numbers):

* `TypeCorrect`, `IndexesCorrect`, `PlayersOnlineCorrect`, `NoGhostCorrect`,
  `StopReachesCorrect`: `TypeOK`, the invariants of `session_faults`, and that
  no late answer makes a player of a connection that is gone;
* `NoPlayerAfterStopCorrect`: no step creates a player once the safe stop has
  begun;
* `Refinement`: `Spec => Registry!Spec`.

The inductive invariant is

    IInv == TypeOK /\ IndexesAgree /\ PlayersAreOnline /\ QueueOrder
            /\ StopReachesEveryPlayer

`TypeOK` alone is not inductive: the write at logout names the user of the
player's record, which is a user only because the indexes agree.
`NoGhostPlayers` is not inductive either: it needs `QueueOrder`, that a closing
is the last event a worker ever sends for a connection and that a connection
not yet accepted has sent nothing.  The same fact is what makes
`StopReachesEveryPlayer` true at the moment of the safe stop: a player is
online, an online connection that has ended still has its closing in the
tunnel, any other gets the order to close, and `DoomedStep` shows that neither
can get lost.  The refinement rests on `SessionsAreIndex`: in every state that
satisfies `IInv` the session read off the player objects is what the user index
says.

Three more theorems need a premise about faults, each no more than it uses.
`NewestCorrect` (`PlayersAreNewest`) and `OnlyRacesTakeBack` hold when neither
the link nor the database fails, also of a process that is stopped.  The second
says that no step takes back what a row holds of a user who is not in `raced`:
the lost update of `session_saved` needs two logins under way at once.  Their
invariant `NewestInv` says of each other user that the writes under way build on
the row and on one another (`RowsGrow`), that at most one login is under way,
behind every write, and that its answer is the row as it stands (`OneLogin`),
and that a player's record has all of this in it while no login is under way
(`Owns`).  The last is what the handlers' two checks of `GetPlayerByUserId`
give, the one before the database is asked and the one in its answer.
`StopPersistsCorrect`
(`SafeStopPersists`) holds when `Faults = {}`; the run `session_stoplink` shows
what a breaking link does to it.  Its invariant is

    PersistInv == link /\ SessionsOnce /\ StopInv

`SessionsOnce` says that a connection is reported as new once, so that a session
that has ended never plays again and a player's record has its own play.
`StopInv` says that from the safe stop on each session that was live is still
there, or is the last its user had: since nobody logs in any more, no write
follows the one at its logout that could overwrite it (`Persisted`).

The liveness properties of the sessions are only model-checked.

`IpcLink_proofs` proves `TypeCorrect`, `PairsCorrect` and `RegisteredCorrect`
for any number of processes, applications, connections and breaks and any
capacity of the channel, closes in order or not.  `TypeOK` is inductive, since it
says where in `connectLoop` a process has a connection; `PairsMatch` and
`RegisteredIsOpen` are inductive relative to it, and `TableChanges` reduces both
to the three steps that touch the maps.

`AnswersCorrect` proves `AnswersInOrder` as generally, and found its premise:
without `HandshakesAreOrdered` the property is false.  A connection that the
server registers after a younger one of the same process has come and gone still
delivers the older answers.  The client waits two seconds before it dials again
(`client.go`), and the server's event loop serves every socket that is ready, so
it meets the handshakes in order; the property states that as its premise.  The
argument follows a request number through five places, each of which may only
hold numbers below those of the place before it: what was delivered
(`ToldInOrder`), what is on the connections that may still deliver, each
rising and each older connection below the younger (`SentInOrder`), what the
worker serves, its channel, and the requests on their way (`WorkedInOrder`).

`MapPresence_proofs` proves, for any users, connections, maps and any mixture
of careful and careless clients, `TypeCorrect`, `PresenceCorrect` and
`EnteredCorrect`.  The inductive invariant is

    IInv == TypeOK /\ SessionsDistinct /\ PresenceAgrees

since a component is found by its connection and a map's entry by its user: the
two can only agree as long as a connection carries one user (`SessionsDistinct`,
which the registry keeps).  The central lemma is `Leaving`: under `IInv`, after
`LeaveCurrMap` no map lists the user, which is why `PlayerJoinMap` cannot find it
there.  `OneMoves` gives `PresenceAgrees'` for every handler that changes one session's
map.

`NoticesCorrect` proves `NoticesFollowInit`.  That is not inductive by itself:
the invariant `NoticesInv` says of every client that once it has read all that
is on its way it knows itself where its component is, and that one that may
still log in knows itself nowhere (`Knows`).  `InputsCorrect` proves the action
property `InputIsApplied` for every client in `Careful`, every range of numbers
and any wraps.  Its invariant, `CarefulInv`, gives the three situations a session
with such a client can be in: an enter or leave is under way and no input behind
it (`Asking`), its answer is under way (`Answered`), or the inputs on their way
count on from the number the map has (`Playing`); and that a connection without
a session has none of them.  Both were checked by TLC on the instance of
`map_presence` before they were proved.

`Maps_proofs` proves `TreesHoldPlayersCorrect` and `QueriesAreExactCorrect`, for
any finite set of users, any kinds of map, sizes, depths, crowding, speeds and
directions, from `TreeAssumption` (sizes and depths are natural numbers) and
`TickAssumption` (a map is wider than a player, and a map has finitely many
axes; `None` is no node and no player).  The inductive invariant is

    Inv == axes \in Spaces /\ ClockInv /\ World(axes, Present, body, tree)

where `World` says that the players are inside the map and that the tree is one
of them (`TreeOf`): each is in one list, once, which is that of the node it
names; that node is the root or a child of a node that was subdivided, and
contains the player; nodes as deep as `MAX_DEPTH` are not subdivided.  That
players stay inside is what keeps the root containing them, and rests on the
border control of `PlayerPhysicsMove` (`MovedIs`).

An insertion is an induction over the levels below a node (`Inserts`).  What it
has to say besides `TreeOf` was not obvious: that an insertion leaves every
object above its node where it is (`StayAbove`).  `Subdivide` distributes the
objects of a node one after the other, and those that still wait must be where
they were although the ones before them may have subdivided nodes further down;
`DistributionGrows` is the induction over the set of those done.  A query finds
nothing else because lists hold what is in `TreeOf`, and misses nobody because
whoever is in a node and in the range is in the node's parent too, and there the
two intersect (`NodesMeetRanges`): `QueryFinds` climbs from the player's node to
the root.  That argument is why the strips which cut-down halves leave uncovered do no
harm: only that a child lies within its parent is used, never that the children
cover it.

`NeverAheadCorrect` holds for every set of readings, in any order and at any
distance (`TimesAssumption`: they are natural numbers), and `MapsKeepTime` says
that the maps implement `ClockSpec`.

`LuaProto_proofs` proves all the invariants of `lua_proto`, for any schema, any
messages and tables, and every order in which names are visited, from the four
assumptions of the module: the types of fields exist and names do not repeat
(`LuaProtoAssumption`), with a message or table the sets have those in it
(`MessagesAssumption`, `TablesAssumption`), and an order has all names there are
(`OrdersAssumption`).

* `ToLuaIsWhole` (`TableIsMade`) needs nothing more.  The invariant `ToLuaFits`
  gives for each frame of the C++ stack the place of its table on the Lua stack
  (`pos`), says that what lies between two of them is the key, or the key, the
  array and the index, that the lower one waits with, and that a table has
  exactly the fields its frame has passed.  `Q` holds the tables that are complete.
* `NoLuaErrorHolds`, `StacksStayInStep` (`StacksInStep`) and `ToProtoIsWhole`
  (`MessageIsMade`) need `ArraysBeginWithTables`: the run `lua_badvalue` shows
  what happens otherwise, and every table of `lua_proto` satisfies it.  The
  invariant `ToProtoFits` relates three things: each frame has its table on the
  Lua stack at the place it names, with a key of that table above it; the frames
  lie one above the other exactly as far apart as they will pop (`Layout`); and a
  field of a message has been read, or is still to come in the walk of its
  frame (`Objects`).

A message may have itself as a field, and the trees of messages have any depth,
so neither invariant speaks of a depth.  `V` and `Q` are sets closed under going
into a field; that the result is whole at every depth follows at the end, by
induction over the depth.  `HandsOver` joins the two halves: the table that was
made has no array of messages that begins with anything but a table, so the way
back needs no condition of its own.

`Account_proofs` first proves that `AddItemByItemID`, `SubItemByItemID` and a tick keep
every sane bag sane, for every `INT32_MAX` and every amount
(`BagAssumption`: they are natural numbers).  The lemma they rest on is
`FindsTheEntry`: in a sane bag the entry found is the only one of its item, so
the one removed is the one that fell to 0.

It then proves `AccountTypes`, `AccountsAreKept`, `WritesFindTheirRows`
and `RecordsStaySane` for any connections, users, passwords, clock readings and
bounds, from `AccountAssumption`: the rows at the start have unique keys and
storable contents, and the sentinels are no users, passwords or rows.  That an
account stays its owner's is not inductive, since `OP_REPLACE` overwrites
whatever row has the id of the record written back.  The inductive invariant

    IInv == TypeOK /\ TableIsGood /\ PlayersAreGood /\ RequestsAreGood
            /\ AnswersAreGood /\ CreatedIsOwned

says of every record in the system, on its way to a player, in a player or on
its way back, that the table has a row with its id, user and password.
`ReplaceRowKeeps` shows that such a record replaces exactly that row and leaves
every account (`OwnersKept`); the `...Frame` lemmas carry the rest.
`CreateIsAnswered` is model-checked only.

`TaskTypes_proofs` begins with TCP connections and proves, for every set of byte
streams and cuts and all sizes and limits, from `StreamAssumption` (frames lie
one behind the other, the rest are natural numbers), `StreamTypes`, `PackagesArrive` and `NoGap`, and with
`ReadAssumption` as well `HonestAreServed`.  The parser's own state is one
number, `read`; everything rests on `Boundary`: as long as the connection is
served, `read` is where some frame starts or the end of the last one, so the
size in the header is that frame's.  `PackagesArriveWhole` is then inductive
together with it, since a turn moves `read` by exactly one frame.  For
`HonestAreServed` the invariant also says what is in the buffer when the loop
has returned (`Drained`: less than a frame) and while it runs; with
`ReadAssumption`, that what the framework reads at once fits beside an
unfinished package, the check at the start of the parser can then never fail.
`NoGap` needs that what is in the tunnel and what was accepted are consecutive
numbers until a package is refused (`Pending`), and that nothing is accepted
after that (`Stuck`): the client does not drain a connection that is to be
closed, so the buffer that was too full stays too full.

`WebSocketApp_proofs` proves the same four facts of a WebSocket connection,
`WsTypes`, `MessagesWhole`, `WsNoGap` and `WsHonestAreServed`, from `WsConstants`
(frames lie one behind the other and are longer than their payload, the sizes of
the VM's packages are below 2^31, all else are natural numbers).  A frame is what the parser takes, but a message may have any
number of frames, with messages that do not parse before it: `MsgInv` says that
`held` is exactly the frames read since the last final one (`Standing`).  What
`held` weighs is a recursive function of it, so that an honest client's message
never exceeds the limit is an induction over its frames (`SumsFit`).  `WsNoGap`
also says that the length of a package is read from its header as it was
written: `LengthIsRead` proves it of every length below 2^31, byte by byte
(`BytesAddUp`).

The remainder of `TaskTypes_proofs` is about what else the run `task_types` checks.

* `BodyCorrect` and `NotModifiedCorrect`, from `HttpAssumption` (sizes are
  natural numbers, the sentinel is none).  Editions only grow in number and an
  inode's edition only by being overwritten, so the handle a request has opened
  reads one edition unless that happens (`torn`); what has been sent is a prefix
  of that edition's body (`FileSent`).  For a 304, `CacheOK` and `MatchOK` follow
  the validators from the answer they were sent with to the request that returns
  them: they were taken of an edition no younger than the body, and where they
  tell editions apart (`ToldApart`) a match means the two are one.
* `NoReloadIsLostCorrect`: a VM that is behind the reload last asked for has its
  flag or is among those `reload()` has still to set (`ReloadInv`).
* `HandlersCurrentCorrect`: for any set of broken files, either way of being
  broken and both Lua versions, a VM that lives through a reload has the new
  functions in everything its handlers reach.  What is reached is a least fixed
  point (`MapSvrReach`), computed in the proof from `Requires`.  This proof found
  that `CodeAfter` was written as a `CASE` with guards that overlapped, of which
  TLC takes the first and a proof may take neither; they are disjoint now.
* `TaskTypesCorrect` puts them together: all nine properties hold of
  `TaskTypesSpec`.  The WebSocket part is an instance with constants of its own,
  and the `Same...` lemmas show that it is the module the theorems are about.

### What is only model-checked

Liveness (`SafeStopEmpties`, `LogoutIsSaved`, `LinkRecovers`,
`RequestsAreAnswered`, `CreateIsAnswered`, `Terminates`): the prover does not
handle fairness.  Everything else that a passing run checks is a theorem.

Induction over data.  The induction theorems of the library take an operator as
a parameter and cannot be applied; their set form can be proved where it is
needed.  `SetInduction` takes a set of natural numbers that has 0 and with every
number the next; `PickInduction` of `Maps_proofs` is the same for the subsets of
a finite set.  That a recursive function exists at all needs a proof as well:
`LevelsExist` gives it for functions by depth, `FoldExists` for the folds of the
community modules.

## 7. What disagrees with the documents

* `OkMeansLoggedIn`.  A login refused after its database answer because the
  user, or the connection, already has a player is answered with `OK`
  (`lua/Msg/MsgHandlerFromOtherLogic.lua:108`); the client in
  `testing/testing_client.ts` takes it for a login.
* `SafeStopPersists` with a breaking link.  `README.md` promises that the safe
  stop persists all player data; `other_app.cpp` drops a record when dbsvrgo is
  not connected, and the player is removed all the same.
* `SavedStaysSaved`.  A login asks for the record once the user has no player,
  and the answer is used if the user has none then; nothing notices a session
  in between.  Two logins of one user are sent, both are answered with the row
  as it is; the first player plays, its connection closes and its record is
  written; then the second answer makes a player of the older record
  (`lua/Msg/MsgHandlerFromOtherLogic.lua:85`), whose logout overwrites the row
  (`OP_REPLACE`).  A client that connects again while its first login is
  unanswered is enough, and no fault is needed.  `README.md:150` says of the
  safe stop, which relies on the same write at logout, that all player data are
  persisted.
* `BadValuesAreSkipped`.  When an element of a repeated message is not a table,
  the code says that it discards it (`src/app/lua_plugin.cpp:1353`), and it does,
  unless it is the first: only the frame of the first element would pop the
  array itself, so the array stays on the Lua stack, where the next `lua_next`
  takes it for a key.

Noted, and not checked as findings of a run of their own:

* `README.md:165-167` says that any error during a reload ends the process at
  once.  A broken file of the frame-sync rooms, other than at the first reload,
  is only logged and the server goes on; every other broken file does end it,
  and `HandlersAreCurrent` says that none is survived with mixed functions.
* `maxSpeed` is documented as 100 px/s (`lua/Map/MapLogic.lua:132`) and the
  direction is normalised so that it holds on the diagonal too.  Rounding down
  both the velocity and the displacement (`Floored`, `Moved`) makes it 113 px/s
  towards the origin and 85 px/s away from it.
* The demo pages keep counting their inputs after entering a map again, while
  the map expects 1.
* A listing of more than a block repeats its first block (`http_app.cpp:622`),
  and the gzip stream of a file is never finished (`http_app.cpp:517` flushes,
  nothing ends the stream).
* After an empty package, or one that does not parse, a TCP client's further
  packages wait until it sends more (`stream_app.cpp:139-151`).
* In the rooms, which nothing uses: `ConsumeMP` always returns false, and a room
  that is started again would deliver the commands of its first run.

## 8. Not modelled

* Frame-sync rooms.  Rooms are created from the configuration and ticked, but no
  message concerns them, adding a player is a TODO (`FSRoomLogic.lua:57`), and
  `FSRoomSyncLogic`, `FSRoomPlayerLogic` and `FSRoomMapLogic` are instantiated by
  nothing.  There is no behaviour of the program to be faithful to.
* Big integers, the random draw, the collision tests: pure functions that no
  handler calls.
* In HTTP: request bodies (counted and thrown away), `Range` (parsed and not
  used), failed allocations, what gzip makes of a block.  A file's time never
  goes back (no deployment that keeps the times of older files), and a path is a
  file or a directory for good.
* In the connections: a WebSocket frame that states a length near `2^64`, for
  which the sum in the test whether it is complete (`websocket_app.cpp:263`)
  wraps: the lengths of frames are natural numbers here, far below that.
* UDP, whose one message (the safe stop) is an action of
  `Session`, and the parser of the IPC link, which has the shape of
  `StreamApp`'s.
* In the reloads: edits during the few milliseconds a reload reads the files,
  and Lua modules outside the two lists.  The flags are plain `bool`s written by
  two threads; each write is taken to be one step.
* In the accounts: `OP_UPDATE`, `OP_DELETE` and `SelectUserRecord`, which nothing
  in the repository sends.
* In the conversion: the number of stack slots Lua guarantees (a hazard in
  PROJECT.json) and the check that a message's type is known.
* In the maps: creating the maps from the configuration (`CreateMap` keeps a map
  that exists), pings, which only read, and the values of a notice.
* Time, configuration, log, debug: wrappers; the clock is an input.
* Protocol files and the Lua code generator: schemas and a build step.
* The framework itself (`avant` is a submodule and not in this repository): its
  event loops and tunnels are modelled from how `src/app` uses them.
* A process crash in the VM: `OnStop` covers the loss of the state; a restart
  begins again in `Init` with the table as it is.
