------------------------------ MODULE IpcLink ------------------------------
(***************************************************************************)
(* The link between the map server's other thread and dbsvrgo.  A process  *)
(* of dbsvrgo (a client) dials the server, names itself in a handshake and *)
(* from then on receives requests, which pass through a bounded channel to *)
(* one worker goroutine that sends the answers.  The server registers one  *)
(* connection (gid) per application id; packages of other connections are  *)
(* dropped, and so is a request for an application that is not registered. *)
(* When a connection breaks both ends find out in their own time, the      *)
(* client dials again, and the answers it still owes go over whatever      *)
(* connection it has by then.                                              *)
(***************************************************************************)
EXTENDS Naturals, Sequences, FiniteSets

CONSTANTS
    Clients,        \* processes of dbsvrgo
    AppIds,         \* application ids
    AppOf,          \* client -> the application id it is configured with
    None,
    ChanSize,       \* capacity of the worker's channel
    MaxConns,       \* bound: connections dialled
    MaxRequests,    \* bound: requests the Lua VM sends
    MaxBreaks       \* bound: connections that break

ASSUME LinkAssumption ==
    /\ AppOf \in [Clients -> AppIds]
    /\ None \notin AppIds /\ None \notin Clients /\ None \notin Nat
    /\ ChanSize \in Nat \ {0}
    /\ MaxConns \in Nat /\ MaxRequests \in Nat /\ MaxBreaks \in Nat

VARIABLES
    appid2gid,  \* authenticated_ipc_pair.appid2gid
    gid2appid,  \* authenticated_ipc_pair.gid2appid
    srv,        \* gid -> the connection as the server's event loop knows it
    owner,      \* gid -> the client that dialled it
    up,         \* gid -> the TCP connection is intact
    toSrv,      \* gid -> packages to the server
    toCli,      \* gid -> packages to the client
    lastGid,    \* gids are given out in order and never again
    conn,       \* client -> Client.conn
    pc,         \* client -> where connectLoop is
    ch,         \* client -> Worker.ch
    busy,       \* client -> the request the worker goroutine is serving
    requests,   \* requests the VM has sent so far
    delivered,  \* history: answers handed to the VM
    breaks      \* history: connections that broke

tables == <<appid2gid, gid2appid>>
net == <<srv, owner, up, lastGid>>
client == <<conn, pc>>
worker == <<ch, busy>>
history == <<requests, delivered, breaks>>
vars == <<tables, net, toSrv, toCli, client, worker, history>>

Gids == 1..MaxConns

\* Packages; id numbers the requests and answers, 0 stands for the rest.
Package(t, i) == [type |-> t, id |-> i]
ToServer == [type : {"handshake", "example", "answer"}, id : 0..MaxRequests]
ToClient == [type : {"handshake", "exampleRes", "request"}, id : 0..MaxRequests]

TablesTypeOK ==
    /\ appid2gid \in [AppIds -> Gids \cup {None}]
    /\ gid2appid \in [Gids -> AppIds \cup {None}]

NetTypeOK ==
    /\ srv \in [Gids -> {"none", "pending", "open", "closed"}]
    /\ owner \in [Gids -> Clients \cup {None}]
    /\ up \in [Gids -> BOOLEAN]
    /\ lastGid \in 0..MaxConns
    /\ \A g \in Gids : IF g <= lastGid THEN owner[g] \in Clients /\ srv[g] # "none"
                                       ELSE owner[g] = None /\ srv[g] = "none"

QueuesTypeOK ==
    /\ toSrv \in [Gids -> Seq(ToServer)]
    /\ toCli \in [Gids -> Seq(ToClient)]

ClientTypeOK ==
    /\ conn \in [Clients -> Gids \cup {None}]
    /\ pc \in [Clients -> {"dial", "handshake", "example", "recv"}]
    /\ \A c \in Clients : pc[c] = "dial" <=> conn[c] = None

WorkerTypeOK ==
    /\ ch \in [Clients -> Seq(ToClient)]
    /\ \A c \in Clients : Len(ch[c]) <= ChanSize
    /\ busy \in [Clients -> 0..MaxRequests \cup {None}]

HistoryTypeOK ==
    /\ requests \in 0..MaxRequests
    /\ delivered \in Seq([client : Clients, id : 0..MaxRequests])
    /\ breaks \in 0..MaxBreaks

TypeOK ==
    /\ TablesTypeOK
    /\ NetTypeOK
    /\ QueuesTypeOK
    /\ ClientTypeOK
    /\ WorkerTypeOK
    /\ HistoryTypeOK

Init ==
    /\ appid2gid = [a \in AppIds |-> None]
    /\ gid2appid = [g \in Gids |-> None]
    /\ srv = [g \in Gids |-> "none"]
    /\ owner = [g \in Gids |-> None]
    /\ up = [g \in Gids |-> FALSE]
    /\ toSrv = [g \in Gids |-> <<>>]
    /\ toCli = [g \in Gids |-> <<>>]
    /\ lastGid = 0
    /\ conn = [c \in Clients |-> None]
    /\ pc = [c \in Clients |-> "dial"]
    /\ ch = [c \in Clients |-> <<>>]
    /\ busy = [c \in Clients |-> None]
    /\ requests = 0
    /\ delivered = <<>>
    /\ breaks = 0

\* A package put on a broken connection is lost.
Put(queues, g, m) ==
    IF up[g] THEN [queues EXCEPT ![g] = Append(@, m)] ELSE queues

-----------------------------------------------------------------------------
(* dbsvrgo: connectLoop, OnReconnect and recvLoop run in one goroutine *)

\* net.Dial succeeds, which does not wait for the server's event loop.
Dial(c) ==
    LET g == lastGid + 1 IN
    /\ pc[c] = "dial"
    /\ lastGid < MaxConns
    /\ lastGid' = g
    /\ srv' = [srv EXCEPT ![g] = "pending"]
    /\ owner' = [owner EXCEPT ![g] = c]
    /\ up' = [up EXCEPT ![g] = TRUE]
    /\ conn' = [conn EXCEPT ![c] = g]
    /\ pc' = [pc EXCEPT ![c] = "handshake"]
    /\ UNCHANGED <<tables, toSrv, toCli, worker, history>>

\* The two packages of OnReconnect; an error of Send is not looked at.
SendHandshake(c) ==
    /\ pc[c] = "handshake"
    /\ toSrv' = Put(toSrv, conn[c], Package("handshake", 0))
    /\ pc' = [pc EXCEPT ![c] = "example"]
    /\ UNCHANGED <<tables, net, toCli, conn, worker, history>>

SendExample(c) ==
    /\ pc[c] = "example"
    /\ toSrv' = Put(toSrv, conn[c], Package("example", 0))
    /\ pc' = [pc EXCEPT ![c] = "recv"]
    /\ UNCHANGED <<tables, net, toCli, conn, worker, history>>

\* (faulty variants: a full channel drops the package; it has no bound)
ReceiveDropping(c) ==
    LET g == conn[c] IN
    /\ pc[c] = "recv"
    /\ toCli[g] # <<>>
    /\ ch' = [ch EXCEPT ![c] = IF Len(@) < ChanSize
                                 THEN Append(@, Head(toCli[g])) ELSE @]
    /\ toCli' = [toCli EXCEPT ![g] = Tail(@)]
    /\ UNCHANGED <<tables, net, toSrv, client, busy, history>>

ReceiveUnbounded(c) ==
    LET g == conn[c] IN
    /\ pc[c] = "recv"
    /\ toCli[g] # <<>>
    /\ ch' = [ch EXCEPT ![c] = Append(@, Head(toCli[g]))]
    /\ toCli' = [toCli EXCEPT ![g] = Tail(@)]
    /\ UNCHANGED <<tables, net, toSrv, client, busy, history>>

\* recvLoop hands a package to the channel and waits while it is full.
Receive(c) ==
    LET g == conn[c] IN
    /\ pc[c] = "recv"
    /\ toCli[g] # <<>>
    /\ Len(ch[c]) < ChanSize
    /\ ch' = [ch EXCEPT ![c] = Append(@, Head(toCli[g]))]
    /\ toCli' = [toCli EXCEPT ![g] = Tail(@)]
    /\ UNCHANGED <<tables, net, toSrv, client, busy, history>>

\* Read fails: the connection is closed and forgotten.
ReceiveFails(c) ==
    LET g == conn[c] IN
    /\ pc[c] = "recv"
    /\ toCli[g] = <<>>
    /\ ~up[g]
    /\ conn' = [conn EXCEPT ![c] = None]
    /\ pc' = [pc EXCEPT ![c] = "dial"]
    /\ UNCHANGED <<tables, net, toSrv, toCli, worker, history>>

\* The worker goroutine: handshakes and example answers are only logged.
WorkerTakes(c) ==
    /\ busy[c] = None
    /\ ch[c] # <<>>
    /\ ch' = [ch EXCEPT ![c] = Tail(@)]
    /\ busy' = [busy EXCEPT ![c] = IF Head(ch[c]).type = "request"
                                     THEN Head(ch[c]).id ELSE None]
    /\ UNCHANGED <<tables, net, toSrv, toCli, client, history>>

\* Client.Send writes to the connection there is by now, if any.
WorkerAnswers(c) ==
    /\ busy[c] # None
    /\ toSrv' = IF conn[c] # None
                  THEN Put(toSrv, conn[c], Package("answer", busy[c]))
                  ELSE toSrv
    /\ busy' = [busy EXCEPT ![c] = None]
    /\ UNCHANGED <<tables, net, toCli, client, ch, history>>

-----------------------------------------------------------------------------
(* The other thread of the map server *)

\* on_new_connection_remote2this
Accept(g) ==
    /\ srv[g] = "pending"
    /\ srv' = [srv EXCEPT ![g] = "open"]
    /\ toCli' = Put(toCli, g, Package("handshake", 0))
    /\ UNCHANGED <<tables, owner, up, lastGid, toSrv, client, worker, history>>

\* (faulty variant: the newest handshake wins)
RegisterNewest(a, g) ==
    /\ appid2gid' = [appid2gid EXCEPT ![a] = g]
    /\ gid2appid' = [gid2appid EXCEPT ![g] = a]

\* The first connection of an application id keeps it.
Register(a, g) ==
    IF appid2gid[a] = None /\ gid2appid[g] = None
      THEN /\ appid2gid' = [appid2gid EXCEPT ![a] = g]
           /\ gid2appid' = [gid2appid EXCEPT ![g] = a]
      ELSE UNCHANGED tables

Takes(g, t) ==
    /\ srv[g] = "open"
    /\ toSrv[g] # <<>>
    /\ Head(toSrv[g]).type = t
    /\ toSrv' = [toSrv EXCEPT ![g] = Tail(@)]

\* on_recv_package, PROTO_CMD_IPC_STREAM_AUTH_HANDSHAKE
OnHandshake(g) ==
    /\ Takes(g, "handshake")
    /\ Register(AppOf[owner[g]], g)
    /\ UNCHANGED <<net, toCli, client, worker, history>>

\* other_lua_send_ipc_package
SendIpc(a, m) ==
    toCli' = IF appid2gid[a] = None THEN toCli ELSE Put(toCli, appid2gid[a], m)

\* on_recv_package for anything else: an example is answered by the VM, an
\* answer is handed to it.
OnExample(g) ==
    /\ Takes(g, "example")
    /\ IF gid2appid[g] = None
         THEN UNCHANGED toCli
         ELSE SendIpc(gid2appid[g], Package("exampleRes", 0))
    /\ UNCHANGED <<tables, net, client, worker, history>>

OnAnswer(g) ==
    /\ Takes(g, "answer")
    /\ delivered' = IF gid2appid[g] = None
                      THEN delivered
                      ELSE Append(delivered,
                             [client |-> owner[g], id |-> Head(toSrv[g]).id])
    /\ UNCHANGED <<tables, net, toCli, client, worker, requests, breaks>>

\* (faulty variant: the close forgets one of the two maps)
UnregisterHalf(g) ==
    /\ gid2appid' = [gid2appid EXCEPT ![g] = None]
    /\ UNCHANGED appid2gid

Unregister(g) ==
    IF gid2appid[g] # None
      THEN /\ appid2gid' = [appid2gid EXCEPT ![gid2appid[g]] = None]
           /\ gid2appid' = [gid2appid EXCEPT ![g] = None]
      ELSE UNCHANGED tables

\* on_close_connection, once everything received has been taken.
OnClose(g) ==
    /\ srv[g] = "open"
    /\ ~up[g]
    /\ toSrv[g] = <<>>
    /\ srv' = [srv EXCEPT ![g] = "closed"]
    /\ Unregister(g)
    /\ UNCHANGED <<owner, up, lastGid, toSrv, toCli, client, worker, history>>

\* The VM sends a request to an application.
LuaRequests(a) ==
    /\ requests < MaxRequests
    /\ requests' = requests + 1
    /\ SendIpc(a, Package("request", requests + 1))
    /\ UNCHANGED <<tables, net, toSrv, client, worker, delivered, breaks>>

-----------------------------------------------------------------------------
\* A connection breaks; each end may still read a part of what was sent.
Break(g) ==
    /\ up[g]
    /\ breaks < MaxBreaks
    /\ breaks' = breaks + 1
    /\ up' = [up EXCEPT ![g] = FALSE]
    /\ \E i \in 0..Len(toSrv[g]), j \in 0..Len(toCli[g]) :
         /\ toSrv' = [toSrv EXCEPT ![g] = SubSeq(@, 1, i)]
         /\ toCli' = [toCli EXCEPT ![g] = SubSeq(@, 1, j)]
    /\ UNCHANGED <<tables, srv, owner, lastGid, client, worker, requests,
                   delivered>>

ConnectLoop(c) ==
    \/ Dial(c)
    \/ SendHandshake(c)
    \/ SendExample(c)
    \/ Receive(c)
    \/ ReceiveFails(c)

Worker(c) == WorkerTakes(c) \/ WorkerAnswers(c)

Server(g) ==
    \/ Accept(g)
    \/ OnHandshake(g)
    \/ OnExample(g)
    \/ OnAnswer(g)
    \/ OnClose(g)

Next ==
    \/ \E c \in Clients : ConnectLoop(c) \/ Worker(c)
    \/ \E g \in Gids : Server(g) \/ Break(g)
    \/ \E a \in AppIds : LuaRequests(a)

Spec == Init /\ [][Next]_vars

\* Goroutines are scheduled, and the event loop serves every ready socket.
Fairness ==
    /\ \A c \in Clients : WF_vars(ConnectLoop(c)) /\ WF_vars(Worker(c))
    /\ \A g \in Gids : WF_vars(Server(g))

FairSpec == Spec /\ Fairness

-----------------------------------------------------------------------------
(* Properties *)

\* The two maps of authenticated_ipc_pair are inverse to one another, in
\* whatever order handshakes and ends of connections arrive.
PairsMatch ==
    \A a \in AppIds, g \in Gids : appid2gid[a] = g <=> gid2appid[g] = a

\* A registered connection is one the server still has, so that
\* other_lua_send_ipc_package finds it.
RegisteredIsOpen == \A g \in Gids : gid2appid[g] # None => srv[g] = "open"

\* The server meets the handshakes of one process in the order in which its
\* connections were dialled.  (The client waits two seconds before it dials
\* again, and the event loop serves every socket that is ready.)
HandshakesAreOrdered ==
    \A g, h \in Gids :
        h < g /\ owner[h] = owner[g] /\ gid2appid[g] # None
          => \A i \in DOMAIN toSrv[h] : toSrv[h][i].type # "handshake"

RequestOrder ==
    \A i, j \in DOMAIN delivered :
        i < j /\ delivered[i].client = delivered[j].client
          => delivered[i].id < delivered[j].id

\* The VM gets the answers of one process in the order of its requests and
\* none twice, even if they were sent over different connections and the
\* server learns of their ends in any order.  (Needs the handshakes in order:
\* a connection that is registered after a younger one has come and gone
\* still delivers the older answers.)
AnswersInOrder == []HandshakesAreOrdered => []RequestOrder

\* The server sees a client's old connection end before it serves the next.
ClosesAreOrdered ==
    \A g \in Gids, h \in Gids :
        /\ h < g /\ owner[h] = owner[g]
        /\ srv[g] = "open"
        => srv[h] = "closed"

\* Once no connection breaks any more, every application that some process
\* serves ends up registered with a connection one of them uses.
\* (Needs the closes in order: a handshake refused because the old connection
\* is still registered is never repeated.)
LinkRecovers ==
    /\ MaxConns >= Cardinality(Clients) + MaxBreaks
    /\ []ClosesAreOrdered
    => \A d \in Clients :
         <>[](\E c \in Clients : /\ AppOf[c] = AppOf[d]
                                 /\ conn[c] # None
                                 /\ appid2gid[AppOf[d]] = conn[c])

\* A request on an intact connection is answered when none breaks any more,
\* whatever the channel's capacity.
RequestsAreAnswered ==
    \A g \in Gids, r \in 1..MaxRequests :
        (/\ breaks = MaxBreaks
         /\ up[g]
         /\ \E i \in DOMAIN toCli[g] : toCli[g][i] = Package("request", r))
          ~> \E i \in DOMAIN delivered : delivered[i].id = r
=============================================================================
