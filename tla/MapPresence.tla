---------------------------- MODULE MapPresence ----------------------------
(***************************************************************************)
(* Who is in which map, and what the clients are told of it.  A session    *)
(* (see SessionRegistry) has a map component that remembers one map        *)
(* (nowMapId); a map lists its players by user.  Requests of a client to   *)
(* enter, to leave and to move arrive through the connection's queue, and  *)
(* answers and the notices of the maps' ticks go back through another.     *)
(* Maps and 3D maps have the same code in this respect; the module is      *)
(* about one of the two managers.                                          *)
(***************************************************************************)
EXTENDS Naturals, Sequences

CONSTANTS
    Conns, Users,
    Maps,       \* the maps of the configuration
    Careful,    \* connections whose client follows the rules of MapPlayerInput
    None,
    MaxSeq,     \* avant.UINT32_MAX
    MaxSent,    \* connection -> bound: requests its client sends
    MaxOut      \* bound: messages on the way to a client

ASSUME PresenceAssumption ==
    /\ Careful \subseteq Conns
    /\ None \notin Conns /\ None \notin Users /\ None \notin Maps
    /\ None \notin Nat
    /\ MaxSeq \in Nat \ {0, 1} /\ MaxSent \in [Conns -> Nat] /\ MaxOut \in Nat

VARIABLES
    session,    \* user -> the connection of its player
    stopping,   \* MapSvr.safeStop
    running,    \* OnStop has not been called
    now,        \* connection -> nowMapId of its player's component, None for -1
    players,    \* map -> user -> lastSeq of the map's player, None if absent
    toSrv,      \* connection -> requests on the way
    toCli,      \* connection -> answers and notices on the way
    closed,     \* connection -> its client has gone
    at,         \* client -> the map it knows itself in
    next,       \* client -> the number of its next input
    waiting,    \* client -> an answer to wait for before it asks again
    sent        \* client -> requests sent so far

registry == <<session, stopping>>
tables == <<now, players>>
clients == <<closed, at, next, waiting, sent>>
vars == <<registry, running, tables, toSrv, toCli, clients>>

Registry == INSTANCE SessionRegistry

\* Messages.  map and seq are those of the message or, if it has none, None.
Message(t, m, n) == [type |-> t, map |-> m, seq |-> n]
Seqs == 0..MaxSeq
Requests ==
    [type : {"enter"}, map : Maps \cup {None}, seq : {None}]
      \cup [type : {"leave"}, map : {None}, seq : {None}]
      \cup [type : {"input"}, map : Maps \cup {None}, seq : Seqs]
Notices ==
    [type : {"init", "state"}, map : Maps, seq : {None}]
      \cup [type : {"login", "entered", "notFound", "refused", "left"},
            map : {None}, seq : {None}]

RegistryTypeOK ==
    /\ session \in [Users -> Conns \cup {None}]
    /\ stopping \in BOOLEAN
    /\ running \in BOOLEAN

TablesTypeOK ==
    /\ now \in [Conns -> Maps \cup {None}]
    /\ players \in [Maps -> [Users -> Seqs \cup {None}]]

QueuesTypeOK ==
    /\ toSrv \in [Conns -> Seq(Requests)]
    /\ toCli \in [Conns -> Seq(Notices)]

ClientsTypeOK ==
    /\ closed \in [Conns -> BOOLEAN]
    /\ at \in [Conns -> Maps \cup {None}]
    /\ next \in [Conns -> 1..MaxSeq]
    /\ waiting \in [Conns -> BOOLEAN]
    /\ sent \in [Conns -> Nat]
    /\ \A c \in Conns : sent[c] <= MaxSent[c]

TypeOK == RegistryTypeOK /\ TablesTypeOK /\ QueuesTypeOK /\ ClientsTypeOK

Init ==
    /\ Registry!Init
    /\ running = TRUE
    /\ now = [c \in Conns |-> None]
    /\ players = [m \in Maps |-> [u \in Users |-> None]]
    /\ toSrv = [c \in Conns |-> <<>>]
    /\ toCli = [c \in Conns |-> <<>>]
    /\ closed = [c \in Conns |-> FALSE]
    /\ at = [c \in Conns |-> None]
    /\ next = [c \in Conns |-> 1]
    /\ waiting = [c \in Conns |-> TRUE]
    /\ sent = [c \in Conns |-> 0]

-----------------------------------------------------------------------------
(* Clients *)

Sends(c, msg) ==
    /\ running
    /\ ~closed[c]
    /\ sent[c] < MaxSent[c]
    /\ sent' = [sent EXCEPT ![c] = @ + 1]
    /\ toSrv' = [toSrv EXCEPT ![c] = Append(@, msg)]
    /\ UNCHANGED <<registry, running, tables, toCli, closed, at>>

\* Any client may send any request at any time.
ClientSends(c, msg) ==
    /\ c \notin Careful
    /\ Sends(c, msg)
    /\ UNCHANGED <<next, waiting>>

\* A careful one does one thing at a time, and counts the inputs of each stay
\* from 1.
CarefulAsks(c, msg) ==
    /\ c \in Careful
    /\ ~waiting[c]
    /\ msg.type # "input"
    /\ Sends(c, msg)
    /\ waiting' = [waiting EXCEPT ![c] = TRUE]
    /\ UNCHANGED next

CarefulMoves(c) ==
    /\ c \in Careful
    /\ ~waiting[c]
    /\ at[c] # None
    /\ Sends(c, Message("input", at[c], next[c]))
    /\ next' = [next EXCEPT ![c] = IF @ = MaxSeq THEN 1 ELSE @ + 1]
    /\ UNCHANGED waiting

\* The notices from which a client learns where it is.
Learning == {"init", "left", "notFound", "refused"}

ClientReceives(c) ==
    /\ ~closed[c]
    /\ toCli[c] # <<>>
    /\ LET msg == Head(toCli[c]) IN
         /\ at' = [at EXCEPT ![c] = IF msg.type \in Learning THEN msg.map ELSE @]
         /\ next' = [next EXCEPT ![c] = IF msg.type = "init" THEN 1 ELSE @]
         /\ waiting' = [waiting EXCEPT ![c] =
                          @ /\ msg.type \in {"init", "state"}]
    /\ toCli' = [toCli EXCEPT ![c] = Tail(@)]
    /\ UNCHANGED <<registry, running, tables, toSrv, closed, sent>>

ClientCloses(c) ==
    /\ running
    /\ ~closed[c]
    /\ closed' = [closed EXCEPT ![c] = TRUE]
    /\ UNCHANGED <<registry, running, tables, toSrv, toCli, at, next, waiting,
                   sent>>

-----------------------------------------------------------------------------
(* The map server *)

IsUser(c, u) == session[u] = c
Tell(c, msgs) == toCli' = [toCli EXCEPT ![c] = @ \o msgs]

\* A login is answered and its player created, with nowMapId -1.
Login(u, c) ==
    /\ running
    /\ ~closed[c]
    /\ Registry!Open(u, c)
    /\ now' = [now EXCEPT ![c] = None]
    /\ Tell(c, <<Message("login", None, None)>>)
    /\ UNCHANGED <<running, players, toSrv, clients>>

Takes(c, t) ==
    /\ running
    /\ toSrv[c] # <<>>
    /\ Head(toSrv[c]).type = t
    /\ toSrv' = [toSrv EXCEPT ![c] = Tail(@)]

\* A request on a connection without a player is dropped.
Drops(c) ==
    /\ \A u \in Users : ~IsUser(c, u)
    /\ \E t \in {"enter", "leave", "input"} : Takes(c, t)
    /\ UNCHANGED <<registry, running, tables, toCli, clients>>

\* (faulty variant: leaving forgets the map's side)
LeaveCurrMapHalf(c, u) == [at |-> None, in |-> players]

\* LeaveCurrMap of the component, with PlayerExitMap of the map: what now[c]
\* and players are afterwards.
LeaveCurrMap(c, u) ==
    IF now[c] # None /\ players[now[c]][u] # None
      THEN [at |-> None, in |-> [players EXCEPT ![now[c]][u] = None]]
      ELSE [at |-> now[c], in |-> players]

\* MapEnterReq: leave the current map, then join the new one if it exists and
\* does not list the user.
OnEnter(c, u) ==
    LET m == Head(toSrv[c]).map
        left == LeaveCurrMap(c, u)
        refused == m \notin Maps \/ left.in[m][u] # None
        answer == IF m \notin Maps THEN "notFound"
                    ELSE IF refused THEN "refused" ELSE "entered"
    IN
    /\ IsUser(c, u)
    /\ Takes(c, "enter")
    /\ now' = [now EXCEPT ![c] = IF refused THEN left.at ELSE m]
    /\ players' = IF refused THEN left.in ELSE [left.in EXCEPT ![m][u] = 0]
    /\ Tell(c, (IF refused THEN <<>> ELSE <<Message("init", m, None)>>)
                 \o <<Message(answer, None, None)>>)
    /\ UNCHANGED <<registry, running, clients>>

\* MapLeaveReq
OnLeave(c, u) ==
    /\ IsUser(c, u)
    /\ Takes(c, "leave")
    /\ now' = [now EXCEPT ![c] = LeaveCurrMap(c, u).at]
    /\ players' = LeaveCurrMap(c, u).in
    /\ Tell(c, <<Message("left", None, None)>>)
    /\ UNCHANGED <<registry, running, clients>>

\* (faulty variants: inputs are counted, whatever their number; the numbers
\* do not wrap)
MapPlayerInputCounts(m, u, n) ==
    [players EXCEPT ![m][u] = IF @ # None THEN @ + 1 ELSE @]

MapPlayerInputNoWrap(m, u, n) ==
    [players EXCEPT ![m][u] = IF @ # None /\ @ + 1 = n THEN n ELSE @]

\* MapPlayerInput: lastSeq is reset at the end of its range, accepted or not.
MapPlayerInput(m, u, n) ==
    LET last == IF players[m][u] = MaxSeq THEN 0 ELSE players[m][u] IN
    IF players[m][u] = None
      THEN players
      ELSE [players EXCEPT ![m][u] = IF last + 1 = n THEN n ELSE last]

\* MapInputReq
OnInput(c, u) ==
    /\ IsUser(c, u)
    /\ Takes(c, "input")
    /\ players' = IF now[c] = None THEN players
                    ELSE MapPlayerInput(now[c], u, Head(toSrv[c]).seq)
    /\ UNCHANGED <<registry, running, now, toCli, clients>>

\* (faulty variant: the end of the connection does not reach the component)
OnLogoutStays(c, u) == UNCHANGED tables

OnLogout(c, u) ==
    /\ now' = [now EXCEPT ![c] = LeaveCurrMap(c, u).at]
    /\ players' = LeaveCurrMap(c, u).in

\* The end of a connection comes after everything it sent.
OnClose(c, u) ==
    /\ running
    /\ closed[c]
    /\ toSrv[c] = <<>>
    /\ IsUser(c, u)
    /\ OnLogout(c, u)
    /\ Registry!Close(u)
    /\ UNCHANGED <<running, toSrv, toCli, clients>>

\* FixedUpdate tells every player listed whose user has a session.
Told(m, c) == \E u \in Users : players[m][u] # None /\ IsUser(c, u)

FixedUpdate(m) ==
    /\ running
    /\ \E c \in Conns : Told(m, c)
    /\ \A c \in Conns : Told(m, c) => Len(toCli[c]) < MaxOut
    /\ toCli' = [c \in Conns |->
                   IF Told(m, c) THEN Append(toCli[c], Message("state", m, None))
                                 ELSE toCli[c]]
    /\ UNCHANGED <<registry, running, tables, toSrv, clients>>

OnSafeStop ==
    /\ running
    /\ Registry!Stop
    /\ UNCHANGED <<running, tables, toSrv, toCli, clients>>

\* OnStop removes the players, then the maps.
OnStop ==
    /\ running
    /\ Registry!Shutdown
    /\ running' = FALSE
    /\ players' = [m \in Maps |-> [u \in Users |-> None]]
    /\ UNCHANGED <<now, toSrv, toCli, clients>>

Client(c) ==
    \/ \E m \in Maps \cup {None} :
         \/ ClientSends(c, Message("enter", m, None))
         \/ CarefulAsks(c, Message("enter", m, None))
    \/ ClientSends(c, Message("leave", None, None))
    \/ CarefulAsks(c, Message("leave", None, None))
    \/ \E n \in Seqs : ClientSends(c, Message("input", None, n))
    \/ CarefulMoves(c)
    \/ ClientReceives(c)
    \/ ClientCloses(c)

Handler(c, u) ==
    OnEnter(c, u) \/ OnLeave(c, u) \/ OnInput(c, u) \/ OnClose(c, u)

Next ==
    \/ \E c \in Conns : Client(c) \/ Drops(c)
    \/ \E u \in Users, c \in Conns : Login(u, c) \/ Handler(c, u)
    \/ \E m \in Maps : FixedUpdate(m)
    \/ OnSafeStop
    \/ OnStop

Spec == Init /\ [][Next]_vars

-----------------------------------------------------------------------------
(* Properties *)

\* A connection carries one session.
SessionsDistinct ==
    \A u, v \in Users : session[u] = session[v] /\ session[u] # None => u = v

\* A map lists a user exactly when the user has a session whose component
\* says so: nobody is in two maps, nobody stays behind when a session ends, in
\* whatever order requests, logins and ends of connections come.
PresenceAgrees ==
    \A u \in Users, m \in Maps :
        players[m][u] # None
          <=> \E c \in Conns : session[u] = c /\ now[c] = m

\* Whoever asks for a map that exists gets in: PlayerJoinMap never finds the
\* user listed already.
ExistingMapIsEntered ==
    \A c \in Conns : \A i \in DOMAIN toCli[c] : toCli[c][i].type # "refused"

\* In the order a client receives them, a state notice of a map comes after
\* the init notice of that map and before the client learns that it left, or
\* of another map.
NoLearning(q, i, j) == \A k \in i..j : q[k].type \notin Learning

NoticesFollowInit ==
    \A c \in Conns : \A i \in DOMAIN toCli[c] :
        LET q == toCli[c] IN
        q[i].type = "state" =>
          \/ at[c] = q[i].map /\ NoLearning(q, 1, i - 1)
          \/ \E j \in 1..(i - 1) : /\ q[j] = Message("init", q[i].map, None)
                                  /\ NoLearning(q, j + 1, i - 1)

\* A step that takes an input of client c applies it.
AppliesInput(c) ==
    (/\ toSrv[c] # <<>>
     /\ Head(toSrv[c]).type = "input"
     /\ toSrv'[c] = Tail(toSrv[c]))
       => LET m == Head(toSrv[c]).map
              n == Head(toSrv[c]).seq
          IN \E u \in Users :
               /\ session[u] = c
               /\ now[c] = m
               /\ players[m][u] # n
               /\ players'[m][u] = n

\* Every input of a careful client is applied when it arrives, in the map it
\* was meant for, also when the numbers wrap.
InputIsApplied == [][\A c \in Careful : AppliesInput(c)]_vars
=============================================================================
