------------------------- MODULE MapPresence_proofs -------------------------
(***************************************************************************)
(* Proofs about MapPresence, for every set of connections, users and maps, *)
(* careful clients or not, and every bound.                                *)
(***************************************************************************)
EXTENDS MapPresence, SequenceTheorems, TLAPS

\* The inductive invariant: a map and a component can only agree as long as a
\* connection belongs to one user.
IInv == TypeOK /\ SessionsDistinct /\ PresenceAgrees

-----------------------------------------------------------------------------
(* Operators *)

LEMMA SeqsFacts == 0 \in Seqs /\ 1 \in Seqs /\ None \notin Seqs
                     /\ Seqs \subseteq Nat /\ MaxSeq \in Seqs
BY PresenceAssumption DEF Seqs

LEMMA AppendType ==
    ASSUME NEW S, NEW q \in Seq(S), NEW e \in S
    PROVE  Append(q, e) \in Seq(S)
OBVIOUS

LEMMA TailType ==
    ASSUME NEW S, NEW q \in Seq(S), q # <<>>
    PROVE  Tail(q) \in Seq(S) /\ Head(q) \in S
OBVIOUS

LEMMA ConcatType ==
    ASSUME NEW S, NEW p \in Seq(S), NEW q \in Seq(S)
    PROVE  p \o q \in Seq(S)
OBVIOUS

LEMMA NoticeTypes ==
    /\ \A t \in {"login", "entered", "notFound", "refused", "left"} :
         Message(t, None, None) \in Notices
    /\ \A t \in {"init", "state"}, m \in Maps : Message(t, m, None) \in Notices
BY DEF Message, Notices

\* After LeaveCurrMap no map lists the user, and nobody else is moved.
LEMMA Leaving ==
    ASSUME IInv, NEW c \in Conns, NEW u \in Users, IsUser(c, u)
    PROVE  LET left == LeaveCurrMap(c, u) IN
           /\ left.at = None
           /\ left.in \in [Maps -> [Users -> Seqs \cup {None}]]
           /\ \A m \in Maps : left.in[m][u] = None
           /\ \A m \in Maps, v \in Users :
                v # u => left.in[m][v] = players[m][v]
<1> USE DEF IInv, TypeOK, TablesTypeOK, RegistryTypeOK, IsUser
<1>1. \A m \in Maps : players[m][u] # None <=> now[c] = m
    BY DEF PresenceAgrees
<1>2. CASE now[c] = None
    <2>1. LeaveCurrMap(c, u) = [at |-> None, in |-> players]
        BY <1>2 DEF LeaveCurrMap
    <2> QED BY <1>1, <1>2, <2>1, PresenceAssumption
<1>3. CASE now[c] # None
    <2>1. now[c] \in Maps /\ players[now[c]][u] # None
        BY <1>1, <1>3
    <2>2. LeaveCurrMap(c, u) =
            [at |-> None, in |-> [players EXCEPT ![now[c]][u] = None]]
        BY <1>3, <2>1 DEF LeaveCurrMap
    <2> QED BY <1>1, <2>1, <2>2
<1> QED BY <1>2, <1>3

-----------------------------------------------------------------------------
(* Type correctness *)

\* What a step leaves alone keeps its type.
LEMMA TypeFrame ==
    ASSUME TypeOK
    PROVE  /\ UNCHANGED <<registry, running>> => RegistryTypeOK'
           /\ UNCHANGED tables => TablesTypeOK'
           /\ UNCHANGED <<toSrv, toCli>> => QueuesTypeOK'
           /\ UNCHANGED clients => ClientsTypeOK'
<1> USE DEF TypeOK
<1>1. UNCHANGED <<registry, running>> => RegistryTypeOK'
    BY DEF registry, RegistryTypeOK
<1>2. UNCHANGED tables => TablesTypeOK'
    BY DEF tables, TablesTypeOK
<1>3. UNCHANGED <<toSrv, toCli>> => QueuesTypeOK'
    BY DEF QueuesTypeOK
<1>4. UNCHANGED clients => ClientsTypeOK'
    BY DEF clients, ClientsTypeOK
<1> QED BY <1>1, <1>2, <1>3, <1>4

LEMMA SendsType ==
    ASSUME TypeOK, NEW c \in Conns, NEW msg \in Requests, Sends(c, msg)
    PROVE  RegistryTypeOK' /\ TablesTypeOK' /\ QueuesTypeOK'
<1>1. toSrv' \in [Conns -> Seq(Requests)]
    <2>1. Append(toSrv[c], msg) \in Seq(Requests)
        BY AppendType DEF TypeOK, QueuesTypeOK
    <2> QED BY <2>1 DEF Sends, TypeOK, QueuesTypeOK
<1>2. QueuesTypeOK'
    BY <1>1 DEF Sends, QueuesTypeOK, TypeOK
<1>3. UNCHANGED <<registry, running>> /\ UNCHANGED tables
    BY DEF Sends
<1> QED BY <1>2, <1>3, TypeFrame

LEMMA SentType ==
    ASSUME TypeOK, NEW c \in Conns, NEW msg, Sends(c, msg)
    PROVE  /\ sent' \in [Conns -> Nat]
           /\ \A d \in Conns : sent'[d] <= MaxSent[d]
           /\ UNCHANGED <<closed, at>>
<1>1. sent[c] + 1 \in Nat /\ sent[c] + 1 <= MaxSent[c]
    <2>1. sent[c] \in Nat /\ MaxSent[c] \in Nat
        BY PresenceAssumption DEF TypeOK, ClientsTypeOK
    <2>2. sent[c] < MaxSent[c]
        BY DEF Sends
    <2> QED BY <2>1, <2>2
<1> QED BY <1>1 DEF TypeOK, ClientsTypeOK, Sends

LEMMA RequestTypes ==
    /\ \A m \in Maps \cup {None} : Message("enter", m, None) \in Requests
    /\ Message("leave", None, None) \in Requests
    /\ \A n \in Seqs, m \in Maps \cup {None} : Message("input", m, n) \in Requests
BY DEF Message, Requests

LEMMA ClientTypeStep ==
    ASSUME TypeOK, NEW c \in Conns, Client(c)
    PROVE  TypeOK'
<1> USE DEF TypeOK
<1>1. ASSUME NEW msg \in Requests, ClientSends(c, msg) PROVE TypeOK'
    <2>1. Sends(c, msg)
        BY <1>1 DEF ClientSends
    <2>2. ClientsTypeOK'
        BY <1>1, <2>1, SentType DEF ClientSends, ClientsTypeOK
    <2> QED BY <2>1, <2>2, SendsType
<1>2. ASSUME NEW msg \in Requests, CarefulAsks(c, msg) PROVE TypeOK'
    <2>1. Sends(c, msg)
        BY <1>2 DEF CarefulAsks
    <2>2. ClientsTypeOK'
        BY <1>2, <2>1, SentType DEF CarefulAsks, ClientsTypeOK
    <2> QED BY <2>1, <2>2, SendsType
<1>3. CASE CarefulMoves(c)
    <2>1. Message("input", at[c], next[c]) \in Requests
        BY RequestTypes, PresenceAssumption DEF ClientsTypeOK, Seqs
    <2>2. Sends(c, Message("input", at[c], next[c]))
        BY <1>3 DEF CarefulMoves
    <2>3. (IF next[c] = MaxSeq THEN 1 ELSE next[c] + 1) \in 1..MaxSeq
        BY PresenceAssumption DEF ClientsTypeOK
    <2>4. ClientsTypeOK'
        BY <1>3, <2>2, <2>3, SentType DEF CarefulMoves, ClientsTypeOK
    <2> QED BY <2>1, <2>2, <2>4, SendsType
<1>4. CASE ClientReceives(c)
    <2>1. Head(toCli[c]) \in Notices /\ Tail(toCli[c]) \in Seq(Notices)
        BY <1>4, TailType DEF ClientReceives, QueuesTypeOK
    <2>2. Head(toCli[c]).map \in Maps \cup {None}
        BY <2>1 DEF Notices
    <2>3. QueuesTypeOK'
        BY <1>4, <2>1 DEF ClientReceives, QueuesTypeOK
    <2>4. ClientsTypeOK'
        BY <1>4, <2>2, PresenceAssumption DEF ClientReceives, ClientsTypeOK
    <2> QED BY <1>4, <2>3, <2>4, TypeFrame DEF ClientReceives
<1>5. CASE ClientCloses(c)
    <2>1. ClientsTypeOK'
        BY <1>5 DEF ClientCloses, ClientsTypeOK
    <2> QED BY <1>5, <2>1, TypeFrame DEF ClientCloses
<1> QED BY <1>1, <1>2, <1>3, <1>4, <1>5, RequestTypes DEF Client

\* Messages to a client, and a request taken from its queue.
LEMMA TellType ==
    ASSUME TypeOK, NEW c \in Conns, NEW msgs \in Seq(Notices), Tell(c, msgs)
    PROVE  toCli' \in [Conns -> Seq(Notices)]
<1>1. toCli[c] \o msgs \in Seq(Notices)
    BY ConcatType DEF TypeOK, QueuesTypeOK
<1> QED BY <1>1 DEF Tell, TypeOK, QueuesTypeOK

LEMMA TakesType ==
    ASSUME TypeOK, NEW c \in Conns, NEW t, Takes(c, t)
    PROVE  /\ toSrv' \in [Conns -> Seq(Requests)]
           /\ Head(toSrv[c]) \in Requests
           /\ Head(toSrv[c]).type = t
<1>1. Head(toSrv[c]) \in Requests /\ Tail(toSrv[c]) \in Seq(Requests)
    BY TailType DEF Takes, TypeOK, QueuesTypeOK
<1> QED BY <1>1 DEF Takes, TypeOK, QueuesTypeOK

\* A map's player after an input: none is made, and lastSeq stays in range.
LEMMA InputType ==
    ASSUME TypeOK, NEW m \in Maps, NEW u \in Users, NEW n \in Seqs
    PROVE  /\ MapPlayerInput(m, u, n) \in [Maps -> [Users -> Seqs \cup {None}]]
           /\ \A k \in Maps, v \in Users :
                MapPlayerInput(m, u, n)[k][v] = None <=> players[k][v] = None
<1> USE DEF TypeOK, TablesTypeOK
<1> DEFINE last == IF players[m][u] = MaxSeq THEN 0 ELSE players[m][u]
           new == IF last + 1 = n THEN n ELSE last
<1>1. CASE players[m][u] = None
    BY <1>1 DEF MapPlayerInput
<1>2. CASE players[m][u] # None
    <2>1. new \in Seqs
        BY <1>2, SeqsFacts
    <2>2. MapPlayerInput(m, u, n) = [players EXCEPT ![m][u] = new]
        BY <1>2 DEF MapPlayerInput
    <2> HIDE DEF new
    <2> QED BY <1>2, <2>1, <2>2, SeqsFacts
<1> QED BY <1>1, <1>2

LEMMA HandlerTypeStep ==
    ASSUME IInv, NEW c \in Conns, NEW u \in Users, Handler(c, u)
    PROVE  TypeOK'
<1> USE DEF IInv, TypeOK
<1>1. CASE OnEnter(c, u)
    <2> DEFINE m == Head(toSrv[c]).map
               left == LeaveCurrMap(c, u)
               refused == m \notin Maps \/ left.in[m][u] # None
               answer == IF m \notin Maps THEN "notFound"
                           ELSE IF refused THEN "refused" ELSE "entered"
               msgs == (IF refused THEN <<>> ELSE <<Message("init", m, None)>>)
                         \o <<Message(answer, None, None)>>
    <2>1. IsUser(c, u) /\ Takes(c, "enter") /\ Tell(c, msgs)
        BY <1>1 DEF OnEnter
    <2>2. left.at = None /\ left.in \in [Maps -> [Users -> Seqs \cup {None}]]
        BY <2>1, Leaving
    <2>3. msgs \in Seq(Notices)
        <3>1. <<Message(answer, None, None)>> \in Seq(Notices)
            BY NoticeTypes
        <3>2. (IF refused THEN <<>> ELSE <<Message("init", m, None)>>)
                \in Seq(Notices)
            BY NoticeTypes
        <3> QED BY <3>1, <3>2, ConcatType
    <2>4. QueuesTypeOK'
        BY <2>1, <2>3, TellType, TakesType DEF QueuesTypeOK
    <2>5. /\ now' = [now EXCEPT ![c] = IF refused THEN left.at ELSE m]
          /\ players' = IF refused THEN left.in ELSE [left.in EXCEPT ![m][u] = 0]
        BY <1>1 DEF OnEnter
    <2>6. TablesTypeOK'
        <3> HIDE DEF left, m
        <3> QED BY <2>2, <2>5, SeqsFacts DEF TablesTypeOK
    <2>7. UNCHANGED <<registry, running>> /\ UNCHANGED clients
        BY <1>1 DEF OnEnter
    <2> QED BY <2>4, <2>6, <2>7, TypeFrame
<1>2. CASE OnLeave(c, u)
    <2>1. IsUser(c, u) /\ Takes(c, "leave")
            /\ Tell(c, <<Message("left", None, None)>>)
        BY <1>2 DEF OnLeave
    <2>2. <<Message("left", None, None)>> \in Seq(Notices)
        BY NoticeTypes
    <2>3. QueuesTypeOK'
        BY <2>1, <2>2, TellType, TakesType DEF QueuesTypeOK
    <2>4. TablesTypeOK'
        BY <1>2, <2>1, Leaving DEF OnLeave, TablesTypeOK
    <2>5. UNCHANGED <<registry, running>> /\ UNCHANGED clients
        BY <1>2 DEF OnLeave
    <2> QED BY <2>3, <2>4, <2>5, TypeFrame
<1>3. CASE OnInput(c, u)
    <2>1. Takes(c, "input")
        BY <1>3 DEF OnInput
    <2>2. Head(toSrv[c]).seq \in Seqs
        BY <2>1, TakesType DEF Requests
    <2>3. QueuesTypeOK'
        BY <1>3, <2>1, TakesType DEF OnInput, QueuesTypeOK
    <2>4. TablesTypeOK'
        BY <1>3, <2>2, InputType DEF OnInput, TablesTypeOK
    <2>5. UNCHANGED <<registry, running>> /\ UNCHANGED clients
        BY <1>3 DEF OnInput
    <2> QED BY <2>3, <2>4, <2>5, TypeFrame
<1>4. CASE OnClose(c, u)
    <2>1. TablesTypeOK'
        BY <1>4, Leaving DEF OnClose, OnLogout, TablesTypeOK
    <2>2. RegistryTypeOK'
        BY <1>4 DEF OnClose, Registry!Close, RegistryTypeOK
    <2>3. UNCHANGED <<toSrv, toCli>> /\ UNCHANGED clients
        BY <1>4 DEF OnClose
    <2> QED BY <2>1, <2>2, <2>3, TypeFrame
<1> QED BY <1>1, <1>2, <1>3, <1>4 DEF Handler

LEMMA TypeStep ==
    ASSUME IInv, [Next]_vars
    PROVE  TypeOK'
<1> USE DEF IInv, TypeOK
<1>1. ASSUME NEW c \in Conns, Drops(c) PROVE TypeOK'
    <2>1. QueuesTypeOK'
        BY <1>1, TakesType DEF Drops, QueuesTypeOK
    <2> QED BY <1>1, <2>1, TypeFrame DEF Drops
<1>2. ASSUME NEW c \in Conns, NEW u \in Users, Login(u, c) PROVE TypeOK'
    <2>1. RegistryTypeOK'
        BY <1>2 DEF Login, Registry!Open, RegistryTypeOK
    <2>2. TablesTypeOK'
        BY <1>2 DEF Login, TablesTypeOK
    <2>3. Tell(c, <<Message("login", None, None)>>)
            /\ <<Message("login", None, None)>> \in Seq(Notices)
        BY <1>2, NoticeTypes DEF Login
    <2>4. QueuesTypeOK'
        BY <1>2, <2>3, TellType DEF Login, QueuesTypeOK
    <2> QED BY <1>2, <2>1, <2>2, <2>4, TypeFrame DEF Login
<1>3. ASSUME NEW m \in Maps, FixedUpdate(m) PROVE TypeOK'
    <2>1. Message("state", m, None) \in Notices
        BY NoticeTypes
    <2>2. \A c \in Conns :
            Append(toCli[c], Message("state", m, None)) \in Seq(Notices)
        BY <2>1, AppendType DEF QueuesTypeOK
    <2>3. QueuesTypeOK'
        BY <1>3, <2>2 DEF FixedUpdate, QueuesTypeOK
    <2> QED BY <1>3, <2>3, TypeFrame DEF FixedUpdate
<1>4. CASE OnSafeStop
    <2>1. RegistryTypeOK'
        BY <1>4 DEF OnSafeStop, Registry!Stop, RegistryTypeOK
    <2> QED BY <1>4, <2>1, TypeFrame DEF OnSafeStop
<1>5. CASE OnStop
    <2>1. RegistryTypeOK'
        BY <1>5 DEF OnStop, Registry!Shutdown, RegistryTypeOK
    <2>2. TablesTypeOK'
        BY <1>5 DEF OnStop, TablesTypeOK
    <2> QED BY <1>5, <2>1, <2>2, TypeFrame DEF OnStop
<1>6. CASE UNCHANGED vars
    BY <1>6, TypeFrame DEF vars
<1> QED BY <1>1, <1>2, <1>3, <1>4, <1>5, <1>6, ClientTypeStep, HandlerTypeStep
       DEF Next

-----------------------------------------------------------------------------
(* Presence *)

\* What the steps that are not a client's do to the tables and the sessions.
LEMMA PresenceChanges ==
    ASSUME [Next]_vars
    PROVE  \/ UNCHANGED <<session, now, players>>
           \/ \E c \in Conns, u \in Users : Login(u, c) \/ Handler(c, u)
           \/ OnStop
<1>1. ASSUME NEW c \in Conns, Client(c)
      PROVE  UNCHANGED <<session, now, players>>
    BY <1>1 DEF Client, ClientSends, CarefulAsks, CarefulMoves, Sends,
               ClientReceives, ClientCloses, registry, tables
<1>2. ASSUME NEW c \in Conns, Drops(c)
      PROVE  UNCHANGED <<session, now, players>>
    BY <1>2 DEF Drops, registry, tables
<1>3. ASSUME NEW m \in Maps, FixedUpdate(m)
      PROVE  UNCHANGED <<session, now, players>>
    BY <1>3 DEF FixedUpdate, registry, tables
<1>4. ASSUME OnSafeStop PROVE UNCHANGED <<session, now, players>>
    BY <1>4 DEF OnSafeStop, Registry!Stop, tables
<1>5. ASSUME UNCHANGED vars PROVE UNCHANGED <<session, now, players>>
    BY <1>5 DEF vars, registry, tables
<1> QED BY <1>1, <1>2, <1>3, <1>4, <1>5 DEF Next

LEMMA DistinctStep ==
    ASSUME IInv, [Next]_vars
    PROVE  SessionsDistinct'
<1> USE DEF IInv, TypeOK, RegistryTypeOK
<1>1. ASSUME UNCHANGED session PROVE SessionsDistinct'
    BY <1>1 DEF SessionsDistinct
<1>2. ASSUME NEW c \in Conns, NEW u \in Users, Login(u, c)
      PROVE  SessionsDistinct'
    BY <1>2 DEF Login, Registry!Open, SessionsDistinct
<1>3. ASSUME NEW c \in Conns, NEW u \in Users, Handler(c, u)
      PROVE  SessionsDistinct'
    <2>1. UNCHANGED session \/ session' = [session EXCEPT ![u] = None]
        BY <1>3 DEF Handler, OnEnter, OnLeave, OnInput, OnClose,
                   Registry!Close, registry
    <2> QED BY <2>1 DEF SessionsDistinct
<1>4. CASE OnStop
    BY <1>4 DEF OnStop, Registry!Shutdown, SessionsDistinct
<1> QED BY <1>1, <1>2, <1>3, <1>4, PresenceChanges

\* A step that changes what the component of one session and the maps' entries
\* of its user say, and does so alike.
LEMMA OneMoves ==
    ASSUME IInv, NEW c \in Conns, NEW u \in Users, IsUser(c, u),
           UNCHANGED session,
           NEW m \in Maps \cup {None},
           now' = [now EXCEPT ![c] = m],
           \A k \in Maps : players'[k][u] # None <=> k = m,
           \A k \in Maps, v \in Users :
             v # u => (players'[k][v] # None <=> players[k][v] # None)
    PROVE  PresenceAgrees'
<1> USE DEF IInv, TypeOK, RegistryTypeOK, TablesTypeOK, IsUser
<1> SUFFICES ASSUME NEW v \in Users, NEW k \in Maps
             PROVE  players'[k][v] # None
                      <=> \E d \in Conns : session[v] = d /\ now'[d] = k
    BY DEF PresenceAgrees
<1>1. CASE v = u
    BY <1>1
<1>2. CASE v # u
    <2>1. session[v] # c
        BY <1>2, PresenceAssumption DEF SessionsDistinct
    <2>2. \A d \in Conns : session[v] = d => now'[d] = now[d]
        BY <2>1
    <2> QED BY <1>2, <2>2 DEF PresenceAgrees
<1> QED BY <1>1, <1>2

LEMMA PresenceStep ==
    ASSUME IInv, [Next]_vars
    PROVE  PresenceAgrees'
<1> USE DEF IInv, TypeOK, RegistryTypeOK, TablesTypeOK
<1>1. ASSUME UNCHANGED <<session, now, players>> PROVE PresenceAgrees'
    BY <1>1 DEF PresenceAgrees
<1>2. ASSUME NEW c \in Conns, NEW u \in Users, Login(u, c)
      PROVE  PresenceAgrees'
    <2>1. /\ session[u] = None
          /\ \A v \in Users : session[v] # c
          /\ session' = [session EXCEPT ![u] = c]
          /\ now' = [now EXCEPT ![c] = None]
          /\ UNCHANGED players
        BY <1>2 DEF Login, Registry!Open
    <2>2. \A m \in Maps : players[m][u] = None
        BY <2>1, PresenceAssumption DEF PresenceAgrees
    <2> QED BY <2>1, <2>2, PresenceAssumption DEF PresenceAgrees
<1>3. ASSUME NEW c \in Conns, NEW u \in Users, OnEnter(c, u)
      PROVE  PresenceAgrees'
    <2> DEFINE m == Head(toSrv[c]).map
               left == LeaveCurrMap(c, u)
               refused == m \notin Maps \/ left.in[m][u] # None
    <2>1. IsUser(c, u) /\ UNCHANGED session
        BY <1>3 DEF OnEnter, registry
    <2>2. /\ now' = [now EXCEPT ![c] = IF refused THEN left.at ELSE m]
          /\ players' = IF refused THEN left.in ELSE [left.in EXCEPT ![m][u] = 0]
        BY <1>3 DEF OnEnter
    <2>3. /\ left.at = None
          /\ left.in \in [Maps -> [Users -> Seqs \cup {None}]]
          /\ \A k \in Maps : left.in[k][u] = None
          /\ \A k \in Maps, v \in Users : v # u => left.in[k][v] = players[k][v]
        BY <2>1, Leaving
    <2> HIDE DEF left, m
    <2>4. CASE refused
        <3>1. now' = [now EXCEPT ![c] = None] /\ players' = left.in
            BY <2>2, <2>3, <2>4
        <3>2. \A k \in Maps : players'[k][u] # None <=> k = None
            BY <2>3, <3>1, PresenceAssumption
        <3>3. \A k \in Maps, v \in Users :
                v # u => (players'[k][v] # None <=> players[k][v] # None)
            BY <2>3, <3>1
        <3>4. None \in Maps \cup {None}
            OBVIOUS
        <3>5. PresenceAgrees'
            <4> HIDE DEF IInv
            <4> QED BY <2>1, <3>1, <3>2, <3>3, <3>4, OneMoves
        <3> QED BY <3>5
    <2>5. CASE ~refused
        <3>1. /\ m \in Maps
              /\ now' = [now EXCEPT ![c] = m]
              /\ players' = [left.in EXCEPT ![m][u] = 0]
            BY <2>2, <2>5
        <3>2. \A k \in Maps : players'[k][u] # None <=> k = m
            BY <2>3, <3>1, SeqsFacts
        <3>3. \A k \in Maps, v \in Users :
                v # u => (players'[k][v] # None <=> players[k][v] # None)
            BY <2>3, <3>1
        <3>4. m \in Maps \cup {None}
            BY <3>1
        <3>5. PresenceAgrees'
            <4> HIDE DEF IInv
            <4> QED BY <2>1, <3>1, <3>2, <3>3, <3>4, OneMoves
        <3> QED BY <3>5
    <2> QED BY <2>4, <2>5
<1>4. ASSUME NEW c \in Conns, NEW u \in Users, OnLeave(c, u)
      PROVE  PresenceAgrees'
    <2>1. /\ IsUser(c, u) /\ UNCHANGED session
          /\ now' = [now EXCEPT ![c] = LeaveCurrMap(c, u).at]
          /\ players' = LeaveCurrMap(c, u).in
        BY <1>4 DEF OnLeave, registry
    <2>2. now' = [now EXCEPT ![c] = None]
        BY <2>1, Leaving
    <2>3. \A k \in Maps : players'[k][u] # None <=> k = None
        BY <2>1, Leaving, PresenceAssumption
    <2>4. \A k \in Maps, v \in Users :
            v # u => (players'[k][v] # None <=> players[k][v] # None)
        BY <2>1, Leaving
    <2>5. None \in Maps \cup {None}
        OBVIOUS
    <2>6. PresenceAgrees'
        <3> HIDE DEF IInv
        <3> QED BY <2>1, <2>2, <2>3, <2>4, <2>5, OneMoves, ZenonT(30)
    <2> QED BY <2>6
<1>5. ASSUME NEW c \in Conns, NEW u \in Users, OnInput(c, u)
      PROVE  PresenceAgrees'
    <2>1. Head(toSrv[c]).seq \in Seqs
        BY <1>5, TakesType DEF OnInput, Requests
    <2>2. UNCHANGED <<session, now>>
        BY <1>5 DEF OnInput, registry
    <2>3. \A k \in Maps, v \in Users :
            players'[k][v] = None <=> players[k][v] = None
        BY <1>5, <2>1, InputType DEF OnInput
    <2> QED BY <2>2, <2>3 DEF PresenceAgrees
<1>6. ASSUME NEW c \in Conns, NEW u \in Users, OnClose(c, u)
      PROVE  PresenceAgrees'
    <2>1. /\ IsUser(c, u)
          /\ session' = [session EXCEPT ![u] = None]
          /\ now' = [now EXCEPT ![c] = LeaveCurrMap(c, u).at]
          /\ players' = LeaveCurrMap(c, u).in
        BY <1>6 DEF OnClose, OnLogout, Registry!Close
    <2>2. \A v \in Users : v # u => session[v] # c
        BY <2>1, PresenceAssumption DEF SessionsDistinct, IsUser
    <2>3. \A k \in Maps : players'[k][u] = None
        BY <2>1, Leaving
    <2>4. \A k \in Maps, v \in Users : v # u => players'[k][v] = players[k][v]
        BY <2>1, Leaving
    <2> QED BY <2>1, <2>2, <2>3, <2>4, PresenceAssumption DEF PresenceAgrees
<1>7. CASE OnStop
    <2>1. /\ session' = [u \in Users |-> None]
          /\ players' = [m \in Maps |-> [u \in Users |-> None]]
        BY <1>7 DEF OnStop, Registry!Shutdown
    <2> QED BY <2>1, PresenceAssumption DEF PresenceAgrees
<1> QED BY <1>1, <1>2, <1>3, <1>4, <1>5, <1>6, <1>7, PresenceChanges DEF Handler

-----------------------------------------------------------------------------
(* Entering *)

Granted(q) == \A i \in DOMAIN q : q[i].type # "refused"

LEMMA GrantedKept ==
    ASSUME NEW p \in Seq(Notices), Granted(p)
    PROVE  /\ \A e \in Notices : e.type # "refused" => Granted(Append(p, e))
           /\ p # <<>> => Granted(Tail(p))
           /\ \A q \in Seq(Notices) : Granted(q) => Granted(p \o q)
<1>1. ASSUME NEW e \in Notices, e.type # "refused"
      PROVE  Granted(Append(p, e))
    BY <1>1 DEF Granted
<1>2. ASSUME p # <<>> PROVE Granted(Tail(p))
    BY <1>2 DEF Granted
<1>3. ASSUME NEW q \in Seq(Notices), Granted(q) PROVE Granted(p \o q)
    BY <1>3 DEF Granted
<1> QED BY <1>1, <1>2, <1>3

\* What the server tells a client is never a refusal.
LEMMA TellGrants ==
    ASSUME TypeOK, ExistingMapIsEntered, NEW c \in Conns,
           NEW msgs \in Seq(Notices), Granted(msgs), Tell(c, msgs)
    PROVE  ExistingMapIsEntered'
<1>1. Granted(toCli[c] \o msgs)
    BY GrantedKept DEF TypeOK, QueuesTypeOK, ExistingMapIsEntered, Granted
<1>2. \A d \in Conns : Granted(toCli'[d])
    BY <1>1 DEF Tell, TypeOK, QueuesTypeOK, ExistingMapIsEntered, Granted
<1> QED BY <1>2 DEF ExistingMapIsEntered, Granted

LEMMA OneNotice ==
    ASSUME NEW e \in Notices, e.type # "refused"
    PROVE  <<e>> \in Seq(Notices) /\ Granted(<<e>>)
BY DEF Granted

LEMMA EnteredStep ==
    ASSUME IInv, ExistingMapIsEntered, [Next]_vars
    PROVE  ExistingMapIsEntered'
<1> USE DEF IInv
<1>1. ASSUME UNCHANGED toCli PROVE ExistingMapIsEntered'
    BY <1>1 DEF ExistingMapIsEntered
<1>2. ASSUME NEW c \in Conns, ClientReceives(c) PROVE ExistingMapIsEntered'
    <2>1. Granted(Tail(toCli[c]))
        BY <1>2, GrantedKept DEF ClientReceives, TypeOK, QueuesTypeOK,
                                ExistingMapIsEntered, Granted
    <2> QED BY <1>2, <2>1 DEF ClientReceives, TypeOK, QueuesTypeOK,
                             ExistingMapIsEntered, Granted
<1>3. ASSUME NEW c \in Conns, Client(c), ~ClientReceives(c)
      PROVE  UNCHANGED toCli
    BY <1>3 DEF Client, ClientSends, CarefulAsks, CarefulMoves, Sends,
               ClientCloses
<1>4. ASSUME NEW c \in Conns, NEW u \in Users, Login(u, c)
      PROVE  ExistingMapIsEntered'
    <2>1. /\ Message("login", None, None) \in Notices
          /\ Message("login", None, None).type # "refused"
        BY NoticeTypes DEF Message
    <2> QED BY <1>4, <2>1, OneNotice, TellGrants DEF Login
<1>5. ASSUME NEW c \in Conns, NEW u \in Users, OnEnter(c, u)
      PROVE  ExistingMapIsEntered'
    <2> DEFINE m == Head(toSrv[c]).map
               left == LeaveCurrMap(c, u)
               refused == m \notin Maps \/ left.in[m][u] # None
               answer == IF m \notin Maps THEN "notFound"
                           ELSE IF refused THEN "refused" ELSE "entered"
               init == IF refused THEN <<>> ELSE <<Message("init", m, None)>>
               last == <<Message(answer, None, None)>>
    <2>1. IsUser(c, u) /\ Tell(c, init \o last)
        BY <1>5 DEF OnEnter
    <2>2. \A k \in Maps : left.in[k][u] = None
        BY <2>1, Leaving
    <2> HIDE DEF left, m
    <2>3. answer \in {"notFound", "entered"}
        BY <2>2
    <2> HIDE DEF answer
    <2>4. last \in Seq(Notices) /\ Granted(last)
        <3>1. /\ Message(answer, None, None) \in Notices
              /\ Message(answer, None, None).type # "refused"
            BY <2>3, NoticeTypes DEF Message
        <3> QED BY <3>1, OneNotice
    <2>5. init \in Seq(Notices) /\ Granted(init)
        <3>1. CASE refused
            BY <3>1 DEF Granted
        <3>2. CASE ~refused
            <4>1. /\ Message("init", m, None) \in Notices
                  /\ Message("init", m, None).type # "refused"
                BY <3>2, NoticeTypes DEF Message
            <4> QED BY <3>2, <4>1, OneNotice
        <3> QED BY <3>1, <3>2
    <2> HIDE DEF init, last
    <2>6. init \o last \in Seq(Notices) /\ Granted(init \o last)
        BY <2>4, <2>5, GrantedKept, ConcatType
    <2> QED BY <2>1, <2>6, TellGrants
<1>6. ASSUME NEW c \in Conns, NEW u \in Users, OnLeave(c, u)
      PROVE  ExistingMapIsEntered'
    <2>1. /\ Message("left", None, None) \in Notices
          /\ Message("left", None, None).type # "refused"
        BY NoticeTypes DEF Message
    <2> QED BY <1>6, <2>1, OneNotice, TellGrants DEF OnLeave
<1>7. ASSUME NEW m \in Maps, FixedUpdate(m) PROVE ExistingMapIsEntered'
    <2>1. /\ Message("state", m, None) \in Notices
          /\ Message("state", m, None).type # "refused"
        BY NoticeTypes DEF Message
    <2>2. \A c \in Conns : Granted(Append(toCli[c], Message("state", m, None)))
        BY <2>1, GrantedKept DEF TypeOK, QueuesTypeOK, ExistingMapIsEntered,
                                Granted
    <2>3. \A c \in Conns : Granted(toCli'[c])
        BY <1>7, <2>2 DEF FixedUpdate, ExistingMapIsEntered, Granted
    <2> QED BY <2>3 DEF ExistingMapIsEntered, Granted
<1>8. ASSUME NEW c \in Conns, NEW u \in Users, Handler(c, u)
      PROVE  ExistingMapIsEntered'
    <2>1. OnInput(c, u) \/ OnClose(c, u) => UNCHANGED toCli
        BY DEF OnInput, OnClose
    <2> QED BY <1>1, <1>5, <1>6, <1>8, <2>1 DEF Handler
<1>9. ASSUME \/ \E c \in Conns : Drops(c)
             \/ OnSafeStop
             \/ OnStop
             \/ UNCHANGED vars
      PROVE  UNCHANGED toCli
    BY <1>9 DEF Drops, OnSafeStop, OnStop, vars
<1> QED BY <1>1, <1>2, <1>3, <1>4, <1>7, <1>8, <1>9 DEF Next

-----------------------------------------------------------------------------
(* Notices *)

\* A client that knows itself in map a knows itself in map m once it has read
\* the first n notices of queue q.
Knows(q, a, n, m) ==
    \/ a = m /\ NoLearning(q, 1, n)
    \/ \E j \in 1..n : /\ q[j].type \in Learning
                       /\ q[j].map = m
                       /\ NoLearning(q, j + 1, n)

\* Every state notice of q comes where the client knows itself in its map.
StatesFollow(q, a) ==
    \A i \in DOMAIN q :
        q[i].type = "state" => Knows(q, a, i - 1, q[i].map)

HasSession(c) == \E u \in Users : IsUser(c, u)

\* Once all that is on the way is read, a client with a session knows where
\* its component is, and one that may still log in knows itself nowhere.
Informed(c) ==
    /\ StatesFollow(toCli[c], at[c])
    /\ HasSession(c) => Knows(toCli[c], at[c], Len(toCli[c]), now[c])
    /\ running /\ ~closed[c] /\ ~HasSession(c)
         => Knows(toCli[c], at[c], Len(toCli[c]), None)

NoticesInv == \A c \in Conns : Informed(c)

\* One notice more.
LEMMA ReadsOneMore ==
    ASSUME NEW q, NEW a, NEW n \in Nat, NEW m
    PROVE  /\ q[n + 1].type \notin Learning /\ Knows(q, a, n, m)
                => Knows(q, a, n + 1, m)
           /\ q[n + 1].type \in Learning => Knows(q, a, n + 1, q[n + 1].map)
<1>1. ASSUME q[n + 1].type \in Learning
      PROVE  Knows(q, a, n + 1, q[n + 1].map)
    <2>1. NoLearning(q, (n + 1) + 1, n + 1) /\ n + 1 \in 1..(n + 1)
        BY DEF NoLearning
    <2> QED BY <1>1, <2>1 DEF Knows
<1>2. ASSUME q[n + 1].type \notin Learning, Knows(q, a, n, m)
      PROVE  Knows(q, a, n + 1, m)
    <2>1. \A i \in Nat : NoLearning(q, i, n) => NoLearning(q, i, n + 1)
        <3> SUFFICES ASSUME NEW i \in Nat, NoLearning(q, i, n),
                            NEW k \in i..(n + 1)
                     PROVE  q[k].type \notin Learning
            BY DEF NoLearning
        <3>1. k = n + 1 \/ k \in i..n
            OBVIOUS
        <3> QED BY <1>2, <3>1 DEF NoLearning
    <2>2. CASE a = m /\ NoLearning(q, 1, n)
        BY <2>1, <2>2 DEF Knows
    <2>3. ASSUME NEW j \in 1..n, q[j].type \in Learning, q[j].map = m,
                 NoLearning(q, j + 1, n)
          PROVE  Knows(q, a, n + 1, m)
        <3>1. j \in 1..(n + 1) /\ j + 1 \in Nat
            OBVIOUS
        <3> QED BY <2>1, <2>3, <3>1 DEF Knows
    <2> QED BY <1>2, <2>2, <2>3 DEF Knows
<1> QED BY <1>1, <1>2

\* The first n notices say what the client knows.
LEMMA SameBeginning ==
    ASSUME NEW p, NEW q, NEW a, NEW n \in Nat, NEW m,
           \A i \in 1..n : p[i] = q[i], Knows(p, a, n, m)
    PROVE  Knows(q, a, n, m)
<1>1. \A i \in 1..(n + 1) : NoLearning(p, i, n) => NoLearning(q, i, n)
    <2> SUFFICES ASSUME NEW i \in 1..(n + 1), NoLearning(p, i, n),
                        NEW k \in i..n
                 PROVE  q[k].type \notin Learning
        BY DEF NoLearning
    <2>1. k \in 1..n
        OBVIOUS
    <2> QED BY <2>1 DEF NoLearning
<1>2. CASE a = m /\ NoLearning(p, 1, n)
    <2>1. 1 \in 1..(n + 1)
        OBVIOUS
    <2> QED BY <1>1, <1>2, <2>1 DEF Knows
<1>3. ASSUME NEW j \in 1..n, p[j].type \in Learning, p[j].map = m,
             NoLearning(p, j + 1, n)
      PROVE  Knows(q, a, n, m)
    <2>1. j + 1 \in 1..(n + 1)
        OBVIOUS
    <2> QED BY <1>1, <1>3, <2>1 DEF Knows
<1> QED BY <1>2, <1>3 DEF Knows

\* The client reads the first notice: t is the queue left.
LEMMA ReadsFirst ==
    ASSUME NEW q, NEW t, NEW a, NEW n \in Nat, NEW m,
           \A i \in 1..n : t[i] = q[i + 1], Knows(q, a, n + 1, m)
    PROVE  Knows(t, IF q[1].type \in Learning THEN q[1].map ELSE a, n, m)
<1> DEFINE b == IF q[1].type \in Learning THEN q[1].map ELSE a
<1>1. \A i \in 1..(n + 1) : NoLearning(q, i + 1, n + 1) => NoLearning(t, i, n)
    <2> SUFFICES ASSUME NEW i \in 1..(n + 1), NoLearning(q, i + 1, n + 1),
                        NEW k \in i..n
                 PROVE  t[k].type \notin Learning
        BY DEF NoLearning
    <2>1. k \in 1..n /\ k + 1 \in (i + 1)..(n + 1)
        OBVIOUS
    <2> QED BY <2>1 DEF NoLearning
<1>2. CASE a = m /\ NoLearning(q, 1, n + 1)
    <2>1. 1 \in 1..(n + 1) /\ 1 \in 1..(n + 1)
        OBVIOUS
    <2>2. q[1].type \notin Learning
        BY <1>2, <2>1 DEF NoLearning
    <2>3. NoLearning(q, 1 + 1, n + 1)
        <3>1. \A k \in (1 + 1)..(n + 1) : k \in 1..(n + 1)
            OBVIOUS
        <3> QED BY <1>2, <3>1 DEF NoLearning
    <2> QED BY <1>1, <1>2, <2>1, <2>2, <2>3 DEF Knows
<1>3. ASSUME NEW j \in 1..(n + 1), q[j].type \in Learning, q[j].map = m,
             NoLearning(q, j + 1, n + 1)
      PROVE  Knows(t, b, n, m)
    <2>1. CASE j = 1
        <3>1. 1 \in 1..(n + 1)
            OBVIOUS
        <3>2. b = m /\ NoLearning(t, 1, n)
            BY <1>1, <1>3, <2>1, <3>1
        <3> QED BY <3>2 DEF Knows
    <2>2. CASE j # 1
        <3>1. PICK i \in 1..n : j = i + 1
            BY <2>2
        <3>2. t[i] = q[j] /\ i + 1 \in 1..(n + 1)
            BY <3>1
        <3>3. NoLearning(q, (i + 1) + 1, n + 1)
            BY <1>3, <3>1
        <3>4. NoLearning(t, i + 1, n)
            BY <1>1, <3>2, <3>3
        <3> QED BY <1>3, <3>2, <3>4 DEF Knows
    <2> QED BY <2>1, <2>2
<1> QED BY <1>2, <1>3 DEF Knows

\* A notice on the way: a state notice must be of the map the client will know
\* itself in.
LEMMA OneNoticeMore ==
    ASSUME NEW q \in Seq(Notices), NEW a, NEW m, NEW e \in Notices,
           StatesFollow(q, a), Knows(q, a, Len(q), m),
           e.type = "state" => e.map = m
    PROVE  LET t == Append(q, e) IN
           /\ StatesFollow(t, a)
           /\ Knows(t, a, Len(t), IF e.type \in Learning THEN e.map ELSE m)
<1>0. PICK t : t = Append(q, e)
    OBVIOUS
<1>1. /\ Len(q) \in Nat /\ DOMAIN q = 1..Len(q)
      /\ Len(t) = Len(q) + 1 /\ DOMAIN t = 1..(Len(q) + 1)
      /\ t[Len(q) + 1] = e /\ \A i \in 1..Len(q) : t[i] = q[i]
    BY <1>0
<1>2. Knows(t, a, Len(q), m)
    BY <1>1, SameBeginning
<1>3. Knows(t, a, Len(t), IF e.type \in Learning THEN e.map ELSE m)
    BY <1>1, <1>2, ReadsOneMore
<1>4. ASSUME NEW i \in DOMAIN t, t[i].type = "state"
      PROVE  Knows(t, a, i - 1, t[i].map)
    <2>1. CASE i = Len(q) + 1
        <3>1. i - 1 = Len(q)
            BY <1>1, <2>1
        <3> QED BY <1>1, <1>2, <1>4, <2>1, <3>1
    <2>2. CASE i # Len(q) + 1
        <3>1. i \in 1..Len(q) /\ i - 1 \in Nat
            BY <1>1, <2>2
        <3>2. \A k \in 1..(i - 1) : k \in 1..Len(q)
            BY <1>1, <3>1
        <3>3. t[i] = q[i] /\ Knows(q, a, i - 1, q[i].map)
            BY <1>1, <1>4, <3>1 DEF StatesFollow
        <3> QED BY <1>1, <3>1, <3>2, <3>3, SameBeginning
    <2> QED BY <2>1, <2>2
<1> QED BY <1>0, <1>3, <1>4 DEF StatesFollow

\* The client reads.
LEMMA OneNoticeLess ==
    ASSUME NEW q \in Seq(Notices), NEW a, q # <<>>, StatesFollow(q, a)
    PROVE  LET e == Head(q)
               b == IF e.type \in Learning THEN e.map ELSE a
               t == Tail(q)
           IN /\ StatesFollow(t, b)
              /\ \A m : Knows(q, a, Len(q), m) => Knows(t, b, Len(t), m)
<1>0. PICK t : t = Tail(q)
    OBVIOUS
<1>1. PICK b : b = IF q[1].type \in Learning THEN q[1].map ELSE a
    OBVIOUS
<1>2. /\ Len(q) \in Nat /\ Len(q) >= 1 /\ DOMAIN q = 1..Len(q)
      /\ Head(q) = q[1]
      /\ Len(t) = Len(q) - 1 /\ Len(t) \in Nat /\ DOMAIN t = 1..Len(t)
      /\ Len(t) + 1 = Len(q)
      /\ \A i \in 1..Len(t) : t[i] = q[i + 1]
    BY <1>0
<1>3. ASSUME NEW m, Knows(q, a, Len(q), m) PROVE Knows(t, b, Len(t), m)
    BY <1>1, <1>2, <1>3, ReadsFirst
<1>4. ASSUME NEW i \in DOMAIN t, t[i].type = "state"
      PROVE  Knows(t, b, i - 1, t[i].map)
    <2>1. i \in 1..Len(t) /\ i + 1 \in 1..Len(q) /\ i - 1 \in Nat
            /\ (i - 1) + 1 = i /\ (i + 1) - 1 = i
        BY <1>2
    <2>2. t[i] = q[i + 1] /\ Knows(q, a, i, t[i].map)
        BY <1>2, <1>4, <2>1 DEF StatesFollow
    <2>3. \A k \in 1..(i - 1) : t[k] = q[k + 1]
        BY <1>2, <2>1
    <2> QED BY <1>1, <2>1, <2>2, <2>3, ReadsFirst
<1> QED BY <1>0, <1>1, <1>2, <1>3, <1>4 DEF StatesFollow

\* Only an init notice tells of a map: the property, from the invariant.
LEMMA FollowIsFollow ==
    ASSUME TypeOK, NoticesInv
    PROVE  NoticesFollowInit
<1> SUFFICES ASSUME NEW c \in Conns, NEW i \in DOMAIN toCli[c],
                    toCli[c][i].type = "state"
             PROVE  \/ /\ at[c] = toCli[c][i].map
                       /\ NoLearning(toCli[c], 1, i - 1)
                    \/ \E j \in 1..(i - 1) :
                         /\ toCli[c][j] = Message("init", toCli[c][i].map, None)
                         /\ NoLearning(toCli[c], j + 1, i - 1)
    BY DEF NoticesFollowInit
<1>1. PICK q : q = toCli[c]
    OBVIOUS
<1>2. q \in Seq(Notices) /\ i \in 1..Len(q) /\ Len(q) \in Nat
        /\ \A j \in 1..Len(q) : q[j] \in Notices
    BY <1>1 DEF TypeOK, QueuesTypeOK
<1>3. Knows(q, at[c], i - 1, q[i].map)
    BY <1>1 DEF NoticesInv, Informed, StatesFollow
<1>4. q[i].map \in Maps
    <2>1. q[i] \in Notices /\ q[i].type = "state"
        BY <1>1, <1>2
    <2> QED BY <2>1 DEF Notices
<1>5. ASSUME NEW j \in 1..(i - 1), q[j].type \in Learning, q[j].map = q[i].map
      PROVE  q[j] = Message("init", q[i].map, None)
    <2>1. j \in 1..Len(q)
        BY <1>2
    <2>2. q[j] \in Notices
        BY <1>2, <2>1
    <2> QED BY <1>4, <1>5, <2>2, PresenceAssumption DEF Notices, Learning, Message
<1> QED BY <1>1, <1>3, <1>5 DEF Knows

\* A step that tells and moves at most the client of one connection.
LEMMA OthersInformed ==
    ASSUME NoticesInv, NEW c \in Conns, Informed(c)', running' => running,
           \A d \in Conns : d # c =>
             /\ UNCHANGED <<toCli[d], at[d], now[d], closed[d]>>
             /\ HasSession(d)' <=> HasSession(d)
    PROVE  NoticesInv'
<1> SUFFICES ASSUME NEW d \in Conns, d # c PROVE Informed(d)'
    BY DEF NoticesInv
<1>1. Informed(d)
    BY DEF NoticesInv
<1>2. /\ toCli'[d] = toCli[d] /\ at'[d] = at[d] /\ now'[d] = now[d]
      /\ closed'[d] = closed[d]
      /\ HasSession(d)' <=> HasSession(d)
    OBVIOUS
<1> QED BY <1>1, <1>2 DEF Informed

\* A step that tells nobody, moves nobody and opens no session.
LEMMA NothingTold ==
    ASSUME NoticesInv, UNCHANGED <<toCli, at, now>>,
           \A d \in Conns : closed[d] => closed'[d],
           \/ /\ UNCHANGED <<session, running>>
           \/ /\ ~running'
              /\ \A d \in Conns : HasSession(d)' => HasSession(d)
    PROVE  NoticesInv'
<1> SUFFICES ASSUME NEW d \in Conns PROVE Informed(d)'
    BY DEF NoticesInv
<1>1. Informed(d)
    BY DEF NoticesInv
<1>2. StatesFollow(toCli[d], at[d])' /\ UNCHANGED Knows(toCli[d], at[d], Len(toCli[d]), now[d])
    BY <1>1 DEF Informed
<1>3. UNCHANGED session => (HasSession(d)' <=> HasSession(d))
    BY DEF HasSession, IsUser
<1> QED BY <1>1, <1>2, <1>3 DEF Informed

\* What a client with a known standing is told about.
LEMMA Tells ==
    ASSUME NEW q \in Seq(Notices), NEW a, NEW m, NEW e \in Notices,
           StatesFollow(q, a), Knows(q, a, Len(q), m), e.type # "state",
           NEW t, t = q \o <<e>>
    PROVE  /\ t \in Seq(Notices)
           /\ StatesFollow(t, a)
           /\ Knows(t, a, Len(t), IF e.type \in Learning THEN e.map ELSE m)
<1>1. t = Append(q, e)
    OBVIOUS
<1>2. t \in Seq(Notices)
    BY <1>1, AppendType

<1>3. /\ StatesFollow(Append(q, e), a)
      /\ Knows(Append(q, e), a, Len(Append(q, e)),
               IF e.type \in Learning THEN e.map ELSE m)
    BY OneNoticeMore
<1> QED BY <1>1, <1>2, <1>3, Zenon

LEMMA ReceivesInforms ==
    ASSUME TypeOK, NoticesInv, NEW c \in Conns, ClientReceives(c)
    PROVE  NoticesInv'
<1>1. PICK q \in Seq(Notices) : q = toCli[c] /\ q # <<>>
    BY DEF ClientReceives, TypeOK, QueuesTypeOK
<1>2. /\ toCli' = [toCli EXCEPT ![c] = Tail(@)]
      /\ at' = [at EXCEPT ![c] = IF Head(q).type \in Learning THEN Head(q).map
                                                              ELSE @]
      /\ UNCHANGED <<session, running, now, closed>>
    BY <1>1 DEF ClientReceives, registry, tables
<1>3. /\ toCli'[c] = Tail(q)
      /\ at'[c] = IF Head(q).type \in Learning THEN Head(q).map ELSE at[c]
      /\ \A d \in Conns : d # c => UNCHANGED <<toCli[d], at[d], now[d], closed[d]>>
    BY <1>1, <1>2 DEF TypeOK, QueuesTypeOK, ClientsTypeOK
<1>4. \A d \in Conns : HasSession(d)' <=> HasSession(d)
    BY <1>2 DEF HasSession, IsUser
<1>5. Informed(c)
    BY DEF NoticesInv
<1>6. /\ StatesFollow(toCli'[c], at'[c])
      /\ \A m : Knows(q, at[c], Len(q), m)
                  => Knows(toCli'[c], at'[c], Len(toCli'[c]), m)
    BY <1>1, <1>3, <1>5, OneNoticeLess DEF Informed
<1>7. Informed(c)'
    BY <1>1, <1>2, <1>4, <1>5, <1>6 DEF Informed
<1> QED BY <1>2, <1>3, <1>4, <1>7, OthersInformed

LEMMA LoginInforms ==
    ASSUME IInv, NoticesInv, NEW c \in Conns, NEW u \in Users, Login(u, c)
    PROVE  NoticesInv'
<1> USE DEF IInv, TypeOK, RegistryTypeOK, TablesTypeOK
<1>1. PICK e \in Notices : e = Message("login", None, None)
    BY NoticeTypes
<1>2. /\ running /\ ~closed[c] /\ session[u] = None
      /\ \A v \in Users : session[v] # c
      /\ session' = [session EXCEPT ![u] = c]
      /\ now' = [now EXCEPT ![c] = None]
      /\ toCli' = [toCli EXCEPT ![c] = @ \o <<e>>]
      /\ UNCHANGED <<running, at, closed>>
    BY <1>1 DEF Login, Tell, Registry!Open, clients
<1>3. e.type # "state" /\ e.type \notin Learning
    BY <1>1 DEF Message, Learning
<1>4. Informed(c) /\ ~HasSession(c)
    BY <1>2 DEF NoticesInv, HasSession, IsUser
<1>5. toCli'[c] = toCli[c] \o <<e>> /\ now'[c] = None
    BY <1>2 DEF QueuesTypeOK
<1>6. PICK q, t : q \in Seq(Notices) /\ q = toCli[c] /\ t = q \o <<e>>
    BY DEF QueuesTypeOK
<1>9. StatesFollow(t, at[c]) /\ Knows(t, at[c], Len(t), None)
    BY <1>2, <1>3, <1>4, <1>6, Tells DEF Informed
<1>7. Informed(c)'
    BY <1>2, <1>5, <1>6, <1>9 DEF Informed
<1>8. \A d \in Conns : d # c =>
        /\ UNCHANGED <<toCli[d], at[d], now[d], closed[d]>>
        /\ HasSession(d)' <=> HasSession(d)
    BY <1>2, PresenceAssumption DEF HasSession, IsUser, QueuesTypeOK
<1> QED BY <1>2, <1>7, <1>8, OthersInformed

\* An answer to a client with a session: msgs ends where its component is.
LEMMA AnswerInforms ==
    ASSUME IInv, NoticesInv, NEW c \in Conns, NEW u \in Users, IsUser(c, u),
           NEW m \in Maps \cup {None}, now' = [now EXCEPT ![c] = m],
           NEW t, toCli' = [toCli EXCEPT ![c] = t],
           StatesFollow(t, at[c]), Knows(t, at[c], Len(t), m),
           UNCHANGED <<registry, running, clients>>
    PROVE  NoticesInv'
<1> USE DEF IInv, TypeOK, TablesTypeOK, QueuesTypeOK
<1>1. UNCHANGED <<session, running, at, closed>>
    BY DEF registry, clients
<1>2. \A d \in Conns : HasSession(d)' <=> HasSession(d)
    BY <1>1 DEF HasSession, IsUser
<1>3. toCli'[c] = t /\ now'[c] = m /\ at'[c] = at[c]
    BY <1>1
<1>4. HasSession(c)
    BY DEF HasSession
<1>5. Informed(c)'
    BY <1>2, <1>3, <1>4 DEF Informed
<1> QED BY <1>1, <1>2, <1>5, OthersInformed

LEMMA EnterInforms ==
    ASSUME IInv, NoticesInv, NEW c \in Conns, NEW u \in Users, OnEnter(c, u)
    PROVE  NoticesInv'
<1> DEFINE left == LeaveCurrMap(c, u)
<1>0. PICK m : m = Head(toSrv[c]).map
    OBVIOUS
<1> DEFINE refused == m \notin Maps \/ left.in[m][u] # None
           answer == IF m \notin Maps THEN "notFound"
                       ELSE IF refused THEN "refused" ELSE "entered"
<1>1. /\ IsUser(c, u)
      /\ now' = [now EXCEPT ![c] = IF refused THEN left.at ELSE m]
      /\ toCli' = [toCli EXCEPT ![c] = @ \o
                     ((IF refused THEN <<>> ELSE <<Message("init", m, None)>>)
                        \o <<Message(answer, None, None)>>)]
      /\ UNCHANGED <<registry, running, clients>>
    BY <1>0 DEF OnEnter, Tell
<1>2. left.at = None /\ (refused <=> m \notin Maps)
    BY <1>1, Leaving
<1> HIDE DEF left
<1>3. Informed(c) /\ HasSession(c)
    BY <1>1 DEF NoticesInv, HasSession
<1>4. PICK q \in Seq(Notices) : q = toCli[c]
    BY DEF IInv, TypeOK, QueuesTypeOK
<1>5. CASE m \notin Maps
    <2>1. PICK e \in Notices : e = Message("notFound", None, None)
        BY NoticeTypes
    <2>2. PICK t : t = q \o <<e>>
        OBVIOUS
    <2>3. answer = "notFound" /\ now' = [now EXCEPT ![c] = None]
        BY <1>1, <1>2, <1>5
    <2>4. t = toCli[c] \o (<<>> \o <<e>>)
        BY <1>4, <2>2
    <2>5. toCli' = [toCli EXCEPT ![c] = t]
        BY <1>1, <1>2, <1>5, <2>1, <2>3, <2>4
    <2>6. e.type \in Learning /\ e.map = None /\ e.type # "state"
        BY <2>1 DEF Message, Learning
    <2>7. StatesFollow(t, at[c]) /\ Knows(t, at[c], Len(t), None)
        BY <1>3, <1>4, <2>2, <2>6, Tells DEF IInv, Informed
    <2> QED BY <1>1, <2>3, <2>5, <2>7, AnswerInforms
<1>6. CASE m \in Maps
    <2>1. PICK e \in Notices : e = Message("init", m, None)
        BY <1>6, NoticeTypes
    <2>2. PICK f \in Notices : f = Message("entered", None, None)
        BY NoticeTypes
    <2>3. PICK s : s = q \o <<e>>
        OBVIOUS
    <2>4. e.type \in Learning /\ e.map = m /\ e.type # "state"
            /\ f.type \notin Learning /\ f.type # "state"
        BY <2>1, <2>2 DEF Message, Learning
    <2>5. s \in Seq(Notices) /\ StatesFollow(s, at[c])
            /\ Knows(s, at[c], Len(s), m)
        BY <1>3, <1>4, <2>3, <2>4, Tells DEF IInv, Informed
    <2>6. PICK t : t = Append(s, f)
        OBVIOUS
    <2>7. StatesFollow(t, at[c]) /\ Knows(t, at[c], Len(t), m)
        BY <2>4, <2>5, <2>6, OneNoticeMore
    <2>8. answer = "entered" /\ now' = [now EXCEPT ![c] = m]
        BY <1>1, <1>2, <1>6
    <2>9. t = toCli[c] \o (<<e>> \o <<f>>)
        BY <1>4, <2>3, <2>6
    <2>10. toCli' = [toCli EXCEPT ![c] = t]
        BY <1>1, <1>2, <1>6, <2>1, <2>2, <2>8, <2>9
    <2> QED BY <1>1, <1>6, <2>7, <2>8, <2>10, AnswerInforms
<1> QED BY <1>5, <1>6

LEMMA LeaveInforms ==
    ASSUME IInv, NoticesInv, NEW c \in Conns, NEW u \in Users, OnLeave(c, u)
    PROVE  NoticesInv'
<1>1. PICK e \in Notices : e = Message("left", None, None)
    BY NoticeTypes
<1>2. PICK t : t = toCli[c] \o <<e>>
    OBVIOUS
<1>3. /\ IsUser(c, u)
      /\ toCli' = [toCli EXCEPT ![c] = t]
      /\ now' = [now EXCEPT ![c] = None]
      /\ UNCHANGED <<registry, running, clients>>
    BY <1>1, <1>2, Leaving DEF OnLeave, Tell
<1>4. e.type \in Learning /\ e.map = None /\ e.type # "state"
    BY <1>1 DEF Message, Learning
<1>5. Informed(c) /\ HasSession(c)
    BY <1>3 DEF NoticesInv, HasSession
<1>6. toCli[c] \in Seq(Notices)
    BY DEF IInv, TypeOK, QueuesTypeOK
<1>7. StatesFollow(t, at[c]) /\ Knows(t, at[c], Len(t), None)
    BY <1>2, <1>4, <1>5, <1>6, Tells DEF Informed
<1> QED BY <1>3, <1>7, AnswerInforms

LEMMA CloseInforms ==
    ASSUME IInv, NoticesInv, NEW c \in Conns, NEW u \in Users, OnClose(c, u)
    PROVE  NoticesInv'
<1> USE DEF IInv, TypeOK, RegistryTypeOK, TablesTypeOK
<1>1. /\ closed[c] /\ session[u] = c
      /\ session' = [session EXCEPT ![u] = None]
      /\ now' = [now EXCEPT ![c] = LeaveCurrMap(c, u).at]
      /\ UNCHANGED <<running, toCli, at, closed>>
    BY DEF OnClose, OnLogout, Registry!Close, IsUser, clients
<1>2. ~HasSession(c)'
    BY <1>1, PresenceAssumption DEF HasSession, IsUser, SessionsDistinct
<1>3. Informed(c)'
    BY <1>1, <1>2 DEF NoticesInv, Informed
<1>4. \A d \in Conns : d # c =>
        /\ UNCHANGED <<toCli[d], at[d], now[d], closed[d]>>
        /\ HasSession(d)' <=> HasSession(d)
    BY <1>1, PresenceAssumption DEF HasSession, IsUser
<1> QED BY <1>1, <1>3, <1>4, OthersInformed

\* A map's tick tells those whose component is in the map.
LEMMA UpdateInforms ==
    ASSUME IInv, NoticesInv, NEW m \in Maps, FixedUpdate(m)
    PROVE  NoticesInv'
<1> USE DEF IInv, TypeOK, QueuesTypeOK
<1> SUFFICES ASSUME NEW c \in Conns PROVE Informed(c)'
    BY DEF NoticesInv
<1>1. PICK e \in Notices : e = Message("state", m, None)
    BY NoticeTypes
<1>2. /\ toCli'[c] = IF Told(m, c) THEN Append(toCli[c], e) ELSE toCli[c]
      /\ UNCHANGED <<session, running, now, at, closed>>
    BY <1>1 DEF FixedUpdate, registry, tables, clients
<1>3. HasSession(c)' <=> HasSession(c)
    BY <1>2 DEF HasSession, IsUser
<1>4. Informed(c)
    BY DEF NoticesInv
<1>5. CASE ~Told(m, c)
    BY <1>2, <1>3, <1>4, <1>5 DEF Informed
<1>6. CASE Told(m, c)
    <2>1. PICK u \in Users : players[m][u] # None /\ IsUser(c, u)
        BY <1>6 DEF Told
    <2>2. HasSession(c) /\ now[c] = m
        BY <2>1 DEF HasSession, PresenceAgrees, IsUser
    <2>3. /\ toCli[c] \in Seq(Notices) /\ StatesFollow(toCli[c], at[c])
          /\ Knows(toCli[c], at[c], Len(toCli[c]), m)
        BY <1>4, <2>2 DEF Informed
    <2>4. e.type = "state" /\ e.map = m /\ e.type \notin Learning
        BY <1>1 DEF Message, Learning
    <2>5. toCli'[c] = Append(toCli[c], e)
        BY <1>2, <1>6
    <2>6. /\ StatesFollow(toCli'[c], at[c])
          /\ Knows(toCli'[c], at[c], Len(toCli'[c]), m)
        BY <2>3, <2>4, <2>5, OneNoticeMore, ZenonT(30)
    <2> QED BY <1>2, <1>3, <2>2, <2>6 DEF Informed
<1> QED BY <1>5, <1>6

LEMMA NoticesStep ==
    ASSUME IInv, NoticesInv, [Next]_vars
    PROVE  NoticesInv'
<1>1. ASSUME NEW c \in Conns, Client(c), ~ClientReceives(c)
      PROVE  NoticesInv'
    <2>1. UNCHANGED <<session, running, now, toCli, at>>
        BY <1>1 DEF Client, ClientSends, CarefulAsks, CarefulMoves, Sends,
                   ClientCloses, registry, tables
    <2>2. closed' = closed \/ closed' = [closed EXCEPT ![c] = TRUE]
        BY <1>1 DEF Client, ClientSends, CarefulAsks, CarefulMoves, Sends,
                   ClientCloses
    <2>3. \A d \in Conns : closed[d] => closed'[d]
        BY <2>2 DEF IInv, TypeOK, ClientsTypeOK
    <2> QED BY <2>1, <2>3, NothingTold
<1>2. ASSUME \/ \E c \in Conns : Drops(c)
             \/ \E c \in Conns, u \in Users : OnInput(c, u)
             \/ OnSafeStop
             \/ UNCHANGED vars
      PROVE  NoticesInv'
    <2>1. UNCHANGED <<session, running, now, toCli, at, closed>>
        BY <1>2 DEF Drops, OnInput, OnSafeStop, Registry!Stop, vars, registry,
                   tables, clients
    <2> QED BY <2>1, NothingTold
<1>3. CASE OnStop
    <2>1. /\ session' = [u \in Users |-> None] /\ ~running'
          /\ UNCHANGED <<now, toCli, at, closed>>
        BY <1>3 DEF OnStop, Registry!Shutdown, clients
    <2>2. \A d \in Conns : ~HasSession(d)'
        BY <2>1, PresenceAssumption DEF HasSession, IsUser
    <2> QED BY <2>1, <2>2, NothingTold
<1>4. ASSUME NEW c \in Conns, NEW u \in Users, Handler(c, u)
      PROVE  NoticesInv'
    BY <1>2, <1>4, EnterInforms, LeaveInforms, CloseInforms DEF Handler
<1>5. ASSUME NEW c \in Conns, ClientReceives(c) PROVE NoticesInv'
    BY <1>5, ReceivesInforms DEF IInv
<1> QED BY <1>1, <1>2, <1>3, <1>4, <1>5, LoginInforms, UpdateInforms DEF Next
-----------------------------------------------------------------------------
(* Inputs of careful clients *)

Succ(n) == IF n = MaxSeq THEN 1 ELSE n + 1

\* The number of the last input applied, after the first k requests of q.
Number(q, last, k) == IF k = 0 THEN last ELSE q[k].seq

\* The first n requests of q are inputs meant for map m, counted from last.
Counted(q, n, m, last) ==
    \A k \in 1..n : /\ m # None
                    /\ q[k].type = "input"
                    /\ q[k].map = m
                    /\ q[k].seq = Succ(Number(q, last, k - 1))

\* What is on the way to a client: no answer, or an answer after which only
\* state notices come.
Quiet(t) == \A i \in DOMAIN t : t[i].type = "state"

AnswerAt(t, k) ==
    /\ t[k].type \notin {"init", "state"}
    /\ \A i \in DOMAIN t : /\ i < k => t[i].type \in {"init", "state"}
                           /\ i > k => t[i].type = "state"

AnswerComing(t) == \E k \in DOMAIN t : AnswerAt(t, k)
InitComing(t) == \E i \in DOMAIN t : t[i].type = "init"

\* lastSeq of the map's player, in the map the component is in.
LastSeq(c, u) == IF now[c] = None THEN 0 ELSE players[now[c]][u]

\* A careful client waits for the answer to its login or its request: in a map
\* it enters, nothing is counted yet.
Answered(c, u) ==
    /\ waiting[c]
    /\ toSrv[c] = <<>>
    /\ AnswerComing(toCli[c])
    /\ now[c] # None => /\ LastSeq(c, u) = 0
                        /\ next[c] = 1 \/ InitComing(toCli[c])

\* It sends inputs,
Playing(c, u) ==
    /\ ~waiting[c]
    /\ Quiet(toCli[c])
    /\ Counted(toSrv[c], Len(toSrv[c]), now[c], LastSeq(c, u))
    /\ now[c] # None =>
         next[c] = Succ(Number(toSrv[c], LastSeq(c, u), Len(toSrv[c])))

\* or it has asked to enter or to leave, behind the inputs it sent before.
Asking(c, u) ==
    /\ waiting[c]
    /\ Quiet(toCli[c])
    /\ toSrv[c] # <<>>
    /\ toSrv[c][Len(toSrv[c])].type # "input"
    /\ Counted(toSrv[c], Len(toSrv[c]) - 1, now[c], LastSeq(c, u))

Alone(c) ==
    /\ toSrv[c] = <<>>
    /\ ~closed[c] => waiting[c] /\ Quiet(toCli[c])

Orderly(c) ==
    /\ ~HasSession(c) => Alone(c)
    /\ \A u \in Users :
         IsUser(c, u) => Answered(c, u) \/ Playing(c, u) \/ Asking(c, u)

CarefulInv == running => \A c \in Careful : Orderly(c)

\* Queues that begin alike are counted alike.
LEMMA CountedSame ==
    ASSUME NEW p, NEW q, NEW n \in Nat, NEW m, NEW last,
           \A i \in 1..n : p[i] = q[i]
    PROVE  /\ Counted(p, n, m, last) => Counted(q, n, m, last)
           /\ \A k \in 0..n : Number(p, last, k) = Number(q, last, k)
<1>1. \A k \in 0..n : Number(p, last, k) = Number(q, last, k)
    <2> SUFFICES ASSUME NEW k \in 0..n
                 PROVE  Number(p, last, k) = Number(q, last, k)
        OBVIOUS
    <2>1. k = 0 \/ k \in 1..n
        OBVIOUS
    <2> QED BY <2>1 DEF Number
<1>2. ASSUME Counted(p, n, m, last), NEW k \in 1..n
      PROVE  /\ m # None /\ q[k].type = "input" /\ q[k].map = m
             /\ q[k].seq = Succ(Number(q, last, k - 1))
    <2>1. k - 1 \in 0..n
        OBVIOUS
    <2> QED BY <1>1, <1>2, <2>1 DEF Counted
<1> QED BY <1>1, <1>2 DEF Counted

\* One input more: t is the queue with it.
LEMMA CountedMore ==
    ASSUME NEW q, NEW n \in Nat, NEW m, NEW last, m # None,
           Counted(q, n, m, last), q[n + 1].type = "input", q[n + 1].map = m,
           q[n + 1].seq = Succ(Number(q, last, n))
    PROVE  Counted(q, n + 1, m, last)
<1> SUFFICES ASSUME NEW k \in 1..(n + 1)
             PROVE  /\ m # None /\ q[k].type = "input" /\ q[k].map = m
                    /\ q[k].seq = Succ(Number(q, last, k - 1))
    BY DEF Counted
<1>1. CASE k = n + 1
    <2>1. k - 1 = n
        BY <1>1
    <2> QED BY <1>1, <2>1
<1>2. CASE k # n + 1
    <2>1. k \in 1..n
        BY <1>2
    <2> QED BY <2>1 DEF Counted
<1> QED BY <1>1, <1>2

\* The first input is applied: t is the queue left.
LEMMA CountedLess ==
    ASSUME NEW q, NEW t, NEW n \in Nat, NEW m, NEW last,
           \A i \in 1..n : t[i] = q[i + 1], Counted(q, n + 1, m, last)
    PROVE  Counted(t, n, m, q[1].seq)
<1>1. \A k \in 0..n : Number(t, q[1].seq, k) = Number(q, last, k + 1)
    <2> SUFFICES ASSUME NEW k \in 0..n
                 PROVE  Number(t, q[1].seq, k) = Number(q, last, k + 1)
        OBVIOUS
    <2>1. CASE k = 0
        BY <2>1 DEF Number
    <2>2. CASE k # 0
        <3>1. k \in 1..n /\ k + 1 # 0
            BY <2>2
        <3> QED BY <2>2, <3>1 DEF Number
    <2> QED BY <2>1, <2>2
<1>2. ASSUME NEW k \in 1..n
      PROVE  /\ m # None /\ t[k].type = "input" /\ t[k].map = m
             /\ t[k].seq = Succ(Number(t, q[1].seq, k - 1))
    <2>1. k + 1 \in 1..(n + 1) /\ k - 1 \in 0..n /\ (k - 1) + 1 = (k + 1) - 1
        OBVIOUS
    <2>2. /\ m # None /\ q[k + 1].type = "input" /\ q[k + 1].map = m
          /\ q[k + 1].seq = Succ(Number(q, last, (k + 1) - 1))
        BY <2>1 DEF Counted
    <2>3. Number(t, q[1].seq, k - 1) = Number(q, last, (k - 1) + 1)
        BY <1>1, <2>1
    <2>4. t[k] = q[k + 1]
        OBVIOUS
    <2> QED BY <2>1, <2>2, <2>3, <2>4
<1> QED BY <1>2 DEF Counted

\* A state notice more.
LEMMA StateMore ==
    ASSUME NEW q \in Seq(Notices), NEW e \in Notices, e.type = "state",
           NEW t, t = Append(q, e)
    PROVE  /\ Quiet(q) => Quiet(t)
           /\ AnswerComing(q) => AnswerComing(t)
           /\ InitComing(q) => InitComing(t)
<1>1. /\ Len(q) \in Nat /\ DOMAIN q = 1..Len(q)
      /\ DOMAIN t = 1..(Len(q) + 1)
      /\ t[Len(q) + 1] = e /\ \A i \in 1..Len(q) : t[i] = q[i]
    OBVIOUS
<1>2. \A i \in DOMAIN t : i = Len(q) + 1 \/ i \in DOMAIN q
    BY <1>1
<1>3. Quiet(q) => Quiet(t)
    BY <1>1, <1>2 DEF Quiet
<1>4. ASSUME NEW k \in DOMAIN q, AnswerAt(q, k) PROVE AnswerAt(t, k) /\ k \in DOMAIN t
    <2>1. k \in DOMAIN t /\ k < Len(q) + 1 /\ ~(Len(q) + 1 < k) /\ t[k] = q[k]
        BY <1>1
    <2> QED BY <1>1, <1>2, <1>4, <2>1 DEF AnswerAt
<1>5. InitComing(q) => InitComing(t)
    BY <1>1 DEF InitComing
<1> QED BY <1>3, <1>4, <1>5 DEF AnswerComing

\* An answer on the way behind state notices, perhaps with an init notice.
LEMMA AnswerMore ==
    ASSUME NEW q \in Seq(Notices), Quiet(q), NEW e \in Notices,
           NEW f \in Notices, f.type \notin {"init", "state"}
    PROVE  /\ AnswerComing(Append(q, f))
           /\ e.type = "init" => /\ AnswerComing(Append(Append(q, e), f))
                                 /\ InitComing(Append(Append(q, e), f))
<1>1. PICK t : t = Append(q, f)
    OBVIOUS
<1>2. /\ Len(q) \in Nat /\ DOMAIN q = 1..Len(q)
      /\ DOMAIN t = 1..(Len(q) + 1)
      /\ t[Len(q) + 1] = f /\ \A i \in 1..Len(q) : t[i] = q[i]
    BY <1>1
<1>3. AnswerComing(t)
    <2>1. \A i \in DOMAIN t : i < Len(q) + 1 => i \in DOMAIN q /\ t[i] = q[i]
        BY <1>2
    <2>2. \A i \in DOMAIN t : ~(i > Len(q) + 1)
        BY <1>2
    <2>3. AnswerAt(t, Len(q) + 1)
        BY <1>2, <2>1, <2>2 DEF AnswerAt, Quiet
    <2> QED BY <1>2, <2>3 DEF AnswerComing
<1>4. ASSUME e.type = "init"
      PROVE  /\ AnswerComing(Append(Append(q, e), f))
             /\ InitComing(Append(Append(q, e), f))
    <2>1. PICK s : s = Append(Append(q, e), f)
        OBVIOUS
    <2>2. /\ DOMAIN s = 1..(Len(q) + 2)
          /\ s[Len(q) + 2] = f /\ s[Len(q) + 1] = e
          /\ \A i \in 1..Len(q) : s[i] = q[i]
        BY <1>2, <2>1
    <2>3. \A i \in DOMAIN s : i < Len(q) + 2 =>
            i = Len(q) + 1 \/ (i \in DOMAIN q /\ s[i] = q[i])
        BY <1>2, <2>2
    <2>4. \A i \in DOMAIN s : ~(i > Len(q) + 2)
        BY <1>2, <2>2
    <2>5. AnswerAt(s, Len(q) + 2)
        BY <1>4, <2>2, <2>3, <2>4 DEF AnswerAt, Quiet
    <2>6. Len(q) + 2 \in DOMAIN s /\ Len(q) + 1 \in DOMAIN s
        BY <1>2, <2>2
    <2> QED BY <1>4, <2>1, <2>2, <2>5, <2>6 DEF AnswerComing, InitComing
<1> QED BY <1>1, <1>3, <1>4

\* The client reads the first notice.
LEMMA NoticeRead ==
    ASSUME NEW q \in Seq(Notices), q # <<>>, NEW e, e = Head(q),
           NEW t, t = Tail(q)
    PROVE  /\ Quiet(q) => Quiet(t) /\ e.type = "state"
           /\ AnswerComing(q) =>
                \/ AnswerComing(t) /\ e.type \in {"init", "state"}
                \/ Quiet(t) /\ e.type \notin {"init", "state"} /\ ~InitComing(q)
           /\ InitComing(q) => InitComing(t) \/ e.type = "init"
<1>1. /\ Len(q) \in Nat /\ Len(q) >= 1 /\ DOMAIN q = 1..Len(q)
      /\ e = q[1] /\ DOMAIN t = 1..(Len(q) - 1)
      /\ \A i \in 1..(Len(q) - 1) : t[i] = q[i + 1]
    OBVIOUS
<1>2. 1 \in DOMAIN q /\ \A i \in DOMAIN t : i + 1 \in DOMAIN q /\ t[i] = q[i + 1]
    BY <1>1
<1>3. Quiet(q) => Quiet(t) /\ e.type = "state"
    BY <1>1, <1>2 DEF Quiet
<1>4. ASSUME InitComing(q) PROVE InitComing(t) \/ e.type = "init"
    <2>1. PICK i \in DOMAIN q : q[i].type = "init"
        BY <1>4 DEF InitComing
    <2>2. i = 1 \/ (i - 1 \in DOMAIN t /\ (i - 1) + 1 = i)
        BY <1>1
    <2> QED BY <1>1, <1>2, <2>1, <2>2 DEF InitComing
<1>5. ASSUME NEW k \in DOMAIN q, AnswerAt(q, k)
      PROVE  \/ AnswerComing(t) /\ e.type \in {"init", "state"}
             \/ Quiet(t) /\ e.type \notin {"init", "state"} /\ ~InitComing(q)
    <2>1. CASE k = 1
        <3>1. \A i \in DOMAIN q : i = 1 \/ i > 1
            BY <1>1
        <3>2. \A i \in DOMAIN t : i + 1 > 1
            BY <1>1
        <3>3. Quiet(t)
            BY <1>2, <1>5, <2>1, <3>2 DEF AnswerAt, Quiet
        <3>4. ~InitComing(q)
            BY <1>5, <2>1, <3>1 DEF AnswerAt, InitComing
        <3> QED BY <1>1, <1>5, <2>1, <3>3, <3>4 DEF AnswerAt
    <2>2. CASE k # 1
        <3>1. k - 1 \in DOMAIN t /\ (k - 1) + 1 = k /\ 1 < k
            BY <1>1, <2>2
        <3>2. \A i \in DOMAIN t : /\ i < k - 1 => i + 1 < k
                                  /\ i > k - 1 => i + 1 > k
            BY <1>1, <3>1
        <3>3. AnswerAt(t, k - 1)
            BY <1>2, <1>5, <3>1, <3>2 DEF AnswerAt
        <3> QED BY <1>1, <1>2, <1>5, <3>1, <3>3 DEF AnswerAt, AnswerComing
    <2> QED BY <2>1, <2>2
<1> QED BY <1>3, <1>4, <1>5 DEF AnswerComing

\* A step that leaves what concerns one connection and its session alone.
Same(d) ==
    /\ UNCHANGED <<toSrv[d], toCli[d], closed[d], waiting[d], next[d], now[d]>>
    /\ \A v \in Users : /\ IsUser(d, v)' <=> IsUser(d, v)
                        /\ IsUser(d, v) => \A k \in Maps :
                             players'[k][v] = players[k][v]

LEMMA SameOrderly ==
    ASSUME TypeOK, NEW d \in Conns, Orderly(d), Same(d)
    PROVE  Orderly(d)'
<1>1. /\ toSrv'[d] = toSrv[d] /\ toCli'[d] = toCli[d] /\ closed'[d] = closed[d]
      /\ waiting'[d] = waiting[d] /\ next'[d] = next[d] /\ now'[d] = now[d]
    BY DEF Same
<1>2. HasSession(d)' <=> HasSession(d)
    BY DEF Same, HasSession
<1>3. ASSUME NEW u \in Users, IsUser(d, u)
      PROVE  LastSeq(d, u)' = LastSeq(d, u)
    BY <1>1, <1>3, PresenceAssumption DEF Same, LastSeq, TypeOK, TablesTypeOK
<1>4. ASSUME NEW u \in Users, IsUser(d, u)'
      PROVE  Answered(d, u)' \/ Playing(d, u)' \/ Asking(d, u)'
    <2>1. IsUser(d, u)
        BY <1>4 DEF Same
    <2>2. LastSeq(d, u)' = LastSeq(d, u)
        BY <1>3, <2>1
    <2>3. Answered(d, u) \/ Playing(d, u) \/ Asking(d, u)
        BY <2>1 DEF Orderly
    <2>4. Answered(d, u) => Answered(d, u)'
        BY <1>1, <2>2 DEF Answered
    <2>5. Playing(d, u) => Playing(d, u)'
        BY <1>1, <2>2 DEF Playing
    <2>6. Asking(d, u) => Asking(d, u)'
        BY <1>1, <2>2 DEF Asking
    <2> QED BY <2>3, <2>4, <2>5, <2>6
<1>5. ASSUME ~HasSession(d)' PROVE Alone(d)'
    <2>1. Alone(d)
        BY <1>2, <1>5 DEF Orderly
    <2> QED BY <1>1, <2>1 DEF Alone
<1> QED BY <1>4, <1>5 DEF Orderly

LEMMA OthersOrderly ==
    ASSUME TypeOK, CarefulInv, running, NEW c \in Conns,
           c \in Careful => Orderly(c)',
           \A d \in Conns : d # c => Same(d)
    PROVE  CarefulInv'
<1> SUFFICES ASSUME NEW d \in Careful, d # c PROVE Orderly(d)'
    BY DEF CarefulInv
<1>1. d \in Conns
    BY PresenceAssumption
<1> QED BY <1>1, SameOrderly DEF CarefulInv

\* What a client does concerns no other one.
LEMMA ClientSame ==
    ASSUME TypeOK, NEW c \in Conns, Client(c), NEW d \in Conns, d # c
    PROVE  Same(d)
<1> USE DEF TypeOK, QueuesTypeOK, ClientsTypeOK
<1>1. UNCHANGED <<session, now, players>>
    BY DEF Client, ClientSends, CarefulAsks, CarefulMoves, Sends,
           ClientReceives, ClientCloses, registry, tables
<1>2. UNCHANGED <<toSrv[d], toCli[d], closed[d], waiting[d], next[d]>>
    <2>1. ASSUME NEW msg, ClientSends(c, msg) \/ CarefulAsks(c, msg)
          PROVE  UNCHANGED <<toSrv[d], toCli[d], closed[d], waiting[d], next[d]>>
        BY <2>1 DEF ClientSends, CarefulAsks, Sends
    <2>2. CASE CarefulMoves(c)
        BY <2>2 DEF CarefulMoves, Sends
    <2>3. CASE ClientReceives(c)
        BY <2>3 DEF ClientReceives
    <2>4. CASE ClientCloses(c)
        BY <2>4 DEF ClientCloses
    <2> QED BY <2>1, <2>2, <2>3, <2>4 DEF Client
<1> QED BY <1>1, <1>2 DEF Same, IsUser

\* A careful client that does not wait has a session and nothing but state
\* notices on the way, so that it knows where its component is.
LEMMA NotWaiting ==
    ASSUME TypeOK, NoticesInv, NEW c \in Conns, Orderly(c), ~waiting[c], ~closed[c]
    PROVE  /\ HasSession(c)
           /\ \A u \in Users : IsUser(c, u) => Playing(c, u)
           /\ at[c] = now[c]
<1>1. HasSession(c)
    BY DEF Orderly, Alone
<1>2. \A u \in Users : IsUser(c, u) => Playing(c, u)
    BY DEF Orderly, Answered, Asking
<1>3. Quiet(toCli[c])
    BY <1>1, <1>2 DEF HasSession, Playing
<1>4. Knows(toCli[c], at[c], Len(toCli[c]), now[c])
    BY <1>1 DEF NoticesInv, Informed
<1>5. PICK q \in Seq(Notices) : q = toCli[c]
    BY DEF TypeOK, QueuesTypeOK
<1>6. \A j \in 1..Len(q) : q[j].type \notin Learning
    BY <1>3, <1>5 DEF Quiet, Learning
<1> QED BY <1>1, <1>2, <1>4, <1>5, <1>6 DEF Knows

LEMMA AsksOrderly ==
    ASSUME IInv, NoticesInv, NEW c \in Conns, Orderly(c),
           NEW msg \in Requests, CarefulAsks(c, msg)
    PROVE  Orderly(c)'
<1> USE DEF IInv, TypeOK, QueuesTypeOK, ClientsTypeOK
<1>1. /\ ~waiting[c] /\ ~closed[c] /\ msg.type # "input"
      /\ toSrv'[c] = Append(toSrv[c], msg) /\ waiting'[c] = TRUE
      /\ UNCHANGED <<toCli, session, now, players>>
    BY DEF CarefulAsks, Sends, registry, tables
<1>2. HasSession(c) /\ \A u \in Users : IsUser(c, u) => Playing(c, u)
    BY <1>1, NotWaiting
<1>3. PICK q, t : q \in Seq(Requests) /\ q = toSrv[c] /\ t = Append(q, msg)
    OBVIOUS
<1>4. /\ Len(q) \in Nat /\ Len(t) - 1 = Len(q) /\ t # <<>>
      /\ t[Len(t)] = msg /\ \A i \in 1..Len(q) : q[i] = t[i]
    <2>1. /\ Len(q) \in Nat /\ Len(t) = Len(q) + 1
          /\ t[Len(q) + 1] = msg /\ \A i \in 1..Len(q) : q[i] = t[i]
        BY <1>3
    <2>2. Len(t) # 0 /\ Len(t) - 1 = Len(q)
        BY <2>1
    <2>3. t # <<>>
        BY <2>2
    <2> QED BY <2>1, <2>2, <2>3
<1>5. ASSUME NEW u \in Users, IsUser(c, u) PROVE Asking(c, u)'
    <2>1. Playing(c, u)
        BY <1>2, <1>5
    <2>2. LastSeq(c, u)' = LastSeq(c, u)
        BY <1>1 DEF LastSeq
    <2>3. Counted(t, Len(q), now[c], LastSeq(c, u))
        BY <1>3, <1>4, <2>1, CountedSame DEF Playing
    <2>4. toSrv'[c] = t
        BY <1>1, <1>3
    <2> QED BY <1>1, <1>4, <2>1, <2>2, <2>3, <2>4 DEF Asking, Playing
<1>6. \A u \in Users : IsUser(c, u)' <=> IsUser(c, u)
    BY <1>1 DEF IsUser
<1> QED BY <1>2, <1>5, <1>6 DEF Orderly, HasSession

LEMMA SuccInRange == \A n \in Seqs : Succ(n) \in 1..MaxSeq
BY PresenceAssumption DEF Succ, Seqs

LEMMA MovesOrderly ==
    ASSUME IInv, NoticesInv, NEW c \in Conns, Orderly(c), CarefulMoves(c)
    PROVE  Orderly(c)'
<1> USE DEF IInv, TypeOK, QueuesTypeOK, ClientsTypeOK
<1>1. PICK e : e = Message("input", at[c], next[c])
    OBVIOUS
<1>2. /\ ~waiting[c] /\ ~closed[c] /\ at[c] # None
      /\ toSrv'[c] = Append(toSrv[c], e)
      /\ next'[c] = Succ(next[c])
      /\ UNCHANGED <<toCli, session, now, players, waiting>>
    BY <1>1 DEF CarefulMoves, Sends, registry, tables, Succ
<1>3. /\ HasSession(c) /\ at[c] = now[c]
      /\ \A u \in Users : IsUser(c, u) => Playing(c, u)
    BY <1>2, NotWaiting
<1>4. e \in Requests /\ e.type = "input" /\ e.map = now[c] /\ e.seq = next[c]
    <2>1. next[c] \in Seqs /\ at[c] \in Maps
        BY <1>2, PresenceAssumption DEF Seqs
    <2>2. e \in Requests
        BY <1>1, <2>1, RequestTypes
    <2>3. e.type = "input" /\ e.map = now[c] /\ e.seq = next[c]
        BY <1>1, <1>3 DEF Message
    <2> QED BY <2>2, <2>3
<1>5. PICK q, t : q \in Seq(Requests) /\ q = toSrv[c] /\ t = Append(q, e)
    OBVIOUS
<1>6. /\ Len(q) \in Nat /\ Len(t) = Len(q) + 1
      /\ t[Len(q) + 1] = e /\ \A i \in 1..Len(q) : q[i] = t[i]
    BY <1>4, <1>5
<1>7. ASSUME NEW u \in Users, IsUser(c, u) PROVE Playing(c, u)'
    <2>1. /\ Counted(q, Len(q), now[c], LastSeq(c, u))
          /\ next[c] = Succ(Number(q, LastSeq(c, u), Len(q)))
        BY <1>2, <1>3, <1>5, <1>7 DEF Playing
    <2>2. LastSeq(c, u)' = LastSeq(c, u)
        BY <1>2 DEF LastSeq
    <2>3. Len(q) \in 0..Len(q)
        BY <1>6
    <2>4. /\ Counted(t, Len(q), now[c], LastSeq(c, u))
          /\ Number(t, LastSeq(c, u), Len(q)) = Number(q, LastSeq(c, u), Len(q))
        BY <1>6, <2>1, <2>3, CountedSame, ZenonT(30)
    <2>5. t[Len(q) + 1].seq = Succ(Number(t, LastSeq(c, u), Len(q)))
        BY <1>4, <1>6, <2>1, <2>4
    <2>6. Counted(t, Len(q) + 1, now[c], LastSeq(c, u))
        BY <1>2, <1>3, <1>4, <1>6, <2>4, <2>5, CountedMore
    <2>7. Number(t, LastSeq(c, u), Len(t)) = next[c]
        BY <1>4, <1>6 DEF Number
    <2>8. toSrv'[c] = t /\ Quiet(toCli[c])
        BY <1>2, <1>3, <1>5, <1>7 DEF Playing
    <2> QED BY <1>2, <1>6, <2>2, <2>6, <2>7, <2>8 DEF Playing
<1>8. \A u \in Users : IsUser(c, u)' <=> IsUser(c, u)
    BY <1>2 DEF IsUser
<1> QED BY <1>3, <1>7, <1>8 DEF Orderly, HasSession

LEMMA ReceivesOrderly ==
    ASSUME IInv, NEW c \in Conns, Orderly(c), ClientReceives(c)
    PROVE  Orderly(c)'
<1> USE DEF IInv, TypeOK, QueuesTypeOK, ClientsTypeOK
<1>1. PICK q, e, t : q \in Seq(Notices) /\ q = toCli[c] /\ e = Head(q) /\ t = Tail(q)
    OBVIOUS
<1>2. /\ ~closed[c] /\ q # <<>> /\ toCli'[c] = t
      /\ next'[c] = IF e.type = "init" THEN 1 ELSE next[c]
      /\ waiting'[c] = (waiting[c] /\ e.type \in {"init", "state"})
      /\ UNCHANGED <<toSrv, session, now, players, closed>>
    BY <1>1 DEF ClientReceives, registry, tables
<1>3. /\ Quiet(q) => Quiet(t) /\ e.type = "state"
      /\ AnswerComing(q) =>
           \/ AnswerComing(t) /\ e.type \in {"init", "state"}
           \/ Quiet(t) /\ e.type \notin {"init", "state"} /\ ~InitComing(q)
      /\ InitComing(q) => InitComing(t) \/ e.type = "init"
    BY <1>1, <1>2, NoticeRead
<1>4. \A u \in Users : /\ IsUser(c, u)' <=> IsUser(c, u)
                       /\ LastSeq(c, u)' = LastSeq(c, u)
    BY <1>2 DEF IsUser, LastSeq
<1>5. ~HasSession(c)' => Alone(c)'
    BY <1>1, <1>2, <1>3, <1>4 DEF HasSession, Orderly, Alone
<1>6. ASSUME NEW u \in Users, IsUser(c, u)
      PROVE  Answered(c, u)' \/ Playing(c, u)' \/ Asking(c, u)'
    <2>1. CASE Playing(c, u)
        <3>1. next'[c] = next[c] /\ Quiet(t) /\ ~waiting'[c]
            BY <1>1, <1>2, <1>3, <2>1 DEF Playing
        <3> QED BY <1>2, <1>4, <2>1, <3>1 DEF Playing
    <2>2. CASE Asking(c, u)
        <3>1. Quiet(t) /\ waiting'[c]
            BY <1>1, <1>2, <1>3, <2>2 DEF Asking
        <3> QED BY <1>2, <1>4, <2>2, <3>1 DEF Asking
    <2>3. CASE Answered(c, u) /\ AnswerComing(t) /\ e.type \in {"init", "state"}
        <3>1. waiting'[c]
            BY <1>2, <2>3 DEF Answered
        <3>2. now[c] # None => next'[c] = 1 \/ InitComing(t)
            BY <1>1, <1>2, <1>3, <2>3 DEF Answered
        <3> QED BY <1>2, <1>4, <2>3, <3>1, <3>2 DEF Answered
    <2>4. CASE Answered(c, u) /\ Quiet(t) /\ e.type \notin {"init", "state"}
                 /\ ~InitComing(q)
        <3>1. /\ ~waiting'[c] /\ toSrv'[c] = <<>> /\ Len(<<>>) = 0
              /\ now[c] # None => next'[c] = 1 /\ LastSeq(c, u) = 0
            BY <1>1, <1>2, <2>4 DEF Answered
        <3>2. Counted(<<>>, 0, now[c], LastSeq(c, u))
            BY DEF Counted
        <3>3. LastSeq(c, u) = 0 => Succ(Number(<<>>, LastSeq(c, u), 0)) = 1
            BY PresenceAssumption DEF Number, Succ
        <3> QED BY <1>2, <1>4, <2>4, <3>1, <3>2, <3>3 DEF Playing
    <2> QED BY <1>1, <1>3, <1>6, <2>1, <2>2, <2>3, <2>4 DEF Orderly, Answered
<1> QED BY <1>4, <1>5, <1>6 DEF Orderly

LEMMA ClosesOrderly ==
    ASSUME IInv, NEW c \in Conns, Orderly(c), ClientCloses(c)
    PROVE  Orderly(c)'
<1>1. /\ closed'[c] = TRUE
      /\ UNCHANGED <<toSrv, toCli, session, now, players, next, waiting>>
    BY DEF ClientCloses, registry, tables, IInv, TypeOK, ClientsTypeOK
<1>2. \A u \in Users : /\ IsUser(c, u)' <=> IsUser(c, u)
                       /\ LastSeq(c, u)' = LastSeq(c, u)
    BY <1>1 DEF IsUser, LastSeq
<1>3. ~HasSession(c)' => Alone(c)'
    BY <1>1, <1>2 DEF HasSession, Orderly, Alone
<1>4. ASSUME NEW u \in Users, IsUser(c, u)
      PROVE  Answered(c, u)' \/ Playing(c, u)' \/ Asking(c, u)'
    <2>1. Answered(c, u) => Answered(c, u)'
        BY <1>1, <1>2 DEF Answered
    <2>2. Playing(c, u) => Playing(c, u)'
        BY <1>1, <1>2 DEF Playing
    <2>3. Asking(c, u) => Asking(c, u)'
        BY <1>1, <1>2 DEF Asking
    <2> QED BY <1>4, <2>1, <2>2, <2>3 DEF Orderly
<1> QED BY <1>2, <1>3, <1>4 DEF Orderly

LEMMA ClientOrderly ==
    ASSUME IInv, NoticesInv, NEW c \in Careful, Orderly(c), Client(c)
    PROVE  Orderly(c)'
<1>1. c \in Conns
    BY PresenceAssumption
<1>2. \A msg : ~ClientSends(c, msg)
    BY DEF ClientSends
<1>3. \A m \in Maps \cup {None} :
        CarefulAsks(c, Message("enter", m, None)) => Orderly(c)'
    BY <1>1, AsksOrderly, RequestTypes
<1>4. CarefulAsks(c, Message("leave", None, None)) => Orderly(c)'
    BY <1>1, AsksOrderly, RequestTypes
<1> QED BY <1>1, <1>2, <1>3, <1>4, MovesOrderly, ReceivesOrderly, ClosesOrderly
       DEF Client

\* What the server does for one user concerns no other connection.
LEMMA HandlerSame ==
    ASSUME IInv, NEW c \in Conns, NEW u \in Users, Handler(c, u),
           NEW d \in Conns, d # c
    PROVE  Same(d)
<1> USE DEF IInv, TypeOK, RegistryTypeOK, TablesTypeOK, QueuesTypeOK
<1>1. IsUser(c, u)
    BY DEF Handler, OnEnter, OnLeave, OnInput, OnClose
<1>2. UNCHANGED <<toSrv[d], toCli[d], closed[d], waiting[d], next[d], now[d]>>
    <2>1. CASE OnEnter(c, u)
        BY <2>1 DEF OnEnter, Takes, Tell, clients
    <2>2. CASE OnLeave(c, u)
        BY <2>2 DEF OnLeave, Takes, Tell, clients
    <2>3. CASE OnInput(c, u)
        BY <2>3 DEF OnInput, Takes, clients
    <2>4. CASE OnClose(c, u)
        BY <2>4 DEF OnClose, OnLogout, clients
    <2> QED BY <2>1, <2>2, <2>3, <2>4 DEF Handler
<1>3. ASSUME NEW v \in Users, v # u, NEW k \in Maps
      PROVE  players'[k][v] = players[k][v]
    <2>1. CASE OnEnter(c, u)
        <3>1. PICK m : m = Head(toSrv[c]).map
            OBVIOUS
        <3>2. PICK in \in [Maps -> [Users -> Seqs \cup {None}]] :
                in = LeaveCurrMap(c, u).in
            BY <1>1, Leaving
        <3>3. in[k][v] = players[k][v]
            BY <1>1, <1>3, <3>2, Leaving
        <3>4. players' = in \/ (m \in Maps /\ players' = [in EXCEPT ![m][u] = 0])
            BY <2>1, <3>1, <3>2 DEF OnEnter
        <3>5. CASE players' = in
            BY <3>3, <3>5
        <3>6. CASE m \in Maps /\ players' = [in EXCEPT ![m][u] = 0]
            <4>1. players'[k][v] = in[k][v]
                <5>1. CASE k = m
                    BY <1>3, <3>6, <5>1
                <5>2. CASE k # m
                    BY <3>6, <5>2
                <5> QED BY <5>1, <5>2
            <4> QED BY <3>3, <4>1
        <3> QED BY <3>4, <3>5, <3>6
    <2>2. CASE OnLeave(c, u) \/ OnClose(c, u)
        <3>1. players' = LeaveCurrMap(c, u).in
            BY <2>2 DEF OnLeave, OnClose, OnLogout
        <3> QED BY <1>1, <1>3, <3>1, Leaving
    <2>3. CASE OnInput(c, u)
        BY <1>3, <2>3 DEF OnInput, MapPlayerInput
    <2> QED BY <2>1, <2>2, <2>3 DEF Handler
<1>4. \A v \in Users : IsUser(d, v)' <=> IsUser(d, v)
    <2>1. UNCHANGED session \/ session' = [session EXCEPT ![u] = None]
        BY DEF Handler, OnEnter, OnLeave, OnInput, OnClose, Registry!Close,
               registry
    <2> QED BY <1>1, <2>1, PresenceAssumption DEF IsUser
<1>5. \A v \in Users : IsUser(d, v) => v # u
    BY <1>1 DEF IsUser
<1> QED BY <1>2, <1>3, <1>4, <1>5 DEF Same

\* What is shown of the user of a session is shown of the connection.
LEMMA OneUser ==
    ASSUME IInv, NEW c \in Conns, NEW u \in Users, IsUser(c, u),
           UNCHANGED session,
           Answered(c, u)' \/ Playing(c, u)' \/ Asking(c, u)'
    PROVE  Orderly(c)'
<1>1. \A v \in Users : IsUser(c, v)' => v = u
    BY PresenceAssumption DEF IsUser, IInv, SessionsDistinct
<1>2. HasSession(c)'
    BY DEF HasSession, IsUser
<1> QED BY <1>1, <1>2 DEF Orderly

\* An answer to a client with a session, its requests all taken.
LEMMA AnswerOrderly ==
    ASSUME IInv, NEW c \in Conns, NEW u \in Users, IsUser(c, u),
           UNCHANGED <<session, waiting, next>>, waiting[c],
           toSrv'[c] = <<>>, AnswerComing(toCli'[c]),
           now'[c] # None =>
             LastSeq(c, u)' = 0 /\ InitComing(toCli'[c])
    PROVE  Orderly(c)'
<1>1. Answered(c, u)'
    BY DEF Answered
<1> QED BY <1>1, OneUser

LEMMA OneBefore == \A n \in Nat : n >= 1 /\ n # 1 => 1 \in 1..(n - 1)
OBVIOUS

LEMMA TailOfOne ==
    ASSUME NEW S, NEW q \in Seq(S), Len(q) = 1
    PROVE  Tail(q) = <<>>
<1>1. Tail(q) \in Seq(S) /\ Len(Tail(q)) = 0
    OBVIOUS
<1> QED BY <1>1, EmptySeq

\* A request to enter or to leave is the last one on the way.
LEMMA LastRequest ==
    ASSUME IInv, NEW c \in Conns, NEW u \in Users, IsUser(c, u), Orderly(c),
           NEW t, t # "input", Takes(c, t)
    PROVE  waiting[c] /\ Quiet(toCli[c]) /\ toSrv'[c] = <<>>
<1> USE DEF IInv, TypeOK, QueuesTypeOK
<1>1. PICK q \in Seq(Requests) : q = toSrv[c]
    OBVIOUS
<1>2. q # <<>> /\ q[1].type = t /\ toSrv'[c] = Tail(q)
    BY <1>1 DEF Takes
<1>3. Len(q) \in Nat /\ Len(q) >= 1
    BY <1>1, <1>2
<1>4. ~Answered(c, u)
    BY <1>1, <1>2 DEF Answered
<1>5. ~Playing(c, u)
    <2>1. 1 \in 1..Len(q)
        BY <1>3
    <2> QED BY <1>1, <1>2, <2>1 DEF Playing, Counted
<1>6. Asking(c, u)
    BY <1>4, <1>5 DEF Orderly
<1>7. Len(q) = 1
    <2>1. Len(q) # 1 => 1 \in 1..(Len(q) - 1)
        BY <1>3, OneBefore
    <2> QED BY <1>1, <1>2, <1>6, <2>1 DEF Asking, Counted
<1>8. Tail(q) = <<>>
    BY <1>7, TailOfOne
<1> QED BY <1>1, <1>2, <1>6, <1>8 DEF Asking

LEMMA EnterOrderly ==
    ASSUME IInv, NEW c \in Conns, NEW u \in Users, Orderly(c), OnEnter(c, u)
    PROVE  Orderly(c)'
<1> USE DEF IInv, TypeOK, QueuesTypeOK, TablesTypeOK
<1> DEFINE left == LeaveCurrMap(c, u)
<1>0. PICK m : m = Head(toSrv[c]).map
    OBVIOUS
<1> DEFINE refused == m \notin Maps \/ left.in[m][u] # None
           answer == IF m \notin Maps THEN "notFound"
                       ELSE IF refused THEN "refused" ELSE "entered"
<1>1. /\ IsUser(c, u) /\ Takes(c, "enter")
      /\ now' = [now EXCEPT ![c] = IF refused THEN left.at ELSE m]
      /\ players' = IF refused THEN left.in ELSE [left.in EXCEPT ![m][u] = 0]
      /\ toCli' = [toCli EXCEPT ![c] = @ \o
                     ((IF refused THEN <<>> ELSE <<Message("init", m, None)>>)
                        \o <<Message(answer, None, None)>>)]
      /\ UNCHANGED <<session, waiting, next>>
    BY <1>0 DEF OnEnter, Tell, registry, clients
<1>2. waiting[c] /\ Quiet(toCli[c]) /\ toSrv'[c] = <<>>
    BY <1>1, LastRequest
<1>3. PICK in \in [Maps -> [Users -> Seqs \cup {None}]] : in = left.in
    BY <1>1, Leaving
<1>4. left.at = None /\ (refused <=> m \notin Maps)
    BY <1>1, Leaving
<1> HIDE DEF left
<1>5. PICK q \in Seq(Notices) : q = toCli[c]
    OBVIOUS
<1>6. CASE m \notin Maps
    <2>1. PICK f \in Notices : f = Message("notFound", None, None)
        BY NoticeTypes
    <2>2. answer = "notFound" /\ now'[c] = None
        BY <1>1, <1>4, <1>6
    <2>3. f.type \notin {"init", "state"}
        BY <2>1 DEF Message
    <2>4. toCli'[c] = q \o (<<>> \o <<f>>)
        BY <1>1, <1>4, <1>5, <1>6, <2>1, <2>2
    <2>5. toCli'[c] = Append(q, f)
        BY <2>4
    <2>6. AnswerComing(toCli'[c])
        BY <1>2, <1>5, <2>3, <2>5, AnswerMore
    <2> QED BY <1>1, <1>2, <2>2, <2>6, AnswerOrderly
<1>7. CASE m \in Maps
    <2>1. PICK e \in Notices : e = Message("init", m, None)
        BY <1>7, NoticeTypes
    <2>2. PICK f \in Notices : f = Message("entered", None, None)
        BY NoticeTypes
    <2>3. answer = "entered" /\ now'[c] = m
        BY <1>1, <1>4, <1>7
    <2>4. e.type = "init" /\ f.type \notin {"init", "state"}
        BY <2>1, <2>2 DEF Message
    <2>5. toCli'[c] = q \o (<<e>> \o <<f>>)
        BY <1>1, <1>4, <1>5, <1>7, <2>1, <2>2, <2>3
    <2>6. toCli'[c] = Append(Append(q, e), f)
        BY <2>5
    <2>7. AnswerComing(toCli'[c]) /\ InitComing(toCli'[c])
        BY <1>2, <1>5, <2>4, <2>6, AnswerMore
    <2>8. players' = [in EXCEPT ![m][u] = 0]
        BY <1>1, <1>3, <1>4, <1>7
    <2>9. LastSeq(c, u)' = 0
        BY <1>3, <1>7, <2>3, <2>8 DEF LastSeq
    <2> QED BY <1>1, <1>2, <2>7, <2>9, AnswerOrderly
<1> QED BY <1>6, <1>7

LEMMA LeaveOrderly ==
    ASSUME IInv, NEW c \in Conns, NEW u \in Users, Orderly(c), OnLeave(c, u)
    PROVE  Orderly(c)'
<1> USE DEF IInv, TypeOK, QueuesTypeOK, TablesTypeOK
<1>1. PICK f \in Notices : f = Message("left", None, None)
    BY NoticeTypes
<1>2. /\ IsUser(c, u) /\ Takes(c, "leave")
      /\ now'[c] = None /\ toCli'[c] = toCli[c] \o <<f>>
      /\ UNCHANGED <<session, waiting, next>>
    BY <1>1, Leaving DEF OnLeave, Tell, registry, clients
<1>3. waiting[c] /\ Quiet(toCli[c]) /\ toSrv'[c] = <<>>
    BY <1>2, LastRequest
<1>4. PICK q \in Seq(Notices) : q = toCli[c]
    OBVIOUS
<1>5. f.type \notin {"init", "state"} /\ toCli'[c] = Append(q, f)
    BY <1>1, <1>2, <1>4 DEF Message
<1>6. AnswerComing(toCli'[c])
    BY <1>3, <1>4, <1>5, AnswerMore
<1> QED BY <1>2, <1>3, <1>6, AnswerOrderly

\* The next input, in the map it was meant for.
LEMMA InputApplied ==
    ASSUME IInv, NEW c \in Conns, NEW u \in Users, Orderly(c), OnInput(c, u)
    PROVE  LET input == toSrv[c][1] IN
           /\ now[c] \in Maps
           /\ input.map = now[c] /\ input.seq # LastSeq(c, u)
           /\ players' = [players EXCEPT ![now[c]][u] = input.seq]
           /\ LastSeq(c, u)' = input.seq
           /\ UNCHANGED now
           /\ \/ Playing(c, u)
              \/ Asking(c, u) /\ Len(toSrv[c]) # 1
<1> USE DEF IInv, TypeOK, QueuesTypeOK, TablesTypeOK, RegistryTypeOK
<1>0. PICK q : q = toSrv[c]
    OBVIOUS
<1>1. /\ IsUser(c, u) /\ q # <<>> /\ q[1].type = "input"
      /\ players' = IF now[c] = None THEN players
                      ELSE MapPlayerInput(now[c], u, q[1].seq)
      /\ UNCHANGED now
    BY <1>0 DEF OnInput, Takes
<1>2. q \in Seq(Requests) /\ Len(q) \in Nat /\ Len(q) >= 1
    BY <1>0, <1>1
<1>3. ~Answered(c, u)
    BY <1>0, <1>1 DEF Answered
<1>4. Asking(c, u) => Len(q) # 1
    BY <1>0, <1>1 DEF Asking
<1>5. Playing(c, u) \/ Asking(c, u)
    BY <1>1, <1>3 DEF Orderly
<1>6. /\ now[c] # None /\ q[1].map = now[c]
      /\ q[1].seq = Succ(Number(q, LastSeq(c, u), 0))
    <2>1. CASE Playing(c, u)
        <3>1. 1 \in 1..Len(q) /\ 1 - 1 = 0
            BY <1>2
        <3> QED BY <1>0, <2>1, <3>1 DEF Playing, Counted
    <2>2. CASE Asking(c, u)
        <3>1. Len(q) # 1
            BY <1>4, <2>2
        <3>2. 1 \in 1..(Len(q) - 1)
            BY <1>2, <3>1, OneBefore
        <3>3. 1 - 1 = 0
            OBVIOUS
        <3> QED BY <1>0, <2>2, <3>2, <3>3 DEF Asking, Counted
    <2> QED BY <1>5, <2>1, <2>2
<1>7. PICK m \in Maps : m = now[c]
    BY <1>6
<1>8. PICK last \in Seqs : last = players[m][u] /\ last = LastSeq(c, u)
    <2>1. players[m][u] # None
        BY <1>1, <1>7 DEF PresenceAgrees, IsUser
    <2> QED BY <1>6, <1>7, <2>1 DEF LastSeq
<1>9. q[1].seq = Succ(last)
    BY <1>6, <1>8 DEF Number
<1>10. last \in Nat /\ last <= MaxSeq /\ MaxSeq \in Nat /\ MaxSeq > 1
    BY PresenceAssumption DEF Seqs
<1>11. Succ(last) # last
    BY <1>10 DEF Succ
<1>12. MapPlayerInput(m, u, Succ(last)) = [players EXCEPT ![m][u] = Succ(last)]
    <2>1. last # None
        BY SeqsFacts
    <2>2. (IF last = MaxSeq THEN 0 ELSE last) + 1 = Succ(last)
        BY <1>10 DEF Succ
    <2> QED BY <1>8, <2>1, <2>2 DEF MapPlayerInput
<1>13. players' = [players EXCEPT ![m][u] = Succ(last)]
    BY <1>1, <1>6, <1>7, <1>9, <1>12
<1>14. LastSeq(c, u)' = Succ(last)
    BY <1>1, <1>6, <1>7, <1>13 DEF LastSeq
<1> QED BY <1>0, <1>1, <1>4, <1>5, <1>6, <1>7, <1>8, <1>9, <1>11, <1>13, <1>14

LEMMA InputOrderly ==
    ASSUME IInv, NEW c \in Conns, NEW u \in Users, Orderly(c), OnInput(c, u)
    PROVE  Orderly(c)'
<1>1. PICK q, t : q \in Seq(Requests) /\ q = toSrv[c] /\ t = Tail(q)
    BY DEF IInv, TypeOK, QueuesTypeOK
<1>2. /\ IsUser(c, u) /\ q # <<>> /\ toSrv'[c] = t
      /\ UNCHANGED <<session, toCli, waiting, next>>
    BY <1>1 DEF OnInput, Takes, registry, clients, IInv, TypeOK, QueuesTypeOK
<1>3. PICK n \in Nat : Len(q) = n + 1
    <2>1. Len(q) \in Nat /\ Len(q) # 0
        BY <1>2, EmptySeq
    <2>2. Len(q) - 1 \in Nat /\ Len(q) = (Len(q) - 1) + 1
        BY <2>1
    <2> QED BY <2>2
<1>4. /\ Len(t) = n /\ \A i \in 1..n : t[i] = q[i + 1]
    BY <1>1, <1>3
<1>5. /\ now[c] \in Maps /\ now[c] # None
      /\ LastSeq(c, u)' = q[1].seq
      /\ UNCHANGED now
      /\ Playing(c, u) \/ (Asking(c, u) /\ n + 1 # 1)
    <2>1. /\ now[c] \in Maps
          /\ LastSeq(c, u)' = q[1].seq
          /\ UNCHANGED now
          /\ Playing(c, u) \/ (Asking(c, u) /\ Len(q) # 1)
        BY <1>1, InputApplied
    <2> QED BY <1>3, <2>1, PresenceAssumption
<1>6. PICK last, m : last = LastSeq(c, u) /\ m = now[c]
    OBVIOUS
<1>8. CASE Playing(c, u)
    <2>1. /\ Counted(q, n + 1, m, last)
          /\ next[c] = Succ(Number(q, last, n + 1))
        BY <1>1, <1>3, <1>5, <1>6, <1>8 DEF Playing
    <2>2. /\ Counted(t, n, m, q[1].seq)
          /\ Number(t, q[1].seq, n) = Number(q, last, n + 1)
        <3>1. Counted(q, n + 1, m, last) /\ \A i \in 1..n : t[i] = q[i + 1]
            BY <1>4, <2>1
        <3>2. Counted(t, n, m, q[1].seq)
            BY <3>1, CountedLess
        <3>3. Number(t, q[1].seq, n) = Number(q, last, n + 1)
            BY <3>1 DEF Number
        <3> QED BY <3>2, <3>3
    <2>3. Playing(c, u)'
        BY <1>2, <1>4, <1>5, <1>6, <1>8, <2>1, <2>2 DEF Playing
    <2> QED BY <1>2, <2>3, OneUser
<1>7. CASE Asking(c, u) /\ n + 1 # 1
    <2>1. PICK k \in Nat : n = k + 1
        BY <1>7
    <2>2. Len(q) - 1 = k + 1 /\ Len(t) - 1 = k
        BY <1>3, <1>4, <2>1
    <2>3. Counted(q, k + 1, m, last)
        BY <1>1, <1>6, <1>7, <2>2 DEF Asking
    <2>4. \A i \in 1..k : t[i] = q[i + 1]
        BY <1>4, <2>1
    <2>5. Counted(t, k, m, q[1].seq)
        BY <2>3, <2>4, CountedLess
    <2>6. t[Len(t)] = q[Len(q)]
        BY <1>3, <1>4, <2>1
    <2>7. t # <<>>
        <3>1. Len(t) # 0
            BY <1>4, <2>1
        <3> QED BY <3>1
    <2>8. Asking(c, u)'
        BY <1>1, <1>2, <1>5, <1>6, <1>7, <2>2, <2>5, <2>6, <2>7 DEF Asking
    <2> QED BY <1>2, <2>8, OneUser
<1> QED BY <1>5, <1>7, <1>8

LEMMA CloseOrderly ==
    ASSUME IInv, NEW c \in Conns, NEW u \in Users, OnClose(c, u)
    PROVE  Orderly(c)'
<1>1. /\ closed'[c] /\ toSrv'[c] = <<>>
      /\ session[u] = c /\ session' = [session EXCEPT ![u] = None]
    BY DEF OnClose, Registry!Close, IsUser, clients
<1>2. \A v \in Users : ~IsUser(c, v)'
    BY <1>1, PresenceAssumption
       DEF IsUser, IInv, TypeOK, RegistryTypeOK, SessionsDistinct
<1> QED BY <1>1, <1>2 DEF Orderly, Alone, HasSession

LEMMA LoginOrderly ==
    ASSUME IInv, NEW c \in Conns, NEW u \in Users, Orderly(c), Login(u, c)
    PROVE  Orderly(c)'
<1> USE DEF IInv, TypeOK, RegistryTypeOK, TablesTypeOK, QueuesTypeOK
<1>1. PICK e \in Notices, q \in Seq(Notices) :
        e = Message("login", None, None) /\ q = toCli[c]
    BY NoticeTypes
<1>2. /\ ~closed[c]
      /\ \A v \in Users : session[v] # c
      /\ session' = [session EXCEPT ![u] = c]
      /\ now'[c] = None /\ toCli'[c] = q \o <<e>>
      /\ UNCHANGED <<toSrv, waiting>>
    BY <1>1 DEF Login, Tell, Registry!Open, clients
<1>3. Alone(c)
    BY <1>2 DEF Orderly, HasSession, IsUser
<1>4. e.type \notin {"init", "state"} /\ toCli'[c] = Append(q, e)
    BY <1>1, <1>2 DEF Message
<1>5. waiting[c] /\ Quiet(q) /\ toSrv[c] = <<>>
    BY <1>1, <1>2, <1>3 DEF Alone
<1>6. AnswerComing(toCli'[c])
    BY <1>4, <1>5, AnswerMore
<1>7. \A v \in Users : IsUser(c, v)' <=> v = u
    BY <1>2 DEF IsUser
<1>8. Answered(c, u)'
    BY <1>2, <1>5, <1>6 DEF Answered
<1> QED BY <1>7, <1>8 DEF Orderly, HasSession

LEMMA LoginSame ==
    ASSUME IInv, NEW c \in Conns, NEW u \in Users, Login(u, c),
           NEW d \in Conns, d # c
    PROVE  Same(d)
<1> USE DEF IInv, TypeOK, RegistryTypeOK, TablesTypeOK, QueuesTypeOK
<1>1. /\ session[u] = None
      /\ session' = [session EXCEPT ![u] = c]
      /\ now' = [now EXCEPT ![c] = None]
      /\ toCli' = [toCli EXCEPT ![c] = @ \o <<Message("login", None, None)>>]
      /\ UNCHANGED <<players, toSrv, closed, waiting, next>>
    BY DEF Login, Tell, Registry!Open, clients
<1>2. UNCHANGED <<toSrv[d], toCli[d], closed[d], waiting[d], next[d], now[d]>>
    BY <1>1
<1>3. \A v \in Users : IsUser(d, v)' <=> IsUser(d, v)
    BY <1>1, PresenceAssumption DEF IsUser
<1> QED BY <1>1, <1>2, <1>3 DEF Same

LEMMA UpdateOrderly ==
    ASSUME IInv, CarefulInv, running, NEW m \in Maps, FixedUpdate(m)
    PROVE  CarefulInv'
<1> USE DEF IInv, TypeOK, QueuesTypeOK
<1> SUFFICES ASSUME NEW c \in Careful PROVE Orderly(c)'
    BY DEF CarefulInv
<1>0. c \in Conns
    BY PresenceAssumption
<1>1. PICK e \in Notices, q \in Seq(Notices) :
        e = Message("state", m, None) /\ q = toCli[c]
    BY <1>0, NoticeTypes
<1>2. PICK t : t = Append(q, e)
    OBVIOUS
<1>3. /\ toCli'[c] = t \/ toCli'[c] = q
      /\ UNCHANGED <<session, now, players, toSrv, closed, next, waiting>>
    BY <1>0, <1>1, <1>2 DEF FixedUpdate, registry, tables, clients
<1>4. e.type = "state"
    BY <1>1 DEF Message
<1>5. /\ Quiet(q) => Quiet(t)
      /\ AnswerComing(q) => AnswerComing(t)
      /\ InitComing(q) => InitComing(t)
    BY <1>2, <1>4, StateMore
<1>6. /\ Quiet(toCli[c]) => Quiet(toCli'[c])
      /\ AnswerComing(toCli[c]) => AnswerComing(toCli'[c])
      /\ InitComing(toCli[c]) => InitComing(toCli'[c])
    BY <1>1, <1>3, <1>5
<1>7. Orderly(c)
    BY DEF CarefulInv
<1>8. \A u \in Users : /\ IsUser(c, u)' <=> IsUser(c, u)
                       /\ LastSeq(c, u)' = LastSeq(c, u)
    BY <1>3 DEF IsUser, LastSeq
<1>9. ~HasSession(c)' => Alone(c)'
    BY <1>3, <1>6, <1>7, <1>8 DEF Orderly, HasSession, Alone
<1>10. ASSUME NEW u \in Users, IsUser(c, u)
       PROVE  Answered(c, u)' \/ Playing(c, u)' \/ Asking(c, u)'
    <2>1. Answered(c, u) => Answered(c, u)'
        BY <1>3, <1>6, <1>8 DEF Answered
    <2>2. Playing(c, u) => Playing(c, u)'
        BY <1>3, <1>6, <1>8 DEF Playing
    <2>3. Asking(c, u) => Asking(c, u)'
        BY <1>3, <1>6, <1>8 DEF Asking
    <2> QED BY <1>7, <1>10, <2>1, <2>2, <2>3 DEF Orderly
<1> QED BY <1>8, <1>9, <1>10 DEF Orderly

LEMMA CarefulStep ==
    ASSUME IInv, NoticesInv, CarefulInv, [Next]_vars
    PROVE  CarefulInv'
<1> SUFFICES ASSUME running' PROVE CarefulInv'
    BY DEF CarefulInv
<1>1. running
    BY ZenonT(30) DEF Next, Client, Handler, ClientSends, CarefulAsks, CarefulMoves,
           Sends, ClientReceives, ClientCloses, Drops, Takes, Login, OnEnter,
           OnLeave, OnInput, OnClose, FixedUpdate, OnSafeStop, OnStop, vars
<1>2. \A c \in Careful : Orderly(c)
    BY <1>1 DEF CarefulInv
<1>3. TypeOK
    BY DEF IInv
<1>4. ASSUME NEW c \in Conns, Client(c) PROVE CarefulInv'
    BY <1>1, <1>2, <1>3, <1>4, ClientOrderly, ClientSame, OthersOrderly
<1>5. ASSUME NEW c \in Conns, Drops(c) PROVE CarefulInv'
    <2>1. /\ ~HasSession(c)
          /\ toSrv[c] # <<>> /\ toSrv' = [toSrv EXCEPT ![c] = Tail(@)]
          /\ UNCHANGED <<session, now, players, toCli, closed, waiting, next>>
        BY <1>5 DEF Drops, Takes, HasSession, registry, tables, clients
    <2>2. c \notin Careful
        BY <1>2, <2>1 DEF Orderly, Alone
    <2>3. \A d \in Conns : d # c => Same(d)
        BY <1>3, <2>1 DEF Same, IsUser, TypeOK, QueuesTypeOK
    <2> QED BY <1>1, <1>3, <2>2, <2>3, OthersOrderly
<1>6. ASSUME NEW c \in Conns, NEW u \in Users, Login(u, c) PROVE CarefulInv'
    BY <1>1, <1>2, <1>3, <1>6, LoginOrderly, LoginSame, OthersOrderly
<1>7. ASSUME NEW c \in Conns, NEW u \in Users, Handler(c, u) PROVE CarefulInv'
    <2>1. Orderly(c) => Orderly(c)'
        BY <1>7, EnterOrderly, LeaveOrderly, InputOrderly, CloseOrderly
           DEF Handler
    <2> QED BY <1>1, <1>2, <1>3, <1>7, <2>1, HandlerSame, OthersOrderly
<1>8. ASSUME NEW m \in Maps, FixedUpdate(m) PROVE CarefulInv'
    BY <1>1, <1>8, UpdateOrderly
<1>9. ASSUME OnSafeStop \/ UNCHANGED vars PROVE CarefulInv'
    <2>1. UNCHANGED <<session, now, players, toSrv, toCli, closed, waiting, next>>
        BY <1>9 DEF OnSafeStop, Registry!Stop, vars, registry, tables, clients
    <2>2. \A d \in Conns : Same(d)
        BY <2>1 DEF Same, IsUser
    <2> QED BY <1>2, <1>3, <2>2, SameOrderly, PresenceAssumption DEF CarefulInv
<1>10. ~OnStop
    BY DEF OnStop
<1> QED BY <1>4, <1>5, <1>6, <1>7, <1>8, <1>9, <1>10 DEF Next

\* Only the handler of its input takes it from the queue of a careful client.
LEMMA InputStep ==
    ASSUME IInv, CarefulInv, [Next]_vars, NEW c \in Careful
    PROVE  AppliesInput(c)
<1> SUFFICES ASSUME toSrv[c] # <<>>, Head(toSrv[c]).type = "input",
                    toSrv'[c] = Tail(toSrv[c])
             PROVE  \E u \in Users :
                      /\ session[u] = c
                      /\ now[c] = Head(toSrv[c]).map
                      /\ players[Head(toSrv[c]).map][u] # Head(toSrv[c]).seq
                      /\ players'[Head(toSrv[c]).map][u] = Head(toSrv[c]).seq
    BY DEF AppliesInput
<1>0. c \in Conns
    BY PresenceAssumption
<1>1. PICK q \in Seq(Requests) : q = toSrv[c] /\ q # <<>>
    BY <1>0 DEF IInv, TypeOK, QueuesTypeOK
<1>2. toSrv'[c] # q /\ \A e : toSrv'[c] # Append(q, e)
    <2>1. PICK t : t = Tail(q)
        OBVIOUS
    <2>2. /\ Len(q) \in Nat /\ Len(t) = Len(q) - 1
          /\ \A e : Len(Append(q, e)) = Len(q) + 1
        BY <1>1, <2>1
    <2>3. t # q /\ \A e : t # Append(q, e)
        BY <2>2
    <2> QED BY <1>1, <2>1, <2>3
<1>3. ASSUME NEW d \in Conns, NEW msg, Sends(d, msg) PROVE FALSE
    BY <1>0, <1>1, <1>2, <1>3 DEF Sends, IInv, TypeOK, QueuesTypeOK
<1>4. ASSUME NEW d \in Conns, Client(d) PROVE FALSE
    <2>1. CASE ClientReceives(d) \/ ClientCloses(d)
        BY <1>1, <1>2, <2>1 DEF ClientReceives, ClientCloses
    <2>2. ASSUME NEW msg, ClientSends(d, msg) \/ CarefulAsks(d, msg)
          PROVE  FALSE
        BY <1>3, <2>2 DEF ClientSends, CarefulAsks
    <2>3. CASE CarefulMoves(d)
        BY <1>3, <2>3 DEF CarefulMoves
    <2> QED BY <1>4, <2>1, <2>2, <2>3 DEF Client
<1>5. ASSUME NEW d \in Conns, NEW t, Takes(d, t)
      PROVE  d = c /\ t = "input" /\ running
    BY <1>0, <1>1, <1>2, <1>5 DEF Takes, IInv, TypeOK, QueuesTypeOK
<1>6. ASSUME NEW d \in Conns, Drops(d) PROVE FALSE
    <2>1. d = c /\ running /\ ~HasSession(c)
        BY <1>5, <1>6 DEF Drops, HasSession
    <2> QED BY <1>1, <2>1 DEF CarefulInv, Orderly, Alone
<1>7. ASSUME NEW d \in Conns, NEW u \in Users, Handler(d, u)
      PROVE  OnInput(c, u) /\ running
    <2>1. ~OnClose(d, u)
        BY <1>1, <1>2 DEF OnClose
    <2>2. ~OnEnter(d, u) /\ ~OnLeave(d, u)
        BY <1>5 DEF OnEnter, OnLeave
    <2>3. OnInput(d, u)
        BY <1>7, <2>1, <2>2 DEF Handler
    <2> QED BY <1>5, <2>3 DEF OnInput
<1>8. ~(\E d \in Conns, u \in Users : Login(u, d))
    BY <1>1, <1>2 DEF Login
<1>9. /\ \A m \in Maps : ~FixedUpdate(m)
      /\ ~OnSafeStop /\ ~OnStop /\ ~(UNCHANGED vars)
    BY <1>1, <1>2 DEF FixedUpdate, OnSafeStop, OnStop, vars
<1>10. PICK u \in Users : OnInput(c, u) /\ running
    BY <1>4, <1>6, <1>7, <1>8, <1>9 DEF Next
<1>11. Orderly(c)
    BY <1>10 DEF CarefulInv
<1>12. PICK m, n, last :
         /\ m \in Maps /\ m = now[c] /\ n = q[1].seq /\ last = LastSeq(c, u)
         /\ q[1].map = m /\ n # last
         /\ players' = [players EXCEPT ![m][u] = n]
    <2>1. /\ now[c] \in Maps
          /\ q[1].map = now[c] /\ q[1].seq # LastSeq(c, u)
          /\ players' = [players EXCEPT ![now[c]][u] = q[1].seq]
        BY <1>0, <1>1, <1>10, <1>11, InputApplied
    <2> QED BY <2>1
<1>13. /\ session[u] = c /\ last = players[m][u]
       /\ players'[m][u] = n
    BY <1>10, <1>12, PresenceAssumption
       DEF OnInput, IsUser, LastSeq, IInv, TypeOK, TablesTypeOK
<1> QED BY <1>1, <1>12, <1>13

-----------------------------------------------------------------------------
(* Theorems *)

LEMMA InitEstablishes ==
    Init => IInv /\ ExistingMapIsEntered /\ NoticesInv /\ CarefulInv
<1> SUFFICES ASSUME Init
             PROVE  IInv /\ ExistingMapIsEntered /\ NoticesInv /\ CarefulInv
    OBVIOUS
<1> USE DEF Init, Registry!Init
<1>1. RegistryTypeOK
    BY DEF RegistryTypeOK
<1>2. TablesTypeOK
    BY DEF TablesTypeOK
<1>3. QueuesTypeOK
    BY DEF QueuesTypeOK
<1>4. ClientsTypeOK
    BY PresenceAssumption DEF ClientsTypeOK
<1>5. SessionsDistinct /\ PresenceAgrees
    BY PresenceAssumption DEF SessionsDistinct, PresenceAgrees
<1>6. ExistingMapIsEntered
    BY DEF ExistingMapIsEntered
<1>7. ASSUME NEW c \in Conns PROVE Informed(c)
    <2>1. toCli[c] = <<>> /\ at[c] = None /\ now[c] = None
        BY DEF Init
    <2>2. NoLearning(<<>>, 1, 0)
        BY DEF NoLearning
    <2>3. Knows(<<>>, None, 0, None)
        BY <2>2 DEF Knows
    <2>4. StatesFollow(<<>>, None)
        BY DEF StatesFollow
    <2> QED BY <2>1, <2>3, <2>4 DEF Informed
<1>8. NoticesInv
    BY <1>7 DEF NoticesInv
<1>9. ASSUME NEW c \in Careful PROVE Orderly(c)
    <2>1. c \in Conns
        BY PresenceAssumption
    <2>2. toSrv[c] = <<>> /\ toCli[c] = <<>> /\ waiting[c] /\ ~HasSession(c)
        BY <2>1, PresenceAssumption DEF HasSession, IsUser
    <2>3. Quiet(<<>>)
        BY DEF Quiet
    <2> QED BY <2>2, <2>3 DEF Orderly, Alone, HasSession
<1>10. CarefulInv
    BY <1>9 DEF CarefulInv
<1> QED BY <1>1, <1>2, <1>3, <1>4, <1>5, <1>6, <1>8, <1>10 DEF IInv, TypeOK

LEMMA IInvHolds ==
    Spec => [](IInv /\ ExistingMapIsEntered /\ NoticesInv /\ CarefulInv)
<1>1. Init => IInv /\ ExistingMapIsEntered /\ NoticesInv /\ CarefulInv
    BY InitEstablishes
<1>2. IInv /\ ExistingMapIsEntered /\ NoticesInv /\ CarefulInv /\ [Next]_vars
        => (IInv /\ ExistingMapIsEntered /\ NoticesInv /\ CarefulInv)'
    <2> SUFFICES ASSUME IInv, ExistingMapIsEntered, NoticesInv, CarefulInv,
                        [Next]_vars
                 PROVE  /\ IInv' /\ ExistingMapIsEntered'
                        /\ NoticesInv' /\ CarefulInv'
        OBVIOUS
    <2>1. TypeOK' /\ SessionsDistinct' /\ PresenceAgrees'
        BY TypeStep, DistinctStep, PresenceStep
    <2>2. ExistingMapIsEntered' /\ NoticesInv' /\ CarefulInv'
        BY EnteredStep, NoticesStep, CarefulStep
    <2> QED BY <2>1, <2>2 DEF IInv
<1> QED BY <1>1, <1>2, PTL DEF Spec

\* The tables and the queues always have the types the code gives them: a
\* map lists users by a sequence number in the range of the protocol's uint32.
THEOREM TypeCorrect == Spec => []TypeOK
<1>1. IInv => TypeOK
    BY DEF IInv
<1> QED BY <1>1, IInvHolds, PTL

\* A map's list of players and the components' nowMapId say the same, in
\* whatever order requests, logins, ends of connections and stops come.
THEOREM PresenceCorrect == Spec => []PresenceAgrees
<1>1. IInv => PresenceAgrees
    BY DEF IInv
<1> QED BY <1>1, IInvHolds, PTL

\* PlayerJoinMap never refuses a user as listed already: OnLogout and
\* LeaveCurrMap leave nothing behind.
THEOREM EnteredCorrect == Spec => []ExistingMapIsEntered
BY IInvHolds, PTL

\* A state notice of a map reaches a client only while it knows itself there:
\* after the init notice of the map and before it learns that it left or is
\* in another one, however requests, ticks and the client's reading interleave.
THEOREM NoticesCorrect == Spec => []NoticesFollowInit
<1>1. IInv /\ NoticesInv => NoticesFollowInit
    BY FollowIsFollow DEF IInv
<1> QED BY <1>1, IInvHolds, PTL

\* Every input of a client that follows the rules of MapPlayerInput is applied
\* when it arrives, in the map it was meant for, also when the uint32 numbers
\* wrap: leaving, entering and the end of the connection lose none of those
\* sent before.
THEOREM InputsCorrect == Spec => InputIsApplied
<1>1. IInv /\ CarefulInv /\ [Next]_vars
        => [\A c \in Careful : AppliesInput(c)]_vars
    BY InputStep
<1> QED BY <1>1, IInvHolds, PTL DEF InputIsApplied, Spec
=============================================================================
