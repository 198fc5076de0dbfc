--------------------------- MODULE IpcLink_proofs ---------------------------
(***************************************************************************)
(* Proofs about IpcLink, for every set of clients and applications, every  *)
(* capacity of the channel, every bound and either order of closes.        *)
(***************************************************************************)
EXTENDS IpcLink, SequenceTheorems, TLAPS

LEMMA InitTypeOK == Init => TypeOK
<1> SUFFICES ASSUME Init PROVE TypeOK
    OBVIOUS
<1>1. TablesTypeOK /\ ClientTypeOK
    BY DEF Init, TablesTypeOK, ClientTypeOK
<1>2. NetTypeOK
    BY LinkAssumption DEF Init, NetTypeOK, Gids
<1>3. QueuesTypeOK
    BY DEF Init, QueuesTypeOK
<1>4. WorkerTypeOK
    <2>1. \A c \in Clients : ch[c] = <<>> /\ Len(ch[c]) = 0
        BY DEF Init
    <2> QED BY <2>1, LinkAssumption DEF Init, WorkerTypeOK
<1>5. HistoryTypeOK
    BY LinkAssumption DEF Init, HistoryTypeOK
<1> QED BY <1>1, <1>2, <1>3, <1>4, <1>5 DEF TypeOK

\* What a step leaves alone keeps its type.
LEMMA TypeFrame ==
    ASSUME TypeOK
    PROVE  /\ UNCHANGED tables => TablesTypeOK'
           /\ UNCHANGED net => NetTypeOK'
           /\ UNCHANGED <<toSrv, toCli>> => QueuesTypeOK'
           /\ UNCHANGED client => ClientTypeOK'
           /\ UNCHANGED worker => WorkerTypeOK'
           /\ UNCHANGED history => HistoryTypeOK'
<1> USE DEF TypeOK
<1>1. UNCHANGED tables => TablesTypeOK'
    BY DEF tables, TablesTypeOK
<1>2. UNCHANGED net => NetTypeOK'
    BY DEF net, NetTypeOK
<1>3. UNCHANGED <<toSrv, toCli>> => QueuesTypeOK'
    BY DEF QueuesTypeOK
<1>4. UNCHANGED client => ClientTypeOK'
    BY DEF client, ClientTypeOK
<1>5. UNCHANGED worker => WorkerTypeOK'
    BY DEF worker, WorkerTypeOK
<1>6. UNCHANGED history => HistoryTypeOK'
    BY DEF history, HistoryTypeOK
<1> QED BY <1>1, <1>2, <1>3, <1>4, <1>5, <1>6

LEMMA Packages ==
    /\ Package("handshake", 0) \in ToServer \cap ToClient
    /\ Package("example", 0) \in ToServer
    /\ Package("exampleRes", 0) \in ToClient
    /\ \A i \in 0..MaxRequests : /\ Package("answer", i) \in ToServer
                                 /\ Package("request", i) \in ToClient
BY LinkAssumption DEF Package, ToServer, ToClient

\* Putting a package in a queue and taking one out keep the queues' type.
LEMMA PutType ==
    ASSUME NEW S, NEW q \in [Gids -> Seq(S)], NEW g \in Gids, NEW m \in S
    PROVE  Put(q, g, m) \in [Gids -> Seq(S)]
BY DEF Put

LEMMA TailType ==
    ASSUME NEW S, NEW q \in [Gids -> Seq(S)], NEW g \in Gids, q[g] # <<>>
    PROVE  /\ [q EXCEPT ![g] = Tail(@)] \in [Gids -> Seq(S)]
           /\ Head(q[g]) \in S
OBVIOUS

\* A delivery appended to the history keeps its type.
LEMMA AppendType ==
    ASSUME NEW S, NEW q \in Seq(S), NEW e \in S
    PROVE  Append(q, e) \in Seq(S)
OBVIOUS

LEMMA PrefixType ==
    ASSUME NEW S, NEW q \in [Gids -> Seq(S)], NEW g \in Gids,
           NEW i \in 0..Len(q[g])
    PROVE  [q EXCEPT ![g] = SubSeq(@, 1, i)] \in [Gids -> Seq(S)]
<1>1. SubSeq(q[g], 1, i) \in Seq(S)
    BY SubSeqProperties, ElementOfSeq, LenProperties
<1> QED BY <1>1

\* The connection a client uses, and the application of one that is open.
LEMMA Owners ==
    ASSUME TypeOK
    PROVE  /\ \A c \in Clients : pc[c] # "dial" => conn[c] \in Gids
           /\ \A g \in Gids : srv[g] # "none" => /\ owner[g] \in Clients
                                                 /\ AppOf[owner[g]] \in AppIds
<1>1. \A c \in Clients : pc[c] # "dial" => conn[c] \in Gids
    BY DEF TypeOK, ClientTypeOK
<1>2. \A g \in Gids : srv[g] # "none" => owner[g] \in Clients
    BY DEF TypeOK, NetTypeOK
<1> QED BY <1>1, <1>2, LinkAssumption

LEMMA ClientTypeStep ==
    ASSUME TypeOK, NEW c \in Clients, ConnectLoop(c) \/ Worker(c)
    PROVE  TypeOK'
<1> USE DEF TypeOK
<1>1. CASE Dial(c)
    <2> DEFINE g == lastGid + 1
    <2>1. g \in Gids /\ g \in 1..MaxConns
        BY <1>1, LinkAssumption DEF Dial, NetTypeOK, Gids
    <2>2. NetTypeOK'
        BY <1>1, <2>1, LinkAssumption DEF Dial, NetTypeOK, Gids
    <2>3. ClientTypeOK'
        <3>1. g # None
            BY <2>1, LinkAssumption
        <3> QED BY <1>1, <2>1, <3>1 DEF Dial, ClientTypeOK
    <2> QED BY <1>1, <2>2, <2>3, TypeFrame DEF Dial
<1>2. CASE SendHandshake(c)
    <2>1. conn[c] \in Gids
        BY <1>2, Owners DEF SendHandshake
    <2>2. QueuesTypeOK'
        BY <1>2, <2>1, PutType, Packages DEF SendHandshake, QueuesTypeOK
    <2>3. ClientTypeOK'
        BY <1>2 DEF SendHandshake, ClientTypeOK
    <2> QED BY <1>2, <2>2, <2>3, TypeFrame DEF SendHandshake
<1>3. CASE SendExample(c)
    <2>1. conn[c] \in Gids
        BY <1>3, Owners DEF SendExample
    <2>2. QueuesTypeOK'
        BY <1>3, <2>1, PutType, Packages DEF SendExample, QueuesTypeOK
    <2>3. ClientTypeOK'
        BY <1>3 DEF SendExample, ClientTypeOK
    <2> QED BY <1>3, <2>2, <2>3, TypeFrame DEF SendExample
<1>4. CASE Receive(c)
    <2>1. conn[c] \in Gids
        BY <1>4, Owners DEF Receive
    <2>2. Head(toCli[conn[c]]) \in ToClient /\ QueuesTypeOK'
        BY <1>4, <2>1, TailType DEF Receive, QueuesTypeOK
    <2>3. WorkerTypeOK'
        <3>1. ch' = [ch EXCEPT ![c] = Append(@, Head(toCli[conn[c]]))]
              /\ Len(ch[c]) < ChanSize /\ UNCHANGED busy
            BY <1>4 DEF Receive
        <3>2. ch' \in [Clients -> Seq(ToClient)]
            BY <2>2, <3>1 DEF WorkerTypeOK
        <3>3. Len(ch'[c]) = Len(ch[c]) + 1
              /\ \A d \in Clients : d # c => ch'[d] = ch[d]
            BY <2>2, <3>1 DEF WorkerTypeOK
        <3>4. Len(ch'[c]) <= ChanSize
            BY <3>1, <3>3, LinkAssumption DEF WorkerTypeOK
        <3> QED BY <3>1, <3>2, <3>3, <3>4 DEF WorkerTypeOK
    <2> QED BY <1>4, <2>2, <2>3, TypeFrame DEF Receive
<1>5. CASE ReceiveFails(c)
    <2>1. ClientTypeOK'
        BY <1>5 DEF ReceiveFails, ClientTypeOK
    <2> QED BY <1>5, <2>1, TypeFrame DEF ReceiveFails
<1>6. CASE WorkerTakes(c)
    <2>1. ch[c] # <<>> /\ ch[c] \in Seq(ToClient)
        BY <1>6 DEF WorkerTakes, WorkerTypeOK
    <2>2. /\ Tail(ch[c]) \in Seq(ToClient) /\ Len(Tail(ch[c])) <= Len(ch[c])
          /\ Head(ch[c]) \in ToClient /\ Len(ch[c]) \in Nat
        BY <2>1
    <2>3. Head(ch[c]).id \in 0..MaxRequests
        BY <2>2 DEF ToClient
    <2>4. Len(Tail(ch[c])) <= ChanSize
        BY <2>1, <2>2, LinkAssumption DEF WorkerTypeOK
    <2>5. WorkerTypeOK'
        BY <1>6, <2>2, <2>3, <2>4 DEF WorkerTakes, WorkerTypeOK
    <2> QED BY <1>6, <2>5, TypeFrame DEF WorkerTakes
<1>7. CASE WorkerAnswers(c)
    <2>1. busy[c] \in 0..MaxRequests
        BY <1>7 DEF WorkerAnswers, WorkerTypeOK
    <2>2. QueuesTypeOK'
        <3>1. CASE conn[c] = None
            BY <1>7, <3>1 DEF WorkerAnswers, QueuesTypeOK
        <3>2. CASE conn[c] \in Gids
            BY <1>7, <2>1, <3>2, PutType, Packages
               DEF WorkerAnswers, QueuesTypeOK
        <3> QED BY <3>1, <3>2 DEF ClientTypeOK
    <2>3. WorkerTypeOK'
        BY <1>7 DEF WorkerAnswers, WorkerTypeOK
    <2> QED BY <1>7, <2>2, <2>3, TypeFrame DEF WorkerAnswers
<1> QED BY <1>1, <1>2, <1>3, <1>4, <1>5, <1>6, <1>7 DEF ConnectLoop, Worker

LEMMA ServerTypeStep ==
    ASSUME TypeOK, NEW g \in Gids, Server(g) \/ Break(g)
    PROVE  TypeOK'
<1> USE DEF TypeOK
<1>1. CASE Accept(g)
    <2>1. NetTypeOK'
        BY <1>1 DEF Accept, NetTypeOK
    <2>2. QueuesTypeOK'
        BY <1>1, PutType, Packages DEF Accept, QueuesTypeOK
    <2> QED BY <1>1, <2>1, <2>2, TypeFrame DEF Accept
<1>2. CASE OnHandshake(g)
    <2>1. AppOf[owner[g]] \in AppIds
        BY <1>2, Owners DEF OnHandshake, Takes
    <2>2. TablesTypeOK'
        BY <1>2, <2>1 DEF OnHandshake, Register, TablesTypeOK, tables
    <2>3. QueuesTypeOK'
        BY <1>2, TailType DEF OnHandshake, Takes, QueuesTypeOK
    <2> QED BY <1>2, <2>2, <2>3, TypeFrame DEF OnHandshake
<1>3. CASE OnExample(g)
    <2>1. toSrv' \in [Gids -> Seq(ToServer)]
        BY <1>3, TailType DEF OnExample, Takes, QueuesTypeOK
    <2>2. toCli' \in [Gids -> Seq(ToClient)]
        <3>1. CASE gid2appid[g] = None \/ appid2gid[gid2appid[g]] = None
            BY <1>3, <3>1 DEF OnExample, SendIpc, QueuesTypeOK
        <3>2. CASE gid2appid[g] # None /\ appid2gid[gid2appid[g]] # None
            <4>1. appid2gid[gid2appid[g]] \in Gids
                BY <3>2 DEF TablesTypeOK
            <4>2. toCli' = Put(toCli, appid2gid[gid2appid[g]],
                               Package("exampleRes", 0))
                BY <1>3, <3>2 DEF OnExample, SendIpc
            <4> QED BY <4>1, <4>2, PutType, Packages DEF QueuesTypeOK
        <3> QED BY <3>1, <3>2
    <2> QED BY <1>3, <2>1, <2>2, TypeFrame DEF OnExample, QueuesTypeOK
<1>4. CASE OnAnswer(g)
    <2>1. QueuesTypeOK' /\ Head(toSrv[g]) \in ToServer
        BY <1>4, TailType DEF OnAnswer, Takes, QueuesTypeOK
    <2>2. owner[g] \in Clients
        BY <1>4, Owners DEF OnAnswer, Takes
    <2>3. [client |-> owner[g], id |-> Head(toSrv[g]).id]
            \in [client : Clients, id : 0..MaxRequests]
        BY <2>1, <2>2 DEF ToServer
    <2>4. HistoryTypeOK'
        <3>1. \/ UNCHANGED delivered
              \/ delivered' = Append(delivered, [client |-> owner[g],
                                                 id |-> Head(toSrv[g]).id])
            BY <1>4 DEF OnAnswer
        <3>2. delivered' \in Seq([client : Clients, id : 0..MaxRequests])
            <4>1. CASE UNCHANGED delivered
                BY <4>1 DEF HistoryTypeOK
            <4>2. CASE delivered' = Append(delivered, [client |-> owner[g],
                                                 id |-> Head(toSrv[g]).id])
                BY <2>3, <4>2, AppendType DEF HistoryTypeOK
            <4> QED BY <3>1, <4>1, <4>2
        <3> QED BY <1>4, <3>2 DEF OnAnswer, HistoryTypeOK
    <2> QED BY <1>4, <2>1, <2>4, TypeFrame DEF OnAnswer
<1>5. CASE OnClose(g)
    <2>1. NetTypeOK'
        BY <1>5 DEF OnClose, NetTypeOK
    <2>2. TablesTypeOK'
        BY <1>5 DEF OnClose, Unregister, TablesTypeOK, tables
    <2> QED BY <1>5, <2>1, <2>2, TypeFrame DEF OnClose
<1>6. CASE Break(g)
    <2>1. NetTypeOK'
        BY <1>6 DEF Break, NetTypeOK
    <2>2. QueuesTypeOK'
        BY <1>6, PrefixType DEF Break, QueuesTypeOK
    <2>3. HistoryTypeOK'
        BY <1>6, LinkAssumption DEF Break, HistoryTypeOK
    <2> QED BY <1>6, <2>1, <2>2, <2>3, TypeFrame DEF Break
<1> QED BY <1>1, <1>2, <1>3, <1>4, <1>5, <1>6 DEF Server

LEMMA TypeStep ==
    ASSUME TypeOK, [Next]_vars
    PROVE  TypeOK'
<1>1. ASSUME NEW a \in AppIds, LuaRequests(a) PROVE TypeOK'
    <2> USE DEF TypeOK
    <2>1. requests + 1 \in 0..MaxRequests
        BY <1>1, LinkAssumption DEF LuaRequests, HistoryTypeOK
    <2>2. toCli' \in [Gids -> Seq(ToClient)]
        <3>1. CASE appid2gid[a] = None
            BY <1>1, <3>1 DEF LuaRequests, SendIpc, QueuesTypeOK
        <3>2. CASE appid2gid[a] \in Gids
            BY <1>1, <2>1, <3>2, PutType, Packages, LinkAssumption
               DEF LuaRequests, SendIpc, QueuesTypeOK
        <3> QED BY <3>1, <3>2 DEF TablesTypeOK
    <2>3. HistoryTypeOK'
        BY <1>1, <2>1 DEF LuaRequests, HistoryTypeOK
    <2> QED BY <1>1, <2>2, <2>3, TypeFrame DEF LuaRequests, QueuesTypeOK
<1>2. CASE UNCHANGED vars
    BY <1>2, TypeFrame DEF vars, TypeOK
<1> QED BY <1>1, <1>2, ClientTypeStep, ServerTypeStep DEF Next

-----------------------------------------------------------------------------
(* The two maps *)

LEMMA TableChanges ==
    ASSUME [Next]_vars
    PROVE  \/ UNCHANGED <<tables, srv>>
           \/ \E c \in Clients : Dial(c)
           \/ \E g \in Gids : Accept(g) \/ OnHandshake(g) \/ OnClose(g)
<1>1. ASSUME NEW c \in Clients, ConnectLoop(c) \/ Worker(c), ~Dial(c)
      PROVE  UNCHANGED <<tables, srv>>
    BY <1>1 DEF ConnectLoop, Worker, SendHandshake, SendExample, Receive,
                ReceiveFails, WorkerTakes, WorkerAnswers, net
<1>2. ASSUME NEW g \in Gids, OnExample(g) \/ OnAnswer(g) \/ Break(g)
      PROVE  UNCHANGED <<tables, srv>>
    BY <1>2 DEF OnExample, OnAnswer, Break, net
<1>3. ASSUME NEW a \in AppIds, LuaRequests(a) PROVE UNCHANGED <<tables, srv>>
    BY <1>3 DEF LuaRequests, net
<1>4. CASE UNCHANGED vars
    BY <1>4 DEF vars, net
<1> QED BY <1>1, <1>2, <1>3, <1>4 DEF Next, Server

LEMMA PairsStep ==
    ASSUME TypeOK, PairsMatch, [Next]_vars
    PROVE  PairsMatch'
<1> USE DEF TypeOK, TablesTypeOK, PairsMatch
<1>1. CASE UNCHANGED <<tables, srv>>
    BY <1>1 DEF tables
<1>2. ASSUME NEW c \in Clients, Dial(c) PROVE PairsMatch'
    BY <1>2 DEF Dial, tables
<1>3. ASSUME NEW g \in Gids, Accept(g) PROVE PairsMatch'
    BY <1>3 DEF Accept, tables
<1>4. ASSUME NEW g \in Gids, OnHandshake(g) PROVE PairsMatch'
    <2> DEFINE a == AppOf[owner[g]]
    <2>1. a \in AppIds
        BY <1>4, Owners DEF OnHandshake, Takes
    <2>2. Register(a, g)
        BY <1>4 DEF OnHandshake
    <2> HIDE DEF a
    <2>3. None \notin Gids
        BY LinkAssumption DEF Gids
    <2> QED BY <2>1, <2>2, <2>3, LinkAssumption DEF Register, tables
<1>5. ASSUME NEW g \in Gids, OnClose(g) PROVE PairsMatch'
    <2>1. None \notin Gids
        BY LinkAssumption DEF Gids
    <2>2. Unregister(g)
        BY <1>5 DEF OnClose
    <2>3. CASE gid2appid[g] = None
        BY <2>2, <2>3 DEF Unregister, tables
    <2>4. CASE gid2appid[g] # None
        <3> DEFINE a == gid2appid[g]
        <3>1. a \in AppIds /\ appid2gid[a] = g
            BY <2>4
        <3>2. /\ appid2gid' = [appid2gid EXCEPT ![a] = None]
              /\ gid2appid' = [gid2appid EXCEPT ![g] = None]
            BY <2>2, <2>4 DEF Unregister
        <3> HIDE DEF a
        <3> QED BY <2>1, <3>1, <3>2, LinkAssumption
    <2> QED BY <2>3, <2>4
<1> QED BY <1>1, <1>2, <1>3, <1>4, <1>5, TableChanges

LEMMA RegisteredStep ==
    ASSUME TypeOK, RegisteredIsOpen, [Next]_vars
    PROVE  RegisteredIsOpen'
<1> USE DEF TypeOK, TablesTypeOK, NetTypeOK, RegisteredIsOpen
<1>1. CASE UNCHANGED <<tables, srv>>
    BY <1>1 DEF tables
<1>2. ASSUME NEW c \in Clients, Dial(c) PROVE RegisteredIsOpen'
    <2>1. srv' = [srv EXCEPT ![lastGid + 1] = "pending"] /\ UNCHANGED tables
        BY <1>2 DEF Dial
    <2>2. lastGid + 1 \in Gids => srv[lastGid + 1] = "none"
        BY LinkAssumption DEF Gids
    <2> QED BY <2>1, <2>2 DEF tables
<1>3. ASSUME NEW g \in Gids, Accept(g) PROVE RegisteredIsOpen'
    BY <1>3 DEF Accept, tables
<1>4. ASSUME NEW g \in Gids, OnHandshake(g) PROVE RegisteredIsOpen'
    BY <1>4 DEF OnHandshake, Takes, Register, tables, net
<1>5. ASSUME NEW g \in Gids, OnClose(g) PROVE RegisteredIsOpen'
    BY <1>5 DEF OnClose, Unregister, tables
<1> QED BY <1>1, <1>2, <1>3, <1>4, <1>5, TableChanges

-----------------------------------------------------------------------------
(* Answers come in the order of the requests *)

\* The numbers of the packages of one type in a queue; and are they rising?
Of(q, t) == {q[i].id : i \in {j \in DOMAIN q : q[j].type = t}}

Rising(q, t) ==
    \A i, j \in DOMAIN q :
        i < j /\ q[i].type = t /\ q[j].type = t => q[i].id < q[j].id

Below(S, T) == \A m \in S, n \in T : m < n

\* A process' requests on their way through it: on the connection it reads,
\* in the channel, with the worker; and answered, on a connection of its own,
\* or told to the VM.
Asking(c) == IF conn[c] = None THEN {} ELSE Of(toCli[conn[c]], "request")
Queued(c) == Of(ch[c], "request")
Serving(c) == {busy[c]} \ {None}
Answers(g) == Of(toSrv[g], "answer")
Told(c) == {delivered[i].id : i \in {j \in DOMAIN delivered : delivered[j].client = c}}

Waiting(c) == Queued(c) \cup Asking(c) \cup {requests + 1}
Unanswered(c) == Serving(c) \cup Waiting(c)

\* What is on a connection may still be handed to the VM: the connection is
\* registered, or its handshake is on the way or to be sent.
MayDeliver(g) ==
    \/ gid2appid[g] # None
    \/ Of(toSrv[g], "handshake") # {}
    \/ pc[owner[g]] = "handshake" /\ conn[owner[g]] = g

\* A process uses the last connection it dialled, nothing comes from any
\* other, and nothing is on one that was never dialled.
LastIsUsed ==
    /\ \A c \in Clients : conn[c] # None => owner[conn[c]] = c
    /\ \A g \in Gids :
         IF owner[g] = None
           THEN toSrv[g] = <<>> /\ toCli[g] = <<>>
           ELSE /\ conn[owner[g]] # None => g <= conn[owner[g]]
                /\ conn[owner[g]] # g => ~up[g] /\ toCli[g] = <<>>

RegisteredByOwner ==
    \A g \in Gids : gid2appid[g] # None => gid2appid[g] = AppOf[owner[g]]

\* A process works through its requests in order.
Worked(c) ==
    /\ Rising(ch[c], "request")
    /\ conn[c] # None => Rising(toCli[conn[c]], "request")
    /\ Below(Asking(c), {requests + 1})
    /\ Below(Queued(c), Asking(c) \cup {requests + 1})
    /\ Below(Serving(c), Waiting(c))

WorkedInOrder == \A c \in Clients : Worked(c)

\* Answers lie on the connections in the order of the requests.
Sent(c, g) ==
    /\ Rising(toSrv[g], "answer")
    /\ Below(Answers(g), Unanswered(c))
    /\ \A h \in Gids : owner[h] = c /\ h < g => Below(Answers(h), Answers(g))

SentInOrder == \A c \in Clients, g \in Gids : owner[g] = c => Sent(c, g)

\* And what may still be delivered is younger than what was.
ToldInOrder ==
    /\ RequestOrder
    /\ \A c \in Clients : Below(Told(c), Unanswered(c))
    /\ \A c \in Clients, g \in Gids :
         owner[g] = c /\ MayDeliver(g) => Below(Told(c), Answers(g))

\* What appending, taking and cutting do to the packages of one type.
LEMMA OfAppend ==
    ASSUME NEW S, NEW q \in Seq(S), NEW m \in S, NEW t
    PROVE  /\ Of(Append(q, m), t) = Of(q, t) \cup (IF m.type = t THEN {m.id} ELSE {})
           /\ Rising(q, t) /\ (m.type = t => Below(Of(q, t), {m.id}))
                => Rising(Append(q, m), t)
<1>1. /\ Len(Append(q, m)) = Len(q) + 1 /\ Len(q) \in Nat
      /\ DOMAIN q = 1..Len(q) /\ DOMAIN Append(q, m) = 1..(Len(q) + 1)
      /\ \A i \in 1..Len(q) : Append(q, m)[i] = q[i]
      /\ Append(q, m)[Len(q) + 1] = m
    BY AppendProperties
<1> DEFINE r == Append(q, m)
<1> HIDE DEF r
<1>2. Of(r, t) = Of(q, t) \cup (IF m.type = t THEN {m.id} ELSE {})
    BY <1>1 DEF r, Of
<1>3. ASSUME Rising(q, t), m.type = t => Below(Of(q, t), {m.id}),
             NEW i \in DOMAIN r, NEW j \in DOMAIN r, i < j,
             r[i].type = t, r[j].type = t
      PROVE  r[i].id < r[j].id
    <2>1. CASE j \in 1..Len(q)
        BY <1>1, <1>3, <2>1 DEF r, Rising
    <2>2. CASE j = Len(q) + 1
        <3>1. i \in 1..Len(q) /\ r[i] = q[i] /\ r[j] = m
            BY <1>1, <1>3, <2>2 DEF r
        <3>2. q[i].id \in Of(q, t)
            BY <1>1, <1>3, <3>1 DEF Of
        <3> QED BY <1>3, <3>1, <3>2 DEF Below
    <2> QED BY <1>1, <2>1, <2>2 DEF r
<1> QED BY <1>2, <1>3 DEF r, Rising

LEMMA OfTail ==
    ASSUME NEW S, NEW q \in Seq(S), q # <<>>, NEW t
    PROVE  /\ Of(q, t) = Of(Tail(q), t) \cup
                           (IF Head(q).type = t THEN {Head(q).id} ELSE {})
           /\ Rising(q, t) => /\ Rising(Tail(q), t)
                              /\ Head(q).type = t
                                   => Below({Head(q).id}, Of(Tail(q), t))
<1>1. /\ Len(q) \in Nat \ {0} /\ DOMAIN q = 1..Len(q)
      /\ DOMAIN Tail(q) = 1..(Len(q) - 1)
      /\ \A i \in 1..(Len(q) - 1) : Tail(q)[i] = q[i + 1]
      /\ Head(q) = q[1]
    BY HeadTailProperties
<1> DEFINE r == Tail(q)
<1> HIDE DEF r
<1>2. Of(q, t) = Of(r, t) \cup (IF q[1].type = t THEN {q[1].id} ELSE {})
    <2>1. \A i \in DOMAIN q : i = 1 \/ (i - 1 \in DOMAIN r /\ r[i - 1] = q[i])
        BY <1>1 DEF r
    <2>2. \A i \in DOMAIN r : i + 1 \in DOMAIN q /\ r[i] = q[i + 1]
        BY <1>1 DEF r
    <2>3. 1 \in DOMAIN q
        BY <1>1
    <2> QED BY <2>1, <2>2, <2>3 DEF Of
<1>3. ASSUME Rising(q, t) PROVE Rising(r, t)
    BY <1>1, <1>3 DEF r, Rising
<1>4. ASSUME Rising(q, t), q[1].type = t PROVE Below({q[1].id}, Of(r, t))
    BY <1>1, <1>4 DEF r, Rising, Of, Below
<1> QED BY <1>1, <1>2, <1>3, <1>4 DEF r

LEMMA OfPrefix ==
    ASSUME NEW S, NEW q \in Seq(S), NEW n \in 0..Len(q), NEW t
    PROVE  /\ Of(SubSeq(q, 1, n), t) \subseteq Of(q, t)
           /\ Rising(q, t) => Rising(SubSeq(q, 1, n), t)
<1> DEFINE r == SubSeq(q, 1, n)
<1>1. /\ DOMAIN q = 1..Len(q) /\ DOMAIN r = 1..n /\ Len(q) \in Nat
      /\ \A i \in 1..n : r[i] = q[i]
    BY SubSeqProperties
<1> HIDE DEF r
<1> QED BY <1>1 DEF r, Of, Rising

LEMMA OfEmpty == \A t : Of(<<>>, t) = {} /\ Rising(<<>>, t)
BY DEF Of, Rising

\* What is sent to an application is put on one intact connection, or nowhere.
LEMMA IpcIsPut ==
    ASSUME TypeOK, PairsMatch, RegisteredIsOpen,
           NEW a \in AppIds, NEW m \in ToClient, SendIpc(a, m)
    PROVE  \/ toCli' = toCli
           \/ \E h \in Gids :
                 /\ owner[h] \in Clients /\ up[h]
                 /\ toCli' = [toCli EXCEPT ![h] = Append(@, m)]
<1>1. CASE appid2gid[a] = None
    BY <1>1 DEF SendIpc
<1>2. CASE appid2gid[a] # None
    <2> DEFINE h == appid2gid[a]
    <2>1. h \in Gids /\ gid2appid[h] # None
        BY <1>2, LinkAssumption DEF TypeOK, TablesTypeOK, PairsMatch
    <2>2. owner[h] \in Clients
        BY <2>1, Owners DEF RegisteredIsOpen
    <2>3. toCli' = Put(toCli, h, m)
        BY <1>2 DEF SendIpc
    <2> HIDE DEF h
    <2> QED BY <2>1, <2>2, <2>3 DEF Put
<1> QED BY <1>1, <1>2

\* What the server's handlers may do to the queues to the clients.
LEMMA ServerSends ==
    ASSUME TypeOK, PairsMatch, RegisteredIsOpen,
           (\E g \in Gids : Server(g)) \/ (\E a \in AppIds : LuaRequests(a))
    PROVE  /\ UNCHANGED <<owner, up, conn, pc, ch, busy>>
           /\ requests' \in {requests, requests + 1}
           /\ \/ toCli' = toCli
              \/ \E h \in Gids, m \in ToClient :
                    /\ owner[h] \in Clients /\ up[h]
                    /\ toCli' = [toCli EXCEPT ![h] = Append(@, m)]
                    /\ m.type = "request" => m.id = requests + 1 /\ requests' = requests + 1
<1> DEFINE P(h, m) == /\ owner[h] \in Clients /\ up[h]
                      /\ toCli' = [toCli EXCEPT ![h] = Append(@, m)]
           Q(m) == m.type = "request" => m.id = requests + 1 /\ requests' = requests + 1
<1>1. /\ UNCHANGED <<owner, up, conn, pc, ch, busy>>
      /\ requests' \in {requests, requests + 1}
    BY DEF Server, Accept, OnHandshake, OnExample, OnAnswer, OnClose, LuaRequests,
           net, client, worker, history
<1>2. ASSUME NEW g \in Gids, OnHandshake(g) \/ OnAnswer(g) \/ OnClose(g)
      PROVE  toCli' = toCli
    BY <1>2 DEF OnHandshake, OnAnswer, OnClose
<1>3. ASSUME NEW g \in Gids, Accept(g)
      PROVE  toCli' = toCli \/ \E h \in Gids, m \in ToClient : P(h, m) /\ Q(m)
    <2> DEFINE m == Package("handshake", 0)
    <2>1. m \in ToClient /\ m.type = "handshake"
        BY Packages DEF Package
    <2>2. owner[g] \in Clients
        BY <1>3, Owners DEF Accept
    <2>3. toCli' = Put(toCli, g, m)
        BY <1>3 DEF Accept
    <2> HIDE DEF m
    <2>4. toCli' = toCli \/ P(g, m)
        BY <2>1, <2>2, <2>3 DEF Put
    <2> QED BY <2>1, <2>4
<1>4. ASSUME NEW g \in Gids, OnExample(g)
      PROVE  toCli' = toCli \/ \E h \in Gids, m \in ToClient : P(h, m) /\ Q(m)
    <2> DEFINE m == Package("exampleRes", 0)
    <2>1. m \in ToClient /\ m.type = "exampleRes"
        BY Packages DEF Package
    <2>2. CASE gid2appid[g] = None
        BY <1>4, <2>2 DEF OnExample
    <2>3. CASE gid2appid[g] # None
        <3>1. gid2appid[g] \in AppIds
            BY <2>3 DEF TypeOK, TablesTypeOK
        <3>2. SendIpc(gid2appid[g], m)
            BY <1>4, <2>3 DEF OnExample
        <3> HIDE DEF m
        <3>3. toCli' = toCli \/ \E h \in Gids : P(h, m)
            BY <2>1, <3>1, <3>2, IpcIsPut
        <3> QED BY <2>1, <3>3
    <2> QED BY <2>2, <2>3
<1>5. ASSUME NEW a \in AppIds, LuaRequests(a)
      PROVE  toCli' = toCli \/ \E h \in Gids, m \in ToClient : P(h, m) /\ Q(m)
    <2> DEFINE m == Package("request", requests + 1)
    <2>1. m \in ToClient /\ m.id = requests + 1
        <3>1. requests + 1 \in 0..MaxRequests
            BY <1>5, LinkAssumption DEF LuaRequests, TypeOK, HistoryTypeOK
        <3> QED BY <3>1, Packages DEF Package
    <2>2. requests' = requests + 1 /\ SendIpc(a, m)
        BY <1>5 DEF LuaRequests
    <2> HIDE DEF m
    <2>3. toCli' = toCli \/ \E h \in Gids : P(h, m)
        BY <2>1, <2>2, IpcIsPut
    <2> QED BY <2>1, <2>2, <2>3
<1> QED BY <1>1, <1>2, <1>3, <1>4, <1>5 DEF Server

LEMMA LastInit == Init => LastIsUsed
BY DEF Init, LastIsUsed

LEMMA LastFrame ==
    ASSUME LastIsUsed, UNCHANGED <<conn, owner>>,
           \A g \in Gids : /\ up'[g] => up[g]
                           /\ owner[g] = None => toSrv'[g] = <<>> /\ toCli'[g] = <<>>
                           /\ ~up[g] /\ toCli[g] = <<>> => toCli'[g] = <<>>
    PROVE  LastIsUsed'
BY DEF LastIsUsed

LEMMA LastStep ==
    ASSUME TypeOK, PairsMatch, RegisteredIsOpen, LastIsUsed, [Next]_vars
    PROVE  LastIsUsed'
<1>1. None \notin Clients /\ None \notin Gids
    BY LinkAssumption DEF Gids
<1>2. toSrv \in [Gids -> Seq(ToServer)] /\ toCli \in [Gids -> Seq(ToClient)]
    BY DEF TypeOK, QueuesTypeOK
<1>3. \A g \in Gids : owner[g] = None => toSrv[g] = <<>> /\ toCli[g] = <<>>
    BY DEF LastIsUsed
<1>4. ASSUME NEW c \in Clients, Dial(c) PROVE LastIsUsed'
    <2> DEFINE n == lastGid + 1
    <2>1. /\ n \in Gids /\ owner[n] = None
          /\ \A g \in Gids : owner[g] # None => g < n
        BY <1>4, <1>1, LinkAssumption DEF Dial, TypeOK, NetTypeOK, Gids
    <2>2. /\ conn[c] = None /\ conn' = [conn EXCEPT ![c] = n]
          /\ owner' = [owner EXCEPT ![n] = c]
          /\ up' = [up EXCEPT ![n] = TRUE] /\ UNCHANGED <<toSrv, toCli>>
        BY <1>4 DEF Dial, TypeOK, ClientTypeOK
    <2>3. conn \in [Clients -> Gids \cup {None}] /\ owner \in [Gids -> Clients \cup {None}]
          /\ up \in [Gids -> BOOLEAN] /\ Gids \subseteq Nat
        BY DEF TypeOK, ClientTypeOK, NetTypeOK, Gids
    <2> HIDE DEF n
    <2>4. \A d \in Clients : conn'[d] # None => owner'[conn'[d]] = d
        BY <1>1, <2>1, <2>2, <2>3 DEF LastIsUsed
    <2>5. ASSUME NEW g \in Gids
          PROVE  IF owner'[g] = None
                   THEN toSrv'[g] = <<>> /\ toCli'[g] = <<>>
                   ELSE /\ conn'[owner'[g]] # None => g <= conn'[owner'[g]]
                        /\ conn'[owner'[g]] # g => ~up'[g] /\ toCli'[g] = <<>>
        <3>1. CASE g = n
            BY <1>1, <2>1, <2>2, <2>3, <3>1
        <3>2. CASE g # n /\ owner[g] = c
            BY <1>1, <2>1, <2>2, <2>3, <3>2 DEF LastIsUsed
        <3>3. CASE g # n /\ owner[g] # c
            BY <1>1, <2>1, <2>2, <2>3, <3>3 DEF LastIsUsed
        <3> QED BY <3>1, <3>2, <3>3
    <2> QED BY <2>4, <2>5 DEF LastIsUsed
<1>5. ASSUME NEW c \in Clients,
             SendHandshake(c) \/ SendExample(c) \/ WorkerAnswers(c)
      PROVE  LastIsUsed'
    <2>1. UNCHANGED <<conn, owner, up, toCli>>
        BY <1>5 DEF SendHandshake, SendExample, WorkerAnswers, net, client
    <2>2. \/ toSrv' = toSrv
          \/ conn[c] \in Gids /\ \E m : toSrv' = [toSrv EXCEPT ![conn[c]] = Append(@, m)]
        BY <1>5 DEF SendHandshake, SendExample, WorkerAnswers, Put, TypeOK, ClientTypeOK
    <2>3. conn[c] \in Gids => owner[conn[c]] = c
        BY <1>1 DEF LastIsUsed
    <2> QED BY <1>1, <1>2, <1>3, <2>1, <2>2, <2>3, LastFrame
<1>6. ASSUME NEW c \in Clients, Receive(c) PROVE LastIsUsed'
    <2>1. /\ UNCHANGED <<conn, owner, up, toSrv>>
          /\ toCli' = [toCli EXCEPT ![conn[c]] = Tail(@)] /\ toCli[conn[c]] # <<>>
        BY <1>6 DEF Receive, net, client
    <2> QED BY <1>2, <1>3, <2>1, LastFrame
<1>7. ASSUME NEW c \in Clients, ReceiveFails(c) PROVE LastIsUsed'
    <2>1. /\ UNCHANGED <<owner, up, toSrv, toCli>> /\ conn' = [conn EXCEPT ![c] = None]
          /\ toCli[conn[c]] = <<>> /\ ~up[conn[c]]
        BY <1>7 DEF ReceiveFails, net
    <2>2. conn \in [Clients -> Gids \cup {None}] /\ owner \in [Gids -> Clients \cup {None}]
        BY DEF TypeOK, ClientTypeOK, NetTypeOK
    <2> QED BY <1>1, <2>1, <2>2 DEF LastIsUsed
<1>8. ASSUME NEW c \in Clients, WorkerTakes(c) PROVE LastIsUsed'
    BY <1>8 DEF WorkerTakes, net, client, LastIsUsed
<1>9. ASSUME NEW g \in Gids, Server(g) PROVE LastIsUsed'
    <2>1. UNCHANGED <<conn, owner, up>>
        BY <1>9 DEF Server, Accept, OnHandshake, OnExample, OnAnswer, OnClose,
                    net, client
    <2>2. \/ toSrv' = toSrv
          \/ toSrv' = [toSrv EXCEPT ![g] = Tail(@)] /\ owner[g] # None
        <3>1. srv[g] = "open" => owner[g] # None
            BY <1>1, Owners
        <3> QED BY <1>9, <3>1 DEF Server, Accept, OnHandshake, OnExample, OnAnswer,
                                  OnClose, Takes
    <2>3. \/ toCli' = toCli
          \/ \E h \in Gids, m \in ToClient :
                owner[h] \in Clients /\ up[h] /\ toCli' = [toCli EXCEPT ![h] = Append(@, m)]
        BY <1>9, ServerSends
    <2> QED BY <1>1, <1>2, <1>3, <2>1, <2>2, <2>3, LastFrame
<1>10. ASSUME NEW a \in AppIds, LuaRequests(a) PROVE LastIsUsed'
    <2>1. UNCHANGED <<conn, owner, up, toSrv>>
        BY <1>10 DEF LuaRequests, net, client
    <2>2. \/ toCli' = toCli
          \/ \E h \in Gids, m \in ToClient :
                owner[h] \in Clients /\ up[h] /\ toCli' = [toCli EXCEPT ![h] = Append(@, m)]
        BY <1>10, ServerSends
    <2> QED BY <1>1, <1>2, <1>3, <2>1, <2>2, LastFrame
<1>11. ASSUME NEW g \in Gids, Break(g) PROVE LastIsUsed'
    <2>1. PICK i \in 0..Len(toSrv[g]), j \in 0..Len(toCli[g]) :
            /\ toSrv' = [toSrv EXCEPT ![g] = SubSeq(@, 1, i)]
            /\ toCli' = [toCli EXCEPT ![g] = SubSeq(@, 1, j)]
        BY <1>11 DEF Break
    <2>2. UNCHANGED <<conn, owner>> /\ up' = [up EXCEPT ![g] = FALSE] /\ up \in [Gids -> BOOLEAN]
        BY <1>11 DEF Break, client, TypeOK, NetTypeOK
    <2>3. /\ toSrv[g] = <<>> => toSrv'[g] = <<>>
          /\ toCli[g] = <<>> => toCli'[g] = <<>>
        BY <1>2, <2>1
    <2> QED BY <1>2, <1>3, <2>1, <2>2, <2>3, LastFrame
<1>12. CASE UNCHANGED vars
    BY <1>12 DEF vars, net, client, LastIsUsed
<1> QED BY <1>4, <1>5, <1>6, <1>7, <1>8, <1>9, <1>10, <1>11, <1>12
        DEF Next, ConnectLoop, Worker

LEMMA Elements ==
    ASSUME NEW S, NEW q \in Seq(S)
    PROVE  \A i \in DOMAIN q : q[i] \in S
BY ElementOfSeq

LEMMA OfNumbers ==
    ASSUME NEW S, NEW q \in Seq(S), \A m \in S : m.id \in Nat, NEW t
    PROVE  Of(q, t) \subseteq Nat
<1>1. \A i \in DOMAIN q : q[i] \in S
    BY Elements
<1> QED BY <1>1 DEF Of

LEMMA Numbers ==
    ASSUME TypeOK
    PROVE  /\ requests \in Nat
           /\ \A c \in Clients :
                /\ Asking(c) \subseteq Nat /\ Queued(c) \subseteq Nat
                /\ Serving(c) \subseteq Nat /\ Unanswered(c) \subseteq Nat
                /\ Told(c) \subseteq Nat
           /\ \A g \in Gids : Answers(g) \subseteq Nat
<1>0. /\ \A m \in ToClient : m.id \in Nat
      /\ \A m \in ToServer : m.id \in Nat
    BY LinkAssumption DEF ToClient, ToServer
<1>1. requests \in Nat
    BY LinkAssumption DEF TypeOK, HistoryTypeOK
<1>2. ASSUME NEW c \in Clients PROVE Asking(c) \subseteq Nat
    <2>1. CASE conn[c] = None
        BY <2>1 DEF Asking
    <2>2. CASE conn[c] \in Gids
        <3>1. toCli[conn[c]] \in Seq(ToClient)
            BY <2>2 DEF TypeOK, QueuesTypeOK
        <3> QED BY <2>2, <3>1, <1>0, OfNumbers DEF Asking
    <2> QED BY <2>1, <2>2 DEF TypeOK, ClientTypeOK
<1>3. ASSUME NEW c \in Clients PROVE Queued(c) \subseteq Nat
    <2>1. ch[c] \in Seq(ToClient)
        BY DEF TypeOK, WorkerTypeOK
    <2> QED BY <2>1, <1>0, OfNumbers DEF Queued
<1>4. ASSUME NEW c \in Clients PROVE Serving(c) \subseteq Nat
    BY LinkAssumption DEF Serving, TypeOK, WorkerTypeOK
<1>5. ASSUME NEW c \in Clients PROVE Told(c) \subseteq Nat
    <2>1. \A i \in DOMAIN delivered : delivered[i] \in [client : Clients, id : 0..MaxRequests]
        <3>1. delivered \in Seq([client : Clients, id : 0..MaxRequests])
            BY DEF TypeOK, HistoryTypeOK
        <3> QED BY ONLY <3>1, Elements
    <2> QED BY <2>1, LinkAssumption DEF Told
<1>6. ASSUME NEW g \in Gids PROVE Answers(g) \subseteq Nat
    <2>1. toSrv[g] \in Seq(ToServer)
        BY DEF TypeOK, QueuesTypeOK
    <2> QED BY <2>1, <1>0, OfNumbers DEF Answers
<1> QED BY <1>1, <1>2, <1>3, <1>4, <1>5, <1>6 DEF Unanswered, Waiting

\* What a process still has to answer only moves up.
MovesUp(c) == \A n \in Unanswered(c)' : \E m \in Unanswered(c) : m <= n

\* A process whose own goroutines do nothing gets at most the next request.
LEMMA WorkFrame ==
    ASSUME TypeOK, NEW c \in Clients, Worked(c), UNCHANGED <<ch[c], busy[c], conn[c]>>,
           requests' \in {requests, requests + 1},
           conn[c] # None =>
             /\ Rising(toCli'[conn[c]], "request")
             /\ \A n \in Of(toCli'[conn[c]], "request") :
                   n \in Asking(c) \/ (n = requests + 1 /\ requests' = requests + 1)
    PROVE  Worked(c)' /\ MovesUp(c)
<1>1. /\ requests \in Nat /\ Asking(c) \subseteq Nat /\ Queued(c) \subseteq Nat
      /\ Serving(c) \subseteq Nat
    BY Numbers
<1>2. Queued(c)' = Queued(c) /\ Serving(c)' = Serving(c)
    BY DEF Queued, Serving
<1>3. \A n \in Asking(c)' : n \in Asking(c) \/ (n = requests + 1 /\ requests' = requests + 1)
    BY DEF Asking
<1>4. Below(Asking(c)', {requests' + 1})
    BY <1>1, <1>3 DEF Worked, Below
<1>5. Below(Queued(c)', Asking(c)' \cup {requests' + 1})
    BY <1>1, <1>2, <1>3 DEF Worked, Below
<1>6. Below(Serving(c)', Waiting(c)')
    BY <1>1, <1>2, <1>3 DEF Worked, Below, Waiting
<1>7. MovesUp(c)
    <2> SUFFICES ASSUME NEW n \in Unanswered(c)'
                 PROVE  \E m \in Unanswered(c) : m <= n
        BY DEF MovesUp
    <2>1. n \in Unanswered(c) \/ n = requests + 1 \/ n = requests' + 1
        BY <1>2, <1>3 DEF Unanswered, Waiting
    <2>2. CASE n \in Unanswered(c)
        <3>1. n \in Nat
            BY <2>2, Numbers
        <3> QED BY <2>2, <3>1
    <2>3. CASE n = requests + 1 \/ n = requests' + 1
        <3>1. requests + 1 \in Unanswered(c) /\ requests + 1 <= n
            BY <1>1, <2>3 DEF Unanswered, Waiting
        <3> QED BY <3>1
    <2> QED BY <2>1, <2>2, <2>3
<1> QED BY <1>4, <1>5, <1>6, <1>7 DEF Worked

\* Nothing new: what is unanswered afterwards was unanswered before.
LEMMA NothingNew ==
    ASSUME TypeOK, NEW c \in Clients, Unanswered(c)' \subseteq Unanswered(c)
    PROVE  MovesUp(c)
<1>1. \A n \in Unanswered(c)' : n \in Unanswered(c) /\ n \in Nat
    BY Numbers
<1>2. \A n \in Nat : n <= n
    OBVIOUS
<1> QED BY <1>1, <1>2 DEF MovesUp

LEMMA OwnWorkStep ==
    ASSUME TypeOK, LastIsUsed, NEW c \in Clients, Worked(c), ConnectLoop(c) \/ Worker(c)
    PROVE  Worked(c)' /\ MovesUp(c)
<1>1. None \notin Clients /\ None \notin Gids /\ None \notin Nat
    BY LinkAssumption DEF Gids
<1>2. /\ conn \in [Clients -> Gids \cup {None}]
      /\ pc[c] # "dial" => conn[c] \in Gids
      /\ ch \in [Clients -> Seq(ToClient)] /\ toCli \in [Gids -> Seq(ToClient)]
      /\ busy \in [Clients -> 0..MaxRequests \cup {None}]
    BY DEF TypeOK, ClientTypeOK, WorkerTypeOK, QueuesTypeOK
<1>3. CASE Dial(c)
    <2> DEFINE n == lastGid + 1
    <2>1. n \in Gids /\ owner[n] = None /\ conn'[c] = n /\ conn[c] = None /\ toCli' = toCli
          /\ UNCHANGED <<ch, busy, requests>>
        BY <1>1, <1>2, <1>3, LinkAssumption
           DEF Dial, TypeOK, NetTypeOK, ClientTypeOK, Gids, worker, history
    <2> HIDE DEF n
    <2>2. toCli'[conn'[c]] = <<>>
        BY <2>1 DEF LastIsUsed
    <2>3. Asking(c) = {} /\ Asking(c)' = {} /\ Rising(toCli'[conn'[c]], "request")
        BY <2>1, <2>2, OfEmpty DEF Asking
    <2>4. Queued(c)' = Queued(c) /\ Serving(c)' = Serving(c) /\ requests' = requests
        BY <2>1 DEF Queued, Serving
    <2>5. Worked(c)'
        BY <2>1, <2>3, <2>4 DEF Worked, Waiting, Below
    <2> QED BY <2>3, <2>4, <2>5, NothingNew DEF Unanswered, Waiting
<1>4. CASE SendHandshake(c) \/ SendExample(c)
    <2>1. UNCHANGED <<ch, busy, conn, requests, toCli>>
        BY <1>4 DEF SendHandshake, SendExample, worker, history
    <2>2. Worked(c)' /\ Unanswered(c)' = Unanswered(c)
        BY <2>1 DEF Worked, Unanswered, Waiting, Serving, Asking, Queued
    <2> QED BY <2>2, NothingNew
<1>5. CASE Receive(c)
    <2> DEFINE q == toCli[conn[c]]
               m == Head(q)
    <2>0. conn[c] \in Gids /\ conn[c] # None /\ q # <<>> /\ q \in Seq(ToClient)
        <3>1. pc[c] = "recv" /\ toCli[conn[c]] # <<>>
            BY <1>5 DEF Receive
        <3>2. conn[c] \in Gids
            BY <1>2, <3>1
        <3>3. toCli[conn[c]] \in Seq(ToClient)
            BY <1>2, <3>2
        <3> QED BY <1>1, <3>1, <3>2, <3>3
    <2>1. m \in ToClient /\ ch[c] \in Seq(ToClient)
        BY <1>2, <2>0, HeadTailProperties
    <2>2. /\ ch'[c] = Append(ch[c], m) /\ toCli'[conn[c]] = Tail(q)
          /\ UNCHANGED <<busy, conn, requests>>
        BY <1>2, <1>5, <2>0 DEF Receive, client, history
    <2> HIDE DEF q, m
    <2>3. Asking(c) = Of(q, "request") /\ Asking(c)' = Of(Tail(q), "request")
        BY <2>0, <2>2 DEF Asking, q
    <2>4. /\ Of(q, "request") = Of(Tail(q), "request")
                                  \cup (IF m.type = "request" THEN {m.id} ELSE {})
          /\ Rising(Tail(q), "request")
          /\ m.type = "request" => Below({m.id}, Of(Tail(q), "request"))
        <3>1. Rising(q, "request")
            BY <2>0 DEF Worked, q
        <3> QED BY <2>0, <3>1, OfTail DEF m
    <2>5. /\ Queued(c)' = Queued(c) \cup (IF m.type = "request" THEN {m.id} ELSE {})
          /\ Rising(ch'[c], "request")
        <3>1. m.type = "request" => Below(Of(ch[c], "request"), {m.id})
            BY <2>3, <2>4 DEF Worked, Below, Queued
        <3>2. Rising(ch[c], "request")
            BY DEF Worked
        <3>3. /\ Of(Append(ch[c], m), "request")
                   = Of(ch[c], "request") \cup (IF m.type = "request" THEN {m.id} ELSE {})
              /\ Rising(Append(ch[c], m), "request")
            BY ONLY <2>1, <3>1, <3>2, OfAppend
        <3> QED BY <2>2, <3>3 DEF Queued
    <2>6. Serving(c)' = Serving(c) /\ requests' = requests
        BY <2>2 DEF Serving
    <2>7. Unanswered(c)' = Unanswered(c) /\ Waiting(c)' = Waiting(c)
        BY <2>3, <2>4, <2>5, <2>6 DEF Unanswered, Waiting
    <2>8. Below(Asking(c)', {requests' + 1})
          /\ Below(Queued(c)', Asking(c)' \cup {requests' + 1})
        BY <2>3, <2>4, <2>5, <2>6 DEF Worked, Below
    <2>9. Below(Serving(c)', Waiting(c)')
        BY <2>6, <2>7 DEF Worked
    <2>10. conn'[c] # None => Rising(toCli'[conn'[c]], "request")
        BY <2>2, <2>4
    <2> QED BY <2>5, <2>7, <2>8, <2>9, <2>10, NothingNew DEF Worked
<1>6. CASE ReceiveFails(c)
    <2>1. conn'[c] = None /\ UNCHANGED <<ch, busy, requests>>
        BY <1>2, <1>6 DEF ReceiveFails, worker, history
    <2>2. Asking(c)' = {} /\ Queued(c)' = Queued(c) /\ Serving(c)' = Serving(c)
          /\ requests' = requests
        BY <2>1 DEF Asking, Queued, Serving
    <2>3. Worked(c)'
        BY <2>1, <2>2 DEF Worked, Waiting, Below
    <2>4. Unanswered(c)' \subseteq Unanswered(c)
        BY <2>2 DEF Unanswered, Waiting
    <2> QED BY <2>3, <2>4, NothingNew
<1>7. CASE WorkerTakes(c)
    <2> DEFINE m == Head(ch[c])
    <2>1. /\ ch[c] \in Seq(ToClient) /\ ch[c] # <<>> /\ m \in ToClient
          /\ busy[c] = None /\ ch'[c] = Tail(ch[c])
          /\ busy'[c] = IF m.type = "request" THEN m.id ELSE None
          /\ UNCHANGED <<toCli, conn, requests>>
        BY <1>2, <1>7 DEF WorkerTakes, client, history
    <2>2. m.id # None
        BY <1>1, <2>1, LinkAssumption DEF ToClient
    <2>3. /\ Queued(c) = Of(Tail(ch[c]), "request")
                           \cup (IF m.type = "request" THEN {m.id} ELSE {})
          /\ Rising(Tail(ch[c]), "request")
          /\ m.type = "request" => Below({m.id}, Of(Tail(ch[c]), "request"))
        BY <2>1, OfTail DEF Worked, Queued
    <2> HIDE DEF m
    <2>4. /\ Queued(c)' = Of(Tail(ch[c]), "request")
          /\ Serving(c) = {}
          /\ Serving(c)' = (IF m.type = "request" THEN {m.id} ELSE {})
          /\ Asking(c)' = Asking(c) /\ requests' = requests
        BY <2>1, <2>2 DEF Queued, Serving, Asking
    <2>5. Unanswered(c)' = Unanswered(c)
        BY <2>3, <2>4 DEF Unanswered, Waiting
    <2>6. Below(Queued(c)', Asking(c)' \cup {requests' + 1})
        BY <2>3, <2>4 DEF Worked, Below
    <2>7. Below(Serving(c)', Waiting(c)')
        BY <2>3, <2>4 DEF Worked, Below, Waiting
    <2>8. Below(Asking(c)', {requests' + 1}) /\ Rising(ch'[c], "request")
          /\ (conn'[c] # None => Rising(toCli'[conn'[c]], "request"))
        BY <2>1, <2>3, <2>4 DEF Worked
    <2> QED BY <2>5, <2>6, <2>7, <2>8, NothingNew DEF Worked
<1>8. CASE WorkerAnswers(c)
    <2>1. UNCHANGED <<ch, conn, requests, toCli>> /\ busy'[c] = None
        BY <1>2, <1>8 DEF WorkerAnswers, client, history
    <2>2. Serving(c)' = {} /\ Waiting(c)' = Waiting(c)
        BY <2>1 DEF Serving, Waiting, Asking, Queued
    <2>3. Worked(c)'
        BY <2>1, <2>2 DEF Worked, Below, Asking, Queued
    <2>4. Unanswered(c)' \subseteq Unanswered(c)
        BY <2>2 DEF Unanswered
    <2> QED BY <2>3, <2>4, NothingNew
<1> QED BY <1>3, <1>4, <1>5, <1>6, <1>7, <1>8 DEF ConnectLoop, Worker

LEMMA WorkStep ==
    ASSUME TypeOK, PairsMatch, RegisteredIsOpen, LastIsUsed, WorkedInOrder, [Next]_vars,
           NEW c \in Clients
    PROVE  Worked(c)' /\ MovesUp(c)
<1>1. Worked(c) /\ None \notin Clients /\ None \notin Gids
    BY LinkAssumption DEF WorkedInOrder, Gids
<1>2. /\ conn[c] # None => conn[c] \in Gids /\ owner[conn[c]] = c
                           /\ toCli[conn[c]] \in Seq(ToClient)
                           /\ Asking(c) = Of(toCli[conn[c]], "request")
                           /\ Rising(toCli[conn[c]], "request")
      /\ toCli \in [Gids -> Seq(ToClient)]
    BY <1>1 DEF LastIsUsed, TypeOK, ClientTypeOK, QueuesTypeOK, Asking, Worked
<1>3. CASE ConnectLoop(c) \/ Worker(c)
    BY <1>1, <1>3, OwnWorkStep
<1>4. ASSUME NEW d \in Clients, d # c, ConnectLoop(d) \/ Worker(d)
      PROVE  Worked(c)' /\ MovesUp(c)
    <2>1. /\ UNCHANGED <<ch[c], busy[c], conn[c], requests>>
        BY <1>4 DEF ConnectLoop, Worker, Dial, SendHandshake, SendExample, Receive,
             ReceiveFails, WorkerTakes, WorkerAnswers, worker, client, history,
             TypeOK, ClientTypeOK, WorkerTypeOK
    <2>2. conn[c] # None => toCli'[conn[c]] = toCli[conn[c]]
        <3>1. CASE Receive(d)
            <4>1. conn[d] \in Gids /\ owner[conn[d]] = d
                BY <3>1, <1>1 DEF Receive, TypeOK, ClientTypeOK, LastIsUsed
            <4> QED BY <1>2, <1>4, <3>1, <4>1 DEF Receive
        <3>2. CASE ~Receive(d)
            BY <1>4, <3>2 DEF ConnectLoop, Worker, Dial, SendHandshake, SendExample,
                 ReceiveFails, WorkerTakes, WorkerAnswers
        <3> QED BY <3>1, <3>2
    <2> QED BY <1>1, <1>2, <2>1, <2>2, WorkFrame
<1>5. CASE (\E g \in Gids : Server(g)) \/ (\E a \in AppIds : LuaRequests(a))
    <2>1. UNCHANGED <<ch[c], busy[c], conn[c]>> /\ requests' \in {requests, requests + 1}
        BY <1>5, ServerSends
    <2>2. CASE toCli' = toCli
        BY <1>1, <1>2, <2>1, <2>2, WorkFrame
    <2>3. ASSUME NEW h \in Gids, NEW m \in ToClient,
                 toCli' = [toCli EXCEPT ![h] = Append(@, m)],
                 m.type = "request" => m.id = requests + 1 /\ requests' = requests + 1
          PROVE  Worked(c)' /\ MovesUp(c)
        <3>1. CASE conn[c] # h \/ conn[c] = None
            <4>1. conn[c] # None => toCli'[conn[c]] = toCli[conn[c]]
                BY <1>2, <2>3, <3>1
            <4> QED BY <1>1, <1>2, <2>1, <4>1, WorkFrame
        <3>2. CASE conn[c] = h /\ conn[c] # None
            <4>1. toCli'[h] = Append(toCli[h], m) /\ toCli[h] \in Seq(ToClient)
                BY <1>2, <2>3
            <4>2. m.type = "request" => Below(Of(toCli[h], "request"), {m.id})
                BY <1>1, <1>2, <2>3, <3>2 DEF Worked, Below
            <4>3. /\ Rising(toCli'[h], "request")
                  /\ Of(toCli'[h], "request") =
                       Of(toCli[h], "request")
                         \cup (IF m.type = "request" THEN {m.id} ELSE {})
                <5>1. Rising(toCli[h], "request")
                    BY <1>2, <3>2
                <5>2. /\ Of(Append(toCli[h], m), "request")
                           = Of(toCli[h], "request")
                                \cup (IF m.type = "request" THEN {m.id} ELSE {})
                      /\ Rising(Append(toCli[h], m), "request")
                    BY ONLY <4>1, <4>2, <5>1, OfAppend
                <5> QED BY <4>1, <5>2
            <4> QED BY <1>1, <1>2, <2>1, <2>3, <3>2, <4>3, WorkFrame
        <3> QED BY <3>1, <3>2
    <2> QED BY <1>5, <2>2, <2>3, ServerSends
<1>6. ASSUME NEW g \in Gids, Break(g) PROVE Worked(c)' /\ MovesUp(c)
    <2>1. PICK j \in 0..Len(toCli[g]) : toCli' = [toCli EXCEPT ![g] = SubSeq(@, 1, j)]
        BY <1>6 DEF Break
    <2>2. UNCHANGED <<ch[c], busy[c], conn[c], requests>>
        BY <1>6 DEF Break, client, worker
    <2>3. conn[c] # None => /\ Rising(toCli'[conn[c]], "request")
                            /\ Of(toCli'[conn[c]], "request") \subseteq Asking(c)
        <3>1. CASE conn[c] = g /\ conn[c] # None
            BY <1>2, <2>1, <3>1, OfPrefix
        <3>2. CASE conn[c] # g
            BY <1>2, <2>1, <3>2
        <3> QED BY <3>1, <3>2
    <2> QED BY <1>1, <1>2, <2>2, <2>3, WorkFrame
<1>7. CASE UNCHANGED vars
    <2>1. UNCHANGED <<ch[c], busy[c], conn[c], requests, toCli>>
        BY <1>7 DEF vars, client, worker, history
    <2> QED BY <1>1, <1>2, <2>1, WorkFrame
<1> QED BY <1>3, <1>4, <1>5, <1>6, <1>7 DEF Next

UnansweredAreNumbers == \A c \in Clients : Unanswered(c) \subseteq Nat

LEMMA UnansweredNumbers == TypeOK => UnansweredAreNumbers
BY Numbers DEF UnansweredAreNumbers

LEMMA BelowUp ==
    ASSUME TypeOK, TypeOK', NEW c \in Clients, MovesUp(c), NEW S, S \subseteq Nat,
           Below(S, Unanswered(c))
    PROVE  Below(S, Unanswered(c)')
<1>1. Unanswered(c) \subseteq Nat
    BY Numbers
<1>2. TypeOK' => UnansweredAreNumbers'
    BY UnansweredNumbers, PTL
<1>3. Unanswered(c)' \subseteq Nat
    BY <1>2 DEF UnansweredAreNumbers
<1>4. ASSUME NEW k \in S, NEW n \in Unanswered(c)' PROVE k < n
    <2>1. PICK m \in Unanswered(c) : m <= n
        BY <1>4 DEF MovesUp
    <2>2. k < m /\ k \in Nat /\ m \in Nat /\ n \in Nat
        BY <1>1, <1>3, <2>1 DEF Below
    <2> QED BY <2>1, <2>2
<1> QED BY <1>4 DEF Below

\* The answers on a connection stay below what its process has to answer.
LEMMA StillBelow ==
    ASSUME TypeOK, TypeOK', SentInOrder, NEW c \in Clients, MovesUp(c),
           NEW g \in Gids, owner[g] = c
    PROVE  \A n \in Answers(g), u \in Unanswered(c)' : n < u
<1>1. \A S : S \subseteq Nat /\ Below(S, Unanswered(c)) => Below(S, Unanswered(c)')
    BY BelowUp
<1>2. Answers(g) \subseteq Nat /\ Below(Answers(g), Unanswered(c))
    BY Numbers DEF SentInOrder, Sent
<1> QED BY <1>1, <1>2 DEF Below

\* No answer is added and none changes its place.
FewerAnswers ==
    \A g \in Gids : /\ Answers(g)' \subseteq Answers(g)
                    /\ Rising(toSrv[g], "answer") => Rising(toSrv'[g], "answer")

LEMMA SentFrame ==
    ASSUME TypeOK, TypeOK', SentInOrder, FewerAnswers, UNCHANGED owner,
           \A c \in Clients : MovesUp(c)
    PROVE  SentInOrder'
<1> SUFFICES ASSUME NEW c \in Clients, NEW g \in Gids, owner[g] = c PROVE Sent(c, g)'
    BY DEF SentInOrder
<1>1. \A n \in Answers(g), u \in Unanswered(c)' : n < u
    BY StillBelow
<1>2. Sent(c, g)
    BY DEF SentInOrder
<1>3. Rising(toSrv'[g], "answer") /\ Below(Answers(g)', Unanswered(c)')
    BY <1>1, <1>2 DEF Sent, FewerAnswers, Below
<1>4. \A h \in Gids : owner[h] = c /\ h < g => Below(Answers(h)', Answers(g)')
    BY <1>2 DEF Sent, FewerAnswers, Below
<1> QED BY <1>3, <1>4 DEF Sent

\* A package to the server: what it adds to the answers of its connection.
LEMMA PutAnswers ==
    ASSUME TypeOK, NEW g \in Gids, NEW m \in ToServer,
           toSrv' = [toSrv EXCEPT ![g] = Append(@, m)]
    PROVE  /\ Answers(g)' = Answers(g) \cup (IF m.type = "answer" THEN {m.id} ELSE {})
           /\ Rising(toSrv[g], "answer") /\ (m.type = "answer" => Below(Answers(g), {m.id}))
                => Rising(toSrv'[g], "answer")
           /\ \A h \in Gids : h # g => Answers(h)' = Answers(h) /\ toSrv'[h] = toSrv[h]
<1>1. toSrv[g] \in Seq(ToServer) /\ toSrv'[g] = Append(toSrv[g], m)
      /\ \A h \in Gids : h # g => toSrv'[h] = toSrv[h]
    BY DEF TypeOK, QueuesTypeOK
<1>2. /\ Of(Append(toSrv[g], m), "answer")
           = Of(toSrv[g], "answer") \cup (IF m.type = "answer" THEN {m.id} ELSE {})
      /\ Rising(toSrv[g], "answer") /\ (m.type = "answer" => Below(Of(toSrv[g], "answer"), {m.id}))
           => Rising(Append(toSrv[g], m), "answer")
    BY ONLY <1>1, OfAppend
<1> QED BY <1>1, <1>2 DEF Answers

LEMMA SentStep ==
    ASSUME TypeOK, TypeOK', PairsMatch, RegisteredIsOpen, LastIsUsed, WorkedInOrder,
           SentInOrder, [Next]_vars
    PROVE  SentInOrder'
<1>1. None \notin Clients /\ None \notin Gids /\ None \notin Nat
    BY LinkAssumption DEF Gids
<1>2. \A c \in Clients : Worked(c)' /\ MovesUp(c)
    BY WorkStep
<1>3. /\ toSrv \in [Gids -> Seq(ToServer)] /\ Gids \subseteq Nat
      /\ owner \in [Gids -> Clients \cup {None}]
    BY DEF TypeOK, QueuesTypeOK, NetTypeOK, Gids
<1>4. CASE UNCHANGED <<toSrv, owner>>
    <2>1. FewerAnswers
        BY <1>4 DEF FewerAnswers, Answers
    <2> QED BY <1>2, <1>4, <2>1, SentFrame
<1>5. ASSUME NEW c \in Clients, Dial(c) PROVE SentInOrder'
    <2>1. PICK n \in Gids : /\ owner[n] = None /\ owner' = [owner EXCEPT ![n] = c]
                            /\ UNCHANGED toSrv /\ \A g \in Gids : owner[g] # None => g < n
        <3>1. lastGid \in Nat /\ lastGid + 1 \in Gids
            BY <1>5, LinkAssumption DEF Dial, TypeOK, NetTypeOK, Gids
        <3>2. \A g \in Gids : ~(g <= lastGid) => owner[g] = None
            BY DEF TypeOK, NetTypeOK
        <3>3. \A g \in Gids : g \in Nat /\ (g < lastGid + 1 <=> g <= lastGid)
            BY <1>3, <3>1
        <3>4. owner[lastGid + 1] = None /\ \A g \in Gids : owner[g] # None => g < lastGid + 1
            BY <3>1, <3>2, <3>3
        <3> QED BY <1>5, <3>1, <3>4 DEF Dial
    <2>2. toSrv[n] = <<>> /\ Answers(n) = {}
        BY <2>1, OfEmpty DEF LastIsUsed, Answers
    <2>3. \A g \in Gids : Answers(g)' = Answers(g)
        BY <2>1 DEF Answers
    <2>4. ASSUME NEW d \in Clients, NEW g \in Gids, owner'[g] = d PROVE Sent(d, g)'
        <3>1. CASE g = n
            BY <2>1, <2>2, <2>3, <3>1, OfEmpty DEF Sent, Below
        <3>2. CASE g # n
            <4>1. owner[g] = d /\ g < n
                BY <1>1, <1>3, <2>1, <2>4, <3>2
            <4>2. Sent(d, g) /\ \A k \in Answers(g), u \in Unanswered(d)' : k < u
                BY <1>2, <4>1, StillBelow DEF SentInOrder
            <4>3. \A h \in Gids : h < g => owner'[h] = owner[h]
                BY <1>3, <2>1, <4>1
            <4> QED BY <2>1, <2>3, <4>2, <4>3 DEF Sent, Below
        <3> QED BY <3>1, <3>2
    <2> QED BY <2>4 DEF SentInOrder
<1>6. ASSUME NEW g \in Gids, NEW m \in ToServer, m.type # "answer",
             UNCHANGED owner, toSrv' = [toSrv EXCEPT ![g] = Append(@, m)]
      PROVE  SentInOrder'
    <2>1. /\ Answers(g)' = Answers(g)
          /\ Rising(toSrv[g], "answer") => Rising(toSrv'[g], "answer")
          /\ \A h \in Gids : h # g => Answers(h)' = Answers(h) /\ toSrv'[h] = toSrv[h]
        BY <1>6, PutAnswers
    <2>2. FewerAnswers
        BY <2>1 DEF FewerAnswers
    <2> QED BY <1>2, <1>6, <2>2, SentFrame
<1>7. ASSUME NEW c \in Clients, SendHandshake(c) \/ SendExample(c)
      PROVE  SentInOrder'
    <2>1. PICK g \in Gids : g = conn[c]
        BY <1>7 DEF SendHandshake, SendExample, TypeOK, ClientTypeOK
    <2>2. PICK m \in ToServer : m.type # "answer" /\ toSrv' = Put(toSrv, g, m)
        BY <1>7, <2>1, Packages DEF SendHandshake, SendExample, Package
    <2>3. UNCHANGED owner
        BY <1>7 DEF SendHandshake, SendExample, net
    <2> QED BY <1>4, <1>6, <2>2, <2>3 DEF Put
<1>8. ASSUME NEW c \in Clients, WorkerAnswers(c) PROVE SentInOrder'
    <2>1. UNCHANGED <<owner, conn, ch, requests, toCli>> /\ busy[c] \in 0..MaxRequests
          /\ busy' = [busy EXCEPT ![c] = None]
        BY <1>8 DEF WorkerAnswers, net, client, history, TypeOK, WorkerTypeOK
    <2>2. CASE UNCHANGED toSrv
        BY <1>4, <2>1, <2>2
    <2>3. ASSUME NEW g \in Gids, NEW m \in ToServer, g = conn[c],
                 m = Package("answer", busy[c]),
                 toSrv' = [toSrv EXCEPT ![g] = Append(@, m)]
          PROVE  SentInOrder'
        <3>1. m.type = "answer" /\ m.id = busy[c]
            BY <2>3 DEF Package
        <3>2. owner[g] = c
            BY <1>1, <2>3 DEF LastIsUsed
        <3>3. busy[c] \in Serving(c) /\ busy[c] \in Unanswered(c) /\ busy[c] \in Nat
            BY <1>1, <2>1, LinkAssumption DEF Serving, Unanswered
        <3>4. \A h \in Gids : owner[h] = c => Below(Answers(h), {busy[c]})
            BY <3>3 DEF SentInOrder, Sent, Below
        <3>5. /\ Answers(g)' = Answers(g) \cup {busy[c]}
              /\ Rising(toSrv'[g], "answer")
              /\ \A h \in Gids : h # g => Answers(h)' = Answers(h) /\ toSrv'[h] = toSrv[h]
            <4>1. Rising(toSrv[g], "answer")
                BY <3>2 DEF SentInOrder, Sent
            <4>2. Below(Answers(g), {m.id})
                BY <3>1, <3>2, <3>4
            <4>3. /\ Answers(g)' = Answers(g) \cup (IF m.type = "answer" THEN {m.id} ELSE {})
                  /\ Rising(toSrv[g], "answer") /\ (m.type = "answer" => Below(Answers(g), {m.id}))
                       => Rising(toSrv'[g], "answer")
                  /\ \A h \in Gids : h # g => Answers(h)' = Answers(h) /\ toSrv'[h] = toSrv[h]
                BY <2>3, PutAnswers
            <4> QED BY <3>1, <4>1, <4>2, <4>3
        <3>6. Unanswered(c)' = Waiting(c) /\ Below({busy[c]}, Waiting(c))
            <4>1. Waiting(c)' = Waiting(c)
                BY <2>1 DEF Waiting, Asking, Queued
            <4>2. Serving(c)' = {}
                BY <2>1 DEF Serving, TypeOK, WorkerTypeOK
            <4>3. Below({busy[c]}, Waiting(c))
                BY <3>3 DEF WorkedInOrder, Worked, Below
            <4> QED BY <4>1, <4>2, <4>3 DEF Unanswered
        <3>7. ASSUME NEW d \in Clients, NEW k \in Gids, owner[k] = d
              PROVE  Sent(d, k)'
            <4>1. Sent(d, k) /\ \A n \in Answers(k), u \in Unanswered(d)' : n < u
                BY <1>2, <3>7, StillBelow DEF SentInOrder
            <4>2. CASE k = g
                <5>1. d = c
                    BY <3>2, <3>7, <4>2
                <5>2. Below(Answers(k)', Unanswered(d)')
                    BY <3>5, <3>6, <4>1, <4>2, <5>1 DEF Below
                <5>3. \A h \in Gids : owner[h] = d /\ h < k => Below(Answers(h)', Answers(k)')
                    BY <1>3, <3>4, <3>5, <4>1, <4>2, <5>1 DEF Sent, Below
                <5> QED BY <2>1, <3>5, <4>2, <5>2, <5>3 DEF Sent
            <4>3. CASE k # g
                <5>1. d = c => k <= g
                    BY <1>1, <2>3, <3>7 DEF LastIsUsed
                <5>2. \A h \in Gids : owner[h] = d /\ h < k => h # g
                    BY <1>3, <3>2, <5>1
                <5> QED BY <2>1, <3>5, <4>1, <4>3, <5>2 DEF Sent, Below
            <4> QED BY <4>2, <4>3
        <3> QED BY <2>1, <3>7 DEF SentInOrder
    <2>4. conn[c] # None => conn[c] \in Gids /\ Package("answer", busy[c]) \in ToServer
        BY <2>1, Packages DEF TypeOK, ClientTypeOK, Package
    <2> QED BY <1>8, <2>2, <2>3, <2>4 DEF WorkerAnswers, Put
<1>9. ASSUME NEW g \in Gids, NEW t, Takes(g, t), UNCHANGED owner PROVE SentInOrder'
    <2>1. /\ toSrv[g] \in Seq(ToServer) /\ toSrv[g] # <<>>
          /\ toSrv'[g] = Tail(toSrv[g]) /\ \A h \in Gids : h # g => toSrv'[h] = toSrv[h]
        BY <1>3, <1>9 DEF Takes
    <2>2. /\ Of(Tail(toSrv[g]), "answer") \subseteq Of(toSrv[g], "answer")
          /\ Rising(toSrv[g], "answer") => Rising(Tail(toSrv[g]), "answer")
        <3>1. Of(toSrv[g], "answer") = Of(Tail(toSrv[g]), "answer") \cup
                (IF Head(toSrv[g]).type = "answer" THEN {Head(toSrv[g]).id} ELSE {})
            BY <2>1, OfTail
        <3>2. Rising(toSrv[g], "answer") => Rising(Tail(toSrv[g]), "answer")
            BY <2>1, OfTail
        <3> QED BY <3>1, <3>2
    <2>3. FewerAnswers
        BY <2>1, <2>2 DEF FewerAnswers, Answers
    <2> QED BY <1>2, <1>9, <2>3, SentFrame
<1>10. ASSUME NEW g \in Gids, Break(g) PROVE SentInOrder'
    <2>1. PICK i \in 0..Len(toSrv[g]) : toSrv' = [toSrv EXCEPT ![g] = SubSeq(@, 1, i)]
        BY <1>10 DEF Break
    <2>2. /\ toSrv[g] \in Seq(ToServer) /\ toSrv'[g] = SubSeq(toSrv[g], 1, i)
          /\ \A h \in Gids : h # g => toSrv'[h] = toSrv[h]
        BY <1>3, <2>1
    <2>3. /\ Of(SubSeq(toSrv[g], 1, i), "answer") \subseteq Of(toSrv[g], "answer")
          /\ Rising(toSrv[g], "answer") => Rising(SubSeq(toSrv[g], 1, i), "answer")
        BY <2>2, OfPrefix
    <2>4. FewerAnswers
        BY <2>2, <2>3 DEF FewerAnswers, Answers
    <2> QED BY <1>2, <1>10, <2>4, SentFrame DEF Break
<1>11. ASSUME NEW c \in Clients, ConnectLoop(c) \/ Worker(c) PROVE SentInOrder'
    BY <1>4, <1>5, <1>7, <1>8, <1>11
       DEF ConnectLoop, Worker, Receive, ReceiveFails, WorkerTakes, net
<1>12. ASSUME NEW g \in Gids, Server(g) PROVE SentInOrder'
    BY <1>4, <1>9, <1>12
       DEF Server, Accept, OnHandshake, OnExample, OnAnswer, OnClose, net
<1>13. ASSUME NEW a \in AppIds, LuaRequests(a) PROVE SentInOrder'
    BY <1>4, <1>13 DEF LuaRequests, net
<1>14. CASE UNCHANGED vars
    BY <1>4, <1>14 DEF vars, net
<1> QED BY <1>10, <1>11, <1>12, <1>13, <1>14 DEF Next

\* A connection is registered for the application of the process that dialled it.
LEMMA OwnerStep ==
    ASSUME TypeOK, RegisteredIsOpen, RegisteredByOwner, [Next]_vars
    PROVE  RegisteredByOwner'
<1>1. ASSUME NEW c \in Clients, Dial(c) PROVE RegisteredByOwner'
    <2>1. \A g \in Gids : gid2appid[g] # None => g <= lastGid
        BY DEF RegisteredIsOpen, TypeOK, NetTypeOK
    <2>2. lastGid \in Nat
        BY LinkAssumption DEF TypeOK, NetTypeOK
    <2>3. \A g \in Gids : gid2appid[g] # None => g # lastGid + 1
        BY <2>1, <2>2
    <2>4. UNCHANGED gid2appid /\ owner' = [owner EXCEPT ![lastGid + 1] = c]
        BY <1>1 DEF Dial, tables
    <2> QED BY <2>3, <2>4 DEF RegisteredByOwner, TypeOK, NetTypeOK
<1>2. ASSUME ~(\E c \in Clients : Dial(c)) PROVE UNCHANGED owner
    <2>1. ASSUME NEW c \in Clients, ConnectLoop(c) \/ Worker(c) PROVE UNCHANGED owner
        BY <1>2, <2>1 DEF ConnectLoop, Worker, SendHandshake, SendExample, Receive,
            ReceiveFails, WorkerTakes, WorkerAnswers, net
    <2>2. ASSUME NEW g \in Gids, Server(g) \/ Break(g) PROVE UNCHANGED owner
        BY <2>2 DEF Server, Accept, OnHandshake, OnExample, OnAnswer, OnClose, Break, net
    <2>3. ASSUME NEW a \in AppIds, LuaRequests(a) PROVE UNCHANGED owner
        BY <2>3 DEF LuaRequests, net
    <2>4. CASE UNCHANGED vars
        BY <2>4 DEF vars, net
    <2> QED BY <2>1, <2>2, <2>3, <2>4 DEF Next
<1>3. ASSUME NEW g \in Gids, Accept(g) \/ OnHandshake(g) \/ OnClose(g), UNCHANGED owner
      PROVE  RegisteredByOwner'
    <2>1. CASE UNCHANGED tables
        BY <1>3, <2>1 DEF RegisteredByOwner, tables
    <2>2. CASE gid2appid' = [gid2appid EXCEPT ![g] = AppOf[owner[g]]]
        BY <1>3, <2>2 DEF RegisteredByOwner, TypeOK, TablesTypeOK
    <2>3. CASE gid2appid' = [gid2appid EXCEPT ![g] = None]
        BY <1>3, <2>3 DEF RegisteredByOwner, TypeOK, TablesTypeOK
    <2> QED BY <1>3, <2>1, <2>2, <2>3 DEF Accept, OnHandshake, OnClose, Register, Unregister
<1>4. CASE UNCHANGED <<tables, srv>> /\ UNCHANGED owner
    BY <1>4 DEF RegisteredByOwner, tables
<1> QED BY <1>1, <1>2, <1>3, <1>4, TableChanges

\* What a package more, or one less, makes of the packages of each type.
LEMMA OneMore ==
    ASSUME TypeOK, NEW g \in Gids, NEW m \in ToServer,
           toSrv' = [toSrv EXCEPT ![g] = Append(@, m)], NEW t
    PROVE  /\ Of(toSrv'[g], t) = Of(toSrv[g], t) \cup (IF m.type = t THEN {m.id} ELSE {})
           /\ \A h \in Gids : h # g => toSrv'[h] = toSrv[h]
<1>1. toSrv[g] \in Seq(ToServer) /\ toSrv'[g] = Append(toSrv[g], m)
      /\ \A h \in Gids : h # g => toSrv'[h] = toSrv[h]
    BY DEF TypeOK, QueuesTypeOK
<1>2. /\ Of(Append(toSrv[g], m), t) = Of(toSrv[g], t) \cup (IF m.type = t THEN {m.id} ELSE {})
      /\ Rising(toSrv[g], t) /\ (m.type = t => Below(Of(toSrv[g], t), {m.id}))
           => Rising(Append(toSrv[g], m), t)
    BY <1>1, OfAppend
<1> QED BY <1>1, <1>2

LEMMA OneLess ==
    ASSUME TypeOK, NEW g \in Gids, NEW u, Takes(g, u), NEW t
    PROVE  /\ Of(toSrv[g], t) = Of(toSrv'[g], t) \cup
                 (IF Head(toSrv[g]).type = t THEN {Head(toSrv[g]).id} ELSE {})
           /\ Rising(toSrv[g], t) /\ Head(toSrv[g]).type = t
                => Below({Head(toSrv[g]).id}, Of(toSrv'[g], t))
           /\ \A h \in Gids : h # g => toSrv'[h] = toSrv[h]
<1>1. toSrv[g] \in Seq(ToServer) /\ toSrv[g] # <<>> /\ toSrv'[g] = Tail(toSrv[g])
      /\ \A h \in Gids : h # g => toSrv'[h] = toSrv[h]
    BY DEF TypeOK, QueuesTypeOK, Takes
<1>2. Of(toSrv[g], t) = Of(Tail(toSrv[g]), t) \cup
          (IF Head(toSrv[g]).type = t THEN {Head(toSrv[g]).id} ELSE {})
    BY <1>1, OfTail
<1>3. Rising(toSrv[g], t) /\ Head(toSrv[g]).type = t
        => Below({Head(toSrv[g]).id}, Of(Tail(toSrv[g]), t))
    BY <1>1, OfTail
<1> QED BY <1>1, <1>2, <1>3

\* Nothing is told.  What may be delivered could be before, and what is new
\* among it was unanswered.
LEMMA ToldFrame ==
    ASSUME TypeOK, TypeOK', ToldInOrder, UNCHANGED delivered,
           \A c \in Clients : MovesUp(c),
           \A c \in Clients, g \in Gids :
             owner'[g] = c /\ MayDeliver(g)' =>
               \/ Answers(g)' = {}
               \/ /\ owner[g] = c /\ MayDeliver(g)
                  /\ Answers(g)' \subseteq Answers(g) \cup Unanswered(c)
    PROVE  ToldInOrder'
<1>1. RequestOrder' /\ \A c \in Clients : Told(c)' = Told(c)
    BY DEF ToldInOrder, RequestOrder, Told
<1>2. ASSUME NEW c \in Clients PROVE Below(Told(c)', Unanswered(c)')
    <2>1. \A S : S \subseteq Nat /\ Below(S, Unanswered(c)) => Below(S, Unanswered(c)')
        BY BelowUp
    <2>2. Told(c) \subseteq Nat /\ Below(Told(c), Unanswered(c))
        BY Numbers DEF ToldInOrder
    <2> QED BY <1>1, <2>1, <2>2
<1>3. ASSUME NEW c \in Clients, NEW g \in Gids, owner'[g] = c, MayDeliver(g)'
      PROVE  Below(Told(c)', Answers(g)')
    <2>1. CASE Answers(g)' = {}
        BY <2>1 DEF Below
    <2>2. CASE /\ owner[g] = c /\ MayDeliver(g)
               /\ Answers(g)' \subseteq Answers(g) \cup Unanswered(c)
        <3>1. Below(Told(c), Unanswered(c)) /\ Below(Told(c), Answers(g))
            BY <2>2 DEF ToldInOrder
        <3> QED BY <1>1, <2>2, <3>1 DEF Below
    <2> QED BY <1>3, <2>1, <2>2
<1> QED BY <1>1, <1>2, <1>3 DEF ToldInOrder

\* An answer is handed to the VM: no older connection of its process can
\* deliver any more, for its handshake is neither on the way nor to be sent.
LEMMA AnswerTold ==
    ASSUME TypeOK, TypeOK', PairsMatch, LastIsUsed, RegisteredByOwner, SentInOrder,
           ToldInOrder, HandshakesAreOrdered, \A c \in Clients : MovesUp(c),
           NEW g \in Gids, OnAnswer(g), gid2appid[g] # None, owner[g] \in Clients
    PROVE  ToldInOrder'
<1> DEFINE k == Head(toSrv[g]).id
<1>1. PICK c \in Clients : owner[g] = c
    OBVIOUS
<1>2. /\ Takes(g, "answer") /\ UNCHANGED <<owner, conn, pc, gid2appid>>
      /\ delivered' = Append(delivered, [client |-> c, id |-> k])
    BY <1>1 DEF OnAnswer, net, client, tables
<1>3. /\ Head(toSrv[g]).type = "answer"
      /\ Answers(g) = Answers(g)' \cup {k}
      /\ Below({k}, Answers(g)')
      /\ Of(toSrv'[g], "handshake") \subseteq Of(toSrv[g], "handshake")
      /\ \A h \in Gids : h # g => toSrv'[h] = toSrv[h]
    <2>1. Head(toSrv[g]).type = "answer"
        BY <1>2 DEF Takes
    <2>2. Rising(toSrv[g], "answer")
        BY <1>1 DEF SentInOrder, Sent
    <2>3. \A t : /\ Of(toSrv[g], t) = Of(toSrv'[g], t) \cup
                        (IF Head(toSrv[g]).type = t THEN {Head(toSrv[g]).id} ELSE {})
                 /\ Rising(toSrv[g], t) /\ Head(toSrv[g]).type = t
                      => Below({Head(toSrv[g]).id}, Of(toSrv'[g], t))
                 /\ \A h \in Gids : h # g => toSrv'[h] = toSrv[h]
        BY <1>2, OneLess
    <2> QED BY <2>1, <2>2, <2>3 DEF Answers
<1> HIDE DEF k
<1>4. /\ Told(c)' = Told(c) \cup {k}
      /\ \A d \in Clients : d # c => Told(d)' = Told(d)
      /\ RequestOrder /\ Below(Told(c), {k}) => RequestOrder'
    <2> DEFINE S == [client : Clients, id : 0..MaxRequests]
               m == [client |-> c, id |-> k]
    <2>1. /\ delivered \in Seq(S) /\ m.client = c /\ m.id = k
        BY DEF TypeOK, HistoryTypeOK
    <2>2. m \in S
        <3>1. delivered' \in Seq(S)
            BY DEF TypeOK, HistoryTypeOK
        <3>2. toSrv[g] \in Seq(ToServer) /\ toSrv[g] # <<>>
            BY <1>2 DEF TypeOK, QueuesTypeOK, Takes
        <3>3. Head(toSrv[g]) \in ToServer
            BY <3>2
        <3> QED BY <3>3 DEF k, ToServer
    <2> HIDE DEF S, m
    <2>3. /\ Len(delivered) \in Nat /\ DOMAIN delivered = 1..Len(delivered)
          /\ DOMAIN delivered' = 1..(Len(delivered) + 1)
          /\ \A i \in 1..Len(delivered) : delivered'[i] = delivered[i]
          /\ delivered'[Len(delivered) + 1] = m
        <3>1. delivered' = Append(delivered, m)
            BY <1>2 DEF m
        <3> QED BY <2>1, <2>2, <3>1, AppendProperties
    <2>4. Told(c)' = Told(c) \cup {k} /\ \A d \in Clients : d # c => Told(d)' = Told(d)
        BY <2>1, <2>3 DEF Told
    <2>5. ASSUME RequestOrder, Below(Told(c), {k}) PROVE RequestOrder'
        <3> SUFFICES ASSUME NEW i \in DOMAIN delivered', NEW j \in DOMAIN delivered', i < j,
                            delivered'[i].client = delivered'[j].client
                     PROVE  delivered'[i].id < delivered'[j].id
            BY DEF RequestOrder
        <3>1. CASE j \in 1..Len(delivered)
            BY <2>3, <2>5, <3>1 DEF RequestOrder
        <3>2. CASE j = Len(delivered) + 1
            <4>1. i \in DOMAIN delivered /\ delivered'[i] = delivered[i] /\ delivered'[j] = m
                BY <2>3, <3>2
            <4>2. delivered[i].id \in Told(c)
                BY <2>1, <4>1 DEF Told
            <4> QED BY <2>1, <2>5, <4>1, <4>2 DEF Below
        <3> QED BY <2>3, <3>1, <3>2
    <2> QED BY <2>4, <2>5
<1>5. /\ k \in Answers(g) /\ Below(Told(c), Answers(g)) /\ Below(Told(c), {k})
    <2>1. MayDeliver(g)
        BY DEF MayDeliver
    <2> QED BY <1>1, <1>3, <2>1 DEF ToldInOrder, Below
<1>6. ASSUME NEW d \in Clients PROVE Below(Told(d)', Unanswered(d)')
    <2>1. Below(Told(d), Unanswered(d)')
        <3>1. \A S : S \subseteq Nat /\ Below(S, Unanswered(d)) => Below(S, Unanswered(d)')
            BY BelowUp
        <3>2. Told(d) \subseteq Nat /\ Below(Told(d), Unanswered(d))
            BY Numbers DEF ToldInOrder
        <3> QED BY <3>1, <3>2
    <2>2. CASE d = c
        <3>1. \A n \in Answers(g), u \in Unanswered(c)' : n < u
            BY <1>1, StillBelow
        <3> QED BY <1>4, <1>5, <2>1, <2>2, <3>1 DEF Below
    <2> QED BY <1>4, <2>1, <2>2
<1>7. ASSUME NEW d \in Clients, NEW h \in Gids, owner'[h] = d, MayDeliver(h)'
      PROVE  Below(Told(d)', Answers(h)')
    <2>1. owner[h] = d
        BY <1>2, <1>7
    <2>2. Answers(h)' \subseteq Answers(h) /\ MayDeliver(h)
        BY <1>2, <1>3, <1>7 DEF MayDeliver, Answers
    <2>3. Below(Told(d), Answers(h)')
        BY <2>1, <2>2 DEF ToldInOrder, Below
    <2>4. CASE d # c
        BY <1>4, <2>3, <2>4
    <2>5. CASE d = c
        <3>1. CASE h = g
            BY <1>3, <1>4, <2>3, <2>5, <3>1 DEF Below
        <3>2. CASE h # g
            <4>1. ~(h < g)
                <5> SUFFICES ASSUME h < g PROVE FALSE
                    OBVIOUS
                <5>1. \A i \in DOMAIN toSrv[h] : toSrv[h][i].type # "handshake"
                    BY <1>1, <2>1, <2>5 DEF HandshakesAreOrdered
                <5>2. Of(toSrv[h], "handshake") = {}
                    BY <5>1 DEF Of
                <5>3. gid2appid[h] = None
                    <6> SUFFICES ASSUME gid2appid[h] # None PROVE FALSE
                        OBVIOUS
                    <6>1. gid2appid[h] = gid2appid[g] /\ gid2appid[g] \in AppIds
                        BY <1>1, <2>1, <2>5 DEF RegisteredByOwner, TypeOK, TablesTypeOK
                    <6> QED BY <3>2, <6>1 DEF PairsMatch
                <5>4. conn[c] # h
                    <6>1. conn[c] # None => g <= conn[c]
                        BY <1>1, LinkAssumption DEF LastIsUsed
                    <6>2. h \in Nat /\ g \in Nat /\ h # None
                        BY LinkAssumption DEF Gids
                    <6> QED BY <6>1, <6>2
                <5> QED BY <2>1, <2>2, <2>5, <5>2, <5>3, <5>4 DEF MayDeliver
            <4>2. g < h
                BY <3>2, <4>1 DEF Gids
            <4>3. Below(Answers(g), Answers(h))
                BY <1>1, <2>1, <2>5, <4>2 DEF SentInOrder, Sent
            <4> QED BY <1>4, <1>5, <2>2, <2>3, <2>5, <4>3 DEF Below
        <3> QED BY <3>1, <3>2
    <2> QED BY <2>4, <2>5
<1> QED BY <1>4, <1>5, <1>6, <1>7 DEF ToldInOrder

LEMMA ToldStep ==
    ASSUME TypeOK, TypeOK', PairsMatch, RegisteredIsOpen, LastIsUsed, RegisteredByOwner,
           WorkedInOrder, SentInOrder, ToldInOrder, HandshakesAreOrdered, [Next]_vars
    PROVE  ToldInOrder'
<1>1. None \notin Clients /\ None \notin Gids /\ None \notin Nat
    BY LinkAssumption DEF Gids
<1>2. \A c \in Clients : MovesUp(c)
    BY WorkStep
<1>3. /\ owner \in [Gids -> Clients \cup {None}] /\ Gids \subseteq Nat
      /\ gid2appid \in [Gids -> AppIds \cup {None}]
    BY DEF TypeOK, NetTypeOK, TablesTypeOK, Gids
<1>4. CASE /\ UNCHANGED <<delivered, owner>>
           /\ \A g \in Gids : owner[g] # None /\ MayDeliver(g)' =>
                MayDeliver(g) /\ Answers(g)' \subseteq Answers(g) \cup Unanswered(owner[g])
    <2>1. ASSUME NEW c \in Clients, NEW g \in Gids, owner'[g] = c, MayDeliver(g)'
          PROVE  /\ owner[g] = c /\ MayDeliver(g)
                 /\ Answers(g)' \subseteq Answers(g) \cup Unanswered(c)
        BY <1>1, <1>4, <2>1
    <2> QED BY <1>2, <1>4, <2>1, ToldFrame
<1>5. CASE UNCHANGED <<delivered, owner, toSrv>> /\ \A g \in Gids : MayDeliver(g)' => MayDeliver(g)
    BY <1>4, <1>5 DEF Answers
<1>6. ASSUME NEW c \in Clients, Dial(c) PROVE ToldInOrder'
    <2>1. PICK n \in Gids : /\ owner[n] = None /\ owner' = [owner EXCEPT ![n] = c]
                            /\ UNCHANGED <<toSrv, gid2appid, delivered>>
                            /\ conn' = [conn EXCEPT ![c] = n]
                            /\ pc' = [pc EXCEPT ![c] = "handshake"]
        <3>1. lastGid + 1 \in Gids /\ owner[lastGid + 1] = None
            BY <1>6, LinkAssumption DEF Dial, TypeOK, NetTypeOK, Gids
        <3> QED BY <1>6, <3>1 DEF Dial, tables, history
    <2>2. toSrv[n] = <<>> /\ Answers(n)' = {}
        BY <2>1, OfEmpty DEF LastIsUsed, Answers
    <2>3. ASSUME NEW d \in Clients, NEW g \in Gids, owner'[g] = d, MayDeliver(g)', g # n
          PROVE  owner[g] = d /\ MayDeliver(g) /\ Answers(g)' = Answers(g)
        <3>1. owner[g] = d /\ owner'[g] = d
            BY <1>3, <2>1, <2>3
        <3>2. d # c => pc'[d] = pc[d] /\ conn'[d] = conn[d]
            BY <2>1 DEF TypeOK, ClientTypeOK
        <3>3. d = c => conn'[d] = n
            BY <2>1 DEF TypeOK, ClientTypeOK
        <3> QED BY <2>1, <2>3, <3>1, <3>2, <3>3 DEF MayDeliver, Answers
    <2> QED BY <1>2, <2>1, <2>2, <2>3, ToldFrame
<1>7. ASSUME NEW c \in Clients, SendHandshake(c) \/ SendExample(c) PROVE ToldInOrder'
    <2>1. /\ UNCHANGED <<delivered, owner, conn, gid2appid>> /\ conn[c] \in Gids
          /\ pc' = [pc EXCEPT ![c] = IF pc[c] = "handshake" THEN "example" ELSE "recv"]
          /\ pc[c] \in {"handshake", "example"}
        BY <1>7 DEF SendHandshake, SendExample, net, tables, history, TypeOK, ClientTypeOK
    <2>2. PICK g \in Gids : g = conn[c]
        BY <2>1
    <2>3. owner[g] = c
        BY <1>1, <2>2 DEF LastIsUsed
    <2>4. \A d \in Clients : pc'[d] = "handshake" => pc[d] = "handshake"
        BY <2>1 DEF TypeOK, ClientTypeOK
    <2>5. CASE UNCHANGED toSrv
        <3>1. \A h \in Gids : owner[h] \in Clients /\ MayDeliver(h)' => MayDeliver(h)
            BY <2>1, <2>4, <2>5 DEF MayDeliver
        <3>2. \A h \in Gids : Answers(h)' = Answers(h)
            BY <2>5 DEF Answers
        <3> QED BY <1>3, <1>4, <2>1, <3>1, <3>2
    <2>6. ASSUME NEW m \in ToServer, toSrv' = [toSrv EXCEPT ![g] = Append(@, m)],
                 m.type # "answer", m.type = "handshake" => pc[c] = "handshake"
          PROVE  ToldInOrder'
        <3>1. \A t : /\ Of(toSrv'[g], t) = Of(toSrv[g], t) \cup (IF m.type = t THEN {m.id} ELSE {})
                     /\ \A h \in Gids : h # g => toSrv'[h] = toSrv[h]
            BY <2>6, OneMore
        <3>2. ASSUME NEW h \in Gids, owner[h] # None, MayDeliver(h)'
              PROVE  MayDeliver(h) /\ Answers(h)' \subseteq Answers(h) \cup Unanswered(owner[h])
            <4>1. Answers(h)' = Answers(h)
                BY <2>6, <3>1 DEF Answers
            <4>2. owner[h] \in Clients
                BY <1>3, <3>2
            <4>3. CASE h # g \/ m.type # "handshake"
                <5>1. Of(toSrv'[h], "handshake") = Of(toSrv[h], "handshake")
                    BY <3>1, <4>3
                <5> QED BY <2>1, <2>4, <3>2, <4>1, <4>2, <5>1 DEF MayDeliver
            <4>4. CASE h = g /\ m.type = "handshake"
                BY <2>2, <2>3, <2>6, <4>1, <4>4 DEF MayDeliver
            <4> QED BY <4>3, <4>4
        <3> QED BY <1>4, <2>1, <3>2
    <2>7. PICK m \in ToServer : /\ toSrv' = Put(toSrv, g, m) /\ m.type # "answer"
                                /\ m.type = "handshake" => pc[c] = "handshake"
        BY <1>7, <2>2, Packages DEF SendHandshake, SendExample, Package
    <2> QED BY <2>5, <2>6, <2>7 DEF Put
<1>8. ASSUME NEW c \in Clients, WorkerAnswers(c) PROVE ToldInOrder'
    <2>1. UNCHANGED <<owner, conn, pc, delivered, gid2appid>> /\ busy[c] \in 0..MaxRequests
          /\ busy[c] \in Unanswered(c)
        BY <1>8 DEF WorkerAnswers, net, client, history, tables, TypeOK, WorkerTypeOK,
                    Unanswered, Serving
    <2>2. CASE UNCHANGED toSrv
        BY <1>5, <2>1, <2>2 DEF MayDeliver
    <2>3. ASSUME NEW g \in Gids, NEW m \in ToServer, g = conn[c],
                 m = Package("answer", busy[c]),
                 toSrv' = [toSrv EXCEPT ![g] = Append(@, m)]
          PROVE  ToldInOrder'
        <3>1. m.type = "answer" /\ m.id = busy[c] /\ owner[g] = c
            BY <1>1, <2>3 DEF Package, LastIsUsed
        <3>2. \A t : /\ Of(toSrv'[g], t) = Of(toSrv[g], t) \cup (IF m.type = t THEN {m.id} ELSE {})
                     /\ \A h \in Gids : h # g => toSrv'[h] = toSrv[h]
            BY <2>3, OneMore
        <3>3. ASSUME NEW h \in Gids, owner[h] # None, MayDeliver(h)'
              PROVE  MayDeliver(h) /\ Answers(h)' \subseteq Answers(h) \cup Unanswered(owner[h])
            <4>1. Of(toSrv'[h], "handshake") = Of(toSrv[h], "handshake")
                BY <3>1, <3>2
            <4>2. MayDeliver(h)
                BY <2>1, <3>3, <4>1 DEF MayDeliver
            <4>3. Answers(h)' \subseteq Answers(h) \cup Unanswered(owner[h])
                BY <2>1, <3>1, <3>2 DEF Answers
            <4> QED BY <4>2, <4>3
        <3> QED BY <1>4, <2>1, <3>3
    <2>4. conn[c] # None => conn[c] \in Gids /\ Package("answer", busy[c]) \in ToServer
        BY <2>1, Packages DEF TypeOK, ClientTypeOK, Package
    <2> QED BY <1>8, <2>2, <2>3, <2>4 DEF WorkerAnswers, Put
<1>9. ASSUME NEW g \in Gids, NEW t, Takes(g, t), UNCHANGED <<owner, conn, pc, delivered>>,
             \A h \in Gids : gid2appid'[h] # None =>
               gid2appid[h] # None \/ (h = g /\ t = "handshake")
      PROVE  ToldInOrder'
    <2>1. \A u : /\ Of(toSrv[g], u) = Of(toSrv'[g], u) \cup
                      (IF Head(toSrv[g]).type = u THEN {Head(toSrv[g]).id} ELSE {})
                 /\ \A h \in Gids : h # g => toSrv'[h] = toSrv[h]
        BY <1>9, OneLess
    <2>2. \A h \in Gids : \A u : Of(toSrv'[h], u) \subseteq Of(toSrv[h], u)
        BY <2>1
    <2>3. t = "handshake" => Of(toSrv[g], "handshake") # {}
        BY <1>9, <2>1 DEF Takes
    <2>4. \A h \in Gids : MayDeliver(h)' => MayDeliver(h)
        BY <1>9, <2>2, <2>3 DEF MayDeliver
    <2> QED BY <1>4, <1>9, <2>2, <2>4 DEF Answers
<1>10. ASSUME NEW g \in Gids, Break(g) PROVE ToldInOrder'
    <2>1. PICK i \in 0..Len(toSrv[g]) : toSrv' = [toSrv EXCEPT ![g] = SubSeq(@, 1, i)]
        BY <1>10 DEF Break
    <2>2. /\ toSrv[g] \in Seq(ToServer) /\ toSrv'[g] = SubSeq(toSrv[g], 1, i)
          /\ \A h \in Gids : h # g => toSrv'[h] = toSrv[h]
        BY <2>1 DEF TypeOK, QueuesTypeOK
    <2>3. \A u : Of(SubSeq(toSrv[g], 1, i), u) \subseteq Of(toSrv[g], u)
        BY <2>2, OfPrefix
    <2>4. \A h \in Gids : \A u : Of(toSrv'[h], u) \subseteq Of(toSrv[h], u)
        BY <2>2, <2>3
    <2>5. UNCHANGED <<owner, conn, pc, delivered, gid2appid>>
        BY <1>10 DEF Break, client, tables
    <2>6. \A h \in Gids : MayDeliver(h)' => MayDeliver(h)
        BY <2>4, <2>5 DEF MayDeliver
    <2> QED BY <1>4, <2>4, <2>5, <2>6 DEF Answers
<1>11. ASSUME NEW c \in Clients, Receive(c) \/ ReceiveFails(c) \/ WorkerTakes(c)
       PROVE  ToldInOrder'
    <2>1. /\ UNCHANGED <<owner, delivered, gid2appid, toSrv>>
          /\ \A d \in Clients : pc'[d] = "handshake" => pc[d] = "handshake" /\ conn'[d] = conn[d]
        BY <1>11 DEF Receive, ReceiveFails, WorkerTakes, net, client, history, tables,
                     TypeOK, ClientTypeOK
    <2>2. \A g \in Gids : owner[g] \in Clients /\ MayDeliver(g)' => MayDeliver(g)
        BY <2>1 DEF MayDeliver
    <2>3. \A g \in Gids : Answers(g)' = Answers(g)
        BY <2>1 DEF Answers
    <2> QED BY <1>3, <1>4, <2>1, <2>2, <2>3
<1>12. ASSUME NEW g \in Gids, Accept(g) \/ OnClose(g) PROVE ToldInOrder'
    <2>1. /\ UNCHANGED <<owner, delivered, conn, pc, toSrv>>
          /\ \A h \in Gids : gid2appid'[h] # None => gid2appid[h] # None
        BY <1>3, <1>12 DEF Accept, OnClose, Unregister, net, client, history, tables
    <2> QED BY <1>5, <2>1 DEF MayDeliver
<1>13. ASSUME NEW g \in Gids, OnHandshake(g) PROVE ToldInOrder'
    <2>1. \A h \in Gids : gid2appid'[h] # None => gid2appid[h] # None \/ h = g
        BY <1>3, <1>13 DEF OnHandshake, Register, tables
    <2> QED BY <1>9, <1>13, <2>1 DEF OnHandshake, net, client, history
<1>14. ASSUME NEW g \in Gids, OnExample(g) PROVE ToldInOrder'
    BY <1>9, <1>14 DEF OnExample, tables, net, client, history
<1>15. ASSUME NEW g \in Gids, OnAnswer(g) PROVE ToldInOrder'
    <2>1. CASE gid2appid[g] = None
        BY <1>9, <1>15, <2>1 DEF OnAnswer, tables, net, client, history
    <2>2. CASE gid2appid[g] # None
        <3>1. owner[g] \in Clients
            BY <2>2, Owners DEF RegisteredIsOpen
        <3> QED BY <1>2, <1>15, <2>2, <3>1, AnswerTold
    <2> QED BY <2>1, <2>2
<1>16. ASSUME NEW a \in AppIds, LuaRequests(a) PROVE ToldInOrder'
    BY <1>5, <1>16 DEF LuaRequests, tables, net, client, MayDeliver
<1>17. CASE UNCHANGED vars
    BY <1>5, <1>17 DEF vars, tables, net, client, history, MayDeliver
<1>18. ASSUME NEW c \in Clients, ConnectLoop(c) \/ Worker(c) PROVE ToldInOrder'
    BY <1>6, <1>7, <1>8, <1>11, <1>18 DEF ConnectLoop, Worker
<1>19. ASSUME NEW g \in Gids, Server(g) PROVE ToldInOrder'
    BY <1>12, <1>13, <1>14, <1>15, <1>19 DEF Server
<1> QED BY <1>10, <1>16, <1>17, <1>18, <1>19 DEF Next

\* At the start nothing is on its way.
LEMMA OrderInit ==
    Init => RegisteredByOwner /\ WorkedInOrder /\ SentInOrder /\ ToldInOrder
<1> SUFFICES ASSUME Init
             PROVE  RegisteredByOwner /\ WorkedInOrder /\ SentInOrder /\ ToldInOrder
    OBVIOUS
<1>1. /\ \A c \in Clients : /\ conn[c] = None /\ ch[c] = <<>> /\ busy[c] = None
                            /\ Asking(c) = {} /\ Queued(c) = {} /\ Serving(c) = {}
      /\ \A c \in Clients : Told(c) = {}
    BY OfEmpty DEF Init, Asking, Queued, Serving, Told
<1>2. RegisteredByOwner
    BY DEF Init, RegisteredByOwner
<1>3. WorkedInOrder
    BY <1>1, OfEmpty DEF WorkedInOrder, Worked, Below
<1>4. SentInOrder
    BY LinkAssumption DEF Init, SentInOrder
<1>5. ToldInOrder
    BY <1>1, LinkAssumption DEF Init, ToldInOrder, RequestOrder, Below
<1> QED BY <1>2, <1>3, <1>4, <1>5

-----------------------------------------------------------------------------
(* The theorems *)

\* The variables keep their types; among them, the channel never holds more
\* than its capacity and gids are dealt out in order.
THEOREM TypeCorrect == Spec => []TypeOK
<1>1. TypeOK /\ [Next]_vars => TypeOK'
    BY TypeStep
<1> QED BY <1>1, InitTypeOK, PTL DEF Spec

\* authenticated_ipc_pair's two maps are inverse in every reachable state,
\* even if the server learns of closes in any order.
THEOREM PairsCorrect == Spec => []PairsMatch
<1>1. Init => PairsMatch
    BY LinkAssumption DEF Init, PairsMatch, Gids
<1>2. TypeOK /\ PairsMatch /\ [Next]_vars => PairsMatch'
    BY PairsStep
<1> QED BY <1>1, <1>2, TypeCorrect, PTL DEF Spec

\* A registered connection is one the server still has.
THEOREM RegisteredCorrect == Spec => []RegisteredIsOpen
<1>1. Init => RegisteredIsOpen
    BY DEF Init, RegisteredIsOpen
<1>2. TypeOK /\ RegisteredIsOpen /\ [Next]_vars => RegisteredIsOpen'
    BY RegisteredStep
<1> QED BY <1>1, <1>2, TypeCorrect, PTL DEF Spec

\* However a process' requests and answers travel (over connections that break
\* with whatever is on them, through the channel, with answers sent on a later
\* connection than the requests came by), the VM gets its answers in the order
\* of the requests and none twice, as long as the server meets the process'
\* handshakes in the order in which it dialled.
THEOREM AnswersCorrect == Spec => AnswersInOrder
<1> DEFINE Inv == /\ LastIsUsed /\ RegisteredByOwner
                  /\ WorkedInOrder /\ SentInOrder /\ ToldInOrder
<1>1. Init => Inv
    BY LastInit, OrderInit
<1>2. /\ TypeOK /\ TypeOK' /\ PairsMatch /\ RegisteredIsOpen /\ Inv
      /\ HandshakesAreOrdered /\ [Next]_vars
      => Inv'
    <2> SUFFICES ASSUME TypeOK, TypeOK', PairsMatch, RegisteredIsOpen, Inv,
                        HandshakesAreOrdered, [Next]_vars
                 PROVE  Inv'
        OBVIOUS
    <2>1. LastIsUsed' /\ RegisteredByOwner'
        BY LastStep, OwnerStep
    <2>2. WorkedInOrder'
        BY WorkStep DEF WorkedInOrder
    <2>3. SentInOrder' /\ ToldInOrder'
        BY SentStep, ToldStep
    <2> QED BY <2>1, <2>2, <2>3
<1>3. Inv => RequestOrder
    BY DEF ToldInOrder
<1> HIDE DEF Inv
<1> QED BY <1>1, <1>2, <1>3, TypeCorrect, PairsCorrect, RegisteredCorrect, PTL
       DEF Spec, AnswersInOrder
=============================================================================
