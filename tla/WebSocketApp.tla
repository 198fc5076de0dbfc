---------------------------- MODULE WebSocketApp ----------------------------
(***************************************************************************)
(* websocket_app: packages over WebSocket.  A frame is a header of two to  *)
(* fourteen bytes and a payload; the payloads of the frames up to the next *)
(* one with the fin bit are one message, which holds one package.          *)
(***************************************************************************)
EXTENDS ClientConn

CONSTANTS
    MaxHeld,    \* bytes of an unfinished frame or message too much: 1024000
    MaxWsSend   \* and of the send buffer: 1024000

\* Bytes of the length field, after the first seven bits.
LengthBytes(size) == IF size <= 125 THEN 0 ELSE IF size <= 65535 THEN 2 ELSE 8

\* A frame of the client: is it data (text, binary or continuation) or
\* control, is it the last of its message, and does that message parse?
WsFrame(start, size, mask, data, fin, good) ==
    [start |-> start, size |-> size, data |-> data, fin |-> fin, good |-> good,
     bytes |-> 2 + LengthBytes(size) + (IF mask THEN 4 ELSE 0) + size]

WsOnNewConnection ==
    /\ state = "new"
    /\ state' = "open"
    /\ toVM' = Append(toVM, <<NewConnection>>)
    /\ UNCHANGED <<recv, closing, send>>

WsOnCloseConnection ==
    /\ state = "open" /\ closing # "no" /\ pc = "wait"
    /\ state' = "closed"
    /\ toVM' = Append(toVM, <<CloseConnection>>)
    /\ UNCHANGED <<recv, closing, send>>

-----------------------------------------------------------------------------
(* on_process_connection: one turn per frame, and the checks at the end *)

WsProcessStart ==
    /\ pc = "start"
    /\ pc' = "turn"
    /\ UNCHANGED <<wire, got, read, held, state, closing, toVM, send>>

\* The first byte in the buffer is that of a data frame.
DataFrame == Aligned /\ wire[Here].data

\* Any other opcode ends the connection, close and ping included.
WsRefuse ==
    /\ RecvSize > 0 /\ ~DataFrame
    /\ Close("parser")
    /\ pc' = "check"
    /\ UNCHANGED <<read, held, toVM>>

\* Header or payload are not complete; nothing is consumed.  The code adds a
\* frame's stated length in 64 bits; here no length comes near that limit.
WsWait ==
    /\ RecvSize > 0 => DataFrame /\ wire[Here].bytes > RecvSize
    /\ pc' = "check"
    /\ UNCHANGED <<read, held, toVM, closing>>

TakeFrame ==
    /\ RecvSize > 0 /\ DataFrame /\ wire[Here].bytes <= RecvSize
    /\ read' = read + wire[Here].bytes

WsFragment ==
    /\ TakeFrame
    /\ ~wire[Here].fin
    /\ held' = Append(held, Here)
    /\ UNCHANGED <<pc, toVM, closing>>

\* (faulty variants: the fragments are kept after the message; one message
\* per event)
ProcessFrameKeeping ==
    /\ TakeFrame
    /\ wire[Here].fin
    /\ held' = Append(held, Here)
    /\ IF wire[Here].good
         THEN toVM' = Append(toVM, held') /\ UNCHANGED closing
         ELSE Close("garbage") /\ UNCHANGED toVM
    /\ UNCHANGED pc

ProcessFrameOne ==
    /\ TakeFrame
    /\ wire[Here].fin
    /\ held' = <<>>
    /\ IF wire[Here].good
         THEN toVM' = Append(toVM, Append(held, Here)) /\ UNCHANGED closing
         ELSE Close("garbage") /\ UNCHANGED toVM
    /\ pc' = "check"

\* on_process_frame; after a message that does not parse the loop goes on.
WsProcessFrame ==
    /\ TakeFrame
    /\ wire[Here].fin
    /\ held' = <<>>
    /\ IF wire[Here].good
         THEN toVM' = Append(toVM, Append(held, Here)) /\ UNCHANGED closing
         ELSE Close("garbage") /\ UNCHANGED toVM
    /\ UNCHANGED pc

WsProcessTurn ==
    /\ pc = "turn"
    /\ WsRefuse \/ WsWait \/ WsFragment \/ WsProcessFrame
    /\ UNCHANGED <<wire, got, state, send>>

\* frame_payload_data.size()
HeldSize ==
    LET upTo[i \in 0..Len(held)] ==
          IF i = 0 THEN 0 ELSE upTo[i - 1] + wire[held[i]].size
    IN  upTo[Len(held)]

WsProcessEnd ==
    /\ pc = "check"
    /\ pc' = "wait"
    /\ IF RecvSize > MaxHeld \/ HeldSize > MaxHeld
         THEN Close("parser") ELSE UNCHANGED closing
    /\ UNCHANGED <<wire, got, read, held, state, toVM, send>>

-----------------------------------------------------------------------------
(* The worker's tunnel *)

\* Byte i of a length that needs no more than 31 bits, the lowest is 0.
Byte(n, i) == IF i > 3 THEN 0 ELSE (n \div <<1, 256, 65536, 16777216>>[i + 1]) % 256

LongField(n) == <<127>> \o [j \in 1..8 |-> Byte(n, 8 - j)]

\* How the header of a frame to the client states the length.
LengthField(n) ==
    IF n <= 125 THEN <<n>>
    ELSE IF n <= 65535 THEN <<126, Byte(n, 1), Byte(n, 0)>> ELSE LongField(n)

\* ntohl of four bytes
Word(field, i) ==
    ((field[i] * 256 + field[i + 1]) * 256 + field[i + 2]) * 256 + field[i + 3]

\* How a header is read, here and by the client.
PayloadLength(field) ==
    CASE field[1] = 126 -> field[2] * 256 + field[3]
      [] field[1] = 127 -> Word(field, 2) * 65536 * 65536 + Word(field, 6)
      [] OTHER -> field[1]

ws_send_sync_package(m) ==
    IF sendBuf > MaxWsSend
      THEN /\ Close("sender")
           /\ UNCHANGED <<sendBuf, accepted>>
      ELSE /\ sendBuf' = sendBuf + 1 + Len(LengthField(m.size)) + m.size
           /\ accepted' = Append(accepted, [number |-> m.number, size |-> m.size,
                                            field |-> LengthField(m.size)])
           /\ UNCHANGED closing

\* on_worker_tunnel and on_client_forward_message
WsOnWorkerTunnel ==
    /\ pc = "wait"
    /\ toConn # <<>>
    /\ toConn' = Tail(toConn)
    /\ \/ /\ state = "closed"
          /\ UNCHANGED <<closing, sendBuf, accepted>>
       \/ /\ state = "open" /\ Head(toConn) = CloseOrder
          /\ Close("vm")
          /\ UNCHANGED <<sendBuf, accepted>>
       \/ /\ state = "open" /\ Head(toConn) # CloseOrder
          /\ ws_send_sync_package(Head(toConn))
    /\ UNCHANGED <<recv, state, toVM, sends>>

WsInit == \E w \in Wires : NewConn("WEBSOCKET_TASK", w)

WsNext ==
    /\ \/ WsOnNewConnection
       \/ WsOnCloseConnection
       \/ WsProcessStart
       \/ WsProcessTurn
       \/ WsProcessEnd
       \/ WsOnWorkerTunnel
       \/ Framework
    /\ UNCHANGED task_type

WsSpec == WsInit /\ [][WsNext]_connVars

INT32_MAX == 2147483647

\* What the constants are.
WsConstants ==
    /\ ReadMax \in Nat /\ MaxHeld \in Nat /\ MaxWsSend \in Nat
    /\ Cuts \subseteq Nat /\ Levels \subseteq Nat /\ MaxSends \in Nat
    /\ Sizes \subseteq 0..INT32_MAX
    /\ \A w \in Wires :
         /\ DOMAIN w = 1..Len(w) /\ Len(w) \in Nat
         /\ \A k \in DOMAIN w :
              /\ w[k].start \in Nat /\ w[k].size \in Nat
              /\ w[k].bytes \in Nat /\ w[k].size < w[k].bytes
              /\ w[k].data \in BOOLEAN /\ w[k].fin \in BOOLEAN
              /\ w[k].good \in BOOLEAN
         /\ Contiguous(w)

-----------------------------------------------------------------------------
(* Properties *)

\* The frame that ends the message told as event i.
LastFrame(i) == toVM[i][Len(toVM[i])]

Finals == {k \in DOMAIN wire : wire[k].fin}

\* The frames of the message that ends with frame k.
Fragments(k) ==
    LET before == {j \in Finals : j < k}
        first == IF before = {} THEN 1
                 ELSE 1 + CHOOSE j \in before : \A i \in before : i <= j
    IN  [i \in 1..(k - first + 1) |-> first + i - 1]

\* However the bytes are cut into frames and arrivals, the VM is told of the
\* connection, of every message that parses, with all its fragments and no
\* other, once and in order, and of the end.
MessagesArriveWhole ==
    task_type = "WEBSOCKET_TASK" =>
        /\ \A i, j \in DOMAIN toVM : i < j => LastFrame(i) < LastFrame(j)
        /\ {toVM[i] : i \in DOMAIN toVM} =
             {<<NewConnection>> : s \in {state} \ {"new"}} \cup
             {Fragments(k) : k \in {j \in Finals : wire[j].good /\ EndOf(j) <= read}} \cup
             {<<CloseConnection>> : s \in {state} \cap {"closed"}}

\* A client that keeps to the protocol and to the server's limits.
WsHonest ==
    /\ task_type = "WEBSOCKET_TASK"
    /\ \A k \in DOMAIN wire :
         /\ wire[k].data
         /\ wire[k].fin => wire[k].good
         /\ wire[k].bytes <= MaxHeld
         /\ \A j \in 1..k :
              (\A i \in j..k : i < k => ~wire[i].fin)
                => wire[k].start + wire[k].bytes - wire[j].start <= MaxHeld

\* Its connection stays, and its messages do not wait for later bytes.
WsHonestClientsAreServed ==
    WsHonest =>
        /\ closing \notin {"parser", "garbage"}
        /\ Serves => \A k \in DOMAIN wire : EndOf(k) <= got => EndOf(k) <= read

\* The packages put into the send buffer are the first ones the VM sent, and
\* the client reads the length of each from its header.
WsClientSeesNoGap ==
    \A i \in DOMAIN accepted :
        /\ accepted[i].number = i
        /\ PayloadLength(accepted[i].field) = accepted[i].size
=============================================================================
