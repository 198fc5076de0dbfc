------------------------ MODULE WebSocketApp_proofs ------------------------
(***************************************************************************)
(* Proofs about WebSocketApp, for every set of wires, every way of cutting *)
(* them into frames and arrivals, and every limit.                         *)
(***************************************************************************)
EXTENDS WebSocketApp, WellFoundedInduction, TLAPS

-----------------------------------------------------------------------------
(* Types *)

Message == [number : Nat, size : Sizes \cup {0}]

WsTypeOK ==
    /\ task_type = "WEBSOCKET_TASK"
    /\ wire \in Wires
    /\ got \in Nat /\ read \in Nat /\ read <= got /\ got <= Total
    /\ pc \in {"wait", "start", "turn", "check"}
    /\ state \in {"new", "open", "closed"}
    /\ closing \in {"no", "client", "parser", "garbage", "vm", "sender"}
    /\ held \in Seq(Nat)
    /\ toVM \in Seq(Seq(Nat))
    /\ toConn \in Seq(Message)
    /\ sendBuf \in Nat
    /\ sends \in Nat

LEMMA SizesAre ==
    ASSUME WsConstants, NEW n \in Sizes \cup {0}
    PROVE  n \in Nat /\ n <= INT32_MAX
<1>1. INT32_MAX \in Nat
    BY SMT DEF INT32_MAX
<1>2. Sizes \subseteq 0..INT32_MAX
    BY DEF WsConstants
<1>3. CASE n = 0
    BY <1>1, <1>3
<1>4. CASE n \in Sizes
    BY <1>1, <1>2, <1>4
<1> QED BY <1>3, <1>4

\* What the constants say of a wire and its frames.
LEMMA WireFacts ==
    ASSUME WsConstants, wire \in Wires
    PROVE  /\ DOMAIN wire = 1..Len(wire) /\ Len(wire) \in Nat
           /\ Total \in Nat
           /\ \A k \in 1..Len(wire) :
                /\ wire[k].start \in Nat /\ wire[k].size \in Nat
                /\ wire[k].bytes \in Nat /\ wire[k].size < wire[k].bytes
                /\ wire[k].data \in BOOLEAN /\ wire[k].fin \in BOOLEAN
                /\ wire[k].good \in BOOLEAN
                /\ EndOf(k) = wire[k].start + wire[k].bytes
                /\ EndOf(k) \in Nat
           /\ \A i, j \in 1..Len(wire) :
                i < j => /\ EndOf(i) <= wire[j].start
                         /\ j = i + 1 => EndOf(i) = wire[j].start
           /\ Len(wire) # 0 => wire[1].start = 0 /\ Total = EndOf(Len(wire))
           /\ Len(wire) = 0 => Total = 0
<1>1. DOMAIN wire = 1..Len(wire) /\ Len(wire) \in Nat
    BY DEF WsConstants
<1>2. \A k \in 1..Len(wire) :
          /\ wire[k].start \in Nat /\ wire[k].size \in Nat
          /\ wire[k].bytes \in Nat /\ wire[k].size < wire[k].bytes
          /\ wire[k].data \in BOOLEAN /\ wire[k].fin \in BOOLEAN
          /\ wire[k].good \in BOOLEAN
    BY <1>1 DEF WsConstants
<1>3. \A k \in 1..Len(wire) :
          EndOf(k) = wire[k].start + wire[k].bytes /\ EndOf(k) \in Nat
    BY <1>2 DEF EndOf
<1>4. Contiguous(wire)
    BY DEF WsConstants
<1>5. \A i, j \in 1..Len(wire) :
          i < j => /\ EndOf(i) <= wire[j].start
                   /\ j = i + 1 => EndOf(i) = wire[j].start
    BY <1>1, <1>4 DEF Contiguous, EndOf
<1>6. CASE Len(wire) = 0
    <2>1. Total = 0
        BY <1>6 DEF Total
    <2> QED BY <2>1, <1>6, <1>1, <1>2, <1>3, <1>5
<1>7. CASE Len(wire) # 0
    <2>1. Total = EndOf(Len(wire)) /\ wire[1].start = 0
        BY <1>4, <1>7 DEF Total, EndOf, Contiguous
    <2>2. Total \in Nat
        BY <2>1, <1>7, <1>1, <1>3
    <2> QED BY <2>1, <2>2, <1>7, <1>1, <1>2, <1>3, <1>5
<1> QED BY <1>6, <1>7

LEMMA HereFacts ==
    ASSUME Aligned
    PROVE  Here \in DOMAIN wire /\ wire[Here].start = read
BY DEF Aligned, Here

\* A frame that is taken is one of the wire's, it starts here and has arrived.
LEMMA TakenFacts ==
    ASSUME WsConstants, WsTypeOK, TakeFrame
    PROVE  /\ Here \in 1..Len(wire) /\ Here \in Nat /\ wire[Here].start = read
           /\ read' = EndOf(Here)
           /\ EndOf(Here) \in Nat /\ EndOf(Here) <= got /\ read < EndOf(Here)
<1>1. wire \in Wires /\ read \in Nat /\ got \in Nat
    BY DEF WsTypeOK
<1>2. Here \in 1..Len(wire) /\ wire[Here].start = read
    BY <1>1, HereFacts, WireFacts DEF TakeFrame, DataFrame
<1>3. /\ wire[Here].bytes \in Nat /\ wire[Here].size \in Nat
      /\ wire[Here].size < wire[Here].bytes
      /\ EndOf(Here) = wire[Here].start + wire[Here].bytes
    BY <1>1, <1>2, WireFacts
<1>4. wire[Here].bytes <= got - read /\ read' = read + wire[Here].bytes
    BY DEF TakeFrame, RecvSize
<1> QED BY <1>1, <1>2, <1>3, <1>4

LEMMA InitTypes == WsConstants /\ WsInit => WsTypeOK
BY WireFacts DEF WsInit, NewConn, WsTypeOK

\* What the parser does leaves the ends alone.
LEMMA TurnTypes ==
    ASSUME WsConstants, WsTypeOK, WsProcessTurn, UNCHANGED task_type
    PROVE  WsTypeOK'
<1>1. UNCHANGED <<task_type, wire, got, state, toConn, sendBuf, sends>> /\ Total' = Total
    BY DEF WsProcessTurn, send, Total
<1>2. CASE WsRefuse
    BY <1>1, <1>2 DEF WsRefuse, Close, WsTypeOK
<1>3. CASE WsWait
    BY <1>1, <1>3 DEF WsWait, WsTypeOK
<1>4. CASE WsFragment
    <2>1. /\ read' \in Nat /\ read' <= got /\ Here \in Nat
          /\ held' = Append(held, Here) /\ UNCHANGED <<pc, toVM, closing>>
        BY <1>4, TakenFacts DEF WsFragment
    <2>2. held' \in Seq(Nat)
        BY <2>1 DEF WsTypeOK
    <2> QED BY <1>1, <2>1, <2>2 DEF WsTypeOK
<1>5. CASE WsProcessFrame
    <2>1. read' \in Nat /\ read' <= got /\ Here \in Nat
        BY <1>5, TakenFacts DEF WsProcessFrame
    <2>2. held' = <<>> /\ pc' = pc /\ Append(held, Here) \in Seq(Nat)
        BY <1>5, <2>1 DEF WsProcessFrame, WsTypeOK
    <2>3. CASE wire[Here].good
        <3>1. toVM' = Append(toVM, Append(held, Here)) /\ closing' = closing
            BY <1>5, <2>3 DEF WsProcessFrame
        <3>2. toVM' \in Seq(Seq(Nat))
            BY <2>2, <3>1 DEF WsTypeOK
        <3> QED BY <1>1, <2>1, <2>2, <3>1, <3>2 DEF WsTypeOK
    <2>4. CASE ~wire[Here].good
        <3>1. toVM' = toVM /\ Close("garbage")
            BY <1>5, <2>4 DEF WsProcessFrame
        <3> QED BY <1>1, <2>1, <2>2, <3>1 DEF Close, WsTypeOK
    <2> QED BY <2>3, <2>4
<1> QED BY <1>2, <1>3, <1>4, <1>5 DEF WsProcessTurn

LEMMA TunnelTypes ==
    ASSUME WsConstants, WsTypeOK, WsOnWorkerTunnel, UNCHANGED task_type
    PROVE  WsTypeOK'
<1>1. toConn # <<>> /\ toConn' = Tail(toConn) /\ UNCHANGED <<recv, state, toVM, sends>>
    BY DEF WsOnWorkerTunnel
<1>2. Head(toConn) \in Message /\ toConn' \in Seq(Message)
    BY <1>1 DEF WsTypeOK
<1>3. UNCHANGED <<wire, got, read, held, pc>> /\ Total' = Total
    BY <1>1 DEF recv, Total
<1>4. closing' \in {"no", "client", "parser", "garbage", "vm", "sender"} /\ sendBuf' \in Nat
    <2>1. CASE UNCHANGED <<closing, sendBuf, accepted>>
        BY <2>1 DEF WsTypeOK
    <2>2. CASE Close("vm") /\ UNCHANGED <<sendBuf, accepted>>
        BY <2>2 DEF Close, WsTypeOK
    <2>3. CASE ws_send_sync_package(Head(toConn))
        <3>1. CASE sendBuf > MaxWsSend
            BY <2>3, <3>1 DEF ws_send_sync_package, Close, WsTypeOK
        <3>2. CASE ~(sendBuf > MaxWsSend)
            <4>1. /\ closing' = closing
                  /\ sendBuf' = sendBuf + 1 + Len(LengthField(Head(toConn).size))
                                  + Head(toConn).size
                BY <2>3, <3>2 DEF ws_send_sync_package
            <4>2. Head(toConn).size \in Nat
                BY <1>2, SizesAre DEF Message
            <4>3. \A n : Len(LengthField(n)) \in Nat
                BY SMT DEF LengthField, LongField
            <4> QED BY <4>1, <4>2, <4>3 DEF WsTypeOK
        <3> QED BY <3>1, <3>2
    <2> QED BY <2>1, <2>2, <2>3 DEF WsOnWorkerTunnel
<1> QED BY <1>1, <1>2, <1>3, <1>4 DEF WsTypeOK

LEMMA FrameworkTypes ==
    ASSUME WsConstants, WsTypeOK, Framework, UNCHANGED task_type
    PROVE  WsTypeOK'
<1> USE DEF recv, send
<1>1. CASE Arrive
    <2>1. got' \in Nat /\ got <= got' /\ got' <= Total
        BY <1>1 DEF Arrive, WsConstants, WsTypeOK
    <2>2. read <= got'
        BY <2>1 DEF WsTypeOK
    <2> QED BY <1>1, <2>1, <2>2 DEF Arrive, Total, WsTypeOK
<1>2. CASE Drain
    <2>1. sendBuf' \in Nat
        BY <1>2 DEF Drain, WsConstants
    <2> QED BY <1>2, <2>1 DEF Drain, Total, WsTypeOK
<1>3. CASE HangUp
    BY <1>3 DEF HangUp, Close, Total, WsTypeOK
<1>4. CASE VMSends
    <2>1. PICK n \in Sizes :
            toConn' = Append(toConn, [number |-> sends + 1, size |-> n])
        BY <1>4 DEF VMSends
    <2>2. toConn' \in Seq(Message)
        BY <2>1 DEF Message, WsConstants, WsTypeOK
    <2> QED BY <1>4, <2>2 DEF VMSends, Total, WsTypeOK
<1>5. CASE VMCloses
    <2>1. CloseOrder \in Message
        BY DEF CloseOrder, Message
    <2>2. toConn' \in Seq(Message)
        BY <1>5, <2>1 DEF VMCloses, WsTypeOK
    <2> QED BY <1>5, <2>2 DEF VMCloses, Total, WsTypeOK
<1> QED BY <1>1, <1>2, <1>3, <1>4, <1>5 DEF Framework

LEMMA StepTypes ==
    ASSUME WsConstants, WsTypeOK, [WsNext]_connVars
    PROVE  WsTypeOK'
<1>1. CASE UNCHANGED connVars
    BY <1>1 DEF connVars, recv, send, Total, WsTypeOK
<1>2. CASE (WsOnNewConnection \/ WsOnCloseConnection) /\ UNCHANGED task_type
    <2>1. NewConnection \in Nat /\ CloseConnection \in Nat
        BY WireFacts DEF NewConnection, CloseConnection, WsTypeOK
    <2> PICK e \in Nat : toVM' = Append(toVM, <<e>>)
        BY <1>2, <2>1 DEF WsOnNewConnection, WsOnCloseConnection
    <2>2. toVM' \in Seq(Seq(Nat))
        BY DEF WsTypeOK
    <2> QED BY <1>2, <2>2
            DEF WsOnNewConnection, WsOnCloseConnection, recv, send, Total, WsTypeOK
<1>3. CASE WsProcessStart /\ UNCHANGED task_type
    BY <1>3 DEF WsProcessStart, send, Total, WsTypeOK
<1>4. CASE WsProcessEnd /\ UNCHANGED task_type
    BY <1>4 DEF WsProcessEnd, Close, send, Total, WsTypeOK
<1> QED BY <1>1, <1>2, <1>3, <1>4, TurnTypes, TunnelTypes, FrameworkTypes DEF WsNext

\* Every variable keeps its type; what the parser has read has arrived.
THEOREM WsTypes == ASSUME WsConstants PROVE WsSpec => []WsTypeOK
BY InitTypes, StepTypes, PTL DEF WsSpec

-----------------------------------------------------------------------------
(* Lengths *)

\* Four bytes state any number below 2^32.
LEMMA HighBytes == \A n, i : i \in 4..7 => Byte(n, i) = 0
BY SMT DEF Byte

LEMMA LowBytes ==
    ASSUME NEW n \in Nat
    PROVE  \E q1, q2, q3 \in Nat :
              /\ q1 = n \div 256 /\ q2 = n \div 65536 /\ q3 = n \div 16777216
              /\ Byte(n, 0) = n - 256 * q1
              /\ Byte(n, 1) = q1 - 256 * q2
              /\ Byte(n, 2) = q2 - 256 * q3
              /\ Byte(n, 3) = q3 % 256
<1>1. PICK q1 \in Nat, q2 \in Nat, q3 \in Nat :
          q1 = n \div 256 /\ q2 = n \div 65536 /\ q3 = n \div 16777216
    BY SMT
<1>2. Byte(n, 0) = n - 256 * q1
    <2>1. n \div 1 = n
        BY SMT
    <2>2. Byte(n, 0) = n % 256
        BY <2>1, SMT DEF Byte
    <2>3. n % 256 = n - 256 * q1
        BY <1>1, SMT
    <2> QED BY <2>2, <2>3, SMT
<1>3. Byte(n, 1) = q1 - 256 * q2
    <2>1. Byte(n, 1) = q1 % 256
        BY <1>1, SMT DEF Byte
    <2>2. q1 % 256 = q1 - 256 * q2
        BY <1>1, SMT
    <2> QED BY <2>1, <2>2, SMT
<1>4. Byte(n, 2) = q2 - 256 * q3
    <2>1. Byte(n, 2) = q2 % 256
        BY <1>1, SMT DEF Byte
    <2>2. q2 % 256 = q2 - 256 * q3
        BY <1>1, SMT
    <2> QED BY <2>1, <2>2, SMT
<1>5. Byte(n, 3) = q3 % 256
    BY <1>1, SMT DEF Byte
<1> QED BY <1>1, <1>2, <1>3, <1>4, <1>5, SMT

LEMMA BytesAddUp ==
    ASSUME NEW n \in Nat, n <= INT32_MAX
    PROVE  ((Byte(n, 3) * 256 + Byte(n, 2)) * 256 + Byte(n, 1)) * 256 + Byte(n, 0) = n
<1>1. n < 4294967296
    BY SMT DEF INT32_MAX
<1>2. PICK q1 \in Nat, q2 \in Nat, q3 \in Nat :
          /\ q1 = n \div 256 /\ q2 = n \div 65536 /\ q3 = n \div 16777216
          /\ Byte(n, 0) = n - 256 * q1
          /\ Byte(n, 1) = q1 - 256 * q2
          /\ Byte(n, 2) = q2 - 256 * q3
          /\ Byte(n, 3) = q3 % 256
    <2> HIDE <1>1
    <2> QED BY LowBytes, SMTT(30)
<1>3. q3 < 256
    BY <1>1, <1>2, SMT
<1>4. q3 % 256 = q3
    BY <1>3, SMT
<1>5. Byte(n, 3) = q3
    BY <1>2, <1>4, SMT
<1>6. ((q3 * 256 + (q2 - 256 * q3)) * 256 + (q1 - 256 * q2)) * 256 + (n - 256 * q1) = n
    BY SMT
<1> QED BY <1>2, <1>5, <1>6, SMT

\* The length is read from the field as it was written.
LEMMA LengthIsRead ==
    ASSUME NEW n \in Nat, n <= INT32_MAX
    PROVE  PayloadLength(LengthField(n)) = n
<1>1. CASE n <= 125
    BY <1>1, SMT DEF LengthField, PayloadLength
<1>2. CASE 125 < n /\ n <= 65535
    <2>1. LengthField(n) = <<126, Byte(n, 1), Byte(n, 0)>>
        BY <1>2, SMT DEF LengthField
    <2>2. PayloadLength(LengthField(n)) = Byte(n, 1) * 256 + Byte(n, 0)
        BY <2>1, SMT DEF PayloadLength
    <2>3. PICK q1 \in Nat, q2 \in Nat :
              /\ q2 = n \div 65536
              /\ Byte(n, 0) = n - 256 * q1 /\ Byte(n, 1) = q1 - 256 * q2
        BY LowBytes, SMT
    <2>4. q2 = 0
        BY <1>2, <2>3, SMT
    <2>5. (q1 - 256 * 0) * 256 + (n - 256 * q1) = n
        BY SMT
    <2> QED BY <2>2, <2>3, <2>4, <2>5, SMT
<1>3. CASE 65535 < n
    <2> DEFINE field == LongField(n)
    <2>1. LengthField(n) = field
        BY <1>3, SMT DEF LengthField
    <2>2. field[1] = 127 /\ \A j \in 1..8 : field[j + 1] = Byte(n, 8 - j)
        BY SMT DEF LongField
    <2>3. /\ field[2] = 0 /\ field[3] = 0 /\ field[4] = 0 /\ field[5] = 0
          /\ field[6] = Byte(n, 3) /\ field[7] = Byte(n, 2)
          /\ field[8] = Byte(n, 1) /\ field[9] = Byte(n, 0)
        <3> HIDE DEF field
        <3>1. /\ field[1 + 1] = Byte(n, 7) /\ field[2 + 1] = Byte(n, 6)
              /\ field[3 + 1] = Byte(n, 5) /\ field[4 + 1] = Byte(n, 4)
              /\ field[5 + 1] = Byte(n, 3) /\ field[6 + 1] = Byte(n, 2)
              /\ field[7 + 1] = Byte(n, 1) /\ field[8 + 1] = Byte(n, 0)
            BY <2>2, SMT
        <3>2. \A i \in 4..7 : Byte(n, i) = 0
            BY HighBytes
        <3> QED BY <3>1, <3>2, SMT
    <2> HIDE DEF field
    <2>4. Word(field, 2) = 0
        BY <2>3, SMT DEF Word
    <2>5. Word(field, 6) = n
        <3>1. Word(field, 6) =
                  ((field[6] * 256 + field[7]) * 256 + field[8]) * 256 + field[9]
            BY SMT DEF Word
        <3>2. /\ field[6] = Byte(n, 3) /\ field[7] = Byte(n, 2)
              /\ field[8] = Byte(n, 1) /\ field[9] = Byte(n, 0)
            BY <2>3, Zenon
        <3> QED BY <3>1, <3>2, BytesAddUp, ZenonT(30)
    <2>6. PayloadLength(field) = Word(field, 2) * 65536 * 65536 + Word(field, 6)
        BY <2>2, SMT DEF PayloadLength
    <2> QED BY <2>1, <2>4, <2>5, <2>6, SMT
<1> QED BY <1>1, <1>2, <1>3, SMT

-----------------------------------------------------------------------------
(* What the VM is told *)

\* The parser only runs for an open connection, and before that it has read
\* nothing.
Phases ==
    /\ pc # "wait" => state = "open"
    /\ state = "new" => read = 0

\* Frames f to n.
Run(f, n) == [i \in 1..(n - f + 1) |-> f + i - 1]

\* The parser stands behind frame n, and frame f is the first one of the
\* message it is in.
Standing(n, f) ==
    /\ n \in 0..Len(wire) /\ f \in 1..(n + 1)
    /\ read = IF n = 0 THEN 0 ELSE EndOf(n)
    /\ held = Run(f, n)
    /\ \A j \in f..n : ~wire[j].fin
    /\ f > 1 => wire[f - 1].fin

\* What was told so far ends with frame n or before.
Below(n) ==
    state # "closed" =>
        \A i \in DOMAIN toVM : LastFrame(i) \in Nat /\ LastFrame(i) <= n

MsgInv ==
    /\ WsTypeOK
    /\ Phases
    /\ MessagesArriveWhole
    /\ \E n, f \in Nat : Standing(n, f) /\ Below(n)

Passed == {k \in Finals : wire[k].good /\ EndOf(k) <= read}

LEMMA ToldForm ==
    ASSUME WsTypeOK
    PROVE  MessagesArriveWhole <=>
             /\ \A i, j \in DOMAIN toVM : i < j => LastFrame(i) < LastFrame(j)
             /\ {toVM[i] : i \in DOMAIN toVM} =
                  {<<NewConnection>> : s \in {state} \ {"new"}} \cup
                  {Fragments(k) : k \in Passed} \cup
                  {<<CloseConnection>> : s \in {state} \cap {"closed"}}
BY DEF WsTypeOK, MessagesArriveWhole, Passed

\* Of a sequence of events: their last frames grow, all are before frame m,
\* and the set of events.
Growing(t) == \A i, j \in DOMAIN t : i < j => t[i][Len(t[i])] < t[j][Len(t[j])]
EndsBefore(t, m) == \A i \in DOMAIN t : t[i][Len(t[i])] \in Nat /\ t[i][Len(t[i])] < m
Events(t) == {t[i] : i \in DOMAIN t}

\* One more event, whose last frame is behind those of all the others.
LEMMA OneMore ==
    ASSUME NEW s \in Seq(Seq(Nat)), NEW e \in Seq(Nat), NEW m \in Nat,
           e # <<>>, e[Len(e)] = m, Growing(s), EndsBefore(s, m)
    PROVE  /\ Growing(Append(s, e))
           /\ Events(Append(s, e)) = Events(s) \cup {e}
           /\ EndsBefore(Append(s, e), m + 1)
<1>0. PICK t : t = Append(s, e)
    OBVIOUS
<1>1. /\ Len(s) \in Nat /\ DOMAIN s = 1..Len(s)
      /\ DOMAIN t = 1..(Len(s) + 1)
      /\ t[Len(s) + 1] = e /\ \A i \in 1..Len(s) : t[i] = s[i]
    BY <1>0
<1> DEFINE last(i) == t[i][Len(t[i])]
<1>2. /\ last(Len(s) + 1) = m
      /\ \A i \in 1..Len(s) : last(i) = s[i][Len(s[i])]
    BY <1>1
<1>3. /\ \A i, j \in 1..Len(s) : i < j => last(i) < last(j)
      /\ \A i \in 1..Len(s) : last(i) \in Nat /\ last(i) < m
    BY <1>1, <1>2 DEF Growing, EndsBefore
<1> HIDE DEF last
<1>4. ASSUME NEW i \in 1..(Len(s) + 1), NEW j \in 1..(Len(s) + 1), i < j
      PROVE  last(i) < last(j)
    <2>1. i \in 1..Len(s)
        BY <1>1, <1>4
    <2>2. CASE j = Len(s) + 1
        BY <1>2, <1>3, <2>1, <2>2
    <2>3. CASE j # Len(s) + 1
        <3>1. j \in 1..Len(s)
            BY <1>1, <2>3
        <3> QED BY <1>3, <1>4, <2>1, <3>1, Zenon
    <2> QED BY <2>2, <2>3
<1>5. \A i \in 1..(Len(s) + 1) : last(i) \in Nat /\ last(i) < m + 1
    BY <1>1, <1>2, <1>3
<1>6. Events(t) = Events(s) \cup {e}
    <2>1. ASSUME NEW x \in Events(t) PROVE x \in Events(s) \cup {e}
        <3>1. PICK i \in DOMAIN t : x = t[i]
            BY <2>1 DEF Events
        <3>2. CASE i = Len(s) + 1
            BY <1>1, <3>1, <3>2
        <3>3. CASE i \in DOMAIN s
            BY <1>1, <3>1, <3>3 DEF Events
        <3> QED BY <1>1, <3>2, <3>3
    <2>2. ASSUME NEW x \in Events(s) PROVE x \in Events(t)
        <3>1. PICK i \in DOMAIN s : x = s[i]
            BY <2>2 DEF Events
        <3>2. i \in DOMAIN t /\ x = t[i]
            BY <1>1, <3>1
        <3> QED BY <3>2 DEF Events
    <2>3. e \in Events(t)
        <3>1. Len(s) + 1 \in DOMAIN t
            BY <1>1
        <3> QED BY <1>1, <3>1 DEF Events
    <2> QED BY <2>1, <2>2, <2>3
<1>7. Growing(t) /\ EndsBefore(t, m + 1)
    BY <1>1, <1>4, <1>5 DEF last, Growing, EndsBefore
<1> QED BY <1>0, <1>6, <1>7

\* The frames that end where the parser stands or before.
LEMMA ReadFrames ==
    ASSUME WsConstants, WsTypeOK, NEW n \in 0..Len(wire),
           read = IF n = 0 THEN 0 ELSE EndOf(n)
    PROVE  /\ \A k \in 1..Len(wire) : EndOf(k) <= read <=> k <= n
           /\ Aligned => Here = n + 1 /\ n + 1 \in 1..Len(wire)
           /\ n < Len(wire) => Aligned
           /\ n = Len(wire) => read = Total
<1>1. /\ wire \in Wires /\ read \in Nat /\ DOMAIN wire = 1..Len(wire) /\ Len(wire) \in Nat
    BY WireFacts DEF WsTypeOK
<1>2. ASSUME NEW k \in 1..Len(wire)
      PROVE  /\ wire[k].start \in Nat /\ wire[k].bytes \in Nat /\ wire[k].bytes > 0
             /\ EndOf(k) = wire[k].start + wire[k].bytes /\ EndOf(k) \in Nat
    <2>1. /\ wire[k].start \in Nat /\ wire[k].bytes \in Nat
          /\ wire[k].size \in Nat /\ wire[k].size < wire[k].bytes
          /\ EndOf(k) = wire[k].start + wire[k].bytes /\ EndOf(k) \in Nat
        BY <1>1, WireFacts
    <2> QED BY <2>1
<1>3. \A i, j \in 1..Len(wire) : i < j => EndOf(i) <= wire[j].start
    BY <1>1, WireFacts
<1>4. n < Len(wire) => wire[n + 1].start = read
    <2>1. CASE n = 0
        BY <1>1, <2>1, WireFacts
    <2>2. CASE n # 0 /\ n < Len(wire)
        <3>1. n \in 1..Len(wire) /\ n + 1 \in 1..Len(wire) /\ n < n + 1
            BY <1>1, <2>2
        <3> QED BY <1>1, <2>2, <3>1, WireFacts
    <2> QED BY <2>1, <2>2
<1>5. ASSUME NEW k \in 1..Len(wire) PROVE EndOf(k) <= read <=> k <= n
    <2>1. CASE k <= n
        <3>1. n \in 1..Len(wire) /\ read = EndOf(n)
            BY <1>1, <2>1
        <3> QED BY <1>2, <1>3, <2>1, <3>1
    <2>2. CASE k = n + 1
        BY <1>1, <1>2, <1>4, <2>2
    <2>3. CASE k > n + 1
        <3>1. n + 1 \in 1..Len(wire) /\ wire[n + 1].start = read
            BY <1>1, <1>4, <2>3
        <3>2. EndOf(n + 1) <= wire[k].start
            BY <1>3, <2>3, <3>1
        <3> QED BY <1>1, <1>2, <2>3, <3>1, <3>2
    <2> QED BY <1>1, <2>1, <2>2, <2>3
<1>6. ASSUME NEW h \in 1..Len(wire), wire[h].start = read PROVE h = n + 1
    <2>1. ~(h <= n)
        BY <1>1, <1>2, <1>5, <1>6
    <2>2. ~(h > n + 1)
        <3> SUFFICES ASSUME h > n + 1 PROVE FALSE
            OBVIOUS
        <3>1. n + 1 \in 1..Len(wire) /\ wire[n + 1].start = read
            BY <1>1, <1>4
        <3>2. EndOf(n + 1) <= wire[h].start
            BY <1>3, <3>1
        <3> QED BY <1>1, <1>2, <1>6, <3>1, <3>2
    <2> QED BY <1>1, <2>1, <2>2
<1>7. Aligned => Here = n + 1 /\ n + 1 \in 1..Len(wire)
    BY <1>1, <1>6, HereFacts
<1>8. n < Len(wire) => Aligned
    BY <1>1, <1>4 DEF Aligned
<1>9. n = Len(wire) => read = Total
    BY <1>1, WireFacts
<1> QED BY <1>5, <1>7, <1>8, <1>9

\* One more fragment.
LEMMA HeldMore ==
    ASSUME WsConstants, WsTypeOK, NEW n, NEW f, Standing(n, f)
    PROVE  /\ Append(held, n + 1) = Run(f, n + 1)
           /\ Append(held, n + 1) \in Seq(Nat) \ {<<>>}
           /\ Append(held, n + 1)[Len(Append(held, n + 1))] = n + 1
<1>1. /\ Len(wire) \in Nat /\ n \in Nat
      /\ f \in 1..(n + 1) /\ held = Run(f, n) /\ held \in Seq(Nat)
    BY WireFacts DEF Standing, WsTypeOK
<1>2. Len(held) = n - f + 1 /\ \A i \in 1..Len(held) : held[i] = f + i - 1
    BY <1>1 DEF Run
<1>3. PICK t : t = Append(held, n + 1)
    OBVIOUS
<1>4. /\ t \in Seq(Nat) /\ Len(t) = n - f + 2 /\ DOMAIN t = 1..(n - f + 2)
      /\ \A i \in 1..(n - f + 2) : t[i] = f + i - 1
    <2>1. /\ t \in Seq(Nat) /\ Len(t) = Len(held) + 1 /\ DOMAIN t = 1..(Len(held) + 1)
          /\ \A i \in 1..Len(held) : t[i] = held[i]
          /\ t[Len(held) + 1] = n + 1
        BY <1>1, <1>3
    <2>2. Len(held) + 1 = n - f + 2
        BY <1>1, <1>2
    <2>3. ASSUME NEW i \in 1..(n - f + 2) PROVE t[i] = f + i - 1
        <3>1. CASE i = n - f + 2
            BY <1>1, <2>1, <2>2, <3>1
        <3>2. CASE i # n - f + 2
            <4>1. i \in 1..Len(held)
                BY <1>1, <1>2, <3>2
            <4> QED BY <1>2, <2>1, <4>1
        <3> QED BY <3>1, <3>2
    <2> QED BY <1>1, <2>1, <2>2, <2>3
<1>5. t = Run(f, n + 1)
    <2>1. (n + 1) - f + 1 = n - f + 2
        BY <1>1
    <2>2. t = [i \in 1..(n - f + 2) |-> t[i]]
        BY <1>4
    <2> QED BY <1>4, <2>1, <2>2 DEF Run
<1>6. t # <<>> /\ t[Len(t)] = n + 1
    BY <1>1, <1>4
<1> QED BY <1>3, <1>4, <1>5, <1>6

\* The fragments of a message are those held and the frame that ends it.
LEMMA FragmentsAre ==
    ASSUME WsConstants, WsTypeOK, NEW n, NEW f, Standing(n, f)
    PROVE  Fragments(n + 1) = Append(held, n + 1)
<1> DEFINE k == n + 1
           before == {j \in Finals : j < k}
           latest == CHOOSE j \in before : \A i \in before : i <= j
           first == IF before = {} THEN 1 ELSE 1 + latest
<1>1. /\ DOMAIN wire = 1..Len(wire) /\ Len(wire) \in Nat /\ n \in Nat /\ n <= Len(wire)
      /\ f \in 1..(n + 1)
      /\ \A j \in f..n : ~wire[j].fin
      /\ f > 1 => wire[f - 1].fin
    BY WireFacts DEF Standing, WsTypeOK
<1>2. first = f
    <2>1. \A j \in before : j \in 1..(f - 1)
        BY <1>1 DEF Finals
    <2>2. CASE f = 1
        BY <2>1, <2>2
    <2>3. CASE f > 1
        <3>1. f - 1 \in before
            BY <1>1, <2>3 DEF Finals
        <3>2. \A i \in before : i <= f - 1
            BY <2>1
        <3>3. \A j \in before : (\A i \in before : i <= j) => j = f - 1
            BY <2>1, <3>1, <3>2
        <3> HIDE DEF before
        <3>4. latest = f - 1
            BY <3>1, <3>2, <3>3
        <3> HIDE DEF latest
        <3>5. first = 1 + latest
            BY <3>1
        <3> QED BY <1>1, <3>4, <3>5
    <2> QED BY <1>1, <2>2, <2>3
<1>3. Fragments(k) = [i \in 1..(k - first + 1) |-> first + i - 1]
    BY DEF Fragments
<1>4. Fragments(k) = Run(f, k)
    <2> HIDE DEF first
    <2> QED BY <1>2, <1>3 DEF Run
<1> QED BY <1>4, HeldMore

LEMMA InitMsg == WsConstants /\ WsInit => MsgInv
<1> SUFFICES ASSUME WsConstants, WsInit PROVE MsgInv
    OBVIOUS
<1>1. /\ read = 0 /\ held = <<>> /\ pc = "wait" /\ state = "new" /\ toVM = <<>>
      /\ WsTypeOK
    BY InitTypes DEF WsInit, NewConn
<1>2. Len(wire) \in Nat /\ DOMAIN wire = 1..Len(wire)
    BY <1>1, WireFacts DEF WsTypeOK
<1>3. Standing(0, 1) /\ Below(0)
    <2>1. held = Run(1, 0)
        BY <1>1 DEF Run
    <2> QED BY <1>1, <1>2, <2>1 DEF Standing, Below
<1>4. Passed = {}
    <2>1. PICK n \in 0..Len(wire) : n = 0
        BY <1>2
    <2>2. \A k \in 1..Len(wire) : EndOf(k) <= read <=> k <= n
        BY <1>1, <2>1, ReadFrames
    <2> QED BY <1>2, <2>1, <2>2 DEF Passed, Finals
<1>5. MessagesArriveWhole
    BY <1>1, <1>4, ToldForm
<1> QED BY <1>1, <1>3, <1>5 DEF MsgInv, Phases

\* A step that tells the VM nothing and passes no message.
LEMMA ToldStays ==
    ASSUME MsgInv, WsTypeOK', Passed' = Passed, UNCHANGED <<wire, toVM, state>>
    PROVE  MessagesArriveWhole'
<1>1. /\ \A i, j \in DOMAIN toVM : i < j => LastFrame(i) < LastFrame(j)
      /\ {toVM[i] : i \in DOMAIN toVM} =
           {<<NewConnection>> : s \in {state} \ {"new"}} \cup
           {Fragments(k) : k \in Passed} \cup
           {<<CloseConnection>> : s \in {state} \cap {"closed"}}
    BY ToldForm DEF MsgInv
<1>2. /\ CloseConnection' = CloseConnection
      /\ \A k : Fragments(k)' = Fragments(k)
      /\ \A i : LastFrame(i)' = LastFrame(i)
    BY DEF CloseConnection, Fragments, Finals, LastFrame
<1>3. \A i, j \in DOMAIN toVM' : i < j => LastFrame(i)' < LastFrame(j)'
    BY <1>1, <1>2
<1>4. {toVM'[i] : i \in DOMAIN toVM'} =
           {<<NewConnection>> : s \in {state'} \ {"new"}} \cup
           {Fragments(k)' : k \in Passed'} \cup
           {<<CloseConnection'>> : s \in {state'} \cap {"closed"}}
    <2>1. {Fragments(k)' : k \in Passed'} = {Fragments(k) : k \in Passed}
        BY <1>2
    <2> QED BY <1>1, <1>2, <2>1
<1> QED BY <1>3, <1>4 DEF MessagesArriveWhole, Passed, NewConnection

LEMMA NothingMoves ==
    ASSUME MsgInv, WsTypeOK', Phases', UNCHANGED <<wire, read, held, toVM, state>>
    PROVE  MsgInv'
<1>1. Passed' = Passed
    BY DEF Passed, Finals, EndOf
<1>2. PICK n, f \in Nat : Standing(n, f) /\ Below(n)
    BY DEF MsgInv
<1>3. Standing(n, f)'
    BY <1>2 DEF Standing, EndOf
<1>4. Below(n)'
    BY <1>2 DEF Below, LastFrame
<1> QED BY <1>1, <1>3, <1>4, ToldStays DEF MsgInv

\* The frames passed when the next one is taken.
LEMMA PassedMore ==
    ASSUME WsConstants, WsTypeOK, TakeFrame, UNCHANGED wire,
           NEW n, NEW f, Standing(n, f)
    PROVE  /\ Here = n + 1 /\ n + 1 \in 1..Len(wire)
           /\ read' = EndOf(n + 1)
           /\ Passed' = Passed \cup
                (IF wire[n + 1].fin /\ wire[n + 1].good THEN {n + 1} ELSE {})
           /\ \A k \in Passed : k <= n
<1>1. /\ Len(wire) \in Nat /\ DOMAIN wire = 1..Len(wire) /\ n \in 0..Len(wire) /\ n \in Nat
      /\ read = IF n = 0 THEN 0 ELSE EndOf(n)
    BY WireFacts DEF WsTypeOK, Standing
<1>2. Here = n + 1 /\ n + 1 \in 1..Len(wire)
    BY <1>1, ReadFrames DEF TakeFrame, DataFrame
<1>3. read' = EndOf(n + 1)
    BY <1>2, TakenFacts
<1>4. \A k \in 1..Len(wire) : EndOf(k) <= read <=> k <= n
    BY <1>1, ReadFrames
<1>5. ASSUME NEW k \in 1..Len(wire) PROVE EndOf(k) <= EndOf(n + 1) <=> k <= n + 1
    <2>1. /\ EndOf(k) \in Nat /\ EndOf(n + 1) \in Nat
          /\ EndOf(k) = wire[k].start + wire[k].bytes
          /\ wire[k].start \in Nat /\ wire[k].bytes \in Nat
          /\ wire[k].size \in Nat /\ wire[k].size < wire[k].bytes
        BY <1>2, WireFacts DEF WsTypeOK
    <2>2. CASE k < n + 1
        <3>1. EndOf(k) <= wire[n + 1].start
            BY <1>2, <2>2, WireFacts DEF WsTypeOK
        <3>2. /\ EndOf(n + 1) = wire[n + 1].start + wire[n + 1].bytes
              /\ wire[n + 1].start \in Nat /\ wire[n + 1].bytes \in Nat
            BY <1>2, WireFacts DEF WsTypeOK
        <3>3. k <= n + 1
            BY <1>1, <2>2
        <3> QED BY <2>1, <3>1, <3>2, <3>3
    <2>3. CASE k = n + 1
        BY <2>1, <2>3
    <2>4. CASE k > n + 1
        <3>1. EndOf(n + 1) <= wire[k].start
            BY <1>2, <2>4, WireFacts DEF WsTypeOK
        <3> QED BY <1>1, <2>1, <2>4, <3>1
    <2> QED BY <1>1, <2>2, <2>3, <2>4
<1>6. Passed = {k \in 1..Len(wire) : wire[k].fin /\ wire[k].good /\ k <= n}
    BY <1>1, <1>4 DEF Passed, Finals
<1>7. Passed' = {k \in 1..Len(wire) : wire[k].fin /\ wire[k].good /\ k <= n + 1}
    <2>1. Passed' = {k \in DOMAIN wire : wire[k].fin /\ wire[k].good /\ EndOf(k) <= read'}
        BY DEF Passed, Finals, EndOf
    <2> QED BY <1>1, <1>3, <1>5, <2>1
<1> QED BY <1>1, <1>2, <1>3, <1>6, <1>7

LEMMA MsgFragment ==
    ASSUME WsConstants, MsgInv, WsTypeOK', Phases', WsFragment, UNCHANGED <<wire, state>>
    PROVE  MsgInv'
<1>1. PICK n, f \in Nat : Standing(n, f) /\ Below(n)
    BY DEF MsgInv
<1>2. /\ Here = n + 1 /\ n + 1 \in 1..Len(wire) /\ read' = EndOf(n + 1)
      /\ ~wire[n + 1].fin /\ held' = Append(held, n + 1) /\ toVM' = toVM
    BY <1>1, PassedMore DEF WsFragment, MsgInv
<1>3. Passed' = Passed
    BY <1>1, <1>2, PassedMore DEF WsFragment, MsgInv
<1>4. Standing(n + 1, f)'
    <2>1. held' = Run(f, n + 1)
        BY <1>1, <1>2, HeldMore DEF MsgInv
    <2>2. n + 1 \in 0..Len(wire') /\ f \in 1..((n + 1) + 1)
        BY <1>1, <1>2, WireFacts DEF Standing, MsgInv, WsTypeOK
    <2>3. \A j \in f..(n + 1) : ~wire'[j].fin
        BY <1>1, <1>2, <2>2 DEF Standing
    <2>4. read' = IF n + 1 = 0 THEN 0 ELSE EndOf(n + 1)'
        BY <1>1, <1>2 DEF EndOf
    <2> QED BY <1>1, <2>1, <2>2, <2>3, <2>4 DEF Standing
<1>5. Below(n + 1)'
    BY <1>1, <1>2 DEF Below, LastFrame
<1>6. n + 1 \in Nat /\ f \in Nat
    BY <1>1
<1>7. MessagesArriveWhole'
    BY <1>2, <1>3, ToldStays
<1> QED BY <1>4, <1>5, <1>6, <1>7 DEF MsgInv

LEMMA MsgFrame ==
    ASSUME WsConstants, MsgInv, WsTypeOK', Phases', WsProcessFrame, state = "open",
           UNCHANGED <<wire, state>>
    PROVE  MsgInv'
<1>1. PICK n, f \in Nat : Standing(n, f) /\ Below(n)
    BY DEF MsgInv
<1>2. /\ Here = n + 1 /\ n + 1 \in 1..Len(wire) /\ read' = EndOf(n + 1)
      /\ wire[n + 1].fin /\ held' = <<>> /\ n + 1 \in Nat
    BY <1>1, PassedMore DEF WsProcessFrame, MsgInv
<1>3. Standing(n + 1, n + 2)'
    <2>1. held' = Run(n + 2, n + 1)
        BY <1>1, <1>2 DEF Run
    <2>2. n + 1 \in 0..Len(wire') /\ n + 2 \in 1..((n + 1) + 1)
        BY <1>1, <1>2, WireFacts DEF Standing, MsgInv, WsTypeOK
    <2>3. \A j \in (n + 2)..(n + 1) : ~wire'[j].fin
        BY <1>1
    <2>4. read' = IF n + 1 = 0 THEN 0 ELSE EndOf(n + 1)'
        BY <1>1, <1>2 DEF EndOf
    <2>5. wire'[(n + 2) - 1].fin
        BY <1>1, <1>2
    <2> QED BY <1>1, <2>1, <2>2, <2>3, <2>4, <2>5 DEF Standing
<1>4. CASE ~wire[n + 1].good
    <2>1. toVM' = toVM /\ Passed' = Passed
        BY <1>1, <1>2, <1>4, PassedMore DEF WsProcessFrame, MsgInv
    <2>2. Below(n + 1)'
        BY <1>1, <2>1 DEF Below, LastFrame
    <2> QED BY <1>1, <1>3, <2>1, <2>2, ToldStays DEF MsgInv
<1>5. CASE wire[n + 1].good
    <2> DEFINE e == Append(held, n + 1)
    <2>1. toVM' = Append(toVM, e) /\ Passed' = Passed \cup {n + 1}
        BY <1>1, <1>2, <1>5, PassedMore DEF WsProcessFrame, MsgInv
    <2>2. e \in Seq(Nat) /\ e # <<>> /\ e[Len(e)] = n + 1 /\ Fragments(n + 1) = e
        BY <1>1, <1>2, HeldMore, FragmentsAre DEF MsgInv
    <2> HIDE DEF e
    <2>3. toVM \in Seq(Seq(Nat))
        BY DEF MsgInv, WsTypeOK
    <2>4. /\ Growing(toVM) /\ EndsBefore(toVM, n + 1)
          /\ Events(toVM) = {<<NewConnection>>} \cup {Fragments(k) : k \in Passed}
        <3>1. /\ \A i, j \in DOMAIN toVM : i < j => LastFrame(i) < LastFrame(j)
              /\ {toVM[i] : i \in DOMAIN toVM} =
                   {<<NewConnection>> : s \in {state} \ {"new"}} \cup
                   {Fragments(k) : k \in Passed} \cup
                   {<<CloseConnection>> : s \in {state} \cap {"closed"}}
            BY ToldForm DEF MsgInv
        <3>2. \A i \in DOMAIN toVM : LastFrame(i) \in Nat /\ LastFrame(i) <= n
            BY <1>1 DEF Below
        <3>3. \A i \in DOMAIN toVM : LastFrame(i) \in Nat /\ LastFrame(i) < n + 1
            BY <1>1, <3>2
        <3>4. {<<NewConnection>> : s \in {state} \ {"new"}} = {<<NewConnection>>}
            OBVIOUS
        <3>5. {<<CloseConnection>> : s \in {state} \cap {"closed"}} = {}
            OBVIOUS
        <3>6. Growing(toVM) /\ EndsBefore(toVM, n + 1)
            BY <3>1, <3>3 DEF LastFrame, Growing, EndsBefore
        <3> QED BY <3>1, <3>4, <3>5, <3>6 DEF Events
    <2>5. /\ Growing(toVM') /\ EndsBefore(toVM', n + 2)
          /\ Events(toVM') = Events(toVM) \cup {e}
        <3>1. PICK s \in Seq(Seq(Nat)), d \in Seq(Nat), m \in Nat :
                  s = toVM /\ d = e /\ m = n + 1
            BY <1>2, <2>2, <2>3
        <3>2. /\ Growing(Append(s, d))
              /\ Events(Append(s, d)) = Events(s) \cup {d}
              /\ EndsBefore(Append(s, d), m + 1)
            BY <2>2, <2>4, <3>1, OneMore
        <3>3. m + 1 = n + 2
            BY <1>1, <3>1
        <3>4. toVM' = Append(s, d)
            BY <2>1, <3>1
        <3> QED BY <3>1, <3>2, <3>3, <3>4
    <2>6. Events(toVM') =
             {<<NewConnection>> : s \in {state'} \ {"new"}} \cup
             {Fragments(k)' : k \in Passed'} \cup
             {<<CloseConnection'>> : s \in {state'} \cap {"closed"}}
        <3>1. \A k : Fragments(k)' = Fragments(k)
            BY DEF Fragments, Finals
        <3>2. {Fragments(k)' : k \in Passed'} = {Fragments(k) : k \in Passed} \cup {e}
            BY <2>1, <2>2, <3>1
        <3>3. {<<NewConnection>> : s \in {state'} \ {"new"}} = {<<NewConnection>>}
            OBVIOUS
        <3>4. {<<CloseConnection'>> : s \in {state'} \cap {"closed"}} = {}
            OBVIOUS
        <3> QED BY <2>4, <2>5, <3>2, <3>3, <3>4
    <2>7. MessagesArriveWhole'
        BY <2>5, <2>6
        DEF MessagesArriveWhole, Passed, NewConnection, LastFrame, Growing, Events
    <2>8. Below(n + 1)'
        BY <1>1, <2>5 DEF Below, LastFrame, EndsBefore
    <2>9. n + 1 \in Nat /\ n + 2 \in Nat
        BY <1>1
    <2> QED BY <1>3, <2>7, <2>8, <2>9 DEF MsgInv
<1> QED BY <1>4, <1>5

LEMMA MsgOpens ==
    ASSUME WsConstants, MsgInv, WsTypeOK', Phases', WsOnNewConnection, UNCHANGED wire
    PROVE  MsgInv'
<1>1. PICK n, f \in Nat : Standing(n, f) /\ Below(n)
    BY DEF MsgInv
<1>2. /\ state = "new" /\ state' = "open" /\ read = 0 /\ read' = read /\ held' = held
      /\ toVM' = Append(toVM, <<NewConnection>>)
    BY DEF WsOnNewConnection, MsgInv, Phases, recv
<1>3. Passed = {}
    <2>1. n \in 0..Len(wire) /\ read = (IF n = 0 THEN 0 ELSE EndOf(n))
        BY <1>1 DEF Standing
    <2>2. n = 0
        <3>1. SUFFICES ASSUME n # 0 PROVE FALSE
            OBVIOUS
        <3>2. n \in 1..Len(wire)
            BY <2>1, <3>1, WireFacts DEF MsgInv, WsTypeOK
        <3>3. /\ wire[n].start \in Nat /\ wire[n].bytes \in Nat /\ wire[n].size \in Nat
              /\ wire[n].size < wire[n].bytes /\ EndOf(n) = wire[n].start + wire[n].bytes
            BY <3>2, WireFacts DEF MsgInv, WsTypeOK
        <3> QED BY <1>2, <2>1, <3>1, <3>3
    <2>3. \A k \in 1..Len(wire) : EndOf(k) <= read <=> k <= n
        BY <2>1, ReadFrames DEF MsgInv
    <2>4. DOMAIN wire = 1..Len(wire) /\ Len(wire) \in Nat
        BY WireFacts DEF MsgInv, WsTypeOK
    <2> QED BY <2>2, <2>3, <2>4 DEF Passed, Finals
<1>4. Events(toVM) = {}
    BY <1>2, <1>3, ToldForm DEF MsgInv, Events
<1>5. Growing(toVM) /\ EndsBefore(toVM, 0) /\ toVM \in Seq(Seq(Nat))
    BY <1>4 DEF Growing, EndsBefore, Events, MsgInv, WsTypeOK
<1>6. /\ Growing(toVM') /\ EndsBefore(toVM', 1)
      /\ Events(toVM') = {<<NewConnection>>}
    <2> DEFINE event == <<NewConnection>>
    <2>0. event \in Seq(Nat) /\ 0 \in Nat
        BY <1>5 DEF NewConnection
    <2> HIDE DEF event
    <2>1. PICK s \in Seq(Seq(Nat)), e \in Seq(Nat), m \in Nat :
              s = toVM /\ e = event /\ m = 0
        BY <1>5, <2>0
    <2> USE DEF event
    <2>2. e # <<>> /\ e[Len(e)] = m
        BY <2>1 DEF NewConnection
    <2>3. /\ Growing(Append(s, e)) /\ Events(Append(s, e)) = Events(s) \cup {e}
          /\ EndsBefore(Append(s, e), m + 1)
        BY <1>5, <2>1, <2>2, OneMore
    <2>4. m + 1 = 1 /\ toVM' = Append(s, e) /\ Events(s) \cup {e} = {<<NewConnection>>}
        BY <1>2, <1>4, <2>1
    <2> QED BY <2>3, <2>4
<1>7. Passed' = {}
    BY <1>2, <1>3 DEF Passed, Finals, EndOf
<1>8. MessagesArriveWhole'
    <2>1. Events(toVM') =
             {<<NewConnection>> : s \in {state'} \ {"new"}} \cup
             {Fragments(k)' : k \in Passed'} \cup
             {<<CloseConnection'>> : s \in {state'} \cap {"closed"}}
        BY <1>2, <1>6, <1>7
    <2> QED BY <1>6, <2>1
        DEF MessagesArriveWhole, Passed, NewConnection, LastFrame, Growing, Events
<1>9. Standing(n, f)'
    BY <1>1, <1>2 DEF Standing, EndOf
<1>10. Below(n)'
    BY <1>1, <1>6 DEF Below, LastFrame, EndsBefore
<1> QED BY <1>8, <1>9, <1>10 DEF MsgInv

LEMMA MsgCloses ==
    ASSUME WsConstants, MsgInv, WsTypeOK', Phases', WsOnCloseConnection, UNCHANGED wire
    PROVE  MsgInv'
<1>1. PICK n, f \in Nat : Standing(n, f) /\ Below(n)
    BY DEF MsgInv
<1>2. /\ state = "open" /\ state' = "closed" /\ read' = read /\ held' = held
      /\ toVM' = Append(toVM, <<CloseConnection>>)
    BY DEF WsOnCloseConnection, recv
<1>3. CloseConnection \in Nat /\ n < CloseConnection /\ CloseConnection' = CloseConnection
    BY <1>1, WireFacts, SMTT(20) DEF Standing, CloseConnection, MsgInv, WsTypeOK
<1> HIDE DEF CloseConnection
<1>4. /\ Growing(toVM) /\ EndsBefore(toVM, CloseConnection) /\ toVM \in Seq(Seq(Nat))
      /\ Events(toVM) = {<<NewConnection>>} \cup {Fragments(k) : k \in Passed}
    <2>1. /\ \A i, j \in DOMAIN toVM : i < j => LastFrame(i) < LastFrame(j)
          /\ {toVM[i] : i \in DOMAIN toVM} =
               {<<NewConnection>> : s \in {state} \ {"new"}} \cup
               {Fragments(k) : k \in Passed} \cup
               {<<CloseConnection>> : s \in {state} \cap {"closed"}}
        BY ToldForm DEF MsgInv
    <2>2. \A i \in DOMAIN toVM : LastFrame(i) \in Nat /\ LastFrame(i) <= n
        BY <1>1, <1>2 DEF Below
    <2>3. \A i \in DOMAIN toVM : LastFrame(i) \in Nat /\ LastFrame(i) < CloseConnection
        BY <1>1, <1>3, <2>2
    <2>4. {<<NewConnection>> : s \in {state} \ {"new"}} = {<<NewConnection>>}
        BY <1>2
    <2>5. {<<CloseConnection>> : s \in {state} \cap {"closed"}} = {}
        BY <1>2
    <2>6. Growing(toVM) /\ EndsBefore(toVM, CloseConnection)
        BY <2>1, <2>3 DEF LastFrame, Growing, EndsBefore
    <2> QED BY <2>1, <2>4, <2>5, <2>6 DEF Events, MsgInv, WsTypeOK
<1>5. /\ Growing(toVM')
      /\ Events(toVM') = Events(toVM) \cup {<<CloseConnection>>}
    <2> DEFINE event == <<CloseConnection>>
    <2>0. event \in Seq(Nat) /\ CloseConnection \in Nat
        BY <1>3
    <2> HIDE DEF event
    <2>1. PICK s \in Seq(Seq(Nat)), e \in Seq(Nat), m \in Nat :
              s = toVM /\ e = event /\ m = CloseConnection
        BY <1>4, <2>0
    <2> USE DEF event
    <2>2. e # <<>> /\ e[Len(e)] = m
        BY <2>1
    <2>3. /\ Growing(Append(s, e)) /\ Events(Append(s, e)) = Events(s) \cup {e}
        BY <1>4, <2>1, <2>2, OneMore
    <2>4. toVM' = Append(s, e)
        BY <1>2, <2>1
    <2> QED BY <2>1, <2>3, <2>4
<1>6. /\ Passed' = Passed
      /\ \A k : Fragments(k)' = Fragments(k)
    BY <1>2 DEF Passed, Finals, EndOf, Fragments
<1>7. MessagesArriveWhole'
    <2>1. {Fragments(k)' : k \in Passed'} = {Fragments(k) : k \in Passed}
        BY <1>6
    <2>2. /\ {<<NewConnection>> : s \in {state'} \ {"new"}} = {<<NewConnection>>}
          /\ {<<CloseConnection'>> : s \in {state'} \cap {"closed"}} = {<<CloseConnection>>}
        BY <1>2, <1>3
    <2>3. Events(toVM') =
             {<<NewConnection>> : s \in {state'} \ {"new"}} \cup
             {Fragments(k)' : k \in Passed'} \cup
             {<<CloseConnection'>> : s \in {state'} \cap {"closed"}}
        BY <1>4, <1>5, <2>1, <2>2
    <2> QED BY <1>5, <2>3
        DEF MessagesArriveWhole, Passed, NewConnection, LastFrame, Growing, Events
<1>8. Standing(n, f)'
    BY <1>1, <1>2 DEF Standing, EndOf
<1>9. Below(n)'
    BY <1>2 DEF Below
<1> QED BY <1>7, <1>8, <1>9 DEF MsgInv

\* The VM is told of the connection, the messages and the end in this order.
LEMMA StepMsg == WsConstants /\ MsgInv /\ [WsNext]_connVars => MsgInv'
<1> SUFFICES ASSUME WsConstants, MsgInv, [WsNext]_connVars PROVE MsgInv'
    OBVIOUS
<1>1. WsTypeOK /\ Phases
    BY DEF MsgInv
<1>2. WsTypeOK'
    BY <1>1, StepTypes
<1>3. CASE WsOnNewConnection
    <2>1. Phases' /\ UNCHANGED wire
        BY <1>1, <1>3 DEF WsOnNewConnection, Phases, recv
    <2> QED BY <1>2, <1>3, <2>1, MsgOpens
<1>4. CASE WsOnCloseConnection
    <2>1. Phases' /\ UNCHANGED wire
        BY <1>1, <1>4 DEF WsOnCloseConnection, Phases, recv
    <2> QED BY <1>2, <1>4, <2>1, MsgCloses
<1>5. CASE WsProcessStart
    BY <1>1, <1>2, <1>5, NothingMoves DEF WsProcessStart, Phases
<1>6. CASE WsProcessTurn
    <2>1. pc = "turn" /\ state = "open" /\ UNCHANGED <<wire, state>>
        BY <1>1, <1>6 DEF WsProcessTurn, Phases
    <2>2. Phases'
        BY <1>1, <2>1 DEF Phases
    <2>3. CASE WsRefuse
        BY <1>2, <2>1, <2>2, <2>3, NothingMoves DEF WsRefuse
    <2>4. CASE WsWait
        BY <1>2, <2>1, <2>2, <2>4, NothingMoves DEF WsWait
    <2>5. CASE WsFragment
        BY <1>2, <2>1, <2>2, <2>5, MsgFragment
    <2>6. CASE WsProcessFrame
        BY <1>2, <2>1, <2>2, <2>6, MsgFrame
    <2> QED BY <1>6, <2>3, <2>4, <2>5, <2>6 DEF WsProcessTurn
<1>7. CASE WsProcessEnd
    BY <1>1, <1>2, <1>7, NothingMoves DEF WsProcessEnd, Phases
<1>8. CASE WsOnWorkerTunnel
    BY <1>1, <1>2, <1>8, NothingMoves DEF WsOnWorkerTunnel, Phases, recv
<1>9. CASE Framework
    <2>1. UNCHANGED <<wire, read, held, toVM, state>>
        BY <1>9 DEF Framework, Arrive, Drain, HangUp, VMSends, VMCloses, recv
    <2>2. Phases'
        BY <1>1, <1>9 DEF Framework, Arrive, Drain, HangUp, VMSends, VMCloses, recv,
                          Phases, Serves
    <2> QED BY <1>2, <2>1, <2>2, NothingMoves
<1>10. CASE UNCHANGED connVars
    BY <1>1, <1>2, <1>10, NothingMoves DEF connVars, recv, Phases
<1> QED BY <1>3, <1>4, <1>5, <1>6, <1>7, <1>8, <1>9, <1>10 DEF WsNext

\* The VM is told of every message that parses, once, whole and in order,
\* between the connection and its end.
THEOREM MessagesWhole == ASSUME WsConstants PROVE WsSpec => []MessagesArriveWhole
<1>1. MsgInv => MessagesArriveWhole
    BY DEF MsgInv
<1> QED BY <1>1, InitMsg, StepMsg, PTL DEF WsSpec

-----------------------------------------------------------------------------
(* What the client gets *)

\* What is accepted of a package of the VM.
Taken(m) == [number |-> m.number, size |-> m.size, field |-> LengthField(m.size)]
Takens == {Taken(m) : m \in Message}

\* What is accepted are the first packages the VM sent.
Numbered ==
    /\ accepted \in Seq(Takens)
    /\ \A i \in DOMAIN accepted : accepted[i].number = i

\* Nothing will be put into the send buffer any more.
Stuck == state = "closed" \/ (closing # "no" /\ sendBuf > MaxWsSend)

\* Position i of the tunnel, when the order to close is at position c.
InOrder(i, c) ==
    IF i = c THEN toConn[i] = CloseOrder
    ELSE toConn[i].number = Len(accepted) + (IF i < c THEN i ELSE i - 1)

\* The tunnel holds what the VM sent after what was accepted, in order, and
\* the order to close at most once.
Pending ==
    \E c \in Nat \ {0} :
        /\ \A i \in 1..Len(toConn) : InOrder(i, c)
        /\ sends = Len(accepted) + Len(toConn) - (IF c <= Len(toConn) THEN 1 ELSE 0)

GapInv ==
    /\ WsTypeOK
    /\ Numbered
    /\ Stuck \/ Pending

LEMMA InitGap == WsConstants /\ WsInit => GapInv
<1> SUFFICES ASSUME WsConstants, WsInit PROVE GapInv
    OBVIOUS
<1>1. accepted = <<>> /\ toConn = <<>> /\ sends = 0
    BY DEF WsInit, NewConn
<1>2. Pending
    <2>1. /\ \A i \in 1..Len(toConn) : InOrder(i, 1)
          /\ sends = Len(accepted) + Len(toConn) - (IF 1 <= Len(toConn) THEN 1 ELSE 0)
        BY <1>1
    <2> QED BY <2>1 DEF Pending
<1>3. Numbered
    BY <1>1 DEF Numbered
<1> QED BY <1>2, <1>3, InitTypes DEF GapInv

\* The VM sends another package.
LEMMA SendKeepsPending ==
    ASSUME WsTypeOK, Numbered, Pending, NEW m \in Message, m.number = sends + 1,
           toConn' = Append(toConn, m), sends' = sends + 1, accepted' = accepted
    PROVE  Pending'
<1> PICK n \in Nat, a \in Nat : n = Len(toConn) /\ a = Len(accepted)
    BY DEF WsTypeOK, Numbered
<1>1. PICK c \in Nat \ {0} :
        /\ \A i \in 1..n : InOrder(i, c)
        /\ sends = a + n - (IF c <= n THEN 1 ELSE 0)
    BY DEF Pending
<1>2. /\ Len(toConn') = n + 1 /\ Len(accepted') = a
      /\ \A i \in 1..n : toConn'[i] = toConn[i]
      /\ toConn'[n + 1] = m
    BY DEF WsTypeOK
<1>3. PICK d \in Nat \ {0} : d = IF c <= n THEN c ELSE n + 2
    BY <1>1
<1>4. ASSUME NEW i \in 1..(n + 1) PROVE InOrder(i, d)'
    <2>1. CASE i = n + 1
        <3>1. i # d /\ toConn'[i] = m
            BY <1>2, <1>3, <2>1
        <3>2. m.number = a + (IF i < d THEN i ELSE i - 1)
            <4>1. CASE c <= n
                <5>1. sends = a + n - 1 /\ ~(i < d) /\ i - 1 = n
                    BY <1>1, <1>3, <2>1, <4>1
                <5> QED BY <5>1
            <4>2. CASE ~(c <= n)
                <5>1. sends = a + n /\ i < d
                    BY <1>1, <1>3, <2>1, <4>2
                <5> QED BY <2>1, <5>1
            <4> QED BY <4>1, <4>2
        <3> QED BY <1>2, <3>1, <3>2 DEF InOrder
    <2>2. CASE i # n + 1
        <3>1. i \in 1..n
            BY <2>2
        <3>2. InOrder(i, c)
            BY <1>1, <3>1
        <3>3. (i = d <=> i = c) /\ (i < d <=> i < c)
            BY <1>1, <1>3, <3>1
        <3> QED BY <1>2, <3>1, <3>2, <3>3 DEF InOrder
    <2> QED BY <2>1, <2>2
<1>5. sends' = a + (n + 1) - (IF d <= n + 1 THEN 1 ELSE 0)
    BY <1>1, <1>3
<1> QED BY <1>2, <1>3, <1>4, <1>5 DEF Pending

\* The VM orders the worker to close.
LEMMA CloseKeepsPending ==
    ASSUME WsTypeOK, Numbered, Pending, VMCloses
    PROVE  Pending'
<1> PICK n \in Nat, a \in Nat : n = Len(toConn) /\ a = Len(accepted)
    BY DEF WsTypeOK, Numbered
<1>1. PICK c \in Nat \ {0} :
        /\ \A i \in 1..n : InOrder(i, c)
        /\ sends = a + n - (IF c <= n THEN 1 ELSE 0)
    BY DEF Pending
<1>2. CloseOrder \in Message
    BY DEF CloseOrder, Message
<1>3. /\ Len(toConn') = n + 1
      /\ \A i \in 1..n : toConn'[i] = toConn[i]
      /\ toConn'[n + 1] = CloseOrder
      /\ accepted' = accepted /\ sends' = sends
    BY <1>2 DEF WsTypeOK, VMCloses
<1>4. ~(c <= n)
    <2>1. \A i \in DOMAIN toConn : toConn[i] # CloseOrder
        BY DEF VMCloses
    <2>2. DOMAIN toConn = 1..n
        BY DEF WsTypeOK
    <2>3. \A i \in 1..n : toConn[i] # CloseOrder
        BY <2>1, <2>2
    <2>4. c <= n => toConn[c] = CloseOrder
        BY <1>1 DEF InOrder
    <2> QED BY <1>1, <2>3, <2>4
<1> PICK e \in Nat \ {0} : e = n + 1
    OBVIOUS
<1>5. ASSUME NEW i \in 1..e PROVE InOrder(i, e)'
    <2>1. CASE i = e
        BY <1>3, <2>1 DEF InOrder, CloseOrder
    <2>2. CASE i # e
        <3>1. i \in 1..n /\ i < e /\ i < c /\ i # c
            BY <1>1, <1>4, <2>2
        <3>2. InOrder(i, c)
            BY <1>1, <3>1
        <3> QED BY <1>3, <3>1, <3>2 DEF InOrder
    <2> QED BY <2>1, <2>2
<1>6. Len(toConn') = e /\ sends' = Len(accepted') + e - (IF e <= e THEN 1 ELSE 0)
    BY <1>1, <1>3, <1>4
<1> QED BY <1>5, <1>6 DEF Pending

\* The worker takes what is first in the tunnel: the order to close, or the
\* package whose number is next, which it accepts.
LEMMA TakeKeepsPending ==
    ASSUME GapInv, Pending, toConn # <<>>, toConn' = Tail(toConn), sends' = sends,
           \/ Head(toConn) = CloseOrder /\ accepted' = accepted
           \/ /\ Head(toConn) # CloseOrder
              /\ accepted' = Append(accepted, Taken(Head(toConn)))
    PROVE  Pending' /\ Numbered'
<1> PICK n \in Nat \ {0}, a \in Nat : n = Len(toConn) /\ a = Len(accepted)
    BY DEF GapInv, WsTypeOK, Numbered
<1>1. PICK c \in Nat \ {0} :
        /\ \A i \in 1..n : InOrder(i, c)
        /\ sends = a + n - (IF c <= n THEN 1 ELSE 0)
    BY DEF Pending
<1>2. /\ Len(toConn') = n - 1
      /\ \A i \in 1..(n - 1) : toConn'[i] = toConn[i + 1]
      /\ Head(toConn) = toConn[1]
    BY DEF GapInv, WsTypeOK
<1>3. InOrder(1, c)
    BY <1>1
<1>4. CASE Head(toConn) = CloseOrder
    <2>1. accepted' = accepted
        BY <1>4
    <2>2. c = 1
        <3>1. SUFFICES ASSUME c # 1 PROVE FALSE
            OBVIOUS
        <3>2. CloseOrder.number = a + 1
            BY <1>1, <1>2, <1>3, <1>4, <3>1 DEF InOrder
        <3> QED BY <3>2 DEF CloseOrder
    <2>3. ASSUME NEW i \in 1..(n - 1) PROVE InOrder(i, n)'
        <3>1. i + 1 \in 1..n /\ i < n /\ i # n
            OBVIOUS
        <3>2. toConn[i + 1].number = a + i
            <4>1. InOrder(i + 1, 1)
                BY <1>1, <2>2, <3>1
            <4> QED BY <3>1, <4>1 DEF InOrder
        <3> QED BY <1>2, <2>1, <3>1, <3>2 DEF InOrder
    <2>4. sends' = a + (n - 1) - (IF n <= n - 1 THEN 1 ELSE 0)
        BY <1>1, <2>2
    <2>5. Pending'
        BY <1>2, <2>1, <2>3, <2>4 DEF Pending
    <2> QED BY <2>1, <2>5 DEF GapInv, Numbered
<1>5. CASE Head(toConn) # CloseOrder
    <2>1. c # 1 /\ toConn[1].number = a + 1
        BY <1>1, <1>2, <1>3, <1>5 DEF InOrder
    <2>2. /\ Len(accepted') = a + 1 /\ accepted' \in Seq(Takens)
          /\ \A i \in 1..a : accepted'[i] = accepted[i]
          /\ accepted'[a + 1].number = a + 1
          /\ DOMAIN accepted' = 1..(a + 1) /\ DOMAIN accepted = 1..a
        <3>1. PICK p \in Takens : p = Taken(Head(toConn)) /\ p.number = a + 1
            <4>1. Head(toConn) \in Message /\ Head(toConn).number = a + 1
                BY <1>2, <2>1 DEF GapInv, WsTypeOK
            <4> QED BY <4>1 DEF Taken, Takens
        <3>2. accepted \in Seq(Takens) /\ accepted' = Append(accepted, p)
            BY <1>5, <3>1 DEF GapInv, Numbered
        <3> QED BY <3>1, <3>2
    <2>3. Numbered'
        <3>1. \A i \in 1..a : accepted[i].number = i
            BY <2>2 DEF GapInv, Numbered
        <3>2. \A i \in 1..(a + 1) : accepted'[i].number = i
            BY <2>2, <3>1
        <3> QED BY <2>2, <3>2 DEF Numbered
    <2>4. PICK d \in Nat \ {0} : d = c - 1
        BY <1>1, <2>1
    <2>5. ASSUME NEW i \in 1..(n - 1) PROVE InOrder(i, d)'
        <3>1. i + 1 \in 1..n
            OBVIOUS
        <3>2. InOrder(i + 1, c)
            BY <1>1, <3>1
        <3>3. CASE i + 1 = c
            <4>1. i = d
                BY <2>4, <3>3
            <4>2. toConn'[i] = CloseOrder
                BY <1>2, <3>1, <3>2, <3>3 DEF InOrder
            <4> QED BY <4>1, <4>2 DEF InOrder, CloseOrder
        <3>4. CASE i + 1 # c
            <4>1. i # d /\ (i < d <=> i + 1 < c)
                BY <1>1, <2>4, <3>4
            <4>2. toConn[i + 1].number = a + (IF i + 1 < c THEN i + 1 ELSE i)
                BY <3>1, <3>2, <3>4 DEF InOrder
            <4>3. toConn'[i].number = a + 1 + (IF i < d THEN i ELSE i - 1)
                BY <1>2, <3>1, <4>1, <4>2, SMTT(20)
            <4> QED BY <2>2, <4>1, <4>3 DEF InOrder
        <3> QED BY <3>3, <3>4
    <2>6. sends' = (a + 1) + (n - 1) - (IF d <= n - 1 THEN 1 ELSE 0)
        BY <1>1, <2>4
    <2>7. Pending'
        BY <1>2, <2>2, <2>4, <2>5, <2>6 DEF Pending
    <2> QED BY <2>3, <2>7
<1> QED BY <1>4, <1>5

\* A package that finds the buffer too full ends what the client gets.
LEMMA StepGap == WsConstants /\ GapInv /\ [WsNext]_connVars => GapInv'
<1> SUFFICES ASSUME WsConstants, GapInv, [WsNext]_connVars PROVE GapInv'
    OBVIOUS
<1>1. WsTypeOK /\ Numbered /\ (Stuck \/ Pending)
    BY DEF GapInv
<1>2. WsTypeOK'
    BY <1>1, StepTypes
<1> USE DEF recv, send
<1>3. ASSUME UNCHANGED send, state' = state \/ state' = "closed" \/ state = "new",
             closing # "no" => closing' # "no"
      PROVE  GapInv'
    <2>1. Numbered' /\ (Pending => Pending')
        BY <1>1, <1>3 DEF Numbered, Pending, InOrder
    <2>2. Stuck => Stuck'
        BY <1>3 DEF Stuck
    <2> QED BY <1>1, <1>2, <2>1, <2>2 DEF GapInv
<1>4. CASE WsOnNewConnection
    BY <1>3, <1>4 DEF WsOnNewConnection
<1>5. CASE WsOnCloseConnection
    BY <1>3, <1>5 DEF WsOnCloseConnection
<1>6. CASE WsProcessStart \/ WsProcessEnd
    BY <1>3, <1>6 DEF WsProcessStart, WsProcessEnd, Close
<1>7. CASE WsProcessTurn
    BY <1>3, <1>7 DEF WsProcessTurn, WsRefuse, WsWait, WsFragment, WsProcessFrame,
                      TakeFrame, Close
<1>8. CASE WsOnWorkerTunnel
    <2>1. toConn # <<>> /\ toConn' = Tail(toConn) /\ sends' = sends /\ state' = state
        BY <1>8 DEF WsOnWorkerTunnel
    <2>2. CASE state = "closed"
        BY <1>1, <1>2, <1>8, <2>1, <2>2
        DEF WsOnWorkerTunnel, GapInv, Numbered, Stuck
    <2>3. CASE state = "open" /\ Head(toConn) = CloseOrder
        <3>1. Close("vm") /\ UNCHANGED <<sendBuf, accepted>>
            BY <1>8, <2>3 DEF WsOnWorkerTunnel
        <3>2. Stuck => Stuck' /\ Numbered'
            BY <1>1, <2>1, <3>1 DEF Stuck, Close, Numbered
        <3>3. Pending => Pending' /\ Numbered'
            BY <2>1, <2>3, <3>1, TakeKeepsPending
        <3> QED BY <1>1, <1>2, <3>2, <3>3 DEF GapInv
    <2>4. CASE state = "open" /\ Head(toConn) # CloseOrder
        <3>1. ws_send_sync_package(Head(toConn))
            BY <1>8, <2>4 DEF WsOnWorkerTunnel
        <3>2. CASE sendBuf > MaxWsSend
            <4>1. Close("sender") /\ UNCHANGED <<sendBuf, accepted>>
                BY <3>1, <3>2 DEF ws_send_sync_package
            <4>2. Stuck' /\ Numbered'
                BY <1>1, <2>1, <3>2, <4>1 DEF Stuck, Close, Numbered
            <4> QED BY <1>2, <4>2 DEF GapInv
        <3>3. CASE ~(sendBuf > MaxWsSend)
            <4>1. accepted' = Append(accepted, Taken(Head(toConn)))
                BY <3>1, <3>3 DEF ws_send_sync_package, Taken
            <4>2. Pending
                BY <1>1, <2>4, <3>3 DEF Stuck
            <4>3. Pending' /\ Numbered'
                BY <2>1, <2>4, <4>1, <4>2, TakeKeepsPending
            <4> QED BY <1>2, <4>3 DEF GapInv
        <3> QED BY <3>2, <3>3
    <2> QED BY <1>8, <2>2, <2>3, <2>4 DEF WsOnWorkerTunnel
<1>9. CASE Framework
    <2>1. CASE Arrive
        BY <1>3, <2>1 DEF Arrive
    <2>2. CASE HangUp
        BY <1>3, <2>2 DEF HangUp, Close
    <2>3. CASE Drain
        <3>1. Pending /\ UNCHANGED <<toConn, accepted, sends>>
            BY <1>1, <2>3 DEF Drain, Serves, Stuck
        <3> QED BY <1>1, <1>2, <3>1 DEF GapInv, Numbered, Pending, InOrder
    <2>4. CASE VMSends
        <3>1. /\ sends' = sends + 1
              /\ UNCHANGED <<state, closing, sendBuf, accepted>>
            BY <2>4 DEF VMSends
        <3>2. PICK n \in Sizes :
                toConn' = Append(toConn, [number |-> sends + 1, size |-> n])
            BY <2>4 DEF VMSends
        <3>3. [number |-> sends + 1, size |-> n] \in Message
            BY <1>1, <3>2 DEF Message, WsTypeOK
        <3>4. Pending => Pending'
            BY <1>1, <3>1, <3>2, <3>3, SendKeepsPending
        <3> QED BY <1>1, <1>2, <3>1, <3>4 DEF GapInv, Numbered, Stuck
    <2>5. CASE VMCloses
        <3>1. UNCHANGED <<state, closing, sendBuf, accepted>>
            BY <2>5 DEF VMCloses
        <3>2. Pending => Pending'
            BY <1>1, <2>5, CloseKeepsPending
        <3> QED BY <1>1, <1>2, <3>1, <3>2 DEF GapInv, Numbered, Stuck
    <2> QED BY <1>9, <2>1, <2>2, <2>3, <2>4, <2>5 DEF Framework
<1>10. CASE UNCHANGED connVars
    BY <1>3, <1>10 DEF connVars
<1> QED BY <1>4, <1>5, <1>6, <1>7, <1>8, <1>9, <1>10 DEF WsNext

LEMMA GapFollows == WsConstants /\ GapInv => WsClientSeesNoGap
<1> SUFFICES ASSUME WsConstants, GapInv, NEW i \in DOMAIN accepted
             PROVE  /\ accepted[i].number = i
                    /\ PayloadLength(accepted[i].field) = accepted[i].size
    BY DEF WsClientSeesNoGap
<1>1. accepted[i] \in Takens /\ accepted[i].number = i
    BY DEF GapInv, Numbered
<1>2. PICK m \in Message : accepted[i] = Taken(m)
    BY <1>1 DEF Takens
<1>3. m.size \in Nat /\ m.size <= INT32_MAX
    BY SizesAre DEF Message
<1>4. accepted[i].size = m.size /\ accepted[i].field = LengthField(m.size)
    BY <1>2 DEF Taken
<1> QED BY <1>1, <1>3, <1>4, LengthIsRead

\* What the client gets of the VM's packages has no gap, and each header
\* states its package's length as the client reads it.
THEOREM WsNoGap == ASSUME WsConstants PROVE WsSpec => []WsClientSeesNoGap
BY InitGap, StepGap, GapFollows, PTL DEF WsSpec

-----------------------------------------------------------------------------
(* Honest clients *)

LEMMA SetInduction ==
    ASSUME NEW S, 0 \in S, \A n \in Nat : n \in S => n + 1 \in S
    PROVE  Nat \subseteq S
<1> DEFINE T == Nat \ S
           R == OpToRel(<, Nat)
<1> SUFFICES ASSUME T # {} PROVE FALSE
    OBVIOUS
<1>1. IsWellFoundedOn(R, Nat)
    BY NatLessThanWellFounded
<1>2. \A x, y \in Nat : x < y => <<x, y>> \in R
    BY DEF OpToRel
<1> HIDE DEF R
<1>3. PICK x \in T : \A y \in T : ~(<<y, x>> \in R)
    BY <1>1, WFMin
<1>4. x # 0 /\ x \in Nat
    OBVIOUS
<1>5. x - 1 \in T /\ x - 1 \in Nat /\ x - 1 < x
    BY <1>4
<1>6. <<x - 1, x>> \in R
    BY <1>2, <1>4, <1>5
<1> QED BY <1>3, <1>5, <1>6

\* The partial sums of n sizes.
SumsUpTo(g, n, z) == g = [i \in 0..n |-> IF i = 0 THEN 0 ELSE g[i - 1] + z[i]]

LEMMA SumsExist ==
    ASSUME NEW L \in Nat, NEW z \in [1..L -> Nat]
    PROVE  \E g \in [0..L -> Nat] : SumsUpTo(g, L, z)
<1> DEFINE S == {n \in Nat : n <= L => \E g \in [0..n -> Nat] : SumsUpTo(g, n, z)}
<1>1. 0 \in S
    <2>1. [i \in 0..0 |-> 0] \in [0..0 -> Nat]
        OBVIOUS
    <2>2. SumsUpTo([i \in 0..0 |-> 0], 0, z)
        BY DEF SumsUpTo
    <2> QED BY <2>1, <2>2
<1>2. ASSUME NEW n \in Nat, n \in S PROVE n + 1 \in S
    <2> SUFFICES ASSUME n + 1 <= L
                 PROVE  \E g \in [0..(n + 1) -> Nat] : SumsUpTo(g, n + 1, z)
        OBVIOUS
    <2>1. PICK g \in [0..n -> Nat] : SumsUpTo(g, n, z)
        BY <1>2
    <2>2. n + 1 \in 1..L /\ z[n + 1] \in Nat /\ n \in 0..n
        OBVIOUS
    <2> DEFINE h == [i \in 0..(n + 1) |-> IF i = n + 1 THEN g[n] + z[n + 1] ELSE g[i]]
    <2>3. h \in [0..(n + 1) -> Nat]
        BY <2>2
    <2>4. \A i \in 0..n : g[i] = IF i = 0 THEN 0 ELSE g[i - 1] + z[i]
        BY <2>1 DEF SumsUpTo
    <2>5. ASSUME NEW i \in 0..(n + 1)
          PROVE  h[i] = IF i = 0 THEN 0 ELSE h[i - 1] + z[i]
        <3>1. CASE i = n + 1
            BY <3>1
        <3>2. CASE i # n + 1
            BY <2>4, <3>2
        <3> QED BY <3>1, <3>2
    <2>6. h = [i \in 0..(n + 1) |-> h[i]]
        OBVIOUS
    <2> HIDE DEF h
    <2>7. SumsUpTo(h, n + 1, z)
        BY <2>5, <2>6 DEF SumsUpTo
    <2> QED BY <2>3, <2>7
<1> HIDE DEF S
<1>3. Nat \subseteq S
    BY <1>1, <1>2, SetInduction
<1> QED BY <1>3 DEF S

LEMMA SumsAreSizes ==
    ASSUME NEW L \in Nat, NEW z \in [1..L -> Nat], NEW g, SumsUpTo(g, L, z)
    PROVE  g \in [0..L -> Nat]
<1> DEFINE S == {n \in Nat : n <= L => g[n] \in Nat}
<1>1. \A i \in 0..L : g[i] = IF i = 0 THEN 0 ELSE g[i - 1] + z[i]
    BY DEF SumsUpTo
<1>2. 0 \in S
    BY <1>1
<1>3. ASSUME NEW n \in Nat, n \in S PROVE n + 1 \in S
    <2> SUFFICES ASSUME n + 1 <= L PROVE g[n + 1] \in Nat
        OBVIOUS
    <2>1. n + 1 \in 1..L /\ n + 1 \in 0..L /\ (n + 1) - 1 = n /\ n + 1 # 0
        OBVIOUS
    <2>2. g[n + 1] = g[n] + z[n + 1] /\ z[n + 1] \in Nat
        BY <1>1, <2>1
    <2>3. g[n] \in Nat
        BY <1>3
    <2> QED BY <2>2, <2>3
<1> HIDE DEF S
<1>4. Nat \subseteq S
    BY <1>2, <1>3, SetInduction
<1>5. \A n \in 0..L : g[n] \in Nat
    BY <1>4 DEF S
<1>6. g = [i \in 0..L |-> g[i]]
    BY <1>1 DEF SumsUpTo
<1> QED BY <1>5, <1>6

\* Sizes that lie between positions add up to no more than these are apart.
LEMMA SumsFit ==
    ASSUME NEW L \in Nat, NEW z \in [1..L -> Nat], NEW a \in [0..L -> Nat],
           NEW g \in [0..L -> Nat], SumsUpTo(g, L, z),
           \A i \in 1..L : a[i - 1] + z[i] <= a[i]
    PROVE  g[L] + a[0] <= a[L]
<1> DEFINE S == {n \in Nat : n <= L => g[n] + a[0] <= a[n]}
<1>1. 0 \in S
    <2>1. g[0] = 0
        BY DEF SumsUpTo
    <2> QED BY <2>1
<1>2. ASSUME NEW n \in Nat, n \in S PROVE n + 1 \in S
    <2> SUFFICES ASSUME n + 1 <= L PROVE g[n + 1] + a[0] <= a[n + 1]
        OBVIOUS
    <2>1. n + 1 \in 1..L /\ n \in 0..L /\ (n + 1) - 1 = n /\ n + 1 # 0 /\ n + 1 \in 0..L
        OBVIOUS
    <2>2. g[n + 1] = g[n] + z[n + 1]
        BY <2>1 DEF SumsUpTo
    <2>3. a[n] + z[n + 1] <= a[n + 1]
        BY <2>1
    <2>4. g[n] + a[0] <= a[n]
        BY <1>2
    <2>5. /\ a[n] \in Nat /\ a[n + 1] \in Nat /\ a[0] \in Nat
          /\ g[n] \in Nat /\ z[n + 1] \in Nat
        BY <2>1
    <2> QED BY <2>2, <2>3, <2>4, <2>5, SMTT(30)
<1> HIDE DEF S
<1>3. Nat \subseteq S
    BY <1>1, <1>2, SetInduction
<1> QED BY <1>3 DEF S

\* The payloads held fit between the start of the message and the parser.
LEMMA HeldFits ==
    ASSUME WsConstants, WsTypeOK, NEW n, NEW f, Standing(n, f)
    PROVE  /\ HeldSize \in Nat
           /\ held = <<>> => HeldSize = 0
           /\ f <= n => HeldSize + wire[f].start <= EndOf(n)
<1>1. /\ Len(wire) \in Nat /\ n \in Nat /\ n <= Len(wire)
      /\ f \in 1..(n + 1) /\ held = Run(f, n)
    BY WireFacts DEF Standing, WsTypeOK
<1>2. PICK L \in Nat : L = n - f + 1
    BY <1>1
<1>3. Len(held) = L /\ \A i \in 1..L : held[i] = f + i - 1
    BY <1>1, <1>2 DEF Run
<1> DEFINE z == [i \in 1..L |-> wire[held[i]].size]
<1>4. \A i \in 1..L : f + i - 1 \in 1..Len(wire)
    BY <1>1, <1>2
<1>5. z \in [1..L -> Nat]
    <2>1. ASSUME NEW i \in 1..L PROVE wire[held[i]].size \in Nat
        BY <1>3, <1>4, WireFacts DEF WsTypeOK
    <2> QED BY <2>1
<1> DEFINE g == CHOOSE g : SumsUpTo(g, L, z)
<1>6. HeldSize = g[L]
    <2>1. \A h : SumsUpTo(h, L, z) <=>
                   h = [i \in 0..L |-> IF i = 0 THEN 0 ELSE h[i - 1] + wire[held[i]].size]
        <3> SUFFICES ASSUME NEW h
                     PROVE  [i \in 0..L |-> IF i = 0 THEN 0 ELSE h[i - 1] + z[i]] =
                            [i \in 0..L |-> IF i = 0 THEN 0
                                            ELSE h[i - 1] + wire[held[i]].size]
            BY DEF SumsUpTo
        <3>1. \A i \in 0..L : i # 0 => z[i] = wire[held[i]].size
            OBVIOUS
        <3> QED BY <3>1
    <2> DEFINE d == CHOOSE h : h = [i \in 0..L |-> IF i = 0 THEN 0
                                                   ELSE h[i - 1] + wire[held[i]].size]
    <2>2. HeldSize = d[L]
        BY <1>3 DEF HeldSize
    <2> HIDE DEF z
    <2>3. g = d
        BY <2>1
    <2> QED BY <2>2, <2>3
<1> HIDE DEF z
<1>7. \E h \in [0..L -> Nat] : SumsUpTo(h, L, z)
    BY <1>5, SumsExist
<1>8. SumsUpTo(g, L, z)
    BY <1>7
<1>9. g \in [0..L -> Nat] /\ g[L] \in Nat
    <2>1. PICK y, h : y \in [1..L -> Nat] /\ y = z /\ h = g
        BY <1>5
    <2> HIDE DEF g
    <2>2. h \in [0..L -> Nat]
        BY <1>8, <2>1, SumsAreSizes
    <2> QED BY <2>1, <2>2
<1>10. held = <<>> => HeldSize = 0
    <2> SUFFICES ASSUME held = <<>> PROVE g[L] = 0
        BY <1>6
    <2>1. L = 0
        BY <1>3
    <2> QED BY <1>8, <2>1 DEF SumsUpTo
<1>11. ASSUME f <= n PROVE HeldSize + wire[f].start <= EndOf(n)
    <2> DEFINE a == [i \in 0..L |-> IF i = 0 THEN wire[f].start ELSE EndOf(f + i - 1)]
    <2>1. f \in 1..Len(wire) /\ L \in 0..L /\ L # 0 /\ f + L - 1 = n /\ 0 \in 0..L
        BY <1>1, <1>2, <1>11
    <2>2. \A k \in 1..Len(wire) :
              /\ wire[k].start \in Nat /\ EndOf(k) \in Nat
              /\ wire[k].bytes \in Nat /\ wire[k].size \in Nat
              /\ wire[k].size < wire[k].bytes
              /\ EndOf(k) = wire[k].start + wire[k].bytes
        BY WireFacts DEF WsTypeOK
    <2>3. a \in [0..L -> Nat]
        <3>1. ASSUME NEW i \in 0..L
              PROVE  (IF i = 0 THEN wire[f].start ELSE EndOf(f + i - 1)) \in Nat
            BY <1>4, <2>1, <2>2
        <3> QED BY <3>1
    <2>4. ASSUME NEW i \in 1..L PROVE a[i - 1] + z[i] <= a[i]
        <3>1. /\ i \in 0..L /\ i # 0 /\ i - 1 \in 0..L
              /\ f + i - 1 \in 1..Len(wire) /\ f + (i - 1) = f + i - 1
            BY <1>1, <1>4
        <3>2. PICK k \in 1..Len(wire) : k = f + i - 1
            BY <3>1
        <3>3. z[i] = wire[k].size /\ a[i] = EndOf(k)
            BY <1>3, <3>1, <3>2 DEF z
        <3>4. a[i - 1] = wire[k].start
            <4>1. CASE i = 1
                BY <1>1, <3>1, <3>2, <4>1
            <4>2. CASE i # 1
                <5>1. k - 1 \in 1..Len(wire) /\ i - 1 # 0 /\ f + (i - 1) - 1 = k - 1
                      /\ k - 1 < k /\ k = (k - 1) + 1
                    BY <1>1, <3>1, <3>2, <4>2
                <5>2. EndOf(k - 1) = wire[k].start
                    BY <5>1, WireFacts DEF WsTypeOK
                <5> QED BY <3>1, <5>1, <5>2
            <4> QED BY <4>1, <4>2
        <3>5. /\ wire[k].start \in Nat /\ wire[k].bytes \in Nat /\ wire[k].size \in Nat
              /\ wire[k].size < wire[k].bytes /\ EndOf(k) = wire[k].start + wire[k].bytes
            BY <2>2
        <3> HIDE DEF a
        <3> QED BY <3>3, <3>4, <3>5
    <2>5. a[0] = wire[f].start /\ a[L] = EndOf(n)
        BY <2>1
    <2> HIDE DEF a, g
    <2>6. PICK y \in [1..L -> Nat], b \in [0..L -> Nat], h \in [0..L -> Nat] :
              y = z /\ b = a /\ h = g
        BY <1>5, <1>9, <2>3
    <2>7. h[L] + b[0] <= b[L]
        <3>1. SumsUpTo(h, L, y) /\ \A i \in 1..L : b[i - 1] + y[i] <= b[i]
            BY <1>8, <2>4, <2>6
        <3> QED BY <3>1, SumsFit
    <2> QED BY <1>6, <2>5, <2>6, <2>7
<1> QED BY <1>6, <1>9, <1>10, <1>11

\* No frame that has arrived is left in the buffer.
Drained == \A k \in 1..Len(wire) : EndOf(k) <= got => EndOf(k) <= read

HonestInv ==
    /\ MsgInv
    /\ WsHonest => /\ closing \notin {"parser", "garbage"}
                   /\ pc \in {"wait", "check"} => Drained

\* If bytes are left, the parser stands before a frame.
LEMMA BytesAreOfAFrame ==
    ASSUME WsConstants, WsTypeOK, NEW n, NEW f, Standing(n, f), RecvSize > 0
    PROVE  Aligned /\ Here = n + 1 /\ n + 1 \in 1..Len(wire)
<1>1. n \in 0..Len(wire) /\ read = IF n = 0 THEN 0 ELSE EndOf(n)
    BY DEF Standing
<1>2. n # Len(wire)
    <2>1. SUFFICES ASSUME n = Len(wire) PROVE FALSE
        OBVIOUS
    <2>2. read = Total
        BY <1>1, <2>1, ReadFrames
    <2> QED BY <2>2 DEF RecvSize, WsTypeOK
<1>3. Aligned
    <2>1. Len(wire) \in Nat
        BY WireFacts DEF WsTypeOK
    <2>2. n < Len(wire)
        BY <1>1, <1>2, <2>1
    <2> QED BY <1>1, <2>2, ReadFrames
<1> QED BY <1>1, <1>3, ReadFrames

\* Where the parser waits, the next frame is not complete.
LEMMA WaitDrains ==
    ASSUME WsConstants, MsgInv, WsWait
    PROVE  Drained
<1>1. PICK n, f \in Nat : Standing(n, f)
    BY DEF MsgInv
<1>2. WsTypeOK /\ got \in Nat /\ read \in Nat /\ read <= got
    BY DEF MsgInv, WsTypeOK
<1>3. CASE ~(RecvSize > 0)
    <2>1. got = read
        BY <1>2, <1>3 DEF RecvSize
    <2> QED BY <2>1 DEF Drained
<1>4. CASE RecvSize > 0
    <2>1. n + 1 \in 1..Len(wire) /\ wire[n + 1].bytes > RecvSize /\ wire[n + 1].start = read
        <3>1. Aligned /\ Here = n + 1 /\ n + 1 \in 1..Len(wire)
            BY <1>1, <1>2, <1>4, BytesAreOfAFrame
        <3> QED BY <1>4, <3>1, HereFacts DEF WsWait
    <2>2. \A k \in 1..Len(wire) :
              /\ EndOf(k) = wire[k].start + wire[k].bytes
              /\ wire[k].start \in Nat /\ wire[k].bytes \in Nat /\ EndOf(k) \in Nat
        BY <1>2, WireFacts DEF WsTypeOK
    <2>3. got < EndOf(n + 1) /\ EndOf(n + 1) \in Nat
        <3>1. EndOf(n + 1) = read + wire[n + 1].bytes /\ wire[n + 1].bytes \in Nat
            BY <2>1, <2>2
        <3> QED BY <1>2, <2>1, <3>1 DEF RecvSize
    <2>4. ASSUME NEW k \in 1..Len(wire), EndOf(k) <= got PROVE EndOf(k) <= read
        <3>1. k # n + 1 /\ EndOf(k) \in Nat
            BY <1>2, <2>2, <2>3, <2>4
        <3>2. ~(k > n + 1)
            <4>1. SUFFICES ASSUME k > n + 1 PROVE FALSE
                OBVIOUS
            <4>2. EndOf(n + 1) <= wire[k].start
                BY <1>2, <2>1, <4>1, WireFacts DEF WsTypeOK
            <4>3. wire[k].start <= EndOf(k) /\ wire[k].start \in Nat
                BY <2>2
            <4> QED BY <1>2, <2>3, <2>4, <3>1, <4>2, <4>3
        <3>3. k < n + 1
            BY <1>1, <3>1, <3>2
        <3>4. EndOf(k) <= wire[n + 1].start
            BY <1>2, <2>1, <3>3, WireFacts DEF WsTypeOK
        <3> QED BY <2>1, <3>4
    <2> QED BY <2>4 DEF Drained
<1> QED BY <1>3, <1>4

\* What is left of an honest client is never too much.
LEMMA LeftoversFit ==
    ASSUME WsConstants, MsgInv, WsHonest, Drained
    PROVE  ~(RecvSize > MaxHeld) /\ ~(HeldSize > MaxHeld)
<1>1. PICK n, f \in Nat : Standing(n, f)
    BY DEF MsgInv
<1>2. /\ WsTypeOK /\ got \in Nat /\ read \in Nat /\ read <= got /\ MaxHeld \in Nat
      /\ DOMAIN wire = 1..Len(wire) /\ Len(wire) \in Nat
      /\ n \in 0..Len(wire) /\ f \in 1..(n + 1)
      /\ \A k \in 1..Len(wire) :
           /\ EndOf(k) = wire[k].start + wire[k].bytes
           /\ wire[k].start \in Nat /\ wire[k].bytes \in Nat /\ EndOf(k) \in Nat
           /\ wire[k].size \in Nat /\ wire[k].size < wire[k].bytes
    <2>1. WsTypeOK
        BY DEF MsgInv
    <2> QED BY <1>1, <2>1, WireFacts DEF WsTypeOK, WsConstants, Standing
<1>3. ~(RecvSize > MaxHeld)
    <2>1. CASE ~(RecvSize > 0)
        BY <1>2, <2>1 DEF RecvSize
    <2>2. CASE RecvSize > 0
        <3>1. n + 1 \in 1..Len(wire) /\ wire[n + 1].start = read
            <4>1. Aligned /\ Here = n + 1 /\ n + 1 \in 1..Len(wire)
                BY <1>1, <1>2, <2>2, BytesAreOfAFrame
            <4> QED BY <4>1, HereFacts
        <3>2. /\ EndOf(n + 1) = read + wire[n + 1].bytes
              /\ wire[n + 1].bytes \in Nat /\ wire[n + 1].bytes > 0
            <4>1. wire[n + 1].size \in Nat /\ wire[n + 1].size < wire[n + 1].bytes
                BY <1>2, <3>1
            <4> QED BY <1>2, <3>1, <4>1
        <3>3. ~(EndOf(n + 1) <= got)
            <4>1. EndOf(n + 1) <= got => EndOf(n + 1) <= read
                BY <3>1 DEF Drained
            <4> QED BY <1>2, <3>2, <4>1
        <3>4. wire[n + 1].bytes <= MaxHeld
            BY <1>2, <3>1 DEF WsHonest
        <3> QED BY <1>2, <3>2, <3>3, <3>4 DEF RecvSize
    <2> QED BY <2>1, <2>2
<1>4. ~(HeldSize > MaxHeld)
    <2>1. /\ HeldSize \in Nat
          /\ held = <<>> => HeldSize = 0
          /\ f <= n => HeldSize + wire[f].start <= EndOf(n)
        BY <1>1, <1>2, HeldFits
    <2>2. CASE f <= n
        <3>1. n \in 1..Len(wire) /\ f \in 1..n /\ f \in 1..Len(wire)
            BY <1>2, <2>2
        <3>2. \A i \in f..n : ~wire[i].fin
            BY <1>1 DEF Standing
        <3>3. wire[n].start + wire[n].bytes - wire[f].start <= MaxHeld
            BY <1>2, <3>1, <3>2 DEF WsHonest
        <3>4. /\ wire[n].start \in Nat /\ wire[n].bytes \in Nat /\ wire[f].start \in Nat
              /\ EndOf(n) = wire[n].start + wire[n].bytes
            BY <1>2, <3>1
        <3>5. HeldSize \in Nat /\ MaxHeld \in Nat /\ HeldSize + wire[f].start <= EndOf(n)
            BY <1>2, <2>1, <2>2
        <3> QED BY <3>3, <3>4, <3>5
    <2>3. CASE ~(f <= n)
        <3>1. n - f + 1 = 0
            BY <1>2, <2>3
        <3>2. held = <<>>
            BY <1>1, <3>1 DEF Standing, Run
        <3> QED BY <1>2, <2>1, <3>2
    <2> QED BY <2>2, <2>3
<1> QED BY <1>3, <1>4

LEMMA InitHonest == WsConstants /\ WsInit => HonestInv
<1> SUFFICES ASSUME WsConstants, WsInit PROVE HonestInv
    OBVIOUS
<1>1. MsgInv /\ WsTypeOK
    BY InitMsg, InitTypes
<1>2. read = 0 /\ got = 0 /\ closing = "no"
    BY DEF WsInit, NewConn
<1> QED BY <1>1, <1>2 DEF HonestInv, Drained

\* No step makes the server refuse an honest client or leave its frames.
LEMMA StepHonest == WsConstants /\ HonestInv /\ [WsNext]_connVars => HonestInv'
<1> SUFFICES ASSUME WsConstants, HonestInv, [WsNext]_connVars PROVE HonestInv'
    OBVIOUS
<1>1. MsgInv /\ MsgInv' /\ WsTypeOK
    BY StepMsg DEF HonestInv, MsgInv
<1> USE DEF recv, send
<1>2. UNCHANGED <<wire, task_type>>
    BY DEF WsNext, connVars, WsOnNewConnection, WsOnCloseConnection, WsProcessStart,
           WsProcessTurn, WsProcessEnd, WsOnWorkerTunnel, Framework, Arrive, Drain,
           HangUp, VMSends, VMCloses
<1>3. WsHonest' <=> WsHonest
    BY <1>2 DEF WsHonest
<1>4. ASSUME UNCHANGED <<got, read, pc>>,
             closing' = closing \/ closing' \notin {"parser", "garbage"}
      PROVE  HonestInv'
    BY <1>1, <1>2, <1>3, <1>4 DEF HonestInv, Drained, EndOf
<1>5. CASE WsOnNewConnection \/ WsOnCloseConnection
    BY <1>4, <1>5 DEF WsOnNewConnection, WsOnCloseConnection
<1>6. CASE WsProcessStart
    BY <1>1, <1>3, <1>6 DEF WsProcessStart, HonestInv
<1>7. CASE WsProcessTurn
    <2>1. PICK n, f \in Nat : Standing(n, f)
        BY <1>1 DEF MsgInv
    <2>2. pc = "turn" /\ got' = got
        BY <1>7 DEF WsProcessTurn
    <2>3. RecvSize > 0 => Aligned /\ Here = n + 1 /\ n + 1 \in DOMAIN wire
        BY <1>1, <2>1, BytesAreOfAFrame, WireFacts DEF WsTypeOK
    <2>4. CASE WsRefuse
        <3>1. ~WsHonest
            BY <2>3, <2>4 DEF WsRefuse, DataFrame, WsHonest
        <3> QED BY <1>1, <1>3, <3>1 DEF HonestInv
    <2>5. CASE WsWait
        <3>1. Drained
            BY <1>1, <2>5, WaitDrains
        <3>2. Drained'
            BY <1>2, <2>2, <2>5, <3>1 DEF WsWait, Drained, EndOf
        <3> QED BY <1>1, <1>3, <2>5, <3>2 DEF HonestInv, WsWait
    <2>6. CASE WsFragment
        BY <1>1, <1>3, <2>2, <2>6 DEF HonestInv, WsFragment
    <2>7. CASE WsProcessFrame
        <3>1. RecvSize > 0 /\ wire[Here].fin
            BY <2>7 DEF WsProcessFrame, TakeFrame
        <3>2. WsHonest => wire[Here].good
            BY <2>3, <3>1 DEF WsHonest
        <3>3. WsHonest => closing' = closing
            BY <2>7, <3>2 DEF WsProcessFrame
        <3>4. pc' = "turn"
            BY <2>2, <2>7 DEF WsProcessFrame
        <3> QED BY <1>1, <1>3, <3>3, <3>4 DEF HonestInv
    <2> QED BY <1>7, <2>4, <2>5, <2>6, <2>7 DEF WsProcessTurn
<1>8. CASE WsProcessEnd
    <2>1. UNCHANGED <<got, read>> /\ pc = "check"
        BY <1>8 DEF WsProcessEnd
    <2>2. Drained => Drained'
        BY <1>2, <2>1 DEF Drained, EndOf
    <2>3. WsHonest => Drained
        BY <2>1 DEF HonestInv
    <2>4. WsHonest => closing' = closing
        BY <1>1, <1>8, <2>3, LeftoversFit DEF WsProcessEnd
    <2> QED BY <1>1, <1>3, <2>2, <2>3, <2>4 DEF HonestInv
<1>9. CASE WsOnWorkerTunnel
    <2>1. closing' = closing \/ closing' \notin {"parser", "garbage"}
        BY <1>9 DEF WsOnWorkerTunnel, ws_send_sync_package, Close
    <2> QED BY <1>4, <1>9, <2>1 DEF WsOnWorkerTunnel
<1>10. CASE Framework
    <2>1. CASE Arrive
        BY <1>1, <1>3, <2>1 DEF Arrive, HonestInv
    <2>2. CASE HangUp
        BY <1>4, <2>2 DEF HangUp, Close
    <2>3. CASE Drain \/ VMSends \/ VMCloses
        BY <1>4, <2>3 DEF Drain, VMSends, VMCloses
    <2> QED BY <1>10, <2>1, <2>2, <2>3 DEF Framework
<1>11. CASE UNCHANGED connVars
    BY <1>4, <1>11 DEF connVars
<1> QED BY <1>5, <1>6, <1>7, <1>8, <1>9, <1>10, <1>11 DEF WsNext

LEMMA HonestFollows == WsConstants /\ HonestInv => WsHonestClientsAreServed
<1> SUFFICES ASSUME WsConstants, HonestInv, WsHonest
             PROVE  WsHonestClientsAreServed
    BY DEF WsHonestClientsAreServed
<1>1. DOMAIN wire = 1..Len(wire)
    BY WireFacts DEF HonestInv, MsgInv, WsTypeOK
<1> QED BY <1>1 DEF HonestInv, WsHonestClientsAreServed, Drained, Serves

\* A client that keeps to the protocol and to the limits is never refused, and
\* its frames do not wait for later bytes, however they are cut.
THEOREM WsHonestAreServed ==
    ASSUME WsConstants PROVE WsSpec => []WsHonestClientsAreServed
BY InitHonest, StepHonest, HonestFollows, PTL DEF WsSpec
=============================================================================
