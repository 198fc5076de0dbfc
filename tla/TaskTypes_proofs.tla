-------------------------- MODULE TaskTypes_proofs --------------------------
(***************************************************************************)
(* Proofs about StreamApp, for every set of wires, every way of cutting    *)
(* them into arrivals and every limit, and about what TaskTypes puts       *)
(* together: static files over HTTP, the reloads of the virtual machines,  *)
(* and the clients of the other two task types, whose parts are proved in  *)
(* the first half of this module and in WebSocketApp_proofs.               *)
(***************************************************************************)
EXTENDS TaskTypes, SequenceTheorems, TLAPS

-----------------------------------------------------------------------------
(* TCP clients: types *)

Message == [number : Nat, size : Nat]

StreamTypeOK ==
    /\ task_type = "STREAM_TASK"
    /\ wire \in Wires
    /\ got \in Nat /\ read \in Nat /\ read <= got /\ got <= Total
    /\ pc \in {"wait", "start", "turn"}
    /\ state \in {"new", "open", "closed"}
    /\ closing \in {"no", "client", "parser", "vm", "sender"}
    /\ toVM \in Seq(Nat)
    /\ toConn \in Seq(Message)
    /\ sendBuf \in Nat
    /\ accepted \in Seq(Nat)
    /\ sends \in Nat

\* What the assumption says of a wire and its frames.
LEMMA WireFacts ==
    ASSUME wire \in Wires
    PROVE  /\ DOMAIN wire = 1..Len(wire) /\ Len(wire) \in Nat
           /\ Total \in Nat
           /\ \A k \in 1..Len(wire) :
                /\ wire[k].start \in Nat /\ wire[k].size \in Nat
                /\ wire[k].good \in BOOLEAN
                /\ wire[k].bytes = HeadSize + wire[k].size
                /\ EndOf(k) = wire[k].start + HeadSize + wire[k].size
                /\ EndOf(k) \in Nat
           /\ \A i, j \in 1..Len(wire) :
                i < j => /\ EndOf(i) <= wire[j].start
                         /\ j = i + 1 => EndOf(i) = wire[j].start
           /\ Len(wire) # 0 => wire[1].start = 0 /\ Total = EndOf(Len(wire))
           /\ Len(wire) = 0 => Total = 0
PROOF
<1>1. DOMAIN wire = 1..Len(wire) /\ Len(wire) \in Nat
  BY StreamAssumption
<1>2. \A k \in 1..Len(wire) :
        /\ wire[k].start \in Nat /\ wire[k].size \in Nat
        /\ wire[k].good \in BOOLEAN
  BY <1>1, StreamAssumption
<1>3. \A k \in 1..Len(wire) : wire[k].bytes = HeadSize + wire[k].size
  BY <1>1, StreamAssumption
<1>4. HeadSize \in Nat
  BY StreamAssumption
<1>5. \A k \in 1..Len(wire) :
        /\ EndOf(k) = wire[k].start + HeadSize + wire[k].size
        /\ EndOf(k) \in Nat
  BY <1>2, <1>3, <1>4 DEF EndOf
<1>6. Contiguous(wire)
  BY StreamAssumption
<1>7. \A i, j \in 1..Len(wire) :
        i < j => /\ EndOf(i) <= wire[j].start
                 /\ j = i + 1 => EndOf(i) = wire[j].start
  BY <1>1, <1>6 DEF Contiguous, EndOf
<1>8. CASE Len(wire) = 0
  <2>1. Total = 0
    BY <1>8 DEF Total
  <2> QED BY <2>1, <1>8, <1>1, <1>2, <1>3, <1>5, <1>7
<1>9. CASE Len(wire) # 0
  <2>1. Total = EndOf(Len(wire)) /\ wire[1].start = 0
    BY <1>6, <1>9 DEF Total, EndOf, Contiguous
  <2>2. Total \in Nat
    BY <2>1, <1>9, <1>1, <1>5
  <2> QED BY <2>1, <2>2, <1>9, <1>1, <1>2, <1>3, <1>5, <1>7
<1> QED BY <1>8, <1>9

LEMMA HereFacts ==
    ASSUME Aligned
    PROVE  Here \in DOMAIN wire /\ wire[Here].start = read
BY DEF Aligned, Here

LEMMA DataSizeNat ==
    ASSUME wire \in Wires
    PROVE  DataSize \in Nat
BY HereFacts, StreamAssumption DEF DataSize

\* A whole frame in the buffer is one of the wire's, and it starts here.
LEMMA WholeFacts ==
    ASSUME StreamTypeOK, Whole
    PROVE  /\ Here \in 1..Len(wire) /\ wire[Here].start = read
           /\ DataSize = wire[Here].size
           /\ read + HeadSize + DataSize = EndOf(Here)
           /\ EndOf(Here) \in Nat /\ EndOf(Here) <= got /\ read < EndOf(Here)
PROOF
<1>1. wire \in Wires /\ read \in Nat /\ got \in Nat
  BY DEF StreamTypeOK
<1>2. MaxPackage \in Nat /\ HeadSize \in Nat \ {0}
  BY StreamAssumption
<1>3. DataSize <= MaxPackage /\ DataSize + HeadSize <= RecvSize
  BY DEF Whole, on_recved_packsize
<1>4. Aligned
  <2>1. SUFFICES ASSUME ~Aligned PROVE FALSE
    OBVIOUS
  <2>2. DataSize = MaxPackage + 1
    BY <2>1 DEF DataSize
  <2> QED BY <2>2, <1>2, <1>3
<1>5. Here \in 1..Len(wire) /\ wire[Here].start = read
  BY <1>1, <1>4, HereFacts, WireFacts
<1>6. DataSize = wire[Here].size
  BY <1>4 DEF DataSize
<1>7. /\ EndOf(Here) = wire[Here].start + HeadSize + wire[Here].size
      /\ EndOf(Here) \in Nat /\ wire[Here].size \in Nat
  BY <1>1, <1>5, WireFacts
<1>8. EndOf(Here) <= got /\ read < EndOf(Here)
  BY <1>1, <1>2, <1>3, <1>5, <1>6, <1>7 DEF RecvSize
<1> QED BY <1>2, <1>5, <1>6, <1>7, <1>8

LEMMA InitTypes == StreamInit => StreamTypeOK
BY WireFacts DEF StreamInit, NewConn, StreamTypeOK

\* Every variable keeps its type, and what is read has arrived.
LEMMA StepTypes == StreamTypeOK /\ [StreamNext]_connVars => StreamTypeOK'
PROOF
<1> SUFFICES ASSUME StreamTypeOK, [StreamNext]_connVars PROVE StreamTypeOK'
  OBVIOUS
<1> USE DEF StreamTypeOK, recv, send
<1>0. MaxSends \in Nat /\ HeadSize \in Nat /\ Cuts \subseteq Nat
      /\ Sizes \subseteq Nat /\ Levels \subseteq Nat
  BY StreamAssumption
<1>1. /\ Len(wire) \in Nat
      /\ NewConnection \in Nat /\ CloseConnection \in Nat
  BY WireFacts DEF NewConnection, CloseConnection
<1>2. CASE OnNewConnection /\ UNCHANGED task_type
  BY <1>1, <1>2 DEF OnNewConnection, Total
<1>3. CASE OnCloseConnection /\ UNCHANGED task_type
  BY <1>1, <1>3 DEF OnCloseConnection, Total
<1>4. CASE ProcessStart /\ UNCHANGED task_type
  BY <1>4 DEF ProcessStart, Close, Total
<1>5. CASE ProcessTurn /\ UNCHANGED task_type
  <2>1. CASE Refuse
    BY <1>5, <2>1 DEF ProcessTurn, Refuse, Close, Total
  <2>2. CASE Wait
    BY <1>5, <2>2 DEF ProcessTurn, Wait, Total
  <2>3. CASE Skip
    <3>1. read' = EndOf(Here) /\ EndOf(Here) \in Nat /\ EndOf(Here) <= got
      BY <2>3, WholeFacts DEF Skip
    <3> QED BY <1>5, <2>3, <3>1 DEF ProcessTurn, Skip, Whole, Total
  <2>4. CASE Forward
    <3>1. /\ read' = EndOf(Here) /\ EndOf(Here) \in Nat /\ EndOf(Here) <= got
          /\ Here \in Nat
      BY <2>4, <1>1, WholeFacts DEF Forward
    <3>2. toVM' \in Seq(Nat)
      BY <2>4, <3>1 DEF Forward
    <3> QED BY <1>5, <2>4, <3>1, <3>2 DEF ProcessTurn, Forward, Whole, Total
  <2> QED BY <1>5, <2>1, <2>2, <2>3, <2>4 DEF ProcessTurn
<1>6. CASE OnWorkerTunnel /\ UNCHANGED task_type
  <2>1. toConn # <<>> /\ toConn' = Tail(toConn)
    BY <1>6 DEF OnWorkerTunnel
  <2>2. Head(toConn) \in Message /\ toConn' \in Seq(Message)
    BY <2>1
  <2>3. /\ closing' \in {"no", "client", "parser", "vm", "sender"}
        /\ sendBuf' \in Nat /\ accepted' \in Seq(Nat)
    <3>1. CASE UNCHANGED <<closing, sendBuf, accepted>>
      BY <3>1
    <3>2. CASE Close("vm") /\ UNCHANGED <<sendBuf, accepted>>
      BY <3>2 DEF Close
    <3>3. CASE send_sync_package(Head(toConn))
      <4>1. CASE sendBuf > MaxSend
        BY <3>3, <4>1 DEF send_sync_package, Close
      <4>2. CASE ~(sendBuf > MaxSend)
        <5>1. /\ sendBuf' = sendBuf + HeadSize + Head(toConn).size
              /\ accepted' = Append(accepted, Head(toConn).number)
              /\ closing' = closing
          BY <3>3, <4>2 DEF send_sync_package
        <5>2. Head(toConn).size \in Nat /\ Head(toConn).number \in Nat
          BY <2>2 DEF Message
        <5> QED BY <5>1, <5>2, <1>0
      <4> QED BY <4>1, <4>2
    <3> QED BY <1>6, <3>1, <3>2, <3>3 DEF OnWorkerTunnel
  <2> QED BY <1>6, <2>2, <2>3 DEF OnWorkerTunnel, Total
<1>7. CASE Framework /\ UNCHANGED task_type
  <2>1. CASE Arrive
    <3>1. got' \in Nat /\ got <= got' /\ got' <= Total
      BY <2>1, <1>0 DEF Arrive
    <3>2. read <= got'
      BY <3>1
    <3> QED BY <1>7, <2>1, <3>1, <3>2 DEF Arrive, Total
  <2>2. CASE Drain
    BY <1>7, <2>2, <1>0 DEF Drain, Total
  <2>3. CASE HangUp
    BY <1>7, <2>3 DEF HangUp, Close, Total
  <2>4. CASE VMSends
    <3>1. PICK n \in Sizes :
            toConn' = Append(toConn, [number |-> sends + 1, size |-> n])
      BY <2>4 DEF VMSends
    <3>2. toConn' \in Seq(Message)
      BY <3>1, <1>0 DEF Message
    <3> QED BY <1>7, <2>4, <3>2 DEF VMSends, Total
  <2>5. CASE VMCloses
    BY <1>7, <2>5 DEF VMCloses, CloseOrder, Message, Total
  <2> QED BY <1>7, <2>1, <2>2, <2>3, <2>4, <2>5 DEF Framework
<1>8. CASE UNCHANGED connVars
  BY <1>8 DEF connVars, Total
<1> QED BY <1>2, <1>3, <1>4, <1>5, <1>6, <1>7, <1>8 DEF StreamNext

\* Every variable keeps its type; what the parser has read has arrived.
THEOREM StreamTypes == StreamSpec => []StreamTypeOK
BY InitTypes, StepTypes, PTL DEF StreamSpec

-----------------------------------------------------------------------------
(* TCP clients: what the VM is told *)

\* The parser only runs for an open connection, and before that it has read
\* nothing.
Phases ==
    /\ pc # "wait" => state = "open"
    /\ state = "new" => read = 0

ToldInv == StreamTypeOK /\ Phases /\ PackagesArriveWhole

Passed == {k \in DOMAIN wire : wire[k].size # 0 /\ wire[k].good /\ EndOf(k) <= read}

LEMMA ToldForm ==
    ASSUME StreamTypeOK
    PROVE  PackagesArriveWhole <=>
             /\ \A i, j \in DOMAIN toVM : i < j => toVM[i] < toVM[j]
             /\ {toVM[i] : i \in DOMAIN toVM} =
                  {NewConnection : s \in {state} \ {"new"}} \cup Passed \cup
                  {CloseConnection : s \in {state} \cap {"closed"}}
BY DEF StreamTypeOK, PackagesArriveWhole, Passed

\* One more event, above all the others.
LEMMA OneMore ==
    ASSUME NEW s \in Seq(Nat), NEW e \in Nat, NEW t, t = Append(s, e),
           \A i, j \in DOMAIN s : i < j => s[i] < s[j],
           \A i \in DOMAIN s : s[i] < e
    PROVE  /\ \A i, j \in DOMAIN t : i < j => t[i] < t[j]
           /\ {t[i] : i \in DOMAIN t} = {s[i] : i \in DOMAIN s} \cup {e}
PROOF
<1>1. /\ Len(s) \in Nat /\ DOMAIN s = 1..Len(s)
      /\ DOMAIN t = 1..(Len(s) + 1)
      /\ t[Len(s) + 1] = e /\ \A i \in 1..Len(s) : t[i] = s[i]
  OBVIOUS
<1>2. \A i \in DOMAIN s : s[i] \in Nat
  OBVIOUS
<1>3. \A i, j \in DOMAIN t : i < j => t[i] < t[j]
  BY <1>1, <1>2
<1>4. \A x : x \in {t[i] : i \in DOMAIN t} <=> x \in {s[i] : i \in DOMAIN s} \cup {e}
  BY <1>1
<1> QED BY <1>3, <1>4

LEMMA InitTold == StreamInit => ToldInv
PROOF
<1> SUFFICES ASSUME StreamInit PROVE ToldInv
  OBVIOUS
<1>1. StreamTypeOK
  BY InitTypes
<1>2. Passed = {}
  <2>1. HeadSize \in Nat \ {0} /\ read = 0
    BY StreamAssumption DEF StreamInit, NewConn
  <2>2. ASSUME NEW k \in DOMAIN wire PROVE ~(EndOf(k) <= read)
    <3>1. k \in 1..Len(wire) /\ wire \in Wires
      BY <1>1, WireFacts DEF StreamTypeOK
    <3>2. /\ EndOf(k) = wire[k].start + HeadSize + wire[k].size
          /\ wire[k].start \in Nat /\ wire[k].size \in Nat
      BY <3>1, WireFacts
    <3> QED BY <2>1, <3>2
  <2> QED BY <2>2 DEF Passed
<1>3. /\ DOMAIN toVM = {} /\ state = "new"
      /\ Phases
  BY DEF StreamInit, NewConn, Phases
<1>4. PackagesArriveWhole
  BY <1>1, <1>2, <1>3, ToldForm
<1> QED BY <1>1, <1>3, <1>4 DEF ToldInv

\* A step that tells the VM nothing and passes no package.
LEMMA ToldStays ==
    ASSUME ToldInv, StreamTypeOK', Passed' = Passed, UNCHANGED <<wire, toVM>>,
           state' = state
    PROVE  PackagesArriveWhole'
PROOF
<1>1. CloseConnection' = CloseConnection /\ NewConnection' = NewConnection
  BY DEF CloseConnection, NewConnection
<1>2. /\ \A i, j \in DOMAIN toVM : i < j => toVM[i] < toVM[j]
      /\ {toVM[i] : i \in DOMAIN toVM} =
           {NewConnection : s \in {state} \ {"new"}} \cup Passed \cup
           {CloseConnection : s \in {state} \cap {"closed"}}
  BY ToldForm DEF ToldInv
<1>3. task_type' = "STREAM_TASK"
  BY DEF StreamTypeOK
<1>4. {toVM'[i] : i \in DOMAIN toVM'} =
           {NewConnection' : s \in {state'} \ {"new"}} \cup Passed' \cup
           {CloseConnection' : s \in {state'} \cap {"closed"}}
  BY <1>1, <1>2
<1> QED BY <1>2, <1>3, <1>4 DEF PackagesArriveWhole, Passed

\* No package ends between the start of a frame and its end.
LEMMA PassedByFrame ==
    ASSUME StreamTypeOK, Whole, UNCHANGED wire, read' = EndOf(Here)
    PROVE  Passed' = Passed \cup
             (IF wire[Here].size # 0 /\ wire[Here].good THEN {Here} ELSE {})
PROOF
<1>1. /\ Here \in 1..Len(wire) /\ wire[Here].start = read
      /\ EndOf(Here) \in Nat /\ read < EndOf(Here) /\ read \in Nat
      /\ HeadSize \in Nat \ {0}
  BY WholeFacts, StreamAssumption DEF StreamTypeOK
<1>2. ASSUME NEW k \in DOMAIN wire
      PROVE  EndOf(k) <= EndOf(Here) <=> EndOf(k) <= read \/ k = Here
  <2>1. k \in 1..Len(wire) /\ Len(wire) \in Nat
    BY <1>2, WireFacts DEF StreamTypeOK
  <2>2. CASE k < Here
    BY <1>1, <2>1, <2>2, WireFacts DEF StreamTypeOK
  <2>3. CASE k > Here
    <3>1. /\ EndOf(Here) <= wire[k].start /\ EndOf(k) \in Nat
          /\ EndOf(k) = wire[k].start + HeadSize + wire[k].size
          /\ wire[k].start \in Nat /\ wire[k].size \in Nat
      BY <1>1, <2>1, <2>3, WireFacts DEF StreamTypeOK
    <3> QED BY <1>1, <2>1, <2>3, <3>1
  <2> QED BY <1>1, <2>1, <2>2, <2>3
<1>3. \A k : EndOf(k)' = EndOf(k)
  BY DEF EndOf
<1>4. Passed' = {k \in DOMAIN wire :
                   wire[k].size # 0 /\ wire[k].good /\ EndOf(k) <= EndOf(Here)}
  BY <1>3 DEF Passed, EndOf
<1>5. Here \in DOMAIN wire
  BY <1>1, WireFacts DEF StreamTypeOK
<1> QED BY <1>2, <1>4, <1>5 DEF Passed

LEMMA ToldBelow ==
    ASSUME ToldInv
    PROVE  /\ \A i, j \in DOMAIN toVM : i < j => toVM[i] < toVM[j]
           /\ {toVM[i] : i \in DOMAIN toVM} =
                {NewConnection : s \in {state} \ {"new"}} \cup Passed \cup
                {CloseConnection : s \in {state} \cap {"closed"}}
           /\ Len(wire) \in Nat /\ Passed \subseteq 1..Len(wire)
           /\ state = "new" => Passed = {}
PROOF
<1>1. /\ StreamTypeOK /\ DOMAIN wire = 1..Len(wire) /\ Len(wire) \in Nat
      /\ wire \in Wires
  BY WireFacts DEF ToldInv, StreamTypeOK
<1>2. ASSUME state = "new", NEW k \in 1..Len(wire) PROVE ~(EndOf(k) <= read)
  <2>1. read = 0 /\ HeadSize \in Nat \ {0}
    BY <1>2, StreamAssumption DEF ToldInv, Phases
  <2>2. /\ EndOf(k) = wire[k].start + HeadSize + wire[k].size
        /\ wire[k].start \in Nat /\ wire[k].size \in Nat
    BY <1>1, WireFacts
  <2> QED BY <2>1, <2>2
<1>3. state = "new" => Passed = {}
  BY <1>1, <1>2 DEF Passed
<1> QED BY <1>1, <1>3, ToldForm DEF ToldInv, Passed

\* The VM is told of the connection, the packages and the end in this order.
LEMMA StepTold == ToldInv /\ [StreamNext]_connVars => ToldInv'
PROOF
<1> SUFFICES ASSUME ToldInv, [StreamNext]_connVars PROVE ToldInv'
  OBVIOUS
<1>1. StreamTypeOK /\ Phases /\ PackagesArriveWhole
  BY DEF ToldInv
<1>2. StreamTypeOK'
  BY <1>1, StepTypes
<1> USE DEF recv, send
<1>3. CASE OnNewConnection /\ UNCHANGED task_type
  <2>1. Phases'
    BY <1>1, <1>3 DEF OnNewConnection, Phases
  <2>2. {toVM[i] : i \in DOMAIN toVM} = {}
    BY <1>3, ToldBelow DEF OnNewConnection
  <2>3. \A i, j \in DOMAIN toVM' : i < j => toVM'[i] < toVM'[j]
    BY <1>1, <1>3, <2>2, OneMore DEF OnNewConnection, StreamTypeOK, NewConnection
  <2>4. {toVM'[i] : i \in DOMAIN toVM'} = {NewConnection}
    BY <1>1, <1>3, <2>2, OneMore, SMTT(20) DEF OnNewConnection, StreamTypeOK, NewConnection
  <2>5. Passed' = {}
    BY <1>3, ToldBelow DEF OnNewConnection, Passed, EndOf
  <2>6. NewConnection' = NewConnection /\ state' = "open"
    BY <1>3 DEF NewConnection, OnNewConnection
  <2>7. {toVM'[i] : i \in DOMAIN toVM'} =
          {NewConnection' : s \in {state'} \ {"new"}} \cup Passed' \cup
          {CloseConnection' : s \in {state'} \cap {"closed"}}
    BY <2>4, <2>5, <2>6
  <2> QED BY <1>2, <2>1, <2>3, <2>7 DEF PackagesArriveWhole, Passed, ToldInv
<1>4. CASE OnCloseConnection /\ UNCHANGED task_type
  <2>1. Phases'
    BY <1>1, <1>4 DEF OnCloseConnection, Phases
  <2>2. /\ state = "open" /\ state' = "closed"
        /\ toVM' = Append(toVM, CloseConnection) /\ UNCHANGED <<wire, read>>
    BY <1>4 DEF OnCloseConnection
  <2>3. /\ {toVM[i] : i \in DOMAIN toVM} = {NewConnection} \cup Passed
        /\ \A i \in DOMAIN toVM : toVM[i] < CloseConnection
        /\ CloseConnection \in Nat
    <3>1. {toVM[i] : i \in DOMAIN toVM} = {NewConnection} \cup Passed
      BY <2>2, ToldBelow, SMTT(20)
    <3>2. \A i \in DOMAIN toVM : toVM[i] = NewConnection \/ toVM[i] \in Passed
      BY <3>1
    <3> QED BY <3>1, <3>2, ToldBelow DEF NewConnection, CloseConnection
  <2>4. /\ \A i, j \in DOMAIN toVM' : i < j => toVM'[i] < toVM'[j]
        /\ {toVM'[i] : i \in DOMAIN toVM'} =
             {toVM[i] : i \in DOMAIN toVM} \cup {CloseConnection}
    <3>1. toVM \in Seq(Nat)
      BY <1>1 DEF StreamTypeOK
    <3>2. \A i, j \in DOMAIN toVM : i < j => toVM[i] < toVM[j]
      BY ToldBelow
    <3> HIDE DEF CloseConnection
    <3> QED BY <3>1, <3>2, <2>2, <2>3, OneMore, SMTT(20)
  <2>5. /\ NewConnection' = NewConnection /\ CloseConnection' = CloseConnection
        /\ Passed' = Passed
    BY <2>2 DEF NewConnection, CloseConnection, Passed, EndOf
  <2>6. {toVM'[i] : i \in DOMAIN toVM'} =
          {NewConnection' : s \in {state'} \ {"new"}} \cup Passed' \cup
          {CloseConnection' : s \in {state'} \cap {"closed"}}
    <3>1. /\ {NewConnection' : s \in {state'} \ {"new"}} = {NewConnection}
          /\ {CloseConnection' : s \in {state'} \cap {"closed"}} = {CloseConnection}
      BY <2>2, <2>5
    <3> QED BY <2>3, <2>4, <2>5, <3>1
  <2> QED BY <1>2, <2>1, <2>4, <2>6 DEF PackagesArriveWhole, Passed, ToldInv
<1>5. CASE UNCHANGED <<wire, read, toVM, state>> /\ Phases'
  <2>1. Passed' = Passed
    BY <1>5 DEF Passed, EndOf
  <2> QED BY <1>2, <1>5, <2>1, ToldStays DEF ToldInv
<1>6. CASE ProcessStart /\ UNCHANGED task_type
  BY <1>1, <1>5, <1>6 DEF ProcessStart, Phases
<1>7. CASE ProcessTurn /\ UNCHANGED task_type
  <2>0. state = "open" /\ UNCHANGED <<wire, state>>
    BY <1>1, <1>7 DEF ProcessTurn, Phases
  <2>1. Phases'
    BY <2>0 DEF Phases
  <2>2. CASE Refuse \/ Wait
    BY <1>5, <2>0, <2>1, <2>2 DEF Refuse, Wait
  <2>3. CASE Skip
    <3>1. /\ Whole /\ DataSize = wire[Here].size /\ read' = EndOf(Here)
          /\ toVM' = toVM
          /\ ~(wire[Here].size # 0 /\ wire[Here].good)
      BY <1>1, <2>3, WholeFacts DEF Skip
    <3>2. Passed' = Passed
      BY <1>1, <2>0, <3>1, PassedByFrame
    <3> QED BY <1>2, <2>0, <2>1, <3>1, <3>2, ToldStays DEF ToldInv
  <2>4. CASE Forward
    <3>1. /\ Whole /\ read' = EndOf(Here) /\ toVM' = Append(toVM, Here)
          /\ wire[Here].size # 0 /\ wire[Here].good
          /\ Here \in 1..Len(wire) /\ wire[Here].start = read
      BY <1>1, <2>4, WholeFacts DEF Forward
    <3>2. Passed' = Passed \cup {Here}
      BY <1>1, <2>0, <3>1, PassedByFrame
    <3>3. {toVM[i] : i \in DOMAIN toVM} = {NewConnection} \cup Passed
      BY <2>0, ToldBelow
    <3>4. \A k \in Passed : k < Here
      <4>1. SUFFICES ASSUME NEW k \in 1..Len(wire), EndOf(k) <= read, k >= Here
                     PROVE  FALSE
        BY <3>1, ToldBelow DEF Passed
      <4>2. /\ read \in Nat /\ HeadSize \in Nat \ {0}
            /\ EndOf(k) = wire[k].start + HeadSize + wire[k].size
            /\ wire[k].start \in Nat /\ wire[k].size \in Nat
        BY <1>1, WireFacts, StreamAssumption DEF StreamTypeOK
      <4>3. read <= wire[k].start
        <5>1. CASE k = Here
          BY <3>1, <4>2, <5>1
        <5>2. CASE k # Here
          <6>1. Here < k /\ EndOf(Here) <= wire[k].start
            BY <1>1, <3>1, <4>1, <5>2, WireFacts DEF StreamTypeOK
          <6>2. read < EndOf(Here) /\ EndOf(Here) \in Nat
            BY <1>1, <3>1, WholeFacts
          <6> QED BY <4>2, <6>1, <6>2
        <5> QED BY <5>1, <5>2
      <4> QED BY <4>1, <4>2, <4>3
    <3>5. \A i \in DOMAIN toVM : toVM[i] < Here
      <4>1. \A i \in DOMAIN toVM : toVM[i] = NewConnection \/ toVM[i] \in Passed
        BY <3>3
      <4> QED BY <3>1, <3>4, <4>1, ToldBelow DEF NewConnection
    <3>6. Here \in Nat
      BY <3>1, ToldBelow
    <3>7. /\ \A i, j \in DOMAIN toVM' : i < j => toVM'[i] < toVM'[j]
          /\ {toVM'[i] : i \in DOMAIN toVM'} =
               {toVM[i] : i \in DOMAIN toVM} \cup {Here}
      <4>1. toVM \in Seq(Nat)
        BY <1>1 DEF StreamTypeOK
      <4>2. \A i, j \in DOMAIN toVM : i < j => toVM[i] < toVM[j]
        BY ToldBelow
      <4>3. PICK e \in Nat : e = Here
        BY <3>6
      <4>4. toVM' = Append(toVM, e) /\ \A i \in DOMAIN toVM : toVM[i] < e
        BY <3>1, <3>5, <4>3
      <4>5. /\ \A i, j \in DOMAIN toVM' : i < j => toVM'[i] < toVM'[j]
            /\ {toVM'[i] : i \in DOMAIN toVM'} =
                 {toVM[i] : i \in DOMAIN toVM} \cup {e}
        BY ONLY <4>1, <4>2, <4>3, <4>4, OneMore, SMTT(60)
      <4> QED BY <4>3, <4>5
    <3>8. NewConnection' = NewConnection
      BY DEF NewConnection
    <3>9. {toVM'[i] : i \in DOMAIN toVM'} =
            {NewConnection' : s \in {state'} \ {"new"}} \cup Passed' \cup
            {CloseConnection' : s \in {state'} \cap {"closed"}}
      <4>1. /\ {NewConnection' : s \in {state'} \ {"new"}} = {NewConnection}
            /\ {CloseConnection' : s \in {state'} \cap {"closed"}} = {}
        BY <2>0, <3>8
      <4> QED BY <3>2, <3>3, <3>7, <4>1
    <3> QED BY <1>2, <2>1, <3>7, <3>9 DEF PackagesArriveWhole, Passed, ToldInv
  <2> QED BY <1>7, <2>2, <2>3, <2>4 DEF ProcessTurn
<1>8. CASE OnWorkerTunnel /\ UNCHANGED task_type
  BY <1>1, <1>5, <1>8 DEF OnWorkerTunnel, Phases
<1>9. CASE Framework /\ UNCHANGED task_type
  BY <1>1, <1>5, <1>9
     DEF Framework, Arrive, Drain, HangUp, VMSends, VMCloses, Serves, Phases
<1>10. CASE UNCHANGED connVars
  BY <1>1, <1>5, <1>10 DEF connVars, Phases
<1> QED BY <1>3, <1>4, <1>6, <1>7, <1>8, <1>9, <1>10 DEF StreamNext

\* However the bytes are cut into arrivals, the VM is told of the connection,
\* of every package that parses, whole, once and in order, and of the end.
THEOREM PackagesArrive == StreamSpec => []PackagesArriveWhole
PROOF
<1>1. ToldInv => PackagesArriveWhole
  BY DEF ToldInv
<1> QED BY <1>1, InitTold, StepTold, PTL DEF StreamSpec

-----------------------------------------------------------------------------
(* TCP clients: honest ones *)

\* The parser stands between two frames.
Boundary == read = Total \/ Aligned

\* No frame that has arrived is left in the buffer.
Drained == \A k \in 1..Len(wire) : EndOf(k) <= got => EndOf(k) <= read

ServedInv ==
    /\ StreamTypeOK
    /\ Boundary
    /\ Honest => /\ closing # "parser"
                 /\ pc = "start" => RecvSize <= MaxRecv
                 /\ pc = "wait" => Drained

LEMMA InitServed == StreamInit => ServedInv
PROOF
<1> SUFFICES ASSUME StreamInit PROVE ServedInv
  OBVIOUS
<1>1. StreamTypeOK
  BY InitTypes
<1>2. read = 0 /\ got = 0 /\ closing = "no" /\ pc = "wait"
  BY DEF StreamInit, NewConn
<1>3. /\ DOMAIN wire = 1..Len(wire) /\ Len(wire) \in Nat
      /\ Len(wire) # 0 => wire[1].start = 0
      /\ Len(wire) = 0 => Total = 0
  BY <1>1, WireFacts DEF StreamTypeOK
<1>4. Boundary
  <2>1. CASE Len(wire) = 0
    BY <1>2, <1>3, <2>1 DEF Boundary
  <2>2. CASE Len(wire) # 0
    BY <1>2, <1>3, <2>2 DEF Boundary, Aligned
  <2> QED BY <2>1, <2>2
<1> QED BY <1>1, <1>2, <1>4 DEF ServedInv, Drained

\* Behind a frame there is another one or nothing.
LEMMA NextBoundary ==
    ASSUME StreamTypeOK, Whole, UNCHANGED wire, read' = EndOf(Here)
    PROVE  Boundary'
PROOF
<1>1. Here \in 1..Len(wire) /\ Len(wire) \in Nat
  BY WholeFacts, WireFacts DEF StreamTypeOK
<1> PICK h \in 1..Len(wire) : h = Here
  BY <1>1
<1>2. CASE h = Len(wire)
  <2>1. EndOf(h) = Total
    BY <1>1, <1>2, WireFacts DEF StreamTypeOK
  <2>2. Total' = Total
    BY DEF Total
  <2> QED BY <2>1, <2>2 DEF Boundary
<1>3. CASE h # Len(wire)
  <2>1. h + 1 \in 1..Len(wire) /\ h < h + 1
    BY <1>1, <1>3
  <2>2. wire[h + 1].start = EndOf(h)
    BY <1>1, <2>1, WireFacts DEF StreamTypeOK
  <2>3. h + 1 \in DOMAIN wire
    BY <2>1, WireFacts DEF StreamTypeOK
  <2> QED BY <2>2, <2>3 DEF Boundary, Aligned
<1> QED BY <1>2, <1>3

\* Where the parser stops, an honest client's next frame is incomplete.
LEMMA WaitDrains ==
    ASSUME ServedInv, Honest, Wait
    PROVE  Drained
PROOF
<1>1. /\ wire \in Wires /\ read \in Nat /\ got \in Nat /\ got <= Total
      /\ DOMAIN wire = 1..Len(wire) /\ Len(wire) \in Nat /\ Total \in Nat
      /\ HeadSize \in Nat \ {0}
      /\ Boundary
  BY WireFacts, StreamAssumption DEF ServedInv, StreamTypeOK
<1>2. \A k \in 1..Len(wire) :
        /\ EndOf(k) = wire[k].start + HeadSize + wire[k].size
        /\ wire[k].start \in Nat /\ wire[k].size \in Nat /\ EndOf(k) \in Nat
  BY <1>1, WireFacts
<1>3. CASE read = Total
  BY <1>1, <1>2, <1>3 DEF Drained
<1>4. CASE Aligned
  <2>1. /\ Here \in 1..Len(wire) /\ wire[Here].start = read
        /\ DataSize = wire[Here].size
    BY <1>1, <1>4, HereFacts DEF DataSize
  <2> PICK h \in 1..Len(wire) : h = Here
    BY <2>1
  <2>2. got < EndOf(h)
    BY <1>1, <1>2, <2>1 DEF Wait, HeadIsHere, RecvSize
  <2>3. ASSUME NEW k \in 1..Len(wire), EndOf(k) <= got PROVE EndOf(k) <= read
    <3>1. ~(h <= k)
      <4>1. SUFFICES ASSUME h <= k PROVE FALSE
        OBVIOUS
      <4>2. k # h
        BY <1>1, <1>2, <2>2, <2>3
      <4>3. EndOf(h) <= wire[k].start
        BY <1>1, <2>1, <4>1, <4>2, WireFacts
      <4>4. /\ EndOf(k) = wire[k].start + HeadSize + wire[k].size
            /\ wire[k].start \in Nat /\ wire[k].size \in Nat
            /\ EndOf(h) \in Nat /\ got \in Nat /\ HeadSize \in Nat
        BY <1>1, <1>2
      <4> QED BY <2>2, <2>3, <4>3, <4>4
    <3>2. EndOf(k) <= wire[h].start
      BY <1>1, <2>1, <3>1, WireFacts
    <3> QED BY <2>1, <3>2
  <2> QED BY <2>3 DEF Drained
<1> QED BY <1>1, <1>3, <1>4 DEF Boundary

\* What an honest client has in the buffer is less than one frame, so what
\* is read on top of it is not too much.
LEMMA ArrivalFits ==
    ASSUME ServedInv, Honest, Drained, NEW n \in Nat, got < n, n <= Total,
           n - got <= ReadMax
    PROVE  n - read <= MaxRecv
PROOF
<1>1. /\ wire \in Wires /\ read \in Nat /\ got \in Nat /\ read <= got
      /\ DOMAIN wire = 1..Len(wire) /\ Len(wire) \in Nat /\ Total \in Nat
      /\ Boundary
  BY WireFacts DEF ServedInv, StreamTypeOK
<1>2. /\ HeadSize \in Nat /\ ReadMax \in Nat /\ MaxPackage \in Nat
      /\ MaxRecv \in Nat
      /\ ReadMax + HeadSize + MaxPackage <= MaxRecv + 1
  BY StreamAssumption, ReadAssumption
<1>3. Aligned
  BY <1>1 DEF Boundary
<1>4. /\ Here \in 1..Len(wire) /\ wire[Here].start = read
      /\ wire[Here].size <= MaxPackage
  BY <1>1, <1>3, HereFacts DEF Honest
<1>5. /\ EndOf(Here) = wire[Here].start + HeadSize + wire[Here].size
      /\ wire[Here].size \in Nat
  BY <1>1, <1>4, WireFacts
<1>6. ~(EndOf(Here) <= got)
  <2>1. SUFFICES ASSUME EndOf(Here) <= got PROVE FALSE
    OBVIOUS
  <2>2. EndOf(Here) <= read
    BY <1>4, <2>1 DEF Drained
  <2>3. HeadSize # 0
    BY StreamAssumption
  <2> QED BY <1>1, <1>2, <1>4, <1>5, <2>2, <2>3
<1> QED BY <1>1, <1>2, <1>4, <1>5, <1>6

\* No step makes the parser refuse an honest client or leave its package.
LEMMA StepServed == ServedInv /\ [StreamNext]_connVars => ServedInv'
PROOF
<1> SUFFICES ASSUME ServedInv, [StreamNext]_connVars PROVE ServedInv'
  OBVIOUS
<1>1. StreamTypeOK /\ Boundary
  BY DEF ServedInv
<1>2. StreamTypeOK'
  BY <1>1, StepTypes
<1>3. wire' = wire /\ task_type' = task_type
  BY DEF StreamNext, connVars, recv, OnNewConnection, OnCloseConnection,
         ProcessStart, ProcessTurn, OnWorkerTunnel, Framework, Arrive, Drain,
         HangUp, VMSends, VMCloses
<1>4. Honest' = Honest /\ Total' = Total
  BY <1>3 DEF Honest, Total
<1>5. ASSUME UNCHANGED <<got, read, pc>>, closing' = "parser" => closing = "parser"
      PROVE  ServedInv'
  BY <1>1, <1>2, <1>3, <1>4, <1>5
     DEF ServedInv, Boundary, Aligned, RecvSize, Drained, EndOf
<1> USE DEF recv, send
<1>6. CASE OnNewConnection \/ OnCloseConnection
  BY <1>5, <1>6 DEF OnNewConnection, OnCloseConnection
<1>7. CASE ProcessStart
  <2>1. Boundary'
    BY <1>1, <1>3, <1>4, <1>7 DEF ProcessStart, Boundary, Aligned
  <2>2. ASSUME Honest PROVE closing' # "parser" /\ pc' = "turn"
    <3>1. RecvSize <= MaxRecv /\ closing # "parser"
      BY <1>7, <2>2 DEF ServedInv, ProcessStart
    <3>2. ~(RecvSize > MaxRecv)
      BY <1>1, <3>1, StreamAssumption DEF StreamTypeOK, RecvSize
    <3> QED BY <1>7, <3>1, <3>2 DEF ProcessStart
  <2> QED BY <1>2, <1>4, <2>1, <2>2 DEF ServedInv
<1>8. CASE ProcessTurn
  <2>1. got' = got /\ pc = "turn"
    BY <1>8 DEF ProcessTurn
  <2>2. CASE Refuse
    <3>1. read' = read /\ Boundary'
      BY <1>1, <1>3, <1>4, <2>2 DEF Refuse, Boundary, Aligned
    <3>2. ~Honest
      <4>1. SUFFICES ASSUME Honest PROVE FALSE
        OBVIOUS
      <4>2. /\ RecvSize >= HeadSize /\ ~(DataSize <= MaxPackage)
            /\ HeadSize \in Nat \ {0} /\ got \in Nat /\ read \in Nat
            /\ got <= Total /\ Total \in Nat
        BY <1>1, <2>2, WireFacts, StreamAssumption
           DEF Refuse, HeadIsHere, on_recved_packsize, StreamTypeOK
      <4>3. Aligned
        BY <1>1, <4>2 DEF Boundary, RecvSize
      <4>4. wire[Here].size <= MaxPackage /\ wire[Here].size \in Nat
        <5>1. Here \in DOMAIN wire /\ wire[Here].size \in 1..MaxPackage
          BY <4>1, <4>3, HereFacts DEF Honest
        <5> QED BY <5>1, StreamAssumption
      <4> QED BY <4>2, <4>3, <4>4 DEF DataSize
    <3> QED BY <1>2, <1>4, <3>1, <3>2 DEF ServedInv
  <2>3. CASE Wait
    <3>1. UNCHANGED <<read, closing>> /\ pc' = "wait" /\ Boundary'
      BY <1>1, <1>3, <1>4, <2>3 DEF Wait, Boundary, Aligned
    <3>2. Honest => Drained' /\ closing' # "parser"
      BY <1>3, <2>1, <2>3, <3>1, WaitDrains DEF Drained, EndOf, ServedInv
    <3> QED BY <1>2, <1>4, <3>1, <3>2 DEF ServedInv
  <2>4. CASE Skip
    <3>1. Whole /\ read' = EndOf(Here) /\ DataSize = wire[Here].size
          /\ Here \in 1..Len(wire)
      BY <1>1, <2>4, WholeFacts DEF Skip
    <3>2. Boundary'
      BY <1>1, <1>3, <3>1, NextBoundary
    <3>3. ~Honest
      <4>1. SUFFICES ASSUME Honest PROVE FALSE
        OBVIOUS
      <4>2. Here \in DOMAIN wire
        BY <1>1, <3>1, WireFacts DEF StreamTypeOK
      <4>3. wire[Here].size \in 1..MaxPackage /\ wire[Here].good
        BY <4>1, <4>2 DEF Honest
      <4> QED BY <2>4, <3>1, <4>3, StreamAssumption DEF Skip
    <3> QED BY <1>2, <1>4, <3>2, <3>3 DEF ServedInv
  <2>5. CASE Forward
    <3>1. Whole /\ read' = EndOf(Here) /\ UNCHANGED <<pc, closing>>
      BY <1>1, <2>5, WholeFacts DEF Forward, Whole
    <3>2. Boundary'
      BY <1>1, <1>3, <3>1, NextBoundary
    <3> QED BY <1>2, <1>4, <2>1, <3>1, <3>2 DEF ServedInv
  <2> QED BY <1>8, <2>2, <2>3, <2>4, <2>5 DEF ProcessTurn
<1>9. CASE OnWorkerTunnel
  <2>1. closing' = "parser" => closing = "parser"
    BY <1>9 DEF OnWorkerTunnel, send_sync_package, Close
  <2> QED BY <1>5, <1>9, <2>1 DEF OnWorkerTunnel
<1>10. CASE Framework
  <2>1. CASE Arrive
    <3>1. /\ got' \in Nat /\ got < got' /\ got' <= Total /\ got' - got <= ReadMax
          /\ UNCHANGED <<read, closing>> /\ pc = "wait" /\ pc' = "start"
      BY <2>1, StreamAssumption DEF Arrive, Serves
    <3>2. Boundary'
      BY <1>1, <1>3, <1>4, <3>1 DEF Boundary, Aligned
    <3>3. Honest => got' - read <= MaxRecv
      BY <3>1, ArrivalFits DEF ServedInv
    <3> QED BY <1>2, <1>4, <3>1, <3>2, <3>3 DEF ServedInv, RecvSize
  <2>2. CASE HangUp
    BY <1>5, <2>2 DEF HangUp, Close
  <2>3. CASE Drain \/ VMSends \/ VMCloses
    BY <1>5, <2>3 DEF Drain, VMSends, VMCloses
  <2> QED BY <1>10, <2>1, <2>2, <2>3 DEF Framework
<1>11. CASE UNCHANGED connVars
  BY <1>5, <1>11 DEF connVars
<1> QED BY <1>6, <1>7, <1>8, <1>9, <1>10, <1>11 DEF StreamNext

LEMMA ServedFollows == ServedInv => HonestClientsAreServed
PROOF
<1> SUFFICES ASSUME ServedInv, Honest PROVE HonestClientsAreServed
  BY DEF HonestClientsAreServed
<1>1. DOMAIN wire = 1..Len(wire)
  BY WireFacts DEF ServedInv, StreamTypeOK
<1> QED BY <1>1 DEF ServedInv, HonestClientsAreServed, Drained, Serves

\* A client that keeps to the protocol is never refused by the parser, and
\* its packages do not wait for later bytes, wherever arrivals end.
THEOREM HonestAreServed == StreamSpec => []HonestClientsAreServed
BY InitServed, StepServed, ServedFollows, PTL DEF StreamSpec

-----------------------------------------------------------------------------
(* TCP clients: what they get *)

\* Nothing will be put into the send buffer any more.
Stuck == state = "closed" \/ (closing # "no" /\ sendBuf > MaxSend)

\* Position i of the tunnel, when the order to close is at position c.
InOrder(i, c) ==
    IF i = c THEN toConn[i] = CloseOrder
    ELSE toConn[i].number = Len(accepted) + (IF i < c THEN i ELSE i - 1)

\* The tunnel holds what the VM sent after what was accepted, in order, and
\* the order to close at most once.
Pending ==
    \E c \in Nat \ {0} :
        /\ \A i \in 1..Len(toConn) : InOrder(i, c)
        /\ sends = Len(accepted) + Len(toConn) - (IF c <= Len(toConn) THEN 1 ELSE 0)

GapInv ==
    /\ StreamTypeOK
    /\ ClientSeesNoGap
    /\ Stuck \/ Pending

LEMMA InitGap == StreamInit => GapInv
PROOF
<1> SUFFICES ASSUME StreamInit PROVE GapInv
  OBVIOUS
<1>1. accepted = <<>> /\ toConn = <<>> /\ sends = 0
  BY DEF StreamInit, NewConn
<1>2. Pending
  <2>1. /\ \A i \in 1..Len(toConn) : InOrder(i, 1)
        /\ sends = Len(accepted) + Len(toConn) - (IF 1 <= Len(toConn) THEN 1 ELSE 0)
    BY <1>1
  <2> QED BY <2>1 DEF Pending
<1>3. ClientSeesNoGap
  BY <1>1 DEF ClientSeesNoGap
<1> QED BY <1>2, <1>3, InitTypes DEF GapInv

\* The VM sends another package.
LEMMA SendKeepsPending ==
    ASSUME StreamTypeOK, Pending, NEW m \in Message, m.number = sends + 1,
           toConn' = Append(toConn, m), sends' = sends + 1, accepted' = accepted
    PROVE  Pending'
PROOF
<1> PICK n \in Nat, a \in Nat : n = Len(toConn) /\ a = Len(accepted)
  BY DEF StreamTypeOK
<1>1. PICK c \in Nat \ {0} :
        /\ \A i \in 1..n : InOrder(i, c)
        /\ sends = a + n - (IF c <= n THEN 1 ELSE 0)
  BY DEF Pending
<1>2. /\ Len(toConn') = n + 1 /\ Len(accepted') = a
      /\ \A i \in 1..n : toConn'[i] = toConn[i]
      /\ toConn'[n + 1] = m
  BY DEF StreamTypeOK
<1>3. PICK d \in Nat \ {0} : d = IF c <= n THEN c ELSE n + 2
  BY <1>1
<1>4. ASSUME NEW i \in 1..(n + 1) PROVE InOrder(i, d)'
  <2>1. CASE i = n + 1
    <3>1. i # d /\ toConn'[i] = m
      BY <1>2, <1>3, <2>1
    <3>2. m.number = a + (IF i < d THEN i ELSE i - 1)
      <4>1. CASE c <= n
        <5>1. sends = a + n - 1 /\ ~(i < d) /\ i - 1 = n
          BY <1>1, <1>3, <2>1, <4>1
        <5> QED BY <5>1
      <4>2. CASE ~(c <= n)
        <5>1. sends = a + n /\ i < d
          BY <1>1, <1>3, <2>1, <4>2
        <5> QED BY <2>1, <5>1
      <4> QED BY <4>1, <4>2
    <3> QED BY <1>2, <3>1, <3>2 DEF InOrder
  <2>2. CASE i # n + 1
    <3>1. i \in 1..n
      BY <2>2
    <3>2. InOrder(i, c)
      BY <1>1, <3>1
    <3>3. (i = d <=> i = c) /\ (i < d <=> i < c)
      BY <1>1, <1>3, <3>1
    <3> QED BY <1>2, <3>1, <3>2, <3>3 DEF InOrder
  <2> QED BY <2>1, <2>2
<1>5. sends' = a + (n + 1) - (IF d <= n + 1 THEN 1 ELSE 0)
  BY <1>1, <1>3
<1> QED BY <1>2, <1>3, <1>4, <1>5 DEF Pending

\* The VM orders the worker to close.
LEMMA CloseKeepsPending ==
    ASSUME StreamTypeOK, Pending, VMCloses
    PROVE  Pending'
PROOF
<1> PICK n \in Nat, a \in Nat : n = Len(toConn) /\ a = Len(accepted)
  BY DEF StreamTypeOK
<1>1. PICK c \in Nat \ {0} :
        /\ \A i \in 1..n : InOrder(i, c)
        /\ sends = a + n - (IF c <= n THEN 1 ELSE 0)
  BY DEF Pending
<1>2. CloseOrder \in Message
  BY DEF CloseOrder, Message
<1>3. /\ Len(toConn') = n + 1
      /\ \A i \in 1..n : toConn'[i] = toConn[i]
      /\ toConn'[n + 1] = CloseOrder
      /\ accepted' = accepted /\ sends' = sends
  BY <1>2 DEF StreamTypeOK, VMCloses
<1>4. ~(c <= n)
  <2>1. \A i \in DOMAIN toConn : toConn[i] # CloseOrder
    BY DEF VMCloses
  <2>2. \A i \in 1..n : toConn[i] # CloseOrder
    BY <2>1, SMTT(20) DEF StreamTypeOK
  <2> QED BY <1>1, <2>2 DEF InOrder
<1> PICK e \in Nat \ {0} : e = n + 1
  OBVIOUS
<1>5. ASSUME NEW i \in 1..e PROVE InOrder(i, e)'
  <2>1. CASE i = e
    BY <1>3, <2>1 DEF InOrder, CloseOrder
  <2>2. CASE i # e
    <3>1. i \in 1..n /\ i < e /\ i < c /\ i # c
      BY <1>1, <1>4, <2>2
    <3>2. InOrder(i, c)
      BY <1>1, <3>1
    <3> QED BY <1>3, <3>1, <3>2 DEF InOrder
  <2> QED BY <2>1, <2>2
<1>6. Len(toConn') = e /\ sends' = Len(accepted') + e - (IF e <= e THEN 1 ELSE 0)
  BY <1>1, <1>3, <1>4
<1> QED BY <1>5, <1>6 DEF Pending

\* The worker takes what is first in the tunnel: the order to close, or the
\* package whose number is next, which it accepts.
LEMMA TakeKeepsPending ==
    ASSUME GapInv, Pending, toConn # <<>>, toConn' = Tail(toConn), sends' = sends,
           \/ Head(toConn) = CloseOrder /\ accepted' = accepted
           \/ /\ Head(toConn) # CloseOrder
              /\ accepted' = Append(accepted, Head(toConn).number)
    PROVE  Pending' /\ ClientSeesNoGap'
PROOF
<1> PICK n \in Nat \ {0}, a \in Nat : n = Len(toConn) /\ a = Len(accepted)
  BY DEF GapInv, StreamTypeOK
<1>1. PICK c \in Nat \ {0} :
        /\ \A i \in 1..n : InOrder(i, c)
        /\ sends = a + n - (IF c <= n THEN 1 ELSE 0)
  BY DEF Pending
<1>2. /\ Len(toConn') = n - 1
      /\ \A i \in 1..(n - 1) : toConn'[i] = toConn[i + 1]
      /\ Head(toConn) = toConn[1]
  BY DEF GapInv, StreamTypeOK
<1>3. InOrder(1, c)
  BY <1>1
<1>4. CASE Head(toConn) = CloseOrder
  <2>1. accepted' = accepted
    BY <1>4
  <2>2. c = 1
    <3>1. SUFFICES ASSUME c # 1 PROVE FALSE
      OBVIOUS
    <3>2. CloseOrder.number = a + 1
      BY <1>1, <1>2, <1>3, <1>4, <3>1 DEF InOrder
    <3> QED BY <3>2 DEF CloseOrder
  <2>3. ASSUME NEW i \in 1..(n - 1) PROVE InOrder(i, n)'
    <3>1. i + 1 \in 1..n /\ i < n /\ i # n
      OBVIOUS
    <3>2. toConn[i + 1].number = a + i
      <4>1. InOrder(i + 1, 1)
        BY <1>1, <2>2, <3>1
      <4> QED BY <3>1, <4>1 DEF InOrder
    <3> QED BY <1>2, <2>1, <3>1, <3>2 DEF InOrder
  <2>4. sends' = a + (n - 1) - (IF n <= n - 1 THEN 1 ELSE 0)
    BY <1>1, <2>2
  <2>5. Pending'
    BY <1>2, <2>1, <2>3, <2>4 DEF Pending
  <2> QED BY <2>1, <2>5 DEF GapInv, ClientSeesNoGap
<1>5. CASE Head(toConn) # CloseOrder
  <2>1. c # 1 /\ toConn[1].number = a + 1
    BY <1>1, <1>2, <1>3, <1>5 DEF InOrder
  <2>2. /\ Len(accepted') = a + 1
        /\ \A i \in 1..a : accepted'[i] = accepted[i]
        /\ accepted'[a + 1] = a + 1
        /\ DOMAIN accepted' = 1..(a + 1) /\ DOMAIN accepted = 1..a
    <3>1. accepted \in Seq(Nat) /\ accepted' = Append(accepted, a + 1)
      BY <1>2, <1>5, <2>1 DEF GapInv, StreamTypeOK
    <3> QED BY <3>1
  <2>3. ClientSeesNoGap'
    <3>1. \A i \in 1..a : accepted[i] = i
      BY <2>2 DEF GapInv, ClientSeesNoGap
    <3>2. \A i \in 1..(a + 1) : accepted'[i] = i
      BY <2>2, <3>1
    <3> QED BY <2>2, <3>2 DEF ClientSeesNoGap
  <2>4. PICK d \in Nat \ {0} : d = c - 1
    BY <1>1, <2>1
  <2>5. ASSUME NEW i \in 1..(n - 1) PROVE InOrder(i, d)'
    <3>1. i + 1 \in 1..n
      OBVIOUS
    <3>2. InOrder(i + 1, c)
      BY <1>1, <3>1
    <3>3. CASE i + 1 = c
      <4>1. i = d
        BY <2>4, <3>3
      <4>2. toConn'[i] = CloseOrder
        BY <1>2, <3>1, <3>2, <3>3 DEF InOrder
      <4> QED BY <4>1, <4>2 DEF InOrder, CloseOrder
    <3>4. CASE i + 1 # c
      <4>1. i # d /\ (i < d <=> i + 1 < c)
        BY <1>1, <2>4, <3>4
      <4>2. toConn[i + 1].number = a + (IF i + 1 < c THEN i + 1 ELSE i)
        BY <3>1, <3>2, <3>4 DEF InOrder
      <4>3. toConn'[i].number = a + 1 + (IF i < d THEN i ELSE i - 1)
        BY <1>2, <3>1, <4>1, <4>2, SMTT(20)
      <4> QED BY <2>2, <4>1, <4>3 DEF InOrder
    <3> QED BY <3>3, <3>4
  <2>6. sends' = (a + 1) + (n - 1) - (IF d <= n - 1 THEN 1 ELSE 0)
    BY <1>1, <2>4
  <2>7. Pending'
    BY <1>2, <2>2, <2>4, <2>5, <2>6 DEF Pending
  <2> QED BY <2>3, <2>7
<1> QED BY <1>4, <1>5

\* A package that finds the buffer too full ends what the client gets.
LEMMA StepGap == GapInv /\ [StreamNext]_connVars => GapInv'
PROOF
<1> SUFFICES ASSUME GapInv, [StreamNext]_connVars PROVE GapInv'
  OBVIOUS
<1>1. StreamTypeOK /\ ClientSeesNoGap /\ (Stuck \/ Pending)
  BY DEF GapInv
<1>2. StreamTypeOK'
  BY <1>1, StepTypes
<1> USE DEF recv, send
<1>3. ASSUME UNCHANGED send, state' = state \/ state' = "closed" \/ state = "new",
             closing # "no" => closing' # "no"
      PROVE  GapInv'
  <2>1. ClientSeesNoGap' /\ (Pending => Pending')
    BY <1>1, <1>3 DEF ClientSeesNoGap, Pending, InOrder
  <2>2. Stuck => Stuck'
    BY <1>3 DEF Stuck
  <2> QED BY <1>1, <1>2, <2>1, <2>2 DEF GapInv
<1>4. CASE OnNewConnection
  BY <1>3, <1>4 DEF OnNewConnection
<1>5. CASE OnCloseConnection
  BY <1>3, <1>5 DEF OnCloseConnection
<1>6. CASE ProcessStart
  BY <1>3, <1>6 DEF ProcessStart, Close
<1>7. CASE ProcessTurn
  BY <1>3, <1>7 DEF ProcessTurn, Refuse, Wait, Skip, Forward, Whole, Close
<1>8. CASE OnWorkerTunnel
  <2>1. toConn # <<>> /\ toConn' = Tail(toConn) /\ sends' = sends /\ state' = state
    BY <1>8 DEF OnWorkerTunnel
  <2>2. CASE state = "closed"
    BY <1>1, <1>2, <1>8, <2>1, <2>2
       DEF OnWorkerTunnel, GapInv, ClientSeesNoGap, Stuck
  <2>3. CASE state = "open" /\ Head(toConn) = CloseOrder
    <3>1. Close("vm") /\ UNCHANGED <<sendBuf, accepted>>
      BY <1>8, <2>3 DEF OnWorkerTunnel
    <3>2. Stuck => Stuck' /\ ClientSeesNoGap'
      BY <1>1, <2>1, <3>1 DEF Stuck, Close, ClientSeesNoGap
    <3>3. Pending => Pending' /\ ClientSeesNoGap'
      BY <2>1, <2>3, <3>1, TakeKeepsPending
    <3> QED BY <1>1, <1>2, <3>2, <3>3 DEF GapInv
  <2>4. CASE state = "open" /\ Head(toConn) # CloseOrder
    <3>1. send_sync_package(Head(toConn))
      BY <1>8, <2>4 DEF OnWorkerTunnel
    <3>2. CASE sendBuf > MaxSend
      <4>1. Close("sender") /\ UNCHANGED <<sendBuf, accepted>>
        BY <3>1, <3>2 DEF send_sync_package
      <4>2. Stuck' /\ ClientSeesNoGap'
        BY <1>1, <2>1, <3>2, <4>1 DEF Stuck, Close, ClientSeesNoGap
      <4> QED BY <1>2, <4>2 DEF GapInv
    <3>3. CASE ~(sendBuf > MaxSend)
      <4>1. accepted' = Append(accepted, Head(toConn).number)
        BY <3>1, <3>3 DEF send_sync_package
      <4>2. Pending
        BY <1>1, <2>4, <3>3 DEF Stuck
      <4>3. Pending' /\ ClientSeesNoGap'
        BY <2>1, <2>4, <4>1, <4>2, TakeKeepsPending
      <4> QED BY <1>2, <4>3 DEF GapInv
    <3> QED BY <3>2, <3>3
  <2> QED BY <1>8, <2>2, <2>3, <2>4 DEF OnWorkerTunnel
<1>9. CASE Framework
  <2>1. CASE Arrive
    BY <1>3, <2>1 DEF Arrive
  <2>2. CASE HangUp
    BY <1>3, <2>2 DEF HangUp, Close
  <2>3. CASE Drain
    <3>1. Pending /\ UNCHANGED <<toConn, accepted, sends>>
      BY <1>1, <2>3 DEF Drain, Serves, Stuck
    <3> QED BY <1>1, <1>2, <3>1 DEF GapInv, ClientSeesNoGap, Pending, InOrder
  <2>4. CASE VMSends
    <3>1. /\ sends' = sends + 1
          /\ UNCHANGED <<state, closing, sendBuf, accepted>>
      BY <2>4 DEF VMSends
    <3>2. PICK n \in Sizes :
            toConn' = Append(toConn, [number |-> sends + 1, size |-> n])
      BY <2>4 DEF VMSends
    <3>3. [number |-> sends + 1, size |-> n] \in Message
      BY <1>1, <3>2, StreamAssumption DEF Message, StreamTypeOK
    <3>4. Pending => Pending'
      BY <1>1, <3>1, <3>2, <3>3, SendKeepsPending
    <3> QED BY <1>1, <1>2, <3>1, <3>4 DEF GapInv, ClientSeesNoGap, Stuck
  <2>5. CASE VMCloses
    <3>1. UNCHANGED <<state, closing, sendBuf, accepted>>
      BY <2>5 DEF VMCloses
    <3>2. Pending => Pending'
      BY <1>1, <2>5, CloseKeepsPending
    <3> QED BY <1>1, <1>2, <3>1, <3>2 DEF GapInv, ClientSeesNoGap, Stuck
  <2> QED BY <1>9, <2>1, <2>2, <2>3, <2>4, <2>5 DEF Framework
<1>10. CASE UNCHANGED connVars
  BY <1>3, <1>10 DEF connVars
<1> QED BY <1>4, <1>5, <1>6, <1>7, <1>8, <1>9, <1>10 DEF StreamNext

\* What the client gets of the VM's packages has no gap.
THEOREM NoGap == StreamSpec => []ClientSeesNoGap
PROOF
<1>1. GapInv => ClientSeesNoGap
  BY DEF GapInv
<1> QED BY <1>1, InitGap, StepGap, PTL DEF StreamSpec

-----------------------------------------------------------------------------
(* HTTP: the inductive invariant *)

FilesTypeOK ==
    /\ listing \in Nat
    /\ editions \in Seq([second : Nat, blocks : Nat])
    /\ inodes \in Seq(Nat)
    /\ \A i \in DOMAIN inodes : inodes[i] \in DOMAIN editions
    /\ path \in {0} \cup DOMAIN inodes
    /\ torn \in BOOLEAN
    /\ listing # 0 => editions = <<>>

\* Edition e is not what the URL names, and will never be again.
Past(e) == path # 0 => inodes[path] # e

\* Where the worker is tells what it holds.
HandlerOK ==
    /\ phase \in {"idle", "url", "list", "stat", "compare", "open", "head", "sent"}
    /\ phase = "list" => listing # 0
    /\ phase \in {"stat", "compare", "open", "head"} => listing = 0
    /\ phase \in {"idle", "url", "list", "stat", "compare", "open"} => handle = None
    /\ phase = "head" => \E i \in DOMAIN inodes : handle = [of |-> i, pos |-> 0]
    /\ phase = "sent" /\ reply.status # 200 => reply.ended

\* What the worker looked at was an edition, or the file had gone.
StampOK ==
    \/ seen = None /\ stamp = NoValidators
    \/ listing = 0 /\ seen \in DOMAIN editions /\ stamp = Validators(seen)

\* The body so far is the beginning of the open file, or of the listing.
Begun(validators) ==
    \E body, ended :
        reply = [status |-> 200, validators |-> validators, body |-> body, ended |-> ended]

SentOfFile(i, n) ==
    /\ handle = [of |-> i, pos |-> n]
    /\ Begun(stamp)
    /\ \/ torn
       \/ /\ n <= editions[inodes[i]].blocks
          /\ reply.body = [j \in 1..n |-> <<inodes[i], j>>]
          /\ reply.ended => n = editions[inodes[i]].blocks

SentOfListing(n) ==
    /\ handle = [of |-> 0, pos |-> n]
    /\ Begun(NoValidators)
    /\ n <= listing
    /\ reply.body = [j \in 1..n |-> 1]
    /\ reply.ended => n = listing

Sends200 == phase = "sent" /\ reply.status = 200

FileSent ==
    Sends200 /\ listing = 0 => \E i \in DOMAIN inodes, n \in Nat : SentOfFile(i, n)

ListingSent == Sends200 /\ listing # 0 => \E n \in Nat : SentOfListing(n)

\* The edition that was looked at is the one that is open, or it is past.
OpenedOK ==
    handle # None /\ listing = 0 /\ seen # None
      => (~torn /\ inodes[handle.of] = seen) \/ Past(seen)

\* What the client keeps is an edition with its validators; or the edition of
\* its validators is past, and was so when the worker looked at the file.
CacheOK ==
    cache # None =>
        \E e \in DOMAIN editions :
            /\ cache.validators = Validators(e)
            /\ cache.body = Body(e) \/ (Past(e) /\ seen # e)

RequestOK == request.validators \in Conditions

MatchOK == phase = "sent" /\ reply.status = 304 => Fresh

HttpInv ==
    /\ FilesTypeOK
    /\ HandlerOK
    /\ StampOK
    /\ FileSent
    /\ ListingSent
    /\ OpenedOK
    /\ CacheOK
    /\ RequestOK
    /\ MatchOK

\* An edition more: those before keep their numbers, validators and bodies.
LEMMA EditionMore ==
    ASSUME FilesTypeOK, NEW blocks \in FileSizes, NEW later \in {0, 1},
           Written(NewEdition(blocks, later))
    PROVE  /\ listing = 0
           /\ UNCHANGED <<listing, phase, request, stamp, handle, reply, cache, seen>>
           /\ editions' \in Seq([second : Nat, blocks : Nat])
           /\ Len(editions) \in Nat
           /\ DOMAIN editions = 1..Len(editions)
           /\ DOMAIN editions' = 1..(Len(editions) + 1)
           /\ \A e \in DOMAIN editions : editions'[e] = editions[e]
<1> DEFINE new == NewEdition(blocks, later)
           S == [second : Nat, blocks : Nat]
<1>1. /\ editions \in Seq(S) /\ Len(editions) \in Nat
      /\ DOMAIN editions = 1..Len(editions)
      /\ \A e \in DOMAIN editions : editions[e] \in S
    <2>1. editions \in Seq(S)
        BY DEF FilesTypeOK
    <2> HIDE DEF S
    <2> QED BY <2>1
<1>2. new \in S
    <2>1. editions # <<>> => Len(editions) \in DOMAIN editions
        BY <1>1
    <2>2. editions # <<>> => editions[Len(editions)].second \in Nat
        BY <1>1, <2>1
    <2> QED BY <2>2, HttpAssumption DEF NewEdition
<1>3. /\ editions' = Append(editions, new) /\ listing = 0
      /\ UNCHANGED <<listing, phase, request, stamp, handle, reply, cache, seen>>
    BY DEF Written
<1> HIDE DEF new, S
<1>4. /\ editions' \in Seq(S) /\ Len(editions') = Len(editions) + 1
      /\ \A e \in 1..Len(editions) : editions'[e] = editions[e]
      /\ DOMAIN editions' = 1..Len(editions')
    BY <1>1, <1>2, <1>3, AppendProperties
<1> QED BY <1>1, <1>3, <1>4 DEF S

\* What the operator writes is what the URL names from then on, and a file
\* that was open stays as it was, or is torn.
LEMMA InodesStep ==
    ASSUME FilesTypeOK, NEW blocks \in FileSizes, NEW later \in {0, 1},
           LET e == NewEdition(blocks, later) IN Replace(e) \/ Overwrite(e)
    PROVE  /\ FilesTypeOK'
           /\ DOMAIN inodes \subseteq DOMAIN inodes'
           /\ path' # 0 /\ inodes'[path'] = Len(editions) + 1
           /\ torn => torn'
           /\ \A i \in DOMAIN inodes :
                handle # None /\ handle.of = i /\ ~torn' => inodes'[i] = inodes[i]
<1> DEFINE new == Len(editions) + 1
<1>1. Written(NewEdition(blocks, later))
    BY DEF Replace, Overwrite
<1>2. /\ listing = 0 /\ UNCHANGED listing
      /\ editions' \in Seq([second : Nat, blocks : Nat])
      /\ new \in Nat /\ DOMAIN editions' = 1..new /\ DOMAIN editions = 1..Len(editions)
      /\ new \in DOMAIN editions' /\ DOMAIN editions \subseteq DOMAIN editions'
    <2>1. /\ listing = 0 /\ UNCHANGED listing
          /\ editions' \in Seq([second : Nat, blocks : Nat])
          /\ Len(editions) \in Nat
          /\ DOMAIN editions = 1..Len(editions)
          /\ DOMAIN editions' = 1..(Len(editions) + 1)
        BY <1>1, EditionMore
    <2> QED BY <2>1
<1>3. /\ inodes \in Seq(Nat) /\ Len(inodes) \in Nat /\ DOMAIN inodes = 1..Len(inodes)
      /\ torn \in BOOLEAN
      /\ \A i \in DOMAIN inodes : inodes[i] \in DOMAIN editions
    BY DEF FilesTypeOK
<1>4. CASE Replace(NewEdition(blocks, later))
    <2>1. inodes' = Append(inodes, new) /\ path' = Len(inodes) + 1 /\ UNCHANGED torn
        BY <1>4 DEF Replace
    <2> HIDE DEF new
    <2>2. /\ inodes' \in Seq(Nat) /\ DOMAIN inodes' = 1..(Len(inodes) + 1)
          /\ \A i \in DOMAIN inodes : inodes'[i] = inodes[i]
          /\ inodes'[Len(inodes) + 1] = new
        <3>1. new \in Nat
            BY <1>2
        <3>2. /\ Append(inodes, new) \in Seq(Nat)
              /\ Len(Append(inodes, new)) = Len(inodes) + 1
              /\ \A i \in 1..Len(inodes) : Append(inodes, new)[i] = inodes[i]
              /\ Append(inodes, new)[Len(inodes) + 1] = new
            BY <1>3, <3>1, AppendProperties
        <3>3. DOMAIN Append(inodes, new) = 1..(Len(inodes) + 1)
            BY <1>3, <3>2
        <3>4. \A i \in DOMAIN inodes : Append(inodes, new)[i] = inodes[i]
            BY <1>3, <3>2
        <3> QED BY <2>1, <3>2, <3>3, <3>4
    <2>3. \A i \in DOMAIN inodes' : inodes'[i] \in DOMAIN editions'
        <3>1. \A i \in DOMAIN inodes' : i \in DOMAIN inodes \/ i = Len(inodes) + 1
            BY <1>3, <2>2
        <3> QED BY <1>2, <1>3, <2>2, <3>1
    <2>4. path' # 0 /\ path' \in DOMAIN inodes' /\ DOMAIN inodes \subseteq DOMAIN inodes'
        BY <1>3, <2>1, <2>2
    <2> QED BY <1>2, <1>3, <2>1, <2>2, <2>3, <2>4 DEF FilesTypeOK, new
<1>5. CASE Overwrite(NewEdition(blocks, later))
    <2>1. /\ inodes' = [inodes EXCEPT ![path] = new] /\ UNCHANGED path /\ path # 0
          /\ torn' = (torn \/ (handle # None /\ handle.of = path))
        BY <1>5 DEF Overwrite
    <2> HIDE DEF new
    <2>2. path \in DOMAIN inodes
        BY <2>1 DEF FilesTypeOK
    <2>3. inodes' \in Seq(Nat)
        BY <1>2, <1>3, <2>1, <2>2, ExceptSeq
    <2>4. /\ DOMAIN inodes' = DOMAIN inodes /\ inodes'[path] = new
          /\ \A i \in DOMAIN inodes : i # path => inodes'[i] = inodes[i]
        BY <2>1, <2>2
    <2>5. \A i \in DOMAIN inodes' : inodes'[i] \in DOMAIN editions'
        BY <1>2, <1>3, <2>4
    <2> QED BY <1>2, <1>3, <2>1, <2>2, <2>3, <2>4, <2>5 DEF FilesTypeOK, new
<1> QED BY <1>4, <1>5

LEMMA OperatorStep ==
    ASSUME HttpInv, NEW blocks \in FileSizes, NEW later \in {0, 1},
           LET e == NewEdition(blocks, later) IN Replace(e) \/ Overwrite(e)
    PROVE  HttpInv'
<1>1. Written(NewEdition(blocks, later))
    BY DEF Replace, Overwrite
<1>2. FilesTypeOK
    BY DEF HttpInv
<1>3. /\ listing = 0 /\ Len(editions) \in Nat
      /\ UNCHANGED <<listing, phase, request, stamp, handle, reply, cache, seen>>
      /\ DOMAIN editions = 1..Len(editions)
      /\ DOMAIN editions' = 1..(Len(editions) + 1)
      /\ \A e \in DOMAIN editions : editions'[e] = editions[e]
    BY <1>1, <1>2, EditionMore
<1>4. /\ FilesTypeOK'
      /\ DOMAIN inodes \subseteq DOMAIN inodes'
      /\ path' # 0 /\ inodes'[path'] = Len(editions) + 1
      /\ torn => torn'
      /\ \A i \in DOMAIN inodes :
           handle # None /\ handle.of = i /\ ~torn' => inodes'[i] = inodes[i]
    BY <1>2, InodesStep
<1>5. \A e \in DOMAIN editions : /\ e \in DOMAIN editions' /\ Past(e)'
                                 /\ Validators(e)' = Validators(e) /\ Body(e)' = Body(e)
    BY <1>3, <1>4 DEF Past, Validators, Body
<1>6. HandlerOK'
    BY <1>3, <1>4 DEF HttpInv, HandlerOK
<1>7. StampOK'
    BY <1>3, <1>5 DEF HttpInv, StampOK, NoValidators
<1>8. FileSent'
    <2> SUFFICES ASSUME Sends200
                 PROVE  \E i \in DOMAIN inodes', n \in Nat : SentOfFile(i, n)'
        BY <1>3 DEF FileSent, Sends200
    <2>1. PICK i \in DOMAIN inodes, n \in Nat : SentOfFile(i, n)
        BY <1>3 DEF HttpInv, FileSent
    <2>2. handle # None /\ handle.of = i
        <3>1. i \in Nat
            BY <1>2 DEF FilesTypeOK
        <3> QED BY <2>1, <3>1, HttpAssumption DEF SentOfFile
    <2>3. i \in DOMAIN inodes' /\ inodes[i] \in DOMAIN editions
        BY <1>2, <1>4 DEF FilesTypeOK
    <2>4. torn' \/ (~torn /\ inodes'[i] = inodes[i]
                    /\ editions'[inodes'[i]] = editions[inodes[i]])
        <3>1. CASE torn'
            BY <3>1
        <3>2. CASE ~torn'
            <4>1. ~torn /\ inodes'[i] = inodes[i]
                BY <1>4, <2>2, <3>2
            <4>2. editions'[inodes[i]] = editions[inodes[i]]
                BY <1>3, <2>3
            <4> QED BY <4>1, <4>2
        <3> QED BY <3>1, <3>2
    <2>5. SentOfFile(i, n)'
        BY <1>3, <2>1, <2>4, ZenonT(30) DEF SentOfFile, Begun
    <2> QED BY <2>3, <2>5
<1>9. ListingSent'
    BY <1>3 DEF ListingSent, Sends200
<1>10. OpenedOK'
    <2>1. seen # None => seen \in DOMAIN editions
        BY DEF HttpInv, StampOK
    <2> QED BY <1>3, <1>5, <2>1 DEF OpenedOK
<1>11. CacheOK'
    BY <1>3, <1>5 DEF HttpInv, CacheOK
<1>12. RequestOK' /\ MatchOK'
    BY <1>3 DEF HttpInv, RequestOK, MatchOK, Conditions, Fresh, NoValidators
<1> QED BY <1>4, <1>6, <1>7, <1>8, <1>9, <1>10, <1>11, <1>12 DEF HttpInv

\* A step that leaves the names and editions alone, and what follows from that.
SameFiles == UNCHANGED <<listing, path, inodes, editions>>

LEMMA FilesFrame ==
    ASSUME HttpInv, SameFiles, torn' \in BOOLEAN
    PROVE  /\ FilesTypeOK'
           /\ \A e : Validators(e)' = Validators(e) /\ Body(e)' = Body(e)
                     /\ Past(e)' = Past(e)
BY DEF HttpInv, SameFiles, FilesTypeOK, Validators, Body, Past

\* Nothing is looked at, opened or sent any more, or yet.
LEMMA NothingHeld ==
    ASSUME HttpInv, SameFiles, torn' \in BOOLEAN,
           phase' \in {"idle", "url"}, stamp' = NoValidators, handle' = None, seen' = None
    PROVE  /\ FilesTypeOK' /\ HandlerOK' /\ StampOK' /\ FileSent' /\ ListingSent'
           /\ OpenedOK' /\ MatchOK'
<1>1. FilesTypeOK'
    BY FilesFrame
<1>2. HandlerOK'
    BY DEF HandlerOK
<1>3. StampOK' /\ OpenedOK' /\ MatchOK'
    BY DEF StampOK, OpenedOK, MatchOK, NoValidators
<1>4. FileSent' /\ ListingSent'
    BY DEF FileSent, ListingSent, Sends200
<1> QED BY <1>1, <1>2, <1>3, <1>4

LEMMA EditionNumbers ==
    FilesTypeOK => /\ DOMAIN editions \subseteq Nat /\ None \notin DOMAIN editions
                   /\ \A e \in DOMAIN editions : editions[e] \in [second : Nat, blocks : Nat]
<1> SUFFICES ASSUME FilesTypeOK
             PROVE  /\ DOMAIN editions \subseteq Nat /\ None \notin DOMAIN editions
                    /\ \A e \in DOMAIN editions : editions[e] \in [second : Nat, blocks : Nat]
    OBVIOUS
<1> DEFINE S == [second : Nat, blocks : Nat]
<1>1. editions \in Seq(S)
    BY DEF FilesTypeOK
<1> HIDE DEF S
<1>2. \A e \in DOMAIN editions : editions[e] \in S
    BY <1>1
<1>3. DOMAIN editions \subseteq Nat
    BY <1>1
<1> QED BY <1>2, <1>3, HttpAssumption DEF S

LEMMA DeleteStep == ASSUME HttpInv, Delete PROVE HttpInv'
<1>1. /\ path' = 0
      /\ UNCHANGED <<listing, inodes, editions, torn, phase, request, stamp, handle,
                     reply, cache, seen>>
    BY DEF Delete
<1>2. FilesTypeOK' /\ HandlerOK'
    BY <1>1 DEF HttpInv, FilesTypeOK, HandlerOK
<1>5. StampOK'
    BY <1>1 DEF HttpInv, StampOK, NoValidators, Validators
<1>6. MatchOK' /\ RequestOK'
    BY <1>1 DEF HttpInv, MatchOK, RequestOK, Conditions, Fresh, NoValidators
<1>3. FileSent' /\ ListingSent'
    <2>1. \A i, n : (SentOfFile(i, n))' = SentOfFile(i, n)
        BY <1>1 DEF SentOfFile, Begun
    <2>2. \A n : (SentOfListing(n))' = SentOfListing(n)
        BY <1>1 DEF SentOfListing, Begun, NoValidators
    <2>3. Sends200' = Sends200
        BY <1>1 DEF Sends200
    <2> QED BY <1>1, <2>1, <2>2, <2>3 DEF HttpInv, FileSent, ListingSent
<1>4. OpenedOK' /\ CacheOK'
    BY <1>1 DEF HttpInv, OpenedOK, CacheOK, Past, Validators, Body
<1> QED BY <1>2, <1>3, <1>4, <1>5, <1>6 DEF HttpInv

LEMMA GetStep == ASSUME HttpInv, Get PROVE HttpInv'
<1>1. /\ phase = "idle" /\ phase' = "url" /\ SameFiles /\ torn' = torn
      /\ UNCHANGED <<stamp, handle, reply, cache, seen>>
      /\ request'.validators \in Conditions
    BY DEF Get, files, SameFiles
<1>2. HandlerOK'
    BY <1>1 DEF HttpInv, HandlerOK, SameFiles
<1>3. FilesTypeOK' /\ CacheOK'
    BY <1>1, FilesFrame DEF HttpInv, CacheOK, FilesTypeOK, SameFiles
<1>4. StampOK' /\ OpenedOK'
    BY <1>1 DEF HttpInv, StampOK, OpenedOK, SameFiles, HandlerOK, Past, Validators, NoValidators
<1>5. FileSent' /\ ListingSent' /\ MatchOK'
    BY <1>1 DEF FileSent, ListingSent, Sends200, MatchOK
<1>6. RequestOK'
    BY <1>1 DEF RequestOK, Conditions, NoValidators
<1> QED BY <1>2, <1>3, <1>4, <1>5, <1>6 DEF HttpInv

LEMMA BegunIs ==
    ASSUME NEW v, Begun(v)
    PROVE  /\ reply.validators = v
           /\ \A x : [reply EXCEPT !.body = x]
                      = [status |-> 200, validators |-> v, body |-> x, ended |-> reply.ended]
           /\ \A x : [reply EXCEPT !.ended = x]
                      = [status |-> 200, validators |-> v, body |-> reply.body, ended |-> x]
<1>1. PICK body, ended :
         reply = [status |-> 200, validators |-> v, body |-> body, ended |-> ended]
    BY DEF Begun
<1>2. reply.validators = v /\ reply.body = body /\ reply.ended = ended
    BY <1>1
<1>3. ASSUME NEW x
      PROVE  [reply EXCEPT !.body = x]
                = [status |-> 200, validators |-> v, body |-> x, ended |-> ended]
    BY <1>1
<1>4. ASSUME NEW x
      PROVE  [reply EXCEPT !.ended = x]
                = [status |-> 200, validators |-> v, body |-> body, ended |-> x]
    BY <1>1
<1> QED BY <1>2, <1>3, <1>4

\* An answer that has begun, with one block more.
LEMMA BegunGrows ==
    ASSUME NEW v, Begun(v), NEW b, reply' = [reply EXCEPT !.body = Append(@, b)]
    PROVE  reply' = [status |-> 200, validators |-> v, body |-> Append(reply.body, b),
                     ended |-> reply.ended]
<1>1. PICK x : x = Append(reply.body, b)
    OBVIOUS
<1>2. reply' = [reply EXCEPT !.body = x]
    BY <1>1
<1>3. [reply EXCEPT !.body = x]
        = [status |-> 200, validators |-> v, body |-> x, ended |-> reply.ended]
    BY BegunIs
<1> QED BY <1>1, <1>2, <1>3

\* Before the next request, the answer of the last is kept or not.
LEMMA ForgetStep ==
    ASSUME HttpInv, Forget,
           \/ UNCHANGED cache
           \/ /\ phase = "sent" /\ reply.ended /\ reply.status = 200
              /\ reply.validators # NoValidators
              /\ cache' = [validators |-> reply.validators, body |-> reply.body]
    PROVE  HttpInv'
<1>1. /\ phase' = "idle" /\ request' = NoRequest /\ stamp' = NoValidators
      /\ handle' = None /\ seen' = None /\ torn' = FALSE /\ SameFiles
    BY DEF Forget, SameFiles
<1>2. /\ FilesTypeOK' /\ HandlerOK' /\ StampOK' /\ FileSent' /\ ListingSent'
      /\ OpenedOK' /\ MatchOK'
    BY <1>1, NothingHeld
<1>3. RequestOK'
    BY <1>1 DEF RequestOK, Conditions, NoRequest, NoValidators
<1>4. /\ \A e : Validators(e)' = Validators(e) /\ Body(e)' = Body(e) /\ Past(e)' = Past(e)
      /\ DOMAIN editions' = DOMAIN editions /\ \A e \in DOMAIN editions : e # None
    <2>1. \A e : Validators(e)' = Validators(e) /\ Body(e)' = Body(e) /\ Past(e)' = Past(e)
        BY <1>1, FilesFrame
    <2> QED BY <1>1, <2>1, EditionNumbers DEF SameFiles, HttpInv
<1>5. CASE UNCHANGED cache
    <2>1. CacheOK'
        BY <1>1, <1>4, <1>5 DEF HttpInv, CacheOK
    <2> QED BY <1>2, <1>3, <2>1 DEF HttpInv
<1>6. CASE /\ phase = "sent" /\ reply.ended /\ reply.status = 200
           /\ reply.validators # NoValidators
           /\ cache' = [validators |-> reply.validators, body |-> reply.body]
    <2>1. listing = 0
        <3> SUFFICES ASSUME listing # 0 PROVE FALSE
            OBVIOUS
        <3>1. PICK n \in Nat : SentOfListing(n)
            BY <1>6 DEF HttpInv, ListingSent, Sends200
        <3> QED BY <1>6, <3>1, BegunIs DEF SentOfListing
    <2>2. PICK i \in DOMAIN inodes, n \in Nat : SentOfFile(i, n)
        BY <1>6, <2>1 DEF HttpInv, FileSent, Sends200
    <2>3. seen \in DOMAIN editions /\ reply.validators = Validators(seen)
        <3>1. reply.validators = stamp
            BY <2>2, BegunIs DEF SentOfFile
        <3> QED BY <1>6, <3>1 DEF HttpInv, StampOK
    <2>4. handle # None /\ handle.of = i
        <3>1. i \in Nat
            BY DEF HttpInv, FilesTypeOK
        <3> QED BY <2>2, <3>1, HttpAssumption DEF SentOfFile
    <2>5. (~torn /\ inodes[i] = seen) \/ Past(seen)
        <3>1. seen # None
            BY <1>4, <2>3
        <3>2. (~torn /\ inodes[handle.of] = seen) \/ Past(seen)
            BY <2>1, <2>4, <3>1 DEF HttpInv, OpenedOK
        <3> QED BY <2>4, <3>2
    <2>6. ~torn /\ inodes[i] = seen => reply.body = Body(seen)
        <3> SUFFICES ASSUME ~torn, inodes[i] = seen PROVE reply.body = Body(seen)
            OBVIOUS
        <3>1. n = editions[inodes[i]].blocks /\ reply.body = [j \in 1..n |-> <<inodes[i], j>>]
            BY <1>6, <2>2 DEF SentOfFile
        <3>2. n = editions[seen].blocks /\ reply.body = [j \in 1..n |-> <<seen, j>>]
            BY <3>1
        <3> QED BY <3>2 DEF Body
    <2>7. CacheOK'
        BY <1>1, <1>4, <1>6, <2>3, <2>5, <2>6 DEF CacheOK
    <2> QED BY <1>2, <1>3, <2>7 DEF HttpInv
<1> QED BY <1>5, <1>6

LEMMA KeepStep == ASSUME HttpInv, Keep \/ Abort PROVE HttpInv'
BY ForgetStep DEF Keep, Abort

\* What a step of the worker that keeps the stamp, the request and the cache
\* leaves as it is.
LEMMA WorkerFrame ==
    ASSUME HttpInv, SameFiles, torn' \in BOOLEAN, UNCHANGED <<request, cache, stamp, seen>>
    PROVE  FilesTypeOK' /\ StampOK' /\ CacheOK' /\ RequestOK' /\ Fresh' = Fresh
<1>1. /\ FilesTypeOK' /\ DOMAIN editions' = DOMAIN editions
      /\ \A e : Validators(e)' = Validators(e) /\ Body(e)' = Body(e) /\ Past(e)' = Past(e)
    BY FilesFrame DEF SameFiles
<1>2. StampOK'
    BY <1>1 DEF HttpInv, StampOK, SameFiles, NoValidators
<1>3. CacheOK'
    BY <1>1 DEF HttpInv, CacheOK
<1>4. RequestOK' /\ Fresh' = Fresh
    BY DEF HttpInv, RequestOK, Conditions, Fresh, NoValidators
<1> QED BY <1>1, <1>2, <1>3, <1>4

\* An answer without a body.
LEMMA ReturnStep ==
    ASSUME HttpInv, SameFiles, torn' \in BOOLEAN, UNCHANGED <<request, cache, stamp, seen>>,
           NEW status, Return(status), handle' = None,
           status # 200, status = 304 => Fresh
    PROVE  HttpInv'
<1>1. /\ phase' = "sent" /\ reply'.status = status /\ reply'.ended
    BY DEF Return, Reply
<1>2. HandlerOK'
    BY <1>1 DEF HandlerOK
<1>3. FileSent' /\ ListingSent' /\ OpenedOK'
    BY <1>1 DEF FileSent, ListingSent, Sends200, OpenedOK
<1>4. FilesTypeOK' /\ StampOK' /\ CacheOK' /\ RequestOK' /\ Fresh' = Fresh
    BY WorkerFrame
<1>5. MatchOK'
    BY <1>1, <1>4 DEF MatchOK
<1> QED BY <1>2, <1>3, <1>4, <1>5 DEF HttpInv

\* The worker goes on and has not sent anything.
LEMMA GoOn ==
    ASSUME HttpInv, SameFiles, torn' \in BOOLEAN, UNCHANGED <<request, cache, stamp, seen>>,
           phase' # "sent", HandlerOK', OpenedOK'
    PROVE  HttpInv'
<1>1. FileSent' /\ ListingSent' /\ MatchOK'
    BY DEF FileSent, ListingSent, Sends200, MatchOK
<1> QED BY <1>1, WorkerFrame DEF HttpInv

LEMMA RefuseStep == ASSUME HttpInv, RefuseUrl PROVE HttpInv'
<1>1. /\ SameFiles /\ torn' = torn /\ torn \in BOOLEAN
      /\ UNCHANGED <<request, cache, stamp, seen>> /\ handle' = None
    BY DEF RefuseUrl, files, SameFiles, HttpInv, HandlerOK, FilesTypeOK
<1>2. PICK status \in {404, 500} : Return(status)
    BY DEF RefuseUrl
<1> QED BY <1>1, <1>2, ReturnStep

LEMMA FindStep == ASSUME HttpInv, Find PROVE HttpInv'
<1>1. /\ SameFiles /\ torn' = torn /\ torn \in BOOLEAN
      /\ UNCHANGED <<request, cache, stamp, seen>> /\ handle' = None
    BY DEF Find, files, SameFiles, HttpInv, HandlerOK, FilesTypeOK
<1>2. CASE Return(404)
    BY <1>1, <1>2, ReturnStep
<1>3. CASE \/ listing # 0 /\ phase' = "list"
           \/ path # 0 /\ phase' = "stat"
    <2>1. path # 0 => listing = 0
        BY DEF HttpInv, FilesTypeOK
    <2>2. HandlerOK' /\ OpenedOK'
        BY <1>1, <1>3, <2>1 DEF HandlerOK, OpenedOK, SameFiles
    <2> QED BY <1>1, <1>3, <2>2, GoOn
<1> QED BY <1>2, <1>3 DEF Find

\* generate_etag_for_regular_file: what was past is not what is seen.
LEMMA StatStep == ASSUME HttpInv, Stat PROVE HttpInv'
<1>1. /\ SameFiles /\ torn' = torn /\ torn \in BOOLEAN /\ listing = 0
      /\ UNCHANGED <<request, cache>> /\ handle' = None /\ phase' = "compare"
    BY DEF Stat, files, SameFiles, HttpInv, HandlerOK, FilesTypeOK
<1>2. /\ FilesTypeOK' /\ DOMAIN editions' = DOMAIN editions
      /\ \A e : Validators(e)' = Validators(e) /\ Body(e)' = Body(e) /\ Past(e)' = Past(e)
    BY <1>1, FilesFrame DEF SameFiles
<1>3. \/ path = 0 /\ stamp' = NoValidators /\ seen' = None
      \/ path # 0 /\ stamp' = Validators(inodes[path]) /\ seen' = inodes[path]
    BY DEF Stat
<1>4. path # 0 => inodes[path] \in DOMAIN editions
    BY DEF HttpInv, FilesTypeOK
<1>5. StampOK'
    BY <1>1, <1>2, <1>3, <1>4 DEF StampOK, SameFiles, NoValidators
<1>6. HandlerOK' /\ OpenedOK'
    BY <1>1 DEF HandlerOK, OpenedOK, SameFiles
<1>7. FileSent' /\ ListingSent' /\ MatchOK'
    BY <1>1 DEF FileSent, ListingSent, Sends200, MatchOK
<1>8. CacheOK'
    <2>1. \A e \in DOMAIN editions : Past(e) => seen' # e
        BY <1>3, EditionNumbers DEF Past, HttpInv
    <2> QED BY <1>1, <1>2, <2>1 DEF HttpInv, CacheOK
<1>9. RequestOK'
    BY <1>1 DEF HttpInv, RequestOK, Conditions, NoValidators
<1> QED BY <1>2, <1>5, <1>6, <1>7, <1>8, <1>9 DEF HttpInv

LEMMA CompareStep == ASSUME HttpInv, Compare PROVE HttpInv'
<1>1. /\ SameFiles /\ torn' = torn /\ torn \in BOOLEAN /\ listing = 0
      /\ UNCHANGED <<request, cache, stamp, seen>> /\ handle' = None
    BY DEF Compare, files, SameFiles, HttpInv, HandlerOK, FilesTypeOK
<1>2. CASE Fresh
    <2>1. Return(304)
        BY <1>2 DEF Compare
    <2> QED BY <1>1, <1>2, <2>1, ReturnStep
<1>3. CASE ~Fresh
    <2>1. phase' = "open"
        BY <1>3 DEF Compare
    <2>2. HandlerOK' /\ OpenedOK'
        BY <1>1, <2>1 DEF HandlerOK, OpenedOK, SameFiles
    <2> QED BY <1>1, <2>1, <2>2, GoOn
<1> QED BY <1>2, <1>3

\* What is opened is what was seen, or that has been replaced in between.
LEMMA OpenStep == ASSUME HttpInv, Open PROVE HttpInv'
<1>1. /\ SameFiles /\ torn' = FALSE /\ listing = 0
      /\ UNCHANGED <<request, cache, stamp, seen>> /\ handle = None
    BY DEF Open, SameFiles, HttpInv, HandlerOK
<1>2. CASE path = 0
    <2>1. Return(500) /\ handle' = None
        BY <1>1, <1>2 DEF Open
    <2>2. torn' \in BOOLEAN
        BY <1>1
    <2>3. 500 # 200 /\ 500 # 304
        OBVIOUS
    <2> QED BY <1>1, <2>1, <2>2, <2>3, ReturnStep
<1>3. CASE path # 0
    <2>1. phase' = "head" /\ handle' = [of |-> path, pos |-> 0] /\ path \in DOMAIN inodes
        BY <1>3 DEF Open, HttpInv, FilesTypeOK
    <2>2. HandlerOK'
        BY <1>1, <2>1 DEF HandlerOK, SameFiles
    <2>3. handle'.of = path
        BY <2>1
    <2>4. OpenedOK'
        BY <1>1, <1>3, <2>3 DEF OpenedOK, SameFiles, Past
    <2> QED BY <1>1, <2>1, <2>2, <2>4, GoOn
<1> QED BY <1>2, <1>3

\* The head of an answer with a body, and then its blocks.
LEMMA SendStep ==
    ASSUME HttpInv, SameFiles, torn' = torn, UNCHANGED <<request, cache, stamp, seen>>,
           phase' = "sent", reply'.status = 200,
           handle # None => handle' # None /\ handle'.of = handle.of,
           listing # 0 \/ handle # None,
           listing = 0 => \E i \in DOMAIN inodes, n \in Nat : SentOfFile(i, n)',
           listing # 0 => \E n \in Nat : SentOfListing(n)'
    PROVE  HttpInv'
<1>1. torn' \in BOOLEAN
    BY DEF HttpInv, FilesTypeOK
<1>2. FilesTypeOK' /\ StampOK' /\ CacheOK' /\ RequestOK'
    BY <1>1, WorkerFrame
<1>3. HandlerOK' /\ MatchOK'
    BY DEF HandlerOK, MatchOK
<1>4. FileSent' /\ ListingSent'
    BY DEF FileSent, ListingSent, SameFiles
<1>5. OpenedOK'
    BY DEF HttpInv, OpenedOK, SameFiles, Past
<1> QED BY <1>2, <1>3, <1>4, <1>5 DEF HttpInv

LEMMA HeadStep == ASSUME HttpInv, Head200 PROVE HttpInv'
<1>1. /\ SameFiles /\ torn' = torn /\ listing = 0 /\ phase' = "sent"
      /\ UNCHANGED <<request, cache, stamp, seen, handle>>
      /\ reply' = [status |-> 200, validators |-> stamp, body |-> <<>>, ended |-> FALSE]
    BY DEF Head200, files, SameFiles, HttpInv, HandlerOK
<1>2. PICK i \in DOMAIN inodes : handle = [of |-> i, pos |-> 0]
    BY DEF Head200, HttpInv, HandlerOK
<1>3. handle # None
    <2>1. i \in Nat
        BY DEF HttpInv, FilesTypeOK
    <2> QED BY <1>2, <2>1, HttpAssumption
<1>4. SentOfFile(i, 0)'
    <2>1. inodes[i] \in DOMAIN editions
        BY DEF HttpInv, FilesTypeOK
    <2>2. editions[inodes[i]].blocks \in Nat
        BY <2>1, EditionNumbers DEF HttpInv
    <2>3. <<>> = [j \in 1..0 |-> <<inodes[i], j>>]
        OBVIOUS
    <2>4. 0 <= editions[inodes[i]].blocks
        BY <2>2
    <2> QED BY <1>1, <1>2, <2>3, <2>4 DEF SentOfFile, Begun, SameFiles
<1> QED BY <1>1, <1>3, <1>4, SendStep

\* write_end_callback puts the next block of the open file behind the others.
LEMMA WriteFileStep == ASSUME HttpInv, WriteFile PROVE HttpInv'
<1>1. /\ SameFiles /\ torn' = torn /\ listing = 0 /\ phase' = "sent"
      /\ UNCHANGED <<request, cache, stamp, seen>> /\ ~reply.ended
    BY DEF WriteFile, files, SameFiles
<1>2. Sends200
    BY DEF WriteFile, HttpInv, HandlerOK, Sends200
<1>3. PICK i \in DOMAIN inodes, n \in Nat : SentOfFile(i, n)
    BY <1>1, <1>2 DEF HttpInv, FileSent
<1>4. handle = [of |-> i, pos |-> n] /\ handle # None
    <2>1. i \in Nat
        BY DEF HttpInv, FilesTypeOK
    <2> QED BY <1>3, <2>1, HttpAssumption DEF SentOfFile
<1> DEFINE e == inodes[i]
           blocks == editions[e].blocks
<1>5. blocks \in Nat
    <2>1. e \in DOMAIN editions
        BY DEF HttpInv, FilesTypeOK
    <2> QED BY <2>1, EditionNumbers DEF HttpInv
<1>6. Len(Body(e)) = blocks /\ \A j \in 1..blocks : Body(e)[j] = <<e, j>>
    BY <1>5 DEF Body
<1>7. Begun(stamp) /\ (torn \/ (n <= blocks /\ reply.body = [j \in 1..n |-> <<e, j>>]))
    BY <1>3 DEF SentOfFile
<1>8. CASE n + 1 <= blocks
    <2>1. /\ reply' = [reply EXCEPT !.body = Append(@, <<e, n + 1>>)]
          /\ handle' = [of |-> i, pos |-> n + 1]
        <3>1. n + 1 \in 1..blocks
            BY <1>5, <1>8
        <3>2. Body(inodes[handle.of]) = Body(e) /\ handle.pos + 1 = n + 1
            BY <1>4
        <3>3. /\ reply' = [reply EXCEPT !.body = Append(@, Body(e)[n + 1])]
              /\ handle' = [handle EXCEPT !.pos = n + 1]
            BY <1>6, <1>8, <3>2 DEF WriteFile
        <3> QED BY <1>4, <1>6, <3>1, <3>3
    <2>2. /\ reply' = [status |-> 200, validators |-> stamp,
                       body |-> Append(reply.body, <<e, n + 1>>), ended |-> reply.ended]
          /\ Begun(stamp)'
        <3>1. reply' = [status |-> 200, validators |-> stamp,
                        body |-> Append(reply.body, <<e, n + 1>>), ended |-> reply.ended]
            BY <1>7, <2>1, BegunGrows
        <3> QED BY <1>1, <3>1 DEF Begun
    <2>3. torn \/ reply'.body = [j \in 1..(n + 1) |-> <<e, j>>]
        <3> SUFFICES ASSUME ~torn PROVE reply'.body = [j \in 1..(n + 1) |-> <<e, j>>]
            OBVIOUS
        <3>1. reply.body = [j \in 1..n |-> <<e, j>>]
            BY <1>7
        <3>2. Append([j \in 1..n |-> <<e, j>>], <<e, n + 1>>) = [j \in 1..(n + 1) |-> <<e, j>>]
            OBVIOUS
        <3> QED BY <2>2, <3>1, <3>2
    <2>4. SentOfFile(i, n + 1)'
        BY <1>1, <1>8, <2>1, <2>2, <2>3 DEF SentOfFile, SameFiles
    <2>5. handle' # None /\ handle'.of = handle.of
        <3>1. i \in Nat
            BY DEF HttpInv, FilesTypeOK
        <3> QED BY <1>4, <2>1, <3>1, HttpAssumption
    <2> QED BY <1>1, <1>4, <2>2, <2>4, <2>5, SendStep
<1>9. CASE ~(n + 1 <= blocks)
    <2>1. reply' = [reply EXCEPT !.ended = TRUE] /\ handle' = handle
        BY <1>4, <1>6, <1>9 DEF WriteFile
    <2>2. /\ reply' = [status |-> 200, validators |-> stamp, body |-> reply.body, ended |-> TRUE]
          /\ Begun(stamp)'
        <3>1. reply' = [status |-> 200, validators |-> stamp, body |-> reply.body, ended |-> TRUE]
            BY <1>7, <2>1, BegunIs
        <3> QED BY <1>1, <3>1 DEF Begun
    <2>3. n <= blocks => n = blocks
        BY <1>5, <1>9
    <2>4. SentOfFile(i, n)'
        BY <1>1, <1>4, <1>7, <2>1, <2>2, <2>3 DEF SentOfFile, SameFiles
    <2> QED BY <1>1, <1>4, <2>1, <2>2, <2>4, SendStep
<1> QED BY <1>8, <1>9

LEMMA ListHeadStep == ASSUME HttpInv, ListHead PROVE HttpInv'
<1>1. /\ SameFiles /\ torn' = torn /\ listing # 0 /\ phase' = "sent"
      /\ UNCHANGED <<request, cache, stamp, seen>> /\ handle = None
    BY DEF ListHead, files, SameFiles, HttpInv, HandlerOK
<1>2. reply' = [status |-> 200, validators |-> NoValidators, body |-> <<>>, ended |-> FALSE]
      /\ handle' = [of |-> 0, pos |-> 0]
    BY DEF ListHead, Reply
<1>3. SentOfListing(0)'
    <2>1. <<>> = [j \in 1..0 |-> 1]
        OBVIOUS
    <2>2. 0 <= listing /\ listing' = listing
        BY <1>1 DEF HttpInv, FilesTypeOK, SameFiles
    <2>3. Begun(NoValidators)'
        BY <1>2 DEF Begun, NoValidators
    <2> QED BY <1>2, <2>1, <2>2, <2>3 DEF SentOfListing
<1> QED BY <1>1, <1>2, <1>3, SendStep

LEMMA WriteListingStep == ASSUME HttpInv, WriteListing PROVE HttpInv'
<1>1. /\ SameFiles /\ torn' = torn /\ listing # 0 /\ listing \in Nat /\ listing' = listing
      /\ phase' = "sent" /\ UNCHANGED <<request, cache, stamp, seen>> /\ ~reply.ended
    BY DEF WriteListing, files, SameFiles, HttpInv, FilesTypeOK
<1>2. Sends200
    BY DEF WriteListing, HttpInv, HandlerOK, Sends200
<1>3. PICK n \in Nat : SentOfListing(n)
    BY <1>1, <1>2 DEF HttpInv, ListingSent
<1>4. /\ handle = [of |-> 0, pos |-> n] /\ Begun(NoValidators) /\ n <= listing
      /\ reply.body = [j \in 1..n |-> 1]
    BY <1>3 DEF SentOfListing
<1>5. CASE n < listing
    <2>1. /\ reply' = [reply EXCEPT !.body = Append(@, 1)]
          /\ handle' = [of |-> 0, pos |-> n + 1]
        BY <1>4, <1>5 DEF WriteListing
    <2>2. /\ reply' = [status |-> 200, validators |-> NoValidators,
                       body |-> Append(reply.body, 1), ended |-> reply.ended]
          /\ Begun(NoValidators)'
        <3>1. reply' = [status |-> 200, validators |-> NoValidators,
                        body |-> Append(reply.body, 1), ended |-> reply.ended]
            BY <1>4, <2>1, BegunGrows
        <3> QED BY <3>1 DEF Begun, NoValidators
    <2>3. reply'.body = [j \in 1..(n + 1) |-> 1]
        <3>1. Append([j \in 1..n |-> 1], 1) = [j \in 1..(n + 1) |-> 1]
            OBVIOUS
        <3> QED BY <1>4, <2>2, <3>1
    <2>4. SentOfListing(n + 1)'
        BY <1>1, <1>5, <2>1, <2>2, <2>3 DEF SentOfListing
    <2>5. handle' # None /\ handle'.of = handle.of
        BY <1>4, <2>1, HttpAssumption
    <2> QED BY <1>1, <2>2, <2>4, <2>5, SendStep
<1>6. CASE ~(n < listing)
    <2>1. reply' = [reply EXCEPT !.ended = TRUE] /\ handle' = handle
        BY <1>4, <1>6 DEF WriteListing
    <2>2. /\ reply' = [status |-> 200, validators |-> NoValidators, body |-> reply.body,
                       ended |-> TRUE]
          /\ Begun(NoValidators)'
        <3>1. reply' = [status |-> 200, validators |-> NoValidators, body |-> reply.body,
                        ended |-> TRUE]
            BY <1>4, <2>1, BegunIs
        <3> QED BY <3>1 DEF Begun, NoValidators
    <2>3. n = listing
        BY <1>1, <1>4, <1>6
    <2>4. SentOfListing(n)'
        BY <1>1, <1>4, <2>1, <2>2, <2>3 DEF SentOfListing
    <2> QED BY <1>1, <2>1, <2>2, <2>4, SendStep
<1> QED BY <1>5, <1>6

LEMMA HttpStep == ASSUME HttpInv, [HttpNext]_httpVars PROVE HttpInv'
<1>1. CASE UNCHANGED httpVars
    <2>1. /\ SameFiles /\ UNCHANGED <<torn, phase, request, stamp, handle, reply, cache, seen>>
          /\ torn \in BOOLEAN
        BY <1>1 DEF httpVars, files, SameFiles, HttpInv, FilesTypeOK
    <2>2. FilesTypeOK' /\ StampOK' /\ CacheOK' /\ RequestOK' /\ Fresh' = Fresh
        BY <2>1, WorkerFrame
    <2>3. HandlerOK' /\ MatchOK' /\ OpenedOK'
        BY <2>1, <2>2 DEF HttpInv, HandlerOK, MatchOK, OpenedOK, SameFiles, Past
    <2>4. \A i, n : (SentOfFile(i, n))' = SentOfFile(i, n)
        BY <2>1 DEF SentOfFile, Begun, SameFiles
    <2>5. \A n : (SentOfListing(n))' = SentOfListing(n)
        BY <2>1 DEF SentOfListing, Begun, NoValidators, SameFiles
    <2>6. FileSent' /\ ListingSent'
        BY <2>1, <2>4, <2>5 DEF HttpInv, FileSent, ListingSent, Sends200, SameFiles
    <2> QED BY <2>2, <2>3, <2>6 DEF HttpInv
<1>2. CASE HttpNext
    BY <1>2, OperatorStep, DeleteStep, GetStep, KeepStep, RefuseStep, FindStep, StatStep,
       CompareStep, OpenStep, HeadStep, WriteFileStep, ListHeadStep, WriteListingStep
       DEF HttpNext
<1> QED BY <1>1, <1>2

LEMMA HttpStarts == ASSUME NEW blocks \in Nat, NoRequestYet(blocks) PROVE HttpInv
<1> USE DEF NoRequestYet
<1>1. FilesTypeOK
    <2>1. \A S : <<>> \in Seq(S) /\ DOMAIN <<>> = {}
        OBVIOUS
    <2> QED BY <2>1 DEF FilesTypeOK
<1>2. HandlerOK /\ StampOK /\ OpenedOK
    BY DEF HandlerOK, StampOK, OpenedOK
<1>3. FileSent /\ ListingSent /\ MatchOK /\ CacheOK
    BY DEF FileSent, ListingSent, Sends200, MatchOK, CacheOK
<1>4. RequestOK
    BY DEF RequestOK, Conditions, NoRequest
<1> QED BY <1>1, <1>2, <1>3, <1>4 DEF HttpInv

LEMMA BodyFollows == HttpInv => BodyIsTheFile
<1> SUFFICES ASSUME HttpInv, Answered(200) PROVE
        IF listing # 0
          THEN Len(reply.body) = listing /\ (listing = 1 => reply.body = Blocks(1))
          ELSE torn \/ reply.body = Body(inodes[handle.of])
    BY DEF BodyIsTheFile
<1>1. Sends200 /\ reply.ended
    BY DEF Answered, Sends200
<1>2. CASE listing # 0
    <2>1. PICK n \in Nat : SentOfListing(n)
        BY <1>1, <1>2 DEF HttpInv, ListingSent
    <2>2. n = listing /\ reply.body = [j \in 1..n |-> 1]
        BY <1>1, <2>1 DEF SentOfListing
    <2>3. Len(reply.body) = listing
        BY <2>2
    <2>4. [j \in 1..1 |-> 1] = Blocks(1)
        BY DEF Blocks
    <2> QED BY <1>2, <2>2, <2>3, <2>4
<1>3. CASE listing = 0
    <2>1. PICK i \in DOMAIN inodes, n \in Nat : SentOfFile(i, n)
        BY <1>1, <1>3 DEF HttpInv, FileSent
    <2>2. handle.of = i
        BY <2>1 DEF SentOfFile
    <2>3. torn \/ (/\ n = editions[inodes[i]].blocks
                   /\ reply.body = [j \in 1..n |-> <<inodes[i], j>>])
        BY <1>1, <2>1 DEF SentOfFile
    <2> QED BY <1>3, <2>2, <2>3 DEF Body
<1> QED BY <1>2, <1>3

\* Equal validators mean that the client asked with those of what was seen.
LEMMA NotModifiedFollows == HttpInv => NotModifiedIsTrue
<1> SUFFICES ASSUME HttpInv, Answered(304), ToldApart PROVE cache.body = Body(seen)
    BY DEF NotModifiedIsTrue
<1> DEFINE asked304 == request.validators
<1>1. /\ \/ stamp.etag # None /\ stamp.etag = asked304.etag
         \/ stamp.date # None /\ stamp.date = asked304.date
      /\ asked304 \in Conditions
    BY DEF Answered, HttpInv, MatchOK, Fresh, RequestOK
<1>2. stamp # NoValidators /\ asked304 # NoValidators
    BY <1>1 DEF NoValidators
<1>3. seen \in DOMAIN editions /\ stamp = Validators(seen)
    BY <1>2 DEF HttpInv, StampOK
<1>4. cache # None
    BY <1>1, <1>2 DEF Conditions
<1>5. PICK e \in DOMAIN editions :
          /\ cache.validators = Validators(e)
          /\ cache.body = Body(e) \/ (Past(e) /\ seen # e)
    BY <1>4 DEF HttpInv, CacheOK
<1>6. /\ stamp.etag = <<editions[seen].second, editions[seen].blocks>>
      /\ stamp.date = editions[seen].second /\ stamp.date \in Nat
      /\ stamp.date # None
    BY <1>3, EditionNumbers, HttpAssumption DEF HttpInv, Validators
<1>7. seen = e
    <2> SUFFICES ASSUME seen # e PROVE FALSE
        OBVIOUS
    <2>1. IF asked304.date = None THEN Validators(seen).etag # Validators(e).etag
                                  ELSE Validators(seen).date # Validators(e).date
        BY <1>3 DEF ToldApart
    <2>2. /\ Validators(e).etag = <<editions[e].second, editions[e].blocks>>
          /\ Validators(e).date = editions[e].second /\ editions[e].second # None
        BY EditionNumbers, HttpAssumption DEF HttpInv, Validators
    <2>3. \/ asked304 = Validators(e)
          \/ asked304.etag = None /\ asked304.date = Validators(e).date
          \/ asked304.date = None /\ asked304.etag = Validators(e).etag
        BY <1>1, <1>2, <1>5 DEF Conditions, Validators
    <2>4. CASE asked304.date = None
        BY <1>1, <1>3, <1>6, <2>1, <2>2, <2>3, <2>4
    <2>5. CASE asked304.date # None
        <3>1. editions[seen].second # editions[e].second
            BY <1>3, <1>6, <2>1, <2>2, <2>5
        <3> QED BY <1>1, <1>6, <2>2, <2>3, <2>5, <3>1, SMTT(30)
    <2> QED BY <2>4, <2>5
<1> QED BY <1>5, <1>7

-----------------------------------------------------------------------------
(* Reloads: none is lost *)

\* Nobody is asked to take up files that are not there yet, and whoever is
\* behind what it was asked for has still to be told, or to look at its flag.
ReloadInv ==
    /\ disk.edition \in Nat
    /\ setting \subseteq VMs
    /\ flag \in [VMs -> BOOLEAN]
    /\ asked \in [VMs -> Nat] /\ tookUp \in [VMs -> Nat]
    /\ \A v \in VMs : asked[v] <= disk.edition
    /\ \A v \in VMs : tookUp[v] < asked[v] => flag[v] \/ v \in setting

LEMMA ReloadStarts ==
    ASSUME NEW d, NEW j, d.edition = 0, Stopped(d, j)
    PROVE  ReloadInv
BY DEF Stopped, ReloadInv

\* A VM that loads its functions is not behind any more.
LEMMA TakesUp ==
    ASSUME ReloadInv, NEW v \in VMs, OnReload(v), UNCHANGED <<disk, setting, asked>>,
           flag' \in [VMs -> BOOLEAN],
           \A u \in VMs : u # v => flag'[u] = flag[u]
    PROVE  ReloadInv'
<1>1. tookUp' = [tookUp EXCEPT ![v] = disk.edition]
    BY DEF OnReload
<1>2. tookUp' \in [VMs -> Nat] /\ \A u \in VMs : u # v => tookUp'[u] = tookUp[u]
    BY <1>1 DEF ReloadInv
<1>3. ~(tookUp'[v] < asked[v])
    BY <1>1 DEF ReloadInv
<1> QED BY <1>2, <1>3 DEF ReloadInv

LEMMA ReloadStep == ASSUME ReloadInv, [HotReloadNext]_hotReloadVars PROVE ReloadInv'
<1>1. CASE UNCHANGED hotReloadVars
    BY <1>1 DEF hotReloadVars, process, ReloadInv
<1>2. CASE Edit
    <2>1. disk'.edition = disk.edition + 1
        BY <1>2 DEF Edit, Files
    <2>2. UNCHANGED <<setting, flag, asked, tookUp>>
        BY <1>2 DEF Edit, process
    <2> QED BY <2>1, <2>2 DEF ReloadInv
<1>3. CASE Request
    BY <1>3 DEF Request, ReloadInv
<1>4. ASSUME NEW v \in VMs, SetFlag(v) PROVE ReloadInv'
    BY <1>4 DEF SetFlag, ReloadInv
<1>5. ASSUME NEW v \in VMs, VMInit(v) PROVE ReloadInv'
    <2>1. OnReload(v) /\ UNCHANGED <<disk, setting, asked, flag>>
        BY <1>5 DEF VMInit
    <2> QED BY <2>1, TakesUp DEF ReloadInv
<1>6. ASSUME NEW v \in VMs, ReloadTick(v) PROVE ReloadInv'
    <2>1. OnReload(v) /\ UNCHANGED <<disk, setting, asked>>
        BY <1>6 DEF ReloadTick
    <2>2. flag' \in [VMs -> BOOLEAN] /\ \A u \in VMs : u # v => flag'[u] = flag[u]
        BY <1>6 DEF ReloadTick, ReloadInv
    <2> QED BY <2>1, <2>2, TakesUp
<1>7. ASSUME NEW v \in VMs, ReloadDone(v) \/ VMStop(v) PROVE ReloadInv'
    BY <1>7 DEF ReloadDone, VMStop, ReloadInv
<1> QED BY <1>1, <1>2, <1>3, <1>4, <1>5, <1>6, <1>7 DEF HotReloadNext

LEMMA ReloadFollows == ReloadInv => NoReloadIsLost
BY DEF ReloadInv, NoReloadIsLost

-----------------------------------------------------------------------------
(* Reloads: one edition *)

LEMMA RequiresModules == \A m \in Modules : Requires[m] \subseteq Modules
BY DEF Requires, Modules, Rooms, Handlers, Components, Others

\* What require does, as an equation.
Requiring(f, ld, bad) ==
    f = [x \in Modules |-> \/ x \in ld
                           \/ /\ x \notin bad \cup disk.broken
                              /\ \A d \in Requires[x] : f[d]]

\* require comes to an end: there are such sets of modules that can be loaded.
LEMMA LoadsExists == ASSUME NEW ld, NEW bad PROVE \E f : Requiring(f, ld, bad)
<1> DEFINE T(S) == {x \in Modules : \/ x \in ld
                                    \/ /\ x \notin bad \cup disk.broken
                                       /\ \A d \in Requires[x] : d \in S}
           L == {x \in Modules : \A S \in SUBSET Modules : T(S) \subseteq S => x \in S}
           f == [x \in Modules |-> x \in L]
<1>1. T(L) \subseteq L
    <2> SUFFICES ASSUME NEW m \in T(L), NEW S \in SUBSET Modules, T(S) \subseteq S
                 PROVE  m \in S
        OBVIOUS
    <2>1. L \subseteq S
        OBVIOUS
    <2>2. m \in T(S)
        BY <2>1
    <2> QED BY <2>2
<1>2. L \subseteq T(L)
    <2>1. T(L) \in SUBSET Modules /\ T(T(L)) \subseteq T(L)
        BY <1>1
    <2> HIDE DEF T
    <2> QED BY <2>1
<1> HIDE DEF L
<1>3. \A m \in Modules : m \in L <=> \/ m \in ld
                                     \/ /\ m \notin bad \cup disk.broken
                                        /\ \A d \in Requires[m] : d \in L
    <2> HIDE DEF f
    <2> QED BY <1>1, <1>2
<1> HIDE DEF T
<1>4. \A m \in Modules : f[m] = (m \in L)
    OBVIOUS
<1>5. f = [x \in Modules |-> f[x]]
    OBVIOUS
<1> HIDE DEF f
<1>6. ASSUME NEW m \in Modules
      PROVE  f[m] = (\/ m \in ld
                     \/ /\ m \notin bad \cup disk.broken
                        /\ \A d \in Requires[m] : f[d])
    <2>1. \A d \in Requires[m] : f[d] <=> d \in L
        BY <1>4, RequiresModules
    <2>2. (\A d \in Requires[m] : f[d]) <=> (\A d \in Requires[m] : d \in L)
        BY <2>1, Zenon
    <2> DEFINE A == m \in L
               B == \/ m \in ld
                    \/ /\ m \notin bad \cup disk.broken
                       /\ \A d \in Requires[m] : f[d]
    <2>3. A <=> B
        BY <1>3, <2>2, Zenon
    <2>4. f[m] = A
        BY <1>4
    <2>5. A \in BOOLEAN
        OBVIOUS
    <2>6. B \in BOOLEAN
        OBVIOUS
    <2> HIDE DEF A, B
    <2>7. f[m] = B
        BY <2>3, <2>4, <2>5, <2>6
    <2> QED BY <2>7 DEF B
<1>7. f = [x \in Modules |-> \/ x \in ld
                             \/ /\ x \notin bad \cup disk.broken
                                /\ \A d \in Requires[x] : f[d]]
    BY <1>5, <1>6, Zenon
<1> QED BY <1>7, Zenon DEF Requiring

\* A module that can be loaded was there, or is whole and so is what it requires.
LEMMA LoadableIs ==
    ASSUME NEW ld, NEW bad, NEW m \in Loadable(ld, bad), m \notin ld
    PROVE  /\ m \in Modules /\ m \notin disk.broken
           /\ Requires[m] \subseteq Loadable(ld, bad)
<1> DEFINE loads[x \in Modules] ==
              \/ x \in ld
              \/ /\ x \notin bad \cup disk.broken
                 /\ \A d \in Requires[x] : loads[d]
<1>1. loads = [x \in Modules |->
                 \/ x \in ld
                 \/ /\ x \notin bad \cup disk.broken
                    /\ \A d \in Requires[x] : loads[d]]
    <2>1. PICK f : Requiring(f, ld, bad)
        BY LoadsExists
    <2>2. f = [x \in Modules |->
                 \/ x \in ld
                 \/ /\ x \notin bad \cup disk.broken
                    /\ \A d \in Requires[x] : f[d]]
        BY <2>1, Zenon DEF Requiring
    <2> QED BY <2>2, Zenon
<1>2. Loadable(ld, bad) = {x \in Modules : loads[x]}
    BY DEF Loadable
<1> HIDE DEF loads
<1>3. m \in Modules /\ loads[m]
    BY <1>2
<1>4. m \notin bad \cup disk.broken /\ \A d \in Requires[m] : loads[d]
    BY <1>1, <1>3
<1> QED BY <1>2, <1>3, <1>4, RequiresModules

LEMMA ReachExists ==
    \E f : f = [m \in Modules |-> {m} \cup UNION {f[d] : d \in Requires[m]}]
<1> DEFINE T(g) == [m \in Modules |-> {m} \cup UNION {g[d] : d \in Requires[m]}]
           P == {g \in [Modules -> SUBSET Modules] : \A m \in Modules : T(g)[m] \subseteq g[m]}
           f == [m \in Modules |-> {x \in Modules : \A g \in P : x \in g[m]}]
<1>1. \A m \in Modules : \A x :
        x \in T(f)[m] <=> x = m \/ \E d \in Requires[m] : x \in f[d]
    <2> HIDE DEF f
    <2> QED OBVIOUS
<1>2. \A g \in P, m \in Modules : m \in g[m] /\ \A d \in Requires[m] : g[d] \subseteq g[m]
    OBVIOUS
<1>3. \A m \in Modules : T(f)[m] \subseteq f[m]
    <2> SUFFICES ASSUME NEW m \in Modules, NEW x \in T(f)[m] PROVE x \in f[m]
        OBVIOUS
    <2>1. x \in Modules
        BY <1>1, RequiresModules
    <2>2. ASSUME NEW g \in P PROVE x \in g[m]
        BY <1>1, <1>2, RequiresModules
    <2> QED BY <2>1, <2>2
<1>4. T(f) \in P
    <2>1. T(f) \in [Modules -> SUBSET Modules]
        BY <1>3
    <2>2. \A m \in Modules : T(T(f))[m] \subseteq T(f)[m]
        <3> HIDE DEF f
        <3> SUFFICES ASSUME NEW m \in Modules, NEW x \in T(T(f))[m]
                     PROVE  x \in T(f)[m]
            OBVIOUS
        <3>1. x = m \/ \E d \in Requires[m] : x \in T(f)[d]
            OBVIOUS
        <3>2. \A d \in Requires[m] : T(f)[d] \subseteq f[d]
            BY <1>3, RequiresModules
        <3> QED BY <1>1, <3>1, <3>2
    <2> HIDE DEF f, T
    <2> QED BY <2>1, <2>2
<1>5. \A m \in Modules : f[m] = T(f)[m]
    BY <1>3, <1>4
<1>6. f = T(f)
    BY <1>5
<1> QED BY <1>6

LEMMA ReachesItself == "MapSvr" \in MapSvrReach /\ MapSvrReach \subseteq Modules
<1> DEFINE reach[m \in Modules] == {m} \cup UNION {reach[d] : d \in Requires[m]}
<1>1. reach = [m \in Modules |-> {m} \cup UNION {reach[d] : d \in Requires[m]}]
    BY ReachExists
<1>2. MapSvrReach = {m \in Modules : m \in reach["MapSvr"]}
    BY DEF MapSvrReach
<1> HIDE DEF reach
<1>3. "MapSvr" \in Modules
    BY DEF Modules
<1> QED BY <1>1, <1>2, <1>3

\* Requiring the whole list anew takes up every handler and what it reaches.
LEMMA HandlersReach ==
    ASSUME NEW kept, kept \cap ReloadList = {},
           Handlers \cup {"ConfigTableMgrLogic"} \subseteq Loadable(kept, {})
    PROVE  ReloadList \ Rooms \subseteq Loadable(kept, {})
<1> DEFINE good == Loadable(kept, {})
<1>1. \A m \in ReloadList \cap good : Requires[m] \subseteq good
    BY LoadableIs
<1> HIDE DEF good
<1>2. {"PlayerMgrLogic", "MsgHandlerLogic", "DebugLogic"} \subseteq good
    <2>1. {"MsgHandlerFromClientLogic", "MsgHandlerFromOtherLogic"}
              \subseteq ReloadList \cap good
        BY DEF ReloadList, Handlers, good
    <2>2. /\ {"PlayerMgrLogic", "MsgHandlerLogic"}
                 \subseteq Requires["MsgHandlerFromClientLogic"]
          /\ "DebugLogic" \in Requires["MsgHandlerFromOtherLogic"]
        BY DEF Requires, Modules, Handlers
    <2> QED BY <1>1, <2>1, <2>2
<1>3. "PlayerLogic" \in good
    <2>1. "PlayerMgrLogic" \in ReloadList /\ Requires["PlayerMgrLogic"] = {"PlayerLogic"}
        BY DEF ReloadList, Others, Requires, Modules
    <2> QED BY <1>1, <1>2, <2>1
<1>4. Components \subseteq good
    <2>1. "PlayerLogic" \in ReloadList /\ Components \subseteq Requires["PlayerLogic"]
        BY DEF ReloadList, Others, Requires, Modules
    <2> QED BY <1>1, <1>3, <2>1
<1>5. {"PlayerCmptBaseLogic", "TimeMgrLogic", "MapMgrLogic", "Map3DMgrLogic"} \subseteq good
    <2>1. {"PlayerCmptMapLogic", "PlayerCmptMap3DLogic"} \subseteq ReloadList \cap good
        BY <1>4 DEF ReloadList, Components
    <2>2. /\ Requires["PlayerCmptMapLogic"]
                = {"PlayerCmptBaseLogic", "TimeMgrLogic", "MapMgrLogic"}
          /\ Requires["PlayerCmptMap3DLogic"]
                = {"PlayerCmptBaseLogic", "TimeMgrLogic", "Map3DMgrLogic"}
        BY DEF Requires, Modules, Components
    <2> QED BY <1>1, <2>1, <2>2
<1>6. {"MapLogic", "Map3DLogic"} \subseteq good
    <2>1. {"MapMgrLogic", "Map3DMgrLogic"} \subseteq ReloadList \cap good
        BY <1>5 DEF ReloadList, Others
    <2>2. Requires["MapMgrLogic"] = {"MapLogic"} /\ Requires["Map3DMgrLogic"] = {"Map3DLogic"}
        BY DEF Requires, Modules, Others
    <2> QED BY <1>1, <2>1, <2>2
<1>7. Handlers \cup {"ConfigTableMgrLogic"} \subseteq good
    BY DEF good
<1>8. Others \subseteq good
    BY <1>2, <1>3, <1>5, <1>6, <1>7 DEF Others
<1> QED BY <1>4, <1>7, <1>8 DEF ReloadList, good

\* Whoever lives through Other.OnReload runs the edition it has read.
LEMMA OtherTakesUp ==
    ASSUME OtherOnReload, alive'
    PROVE  /\ \A m \in Modules \ Rooms : code'[m] = disk.edition
           /\ \A m \in Handlers : dispatch'[m] = disk.edition
           /\ RequiredLater \subseteq loaded'
<1> DEFINE before == loaded \ {"MapSvr"}
           kept == (loaded \cup MapSvrReach) \ ReloadList
           first == Loadable(before, failed \ {"MapSvr"})
           good == Loadable(kept, {})
           cd == CodeAfter(code, MapSvrReach \ before, first)
<1>1. /\ "MapSvr" \in first
      /\ loaded' = kept \cup good
      /\ code' = CodeAfter(cd, ReloadList, good)
      /\ dispatch' = [m \in Handlers |-> code'[m]]
      /\ Handlers \cup {"ConfigTableMgrLogic"} \subseteq good
    <2> HIDE DEF kept, first, good
    <2> QED BY DEF OtherOnReload, Call, kept, first, good
<1>2. ReloadList \ Rooms \subseteq good
    BY <1>1, HandlersReach
<1>3. "MapSvr" \in MapSvrReach \ before /\ "MapSvr" \in Modules \ ReloadList
    BY ReachesItself DEF Modules, ReloadList, Rooms, Handlers, Components, Others
<1>4. Modules \ Rooms = (ReloadList \ Rooms) \cup {"MapSvr"}
    BY DEF Modules, ReloadList, Rooms
<1>5. ReloadList \subseteq Modules
    BY DEF Modules, ReloadList
<1>6. RequiredLater \subseteq ReloadList \ Rooms /\ Handlers \subseteq ReloadList \ Rooms
    <2>1. RequiredLater \subseteq Others /\ RequiredLater \cap Rooms = {}
        BY DEF RequiredLater, Others, Rooms
    <2>2. Handlers \cap Rooms = {}
        BY DEF Handlers, Rooms
    <2> QED BY <2>1, <2>2 DEF ReloadList
<1> HIDE DEF before, kept, first, good
<1>7. cd["MapSvr"] = disk.edition
    BY <1>1, <1>3 DEF CodeAfter
<1> HIDE DEF cd
<1>8. \A m \in ReloadList \cap good : code'[m] = disk.edition
    BY <1>1, <1>5 DEF CodeAfter
<1>9. code'["MapSvr"] = disk.edition
    BY <1>1, <1>3, <1>7 DEF CodeAfter
<1> QED BY <1>1, <1>2, <1>4, <1>6, <1>8, <1>9

\* What a VM loads when it starts or reloads leaves the other VM up to date.
LEMMA CurrentOnReload ==
    ASSUME HandlersAreCurrent, ReloadInv, NEW v \in VMs, OnReload(v), alive,
           \A u \in VMs \ {v} : vm'[u] = vm[u]
    PROVE  HandlersAreCurrent'
<1>1. tookUp' = [tookUp EXCEPT ![v] = disk.edition] /\ tookUp \in [VMs -> Nat]
    BY DEF OnReload, ReloadInv
<1>2. "other" \in VMs
    BY DEF VMs
<1>3. CASE v = "other"
    <2>1. OtherOnReload /\ tookUp'["other"] = disk.edition
        BY <1>1, <1>2, <1>3 DEF OnReload
    <2> QED BY <2>1, OtherTakesUp DEF HandlersAreCurrent
<1>4. CASE v # "other"
    <2>1. /\ UNCHANGED <<alive, loaded, code, dispatch>>
          /\ tookUp'["other"] = tookUp["other"] /\ vm'["other"] = vm["other"]
        BY <1>1, <1>2, <1>4 DEF OnReload, lua
    <2> QED BY <2>1 DEF HandlersAreCurrent
<1> QED BY <1>3, <1>4

VMsOK == vm \in [VMs -> {"none", "running", "stopped"}]

LEMMA VMsStep == ASSUME VMsOK, [HotReloadNext]_hotReloadVars PROVE VMsOK'
<1>1. CASE \/ UNCHANGED hotReloadVars \/ Edit \/ Request
           \/ \E v \in VMs : SetFlag(v) \/ ReloadTick(v) \/ ReloadDone(v)
    <2>1. UNCHANGED vm
        BY <1>1 DEF hotReloadVars, process, Edit, Request, SetFlag, ReloadTick, ReloadDone
    <2> QED BY <2>1 DEF VMsOK
<1>2. ASSUME NEW v \in VMs, VMInit(v) \/ VMStop(v) PROVE VMsOK'
    BY <1>2 DEF VMInit, VMStop, VMsOK
<1> QED BY <1>1, <1>2 DEF HotReloadNext

LEMMA CurrentStep ==
    ASSUME ReloadInv, VMsOK, HandlersAreCurrent, [HotReloadNext]_hotReloadVars
    PROVE  HandlersAreCurrent'
<1>1. CASE UNCHANGED hotReloadVars \/ Edit \/ Request \/ \E v \in VMs : SetFlag(v) \/ ReloadDone(v)
    <2>1. UNCHANGED <<alive, vm, lua, tookUp>>
        BY <1>1 DEF hotReloadVars, process, Edit, Request, SetFlag, ReloadDone
    <2> QED BY <2>1 DEF HandlersAreCurrent, lua
<1>2. ASSUME NEW v \in VMs, VMInit(v) PROVE HandlersAreCurrent'
    <2>1. OnReload(v) /\ alive /\ \A u \in VMs \ {v} : vm'[u] = vm[u]
        BY <1>2 DEF VMInit, Ready
    <2> QED BY <2>1, CurrentOnReload
<1>3. ASSUME NEW v \in VMs, ReloadTick(v) PROVE HandlersAreCurrent'
    <2>1. OnReload(v) /\ alive /\ \A u \in VMs \ {v} : vm'[u] = vm[u]
        BY <1>3 DEF ReloadTick, Ready
    <2> QED BY <2>1, CurrentOnReload
<1>4. ASSUME NEW v \in VMs, VMStop(v) PROVE HandlersAreCurrent'
    <2>1. /\ UNCHANGED <<alive, lua, tookUp>> /\ alive
          /\ vm'["other"] = "running" => vm["other"] = "running"
        BY <1>4 DEF VMStop, Ready, VMs, VMsOK
    <2> QED BY <2>1 DEF HandlersAreCurrent, lua
<1> QED BY <1>1, <1>2, <1>3, <1>4 DEF HotReloadNext

CurrentInv == ReloadInv /\ VMsOK /\ HandlersAreCurrent

LEMMA CurrentStarts ==
    ASSUME NEW d, NEW j, d.edition = 0, Stopped(d, j)
    PROVE  CurrentInv
<1>1. vm = [v \in VMs |-> "none"] /\ "other" \in VMs
    BY DEF Stopped, VMs
<1>2. VMsOK /\ HandlersAreCurrent
    BY <1>1 DEF VMsOK, HandlersAreCurrent
<1> QED BY <1>2, ReloadStarts DEF CurrentInv

-----------------------------------------------------------------------------
(* Theorems *)

\* The body of an answer 200 that has come to its end is one edition of the
\* file, whole, unless that very file was overwritten meanwhile: for every size
\* of the files and every number of editions.
THEOREM BodyCorrect == HttpSpec => []BodyIsTheFile
<1>1. HttpInit => HttpInv
    BY HttpStarts, HttpAssumption DEF HttpInit
<1>2. HttpInv /\ [HttpNext]_httpVars => HttpInv'
    BY HttpStep
<1> QED BY <1>1, <1>2, BodyFollows, PTL DEF HttpSpec

\* What an answer 304 tells the client to keep is what the worker found in the
\* file, when the validators tell the editions apart.
THEOREM NotModifiedCorrect == HttpSpec => []NotModifiedIsTrue
<1>1. HttpInit => HttpInv
    BY HttpStarts, HttpAssumption DEF HttpInit
<1>2. HttpInv /\ [HttpNext]_httpVars => HttpInv'
    BY HttpStep
<1> QED BY <1>1, <1>2, NotModifiedFollows, PTL DEF HttpSpec

\* A VM that is behind the reload last asked for still has its flag, or gets
\* it: for every number of workers, edits and requests.
THEOREM NoReloadIsLostCorrect == HotReloadSpec => []NoReloadIsLost
<1>1. HotReloadInit => CurrentInv
    BY CurrentStarts DEF HotReloadInit, Files
<1>2. CurrentInv /\ [HotReloadNext]_hotReloadVars => CurrentInv'
    BY ReloadStep, VMsStep, CurrentStep DEF CurrentInv
<1>3. CurrentInv => NoReloadIsLost
    BY ReloadFollows DEF CurrentInv
<1> QED BY <1>1, <1>2, <1>3, PTL DEF HotReloadSpec

\* A server that lives through a reload runs one edition in all that its
\* handlers reach, whichever files are broken, and however.
THEOREM HandlersCurrentCorrect == HotReloadSpec => []HandlersAreCurrent
<1>1. HotReloadInit => CurrentInv
    BY CurrentStarts DEF HotReloadInit, Files
<1>2. CurrentInv /\ [HotReloadNext]_hotReloadVars => CurrentInv'
    BY ReloadStep, VMsStep, CurrentStep DEF CurrentInv
<1> QED BY <1>1, <1>2, PTL DEF HotReloadSpec, CurrentInv

-----------------------------------------------------------------------------
(* The clients of both kinds, and the parts put together *)

Ws == INSTANCE WebSocketApp_proofs
      WITH Wires <- WsWires, Cuts <- WsCuts, ReadMax <- WsReadMax,
           Sizes <- WsSizes

\* What is proved of WebSocketApp is about the instance in TaskTypes.
LEMMA SameConstants == Ws!WsConstants
<1>1. WebSocket!INT32_MAX = Ws!INT32_MAX
    BY SMT DEF WebSocket!INT32_MAX, Ws!INT32_MAX
<1> QED BY <1>1, WebSocketAssumption
        DEF WebSocket!WsConstants, Ws!WsConstants, WebSocket!Contiguous, Ws!Contiguous

LEMMA SameInit == WebSocket!WsInit <=> Ws!WsInit
BY DEF WebSocket!WsInit, Ws!WsInit, WebSocket!NewConn, Ws!NewConn

LEMMA SameLengths ==
    ASSUME NEW n
    PROVE  /\ WebSocket!LengthField(n) = Ws!LengthField(n)
           /\ WebSocket!PayloadLength(n) = Ws!PayloadLength(n)
BY SMT
DEF WebSocket!LengthField, Ws!LengthField, WebSocket!LongField, Ws!LongField,
    WebSocket!Byte, Ws!Byte, WebSocket!PayloadLength, Ws!PayloadLength,
    WebSocket!Word, Ws!Word

LEMMA SameNext ==
    [WebSocket!WsNext]_connVars => [Ws!WsNext]_(Ws!connVars)
<1>1. WebSocket!HeldSize = Ws!HeldSize
    BY DEF WebSocket!HeldSize, Ws!HeldSize
<1>2. \A n : WebSocket!LengthField(n) = Ws!LengthField(n)
    BY SameLengths
<1> QED
    BY <1>1, <1>2
    DEF connVars, recv, send,
        WebSocket!connVars, Ws!connVars, WebSocket!recv, Ws!recv,
        WebSocket!send, Ws!send, WebSocket!RecvSize, Ws!RecvSize,
        WebSocket!EndOf, Ws!EndOf, WebSocket!Aligned, Ws!Aligned,
        WebSocket!Here, Ws!Here, WebSocket!Total, Ws!Total,
        WebSocket!NewConnection, Ws!NewConnection, WebSocket!CloseConnection,
        Ws!CloseConnection, WebSocket!Serves, Ws!Serves, WebSocket!Arrive,
        Ws!Arrive, WebSocket!Drain, Ws!Drain, WebSocket!Close, Ws!Close,
        WebSocket!HangUp, Ws!HangUp, WebSocket!VMSends, Ws!VMSends,
        WebSocket!CloseOrder, Ws!CloseOrder, WebSocket!VMCloses, Ws!VMCloses,
        WebSocket!Framework, Ws!Framework, WebSocket!WsOnNewConnection,
        Ws!WsOnNewConnection, WebSocket!WsOnCloseConnection,
        Ws!WsOnCloseConnection, WebSocket!WsProcessStart, Ws!WsProcessStart,
        WebSocket!DataFrame, Ws!DataFrame, WebSocket!WsRefuse, Ws!WsRefuse,
        WebSocket!WsWait, Ws!WsWait, WebSocket!TakeFrame, Ws!TakeFrame,
        WebSocket!WsFragment, Ws!WsFragment, WebSocket!WsProcessFrame,
        Ws!WsProcessFrame, WebSocket!WsProcessTurn, Ws!WsProcessTurn,
        WebSocket!WsProcessEnd, Ws!WsProcessEnd, WebSocket!ws_send_sync_package,
        Ws!ws_send_sync_package, WebSocket!WsOnWorkerTunnel,
        Ws!WsOnWorkerTunnel, WebSocket!WsNext, Ws!WsNext

LEMMA SameProperties ==
    /\ Ws!MessagesArriveWhole => WebSocket!MessagesArriveWhole
    /\ Ws!WsHonestClientsAreServed => WebSocket!WsHonestClientsAreServed
    /\ Ws!WsClientSeesNoGap => WebSocket!WsClientSeesNoGap
<1>1. Ws!MessagesArriveWhole => WebSocket!MessagesArriveWhole
    BY DEF WebSocket!MessagesArriveWhole, Ws!MessagesArriveWhole,
           WebSocket!LastFrame, Ws!LastFrame, WebSocket!Finals, Ws!Finals,
           WebSocket!Fragments, Ws!Fragments, WebSocket!NewConnection,
           Ws!NewConnection, WebSocket!CloseConnection, Ws!CloseConnection,
           WebSocket!EndOf, Ws!EndOf
<1>2. Ws!WsHonestClientsAreServed => WebSocket!WsHonestClientsAreServed
    BY DEF WebSocket!WsHonestClientsAreServed, Ws!WsHonestClientsAreServed,
           WebSocket!WsHonest, Ws!WsHonest, WebSocket!Serves, Ws!Serves,
           WebSocket!EndOf, Ws!EndOf
<1>3. Ws!WsClientSeesNoGap => WebSocket!WsClientSeesNoGap
    BY SameLengths DEF WebSocket!WsClientSeesNoGap, Ws!WsClientSeesNoGap
<1> QED BY <1>1, <1>2, <1>3

ClientInv ==
    /\ task_type \in {"STREAM_TASK", "WEBSOCKET_TASK", "HTTP_TASK"}
    /\ task_type = "STREAM_TASK" => ToldInv /\ ServedInv /\ GapInv
    /\ task_type = "WEBSOCKET_TASK" => Ws!HonestInv /\ Ws!GapInv
    /\ task_type = "HTTP_TASK" => accepted = <<>>

LEMMA ClientStarts == TaskTypesInit => ClientInv
<1>1. StreamInit => ClientInv
    BY InitTold, InitServed, InitGap DEF StreamInit, NewConn, ClientInv
<1>2. WebSocket!WsInit => ClientInv
    <2> SUFFICES ASSUME WebSocket!WsInit PROVE ClientInv
        OBVIOUS
    <2>1. Ws!HonestInv /\ Ws!GapInv
        BY SameConstants, SameInit, Ws!InitHonest, Ws!InitGap
    <2>2. task_type = "WEBSOCKET_TASK"
        BY DEF WebSocket!WsInit, WebSocket!NewConn
    <2> QED BY <2>1, <2>2 DEF ClientInv
<1>3. NoClient => ClientInv
    BY DEF NoClient, NewConn, ClientInv
<1> QED BY <1>1, <1>2, <1>3 DEF TaskTypesInit

LEMMA ClientStep == ClientInv /\ [ClientNext]_connVars => ClientInv'
<1> SUFFICES ASSUME ClientInv, [ClientNext]_connVars PROVE ClientInv'
    OBVIOUS
<1>1. CASE task_type = "STREAM_TASK"
    <2>1. [StreamNext]_connVars
        BY <1>1 DEF ClientNext
    <2>2. ToldInv' /\ ServedInv' /\ GapInv'
        BY <1>1, <2>1, StepTold, StepServed, StepGap DEF ClientInv
    <2>3. task_type' = "STREAM_TASK"
        BY <2>2 DEF ToldInv, StreamTypeOK
    <2> QED BY <2>2, <2>3 DEF ClientInv
<1>2. CASE task_type = "WEBSOCKET_TASK"
    <2>1. [Ws!WsNext]_(Ws!connVars)
        BY <1>2, SameNext DEF ClientNext
    <2>2. Ws!HonestInv' /\ Ws!GapInv'
        BY <1>2, <2>1, SameConstants, Ws!StepHonest, Ws!StepGap DEF ClientInv
    <2>3. task_type' = "WEBSOCKET_TASK"
        BY <2>2 DEF Ws!GapInv, Ws!WsTypeOK
    <2> QED BY <2>2, <2>3 DEF ClientInv
<1>3. CASE task_type = "HTTP_TASK"
    BY <1>3 DEF ClientNext, ClientInv, connVars, send
<1> QED BY <1>1, <1>2, <1>3 DEF ClientInv

LEMMA ClientFollows ==
    ClientInv => /\ PackagesArriveWhole /\ HonestClientsAreServed
                 /\ MessagesArriveWhole /\ WsHonestClientsAreServed
                 /\ ClientsSeeNoGap
<1> SUFFICES ASSUME ClientInv
             PROVE  /\ PackagesArriveWhole /\ HonestClientsAreServed
                    /\ MessagesArriveWhole /\ WsHonestClientsAreServed
                    /\ ClientsSeeNoGap
    OBVIOUS
<1>1. CASE task_type = "STREAM_TASK"
    <2>1. PackagesArriveWhole /\ HonestClientsAreServed /\ ClientSeesNoGap
        BY <1>1, ServedFollows DEF ClientInv, ToldInv, GapInv
    <2> QED BY <1>1, <2>1
            DEF MessagesArriveWhole, WsHonestClientsAreServed, ClientsSeeNoGap,
                WebSocket!MessagesArriveWhole, WebSocket!WsHonest,
                WebSocket!WsHonestClientsAreServed
<1>2. CASE task_type = "WEBSOCKET_TASK"
    <2>1. /\ Ws!MessagesArriveWhole /\ Ws!WsHonestClientsAreServed
          /\ Ws!WsClientSeesNoGap
        BY <1>2, SameConstants, Ws!HonestFollows, Ws!GapFollows
        DEF ClientInv, Ws!HonestInv, Ws!MsgInv
    <2> QED BY <1>2, <2>1, SameProperties
            DEF MessagesArriveWhole, WsHonestClientsAreServed, ClientsSeeNoGap,
                PackagesArriveWhole, HonestClientsAreServed, Honest
<1>3. CASE task_type = "HTTP_TASK"
    BY <1>3 DEF ClientInv, MessagesArriveWhole, WsHonestClientsAreServed,
                ClientsSeeNoGap, PackagesArriveWhole, HonestClientsAreServed, Honest,
                WebSocket!MessagesArriveWhole, WebSocket!WsHonest,
                WebSocket!WsHonestClientsAreServed, ClientSeesNoGap
<1> QED BY <1>1, <1>2, <1>3 DEF ClientInv

\* All of it holds of the server as the runs check it, whichever part of it a
\* behaviour is of: what the VM is told of both kinds of clients, how these are
\* served and what they get, and the four properties above.
THEOREM TaskTypesCorrect ==
    TaskTypesSpec => [](/\ PackagesArriveWhole /\ HonestClientsAreServed
                        /\ MessagesArriveWhole /\ WsHonestClientsAreServed
                        /\ ClientsSeeNoGap
                        /\ BodyIsTheFile /\ NotModifiedIsTrue
                        /\ NoReloadIsLost /\ HandlersAreCurrent)
<1>0. TaskTypesInit => ClientInv
    BY ClientStarts
<1>1. TaskTypesInit => HttpInv /\ CurrentInv
    <2>1. NoRequestYet(0) \/ HttpInit => HttpInv
        BY HttpStarts, HttpAssumption DEF HttpInit
    <2>2. NoVMs => CurrentInv
        BY CurrentStarts DEF NoVMs
    <2>3. HotReloadInit => CurrentInv
        BY CurrentStarts DEF HotReloadInit, Files
    <2> QED BY <2>1, <2>2, <2>3 DEF TaskTypesInit
<1>2. [TaskTypesNext]_partVars => /\ [ClientNext]_connVars
                                  /\ [HttpNext]_httpVars
                                  /\ [HotReloadNext]_hotReloadVars
    BY DEF TaskTypesNext, partVars
<1>3. HttpInv /\ [HttpNext]_httpVars => HttpInv'
    BY HttpStep
<1>4. CurrentInv /\ [HotReloadNext]_hotReloadVars => CurrentInv'
    BY ReloadStep, VMsStep, CurrentStep DEF CurrentInv
<1>5. HttpInv => BodyIsTheFile /\ NotModifiedIsTrue
    BY BodyFollows, NotModifiedFollows
<1>6. CurrentInv => NoReloadIsLost /\ HandlersAreCurrent
    BY ReloadFollows DEF CurrentInv
<1>7. ClientInv /\ [ClientNext]_connVars => ClientInv'
    BY ClientStep
<1>8. ClientInv => /\ PackagesArriveWhole /\ HonestClientsAreServed
                   /\ MessagesArriveWhole /\ WsHonestClientsAreServed
                   /\ ClientsSeeNoGap
    BY ClientFollows
<1> QED BY <1>0, <1>1, <1>2, <1>3, <1>4, <1>5, <1>6, <1>7, <1>8, PTL DEF TaskTypesSpec

\* On a server of any task type, the VM is told of every message of a WebSocket
\* client that parses, once, whole and in order.
THEOREM MessagesCorrect == TaskTypesSpec => []MessagesArriveWhole
BY TaskTypesCorrect, PTL

\* On a server of any task type, no honest WebSocket client is closed by the
\* parser or left waiting for bytes it need not send.
THEOREM WsHonestCorrect == TaskTypesSpec => []WsHonestClientsAreServed
BY TaskTypesCorrect, PTL

\* What a client of either kind gets of the VM's packages has no gap.
THEOREM NoGapCorrect == TaskTypesSpec => []ClientsSeeNoGap
BY TaskTypesCorrect, PTL
=============================================================================
