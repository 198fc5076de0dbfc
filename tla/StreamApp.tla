----------------------------- MODULE StreamApp -----------------------------
(***************************************************************************)
(* stream_app: packages over plain TCP.  A frame is eight bytes with the   *)
(* size of the package and the package.                                    *)
(***************************************************************************)
EXTENDS ClientConn

CONSTANTS
    HeadSize,   \* sizeof(uint64_t)
    MaxPackage, \* the size on_recved_packsize admits: 10240
    MaxRecv,    \* the size of the receive buffer that is too much: 2048000
    MaxSend     \* and of the send buffer: 1024000

\* A frame: the size its header states, and whether the package parses.
Frame(start, size, good) ==
    [start |-> start, bytes |-> HeadSize + size, size |-> size, good |-> good]

ASSUME StreamAssumption ==
    /\ HeadSize \in Nat \ {0} /\ MaxPackage \in Nat
    /\ MaxRecv \in Nat /\ MaxSend \in Nat /\ ReadMax \in Nat
    /\ Cuts \subseteq Nat /\ Sizes \subseteq Nat /\ Levels \subseteq Nat
    /\ MaxSends \in Nat
    /\ \A w \in Wires :
         /\ DOMAIN w = 1..Len(w) /\ Len(w) \in Nat
         /\ \A k \in DOMAIN w :
              /\ w[k].start \in Nat /\ w[k].size \in Nat /\ w[k].good \in BOOLEAN
              /\ w[k].bytes = HeadSize + w[k].size
         /\ Contiguous(w)

\* What the framework reads at once fits beside an unfinished package.
ASSUME ReadAssumption == ReadMax + HeadSize + MaxPackage <= MaxRecv + 1

OnNewConnection ==
    /\ state = "new"
    /\ state' = "open"
    /\ toVM' = Append(toVM, NewConnection)
    /\ UNCHANGED <<recv, closing, send>>

OnCloseConnection ==
    /\ state = "open" /\ closing # "no" /\ pc = "wait"
    /\ state' = "closed"
    /\ toVM' = Append(toVM, CloseConnection)
    /\ UNCHANGED <<recv, closing, send>>

-----------------------------------------------------------------------------
(* on_process_connection: the check at the start, then one turn per frame *)

ProcessStart ==
    /\ pc = "start"
    /\ IF RecvSize > MaxRecv
         THEN Close("parser") /\ pc' = "wait"
         ELSE UNCHANGED closing /\ pc' = "turn"
    /\ UNCHANGED <<wire, got, read, held, state, toVM, send>>

on_recved_packsize(size) == size <= MaxPackage

\* The size in the header at the start of the buffer; where no frame starts
\* the bytes there mean nothing, and no size is like another.
DataSize == IF Aligned THEN wire[Here].size ELSE MaxPackage + 1

HeadIsHere == RecvSize >= HeadSize

Refuse ==
    /\ HeadIsHere /\ ~on_recved_packsize(DataSize)
    /\ Close("parser")
    /\ pc' = "wait"
    /\ UNCHANGED <<read, toVM>>

Wait ==
    /\ ~HeadIsHere \/ (on_recved_packsize(DataSize) /\ DataSize + HeadSize > RecvSize)
    /\ pc' = "wait"
    /\ UNCHANGED <<read, toVM, closing>>

Whole ==
    /\ HeadIsHere /\ on_recved_packsize(DataSize) /\ DataSize + HeadSize <= RecvSize
    /\ UNCHANGED closing

\* An empty package, or one that does not parse, is skipped and ends the loop.
\* (The next frame waits for the next bytes, even if it has arrived.)
Skip ==
    /\ Whole
    /\ DataSize = 0 \/ ~wire[Here].good
    /\ read' = read + HeadSize + DataSize
    /\ pc' = "wait"
    /\ UNCHANGED toVM

\* (faulty variants: a package that does not parse is forwarded as well; the
\* loop handles one package per event)
ForwardAny ==
    /\ Whole
    /\ DataSize # 0
    /\ read' = read + HeadSize + DataSize
    /\ toVM' = Append(toVM, Here)
    /\ UNCHANGED pc

ForwardOne ==
    /\ Whole
    /\ DataSize # 0 /\ wire[Here].good
    /\ read' = read + HeadSize + DataSize
    /\ toVM' = Append(toVM, Here)
    /\ pc' = "wait"

\* on_recv_package
Forward ==
    /\ Whole
    /\ DataSize # 0 /\ wire[Here].good
    /\ read' = read + HeadSize + DataSize
    /\ toVM' = Append(toVM, Here)
    /\ UNCHANGED pc

ProcessTurn ==
    /\ pc = "turn"
    /\ Refuse \/ Wait \/ Skip \/ Forward
    /\ UNCHANGED <<wire, got, held, state, send>>

-----------------------------------------------------------------------------
(* The worker's tunnel *)

\* (faulty variant: a package that does not fit is only dropped)
SendOrDrop(m) ==
    /\ IF sendBuf > MaxSend
         THEN UNCHANGED <<sendBuf, accepted>>
         ELSE /\ sendBuf' = sendBuf + HeadSize + m.size
              /\ accepted' = Append(accepted, m.number)
    /\ UNCHANGED closing

send_sync_package(m) ==
    IF sendBuf > MaxSend
      THEN /\ Close("sender")
           /\ UNCHANGED <<sendBuf, accepted>>
      ELSE /\ sendBuf' = sendBuf + HeadSize + m.size
           /\ accepted' = Append(accepted, m.number)
           /\ UNCHANGED closing

\* on_worker_tunnel and on_client_forward_message; get_conn_by_gid finds no
\* connection once it is closed.
OnWorkerTunnel ==
    /\ pc = "wait"
    /\ toConn # <<>>
    /\ toConn' = Tail(toConn)
    /\ \/ /\ state = "closed"
          /\ UNCHANGED <<closing, sendBuf, accepted>>
       \/ /\ state = "open" /\ Head(toConn) = CloseOrder
          /\ Close("vm")
          /\ UNCHANGED <<sendBuf, accepted>>
       \/ /\ state = "open" /\ Head(toConn) # CloseOrder
          /\ send_sync_package(Head(toConn))
    /\ UNCHANGED <<recv, state, toVM, sends>>

StreamInit == \E w \in Wires : NewConn("STREAM_TASK", w)

StreamNext ==
    /\ \/ OnNewConnection
       \/ OnCloseConnection
       \/ ProcessStart
       \/ ProcessTurn
       \/ OnWorkerTunnel
       \/ Framework
    /\ UNCHANGED task_type

StreamSpec == StreamInit /\ [][StreamNext]_connVars

-----------------------------------------------------------------------------
(* Properties *)

\* However the bytes are cut into arrivals, the other thread's VM is told of
\* the connection first, then of every package that parses, once and in order,
\* and at last of the end.
PackagesArriveWhole ==
    task_type = "STREAM_TASK" =>
        /\ \A i, j \in DOMAIN toVM : i < j => toVM[i] < toVM[j]
        /\ {toVM[i] : i \in DOMAIN toVM} =
             {NewConnection : s \in {state} \ {"new"}} \cup
             {k \in DOMAIN wire :
                 wire[k].size # 0 /\ wire[k].good /\ EndOf(k) <= read} \cup
             {CloseConnection : s \in {state} \cap {"closed"}}

\* A client that keeps to the protocol.
Honest ==
    /\ task_type = "STREAM_TASK"
    /\ \A k \in DOMAIN wire : wire[k].size \in 1..MaxPackage /\ wire[k].good

\* The parser never closes its connection, wherever arrivals end, and its
\* packages do not wait in the buffer for later bytes.
HonestClientsAreServed ==
    Honest =>
        /\ closing # "parser"
        /\ Serves => \A k \in DOMAIN wire : EndOf(k) <= got => EndOf(k) <= read

\* The packages put into the send buffer are the first ones the VM sent, all
\* of them up to some point: one that finds the buffer too full is not
\* followed by another.
ClientSeesNoGap == \A i \in DOMAIN accepted : accepted[i] = i
=============================================================================
