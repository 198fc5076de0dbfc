----------------------------- MODULE ClientConn -----------------------------
(***************************************************************************)
(* One client connection of a worker thread: what the TCP or WebSocket     *)
(* application and the framework share.  The client's bytes are a sequence *)
(* of frames that lie one behind the other; positions in it count bytes    *)
(* since the connection was made.  They arrive in pieces, wait in the      *)
(* receive buffer and are forwarded, package by package, to the other      *)
(* thread's VM; the VM's packages come back through the worker's tunnel    *)
(* and wait in the send buffer.                                            *)
(***************************************************************************)
EXTENDS Naturals, Sequences

CONSTANTS
    Wires,      \* what clients may send: sequences of frames
    Cuts,       \* bound: positions at which an arrival may end
    ReadMax,    \* bytes the framework reads before it calls the application
    Sizes,      \* sizes of the packages the VM sends
    Levels,     \* bound: fillings of the send buffer the client leaves
    MaxSends    \* bound: packages the VM sends

VARIABLES
    task_type,  \* the application that serves it, from the configuration
    wire,       \* what this client sends
    got,        \* end of what has arrived
    read,       \* start of the receive buffer
    held,       \* frame_payload_data: the fragments of an unfinished message
    pc,         \* "wait" for an event, or where on_process_connection is
    state,      \* "new", "open" or "closed"
    closing,    \* conn_is_close, with its reason: "no" or who set it
    toVM,       \* what was forwarded to the other thread
    toConn,     \* what the VM sent and the worker has not handled
    sendBuf,    \* bytes in the send buffer
    accepted,   \* what was ever put into the send buffer
    sends       \* packages the VM has sent

recv == <<wire, got, read, held, pc>>
send == <<toConn, sendBuf, accepted, sends>>
connVars == <<task_type, recv, state, closing, toVM, send>>

Total == IF Len(wire) = 0 THEN 0
         ELSE wire[Len(wire)].start + wire[Len(wire)].bytes

\* The frames lie one behind the other.
Contiguous(w) ==
    /\ Len(w) # 0 => w[1].start = 0
    /\ \A i, j \in 1..Len(w) :
         i < j => /\ w[i].start + w[i].bytes <= w[j].start
                  /\ j = i + 1 => w[i].start + w[i].bytes = w[j].start

RecvSize == got - read
EndOf(k) == wire[k].start + wire[k].bytes
Aligned == \E k \in DOMAIN wire : wire[k].start = read
Here == CHOOSE k \in DOMAIN wire : wire[k].start = read

\* Events are numbered like frames: the first one and the last one, around
\* the packages.
NewConnection == 0
CloseConnection == Len(wire) + 1

\* A connection that is about to be made.
NewConn(task, w) ==
    /\ task_type = task
    /\ wire = w
    /\ got = 0 /\ read = 0
    /\ held = <<>>
    /\ pc = "wait"
    /\ state = "new"
    /\ closing = "no"
    /\ toVM = <<>>
    /\ toConn = <<>>
    /\ sendBuf = 0
    /\ accepted = <<>>
    /\ sends = 0

-----------------------------------------------------------------------------
(* The framework's event loop, and the two ends *)

Serves == state = "open" /\ closing = "no" /\ pc = "wait"

\* Bytes arrive, up to any position, and the application is called.
Arrive ==
    /\ Serves
    /\ got' \in {n \in Cuts : got < n /\ n <= Total /\ n - got <= ReadMax}
    /\ pc' = "start"
    /\ UNCHANGED <<wire, read, held, state, closing, toVM, send>>

\* The client takes bytes from the send buffer.  (Neither this nor an arrival
\* once the connection is to be closed.)
Drain ==
    /\ Serves
    /\ sendBuf' \in {n \in Levels : n < sendBuf}
    /\ UNCHANGED <<recv, state, closing, toVM, toConn, accepted, sends>>

\* set_conn_is_close(true) and event_mod; the first reason is kept.
Close(who) == closing' = IF closing = "no" THEN who ELSE closing

HangUp ==
    /\ Serves
    /\ Close("client")
    /\ UNCHANGED <<recv, state, toVM, send>>

\* The VM sends a package to the client, or orders the worker to close.
VMSends ==
    /\ state # "new"
    /\ sends < MaxSends
    /\ sends' = sends + 1
    /\ \E n \in Sizes : toConn' = Append(toConn, [number |-> sends + 1, size |-> n])
    /\ UNCHANGED <<recv, state, closing, toVM, sendBuf, accepted>>

CloseOrder == [number |-> 0, size |-> 0]

VMCloses ==
    /\ state # "new"
    /\ CloseOrder \notin {toConn[i] : i \in DOMAIN toConn}
    /\ toConn' = Append(toConn, CloseOrder)
    /\ UNCHANGED <<recv, state, closing, toVM, sendBuf, accepted, sends>>

Framework == Arrive \/ Drain \/ HangUp \/ VMSends \/ VMCloses
=============================================================================
