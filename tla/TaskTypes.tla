------------------------------ MODULE TaskTypes ------------------------------
(***************************************************************************)
(* What the three applications of the server, of which the configuration   *)
(* names one (task_type), do for a client, and the virtual machines all of *)
(* them host.  A client's connection, a request for a file and the VMs'    *)
(* reloads share no state, so a behaviour is that of one of them.          *)
(***************************************************************************)
EXTENDS StreamApp, HttpApp, HotReload

CONSTANTS
    WsWires,    \* what WebSocket clients may send,
    WsCuts,     \* where their arrivals may end,
    WsReadMax,  \* what is read at once
    WsSizes,    \* and the sizes of the packages they get
    MaxHeld,
    MaxWsSend

VARIABLE part   \* what the behaviour is of: "client", "file" or "VMs"

WebSocket == INSTANCE WebSocketApp
             WITH Wires <- WsWires, Cuts <- WsCuts, ReadMax <- WsReadMax,
                  Sizes <- WsSizes

ASSUME WebSocketAssumption == WebSocket!WsConstants

partVars == <<part, connVars, httpVars, hotReloadVars>>

NoClient == NewConn("HTTP_TASK", <<>>)
NoVMs == Stopped([edition |-> 0, broken |-> {}, how |-> "syntax"], FALSE)

TaskTypesInit ==
    \/ /\ part = "client"
       /\ StreamInit \/ WebSocket!WsInit
       /\ NoRequestYet(0) /\ NoVMs
    \/ /\ part = "file"
       /\ HttpInit
       /\ NoClient /\ NoVMs
    \/ /\ part = "VMs"
       /\ HotReloadInit
       /\ NoClient /\ NoRequestYet(0)

ClientNext ==
    \/ task_type = "STREAM_TASK" /\ StreamNext
    \/ task_type = "WEBSOCKET_TASK" /\ WebSocket!WsNext

TaskTypesNext ==
    /\ \/ part = "client" /\ ClientNext /\ UNCHANGED <<httpVars, hotReloadVars>>
       \/ part = "file" /\ HttpNext /\ UNCHANGED <<connVars, hotReloadVars>>
       \/ part = "VMs" /\ HotReloadNext /\ UNCHANGED <<connVars, httpVars>>
    /\ UNCHANGED part

TaskTypesSpec == TaskTypesInit /\ [][TaskTypesNext]_partVars

-----------------------------------------------------------------------------
(* Properties *)

\* A WebSocket client's messages reach the VM whole: see WebSocketApp.
MessagesArriveWhole == WebSocket!MessagesArriveWhole

\* A WebSocket client that keeps to the protocol is served: see WebSocketApp.
WsHonestClientsAreServed == WebSocket!WsHonestClientsAreServed

\* What a client of either kind gets of the VM's packages has no gap, and a
\* WebSocket client can read the length of each.
ClientsSeeNoGap ==
    IF task_type = "WEBSOCKET_TASK" THEN WebSocket!WsClientSeesNoGap
                                    ELSE ClientSeesNoGap
=============================================================================
