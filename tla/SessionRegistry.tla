-------------------------- MODULE SessionRegistry --------------------------
(***************************************************************************)
(* What the player registry of the map server promises to the rest of the  *)
(* system, without saying how: a user has at most one session, a session   *)
(* belongs to one connection, a connection carries at most one session,    *)
(* and once the service has been told to stop no session is opened any     *)
(* more.  Session.tla is shown to implement this module.                   *)
(***************************************************************************)
CONSTANTS Conns,  \* client connections
          Users,  \* user accounts
          None    \* "no connection"

VARIABLES session,   \* user -> the connection of its session, or None
          stopping   \* the safe stop has been requested

vars == <<session, stopping>>

Init ==
    /\ session = [u \in Users |-> None]
    /\ stopping = FALSE

\* A login succeeds.
Open(u, c) ==
    /\ ~stopping
    /\ session[u] = None
    /\ \A v \in Users : session[v] # c
    /\ session' = [session EXCEPT ![u] = c]
    /\ UNCHANGED stopping

\* The session of one user ends.
Close(u) ==
    /\ session[u] # None
    /\ session' = [session EXCEPT ![u] = None]
    /\ UNCHANGED stopping

\* The safe stop; players are still there, they are forced offline later.
Stop ==
    /\ stopping' = TRUE
    /\ UNCHANGED session

\* The process ends and takes every session with it.
Shutdown ==
    /\ session' = [u \in Users |-> None]
    /\ UNCHANGED stopping

Next ==
    \/ \E u \in Users, c \in Conns : Open(u, c)
    \/ \E u \in Users : Close(u)
    \/ Stop
    \/ Shutdown

Spec == Init /\ [][Next]_vars
=============================================================================
