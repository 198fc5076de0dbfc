----------------------------- MODULE MCIpcLink -----------------------------
(* Small instances of IpcLink for TLC. *)
EXTENDS IpcLink

CONSTANTS d1, a1

\* Every process of dbsvrgo is configured with the same application id.
SameApp == [c \in Clients |-> a1]
=============================================================================
