----------------------------- MODULE MCSession -----------------------------
(* Small instances of Session for TLC. *)
EXTENDS Session

CONSTANTS c1, c2, u1, u2

OneEach == [c \in Conns |-> 1]
TwoAndOne == [c \in Conns |-> IF c = c1 THEN 2 ELSE 1]
=============================================================================
