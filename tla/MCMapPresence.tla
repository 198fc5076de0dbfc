--------------------------- MODULE MCMapPresence ---------------------------
(* Small instances of MapPresence for TLC. *)
EXTENDS MapPresence

CONSTANTS c1, c2, u1, m1, m2, Long, Short

\* The careful client sends as many requests as it takes for the numbers of
\* its inputs to wrap, the other one fewer.
RequestsOf == [c \in Conns |-> IF c \in Careful THEN Long ELSE Short]
=============================================================================
