----------------------------- MODULE MCAccount -----------------------------
(* A small instance of Account for TLC: one account exists already, with   *)
(* an id the clock may show again and one tick behind it.                  *)
EXTENDS Account

CONSTANTS c1, c2, u1, u2, p1

Registered ==
    {[id |-> 1, user |-> u1, password |-> p1, level |-> 1,
      bag |-> <<[itemID |-> 1, number |-> 1]>>]}

TwoAndOne == [c \in Conns |-> IF c = c1 THEN 2 ELSE 1]
=============================================================================
