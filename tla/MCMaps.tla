------------------------------- MODULE MCMaps -------------------------------
(* A small instance of Maps for TLC. *)
EXTENDS Maps

CONSTANTS u1, u2

Dir(x, y) == [a \in Axes2D |-> IF a = "x" THEN x ELSE y]
Dir3D(x, y, z) ==
    [a \in Axes3D |-> CASE a = "x" -> x [] a = "y" -> y [] a = "z" -> z]

\* The values for the two kinds of map.
ForKinds(two, three) == [space \in {Axes2D, Axes3D} |-> IF space = Axes2D THEN two ELSE three]

Kinds == {Axes2D, Axes3D}
MinSizes == ForKinds(4, 2)
Speeds == ForKinds(100, 50)
Ways == ForKinds({Dir(0, 0), Dir(1, 0), Dir(1, 1), Dir(-1, -1)},
                 {Dir3D(0, 0, 0), Dir3D(1, 1, 1), Dir3D(-1, 0, -1)})
Readings == {200, 230, 260, 310}
=============================================================================
