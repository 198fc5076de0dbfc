-------------------------------- MODULE Maps --------------------------------
(***************************************************************************)
(* The two kinds of map.  A Map3D has the code of a Map over one more      *)
(* axis, with players half as fast and an octree that goes down to smaller *)
(* nodes.  Players and trees of different maps never meet, so a behaviour  *)
(* is that of one map of either kind.                                      *)
(***************************************************************************)
EXTENDS MapTick

Axes2D == {"x", "y"}
Axes3D == {"x", "y", "z"}

OcQuery(t, at, n, low, size) == QtQuery(t, at, n, low, size)

PlayerJoinMap3D(u) == PlayerJoinMap(u)
PlayerExitMap3D(u) == PlayerExitMap(u)
Map3DPlayerInput(u, dir) == MapPlayerInput(u, dir)
OnTick3D(timeMS) == OnTick(timeMS)

Next3D ==
    \/ \E u \in Users : \/ PlayerJoinMap3D(u)
                        \/ PlayerExitMap3D(u)
                        \/ \E dir \in Steering[Axes3D] : Map3DPlayerInput(u, dir)
    \/ \E timeMS \in Times : OnTick3D(timeMS)

MapsInit == axes \in {Axes2D, Axes3D} /\ Init

MapsNext ==
    \/ axes = Axes2D /\ Next
    \/ axes = Axes3D /\ Next3D

MapsSpec == MapsInit /\ [][MapsNext]_vars

-----------------------------------------------------------------------------
(* Properties *)

\* QtQuery and OcQuery find exactly the players around a player, wherever the
\* players have gone, also on the borders of nodes and in the strips their
\* children leave uncovered: who sees whom is what the notices are made from.
QueriesAreExact ==
    \A u \in Present :
        LET around == {v \in Present : Within(body[v].pos, RangeOf(u), 2 * RANGE)} IN
        /\ axes = Axes2D => Told(u) = around
        /\ axes = Axes3D =>
             OcQuery(tree, At, Root(Axes3D), RangeOf(u), 2 * RANGE) = around
=============================================================================
