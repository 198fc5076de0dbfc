------------------------------ MODULE MapTick ------------------------------
(***************************************************************************)
(* A map between two ticks and during one: players join in the middle,     *)
(* exit, and steer; a tick makes the steps that are due (MapClock), each   *)
(* of which moves every player and its entry in the tree (MapTree), and    *)
(* tells every player of the players around it.                            *)
(***************************************************************************)
EXTENDS MapClock, MapTree

CONSTANTS
    Steering,       \* kind of map -> the directions clients may give
    MAX_SPEED,      \* kind of map -> maxSpeed * speedRatio
    BODY_RADIUS,
    RANGE           \* half the width of what a player is told of

VARIABLES
    axes,   \* of the map
    body,   \* user -> its player in the map, None if it is not there
    tree

vars == <<clock, axes, body, tree>>

SPEED_RATIO == 1000
ACCEL == 1

\* A direction has a sign for every axis, and stands for the normalised
\* vector in that direction.
Directions(space) == [space -> {-1, 0, 1}]
Still == [a \in axes |-> 0]

\* What a player of a map is: where it is, its velocity and its direction.
Bodies(space) ==
    [pos : [space -> Int], v : [space -> Int], dir : Directions(space)]

ASSUME TickAssumption ==
    /\ \A space \in Spaces : /\ IsFiniteSet(space)
                             /\ MAX_SPEED[space] \in Nat
                             /\ Steering[space] \subseteq Directions(space)
                             /\ None \notin Bodies(space)
    /\ BODY_RADIUS \in Nat \ {0} /\ Size > 2 * BODY_RADIUS /\ RANGE \in Nat \ {0}

Present == {u \in Users : body[u] # None}
At == [u \in Present |-> body[u].pos]

Init ==
    /\ ClockInit
    /\ axes \in Spaces
    /\ body = [u \in Users |-> None]
    /\ tree = [split |-> {}, held |-> [u \in Users |-> <<>>],
               node |-> [u \in Users |-> None]]

-----------------------------------------------------------------------------
(* Physics *)

Abs(n) == IF n < 0 THEN -n ELSE n
Sign(n) == IF n > 0 THEN 1 ELSE IF n < 0 THEN -1 ELSE 0

\* math.floor of n times the component of the normalised direction, which is
\* n / sqrt(m) for m axes with a sign.
Floored(n, dir, a) ==
    LET m == Cardinality({b \in DOMAIN dir : dir[b] # 0})
        part == CHOOSE k \in 0..n : m * k * k <= n * n /\ m * (k + 1) * (k + 1) > n * n
    IN CASE dir[a] = 0 -> 0
         [] dir[a] = 1 -> part
         [] dir[a] = -1 -> IF m * part * part = n * n THEN -part ELSE -part - 1

\* The velocity along an axis goes towards its target by at most what the
\* acceleration allows.
NewVelocity(b, a) ==
    LET target == Floored(MAX_SPEED[DOMAIN b.dir], b.dir, a)
        most == Abs(Floored(ACCEL * DT_MS, b.dir, a))
        delta == target - b.v[a]
    IN IF most # 0 /\ Abs(delta) > most THEN b.v[a] + Sign(delta) * most ELSE target

Clamp(x) ==
    IF x < BODY_RADIUS THEN BODY_RADIUS
    ELSE IF x > Size - BODY_RADIUS THEN Size - BODY_RADIUS ELSE x

Moved(b) ==
    LET v == [a \in DOMAIN b.v |-> NewVelocity(b, a)] IN
    [b EXCEPT !.v = v,
              !.pos = [a \in DOMAIN b.pos |->
                         Clamp(b.pos[a] + (v[a] * DT_MS) \div SPEED_RATIO)]]

\* The player is moved, taken out of the tree and put in again.
PlayerPhysicsMove(w, u) ==
    LET b == [w.body EXCEPT ![u] = Moved(@)]
        at == [v \in Present |-> b[v].pos]
        out == IF w.tree.node[u] # None THEN RemoveItemFromList(w.tree, u) ELSE w.tree
    IN [body |-> b, tree |-> QtInert(out, at, Root(axes), u)]

\* The moves of one step.  The notice that follows changes nothing here: it
\* tells each player of those a query around it finds.
FixedUpdate(w) == FoldSet(LAMBDA u, x : PlayerPhysicsMove(x, u), w, Present)

RangeOf(u) == [a \in axes |-> body[u].pos[a] - RANGE]
Told(u) == QtQuery(tree, At, Root(axes), RangeOf(u), 2 * RANGE)

-----------------------------------------------------------------------------
(* Operations *)

FindSpawnPoint == [a \in axes |-> Size \div 2]

PlayerJoinMap(u) ==
    /\ body[u] = None
    /\ body' = [body EXCEPT ![u] = [pos |-> FindSpawnPoint, v |-> Still, dir |-> Still]]
    /\ tree' = QtInert(tree, [v \in Present \cup {u} |-> body'[v].pos], Root(axes), u)
    /\ UNCHANGED <<clock, axes>>

\* (faulty variant: the tree keeps a player that has left)
PlayerExitMapOnly(u) ==
    /\ u \in Present
    /\ body' = [body EXCEPT ![u] = None]
    /\ UNCHANGED <<clock, axes, tree>>

PlayerExitMap(u) ==
    /\ u \in Present
    /\ tree' = IF tree.node[u] # None THEN RemoveItemFromList(tree, u) ELSE tree
    /\ body' = [body EXCEPT ![u] = None]
    /\ UNCHANGED <<clock, axes>>

\* An input that is accepted (see MapPresence) sets the direction.
MapPlayerInput(u, dir) ==
    /\ u \in Present
    /\ body' = [body EXCEPT ![u].dir = dir]
    /\ UNCHANGED <<clock, axes, tree>>

OnTick(timeMS) ==
    /\ ClockTick(timeMS)
    /\ LET made == steps' - steps
           w[n \in Nat] ==
             IF n = 0 THEN [body |-> body, tree |-> tree] ELSE FixedUpdate(w[n - 1])
       IN body' = w[made].body /\ tree' = w[made].tree
    /\ UNCHANGED axes

Next ==
    \/ \E u \in Users : \/ PlayerJoinMap(u)
                        \/ PlayerExitMap(u)
                        \/ \E dir \in Steering[axes] : MapPlayerInput(u, dir)
    \/ \E timeMS \in Times : OnTick(timeMS)

-----------------------------------------------------------------------------
(* Properties *)

\* The tree holds every player of the map once, in the node the player names
\* and within that node's region, and nobody else: what FixedUpdate finds in
\* the tree it can look up in the map.
TreesHoldPlayers ==
    /\ \A u \in Present : /\ tree.held[u] = <<tree.node[u]>>
                          /\ ContainsNode(tree.node[u], body[u].pos)
    /\ \A u \in Users \ Present : tree.held[u] = <<>> /\ tree.node[u] = None
=============================================================================
