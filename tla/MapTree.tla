------------------------------ MODULE MapTree ------------------------------
(***************************************************************************)
(* The tree in which a map finds its players by position: a quadtree over  *)
(* the axes of a 2D map, and an octree, with the same code, over those of  *)
(* a 3D map.  A node is the region it covers and its depth.  A tree has    *)
(* the nodes that were subdivided, for every user the nodes in whose lists *)
(* its object is (the order in a list means nothing), and the node the     *)
(* object names as its own.  A position is a function of the axes.         *)
(***************************************************************************)
EXTENDS Integers, FiniteSets, Sequences, SequencesExt

CONSTANTS
    Users,
    Spaces,     \* the sets of axes of the kinds of map
    Size,       \* of the map, along every axis
    MinSize,    \* kind of map -> a node this small is not subdivided
    MAX_DEPTH, MAX_OBJECTS,
    None

Node(low, size, depth) == [low |-> low, size |-> size, depth |-> depth]
Root(space) == Node([a \in space |-> 0], Size, 0)
AxesOf(n) == DOMAIN n.low

Nodes(space) == [low : [space -> Nat], size : Nat, depth : Nat]
Trees(space) ==
    [split : SUBSET Nodes(space),
     held : [Users -> Seq(Nodes(space))],
     node : [Users -> Nodes(space) \cup {None}]]

ASSUME TreeAssumption ==
    /\ IsFiniteSet(Users)
    /\ Size \in Nat /\ MAX_DEPTH \in Nat
    /\ MinSize \in [Spaces -> Nat]
    /\ \A space \in Spaces : None \notin Nodes(space)

ContainsNode(n, p) ==
    \A a \in AxesOf(n) : p[a] >= n.low[a] /\ p[a] < n.low[a] + n.size

\* A range is given by its lowest corner and its size.
Intersect(n, low, size) ==
    \A a \in AxesOf(n) : low[a] <= n.low[a] + n.size /\ n.low[a] <= low[a] + size

Within(p, low, size) ==
    \A a \in DOMAIN low : p[a] >= low[a] /\ p[a] < low[a] + size

\* One child for each choice of halves; the half of an odd size is cut down.
Children(n) ==
    LET half == n.size \div 2 IN
    {Node([a \in AxesOf(n) |-> n.low[a] + (IF a \in upper THEN half ELSE 0)], half,
          n.depth + 1) : upper \in SUBSET AxesOf(n)}

ListOf(t, n) == {u \in Users : n \in ToSet(t.held[u])}

Put(t, n, u) == [t EXCEPT !.held[u] = Append(@, n), !.node[u] = n]

\* One entry of a list goes.
TakenOut(t, n, u) == [t EXCEPT !.held[u] = RemoveFirst(@, n), !.node[u] = None]

\* From the list of the node the user's object names.
RemoveItemFromList(t, u) == TakenOut(t, t.node[u], u)

-----------------------------------------------------------------------------
(* Insertion.  `below' inserts into the nodes one level down.              *)

\* Into the child that contains the position, else into the node itself.
Sink(below, t, at, n, u) ==
    LET fit == {k \in Children(n) : ContainsNode(k, at[u])} IN
    IF fit = {} THEN Put(t, n, u) ELSE below[t][CHOOSE k \in fit : TRUE][u]

\* The objects of the node's list are distributed over its new children.  The
\* code copies the list and empties it first; the node's list is not looked at
\* in between, so here each object leaves it when its turn comes.
Subdivide(below, t, at, n) ==
    IF n.size <= MinSize[AxesOf(n)]
      THEN t
      ELSE FoldSet(LAMBDA u, s : Sink(below, TakenOut(s, n, u), at, n, u),
                   [t EXCEPT !.split = @ \cup {n}],
                   ListOf(t, n))

InertAt(below, t, at, n, u) ==
    IF n \in t.split
      THEN Sink(below, t, at, n, u)
      ELSE LET put == Put(t, n, u) IN
           IF Cardinality(ListOf(put, n)) > MAX_OBJECTS /\ n.depth < MAX_DEPTH
             THEN Subdivide(below, put, at, n)
             ELSE put

\* QtInert of the user whose position is at[u]; inert[d] inserts into nodes that
\* may have d levels below them.
QtInert(t, at, n, u) ==
    LET space == AxesOf(n)
        inert[d \in Nat] ==
          [s \in Trees(space) |-> [m \in Nodes(space) |-> [v \in Users |->
              IF d = 0 THEN Put(s, m, v) ELSE InertAt(inert[d - 1], s, at, m, v)]]]
    IN inert[MAX_DEPTH - n.depth][t][n][u]

-----------------------------------------------------------------------------
(* Queries *)

FoundIn(t, at, n, low, size) ==
    {u \in ListOf(t, n) : Within(at[u], low, size)}

\* (faulty variant: a node that has children is taken to hold nothing itself)
QtQueryLeaves(t, at, n, low, size) ==
    LET found[d \in Nat] ==
          [m \in Nodes(AxesOf(n)) |->
              IF ~Intersect(m, low, size) THEN {}
              ELSE IF d > 0 /\ m \in t.split
                THEN UNION {found[d - 1][k] : k \in Children(m)}
                ELSE FoundIn(t, at, m, low, size)]
    IN found[MAX_DEPTH - n.depth][n]

QtQuery(t, at, n, low, size) ==
    LET found[d \in Nat] ==
          [m \in Nodes(AxesOf(n)) |->
              IF ~Intersect(m, low, size) THEN {}
              ELSE FoundIn(t, at, m, low, size)
                     \cup (IF d > 0 /\ m \in t.split
                             THEN UNION {found[d - 1][k] : k \in Children(m)}
                             ELSE {})]
    IN found[MAX_DEPTH - n.depth][n]
=============================================================================
