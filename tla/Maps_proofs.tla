----------------------------- MODULE Maps_proofs -----------------------------
(***************************************************************************)
(* Proofs about Maps, its trees and its clock, for any users, kinds of map *)
(* and sizes, any depth and crowding of the trees, and every set of        *)
(* readings the clock may give, in any order.                              *)
(***************************************************************************)
EXTENDS Maps, FiniteSetTheorems, WellFoundedInduction, TLAPS

-----------------------------------------------------------------------------
(* Numbers, recursion and folds *)

LEMMA LeastNat ==
    ASSUME NEW S \in SUBSET Nat, S # {}
    PROVE  \E x \in S : \A y \in S : x <= y
<1> DEFINE R == OpToRel(<, Nat)
<1>1. IsWellFoundedOn(R, Nat)
    BY NatLessThanWellFounded
<1>2. \A x, y \in Nat : x < y => <<x, y>> \in R
    BY DEF OpToRel
<1> HIDE DEF R
<1>3. PICK x \in S : \A y \in S : ~(<<y, x>> \in R)
    BY <1>1, WFMin
<1>4. \A y \in S : ~(y < x)
    BY <1>2, <1>3
<1> QED BY <1>3, <1>4

LEMMA SetInduction ==
    ASSUME NEW S, 0 \in S, \A n \in Nat : n \in S => n + 1 \in S
    PROVE  Nat \subseteq S
<1> SUFFICES ASSUME Nat \ S # {} PROVE FALSE
    OBVIOUS
<1>1. PICK x \in Nat \ S : \A y \in Nat \ S : x <= y
    BY LeastNat
<1>2. x # 0 /\ x \in Nat
    BY <1>1
<1>3. x - 1 \in Nat /\ x - 1 < x
    BY <1>2
<1>4. x - 1 \in S
    BY <1>1, <1>3
<1>5. (x - 1) + 1 \in S
    BY <1>3, <1>4
<1> QED BY <1>1, <1>2, <1>5

RunUpTo(g, n, a, s) ==
    /\ g[0] = a
    /\ \A i \in Nat : i + 1 <= n => g[i + 1] = s[g[i]]

LEMMA RunsAgree ==
    ASSUME NEW a, NEW s, NEW n \in Nat, NEW g, NEW h,
           RunUpTo(g, n, a, s), RunUpTo(h, n, a, s)
    PROVE  \A i \in Nat : i <= n => g[i] = h[i]
<1> DEFINE S == {i \in Nat : i <= n => g[i] = h[i]}
<1>1. 0 \in S
    BY DEF RunUpTo
<1>2. ASSUME NEW i \in Nat, i \in S PROVE i + 1 \in S
    BY <1>2 DEF RunUpTo
<1> HIDE DEF S
<1>3. Nat \subseteq S
    BY <1>1, <1>2, SetInduction
<1> QED BY <1>3 DEF S

LEMMA RunsExist ==
    ASSUME NEW D, NEW a \in D, NEW s \in [D -> D]
    PROVE  \A n \in Nat : \E g \in [Nat -> D] : RunUpTo(g, n, a, s)
<1> DEFINE S == {n \in Nat : \E g \in [Nat -> D] : RunUpTo(g, n, a, s)}
<1>1. 0 \in S
    <2>1. PICK g \in [Nat -> D] : g = [i \in Nat |-> a]
        OBVIOUS
    <2>2. RunUpTo(g, 0, a, s)
        BY <2>1 DEF RunUpTo
    <2> QED BY <2>2
<1>2. ASSUME NEW n \in Nat, n \in S PROVE n + 1 \in S
    <2>1. PICK g \in [Nat -> D] : RunUpTo(g, n, a, s)
        BY <1>2
    <2>2. s[g[n]] \in D
        OBVIOUS
    <2>3. PICK h \in [Nat -> D] : h = [i \in Nat |-> IF i = n + 1 THEN s[g[n]] ELSE g[i]]
        BY <2>2
    <2>4. RunUpTo(h, n + 1, a, s)
        <3>1. h[0] = a
            BY <2>1, <2>3 DEF RunUpTo
        <3>2. ASSUME NEW i \in Nat, i + 1 <= n + 1 PROVE h[i + 1] = s[h[i]]
            <4>1. i # n + 1 /\ h[i] = g[i]
                BY <2>3, <3>2
            <4>2. CASE i = n
                BY <2>3, <4>1, <4>2
            <4>3. CASE i # n
                <5>1. i + 1 <= n /\ i + 1 # n + 1
                    BY <3>2, <4>3
                <5>2. h[i + 1] = g[i + 1]
                    BY <2>3, <5>1
                <5> QED BY <2>1, <4>1, <5>1, <5>2 DEF RunUpTo
            <4> QED BY <4>2, <4>3
        <3> QED BY <3>1, <3>2 DEF RunUpTo
    <2> QED BY <2>4
<1> HIDE DEF S
<1>3. Nat \subseteq S
    BY <1>1, <1>2, SetInduction
<1> QED BY <1>3 DEF S

LEMMA Iterates ==
    ASSUME NEW D, NEW a \in D, NEW s \in [D -> D]
    PROVE  \E f \in [Nat -> D] : f[0] = a /\ \A n \in Nat : f[n + 1] = s[f[n]]
<1> DEFINE run(n) == CHOOSE g \in [Nat -> D] : RunUpTo(g, n, a, s)
<1>1. \A n \in Nat : run(n) \in [Nat -> D] /\ RunUpTo(run(n), n, a, s)
    BY RunsExist
<1> HIDE DEF run
<1>2. PICK f \in [Nat -> D] : \A n \in Nat : f[n] = run(n)[n]
    <2>1. [n \in Nat |-> run(n)[n]] \in [Nat -> D]
        BY <1>1
    <2> QED BY <2>1
<1>3. f[0] = a
    BY <1>1, <1>2 DEF RunUpTo
<1>4. ASSUME NEW n \in Nat PROVE f[n + 1] = s[f[n]]
    <2>1. PICK g, h : g = run(n) /\ h = run(n + 1)
        OBVIOUS
    <2>2. RunUpTo(g, n, a, s) /\ RunUpTo(h, n + 1, a, s)
        BY <1>1, <2>1
    <2>3. RunUpTo(h, n, a, s)
        BY <2>2 DEF RunUpTo
    <2>4. g[n] = h[n]
        BY <2>2, <2>3, RunsAgree
    <2>5. h[n + 1] = s[h[n]]
        BY <2>2 DEF RunUpTo
    <2> QED BY <1>2, <2>1, <2>4, <2>5
<1> QED BY <1>3, <1>4

\* f starts with a, and every step is made by s.
LevelsOf(f, a, s) == f = [n \in Nat |-> IF n = 0 THEN a ELSE s[f[n - 1]]]

LEMMA LevelsExist ==
    ASSUME NEW D, NEW a \in D, NEW s \in [D -> D]
    PROVE  \E f \in [Nat -> D] : LevelsOf(f, a, s)
<1>1. PICK f \in [Nat -> D] : f[0] = a /\ \A n \in Nat : f[n + 1] = s[f[n]]
    BY Iterates
<1>2. ASSUME NEW n \in Nat PROVE f[n] = IF n = 0 THEN a ELSE s[f[n - 1]]
    <2>1. CASE n = 0
        BY <1>1, <2>1
    <2>2. CASE n # 0
        <3>1. n - 1 \in Nat /\ (n - 1) + 1 = n
            BY <2>2
        <3>2. f[(n - 1) + 1] = s[f[n - 1]]
            BY <1>1, <3>1
        <3> QED BY <2>2, <3>1, <3>2
    <2> QED BY <2>1, <2>2
<1>3. LevelsOf(f, a, s)
    BY <1>2 DEF LevelsOf
<1> QED BY <1>3

LEMMA LevelsHold ==
    ASSUME NEW f, NEW a, NEW s, LevelsOf(f, a, s),
           NEW G, a \in G, \A x \in G : s[x] \in G
    PROVE  \A n \in Nat : f[n] \in G
<1> DEFINE S == {n \in Nat : f[n] \in G}
<1>1. f[0] = a
    BY DEF LevelsOf
<1>2. ASSUME NEW n \in Nat PROVE f[n + 1] = s[f[n]]
    <2>1. n + 1 \in Nat /\ n + 1 # 0 /\ (n + 1) - 1 = n
        OBVIOUS
    <2> QED BY <2>1 DEF LevelsOf
<1>3. 0 \in S
    BY <1>1
<1>4. ASSUME NEW n \in Nat, n \in S PROVE n + 1 \in S
    BY <1>2, <1>4
<1> HIDE DEF S
<1>5. Nat \subseteq S
    BY <1>3, <1>4, SetInduction
<1> QED BY <1>5 DEF S

\* What FoldSet takes from a set next.
Picked(s) == CHOOSE x \in s : TRUE

LEMMA Smaller ==
    ASSUME NEW S, IsFiniteSet(S), NEW s \in SUBSET S
    PROVE  /\ IsFiniteSet(s) /\ Cardinality(s) \in Nat
           /\ s = {} <=> Cardinality(s) = 0
           /\ s # {} => /\ Picked(s) \in s
                        /\ s \ {Picked(s)} \in SUBSET S
                        /\ Cardinality(s \ {Picked(s)}) = Cardinality(s) - 1
<1>1. IsFiniteSet(s)
    BY FS_Subset
<1>2. Cardinality(s) \in Nat /\ (s = {} <=> Cardinality(s) = 0)
    BY <1>1, FS_CardinalityType, FS_EmptySet
<1>3. ASSUME s # {} PROVE Picked(s) \in s
    BY <1>3 DEF Picked
<1>4. ASSUME s # {} PROVE Cardinality(s \ {Picked(s)}) = Cardinality(s) - 1
    BY <1>1, <1>3, <1>4, FS_RemoveElement
<1> QED BY <1>1, <1>2, <1>3, <1>4

\* What holds of the empty set, and of a set when it does of the rest of it.
LEMMA PickInduction ==
    ASSUME NEW S, IsFiniteSet(S), NEW G, {} \in G,
           \A s \in SUBSET S : s # {} /\ s \ {Picked(s)} \in G => s \in G
    PROVE  SUBSET S \subseteq G
<1> DEFINE N == {n \in Nat : \A s \in SUBSET S : Cardinality(s) = n => s \in G}
<1>1. 0 \in N
    BY Smaller
<1>2. ASSUME NEW n \in Nat, n \in N PROVE n + 1 \in N
    <2> SUFFICES ASSUME NEW s \in SUBSET S, Cardinality(s) = n + 1 PROVE s \in G
        OBVIOUS
    <2>0. n + 1 # 0 /\ (n + 1) - 1 = n
        OBVIOUS
    <2>1. s # {}
        BY <2>0, Smaller
    <2>2. s \ {Picked(s)} \in SUBSET S /\ Cardinality(s \ {Picked(s)}) = n
        BY <2>0, <2>1, Smaller
    <2>3. s \ {Picked(s)} \in G
        BY <1>2, <2>2
    <2> QED BY <2>1, <2>3
<1> HIDE DEF N
<1>3. Nat \subseteq N
    BY <1>1, <1>2, SetInduction
<1>4. ASSUME NEW s \in SUBSET S PROVE s \in G
    <2>1. Cardinality(s) \in N
        BY <1>3, Smaller
    <2> QED BY <2>1 DEF N
<1> QED BY <1>4

\* c folds the members of S into base, each with its F.
FoldsBy(c, S, base, F) ==
    c = [s \in SUBSET S |-> IF s = {} THEN base ELSE F[Picked(s)][c[s \ {Picked(s)}]]]

LEMMA FoldExists ==
    ASSUME NEW S, IsFiniteSet(S), NEW T, NEW base \in T, NEW F \in [S -> [T -> T]]
    PROVE  \E c \in [SUBSET S -> T] : FoldsBy(c, S, base, F)
<1> DEFINE Step(c, s) == IF s = {} THEN base ELSE F[Picked(s)][c[s \ {Picked(s)}]]
           UpTo(c, n) == \A s \in SUBSET S : Cardinality(s) <= n => c[s] = Step(c, s)
           N == {n \in Nat : \E c \in [SUBSET S -> T] : UpTo(c, n)}
<1>1. \A c \in [SUBSET S -> T] : \A s \in SUBSET S : Step(c, s) \in T
    <2> SUFFICES ASSUME NEW c \in [SUBSET S -> T], NEW s \in SUBSET S, s # {}
                 PROVE  F[Picked(s)][c[s \ {Picked(s)}]] \in T
        OBVIOUS
    <2>1. Picked(s) \in S /\ s \ {Picked(s)} \in SUBSET S
        BY Smaller
    <2> QED BY <2>1
<1>2. 0 \in N
    <2>1. PICK c : c = [s \in SUBSET S |-> base]
        OBVIOUS
    <2>2. ASSUME NEW s \in SUBSET S, Cardinality(s) <= 0 PROVE s = {}
        <3>1. Cardinality(s) \in Nat
            BY Smaller
        <3>2. Cardinality(s) = 0
            BY <2>2, <3>1
        <3> QED BY <3>2, Smaller
    <2>3. c \in [SUBSET S -> T] /\ UpTo(c, 0)
        BY <2>1, <2>2
    <2> HIDE DEF UpTo
    <2> QED BY <2>3
<1>3. ASSUME NEW n \in Nat, n \in N PROVE n + 1 \in N
    <2>1. PICK c \in [SUBSET S -> T] : UpTo(c, n)
        BY <1>3
    <2>2. PICK d : d = [s \in SUBSET S |-> Step(c, s)]
        OBVIOUS
    <2>3. d \in [SUBSET S -> T]
        BY <1>1, <2>2
    <2>4. ASSUME NEW s \in SUBSET S, Cardinality(s) <= n + 1 PROVE d[s] = Step(d, s)
        <3>1. CASE s = {}
            BY <2>2, <3>1
        <3>2. CASE s # {}
            <4>0. /\ Cardinality(s) \in Nat /\ s \ {Picked(s)} \in SUBSET S
                  /\ Cardinality(s \ {Picked(s)}) = Cardinality(s) - 1
                BY <3>2, Smaller
            <4>1. PICK r \in SUBSET S : r = s \ {Picked(s)} /\ Cardinality(r) <= n
                BY <2>4, <4>0
            <4>2. c[r] = Step(c, r) /\ d[r] = Step(c, r)
                BY <2>1, <2>2, <4>1
            <4>3. c[r] = d[r]
                BY <4>2
            <4> QED BY <2>2, <3>2, <4>1, <4>3
        <3> QED BY <3>1, <3>2
    <2>5. UpTo(d, n + 1)
        BY <2>4
    <2> HIDE DEF UpTo
    <2> QED BY <2>3, <2>5
<1>4. Cardinality(S) \in Nat
    BY FS_CardinalityType
<1>5. Cardinality(S) \in N
    <2> HIDE DEF N
    <2> QED BY <1>2, <1>3, <1>4, SetInduction
<1>6. PICK c \in [SUBSET S -> T] : UpTo(c, Cardinality(S))
    BY <1>5
<1>7. \A s \in SUBSET S : Cardinality(s) <= Cardinality(S)
    BY FS_Subset
<1>8. c = [s \in SUBSET S |-> Step(c, s)]
    BY <1>6, <1>7
<1> QED BY <1>8 DEF FoldsBy

-----------------------------------------------------------------------------
(* Nodes *)

LEMMA RootIs ==
    ASSUME NEW A \in Spaces
    PROVE  /\ Root(A) \in Nodes(A) /\ AxesOf(Root(A)) = A
           /\ Root(A).depth = 0 /\ Root(A).size = Size
           /\ \A a \in A : Root(A).low[a] = 0
BY TreeAssumption DEF Root, Node, Nodes, AxesOf

\* A child lies within its parent.
LEMMA ChildIs ==
    ASSUME NEW A, NEW n \in Nodes(A), NEW k \in Children(n)
    PROVE  /\ k \in Nodes(A) /\ AxesOf(k) = A /\ AxesOf(n) = A
           /\ k.depth = n.depth + 1
           /\ \A a \in A : n.low[a] <= k.low[a] /\ k.low[a] + k.size <= n.low[a] + n.size
<1> DEFINE half == n.size \div 2
           low(upper) == [a \in A |-> n.low[a] + (IF a \in upper THEN half ELSE 0)]
<1>1. AxesOf(n) = A /\ n.low \in [A -> Nat] /\ n.size \in Nat /\ n.depth \in Nat
    BY DEF Nodes, AxesOf
<1>2. half \in Nat /\ half + half <= n.size
    BY <1>1
<1>3. PICK upper \in SUBSET A : k = Node(low(upper), half, n.depth + 1)
    BY <1>1 DEF Children
<1> HIDE DEF half
<1>4. low(upper) \in [A -> Nat]
    BY <1>1, <1>2
<1>5. k = [low |-> low(upper), size |-> half, depth |-> n.depth + 1]
    BY <1>3 DEF Node
<1>6. k.low = low(upper) /\ k.size = half /\ k.depth = n.depth + 1
    BY <1>5
<1>7. k \in Nodes(A) /\ AxesOf(k) = A
    BY <1>1, <1>2, <1>4, <1>5 DEF Nodes, AxesOf
<1>8. ASSUME NEW a \in A
      PROVE  n.low[a] <= k.low[a] /\ k.low[a] + k.size <= n.low[a] + n.size
    <2>1. n.low[a] \in Nat /\ k.low[a] = n.low[a] + (IF a \in upper THEN half ELSE 0)
        BY <1>1, <1>6
    <2>2. CASE a \in upper
        BY <1>1, <1>2, <1>6, <2>1, <2>2
    <2>3. CASE a \notin upper
        BY <1>1, <1>2, <1>6, <2>1, <2>3
    <2> QED BY <2>2, <2>3
<1> QED BY <1>1, <1>6, <1>7, <1>8

-----------------------------------------------------------------------------
(* What is in the lists *)

\* r is s without one e.
Without(s, e, r) == r = RemoveFirst(s, e)

LEMMA RemoveIs ==
    ASSUME NEW S, NEW s \in Seq(S), NEW e, NEW r, Without(s, e, r)
    PROVE  /\ r \in Seq(S)
           /\ s = <<e>> => r = <<>>
<1> DEFINE I == {i \in 1..Len(s) : s[i] = e}
           first == CHOOSE x \in I : \A y \in I : x <= y
<1>1. Len(s) \in Nat
    OBVIOUS
<1>2. r = IF \E i \in 1..Len(s) : s[i] = e
            THEN SubSeq(s, 1, first - 1) \o SubSeq(s, first + 1, Len(s))
            ELSE s
    <2>1. I # {} => SelectInSeq(s, LAMBDA v : v = e) = first
        BY DEF SelectInSeq, Min
    <2>2. (\E i \in 1..Len(s) : s[i] = e) => I # {}
        OBVIOUS
    <2> HIDE DEF first, I
    <2> QED BY <2>1, <2>2 DEF Without, RemoveFirst, RemoveAt
<1>3. CASE I = {}
    <2>1. \A i \in 1..Len(s) : s[i] # e
        BY <1>3
    <2>2. r = s
        BY <1>2, <2>1
    <2>3. s # <<e>>
        <3> SUFFICES ASSUME s = <<e>> PROVE FALSE
            OBVIOUS
        <3>1. 1 \in 1..Len(s) /\ s[1] = e
            OBVIOUS
        <3> QED BY <2>1, <3>1
    <2> QED BY <2>2, <2>3
<1>4. CASE I # {}
    <2>1. I \in SUBSET Nat
        OBVIOUS
    <2>2. \E x \in I : \A y \in I : x <= y
        BY <1>4, <2>1, LeastNat
    <2>3. PICK x : x = first /\ x \in I
        BY <2>2
    <2>4. r = SubSeq(s, 1, x - 1) \o SubSeq(s, x + 1, Len(s))
        BY <1>2, <2>3
    <2>5. x \in 1..Len(s)
        BY <2>3
    <2> HIDE DEF I, first
    <2>6. SubSeq(s, 1, x - 1) \in Seq(S) /\ SubSeq(s, x + 1, Len(s)) \in Seq(S)
        BY <1>1, <2>5
    <2>7. ASSUME s = <<e>> PROVE r = <<>>
        <3>1. x = 1 /\ Len(s) = 1
            BY <2>5, <2>7
        <3>2. SubSeq(s, 1, 0) = <<>> /\ SubSeq(s, 2, 1) = <<>>
            BY <2>7
        <3> QED BY <2>4, <3>1, <3>2
    <2> QED BY <2>4, <2>6, <2>7
<1> QED BY <1>3, <1>4

\* t2 is t with the object of u in one more list, and naming it.
PutsIn(t, n, u, t2) == t2 = Put(t, n, u)

LEMMA PutIs ==
    ASSUME NEW A, NEW t \in Trees(A), NEW n \in Nodes(A), NEW u \in Users,
           NEW t2, PutsIn(t, n, u, t2)
    PROVE  /\ t2 \in Trees(A) /\ t2.split = t.split
           /\ t2.held[u] = Append(t.held[u], n) /\ t2.node[u] = n
           /\ \A v \in Users : v # u => t2.held[v] = t.held[v] /\ t2.node[v] = t.node[v]
<1>1. PICK r : r = Append(t.held[u], n)
    OBVIOUS
<1>2. r \in Seq(Nodes(A))
    BY <1>1 DEF Trees
<1>3. t2 = [t EXCEPT !.held[u] = r, !.node[u] = n]
    BY <1>1 DEF PutsIn, Put
<1> QED BY <1>1, <1>2, <1>3 DEF Trees

TakesOut(t, n, u, t2) == t2 = TakenOut(t, n, u)

\* The one list the object of u is in is that of n.
Only(t, n, u) == t.held[u] = <<n>>

LEMMA TakenOutIs ==
    ASSUME NEW A, NEW t \in Trees(A), NEW n, NEW u \in Users,
           NEW t2, TakesOut(t, n, u, t2)
    PROVE  /\ t2 \in Trees(A) /\ t2.split = t.split
           /\ Only(t, n, u) => t2.held[u] = <<>>
           /\ t2.node[u] = None
           /\ \A v \in Users : v # u => t2.held[v] = t.held[v] /\ t2.node[v] = t.node[v]
<1>1. PICK r : Without(t.held[u], n, r)
    BY DEF Without
<1>2. t.held[u] \in Seq(Nodes(A))
    BY DEF Trees
<1>3. r \in Seq(Nodes(A)) /\ (t.held[u] = <<n>> => r = <<>>)
    BY <1>1, <1>2, RemoveIs
<1>4. t2 = [t EXCEPT !.held[u] = r, !.node[u] = None]
    BY <1>1 DEF TakesOut, TakenOut, Without
<1> QED BY <1>3, <1>4 DEF Trees, Only

-----------------------------------------------------------------------------
(* Trees *)

InTree(A, t, n) ==
    n \in Nodes(A) /\ (n = Root(A) \/ \E m \in t.split : n \in Children(m))

\* The object of u is in one list, once, which is that of the node it names.
Sits(A, t, u, at) ==
    /\ t.held[u] = <<t.node[u]>>
    /\ InTree(A, t, t.node[u])
    /\ ContainsNode(t.node[u], at[u])

\* t is a tree of the players P, which are at the positions at.
TreeOf(A, t, P, at) ==
    /\ t \in Trees(A)
    /\ \A n \in t.split : n.depth < MAX_DEPTH /\ InTree(A, t, n)
    /\ \A u \in P : Sits(A, t, u, at)
    /\ \A u \in Users \ P : t.held[u] = <<>> /\ t.node[u] = None

\* From t comes t2, of other players.
Grown(A, t, t2, P, at) == TreeOf(A, t2, P, at) /\ t.split \subseteq t2.split

\* The objects of P stay where they are.
Stay(t, t2, P) == \A v \in P : t2.node[v] = t.node[v]

\* Those of them that are above the depth d do.
StayAbove(t, t2, P, d) == Stay(t, t2, {v \in P : t.node[v].depth < d})

LEMMA StaysInTree ==
    ASSUME NEW A, NEW t, NEW t2, t.split \subseteq t2.split,
           NEW n, InTree(A, t, n)
    PROVE  InTree(A, t2, n)
BY DEF InTree

LEMMA ListIs ==
    ASSUME NEW A, NEW t, NEW P \in SUBSET Users, NEW at, TreeOf(A, t, P, at), NEW n
    PROVE  ListOf(t, n) = {u \in P : t.node[u] = n}
<1>1. \A u \in P : n \in ToSet(t.held[u]) <=> t.node[u] = n
    <2> SUFFICES ASSUME NEW u \in P PROVE n \in ToSet(t.held[u]) <=> t.node[u] = n
        OBVIOUS
    <2>1. PICK m : m = t.node[u] /\ t.held[u] = <<m>>
        BY DEF TreeOf, Sits
    <2>2. ToSet(<<m>>) = {m}
        BY DEF ToSet
    <2> QED BY <2>1, <2>2
<1>2. \A u \in Users \ P : n \notin ToSet(t.held[u])
    <2>1. ToSet(<<>>) = {}
        BY DEF ToSet
    <2> QED BY <2>1 DEF TreeOf
<1> QED BY <1>1, <1>2 DEF ListOf

LEMMA PutGrows ==
    ASSUME NEW A, NEW t, NEW P \in SUBSET Users, NEW at, TreeOf(A, t, P, at),
           NEW u \in Users \ P, NEW n, InTree(A, t, n), ContainsNode(n, at[u]),
           NEW t2, PutsIn(t, n, u, t2)
    PROVE  Grown(A, t, t2, P \cup {u}, at) /\ Stay(t, t2, P)
<1>1. t \in Trees(A) /\ n \in Nodes(A)
    BY DEF TreeOf, InTree
<1>2. /\ t2 \in Trees(A) /\ t2.split = t.split
      /\ t2.held[u] = Append(t.held[u], n) /\ t2.node[u] = n
      /\ \A v \in Users : v # u => t2.held[v] = t.held[v] /\ t2.node[v] = t.node[v]
    BY <1>1, PutIs
<1>3. t2.held[u] = <<n>>
    <2>1. t.held[u] = <<>>
        BY DEF TreeOf
    <2> QED BY <1>2, <2>1
<1>4. \A m : InTree(A, t2, m) <=> InTree(A, t, m)
    BY <1>2 DEF InTree
<1>5. Sits(A, t2, u, at)
    BY <1>2, <1>3, <1>4 DEF Sits
<1>6. ASSUME NEW v \in P PROVE Sits(A, t2, v, at)
    <2>1. t2.held[v] = t.held[v] /\ t2.node[v] = t.node[v]
        BY <1>2
    <2> QED BY <2>1, <1>4 DEF Sits, TreeOf
<1>7. TreeOf(A, t2, P \cup {u}, at)
    BY <1>2, <1>4, <1>5, <1>6 DEF TreeOf
<1>8. Stay(t, t2, P)
    BY <1>2 DEF Stay
<1> QED BY <1>2, <1>7, <1>8 DEF Grown

LEMMA TakenShrinks ==
    ASSUME NEW A, NEW t, NEW P \in SUBSET Users, NEW at, TreeOf(A, t, P, at),
           NEW u \in P, NEW n, n = t.node[u], NEW Q, Q = P \ {u},
           NEW t2, TakesOut(t, n, u, t2)
    PROVE  Grown(A, t, t2, Q, at) /\ Stay(t, t2, Q)
<1>1. t \in Trees(A) /\ Sits(A, t, u, at)
    BY DEF TreeOf
<1>2. t.held[u] = <<n>>
    BY <1>1 DEF Sits
<1>3. /\ t2 \in Trees(A) /\ t2.split = t.split
      /\ t2.held[u] = <<>> /\ t2.node[u] = None
      /\ \A v \in Users : v # u => t2.held[v] = t.held[v] /\ t2.node[v] = t.node[v]
    <2>2. u \in Users /\ Only(t, n, u)
        BY <1>2 DEF Only
    <2>3. /\ t2 \in Trees(A) /\ t2.split = t.split
          /\ Only(t, n, u) => t2.held[u] = <<>>
          /\ t2.node[u] = None
          /\ \A v \in Users : v # u => t2.held[v] = t.held[v] /\ t2.node[v] = t.node[v]
        BY <1>1, <2>2, TakenOutIs
    <2> QED BY <2>2, <2>3
<1>4. \A m : InTree(A, t2, m) <=> InTree(A, t, m)
    BY <1>3 DEF InTree
<1>5. ASSUME NEW v \in Q PROVE Sits(A, t2, v, at)
    <2>1. t2.held[v] = t.held[v] /\ t2.node[v] = t.node[v]
        BY <1>3
    <2> QED BY <2>1, <1>4 DEF Sits, TreeOf
<1>6. TreeOf(A, t2, Q, at)
    BY <1>3, <1>4, <1>5 DEF TreeOf
<1>7. Stay(t, t2, Q)
    BY <1>3 DEF Stay
<1> QED BY <1>3, <1>6, <1>7 DEF Grown

\* t2 is t with n subdivided, before anything is moved.
Splits(t, n, t2) == t2 = [t EXCEPT !.split = @ \cup {n}]

LEMMA SplitGrows ==
    ASSUME NEW A, NEW t, NEW P \in SUBSET Users, NEW at, TreeOf(A, t, P, at),
           NEW n, InTree(A, t, n), n.depth < MAX_DEPTH, NEW t2, Splits(t, n, t2)
    PROVE  Grown(A, t, t2, P, at) /\ Stay(t, t2, P) /\ n \in t2.split
<1>1. t \in Trees(A) /\ n \in Nodes(A)
    BY DEF TreeOf, InTree
<1>2. /\ t2 \in Trees(A) /\ t2.split = t.split \cup {n}
      /\ t2.held = t.held /\ t2.node = t.node
    BY <1>1 DEF Trees, Splits
<1>3. \A m : InTree(A, t, m) => InTree(A, t2, m)
    BY <1>2 DEF InTree
<1>4. TreeOf(A, t2, P, at)
    BY <1>2, <1>3 DEF TreeOf, Sits
<1> QED BY <1>2, <1>4 DEF Grown, Stay

-----------------------------------------------------------------------------
(* Insertion *)

\* What can insert into the nodes of a level.
Inserters(A) == [Trees(A) -> [Nodes(A) -> [Users -> Trees(A)]]]

\* g inserts into nodes that may have d levels below them.
Inserts(A, d, g, at) ==
    /\ g \in Inserters(A)
    /\ \A t \in Trees(A), n \in Nodes(A), P \in SUBSET Users :
         TreeOf(A, t, P, at) /\ InTree(A, t, n) /\ n.depth + d = MAX_DEPTH =>
           \A u \in Users \ P :
             ContainsNode(n, at[u]) => /\ Grown(A, t, g[t][n][u], P \cup {u}, at)
                                       /\ StayAbove(t, g[t][n][u], P, n.depth)

SinksTo(g, t, at, n, u, t2) == t2 = Sink(g, t, at, n, u)

LEMMA SinkIs ==
    ASSUME NEW A, NEW g \in Inserters(A), NEW t \in Trees(A), NEW at,
           NEW n \in Nodes(A), NEW u \in Users, NEW t2, SinksTo(g, t, at, n, u, t2)
    PROVE  /\ t2 \in Trees(A)
           /\ \/ PutsIn(t, n, u, t2)
              \/ \E k \in Children(n) : ContainsNode(k, at[u]) /\ t2 = g[t][k][u]
<1> DEFINE fit == {k \in Children(n) : ContainsNode(k, at[u])}
<1>1. CASE fit = {}
    <2>1. PutsIn(t, n, u, t2)
        BY <1>1 DEF SinksTo, Sink, PutsIn
    <2> QED BY <2>1, PutIs
<1>2. CASE fit # {}
    <2>1. PICK k \in fit : t2 = g[t][k][u]
        BY <1>2 DEF SinksTo, Sink
    <2>2. k \in Nodes(A)
        BY <2>1, ChildIs
    <2>3. t2 \in Trees(A)
        BY <2>1, <2>2 DEF Inserters
    <2> QED BY <2>1, <2>3
<1> QED BY <1>1, <1>2

LEMMA SinkGrows ==
    ASSUME NEW A, NEW at, NEW d \in Nat, NEW g, Inserts(A, d, g, at),
           NEW t, NEW P \in SUBSET Users, TreeOf(A, t, P, at),
           NEW n \in t.split, n.depth + (d + 1) = MAX_DEPTH,
           NEW u \in Users \ P, ContainsNode(n, at[u]),
           NEW t2, SinksTo(g, t, at, n, u, t2)
    PROVE  /\ Grown(A, t, t2, P \cup {u}, at)
           /\ StayAbove(t, t2, P, n.depth + 1)
<1>1. t \in Trees(A) /\ InTree(A, t, n) /\ n \in Nodes(A)
    BY DEF TreeOf, InTree
<1>2. g \in Inserters(A)
    BY DEF Inserts
<1>3. CASE PutsIn(t, n, u, t2)
    <2>1. Grown(A, t, t2, P \cup {u}, at) /\ Stay(t, t2, P)
        BY <1>1, <1>3, PutGrows
    <2> QED BY <2>1 DEF Stay, StayAbove
<1>4. ASSUME NEW k \in Children(n), ContainsNode(k, at[u]), t2 = g[t][k][u]
      PROVE  /\ Grown(A, t, t2, P \cup {u}, at)
             /\ StayAbove(t, t2, P, n.depth + 1)
    <2>1. k \in Nodes(A) /\ k.depth = n.depth + 1 /\ n.depth \in Nat
        BY <1>1, ChildIs DEF Nodes
    <2>2. k.depth + d = MAX_DEPTH
        BY <2>1
    <2>3. InTree(A, t, k)
        BY <1>4, <2>1 DEF InTree
    <2>4. /\ Grown(A, t, g[t][k][u], P \cup {u}, at)
          /\ StayAbove(t, g[t][k][u], P, k.depth)
        BY <1>1, <1>4, <2>1, <2>2, <2>3 DEF Inserts
    <2> QED BY <1>4, <2>1, <2>4
<1>5. u \in Users
    OBVIOUS
<1>6. \/ PutsIn(t, n, u, t2)
      \/ \E k \in Children(n) : ContainsNode(k, at[u]) /\ t2 = g[t][k][u]
    BY <1>1, <1>2, <1>5, SinkIs
<1> QED BY <1>3, <1>4, <1>6

\* c tells what distributing some of the objects of n makes of the tree t0.
Distributes(A, c, g, t0, at, n, old) ==
    /\ c \in [SUBSET old -> Trees(A)]
    /\ c[{}] = t0
    /\ \A s \in SUBSET old :
         s # {} => \E t : /\ TakesOut(c[s \ {Picked(s)}], n, Picked(s), t)
                          /\ SinksTo(g, t, at, n, Picked(s), c[s])

\* t2 is what Subdivide makes of t0, which has old in the list of n.
Distributed(g, t0, at, n, old, t2) ==
    t2 = FoldSet(LAMBDA u, s : Sink(g, TakenOut(s, n, u), at, n, u), t0, old)

LEMMA DistributionIs ==
    ASSUME NEW A, NEW g \in Inserters(A), NEW t0 \in Trees(A), NEW at,
           NEW n \in Nodes(A), NEW old \in SUBSET Users,
           NEW t2, Distributed(g, t0, at, n, old, t2)
    PROVE  \E c : Distributes(A, c, g, t0, at, n, old) /\ t2 = c[old]
<1> DEFINE T == Trees(A)
           Op(x, s) == Sink(g, TakenOut(s, n, x), at, n, x)
           F == [x \in old |-> [s \in T |-> Op(x, s)]]
           Eq(c) == c = [s \in SUBSET old |->
                          IF s = {} THEN t0 ELSE Op(Picked(s), c[s \ {Picked(s)}])]
           it == CHOOSE c : Eq(c)
<1>1. IsFiniteSet(old)
    BY TreeAssumption, FS_Subset
<1>2. \A x \in old, s \in T : Op(x, s) \in T
    <2> SUFFICES ASSUME NEW x \in old, NEW s \in T PROVE Op(x, s) \in T
        OBVIOUS
    <2>1. PICK t, t3 : TakesOut(s, n, x, t) /\ SinksTo(g, t, at, n, x, t3)
        BY DEF TakesOut, SinksTo
    <2>2. t \in T
        BY <2>1, TakenOutIs
    <2>3. t3 \in T
        BY <2>1, <2>2, SinkIs
    <2> QED BY <2>1, <2>3 DEF TakesOut, SinksTo
<1>3. t2 = it[old]
    BY DEF Distributed, FoldSet, MapThenFoldSet, Picked
<1> HIDE DEF Op
<1>4. F \in [old -> [T -> T]]
    BY <1>2
<1>5. PICK c \in [SUBSET old -> T] : FoldsBy(c, old, t0, F)
    <2> HIDE DEF F, T
    <2>1. t0 \in T
        BY DEF T
    <2> QED BY <1>1, <1>4, <2>1, FoldExists
<1>6. \A s \in SUBSET old : s # {} => Picked(s) \in old /\ s \ {Picked(s)} \in SUBSET old
    BY <1>1, Smaller
<1>7. Eq(c)
    <2>1. \A s \in SUBSET old : s # {} =>
            F[Picked(s)][c[s \ {Picked(s)}]] = Op(Picked(s), c[s \ {Picked(s)}])
        BY <1>5, <1>6
    <2> QED BY <1>5, <2>1 DEF FoldsBy
<1>8. Eq(it)
    <2> HIDE DEF Eq
    <2> QED BY <1>7
<1>9. SUBSET old \subseteq {s \in SUBSET old : it[s] = c[s]}
    <2> DEFINE G == {s \in SUBSET old : it[s] = c[s]}
    <2>1. {} \in G
        BY <1>7, <1>8
    <2>2. ASSUME NEW s \in SUBSET old, s # {}, s \ {Picked(s)} \in G PROVE s \in G
        BY <1>7, <1>8, <2>2
    <2> HIDE DEF G, Eq
    <2>3. SUBSET old \subseteq G
        BY <1>1, <2>1, <2>2, PickInduction
    <2> QED BY <2>3 DEF G
<1>10. Distributes(A, c, g, t0, at, n, old)
    <2>1. c[{}] = t0
        BY <1>7
    <2>2. ASSUME NEW s \in SUBSET old, s # {}
          PROVE  \E t : /\ TakesOut(c[s \ {Picked(s)}], n, Picked(s), t)
                        /\ SinksTo(g, t, at, n, Picked(s), c[s])
        <3>1. PICK t : t = TakenOut(c[s \ {Picked(s)}], n, Picked(s))
            OBVIOUS
        <3>2. c[s] = Sink(g, t, at, n, Picked(s))
            BY <1>7, <2>2, <3>1 DEF Op
        <3> QED BY <3>1, <3>2 DEF TakesOut, SinksTo
    <2> QED BY <1>5, <2>1, <2>2 DEF Distributes
<1>11. it[old] = c[old]
    <2> HIDE DEF it
    <2> QED BY <1>9
<1> HIDE DEF it
<1> QED BY <1>3, <1>10, <1>11

LEMMA DistributionGrows ==
    ASSUME NEW A, NEW at, NEW d \in Nat, NEW g, Inserts(A, d, g, at),
           NEW t0, NEW P \in SUBSET Users, TreeOf(A, t0, P, at),
           NEW n \in t0.split, n.depth + (d + 1) = MAX_DEPTH,
           NEW old, old = {v \in P : t0.node[v] = n},
           NEW c, Distributes(A, c, g, t0, at, n, old)
    PROVE  Grown(A, t0, c[old], P, at) /\ StayAbove(t0, c[old], P, n.depth)
<1> DEFINE Fine(s) == /\ Grown(A, t0, c[s], P, at)
                      /\ Stay(t0, c[s], old \ s)
                      /\ StayAbove(t0, c[s], P, n.depth)
           G == {s \in SUBSET old : Fine(s)}
<1>1. n \in Nodes(A) /\ n.depth \in Nat
    BY DEF TreeOf, InTree, Nodes
<1>2. IsFiniteSet(old)
    BY TreeAssumption, FS_Subset
<1>3. {} \in G
    BY DEF Distributes, Grown, Stay, StayAbove
<1>4. ASSUME NEW s \in SUBSET old, s # {}, s \ {Picked(s)} \in G PROVE s \in G
    <2>1. PICK x, c1, t, c2 : /\ x = Picked(s) /\ c1 = c[s \ {x}] /\ c2 = c[s]
                              /\ TakesOut(c1, n, x, t) /\ SinksTo(g, t, at, n, x, c2)
        BY <1>4 DEF Distributes
    <2>2. x \in s /\ x \in P /\ x \in Users /\ x \in old \ (s \ {x})
        BY <1>2, <1>4, <2>1, Smaller
    <2>3. /\ Grown(A, t0, c1, P, at) /\ Stay(t0, c1, old \ (s \ {x}))
          /\ StayAbove(t0, c1, P, n.depth)
        BY <1>4, <2>1
    <2>4. c1.node[x] = n
        BY <2>2, <2>3 DEF Stay
    <2>5. TreeOf(A, c1, P, at) /\ ContainsNode(n, at[x])
        BY <2>2, <2>3, <2>4 DEF Grown, TreeOf, Sits
    <2>6. TakesOut(c1, n, x, t)
        BY <2>1
    <2>7. PICK Q \in SUBSET Users : Q = P \ {x} /\ x \in Users \ Q /\ Q \cup {x} = P
        <3>1. /\ P \ {x} \in SUBSET Users /\ x \in Users \ (P \ {x})
              /\ (P \ {x}) \cup {x} = P
            BY <2>2
        <3> QED BY <3>1
    <2>8. Grown(A, c1, t, Q, at) /\ Stay(c1, t, Q)
        BY <2>2, <2>4, <2>5, <2>6, <2>7, TakenShrinks
    <2>9. n \in t.split
        BY <2>3, <2>8 DEF Grown
    <2>10. TreeOf(A, t, Q, at)
        BY <2>8 DEF Grown
    <2>11. Grown(A, t, c2, Q \cup {x}, at) /\ StayAbove(t, c2, Q, n.depth + 1)
        BY <2>1, <2>5, <2>7, <2>9, <2>10, SinkGrows
    <2>12. Grown(A, t0, c2, P, at)
        BY <2>3, <2>7, <2>8, <2>11 DEF Grown
    <2>13. ASSUME NEW v \in P, v # x, c1.node[v] = t0.node[v], t0.node[v].depth < n.depth + 1
           PROVE  c2.node[v] = t0.node[v]
        <3>1. v \in Q /\ t.node[v] = t0.node[v]
            BY <2>7, <2>8, <2>13 DEF Stay
        <3> QED BY <2>11, <2>13, <3>1 DEF Stay, StayAbove
    <2>14. Stay(t0, c2, old \ s)
        <3> SUFFICES ASSUME NEW v \in old \ s PROVE c2.node[v] = t0.node[v]
            BY DEF Stay
        <3>1. v \in P /\ v # x /\ t0.node[v] = n
            BY <2>2
        <3>2. c1.node[v] = t0.node[v]
            BY <2>3 DEF Stay
        <3>3. t0.node[v].depth < n.depth + 1
            BY <1>1, <3>1
        <3> QED BY <2>13, <3>1, <3>2, <3>3
    <2>15. StayAbove(t0, c2, P, n.depth)
        <3> SUFFICES ASSUME NEW v \in P, t0.node[v].depth < n.depth
                     PROVE  c2.node[v] = t0.node[v]
            BY DEF Stay, StayAbove
        <3>1. t0.node[v] # n /\ v # x
            BY <1>1, <2>2
        <3>2. c1.node[v] = t0.node[v]
            BY <2>3 DEF Stay, StayAbove
        <3>3. t0.node[v] \in Nodes(A) /\ t0.node[v].depth \in Nat
            BY DEF TreeOf, Sits, InTree, Nodes
        <3>4. t0.node[v].depth < n.depth + 1
            BY <1>1, <3>3
        <3> QED BY <2>13, <3>1, <3>2, <3>4
    <2> QED BY <2>1, <2>12, <2>14, <2>15
<1> HIDE DEF G
<1>5. SUBSET old \subseteq G
    BY <1>2, <1>3, <1>4, PickInduction
<1> QED BY <1>5 DEF G

InertsAt(g, t, at, n, u, t2) == t2 = InertAt(g, t, at, n, u)

\* The three ends of an insertion into a node.
LEMMA InertIs ==
    ASSUME NEW A, NEW g \in Inserters(A), NEW t \in Trees(A), NEW at,
           NEW n \in Nodes(A), NEW u \in Users, NEW t2, InertsAt(g, t, at, n, u, t2)
    PROVE  /\ t2 \in Trees(A)
           /\ \/ n \in t.split /\ SinksTo(g, t, at, n, u, t2)
              \/ PutsIn(t, n, u, t2)
              \/ /\ n.depth < MAX_DEPTH
                 /\ \E put, t0, c, old :
                      /\ PutsIn(t, n, u, put) /\ Splits(put, n, t0)
                      /\ old = ListOf(put, n)
                      /\ Distributes(A, c, g, t0, at, n, old) /\ t2 = c[old]
<1>1. CASE n \in t.split
    <2>1. SinksTo(g, t, at, n, u, t2)
        BY <1>1 DEF InertsAt, InertAt, SinksTo
    <2> QED BY <1>1, <2>1, SinkIs
<1>2. CASE n \notin t.split
    <2>1. PICK put : PutsIn(t, n, u, put)
        BY DEF PutsIn
    <2>2. put \in Trees(A)
        BY <2>1, PutIs
    <2>3. \/ t2 = put
          \/ n.depth < MAX_DEPTH /\ t2 = Subdivide(g, put, at, n)
        BY <1>2, <2>1 DEF InertsAt, InertAt, PutsIn
    <2>4. CASE t2 = put
        BY <2>1, <2>2, <2>4
    <2>5. CASE n.depth < MAX_DEPTH /\ t2 = Subdivide(g, put, at, n) /\ t2 # put
        <3>1. PICK t0, old : Splits(put, n, t0) /\ old = ListOf(put, n)
            BY DEF Splits
        <3>2. t0 \in Trees(A)
            BY <2>2, <3>1 DEF Splits, Trees
        <3>3. old \in SUBSET Users
            BY <3>1 DEF ListOf
        <3>4. Distributed(g, t0, at, n, old, t2)
            BY <2>5, <3>1 DEF Subdivide, Splits, Distributed
        <3>5. PICK c : Distributes(A, c, g, t0, at, n, old) /\ t2 = c[old]
            BY <3>2, <3>3, <3>4, DistributionIs
        <3>6. t2 \in Trees(A)
            BY <3>3, <3>5 DEF Distributes
        <3> QED BY <2>1, <2>5, <3>1, <3>5, <3>6
    <2> QED BY <2>3, <2>4, <2>5
<1> QED BY <1>1, <1>2

LEMMA InertGrows ==
    ASSUME NEW A, NEW at, NEW d \in Nat, NEW g, Inserts(A, d, g, at),
           NEW t, NEW P \in SUBSET Users, TreeOf(A, t, P, at),
           NEW n, InTree(A, t, n), n.depth + (d + 1) = MAX_DEPTH,
           NEW u \in Users \ P, ContainsNode(n, at[u]),
           NEW t2, InertsAt(g, t, at, n, u, t2)
    PROVE  /\ Grown(A, t, t2, P \cup {u}, at)
           /\ StayAbove(t, t2, P, n.depth)
<1>1. t \in Trees(A) /\ n \in Nodes(A) /\ g \in Inserters(A) /\ u \in Users
    BY DEF TreeOf, InTree, Inserts
<1>2. n.depth \in Nat
    BY <1>1 DEF Nodes
<1>3. CASE n \in t.split /\ SinksTo(g, t, at, n, u, t2)
    <2>1. Grown(A, t, t2, P \cup {u}, at) /\ StayAbove(t, t2, P, n.depth + 1)
        BY <1>3, SinkGrows
    <2>2. ASSUME NEW v \in P, t.node[v].depth < n.depth PROVE t.node[v].depth < n.depth + 1
        <3>1. t.node[v] \in Nodes(A) /\ t.node[v].depth \in Nat
            BY DEF TreeOf, Sits, InTree, Nodes
        <3> QED BY <1>2, <2>2, <3>1
    <2> QED BY <2>1, <2>2 DEF Stay, StayAbove
<1>4. CASE PutsIn(t, n, u, t2)
    <2>1. Grown(A, t, t2, P \cup {u}, at) /\ Stay(t, t2, P)
        BY <1>4, PutGrows
    <2> QED BY <2>1 DEF Stay, StayAbove
<1>5. ASSUME n.depth < MAX_DEPTH,
             NEW put, NEW t0, NEW c, NEW old,
             PutsIn(t, n, u, put), Splits(put, n, t0), old = ListOf(put, n),
             Distributes(A, c, g, t0, at, n, old), t2 = c[old]
      PROVE  /\ Grown(A, t, t2, P \cup {u}, at)
             /\ StayAbove(t, t2, P, n.depth)
    <2>1. PICK Q \in SUBSET Users : Q = P \cup {u}
        OBVIOUS
    <2>2. Grown(A, t, put, Q, at) /\ Stay(t, put, P)
        BY <1>5, <2>1, PutGrows
    <2>3. TreeOf(A, put, Q, at) /\ InTree(A, put, n)
        BY <2>2, StaysInTree DEF Grown
    <2>4. Grown(A, put, t0, Q, at) /\ Stay(put, t0, Q) /\ n \in t0.split
        BY <1>5, <2>3, SplitGrows
    <2>5. TreeOf(A, t0, Q, at)
        BY <2>4 DEF Grown
    <2>6. old = {v \in Q : put.node[v] = n}
        BY <1>5, <2>3, ListIs
    <2>7. old = {v \in Q : t0.node[v] = n}
        BY <2>4, <2>6 DEF Stay
    <2>8. Grown(A, t0, c[old], Q, at) /\ StayAbove(t0, c[old], Q, n.depth)
        BY <1>5, <2>4, <2>5, <2>7, DistributionGrows
    <2>9. Grown(A, t, t2, Q, at)
        BY <1>5, <2>2, <2>4, <2>8 DEF Grown
    <2>10. StayAbove(t, t2, P, n.depth)
        <3> SUFFICES ASSUME NEW v \in P, t.node[v].depth < n.depth
                     PROVE  t2.node[v] = t.node[v]
            BY DEF Stay, StayAbove
        <3>1. v \in Q /\ t0.node[v] = t.node[v]
            BY <2>1, <2>2, <2>4 DEF Stay
        <3>2. c[old].node[v] = t0.node[v]
            BY <2>8, <3>1 DEF Stay, StayAbove
        <3> QED BY <1>5, <3>1, <3>2
    <2> QED BY <2>1, <2>9, <2>10
<1>6. \/ n \in t.split /\ SinksTo(g, t, at, n, u, t2)
      \/ PutsIn(t, n, u, t2)
      \/ /\ n.depth < MAX_DEPTH
         /\ \E put, t0, c, old :
              /\ PutsIn(t, n, u, put) /\ Splits(put, n, t0)
              /\ old = ListOf(put, n)
              /\ Distributes(A, c, g, t0, at, n, old) /\ t2 = c[old]
    BY <1>1, InertIs
<1> QED BY <1>3, <1>4, <1>5, <1>6

\* The level that has none below it, and the one above that of g.
LastLevel(A, g) ==
    g = [s \in Trees(A) |-> [m \in Nodes(A) |-> [v \in Users |-> Put(s, m, v)]]]
NextLevel(A, g, at, h) ==
    h = [s \in Trees(A) |-> [m \in Nodes(A) |-> [v \in Users |-> InertAt(g, s, at, m, v)]]]

\* The one of the two that QtInert takes d levels up.
Level(A, d, g, at, h) ==
    h = [s \in Trees(A) |-> [m \in Nodes(A) |-> [v \in Users |->
            IF d = 0 THEN Put(s, m, v) ELSE InertAt(g, s, at, m, v)]]]

LEMMA LevelIs ==
    ASSUME NEW A, NEW at, NEW d \in Nat, NEW g, NEW h
    PROVE  /\ d = 0 => (Level(A, d, g, at, h) <=> LastLevel(A, h))
           /\ d # 0 => (Level(A, d, g, at, h) <=> NextLevel(A, g, at, h))
<1> DEFINE Of(s, m, v) == IF d = 0 THEN Put(s, m, v) ELSE InertAt(g, s, at, m, v)
<1>1. CASE d = 0
    BY <1>1 DEF Level, LastLevel
<1>2. CASE d # 0
    <2>1. \A s, m, v : Of(s, m, v) = InertAt(g, s, at, m, v)
        BY <1>2
    <2> HIDE DEF Of
    <2>2. [s \in Trees(A) |-> [m \in Nodes(A) |-> [v \in Users |-> Of(s, m, v)]]]
            = [s \in Trees(A) |-> [m \in Nodes(A) |-> [v \in Users |->
                 InertAt(g, s, at, m, v)]]]
        <3>1. \A s \in Trees(A), m \in Nodes(A) :
                [v \in Users |-> Of(s, m, v)] = [v \in Users |-> InertAt(g, s, at, m, v)]
            BY <2>1
        <3>2. \A s \in Trees(A) :
                [m \in Nodes(A) |-> [v \in Users |-> Of(s, m, v)]]
                  = [m \in Nodes(A) |-> [v \in Users |-> InertAt(g, s, at, m, v)]]
            BY <3>1
        <3> QED BY <3>2
    <2> QED BY <1>2, <2>2 DEF Level, NextLevel, Of
<1> QED BY <1>1, <1>2

LEMMA LastInserts ==
    ASSUME NEW A, NEW at, NEW g, LastLevel(A, g)
    PROVE  Inserts(A, 0, g, at)
<1>1. \A s \in Trees(A), m \in Nodes(A), v \in Users :
        g[s][m][v] \in Trees(A) /\ PutsIn(s, m, v, g[s][m][v])
    <2> SUFFICES ASSUME NEW s \in Trees(A), NEW m \in Nodes(A), NEW v \in Users
                 PROVE  g[s][m][v] \in Trees(A) /\ PutsIn(s, m, v, g[s][m][v])
        OBVIOUS
    <2>1. PICK t2 : t2 = g[s][m][v] /\ PutsIn(s, m, v, t2)
        BY DEF LastLevel, PutsIn
    <2> QED BY <2>1, PutIs
<1>2. g \in Inserters(A)
    <2>1. \A s \in Trees(A) : g[s] \in [Nodes(A) -> [Users -> Trees(A)]]
        <3> SUFFICES ASSUME NEW s \in Trees(A)
                     PROVE  g[s] \in [Nodes(A) -> [Users -> Trees(A)]]
            OBVIOUS
        <3>1. \A m \in Nodes(A) : g[s][m] \in [Users -> Trees(A)]
            BY <1>1 DEF LastLevel
        <3> QED BY <3>1 DEF LastLevel
    <2> QED BY <2>1 DEF LastLevel, Inserters
<1>3. ASSUME NEW t \in Trees(A), NEW n \in Nodes(A), NEW P \in SUBSET Users,
             TreeOf(A, t, P, at), InTree(A, t, n),
             NEW u \in Users \ P, ContainsNode(n, at[u])
      PROVE  /\ Grown(A, t, g[t][n][u], P \cup {u}, at)
             /\ StayAbove(t, g[t][n][u], P, n.depth)
    <2>1. Grown(A, t, g[t][n][u], P \cup {u}, at) /\ Stay(t, g[t][n][u], P)
        BY <1>1, <1>3, PutGrows
    <2> QED BY <2>1 DEF Stay, StayAbove
<1> QED BY <1>2, <1>3 DEF Inserts

LEMMA NextIs ==
    ASSUME NEW A, NEW at, NEW g \in Inserters(A), NEW h, NextLevel(A, g, at, h)
    PROVE  /\ h \in Inserters(A)
           /\ \A s \in Trees(A), m \in Nodes(A), v \in Users :
                InertsAt(g, s, at, m, v, h[s][m][v])
<1>1. \A s \in Trees(A), m \in Nodes(A), v \in Users :
        h[s][m][v] \in Trees(A) /\ InertsAt(g, s, at, m, v, h[s][m][v])
    <2> SUFFICES ASSUME NEW s \in Trees(A), NEW m \in Nodes(A), NEW v \in Users
                 PROVE  h[s][m][v] \in Trees(A) /\ InertsAt(g, s, at, m, v, h[s][m][v])
        OBVIOUS
    <2>1. PICK t2 : t2 = h[s][m][v] /\ InertsAt(g, s, at, m, v, t2)
        BY DEF NextLevel, InertsAt
    <2> QED BY <2>1, InertIs
<1>2. h \in Inserters(A)
    <2>1. \A s \in Trees(A) : h[s] \in [Nodes(A) -> [Users -> Trees(A)]]
        <3> SUFFICES ASSUME NEW s \in Trees(A)
                     PROVE  h[s] \in [Nodes(A) -> [Users -> Trees(A)]]
            OBVIOUS
        <3>1. \A m \in Nodes(A) : h[s][m] \in [Users -> Trees(A)]
            BY <1>1 DEF NextLevel
        <3> QED BY <3>1 DEF NextLevel
    <2> QED BY <2>1 DEF NextLevel, Inserters
<1> QED BY <1>1, <1>2

LEMMA NextInserts ==
    ASSUME NEW A, NEW at, NEW d \in Nat, NEW g, Inserts(A, d, g, at),
           NEW h, NextLevel(A, g, at, h)
    PROVE  Inserts(A, d + 1, h, at)
<1>1. /\ h \in Inserters(A)
      /\ \A s \in Trees(A), m \in Nodes(A), v \in Users :
           InertsAt(g, s, at, m, v, h[s][m][v])
    <2>1. g \in Inserters(A)
        BY DEF Inserts
    <2> QED BY <2>1, NextIs
<1>2. ASSUME NEW t \in Trees(A), NEW n \in Nodes(A), NEW P \in SUBSET Users,
             TreeOf(A, t, P, at), InTree(A, t, n), n.depth + (d + 1) = MAX_DEPTH,
             NEW u \in Users \ P, ContainsNode(n, at[u])
      PROVE  /\ Grown(A, t, h[t][n][u], P \cup {u}, at)
             /\ StayAbove(t, h[t][n][u], P, n.depth)
    <2>1. PICK t2 : t2 = h[t][n][u] /\ InertsAt(g, t, at, n, u, t2)
        BY <1>1
    <2>2. Grown(A, t, t2, P \cup {u}, at) /\ StayAbove(t, t2, P, n.depth)
        BY <1>2, <2>1, InertGrows
    <2> QED BY <2>1, <2>2
<1> QED BY <1>1, <1>2 DEF Inserts

QtInertsTo(t, at, n, u, t2) == t2 = QtInert(t, at, n, u)

\* Inserting a user that is not in the tree and whose position is in the map
\* leaves a tree of the players there were and of that user.
LEMMA QtInertGrows ==
    ASSUME NEW A \in Spaces, NEW at, NEW t, NEW P \in SUBSET Users, TreeOf(A, t, P, at),
           NEW u \in Users \ P, ContainsNode(Root(A), at[u]),
           NEW t2, QtInertsTo(t, at, Root(A), u, t2)
    PROVE  TreeOf(A, t2, P \cup {u}, at)
<1> DEFINE Eq(f) ==
             f = [d \in Nat |->
                   [s \in Trees(A) |-> [m \in Nodes(A) |-> [v \in Users |->
                       IF d = 0 THEN Put(s, m, v) ELSE InertAt(f[d - 1], s, at, m, v)]]]]
           it == CHOOSE f : Eq(f)
<1>1. /\ Root(A) \in Nodes(A) /\ AxesOf(Root(A)) = A /\ Root(A).depth = 0
      /\ MAX_DEPTH \in Nat /\ t \in Trees(A) /\ InTree(A, t, Root(A))
    BY RootIs, TreeAssumption DEF TreeOf, InTree
<1>2. t2 = it[MAX_DEPTH][t][Root(A)][u]
    BY <1>1 DEF QtInertsTo, QtInert
<1>3. \E f : Eq(f)
    <2>1. PICK last : LastLevel(A, last)
        BY DEF LastLevel
    <2>2. last \in Inserters(A)
        BY <2>1, LastInserts DEF Inserts
    <2>3. PICK next : next = [g \in Inserters(A) |->
                        [s \in Trees(A) |-> [m \in Nodes(A) |-> [v \in Users |->
                            InertAt(g, s, at, m, v)]]]]
        OBVIOUS
    <2>4. \A g \in Inserters(A) : NextLevel(A, g, at, next[g])
        BY <2>3 DEF NextLevel
    <2>5. \A g \in Inserters(A) : next[g] \in Inserters(A)
        BY <2>4, NextIs
    <2>6. next \in [Inserters(A) -> Inserters(A)]
        BY <2>3, <2>5
    <2>7. PICK f \in [Nat -> Inserters(A)] : LevelsOf(f, last, next)
        BY <2>2, <2>6, LevelsExist
    <2>8. ASSUME NEW d \in Nat PROVE Level(A, d, f[d - 1], at, f[d])
        <3>1. CASE d = 0
            <4>1. f[d] = last
                BY <2>7, <3>1 DEF LevelsOf
            <4> QED BY <2>1, <3>1, <4>1, LevelIs
        <3>2. CASE d # 0
            <4>1. d - 1 \in Nat
                BY <3>2
            <4>2. f[d] = next[f[d - 1]] /\ f[d - 1] \in Inserters(A)
                BY <2>7, <3>2, <4>1 DEF LevelsOf
            <4>3. NextLevel(A, f[d - 1], at, f[d])
                BY <2>4, <4>2
            <4> QED BY <3>2, <4>3, LevelIs
        <3> QED BY <3>1, <3>2
    <2>9. Eq(f)
        BY <2>7, <2>8 DEF Level
    <2> HIDE DEF Eq
    <2> QED BY <2>9
<1>4. Eq(it)
    <2> HIDE DEF Eq
    <2> QED BY <1>3
<1>5. PICK f : f = it /\ Eq(f)
    <2> HIDE DEF Eq, it
    <2> QED BY <1>4
<1> HIDE DEF it
<1>0. ASSUME NEW d \in Nat PROVE Level(A, d, f[d - 1], at, f[d])
    BY <1>5 DEF Level
<1> HIDE DEF Eq
<1>6. LastLevel(A, f[0])
    BY <1>0, LevelIs
<1>7. ASSUME NEW d \in Nat PROVE NextLevel(A, f[d], at, f[d + 1])
    <2>1. d + 1 \in Nat /\ d + 1 # 0 /\ (d + 1) - 1 = d
        OBVIOUS
    <2> QED BY <1>0, <2>1, LevelIs
<1> DEFINE S == {d \in Nat : Inserts(A, d, f[d], at)}
<1>8. 0 \in S
    BY <1>6, LastInserts
<1>9. ASSUME NEW d \in Nat, d \in S PROVE d + 1 \in S
    BY <1>7, <1>9, NextInserts
<1> HIDE DEF S
<1>10. Nat \subseteq S
    BY <1>8, <1>9, SetInduction
<1>11. Inserts(A, MAX_DEPTH, f[MAX_DEPTH], at)
    BY <1>1, <1>10 DEF S
<1>12. Grown(A, t, f[MAX_DEPTH][t][Root(A)][u], P \cup {u}, at)
    BY <1>1, <1>11 DEF Inserts
<1> QED BY <1>2, <1>5, <1>12 DEF Grown

-----------------------------------------------------------------------------
(* Queries *)

\* What a query finds in a node when g is what it finds one level down.
Seek(t, at, low, size, g, d, m) ==
    IF ~Intersect(m, low, size) THEN {}
    ELSE FoundIn(t, at, m, low, size)
           \cup (IF d > 0 /\ m \in t.split THEN UNION {g[k] : k \in Children(m)} ELSE {})

Seeks(A, f, t, at, low, size) ==
    f = [d \in Nat |-> [m \in Nodes(A) |-> Seek(t, at, low, size, f[d - 1], d, m)]]

LEMMA SeekSettles ==
    ASSUME NEW A, NEW t, NEW at, NEW low, NEW size
    PROVE  \E f : Seeks(A, f, t, at, low, size)
<1> DEFINE D == [Nodes(A) -> SUBSET Users]
           Of(g, d, m) == Seek(t, at, low, size, g, d, m)
<1>1. \A g \in D, d \in Nat, m \in Nodes(A) : Of(g, d, m) \in SUBSET Users
    <2> SUFFICES ASSUME NEW g \in D, NEW d \in Nat, NEW m \in Nodes(A)
                 PROVE  Of(g, d, m) \in SUBSET Users
        OBVIOUS
    <2>1. FoundIn(t, at, m, low, size) \in SUBSET Users
        BY DEF FoundIn, ListOf
    <2>2. \A k \in Children(m) : g[k] \in SUBSET Users
        BY ChildIs
    <2>3. UNION {g[k] : k \in Children(m)} \in SUBSET Users
        BY <2>2
    <2> QED BY <2>1, <2>3 DEF Seek
<1>2. \A g, h, m : Of(g, 0, m) = Of(h, 0, m)
    BY DEF Seek
<1>3. \A g, m : \A d \in Nat : d # 0 => Of(g, d, m) = Of(g, 1, m)
    BY DEF Seek
<1> HIDE DEF Of
<1>4. PICK none \in D : TRUE
    <2>1. [m \in Nodes(A) |-> {}] \in D
        OBVIOUS
    <2> QED BY <2>1
<1>5. PICK last \in D : last = [m \in Nodes(A) |-> Of(none, 0, m)]
    <2>1. [m \in Nodes(A) |-> Of(none, 0, m)] \in D
        BY <1>1
    <2> QED BY <2>1
<1>6. PICK next \in [D -> D] : next = [g \in D |-> [m \in Nodes(A) |-> Of(g, 1, m)]]
    <2>1. \A g \in D : [m \in Nodes(A) |-> Of(g, 1, m)] \in D
        BY <1>1
    <2> QED BY <2>1
<1>7. PICK f \in [Nat -> D] : LevelsOf(f, last, next)
    <2> HIDE DEF D
    <2> QED BY <1>5, <1>6, LevelsExist
<1>8. ASSUME NEW d \in Nat PROVE f[d] = [m \in Nodes(A) |-> Of(f[d - 1], d, m)]
    <2>1. CASE d = 0
        <3>1. f[d] = last
            BY <1>7, <2>1 DEF LevelsOf
        <3> QED BY <1>2, <1>5, <2>1, <3>1
    <2>2. CASE d # 0
        <3>1. d - 1 \in Nat
            BY <2>2
        <3>2. f[d] = next[f[d - 1]] /\ f[d - 1] \in D
            BY <1>7, <2>2, <3>1 DEF LevelsOf
        <3>3. f[d] = [m \in Nodes(A) |-> Of(f[d - 1], 1, m)]
            BY <1>6, <3>2
        <3> QED BY <1>3, <2>2, <3>3
    <2> QED BY <2>1, <2>2
<1>9. Seeks(A, f, t, at, low, size)
    BY <1>7, <1>8 DEF Seeks, Of
<1> QED BY <1>9

LEMMA SeekIs ==
    ASSUME NEW A, NEW t, NEW at, NEW low, NEW size, NEW f, Seeks(A, f, t, at, low, size),
           NEW d \in Nat, NEW m \in Nodes(A)
    PROVE  /\ ~Intersect(m, low, size) => f[d][m] = {}
           /\ Intersect(m, low, size) =>
                /\ FoundIn(t, at, m, low, size) \subseteq f[d][m]
                /\ d > 0 /\ m \in t.split => \A k \in Children(m) : f[d - 1][k] \subseteq f[d][m]
                /\ \A v \in f[d][m] :
                     \/ v \in FoundIn(t, at, m, low, size)
                     \/ d > 0 /\ \E k \in Children(m) : v \in f[d - 1][k]
<1>1. f[d][m] = Seek(t, at, low, size, f[d - 1], d, m)
    BY DEF Seeks
<1> QED BY <1>1 DEF Seek

\* Whoever is in a node and in a range is where the two meet, and in the parent.
LEMMA NodesMeetRanges ==
    ASSUME NEW A, NEW n \in Nodes(A), NEW p \in [A -> Int],
           NEW low \in [A -> Int], NEW size \in Int, ContainsNode(n, p)
    PROVE  /\ Within(p, low, size) => Intersect(n, low, size)
           /\ \A m \in Nodes(A) : n \in Children(m) => ContainsNode(m, p)
<1>1. n.low \in [A -> Nat] /\ n.size \in Nat /\ AxesOf(n) = A /\ DOMAIN low = A
    BY DEF Nodes, AxesOf
<1>2. ASSUME Within(p, low, size) PROVE Intersect(n, low, size)
    <2> SUFFICES ASSUME NEW a \in A
                 PROVE  low[a] <= n.low[a] + n.size /\ n.low[a] <= low[a] + size
        BY <1>1 DEF Intersect
    <2>1. p[a] >= n.low[a] /\ p[a] < n.low[a] + n.size
        BY <1>1 DEF ContainsNode
    <2>2. p[a] >= low[a] /\ p[a] < low[a] + size
        BY <1>1, <1>2 DEF Within
    <2>3. p[a] \in Int /\ low[a] \in Int /\ n.low[a] \in Int /\ n.size \in Int
        BY <1>1
    <2> QED BY <2>1, <2>2, <2>3
<1>3. ASSUME NEW m \in Nodes(A), n \in Children(m) PROVE ContainsNode(m, p)
    <2>1. m.low \in [A -> Nat] /\ m.size \in Nat /\ AxesOf(m) = A
        BY DEF Nodes, AxesOf
    <2>2. \A a \in A : m.low[a] <= n.low[a] /\ n.low[a] + n.size <= m.low[a] + m.size
        BY <1>3, ChildIs
    <2> SUFFICES ASSUME NEW a \in A PROVE p[a] >= m.low[a] /\ p[a] < m.low[a] + m.size
        BY <2>1 DEF ContainsNode
    <2>3. p[a] >= n.low[a] /\ p[a] < n.low[a] + n.size
        BY <1>1 DEF ContainsNode
    <2>4. p[a] \in Int /\ m.low[a] \in Int /\ n.low[a] \in Int /\ n.size \in Int /\ m.size \in Int
        BY <1>1, <2>1
    <2> QED BY <2>2, <2>3, <2>4
<1> QED BY <1>2, <1>3

LEMMA DepthsInTree ==
    ASSUME NEW A \in Spaces, NEW t, NEW P, NEW at, TreeOf(A, t, P, at), NEW n, InTree(A, t, n)
    PROVE  /\ n \in Nodes(A) /\ n.depth \in Nat /\ n.depth <= MAX_DEPTH
           /\ n # Root(A) => \E m \in t.split : n \in Children(m) /\ m \in Nodes(A)
                                               /\ n.depth = m.depth + 1 /\ m.depth < MAX_DEPTH
           /\ n = Root(A) <=> n.depth = 0
<1>1. n \in Nodes(A) /\ n.depth \in Nat /\ MAX_DEPTH \in Nat
    BY TreeAssumption DEF InTree, Nodes
<1>2. ASSUME n # Root(A)
      PROVE  \E m \in t.split : n \in Children(m) /\ m \in Nodes(A)
                                /\ n.depth = m.depth + 1 /\ m.depth < MAX_DEPTH
    <2>1. PICK m \in t.split : n \in Children(m)
        BY <1>2 DEF InTree
    <2>2. m \in Nodes(A) /\ m.depth < MAX_DEPTH
        BY DEF TreeOf, InTree
    <2>3. n.depth = m.depth + 1
        BY <2>1, <2>2, ChildIs
    <2> QED BY <2>1, <2>2, <2>3
<1>3. Root(A).depth = 0
    BY RootIs
<1>4. \A m \in Nodes(A) : m.depth \in Nat
    BY DEF Nodes
<1> QED BY <1>1, <1>2, <1>3, <1>4

QueriesTo(t, at, n, low, size, r) == r = QtQuery(t, at, n, low, size)

\* A query of the whole tree finds the players whose positions are in the range.
LEMMA QueryFinds ==
    ASSUME NEW A \in Spaces, NEW P \in SUBSET Users, NEW at \in [P -> [A -> Int]],
           NEW t, TreeOf(A, t, P, at), NEW low \in [A -> Int], NEW size \in Int,
           NEW r, QueriesTo(t, at, Root(A), low, size, r)
    PROVE  r = {v \in P : Within(at[v], low, size)}
<1> DEFINE it == CHOOSE f : Seeks(A, f, t, at, low, size)
           around == {v \in P : Within(at[v], low, size)}
<1>1. /\ Root(A) \in Nodes(A) /\ AxesOf(Root(A)) = A /\ Root(A).depth = 0
      /\ MAX_DEPTH \in Nat /\ InTree(A, t, Root(A))
    BY RootIs, TreeAssumption DEF InTree
<1>2. r = it[MAX_DEPTH][Root(A)]
    BY <1>1 DEF QueriesTo, QtQuery, Seeks, Seek
<1>3. PICK f : f = it /\ Seeks(A, f, t, at, low, size)
    BY SeekSettles
<1> HIDE DEF it
<1>4. \A n : FoundIn(t, at, n, low, size) = {v \in around : t.node[v] = n}
    BY ListIs DEF FoundIn
<1>5. \A v \in P : at[v] \in [A -> Int]
    OBVIOUS
<1>6. r \subseteq around
    <2> DEFINE S == {d \in Nat : \A m \in Nodes(A) : f[d][m] \subseteq around}
    <2>1. 0 \in S
        <3> SUFFICES ASSUME NEW m \in Nodes(A), NEW v \in f[0][m] PROVE v \in around
            OBVIOUS
        <3>1. v \in FoundIn(t, at, m, low, size)
            BY <1>3, SeekIs
        <3> QED BY <1>4, <3>1
    <2>2. ASSUME NEW d \in Nat, d \in S PROVE d + 1 \in S
        <3> SUFFICES ASSUME NEW m \in Nodes(A), NEW v \in f[d + 1][m] PROVE v \in around
            OBVIOUS
        <3>1. d + 1 \in Nat /\ (d + 1) - 1 = d
            OBVIOUS
        <3>2. \/ v \in FoundIn(t, at, m, low, size)
              \/ \E k \in Children(m) : v \in f[d][k]
            BY <1>3, <3>1, SeekIs
        <3>3. ASSUME NEW k \in Children(m), v \in f[d][k] PROVE v \in around
            <4>1. k \in Nodes(A)
                BY ChildIs
            <4> QED BY <2>2, <3>3, <4>1
        <3> QED BY <1>4, <3>2, <3>3
    <2> HIDE DEF S
    <2>3. MAX_DEPTH \in S
        BY <1>1, <2>1, <2>2, SetInduction
    <2> QED BY <1>1, <1>2, <1>3, <2>3 DEF S
<1>7. ASSUME NEW v \in around PROVE v \in r
    <2> DEFINE S == {j \in Nat : \A n :
                       /\ InTree(A, t, n) /\ n.depth = j
                       /\ ContainsNode(n, at[v]) /\ v \in f[MAX_DEPTH - j][n]
                       => v \in f[MAX_DEPTH][Root(A)]}
    <2>1. 0 \in S
        <3> SUFFICES ASSUME NEW n, InTree(A, t, n), n.depth = 0, v \in f[MAX_DEPTH - 0][n]
                     PROVE  v \in f[MAX_DEPTH][Root(A)]
            OBVIOUS
        <3>1. n = Root(A)
            BY DepthsInTree
        <3>2. MAX_DEPTH - 0 = MAX_DEPTH
            BY <1>1
        <3> QED BY <3>1, <3>2
    <2>2. ASSUME NEW j \in Nat, j \in S PROVE j + 1 \in S
        <3> SUFFICES ASSUME NEW n, InTree(A, t, n), n.depth = j + 1,
                            ContainsNode(n, at[v]), v \in f[MAX_DEPTH - (j + 1)][n]
                     PROVE  v \in f[MAX_DEPTH][Root(A)]
            OBVIOUS
        <3>1. n \in Nodes(A) /\ n # Root(A)
            BY DepthsInTree
        <3>2. PICK m \in t.split : /\ n \in Children(m) /\ m \in Nodes(A)
                                   /\ n.depth = m.depth + 1 /\ m.depth < MAX_DEPTH
            BY <3>1, DepthsInTree
        <3>3. m.depth = j
            BY <3>2 DEF Nodes
        <3>4. ContainsNode(m, at[v])
            BY <1>5, <3>1, <3>2, NodesMeetRanges
        <3>5. Intersect(m, low, size)
            BY <1>5, <3>2, <3>4, NodesMeetRanges
        <3>6. PICK d \in Nat : /\ d = MAX_DEPTH - j /\ d > 0
                               /\ d - 1 = MAX_DEPTH - (j + 1)
            <4>1. MAX_DEPTH - j \in Nat /\ MAX_DEPTH - j > 0
                BY <1>1, <3>2, <3>3
            <4> QED BY <1>1, <4>1
        <3>7. v \in f[d][m]
            <4>1. v \in f[d - 1][n]
                BY <3>6
            <4> QED BY <1>3, <3>2, <3>5, <3>6, <4>1, SeekIs
        <3>8. InTree(A, t, m)
            BY DEF TreeOf
        <3> QED BY <2>2, <3>3, <3>4, <3>6, <3>7, <3>8
    <2>3. PICK n : n = t.node[v] /\ InTree(A, t, n) /\ ContainsNode(n, at[v])
        BY DEF TreeOf, Sits
    <2>4. n \in Nodes(A) /\ n.depth \in Nat /\ n.depth <= MAX_DEPTH
        BY <2>3, DepthsInTree
    <2>5. Intersect(n, low, size)
        BY <1>5, <2>3, <2>4, NodesMeetRanges
    <2>6. v \in FoundIn(t, at, n, low, size)
        BY <1>4, <2>3
    <2>7. MAX_DEPTH - n.depth \in Nat
        BY <1>1, <2>4
    <2>8. v \in f[MAX_DEPTH - n.depth][n]
        BY <1>3, <2>4, <2>5, <2>6, <2>7, SeekIs
    <2> HIDE DEF S
    <2>9. n.depth \in S
        BY <2>1, <2>2, <2>4, SetInduction
    <2>10. v \in f[MAX_DEPTH][Root(A)]
        BY <2>3, <2>8, <2>9 DEF S
    <2> QED BY <1>2, <1>3, <2>10
<1> QED BY <1>6, <1>7

-----------------------------------------------------------------------------
(* Physics *)

LEMMA PartExists ==
    ASSUME NEW n \in Nat, NEW m \in Nat \ {0}
    PROVE  \E k \in 0..n : m * k * k <= n * n /\ m * (k + 1) * (k + 1) > n * n
<1> DEFINE S == {k \in Nat : m * (k + 1) * (k + 1) > n * n}
<1>1. n \in S
    <2>1. PICK j \in Nat : m = j + 1
        <3>1. m - 1 \in Nat /\ m = (m - 1) + 1
            OBVIOUS
        <3> QED BY <3>1
    <2>2. PICK x \in Nat : x = (n + 1) * (n + 1)
        OBVIOUS
    <2>3. x > n * n
        BY <2>2
    <2>4. j * x \in Nat
        OBVIOUS
    <2>5. m * (n + 1) * (n + 1) = j * x + x
        BY <2>1, <2>2
    <2>6. n * n \in Nat
        OBVIOUS
    <2>7. j * x + x > n * n
        BY <2>3, <2>4, <2>6
    <2> QED BY <2>5, <2>7
<1>2. PICK k \in S : \A i \in S : k <= i
    BY <1>1, LeastNat
<1>3. k \in 0..n
    BY <1>1, <1>2
<1>4. m * k * k <= n * n
    <2>1. CASE k = 0
        <3>1. m * k * k = 0 /\ n * n \in Nat
            BY <2>1
        <3> QED BY <3>1
    <2>2. CASE k # 0
        <3>1. k - 1 \in Nat /\ (k - 1) + 1 = k /\ ~(k <= k - 1)
            BY <2>2
        <3>2. k - 1 \notin S
            BY <1>2, <3>1
        <3>3. ~(m * k * k > n * n)
            BY <3>1, <3>2
        <3>4. m * k * k \in Int /\ n * n \in Int
            OBVIOUS
        <3> QED BY <3>3, <3>4
    <2> QED BY <2>1, <2>2
<1> QED BY <1>2, <1>3, <1>4

LEMMA FlooredIsInt ==
    ASSUME NEW A \in Spaces, NEW n \in Nat, NEW dir \in Directions(A), NEW a \in A
    PROVE  Floored(n, dir, a) \in Int
<1> DEFINE signs == {b \in DOMAIN dir : dir[b] # 0}
           m == Cardinality(signs)
           part == CHOOSE k \in 0..n : m * k * k <= n * n /\ m * (k + 1) * (k + 1) > n * n
<1>1. DOMAIN dir = A /\ dir[a] \in {-1, 0, 1}
    BY DEF Directions
<1>2. CASE dir[a] = 0
    BY <1>2 DEF Floored
<1>3. CASE dir[a] # 0
    <2>1. IsFiniteSet(signs) /\ a \in signs
        <3>1. IsFiniteSet(A) /\ signs \in SUBSET A
            BY <1>1, TickAssumption
        <3> QED BY <1>1, <1>3, <3>1, FS_Subset
    <2>2. m \in Nat /\ m # 0
        <3> HIDE DEF signs
        <3> QED BY <2>1, FS_CardinalityType, FS_EmptySet
    <2>3. Floored(n, dir, a) \in {part, -part, -part - 1}
        <3>1. CASE dir[a] = 1
            BY <3>1 DEF Floored
        <3>2. CASE dir[a] = -1
            BY <3>2 DEF Floored
        <3> QED BY <1>1, <1>3, <3>1, <3>2
    <2> HIDE DEF m
    <2>4. part \in 0..n
        BY <2>2, PartExists
    <2> HIDE DEF part
    <2> QED BY <2>3, <2>4
<1> QED BY <1>2, <1>3

Inside(A, p) == p \in [A -> Int] /\ \A a \in A : p[a] >= 0 /\ p[a] < Size

MovesTo(b, b2) == b2 = Moved(b)

\* Wherever a player moves, it stays inside the map.
LEMMA MovedIs ==
    ASSUME NEW A \in Spaces, NEW b \in Bodies(A), NEW b2, MovesTo(b, b2)
    PROVE  b2 \in Bodies(A) /\ Inside(A, b2.pos)
<1>1. /\ b.pos \in [A -> Int] /\ b.v \in [A -> Int] /\ b.dir \in Directions(A)
      /\ DOMAIN b.pos = A /\ DOMAIN b.v = A /\ DOMAIN b.dir = A
    BY DEF Bodies, Directions
<1>2. PICK v : v = [a \in A |-> NewVelocity(b, a)]
    OBVIOUS
<1>3. \A a \in A : NewVelocity(b, a) \in Int
    <2> SUFFICES ASSUME NEW a \in A PROVE NewVelocity(b, a) \in Int
        OBVIOUS
    <2>1. MAX_SPEED[A] \in Nat /\ ACCEL * DT_MS \in Nat
        BY TickAssumption DEF ACCEL, DT_MS
    <2>2. /\ Floored(MAX_SPEED[DOMAIN b.dir], b.dir, a) \in Int
          /\ Floored(ACCEL * DT_MS, b.dir, a) \in Int
        BY <1>1, <2>1, FlooredIsInt
    <2>3. b.v[a] \in Int
        BY <1>1
    <2>4. \A x \in Int : Abs(x) \in Int /\ Sign(x) \in Int
        BY DEF Abs, Sign
    <2> QED BY <2>2, <2>3, <2>4 DEF NewVelocity
<1>4. v \in [A -> Int]
    BY <1>2, <1>3
<1>5. PICK pos : pos = [a \in A |-> Clamp(b.pos[a] + (v[a] * DT_MS) \div SPEED_RATIO)]
    OBVIOUS
<1>6. Inside(A, pos)
    <2>1. ASSUME NEW a \in A PROVE pos[a] \in Int /\ pos[a] >= 0 /\ pos[a] < Size
        <3>1. PICK x \in Int : x = b.pos[a] + (v[a] * DT_MS) \div SPEED_RATIO
            <4>1. v[a] * DT_MS \in Int /\ b.pos[a] \in Int
                BY <1>1, <1>4 DEF DT_MS
            <4>2. (v[a] * DT_MS) \div SPEED_RATIO \in Int
                BY <4>1 DEF SPEED_RATIO
            <4> QED BY <4>1, <4>2
        <3>2. pos[a] = Clamp(x)
            BY <1>5, <3>1
        <3>3. Size \in Nat /\ BODY_RADIUS \in Nat \ {0} /\ Size > 2 * BODY_RADIUS
            BY TreeAssumption, TickAssumption
        <3> QED BY <3>2, <3>3 DEF Clamp
    <2> QED BY <1>5, <2>1 DEF Inside
<1>7. b2 = [b EXCEPT !.v = v, !.pos = pos]
    BY <1>1, <1>2, <1>5 DEF MovesTo, Moved
<1> QED BY <1>1, <1>4, <1>6, <1>7 DEF Bodies, Inside

-----------------------------------------------------------------------------
(* A map and its tree *)

PosOf(P, b) == [v \in P |-> b[v].pos]

\* P are the players of a map of the axes A, they are inside it, and the tree
\* is one of them.
World(A, P, b, t) ==
    /\ b \in [Users -> Bodies(A) \cup {None}]
    /\ P = {u \in Users : b[u] # None}
    /\ \A u \in P : Inside(A, b[u].pos)
    /\ TreeOf(A, t, P, PosOf(P, b))

LEMMA BodiesOf ==
    ASSUME NEW A, NEW P, NEW b, NEW t, World(A, P, b, t)
    PROVE  /\ P \in SUBSET Users /\ b \in [Users -> Bodies(A) \cup {None}]
           /\ \A u \in P : b[u] \in Bodies(A)
           /\ \A u \in Users \ P : b[u] = None
BY DEF World

\* A tree is one of its players wherever all the others are.
LEMMA TreeOfOthers ==
    ASSUME NEW A, NEW t, NEW P, NEW at, TreeOf(A, t, P, at),
           NEW at2, \A u \in P : at2[u] = at[u]
    PROVE  TreeOf(A, t, P, at2)
BY DEF TreeOf, Sits

\* Taking a player out of the tree, as both an exit and a move do.
LEMMA TakenFromWorld ==
    ASSUME NEW A \in Spaces, NEW P, NEW b, NEW t, World(A, P, b, t), NEW u \in P,
           NEW t2, t2 = IF t.node[u] # None THEN RemoveItemFromList(t, u) ELSE t
    PROVE  TreeOf(A, t2, P \ {u}, PosOf(P, b))
<1>1. P \in SUBSET Users /\ TreeOf(A, t, P, PosOf(P, b))
    BY DEF World
<1>2. PICK n : n = t.node[u] /\ n \in Nodes(A)
    BY <1>1 DEF TreeOf, Sits, InTree
<1>3. n # None
    BY <1>2, TreeAssumption
<1>4. TakesOut(t, n, u, t2)
    BY <1>2, <1>3 DEF TakesOut, RemoveItemFromList
<1>5. PICK Q : Q = P \ {u}
    OBVIOUS
<1>6. Grown(A, t, t2, Q, PosOf(P, b))
    BY <1>1, <1>2, <1>4, <1>5, TakenShrinks
<1> QED BY <1>5, <1>6 DEF Grown

LEMMA InsideRoot ==
    ASSUME NEW A \in Spaces, NEW p, Inside(A, p)
    PROVE  ContainsNode(Root(A), p)
<1>1. AxesOf(Root(A)) = A /\ Root(A).size = Size /\ \A a \in A : Root(A).low[a] = 0
    BY RootIs
<1>2. Size \in Nat
    BY TreeAssumption
<1> QED BY <1>1, <1>2 DEF ContainsNode, Inside

Worlds(A, P) ==
    {w \in [body : [Users -> Bodies(A) \cup {None}], tree : Trees(A)] :
        World(A, P, w.body, w.tree)}

LEMMA MoveKeepsWorld ==
    ASSUME axes \in Spaces, NEW w \in Worlds(axes, Present), NEW u \in Present
    PROVE  PlayerPhysicsMove(w, u) \in Worlds(axes, Present)
<1>1. PICK A, P : A = axes /\ P = Present /\ A \in Spaces /\ u \in P /\ w \in Worlds(A, P)
    OBVIOUS
<1>2. World(A, P, w.body, w.tree)
    BY <1>1 DEF Worlds
<1>3. PICK b : b = [w.body EXCEPT ![u] = Moved(@)]
    OBVIOUS
<1>4. PICK out : out = IF w.tree.node[u] # None THEN RemoveItemFromList(w.tree, u) ELSE w.tree
    OBVIOUS
<1>5. PICK t2 : QtInertsTo(out, PosOf(P, b), Root(A), u, t2)
    BY DEF QtInertsTo
<1>6. PlayerPhysicsMove(w, u) = [body |-> b, tree |-> t2]
    BY <1>1, <1>3, <1>4, <1>5 DEF PlayerPhysicsMove, QtInertsTo, PosOf
<1>7. /\ P \in SUBSET Users /\ u \in Users /\ w.body \in [Users -> Bodies(A) \cup {None}]
      /\ \A v \in P : w.body[v] \in Bodies(A)
      /\ \A v \in Users \ P : w.body[v] = None
    BY <1>1, <1>2, BodiesOf
<1>8. PICK m : m = Moved(w.body[u]) /\ m \in Bodies(A) /\ Inside(A, m.pos)
    <2>1. MovesTo(w.body[u], Moved(w.body[u]))
        BY DEF MovesTo
    <2> QED BY <1>1, <1>7, <2>1, MovedIs
<1>9. /\ b \in [Users -> Bodies(A) \cup {None}] /\ b[u] = m
      /\ \A v \in Users : v # u => b[v] = w.body[v]
    BY <1>3, <1>7, <1>8
<1>10. P = {v \in Users : b[v] # None}
    <2>1. None \notin Bodies(A)
        BY <1>1, TickAssumption
    <2>2. m # None /\ \A v \in P : w.body[v] # None
        BY <1>7, <1>8, <2>1
    <2> QED BY <1>1, <1>7, <1>9, <2>2
<1>11. \A v \in P : Inside(A, b[v].pos)
    BY <1>2, <1>7, <1>8, <1>9 DEF World
<1>12. TreeOf(A, out, P \ {u}, PosOf(P, w.body))
    BY <1>1, <1>2, <1>4, TakenFromWorld
<1>13. PICK Q \in SUBSET Users : Q = P \ {u} /\ u \in Users \ Q /\ P = Q \cup {u}
    <2>1. P \ {u} \in SUBSET Users /\ u \in Users \ (P \ {u}) /\ P = (P \ {u}) \cup {u}
        BY <1>1, <1>7
    <2> QED BY <2>1
<1>14. \A v \in Q : PosOf(P, b)[v] = PosOf(P, w.body)[v]
    BY <1>7, <1>9, <1>13 DEF PosOf
<1>15. TreeOf(A, out, Q, PosOf(P, b))
    BY <1>12, <1>13, <1>14, TreeOfOthers
<1>16. ContainsNode(Root(A), PosOf(P, b)[u])
    BY <1>1, <1>11, InsideRoot DEF PosOf
<1>17. TreeOf(A, t2, Q \cup {u}, PosOf(P, b))
    BY <1>1, <1>5, <1>13, <1>15, <1>16, QtInertGrows
<1>18. World(A, P, b, t2)
    BY <1>9, <1>10, <1>11, <1>13, <1>17 DEF World
<1>19. t2 \in Trees(A)
    BY <1>17 DEF TreeOf
<1> QED BY <1>1, <1>6, <1>9, <1>18, <1>19 DEF Worlds

LEMMA StepKeepsWorld ==
    ASSUME axes \in Spaces, Present \in SUBSET Users, NEW w \in Worlds(axes, Present)
    PROVE  FixedUpdate(w) \in Worlds(axes, Present)
<1> DEFINE S == Present
           T == Worlds(axes, Present)
           Op(u, x) == PlayerPhysicsMove(x, u)
           F == [u \in S |-> [x \in T |-> Op(u, x)]]
           Eq(c) == c = [s \in SUBSET S |->
                          IF s = {} THEN w ELSE Op(Picked(s), c[s \ {Picked(s)}])]
           it == CHOOSE c : Eq(c)
<1>1. IsFiniteSet(S)
    BY TreeAssumption, FS_Subset
<1>2. FixedUpdate(w) = it[S]
    BY DEF FixedUpdate, FoldSet, MapThenFoldSet, Picked
<1>3. \A u \in S, x \in T : Op(u, x) \in T
    BY MoveKeepsWorld
<1>4. w \in T
    OBVIOUS
<1> HIDE DEF S, T, Op
<1>5. F \in [S -> [T -> T]]
    BY <1>3
<1>6. PICK c \in [SUBSET S -> T] : FoldsBy(c, S, w, F)
    <2> HIDE DEF F
    <2> QED BY <1>1, <1>4, <1>5, FoldExists
<1>7. \A s \in SUBSET S : s # {} => Picked(s) \in S /\ s \ {Picked(s)} \in SUBSET S
    BY <1>1, Smaller
<1>8. Eq(c)
    <2>1. \A s \in SUBSET S : s # {} =>
            F[Picked(s)][c[s \ {Picked(s)}]] = Op(Picked(s), c[s \ {Picked(s)}])
        BY <1>6, <1>7
    <2> QED BY <1>6, <2>1 DEF FoldsBy
<1>9. Eq(it)
    <2> HIDE DEF Eq
    <2> QED BY <1>8
<1> HIDE DEF it
<1> DEFINE G == {s \in SUBSET S : it[s] = c[s]}
<1>10. {} \in G
    BY <1>8, <1>9
<1>11. ASSUME NEW s \in SUBSET S, s # {}, s \ {Picked(s)} \in G PROVE s \in G
    BY <1>8, <1>9, <1>11
<1> HIDE DEF G, Eq
<1>12. SUBSET S \subseteq G
    BY <1>1, <1>10, <1>11, PickInduction
<1>13. it[S] = c[S]
    BY <1>12 DEF G
<1>14. c[S] \in T
    OBVIOUS
<1> QED BY <1>2, <1>13, <1>14 DEF T

\* The levels of OnTick: the map after n steps.
After(f) ==
    f = [n \in Nat |-> IF n = 0 THEN [body |-> body, tree |-> tree] ELSE FixedUpdate(f[n - 1])]

LEMMA StepsKeepWorld ==
    ASSUME axes \in Spaces, World(axes, Present, body, tree), NEW made \in Nat
    PROVE  (CHOOSE f : After(f))[made] \in Worlds(axes, Present)
<1> DEFINE T == Worlds(axes, Present)
           it == CHOOSE f : After(f)
<1>1. PICK start \in T : start = [body |-> body, tree |-> tree]
    <2>1. body \in [Users -> Bodies(axes) \cup {None}] /\ tree \in Trees(axes)
        BY DEF World, TreeOf
    <2> QED BY <2>1 DEF Worlds
<1>2. \A x \in T : FixedUpdate(x) \in T
    <2>1. Present \in SUBSET Users
        BY DEF Present
    <2> QED BY <2>1, StepKeepsWorld
<1> HIDE DEF T
<1>3. PICK s \in [T -> T] : s = [x \in T |-> FixedUpdate(x)]
    BY <1>2
<1>4. PICK f \in [Nat -> T] : LevelsOf(f, start, s)
    BY LevelsExist
<1>5. ASSUME NEW n \in Nat
      PROVE  f[n] = IF n = 0 THEN [body |-> body, tree |-> tree] ELSE FixedUpdate(f[n - 1])
    <2>1. CASE n = 0
        BY <1>1, <1>4, <2>1 DEF LevelsOf
    <2>2. CASE n # 0
        <3>1. n - 1 \in Nat
            BY <2>2
        <3>2. f[n] = s[f[n - 1]] /\ f[n - 1] \in T
            BY <1>4, <2>2, <3>1 DEF LevelsOf
        <3> QED BY <1>3, <2>2, <3>2
    <2> QED BY <2>1, <2>2
<1>6. After(f)
    BY <1>4, <1>5 DEF After
<1>7. After(it)
    BY <1>6
<1> HIDE DEF it
<1> DEFINE S == {n \in Nat : it[n] \in T}
<1>8. 0 \in S
    BY <1>1, <1>7 DEF After
<1>9. ASSUME NEW n \in Nat, n \in S PROVE n + 1 \in S
    <2>1. n + 1 \in Nat /\ n + 1 # 0 /\ (n + 1) - 1 = n
        OBVIOUS
    <2>2. it[n + 1] = FixedUpdate(it[n])
        BY <1>7, <2>1 DEF After
    <2> QED BY <1>2, <1>9, <2>2
<1> HIDE DEF S
<1>10. made \in S
    BY <1>8, <1>9, SetInduction
<1> QED BY <1>10 DEF S, T, it

-----------------------------------------------------------------------------
(* The clock *)

ClockInv == ClockTypeOK /\ NeverAhead

\* The steps due leave less than one step in the accumulator.
LEMMA DueLeavesLess ==
    ASSUME NEW filled \in Int
    PROVE  /\ StepsDue(filled) \in Nat
           /\ filled - StepsDue(filled) * DT_MS < DT_MS
BY DEF StepsDue, DT_MS

LEMMA TickStep ==
    ASSUME ClockInv, NEW timeMS \in Times, ClockTick(timeMS)
    PROVE  ClockInv' /\ steps' - steps \in Nat
<1> DEFINE filled == Filled(timeMS)
           due == StepsDue(filled)
<1>1. timeMS \in Nat /\ lastTickTimeMS \in Nat
    BY TimesAssumption DEF ClockInv, ClockTypeOK
<1>2. filled \in Int /\ filled <= durationAccumulator + timeMS - lastTickTimeMS
    BY <1>1 DEF ClockInv, ClockTypeOK, Filled, MAX_FRAME_MS
<1>3. /\ lastTickTimeMS' = timeMS
      /\ durationAccumulator' = filled - due * DT_MS
      /\ steps' = steps + due
    BY DEF ClockTick
<1> HIDE DEF filled
<1>4. due \in Nat /\ filled - due * DT_MS < DT_MS
    BY <1>2, DueLeavesLess
<1> HIDE DEF due
<1>5. ClockTypeOK' /\ steps' - steps \in Nat
    BY <1>2, <1>3, <1>4 DEF ClockInv, ClockTypeOK, DT_MS
<1>6. NeverAhead'
    BY <1>1, <1>2, <1>3, <1>4 DEF ClockInv, ClockTypeOK, NeverAhead, DT_MS
<1> QED BY <1>5, <1>6 DEF ClockInv

-----------------------------------------------------------------------------
(* The maps *)

Inv ==
    /\ axes \in Spaces
    /\ ClockInv
    /\ World(axes, Present, body, tree)

LEMMA InitHolds == MapsInit => Inv
<1> SUFFICES ASSUME MapsInit PROVE Inv
    OBVIOUS
<1>1. axes \in Spaces
    BY DEF MapsInit, Init
<1>2. ClockInv
    BY DEF MapsInit, Init, ClockInit, ClockInv, ClockTypeOK, NeverAhead, DT_MS
<1>3. body = [u \in Users |-> None] /\ Present = {}
    BY DEF MapsInit, Init, Present
<1>4. /\ tree.split = {} /\ tree.held = [u \in Users |-> <<>>]
      /\ tree.node = [u \in Users |-> None]
      /\ tree \in [split : {{}}, held : {tree.held}, node : {tree.node}]
    BY DEF MapsInit, Init
<1>5. tree \in Trees(axes)
    <2>1. tree.held \in [Users -> Seq(Nodes(axes))]
        BY <1>4
    <2>2. tree.node \in [Users -> Nodes(axes) \cup {None}]
        BY <1>4
    <2> QED BY <1>4, <2>1, <2>2 DEF Trees
<1>6. TreeOf(axes, tree, {}, PosOf({}, body))
    BY <1>4, <1>5 DEF TreeOf
<1> QED BY <1>1, <1>2, <1>3, <1>6 DEF Inv, World

LEMMA JoinKeeps ==
    ASSUME Inv, NEW u \in Users, PlayerJoinMap(u)
    PROVE  World(axes, Present', body', tree')
<1>1. PICK A, P, b, t : /\ A = axes /\ P = Present /\ b = body' /\ t = tree'
                        /\ A \in Spaces /\ World(A, P, body, tree)
    BY DEF Inv
<1>2. PICK m : m = [pos |-> FindSpawnPoint, v |-> Still, dir |-> Still]
    OBVIOUS
<1>3. m \in Bodies(A) /\ Inside(A, m.pos)
    <2>1. FindSpawnPoint \in [A -> Int] /\ \A a \in A : FindSpawnPoint[a] = Size \div 2
        BY <1>1, TreeAssumption DEF FindSpawnPoint
    <2>2. Size \div 2 >= 0 /\ Size \div 2 < Size
        BY TreeAssumption, TickAssumption
    <2>3. Still \in [A -> Int] /\ Still \in Directions(A)
        BY <1>1 DEF Still, Directions
    <2> QED BY <1>2, <2>1, <2>2, <2>3 DEF Bodies, Inside
<1>4. m # None
    BY <1>1, <1>3, TickAssumption
<1>5. /\ P \in SUBSET Users /\ body \in [Users -> Bodies(A) \cup {None}]
      /\ u \in Users \ P /\ P = {v \in Users : body[v] # None}
    BY <1>1 DEF World, PlayerJoinMap
<1>6. /\ b \in [Users -> Bodies(A) \cup {None}] /\ b[u] = m
      /\ \A v \in Users : v # u => b[v] = body[v]
    BY <1>1, <1>2, <1>3, <1>5 DEF PlayerJoinMap
<1>7. PICK Q : Q = P \cup {u} /\ Q = {v \in Users : b[v] # None}
    BY <1>4, <1>5, <1>6
<1>8. \A v \in Q : Inside(A, b[v].pos)
    BY <1>1, <1>3, <1>5, <1>6, <1>7 DEF World
<1>9. TreeOf(A, tree, P, PosOf(Q, b))
    <2>1. \A v \in P : PosOf(Q, b)[v] = PosOf(P, body)[v]
        BY <1>5, <1>6, <1>7 DEF PosOf
    <2>2. TreeOf(A, tree, P, PosOf(P, body))
        BY <1>1 DEF World
    <2> QED BY <2>1, <2>2, TreeOfOthers
<1>10. QtInertsTo(tree, PosOf(Q, b), Root(A), u, t)
    BY <1>1, <1>7 DEF PlayerJoinMap, QtInertsTo, PosOf
<1>11. ContainsNode(Root(A), PosOf(Q, b)[u])
    BY <1>1, <1>7, <1>8, InsideRoot DEF PosOf
<1>12. TreeOf(A, t, P \cup {u}, PosOf(Q, b))
    BY <1>1, <1>5, <1>9, <1>10, <1>11, QtInertGrows
<1>13. World(A, Q, b, t)
    BY <1>6, <1>7, <1>8, <1>12 DEF World
<1>14. Q = Present'
    BY <1>1, <1>7 DEF Present
<1> QED BY <1>1, <1>13, <1>14

LEMMA ExitKeeps ==
    ASSUME Inv, NEW u \in Users, PlayerExitMap(u)
    PROVE  World(axes, Present', body', tree')
<1>1. PICK A, P, b, t : /\ A = axes /\ P = Present /\ b = body' /\ t = tree'
                        /\ A \in Spaces /\ World(A, P, body, tree)
    BY DEF Inv
<1>2. u \in P
    BY <1>1 DEF PlayerExitMap
<1>3. /\ P \in SUBSET Users /\ body \in [Users -> Bodies(A) \cup {None}]
      /\ P = {v \in Users : body[v] # None}
    BY <1>1 DEF World
<1>4. /\ b \in [Users -> Bodies(A) \cup {None}] /\ b[u] = None
      /\ \A v \in Users : v # u => b[v] = body[v]
    BY <1>1, <1>3 DEF PlayerExitMap
<1>5. PICK Q : Q = P \ {u} /\ Q = {v \in Users : b[v] # None}
    BY <1>2, <1>3, <1>4
<1>6. TreeOf(A, t, Q, PosOf(P, body))
    <2>1. t = IF tree.node[u] # None THEN RemoveItemFromList(tree, u) ELSE tree
        BY <1>1 DEF PlayerExitMap
    <2> QED BY <1>1, <1>2, <1>5, <2>1, TakenFromWorld
<1>7. \A v \in Q : PosOf(Q, b)[v] = PosOf(P, body)[v]
    BY <1>3, <1>4, <1>5 DEF PosOf
<1>8. TreeOf(A, t, Q, PosOf(Q, b))
    BY <1>6, <1>7, TreeOfOthers
<1>9. \A v \in Q : Inside(A, b[v].pos)
    BY <1>1, <1>3, <1>4, <1>5 DEF World
<1>10. World(A, Q, b, t)
    BY <1>4, <1>5, <1>8, <1>9 DEF World
<1>11. Q = Present'
    BY <1>1, <1>5 DEF Present
<1> QED BY <1>1, <1>10, <1>11

LEMMA InputKeeps ==
    ASSUME Inv, NEW u \in Users, NEW dir \in Steering[axes], MapPlayerInput(u, dir)
    PROVE  World(axes, Present', body', tree')
<1>1. PICK A, P, b : /\ A = axes /\ P = Present /\ b = body'
                     /\ A \in Spaces /\ World(A, P, body, tree) /\ tree' = tree
    BY DEF Inv, MapPlayerInput
<1>2. /\ P \in SUBSET Users /\ body \in [Users -> Bodies(A) \cup {None}] /\ u \in P
      /\ P = {v \in Users : body[v] # None} /\ body[u] \in Bodies(A)
    BY <1>1 DEF World, MapPlayerInput
<1>3. dir \in Directions(A) /\ None \notin Bodies(A)
    BY <1>1, TickAssumption
<1>4. PICK m : m = [body[u] EXCEPT !.dir = dir]
    OBVIOUS
<1>5. m \in Bodies(A) /\ m.pos = body[u].pos
    BY <1>2, <1>3, <1>4 DEF Bodies
<1>6. b = [body EXCEPT ![u] = m]
    BY <1>1, <1>4 DEF MapPlayerInput
<1>7. /\ b \in [Users -> Bodies(A) \cup {None}] /\ b[u] = m
      /\ \A v \in Users : v # u => b[v] = body[v]
    BY <1>2, <1>5, <1>6
<1>8. P = {v \in Users : b[v] # None}
    BY <1>2, <1>3, <1>5, <1>7
<1>9. \A v \in P : b[v].pos = body[v].pos
    BY <1>2, <1>5, <1>7
<1>10. TreeOf(A, tree, P, PosOf(P, b))
    <2>1. \A v \in P : PosOf(P, b)[v] = PosOf(P, body)[v]
        BY <1>9 DEF PosOf
    <2> QED BY <1>1, <2>1, TreeOfOthers DEF World
<1>11. World(A, P, b, tree)
    BY <1>1, <1>7, <1>8, <1>9, <1>10 DEF World
<1>12. P = Present'
    BY <1>1, <1>8 DEF Present
<1> QED BY <1>1, <1>11, <1>12

LEMMA TickKeeps ==
    ASSUME Inv, NEW timeMS \in Times, OnTick(timeMS)
    PROVE  World(axes, Present', body', tree')
<1>1. PICK made \in Nat : made = steps' - steps
    BY TickStep DEF Inv, OnTick
<1>2. PICK w : w = (CHOOSE f : After(f))[made] /\ w \in Worlds(axes, Present)
    BY <1>1, StepsKeepWorld DEF Inv
<1>3. body' = w.body /\ tree' = w.tree
    BY <1>1, <1>2 DEF OnTick, After
<1>4. World(axes, Present, body', tree')
    BY <1>2, <1>3 DEF Worlds
<1>5. Present' = Present
    BY <1>4 DEF World, Present
<1> QED BY <1>4, <1>5

\* A step of a map of either kind is one of Next: the wrappers add nothing.
LEMMA EitherKind == [MapsNext]_vars => [Next]_vars
BY DEF MapsNext, Next3D, Next, PlayerJoinMap3D, PlayerExitMap3D, Map3DPlayerInput, OnTick3D

LEMMA NextKeeps == Inv /\ [Next]_vars => Inv'
<1> SUFFICES ASSUME Inv, [Next]_vars PROVE Inv'
    OBVIOUS
<1>1. ASSUME NEW u \in Users, PlayerJoinMap(u) PROVE Inv'
    <2>1. ClockInv' /\ axes' = axes
        BY <1>1 DEF PlayerJoinMap, Inv, clock, ClockInv, ClockTypeOK, NeverAhead
    <2> QED BY <1>1, <2>1, JoinKeeps DEF Inv
<1>2. ASSUME NEW u \in Users, PlayerExitMap(u) PROVE Inv'
    <2>1. ClockInv' /\ axes' = axes
        BY <1>2 DEF PlayerExitMap, Inv, clock, ClockInv, ClockTypeOK, NeverAhead
    <2> QED BY <1>2, <2>1, ExitKeeps DEF Inv
<1>3. ASSUME NEW u \in Users, NEW dir \in Steering[axes], MapPlayerInput(u, dir) PROVE Inv'
    <2>1. ClockInv' /\ axes' = axes
        BY <1>3 DEF MapPlayerInput, Inv, clock, ClockInv, ClockTypeOK, NeverAhead
    <2> QED BY <1>3, <2>1, InputKeeps DEF Inv
<1>4. ASSUME NEW timeMS \in Times, OnTick(timeMS) PROVE Inv'
    <2>1. ClockInv' /\ axes' = axes
        BY <1>4, TickStep DEF OnTick, Inv
    <2> QED BY <1>4, <2>1, TickKeeps DEF Inv
<1>5. CASE UNCHANGED vars
    BY <1>5 DEF vars, clock, Inv, ClockInv, ClockTypeOK, NeverAhead, Present
<1> QED BY <1>1, <1>2, <1>3, <1>4, <1>5 DEF Next

LEMMA InvHolds == MapsSpec => []Inv
<1>1. Inv /\ [MapsNext]_vars => Inv'
    BY EitherKind, NextKeeps
<1> QED BY <1>1, InitHolds, PTL DEF MapsSpec

\* Whatever players join, steer and leave, and however many steps a tick makes:
\* the quadtree or octree of a map holds every player once, in the node the
\* player names and within its region, and nobody who has left.
THEOREM TreesHoldPlayersCorrect == MapsSpec => []TreesHoldPlayers
<1>1. Inv => TreesHoldPlayers
    <2> SUFFICES ASSUME Inv PROVE TreesHoldPlayers
        OBVIOUS
    <2>1. TreeOf(axes, tree, Present, PosOf(Present, body))
        BY DEF Inv, World
    <2>2. \A u \in Present : Sits(axes, tree, u, PosOf(Present, body))
        BY <2>1 DEF TreeOf
    <2>3. \A u \in Present : PosOf(Present, body)[u] = body[u].pos
        BY DEF PosOf
    <2>4. \A u \in Present : /\ tree.held[u] = <<tree.node[u]>>
                             /\ ContainsNode(tree.node[u], body[u].pos)
        BY <2>2, <2>3 DEF Sits
    <2> QED BY <2>1, <2>4 DEF TreesHoldPlayers, TreeOf
<1> QED BY <1>1, InvHolds, PTL

\* QtQuery and OcQuery find exactly the players in their range, whatever the
\* tree has become: nobody on the border of a node, in a strip its children do
\* not cover or in a node that was subdivided later is missed.
THEOREM QueriesAreExactCorrect == MapsSpec => []QueriesAreExact
<1>1. Inv => QueriesAreExact
    <2> SUFFICES ASSUME Inv, NEW u \in Present
                 PROVE  Told(u) = {v \in Present : Within(body[v].pos, RangeOf(u), 2 * RANGE)}
        BY DEF QueriesAreExact, OcQuery, Told
    <2>1. PICK A, P, at, low, size : /\ A = axes /\ P = Present /\ at = PosOf(P, body)
                                     /\ low = RangeOf(u) /\ size = 2 * RANGE
        OBVIOUS
    <2>2. A \in Spaces /\ World(A, P, body, tree)
        BY <2>1 DEF Inv
    <2>3. P \in SUBSET Users /\ TreeOf(A, tree, P, at)
          /\ \A v \in P : body[v].pos \in [A -> Int]
        BY <2>1, <2>2 DEF World, Inside
    <2>4. at \in [P -> [A -> Int]]
        BY <2>1, <2>3 DEF PosOf
    <2>5. RANGE \in Nat
        BY TickAssumption
    <2>6. low \in [A -> Int] /\ size \in Int
        BY <2>1, <2>3, <2>5 DEF RangeOf
    <2>7. QueriesTo(tree, at, Root(A), low, size, Told(u))
        BY <2>1 DEF QueriesTo, Told, At, PosOf
    <2>8. Told(u) = {v \in P : Within(at[v], low, size)}
        BY <2>2, <2>3, <2>4, <2>6, <2>7, QueryFinds
    <2>9. \A v \in P : at[v] = body[v].pos
        BY <2>1 DEF PosOf
    <2> QED BY <2>1, <2>8, <2>9
<1> QED BY <1>1, InvHolds, PTL

\* Only a tick touches a map's clock, and every tick takes it as the clock's
\* own specification says: the maps implement it.
THEOREM MapsKeepTime == MapsSpec => ClockSpec
<1>1. MapsInit => ClockInit
    BY DEF MapsInit, Init
<1>2. [Next]_vars => [\E timeMS \in Times : ClockTick(timeMS)]_clock
    BY DEF Next, PlayerJoinMap, PlayerExitMap, MapPlayerInput, OnTick, vars
<1> QED BY <1>1, <1>2, EitherKind, PTL DEF MapsSpec, ClockSpec

\* Whatever the clock reads, forward or back, and however long a tick is late:
\* a map's simulated time and remainder never exceed the clock's last reading,
\* and no tick leaves a step undone.
THEOREM NeverAheadCorrect == MapsSpec => []NeverAhead
<1>1. Inv => NeverAhead
    BY DEF Inv, ClockInv
<1> QED BY <1>1, InvHolds, PTL

=============================================================================
