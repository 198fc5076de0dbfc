--------------------------- MODULE LuaProto_proofs ---------------------------
(***************************************************************************)
(* Proofs about LuaProto, for every schema, every set of messages and of   *)
(* tables and every order in which names are visited.                      *)
(***************************************************************************)
EXTENDS LuaProto, FiniteSetTheorems, WellFoundedInduction, TLAPS

-----------------------------------------------------------------------------
(* Sequences *)

LEMMA ArraySeq ==
    ASSUME NEW s, IsArray(s)
    PROVE  /\ s \in Seq({s[i] : i \in 1..Len(s)})
           /\ DOMAIN s = 1..Len(s)
           /\ Len(s) \in Nat
<1> DEFINE S == {s[i] : i \in 1..Len(s)}
           n == Len(s)
<1>1. n \in Nat /\ s = [i \in 1..n |-> s[i]]
    BY DEF IsArray
<1>2. s \in [1..n -> S]
    BY <1>1
<1> QED BY <1>1, <1>2

LEMMA SeqArray ==
    ASSUME NEW S, NEW s \in Seq(S)
    PROVE  IsArray(s)
BY DEF IsArray

LEMMA MadeArray ==
    ASSUME NEW n \in Nat, NEW s, s = [i \in 1..n |-> s[i]]
    PROVE  IsArray(s) /\ Len(s) = n
<1> DEFINE S == {s[i] : i \in 1..n}
<1>1. s \in [1..n -> S]
    OBVIOUS
<1>2. s \in Seq(S) /\ Len(s) = n
    BY <1>1
<1> QED BY <1>2, SeqArray

LEMMA ArrayIn ==
    ASSUME NEW s, IsArray(s), NEW S, \A i \in 1..Len(s) : s[i] \in S
    PROVE  s \in Seq(S)
<1> DEFINE n == Len(s)
<1>1. n \in Nat /\ s = [i \in 1..n |-> s[i]]
    BY DEF IsArray
<1>2. s \in [1..n -> S]
    BY <1>1
<1> QED BY <1>1, <1>2

LEMMA AppendIs ==
    ASSUME NEW s, IsArray(s), NEW v
    PROVE  /\ IsArray(Append(s, v))
           /\ Len(Append(s, v)) = Len(s) + 1
           /\ Append(s, v)[Len(s) + 1] = v
           /\ \A i \in 1..Len(s) : Append(s, v)[i] = s[i]
           /\ Append(s, v) # <<>>
<1>1. PICK S : S = {s[i] : i \in 1..Len(s)} \cup {v}
    OBVIOUS
<1>2. s \in Seq(S) /\ v \in S
    BY <1>1, ArrayIn
<1>3. Append(s, v) \in Seq(S)
    BY <1>2
<1>4. IsArray(Append(s, v))
    BY <1>3, SeqArray
<1> QED BY <1>2, <1>4

LEMMA ConcatIs ==
    ASSUME NEW s, IsArray(s), NEW t, IsArray(t)
    PROVE  /\ IsArray(s \o t)
           /\ Len(s \o t) = Len(s) + Len(t)
           /\ \A i \in 1..Len(s) : (s \o t)[i] = s[i]
           /\ \A i \in 1..Len(t) : (s \o t)[Len(s) + i] = t[i]
<1>1. PICK S : S = {s[i] : i \in 1..Len(s)} \cup {t[i] : i \in 1..Len(t)}
    OBVIOUS
<1>2. s \in Seq(S) /\ t \in Seq(S)
    BY <1>1, ArrayIn
<1>3. s \o t \in Seq(S)
    BY <1>2
<1>4. IsArray(s \o t)
    BY <1>3, SeqArray
<1> QED BY <1>2, <1>4

LEMMA PrefixIs ==
    ASSUME NEW s, IsArray(s), NEW n \in 0..Len(s)
    PROVE  /\ IsArray(SubSeq(s, 1, n))
           /\ Len(SubSeq(s, 1, n)) = n
           /\ \A i \in 1..n : SubSeq(s, 1, n)[i] = s[i]
<1>1. PICK S : S = {s[i] : i \in 1..Len(s)}
    OBVIOUS
<1>2. s \in Seq(S) /\ Len(s) \in Nat
    BY <1>1, ArraySeq
<1>3. SubSeq(s, 1, n) \in Seq(S)
    BY <1>2
<1>4. IsArray(SubSeq(s, 1, n))
    BY <1>3, SeqArray
<1> QED BY <1>2, <1>4

LEMMA FrontIs ==
    ASSUME NEW s, IsArray(s), s # <<>>
    PROVE  /\ IsArray(Front(s))
           /\ Len(Front(s)) = Len(s) - 1
           /\ Len(s) \in Nat \ {0}
           /\ \A i \in 1..(Len(s) - 1) : Front(s)[i] = s[i]
           /\ Last(s) = s[Len(s)]
           /\ Len(s) = 1 => Front(s) = <<>>
<1>1. s \in Seq({s[i] : i \in 1..Len(s)}) /\ Len(s) \in Nat
    BY ArraySeq
<1>2. Len(s) # 0
    BY <1>1
<1>3. Len(s) - 1 \in 0..Len(s)
    BY <1>1, <1>2
<1>4. Front(s) = SubSeq(s, 1, Len(s) - 1)
    BY DEF Front
<1>5. /\ IsArray(Front(s)) /\ Len(Front(s)) = Len(s) - 1
      /\ \A i \in 1..(Len(s) - 1) : Front(s)[i] = s[i]
    BY <1>3, <1>4, PrefixIs
<1>6. Len(s) = 1 => Front(s) = <<>>
    BY <1>1, <1>4
<1> QED BY <1>1, <1>2, <1>5, <1>6 DEF Last

LEMMA EmptyArray == \A s : IsArray(s) => (s = <<>> <=> Len(s) = 0)
BY ArraySeq

\* A sequence is changed at one place.
SetAt(s, k, v, t) == t = [s EXCEPT ![k] = v]

LEMMA ExceptIs ==
    ASSUME NEW s, IsArray(s), NEW k \in 1..Len(s), NEW v, NEW t, SetAt(s, k, v, t)
    PROVE  /\ IsArray(t) /\ Len(t) = Len(s)
           /\ \A i \in 1..Len(s) : t[i] = IF i = k THEN v ELSE s[i]
<1>1. PICK S : S = {s[i] : i \in 1..Len(s)} \cup {v}
    OBVIOUS
<1>2. s \in Seq(S) /\ v \in S
    BY <1>1, ArrayIn
<1>3. t \in Seq(S) /\ Len(t) = Len(s)
    BY <1>2 DEF SetAt
<1>4. IsArray(t)
    BY <1>3, SeqArray
<1> QED BY <1>2, <1>3, <1>4 DEF SetAt

-----------------------------------------------------------------------------
(* The keys of a table *)

KeysBy(o, t) ==
    {Number(i) : i \in DOMAIN t.arr}
        \cup {Key(o[i]) : i \in {j \in DOMAIN o : o[j] \in DOMAIN t.hash}}

RankBy(o, t, k) ==
    CASE k = Nil -> 0
      [] k.kind = "number" -> k.n
      [] k.kind = "string" -> Len(t.arr) + (CHOOSE i \in DOMAIN o : o[i] = k.s)

AfterBy(o, t, k) == {l \in KeysBy(o, t) : RankBy(o, t, l) > RankBy(o, t, k)}

LEMMA ByOrder ==
    /\ \A t : Keys(t) = KeysBy(order, t)
    /\ \A t, k : Rank(t, k) = RankBy(order, t, k)
    /\ \A t, k : KeysAfter(t, k) = AfterBy(order, t, k)
BY DEF Keys, KeysBy, Rank, RankBy, KeysAfter, AfterBy

LEMMA KeyKinds ==
    /\ \A n : Number(n).kind = "number" /\ Number(n).n = n /\ ~IsTable(Number(n))
    /\ \A s : Key(s).kind = "string" /\ Key(s).s = s /\ ~IsTable(Key(s))
    /\ \A n : Number(n) # Nil
    /\ \A s : Key(s) # Nil
    /\ Nil.kind = "nil" /\ ~IsTable(Nil)
BY DEF Number, Key, Nil, Value, IsTable

\* A key of a table is of its array part, or a name; no two have one rank.
LEMMA RankIs ==
    ASSUME NEW o, IsArray(o), NEW t, IsArray(t.arr), NEW k \in KeysBy(o, t)
    PROVE  /\ k # Nil
           /\ RankBy(o, t, k) \in Nat \ {0}
           /\ \/ /\ k = Number(RankBy(o, t, k))
                 /\ RankBy(o, t, k) \in 1..Len(t.arr)
              \/ /\ RankBy(o, t, k) - Len(t.arr) \in 1..Len(o)
                 /\ k = Key(o[RankBy(o, t, k) - Len(t.arr)])
                 /\ k.s \in DOMAIN t.hash
<1>1. /\ DOMAIN t.arr = 1..Len(t.arr) /\ Len(t.arr) \in Nat
      /\ DOMAIN o = 1..Len(o) /\ Len(o) \in Nat
    BY ArraySeq
<1>2. CASE k \in {Number(i) : i \in DOMAIN t.arr}
    <2>1. PICK i \in 1..Len(t.arr) : k = Number(i)
        BY <1>1, <1>2
    <2>2. k # Nil /\ k.kind = "number" /\ k.n = i
        BY <2>1, KeyKinds
    <2>3. RankBy(o, t, k) = i
        BY <2>2 DEF RankBy
    <2> QED BY <1>1, <2>1, <2>2, <2>3
<1>3. CASE k \in {Key(o[i]) : i \in {j \in DOMAIN o : o[j] \in DOMAIN t.hash}}
    <2>1. PICK i \in 1..Len(o) : k = Key(o[i]) /\ o[i] \in DOMAIN t.hash
        BY <1>1, <1>3
    <2>2. k # Nil /\ k.kind = "string" /\ k.s = o[i] /\ k.kind # "number"
        BY <2>1, KeyKinds
    <2> DEFINE p == CHOOSE j \in DOMAIN o : o[j] = k.s
    <2>3. p \in 1..Len(o) /\ o[p] = k.s
        BY <1>1, <2>1, <2>2
    <2>4. RankBy(o, t, k) = Len(t.arr) + p
        BY <2>2 DEF RankBy
    <2> HIDE DEF p
    <2>5. RankBy(o, t, k) - Len(t.arr) = p /\ RankBy(o, t, k) \in Nat \ {0}
        BY <1>1, <2>3, <2>4
    <2> QED BY <2>1, <2>2, <2>3, <2>5
<1> QED BY <1>2, <1>3 DEF KeysBy

LEMMA RankSame ==
    ASSUME NEW o, IsArray(o), NEW t, IsArray(t.arr),
           NEW k \in KeysBy(o, t), NEW l \in KeysBy(o, t),
           RankBy(o, t, k) = RankBy(o, t, l)
    PROVE  k = l
<1>1. Len(t.arr) \in Nat /\ Len(o) \in Nat
    BY ArraySeq
<1> DEFINE r == RankBy(o, t, k)
<1>2. r \in Nat
    BY RankIs
<1>3. /\ (k = Number(r) /\ r \in 1..Len(t.arr)) \/ (r - Len(t.arr) \in 1..Len(o) /\ k = Key(o[r - Len(t.arr)]))
      /\ (l = Number(r) /\ r \in 1..Len(t.arr)) \/ (r - Len(t.arr) \in 1..Len(o) /\ l = Key(o[r - Len(t.arr)]))
    BY RankIs
<1> HIDE DEF r
<1> QED BY <1>1, <1>2, <1>3

\* The least of a set of natural numbers that is not empty.
LEMMA LeastNat ==
    ASSUME NEW S \in SUBSET Nat, S # {}
    PROVE  \E x \in S : \A y \in S : x <= y
<1> DEFINE R == OpToRel(<, Nat)
<1>1. IsWellFoundedOn(R, Nat)
    BY NatLessThanWellFounded
<1>2. \A x, y \in Nat : x < y => <<x, y>> \in R
    BY DEF OpToRel
<1> HIDE DEF R
<1>3. PICK x \in S : \A y \in S : ~(<<y, x>> \in R)
    BY <1>1, WFMin
<1>4. \A y \in S : ~(y < x)
    BY <1>2, <1>3
<1> QED BY <1>3, <1>4

\* The next key comes after this one, and nothing comes between.
LEMMA NextKeyIs ==
    ASSUME NEW t, NEW k, IsArray(order), IsArray(t.arr),
           k = Nil \/ k \in KeysBy(order, t)
    PROVE  /\ NextKey(t, k) = Nil => AfterBy(order, t, k) = {}
           /\ NextKey(t, k) # Nil =>
                /\ NextKey(t, k) \in KeysBy(order, t)
                /\ AfterBy(order, t, NextKey(t, k))
                     = AfterBy(order, t, k) \ {NextKey(t, k)}
<1> DEFINE A == AfterBy(order, t, k)
           rank(l) == RankBy(order, t, l)
           best == CHOOSE l \in A : \A m \in A : rank(l) <= rank(m)
<1>1. NextKey(t, k) = IF A = {} THEN Nil ELSE best
    BY DEF NextKey, KeysAfter, AfterBy, Keys, KeysBy, Rank, RankBy
<1>2. \A l \in KeysBy(order, t) : rank(l) \in Nat /\ l # Nil
    BY RankIs
<1>3. rank(k) \in Nat
    <2>1. CASE k = Nil
        BY <2>1, KeyKinds DEF RankBy
    <2>2. CASE k # Nil
        BY <1>2, <2>2
    <2> QED BY <2>1, <2>2
<1>4. A \subseteq KeysBy(order, t) /\ \A l \in A : rank(l) > rank(k)
    BY DEF AfterBy
<1>5. ASSUME A # {} PROVE best \in A /\ \A m \in A : rank(best) <= rank(m)
    <2> DEFINE S == {rank(l) : l \in A}
    <2>1. S \in SUBSET Nat /\ S # {}
        BY <1>2, <1>4, <1>5
    <2>2. PICK x \in S : \A y \in S : x <= y
        BY <2>1, LeastNat
    <2>3. PICK l \in A : x = rank(l)
        BY <2>2
    <2>4. \A m \in A : rank(m) \in S
        OBVIOUS
    <2>5. \A m \in A : rank(l) <= rank(m)
        BY <2>2, <2>3, <2>4
    <2> HIDE DEF A, rank
    <2> QED BY <2>3, <2>5
<1>6. ASSUME A # {} PROVE AfterBy(order, t, best) = A \ {best}
    <2>1. PICK b : b = best /\ b \in A /\ \A m \in A : rank(b) <= rank(m)
        BY <1>5, <1>6
    <2>2. ASSUME NEW l \in KeysBy(order, t)
          PROVE  rank(l) > rank(b) <=> rank(l) > rank(k) /\ l # b
        <3>1. rank(l) \in Nat /\ rank(b) \in Nat /\ rank(b) > rank(k) /\ b \in KeysBy(order, t)
            BY <1>2, <1>4, <2>1
        <3>2. rank(l) > rank(k) => rank(b) <= rank(l)
            BY <2>1, <2>2 DEF AfterBy
        <3>3. rank(l) = rank(b) => l = b
            BY <2>2, <3>1, RankSame
        <3> HIDE DEF rank, best, A
        <3> QED BY <1>3, <3>1, <3>2, <3>3
    <2>3. AfterBy(order, t, b) = A \ {b}
        BY <2>2 DEF AfterBy
    <2> QED BY <2>1, <2>3
<1> HIDE DEF best, rank
<1> QED BY <1>1, <1>2, <1>4, <1>5, <1>6

-----------------------------------------------------------------------------
(* The tables in an array *)

LEMMA SetInduction ==
    ASSUME NEW S, 0 \in S, \A n \in Nat : n \in S => n + 1 \in S
    PROVE  Nat \subseteq S
<1> SUFFICES ASSUME Nat \ S # {} PROVE FALSE
    OBVIOUS
<1>1. PICK x \in Nat \ S : \A y \in Nat \ S : x <= y
    BY LeastNat
<1>2. x # 0 /\ x \in Nat
    BY <1>1
<1>3. x - 1 \in Nat /\ x - 1 < x
    BY <1>2
<1>4. x - 1 \in S
    BY <1>1, <1>3
<1>5. (x - 1) + 1 \in S
    BY <1>3, <1>4
<1> QED BY <1>1, <1>2, <1>5

UpTo(at, m) == {j \in at : j <= m}

LEMMA UpToIs ==
    ASSUME NEW n \in Nat, NEW at \in SUBSET (1..n)
    PROVE  /\ IsFiniteSet(at) /\ Cardinality(at) \in Nat
           /\ UpTo(at, 0) = {} /\ UpTo(at, n) = at
           /\ \A m : IsFiniteSet(UpTo(at, m)) /\ Cardinality(UpTo(at, m)) \in Nat
           /\ \A m \in Nat : m + 1 \notin at => UpTo(at, m + 1) = UpTo(at, m)
           /\ \A m \in Nat : m + 1 \in at =>
                Cardinality(UpTo(at, m + 1)) = Cardinality(UpTo(at, m)) + 1
<1>1. IsFiniteSet(1..n)
    BY FS_Interval
<1>2. IsFiniteSet(at)
    BY <1>1, FS_Subset
<1>3. \A m : UpTo(at, m) \subseteq at /\ \A j : j \in UpTo(at, m) <=> j \in at /\ j <= m
    BY DEF UpTo
<1>0. \A j \in at : j \in Nat /\ 1 <= j /\ j <= n
    OBVIOUS
<1>4. \A m : IsFiniteSet(UpTo(at, m))
    BY <1>2, <1>3, FS_Subset
<1>5. ASSUME NEW m \in Nat, m + 1 \in at
      PROVE  Cardinality(UpTo(at, m + 1)) = Cardinality(UpTo(at, m)) + 1
    <2>1. \A j \in at : j <= m + 1 <=> j <= m \/ j = m + 1
        BY <1>0
    <2>4. ~(m + 1 <= m)
        OBVIOUS
    <2>2. m + 1 \notin UpTo(at, m) /\ \A j : j \in UpTo(at, m + 1) <=> j \in UpTo(at, m) \cup {m + 1}
        BY <1>3, <1>5, <2>1, <2>4, Zenon
    <2>3. UpTo(at, m + 1) = UpTo(at, m) \cup {m + 1} /\ m + 1 \notin UpTo(at, m)
        BY <2>2
    <2> QED BY <1>4, <2>3, FS_AddElement
<1>6. ASSUME NEW m \in Nat, m + 1 \notin at PROVE UpTo(at, m + 1) = UpTo(at, m)
    <2>1. \A j \in at : j <= m + 1 <=> j <= m
        BY <1>0, <1>6
    <2>2. \A j : j \in UpTo(at, m + 1) <=> j \in UpTo(at, m)
        BY <1>3, <2>1
    <2> QED BY <2>2
<1>7. UpTo(at, 0) = {} /\ UpTo(at, n) = at
    <2>1. \A j \in at : ~(j <= 0)
        BY <1>0
    <2>2. \A j : j \in UpTo(at, 0) <=> FALSE
        BY <1>3, <2>1
    <2>3. \A j : j \in UpTo(at, n) <=> j \in at
        BY <1>0, <1>3
    <2>4. UpTo(at, 0) = {}
        BY <2>2
    <2>5. UpTo(at, n) = at
        BY <2>3
    <2> QED BY <2>4, <2>5
<1> QED BY <1>2, <1>4, <1>5, <1>6, <1>7, FS_CardinalityType

\* Counting up to a number that is in the set gives each count once.
LEMMA Counted ==
    ASSUME NEW n \in Nat, NEW at \in SUBSET (1..n), NEW k \in 1..Cardinality(at)
    PROVE  \E i \in at : Cardinality(UpTo(at, i)) = k
<1> DEFINE card(m) == Cardinality(UpTo(at, m))
           S == {m \in Nat : \A c \in 1..card(m) : \E i \in at : card(i) = c}
<1>1. /\ card(0) = 0 /\ card(n) = Cardinality(at)
      /\ \A m \in Nat : card(m) \in Nat
      /\ \A m \in Nat : m + 1 \notin at => card(m + 1) = card(m)
      /\ \A m \in Nat : m + 1 \in at => card(m + 1) = card(m) + 1
    BY UpToIs, FS_EmptySet
<1> HIDE DEF card
<1>2. 0 \in S
    BY <1>1
<1>3. ASSUME NEW m \in Nat, m \in S PROVE m + 1 \in S
    <2> SUFFICES ASSUME NEW c \in 1..card(m + 1) PROVE \E i \in at : card(i) = c
        OBVIOUS
    <2>1. CASE c \in 1..card(m)
        BY <1>3, <2>1
    <2>2. CASE c \notin 1..card(m)
        <3>1. m + 1 \in at /\ c = card(m + 1)
            BY <1>1, <2>2
        <3> QED BY <3>1
    <2> QED BY <2>1, <2>2
<1>4. n \in S
    <2> HIDE DEF S
    <2> QED BY <1>2, <1>3, SetInduction
<1> QED BY <1>1, <1>4 DEF card

LEMMA TablesInIs ==
    ASSUME NEW arr, IsArray(arr)
    PROVE  /\ IsArray(TablesIn(arr))
           /\ \A k \in 1..Len(TablesIn(arr)) :
                TablesIn(arr)[k] \in 1..Len(arr) /\ IsTable(arr[TablesIn(arr)[k]])
           /\ arr # <<>> /\ IsTable(arr[1]) =>
                /\ Len(TablesIn(arr)) # 0
                /\ \A k \in 1..Len(TablesIn(arr)) : TablesIn(arr)[k] = 1 <=> k = 1
           /\ arr = <<>> => Len(TablesIn(arr)) = 0
<1>1. DOMAIN arr = 1..Len(arr) /\ Len(arr) \in Nat
    BY ArraySeq
<1>2. PICK at \in SUBSET (1..Len(arr)) : at = {i \in DOMAIN arr : IsTable(arr[i])}
    BY <1>1
<1>3. PICK c \in Nat : c = Cardinality(at)
    BY <1>1, UpToIs
<1>4. PICK G : G = [k \in 1..c |-> CHOOSE i \in at : Cardinality(UpTo(at, i)) = k]
    OBVIOUS
<1>5. TablesIn(arr) = G
    BY <1>2, <1>3, <1>4 DEF TablesIn, InOrder, UpTo
<1>6. G = [k \in 1..c |-> G[k]]
    BY <1>4
<1>7. IsArray(G) /\ Len(G) = c
    BY <1>6, MadeArray
<1>8. ASSUME NEW k \in 1..c
      PROVE  G[k] \in at /\ Cardinality(UpTo(at, G[k])) = k
    <2>1. \E i \in at : Cardinality(UpTo(at, i)) = k
        BY <1>1, <1>3, Counted
    <2>2. G[k] = CHOOSE i \in at : Cardinality(UpTo(at, i)) = k
        BY <1>4
    <2> QED BY <2>1, <2>2
<1>9. ASSUME 1 \in at
      PROVE  c # 0 /\ \A k \in 1..c : G[k] = 1 <=> k = 1
    <2>a. \A j \in at : j \in Nat /\ 1 <= j /\ j <= j /\ (j <= 1 => j = 1)
        BY <1>1
    <2>b. \A m : \A j : j \in UpTo(at, m) <=> j \in at /\ j <= m
        BY DEF UpTo
    <2>0. \A j : j \in UpTo(at, 1) <=> j = 1
        BY <1>9, <2>a, <2>b, Zenon
    <2>1. UpTo(at, 1) = {1}
        BY <2>0
    <2>2. Cardinality(UpTo(at, 1)) = 1
        BY <2>1, FS_Singleton
    <2>3. IsFiniteSet(at)
        BY <1>1, UpToIs
    <2>4. c # 0
        BY <1>3, <1>9, <2>3, FS_EmptySet
    <2>5. G[1] \in at /\ Cardinality(UpTo(at, G[1])) = 1
        BY <1>8, <2>4
    <2>6. IsFiniteSet(UpTo(at, G[1]))
        BY <1>1, UpToIs
    <2>7. PICK x : UpTo(at, G[1]) = {x}
        BY <2>5, <2>6, FS_Singleton
    <2>8. 1 \in UpTo(at, G[1]) /\ G[1] \in UpTo(at, G[1])
        BY <1>9, <2>5, <2>a, <2>b, Zenon
    <2>9. G[1] = 1
        BY <2>7, <2>8
    <2> QED BY <1>8, <2>2, <2>4, <2>9
<1>10. arr # <<>> /\ IsTable(arr[1]) => 1 \in at
    BY <1>1, <1>2, EmptyArray
<1>11. arr = <<>> => c = 0
    BY <1>1, <1>2, <1>3, FS_EmptySet
<1>12. \A k \in 1..c : G[k] \in 1..Len(arr) /\ IsTable(arr[G[k]])
    BY <1>2, <1>8
<1> QED BY <1>5, <1>7, <1>9, <1>10, <1>11, <1>12

-----------------------------------------------------------------------------
(* Fields *)

FieldsOf(type) == {Schema[type][i] : i \in DOMAIN Schema[type]}

Default(f) == IF f.rep \/ f.kind = "message" THEN <<>> ELSE <<0>>

LEMMA SchemaIs ==
    ASSUME NEW type \in DOMAIN Schema
    PROVE  /\ \A f \in FieldsOf(type) :
                /\ f.kind \in Kinds /\ f.rep \in BOOLEAN
                /\ f.kind = "message" => f.type \in DOMAIN Schema
           /\ \A f, g \in FieldsOf(type) : f.name = g.name => f = g
           /\ Names(type) = {f.name : f \in FieldsOf(type)}
           /\ \A s : Fields(type, s) = {f \in FieldsOf(type) : f.name = s}
           /\ DOMAIN NewMessage(type) = Names(type)
           /\ \A f \in FieldsOf(type) : NewMessage(type)[f.name] = Default(f)
<1>1. \A f, g \in FieldsOf(type) : f.name = g.name => f = g
    BY LuaProtoAssumption DEF FieldsOf
<1>2. \A s : Fields(type, s) = {f \in FieldsOf(type) : f.name = s}
    BY DEF Fields, FieldsOf
<1>3. DOMAIN NewMessage(type) = Names(type)
    BY DEF NewMessage, Names
<1>4. ASSUME NEW f \in FieldsOf(type)
      PROVE  NewMessage(type)[f.name] = Default(f)
    <2>1. Fields(type, f.name) = {f}
        BY <1>1, <1>2
    <2>2. (CHOOSE g \in Fields(type, f.name) : TRUE) = f
        BY <2>1
    <2>3. f.name \in {Schema[type][i].name : i \in DOMAIN Schema[type]}
        BY DEF FieldsOf
    <2> QED BY <2>2, <2>3 DEF NewMessage, Default
<1>5. Names(type) = {f.name : f \in FieldsOf(type)}
    BY DEF Names, FieldsOf
<1>6. \A f \in FieldsOf(type) :
        /\ f.kind \in Kinds /\ f.rep \in BOOLEAN
        /\ f.kind = "message" => f.type \in DOMAIN Schema
    BY LuaProtoAssumption DEF FieldsOf
<1> QED BY <1>1, <1>2, <1>3, <1>4, <1>5, <1>6

-----------------------------------------------------------------------------
(* From a table to a message.  V is a set of tables, each with its type, that *)
(* has with a table the tables in it.  T gives the table of each message.     *)

Convertible(o, V, type, u) ==
    /\ type \in DOMAIN Schema
    /\ IsTable(u) /\ IsArray(u.arr)
    /\ DOMAIN u.hash \subseteq {o[j] : j \in DOMAIN o}
    /\ \A f \in FieldsOf(type) :
         LET v == Given(u, f) IN
         IsTable(v) =>
             /\ IsArray(v.arr)
             /\ f.kind = "message" /\ ~f.rep => <<f.type, v>> \in V
             /\ f.kind = "message" /\ f.rep =>
                  /\ v.arr # <<>> => IsTable(v.arr[1])
                  /\ \A j \in DOMAIN v.arr :
                       IsTable(v.arr[j]) => <<f.type, v.arr[j]>> \in V

Closed(o, V) == IsArray(o) /\ \A p \in V : Convertible(o, V, p[1], p[2])

\* What a field has after its value was read, v being the value.
IsRead(H, T, f, v, got) ==
    CASE f.kind = "message" /\ f.rep ->
           /\ DOMAIN got = DOMAIN TablesIn(Elements(v))
           /\ \A j \in DOMAIN got :
                /\ got[j] \in 1..Len(H)
                /\ T[got[j]] = <<f.type, v.arr[TablesIn(v.arr)[j]]>>
      [] f.kind = "message" /\ ~f.rep ->
           /\ DOMAIN got = IF IsTable(v) THEN {1} ELSE {}
           /\ \A j \in DOMAIN got :
                /\ got[j] \in 1..Len(H)
                /\ T[got[j]] = <<f.type, v>>
      [] f.kind # "message" /\ f.rep -> got = Accepted(f.kind, Elements(v))
      [] OTHER -> got = IF Accepts(f.kind, v) THEN <<v.n>> ELSE <<0>>

FieldRead(H, T, x, f) == IsRead(H, T, f, Given(T[x][2], f), H[x][f.name])

\* The key a frame has reached, and a field it has still to meet.
Cursor(L, c) == IF c.first THEN Nil ELSE L[c.idx + 1]

Waits(o, L, C, H, x, f) ==
    /\ H[x][f.name] = Default(f)
    /\ \E i \in 1..Len(C) :
         C[i].obj = x /\ Key(f.name) \in AfterBy(o, L[C[i].idx], Cursor(L, C[i]))

FrameFits(o, L, H, T, c) ==
    /\ c = [type |-> c.type, obj |-> c.obj, idx |-> c.idx, first |-> c.first, pops |-> c.pops]
    /\ c.first \in BOOLEAN /\ c.pops \in Nat /\ c.idx \in Nat
    /\ c.obj \in 1..Len(H)
    /\ Top(c) \in 1..Len(L) /\ c.idx \in 1..Len(L)
    /\ T[c.obj] = <<c.type, L[c.idx]>>
    /\ ~c.first => L[c.idx + 1] \in KeysBy(o, L[c.idx])

Layout(L, C) ==
    /\ C[1].idx = 1 /\ C[1].pops = 0
    /\ Len(L) = Top(C[Len(C)])
    /\ \A i \in 2..Len(C) : C[i].idx = Top(C[i - 1]) + C[i].pops
    /\ \A i, j \in 1..Len(C) : i < j => Top(C[i]) < C[j].idx /\ C[i].obj # C[j].obj

Objects(o, L, C, H, V, T) ==
    \A x \in 1..Len(H) :
        /\ T[x] \in V
        /\ DOMAIN H[x] = Names(T[x][1])
        /\ \A f \in FieldsOf(T[x][1]) : FieldRead(H, T, x, f) \/ Waits(o, L, C, H, x, f)

ToProtoFits(o, L, C, H, V, T) ==
    /\ Closed(o, V)
    /\ IsArray(L) /\ IsArray(C) /\ C # <<>> /\ IsArray(H) /\ Len(H) # 0
    /\ T[1] = <<Root, L[1]>>
    /\ \A i \in 1..Len(C) : FrameFits(o, L, H, T, C[i])
    /\ Layout(L, C)
    /\ Objects(o, L, C, H, V, T)

HeapGrown(H, H2, T, T2) ==
    /\ Len(H) \in Nat /\ Len(H2) \in Nat /\ Len(H) <= Len(H2)
    /\ \A x \in 1..Len(H) : T2[x] = T[x]

\* A value that was read stays read.
LEMMA ReadStays ==
    ASSUME NEW H, NEW T, NEW H2, NEW T2, NEW f, NEW v, NEW got,
           HeapGrown(H, H2, T, T2), IsRead(H, T, f, v, got)
    PROVE  IsRead(H2, T2, f, v, got)
<1>1. 1..Len(H) \subseteq 1..Len(H2) /\ \A x \in 1..Len(H) : T2[x] = T[x]
    BY DEF HeapGrown
<1> QED BY <1>1 DEF IsRead

\* A field without a value has its default.
LEMMA DefaultRead ==
    ASSUME NEW H, NEW T, NEW f, NEW v,
           f.kind \in Kinds, f.rep \in BOOLEAN,
           IF f.rep \/ f.kind = "message" THEN ~IsTable(v) ELSE ~Accepts(f.kind, v)
    PROVE  IsRead(H, T, f, v, Default(f))
<1>1. IsArray(<<>>) /\ Len(<<>>) = 0
    BY DEF IsArray
<1>2. DOMAIN TablesIn(<<>>) = {}
    BY <1>1, TablesInIs, ArraySeq
<1>3. CASE f.rep /\ f.kind = "message"
    BY <1>2, <1>3 DEF IsRead, Default, Elements
<1>4. CASE f.rep /\ f.kind # "message"
    <2>1. {i \in DOMAIN <<>> : Accepts(f.kind, <<>>[i])} = {}
        OBVIOUS
    <2>2. InOrder({}) = <<>>
        BY FS_EmptySet DEF InOrder
    <2>3. Accepted(f.kind, <<>>) = <<>>
        BY <2>1, <2>2 DEF Accepted
    <2> QED BY <1>4, <2>3 DEF IsRead, Default, Elements
<1>5. CASE ~f.rep /\ f.kind = "message"
    BY <1>5 DEF IsRead, Default
<1>6. CASE ~f.rep /\ f.kind # "message"
    BY <1>6 DEF IsRead, Default
<1> QED BY <1>3, <1>4, <1>5, <1>6

\* One turn of the loop for a key k that lua_next has found: the top frame, which
\* is b then, moves on to it, and perhaps g frames are pushed for the messages U
\* of its field.  p is the place of the table, base the place below the new tables.
NewFrame(type, h, p, base, j) ==
    InFrame(type, h + j, base + j, IF j = 1 THEN base - p ELSE 1)

CppTurn(C, C2, n, b, g, type, h, p, base) ==
    /\ IsArray(C2) /\ Len(C2) = n + g
    /\ \A i \in 1..(n - 1) : C2[i] = C[i]
    /\ C2[n] = b
    /\ \A j \in 1..g : C2[n + j] = NewFrame(type, h, p, base, j)

LuaTurn(L, L2, k, g, U, p, base) ==
    /\ IsArray(L2) /\ Len(L2) = IF g = 0 THEN p + 1 ELSE base + g
    /\ \A i \in 1..p : L2[i] = L[i]
    /\ L2[p + 1] = k
    /\ \A j \in 1..g : L2[base + j] = U[j]

HeapTurn(H, H2, k, g, type, h, obj) ==
    /\ IsArray(H2) /\ Len(H2) = h + g
    /\ \A x \in 1..h : DOMAIN H2[x] = DOMAIN H[x]
    /\ \A x \in 1..h : \A s \in DOMAIN H[x] : x # obj \/ Key(s) # k => H2[x][s] = H[x][s]
    /\ \A j \in 1..g : H2[h + j] = NewMessage(type)

TypeTurn(T, T2, g, type, h, U) ==
    /\ \A x \in 1..h : T2[x] = T[x]
    /\ \A j \in 1..g : T2[h + j] = <<type, U[j]>>

TurnSizes(n, g, h, p, base, L, C, H, L2, C2, H2) ==
    /\ n \in Nat /\ n # 0 /\ g \in Nat /\ h \in Nat /\ p \in Nat /\ p # 0
    /\ base \in Nat /\ p < base
    /\ Len(C) = n /\ Len(H) = h /\ C[n].idx = p
    /\ Len(C2) = n + g /\ Len(H2) = h + g
    /\ Len(L2) = IF g = 0 THEN p + 1 ELSE base + g

FramesFit(o, L, C, H, T) == \A i \in 1..Len(C) : FrameFits(o, L, H, T, C[i])

BegunFrom(b, c) ==
    /\ c = [type |-> c.type, obj |-> c.obj, idx |-> c.idx, first |-> c.first, pops |-> c.pops]
    /\ b = [type |-> c.type, obj |-> c.obj, idx |-> c.idx, first |-> FALSE, pops |-> c.pops]

LEMMA BegunIs ==
    ASSUME NEW b, NEW c, BegunFrom(b, c)
    PROVE  /\ b.type = c.type /\ b.obj = c.obj /\ b.idx = c.idx /\ ~b.first
           /\ b.pops = c.pops /\ Top(b) = c.idx + 1
           /\ \A L : Cursor(L, b) = L[c.idx + 1]
<1>1. /\ b.type = c.type /\ b.obj = c.obj /\ b.idx = c.idx /\ ~b.first
      /\ b.pops = c.pops
    BY DEF BegunFrom
<1> QED BY <1>1 DEF Top, Cursor

LEMMA NewFrameIs ==
    ASSUME NEW type, NEW h, NEW p, NEW base, NEW j
    PROVE  LET c == NewFrame(type, h, p, base, j) IN
           /\ c = [type |-> c.type, obj |-> c.obj, idx |-> c.idx, first |-> c.first,
                   pops |-> c.pops]
           /\ c.type = type /\ c.obj = h + j /\ c.idx = base + j /\ c.first
           /\ (j = 1 => c.pops = base - p) /\ (j # 1 => c.pops = 1)
           /\ Top(c) = base + j
BY DEF NewFrame, InFrame, Top

LEMMA Beyond ==
    ASSUME NEW n \in Nat, NEW g \in Nat, NEW i \in 1..(n + g)
    PROVE  i \in 1..n \/ \E j \in 1..g : i = n + j
<1>1. CASE i <= n
    BY <1>1
<1>2. CASE ~(i <= n)
    <2>1. i - n \in 1..g /\ i = n + (i - n)
        BY <1>2
    <2> QED BY <2>1
<1> QED BY <1>1, <1>2

LEMMA TurnLayout ==
    ASSUME NEW n, NEW g, NEW h, NEW p, NEW base, NEW type, NEW b, NEW o,
           NEW L, NEW C, NEW H, NEW T, NEW L2, NEW C2, NEW H2,
           TurnSizes(n, g, h, p, base, L, C, H, L2, C2, H2),
           FramesFit(o, L, C, H, T), Layout(L, C), BegunFrom(b, C[n]),
           CppTurn(C, C2, n, b, g, type, h, p, base)
    PROVE  Layout(L2, C2)
<1> /\ n \in Nat /\ n # 0 /\ g \in Nat /\ h \in Nat /\ p \in Nat /\ p # 0
    /\ base \in Nat /\ p < base
    BY DEF TurnSizes
<1> /\ Len(C) = n /\ C[n].idx = p
    /\ Len(L2) = IF g = 0 THEN p + 1 ELSE base + g
    BY DEF TurnSizes
<1>0. ASSUME NEW i \in 1..n
      PROVE  C[i].obj \in 1..h /\ C[i].idx \in Nat /\ Top(C[i]) \in Nat
    <2>1. FrameFits(o, L, H, T, C[i]) /\ Len(H) = h
        BY DEF FramesFit, TurnSizes
    <2>2. PICK c : c = C[i] /\ FrameFits(o, L, H, T, c)
        BY <2>1
    <2>3. c.obj \in 1..h /\ c.idx \in Nat /\ Top(c) \in 1..Len(L)
        BY <2>1, <2>2 DEF FrameFits
    <2> QED BY <2>2, <2>3
<1>1. /\ C[1].idx = 1 /\ C[1].pops = 0
      /\ \A m \in 2..n : C[m].idx = Top(C[m - 1]) + C[m].pops
      /\ \A i, j \in 1..n : i < j => Top(C[i]) < C[j].idx /\ C[i].obj # C[j].obj
    BY DEF Layout
<1>2. \A i \in 1..n : /\ C2[i].idx = C[i].idx /\ C2[i].pops = C[i].pops /\ C2[i].obj = C[i].obj
                      /\ C2[i].obj \in 1..h /\ C2[i].idx \in Nat
                      /\ Top(C2[i]) = IF i = n THEN p + 1 ELSE Top(C[i])
    <2> SUFFICES ASSUME NEW i \in 1..n
                 PROVE  /\ C2[i].idx = C[i].idx /\ C2[i].pops = C[i].pops
                        /\ C2[i].obj = C[i].obj
                        /\ Top(C2[i]) = IF i = n THEN p + 1 ELSE Top(C[i])
        BY <1>0
    <2>1. CASE i = n
        BY <2>1, BegunIs DEF CppTurn
    <2>2. CASE i # n
        <3>1. i \in 1..(n - 1)
            BY <2>2
        <3> QED BY <2>2, <3>1 DEF CppTurn
    <2> QED BY <2>1, <2>2
<1>3. \A j \in 1..g : /\ C2[n + j].obj = h + j /\ C2[n + j].idx = base + j
                      /\ (j = 1 => C2[n + j].pops = base - p)
                      /\ (j # 1 => C2[n + j].pops = 1)
                      /\ Top(C2[n + j]) = base + j
    <2> TAKE j \in 1..g
    <2> DEFINE c == NewFrame(type, h, p, base, j)
    <2>1. C2[n + j] = c
        BY DEF CppTurn
    <2>2. /\ c.obj = h + j /\ c.idx = base + j /\ Top(c) = base + j
          /\ (j = 1 => c.pops = base - p) /\ (j # 1 => c.pops = 1)
        BY NewFrameIs
    <2> QED BY <2>1, <2>2
<1>4. Len(C2) = n + g
    BY DEF CppTurn
<1>5. \A i \in 1..(n + g) : i \in 1..n \/ \E j \in 1..g : i = n + j
    BY Beyond
<1>6. C2[1].idx = 1 /\ C2[1].pops = 0
    BY <1>1, <1>2
<1>7. Len(L2) = Top(C2[Len(C2)])
    <2>1. CASE g = 0
        BY <1>2, <1>4, <2>1
    <2>2. CASE g # 0
        BY <1>3, <1>4, <2>2
    <2> QED BY <2>1, <2>2
<1>8. ASSUME NEW i \in 2..Len(C2) PROVE C2[i].idx = Top(C2[i - 1]) + C2[i].pops
    <2>1. CASE i \in 1..n
        <3>1. i \in 2..n /\ i - 1 \in 1..n /\ i - 1 # n
            BY <2>1, <1>8
        <3> QED BY <1>1, <1>2, <3>1
    <2>2. CASE i \notin 1..n
        <3>0. i \in 1..(n + g)
            BY <1>4
        <3>1. PICK j \in 1..g : i = n + j
            BY <1>5, <2>2, <3>0
        <3>2. CASE j = 1
            <4>1. i - 1 = n /\ n \in 1..n
                BY <3>1, <3>2
            <4>2. Top(C2[n]) = p + 1
                BY <1>2, <4>1
            <4>3. C2[i].idx = base + 1 /\ C2[i].pops = base - p
                BY <1>3, <3>1, <3>2
            <4> QED BY <4>1, <4>2, <4>3
        <3>3. CASE j # 1
            <4>0. j - 1 \in 1..g
                BY <3>3
            <4>1. j - 1 \in 1..g /\ i - 1 = n + (j - 1)
                BY <3>0, <3>1, <4>0
            <4>2. Top(C2[n + (j - 1)]) = base + (j - 1)
                BY <1>3, <4>1
            <4>3. C2[n + j].idx = base + j /\ C2[n + j].pops = 1
                BY <1>3, <3>3
            <4> QED BY <3>1, <4>1, <4>2, <4>3
        <3> QED BY <3>2, <3>3
    <2> QED BY <2>1, <2>2
<1>9. ASSUME NEW i \in 1..Len(C2), NEW m \in 1..Len(C2), i < m
      PROVE  Top(C2[i]) < C2[m].idx /\ C2[i].obj # C2[m].obj
    <2>0. i \in 1..(n + g) /\ m \in 1..(n + g)
        BY <1>4
    <2>1. CASE m \in 1..n
        <3>1. i \in 1..n /\ i # n
            BY <2>1, <1>9
        <3>2. Top(C[i]) < C[m].idx /\ C[i].obj # C[m].obj
            BY <1>1, <1>9, <2>1, <3>1
        <3>3. Top(C2[i]) = Top(C[i]) /\ C2[i].obj = C[i].obj
            BY <1>2, <3>1
        <3>4. C2[m].idx = C[m].idx /\ C2[m].obj = C[m].obj
            BY <1>2, <2>1
        <3> QED BY <3>2, <3>3, <3>4
    <2>2. CASE m \notin 1..n
        <3>1. PICK j \in 1..g : m = n + j
            BY <1>5, <2>0, <2>2
        <3>2. C2[m].idx = base + j /\ C2[m].obj = h + j
            BY <1>3, <3>1
        <3>3. CASE i \in 1..n
            <4>1. C2[i].obj \in 1..h
                BY <1>2, <3>3
            <4>2. Top(C2[i]) <= p + 1 /\ Top(C2[i]) \in Nat
                <5>1. CASE i = n
                    <6>1. Top(C2[i]) = p + 1
                        BY <1>2, <3>3, <5>1
                    <6> QED BY <6>1
                <5>2. CASE i # n
                    <6>0. n \in 1..n /\ i < n
                        BY <3>3, <5>2
                    <6>1. Top(C2[i]) = Top(C[i]) /\ Top(C[i]) < p /\ Top(C[i]) \in Nat
                        BY <1>0, <1>1, <1>2, <3>3, <5>2, <6>0
                    <6> QED BY <6>1
                <5> QED BY <5>1, <5>2
            <4> QED BY <3>2, <4>1, <4>2, SMTT(30)
        <3>4. CASE i \notin 1..n
            <4>1. PICK q \in 1..g : i = n + q
                BY <1>5, <2>0, <3>4
            <4>2. Top(C2[i]) = base + q /\ C2[i].obj = h + q
                BY <1>3, <4>1
            <4>3. q < j
                BY <1>9, <3>1, <4>1
            <4> QED BY <3>2, <4>2, <4>3
        <3> QED BY <3>3, <3>4
    <2> QED BY <2>1, <2>2
<1> QED BY <1>6, <1>7, <1>8, <1>9 DEF Layout

\* A frame whose part of the Lua stack is untouched still fits.
LuaSame(L, L2, q) ==
    q \in Nat /\ Len(L2) \in Nat /\ q <= Len(L2) /\ \A i \in 1..q : L2[i] = L[i]

ReadsSame(L, L2, c) == L2[c.idx] = L[c.idx] /\ Cursor(L2, c) = Cursor(L, c)

\* What it stands for.
FrameIs(L, H, V, T, c) ==
    /\ c.obj \in 1..Len(H) /\ c.idx \in Nat /\ c.idx # 0 /\ Top(c) \in Nat
    /\ IsTable(L[c.idx]) /\ IsArray(L[c.idx].arr)
    /\ c.type \in DOMAIN Schema
    /\ <<c.type, L[c.idx]>> \in V
    /\ T[c.obj] = <<c.type, L[c.idx]>>

LEMMA FrameStays ==
    ASSUME NEW o, NEW L, NEW H, NEW T, NEW c, NEW L2, NEW H2, NEW T2, NEW q,
           FrameFits(o, L, H, T, c), LuaSame(L, L2, q), HeapGrown(H, H2, T, T2),
           Top(c) <= q
    PROVE  FrameFits(o, L2, H2, T2, c) /\ ReadsSame(L, L2, c)
<1>1. /\ c = [type |-> c.type, obj |-> c.obj, idx |-> c.idx, first |-> c.first, pops |-> c.pops]
      /\ c.first \in BOOLEAN /\ c.pops \in Nat /\ c.idx \in Nat
      /\ c.obj \in 1..Len(H)
      /\ Top(c) \in 1..Len(L) /\ c.idx \in 1..Len(L)
      /\ T[c.obj] = <<c.type, L[c.idx]>>
      /\ ~c.first => L[c.idx + 1] \in KeysBy(o, L[c.idx])
    BY DEF FrameFits
<1>0. /\ q \in Nat /\ Len(L2) \in Nat /\ q <= Len(L2) /\ \A i \in 1..q : L2[i] = L[i]
      /\ Len(H) \in Nat /\ Len(H2) \in Nat /\ Len(H) <= Len(H2)
      /\ \A x \in 1..Len(H) : T2[x] = T[x]
    BY DEF LuaSame, HeapGrown
<1>2. c.idx \in 1..q /\ (~c.first => c.idx + 1 \in 1..q)
    BY <1>0, <1>1 DEF Top
<1>3. L2[c.idx] = L[c.idx] /\ (~c.first => L2[c.idx + 1] = L[c.idx + 1])
    BY <1>0, <1>2
<1>4. Cursor(L2, c) = Cursor(L, c)
    BY <1>3 DEF Cursor
<1>5. c.obj \in 1..Len(H2) /\ T2[c.obj] = T[c.obj]
    BY <1>0, <1>1
<1>6. Top(c) \in 1..Len(L2) /\ c.idx \in 1..Len(L2)
    BY <1>0, <1>1, <1>2
<1> QED BY <1>1, <1>3, <1>4, <1>5, <1>6 DEF FrameFits, ReadsSame

LEMMA TurnFrames ==
    ASSUME NEW n, NEW g, NEW h, NEW p, NEW base, NEW type, NEW b, NEW k, NEW U, NEW o,
           NEW L, NEW C, NEW H, NEW T, NEW L2, NEW C2, NEW H2, NEW T2,
           TurnSizes(n, g, h, p, base, L, C, H, L2, C2, H2),
           FramesFit(o, L, C, H, T), Layout(L, C), BegunFrom(b, C[n]),
           k \in KeysBy(o, L[p]),
           CppTurn(C, C2, n, b, g, type, h, p, base),
           LuaTurn(L, L2, k, g, U, p, base),
           TypeTurn(T, T2, g, type, h, U)
    PROVE  /\ FramesFit(o, L2, C2, H2, T2)
           /\ \A i \in 1..(n - 1) : ReadsSame(L, L2, C[i])
<1> /\ n \in Nat /\ n # 0 /\ g \in Nat /\ h \in Nat /\ p \in Nat /\ p # 0
    /\ base \in Nat /\ p < base
    BY DEF TurnSizes
<1> Len(H) = h /\ Len(H2) = h + g /\ Len(C) = n /\ C[n].idx = p
    BY DEF TurnSizes
<1> \A i \in 1..n : FrameFits(o, L, H, T, C[i])
    BY DEF FramesFit
<1>1. /\ Len(L2) = IF g = 0 THEN p + 1 ELSE base + g
      /\ \A i \in 1..p : L2[i] = L[i]
      /\ L2[p + 1] = k
      /\ \A j \in 1..g : L2[base + j] = U[j]
    BY DEF LuaTurn
<1>2. Len(L2) \in Nat /\ p + 1 <= Len(L2)
    BY <1>1
<1>3. \A x \in 1..h : T2[x] = T[x]
    BY DEF TypeTurn
<1>4. ASSUME NEW i \in 1..(n - 1)
      PROVE  FrameFits(o, L2, H2, T2, C[i]) /\ ReadsSame(L, L2, C[i])
    <2>1. FrameFits(o, L, H, T, C[i]) /\ i \in 1..n /\ n \in 1..n /\ i < n
        OBVIOUS
    <2>2. Top(C[i]) < p
        BY <2>1 DEF Layout
    <2>3. Top(C[i]) <= p
        BY <2>1, <2>2 DEF FrameFits
    <2>4. LuaSame(L, L2, p)
        BY <1>1, <1>2 DEF LuaSame
    <2>5. HeapGrown(H, H2, T, T2)
        BY <1>3 DEF HeapGrown
    <2> QED BY <2>1, <2>3, <2>4, <2>5, FrameStays, Zenon
<1>5. FrameFits(o, L2, H2, T2, b)
    <2>1. n \in 1..n
        OBVIOUS
    <2>2. FrameFits(o, L, H, T, C[n])
        BY <2>1
    <2>3. /\ C[n].pops \in Nat /\ C[n].obj \in 1..h /\ T[C[n].obj] = <<C[n].type, L[p]>>
        BY <2>2 DEF FrameFits
    <2>4. b.type = C[n].type /\ b.obj = C[n].obj /\ b.idx = p /\ ~b.first /\ b.pops = C[n].pops
        BY BegunIs
    <2>5. b = [type |-> b.type, obj |-> b.obj, idx |-> b.idx, first |-> b.first, pops |-> b.pops]
          /\ b.first \in BOOLEAN
        BY DEF BegunFrom
    <2>6. L2[p] = L[p] /\ T2[b.obj] = <<b.type, L2[p]>> /\ L2[p + 1] \in KeysBy(o, L2[p])
        BY <1>1, <1>3, <2>3, <2>4
    <2>7. b.obj \in 1..Len(H2)
        BY <2>3, <2>4
    <2>8. Top(b) \in 1..Len(L2) /\ b.idx \in 1..Len(L2)
        BY <1>2, <2>4 DEF Top
    <2> QED BY <2>3, <2>4, <2>5, <2>6, <2>7, <2>8 DEF FrameFits
<1>6. ASSUME NEW j \in 1..g
      PROVE  FrameFits(o, L2, H2, T2, C2[n + j])
    <2>0. j \in Nat
        OBVIOUS
    <2>1. PICK c : c = C2[n + j] /\ c = NewFrame(type, h, p, base, j)
        BY DEF CppTurn
    <2>2. /\ c = [type |-> c.type, obj |-> c.obj, idx |-> c.idx, first |-> c.first,
                  pops |-> c.pops]
          /\ c.type = type /\ c.obj = h + j /\ c.idx = base + j /\ c.first
          /\ (j = 1 => c.pops = base - p) /\ (j # 1 => c.pops = 1)
          /\ Top(c) = base + j
        BY <2>1, NewFrameIs
    <2>3. c.pops \in Nat /\ c.idx \in Nat /\ c.obj \in 1..Len(H2)
        BY <2>0, <2>2
    <2>4. T2[h + j] = <<type, L2[base + j]>>
        BY <1>1 DEF TypeTurn
    <2>5. base + j \in 1..Len(L2)
        BY <1>1, <2>0
    <2>6. c.first \in BOOLEAN
        BY <2>1 DEF NewFrame, InFrame
    <2>7. FrameFits(o, L2, H2, T2, c)
        BY <2>2, <2>3, <2>4, <2>5, <2>6 DEF FrameFits
    <2> QED BY <2>1, <2>7
<1>7. ASSUME NEW i \in 1..(n + g) PROVE FrameFits(o, L2, H2, T2, C2[i])
    <2>1. CASE i \in 1..(n - 1)
        BY <1>4, <2>1 DEF CppTurn
    <2>2. CASE i = n
        BY <1>5, <2>2 DEF CppTurn
    <2>3. CASE \E j \in 1..g : i = n + j
        BY <1>6, <2>3
    <2>4. i \in 1..(n - 1) \/ i = n \/ \E j \in 1..g : i = n + j
        BY Beyond
    <2> QED BY <2>1, <2>2, <2>3, <2>4
<1>8. Len(C2) = n + g
    BY DEF CppTurn
<1> QED BY <1>4, <1>7, <1>8 DEF FramesFit

\* A field of a message that was just made: its value is ahead, or there is none.
LEMMA NewField ==
    ASSUME NEW o, NEW V, NEW type, NEW u, NEW f, NEW H, NEW T,
           Closed(o, V), <<type, u>> \in V, f \in FieldsOf(type)
    PROVE  \/ Key(f.name) \in AfterBy(o, u, Nil)
           \/ IsRead(H, T, f, Given(u, f), Default(f))
<1>1. /\ type \in DOMAIN Schema /\ IsArray(o) /\ IsArray(u.arr)
      /\ DOMAIN u.hash \subseteq {o[j] : j \in DOMAIN o}
    BY DEF Closed, Convertible
<1>2. f.kind \in Kinds /\ f.rep \in BOOLEAN
    BY <1>1, SchemaIs
<1>3. CASE f.name \in DOMAIN u.hash
    <2>1. PICK j \in DOMAIN o : o[j] = f.name
        BY <1>1, <1>3
    <2>2. Key(f.name) \in KeysBy(o, u)
        BY <1>3, <2>1 DEF KeysBy
    <2>3. RankBy(o, u, Key(f.name)) \in Nat \ {0}
        BY <1>1, <2>2, RankIs
    <2>4. RankBy(o, u, Nil) = 0
        BY KeyKinds DEF RankBy
    <2>5. RankBy(o, u, Key(f.name)) > RankBy(o, u, Nil)
        BY <2>3, <2>4
    <2> QED BY <2>2, <2>5 DEF AfterBy
<1>4. CASE f.name \notin DOMAIN u.hash
    <2>1. Given(u, f) = Nil
        BY <1>4 DEF Given
    <2>2. ~IsTable(Nil) /\ Nil.kind = "nil"
        BY KeyKinds
    <2>3. f.kind # "message" => ~Accepts(f.kind, Nil)
        BY <1>2, <2>2 DEF Accepts, AcceptsNumber, AcceptsLong, AcceptsBool, AcceptsText, Kinds
    <2> QED BY <1>2, <2>1, <2>2, <2>3, DefaultRead
<1> QED BY <1>3, <1>4

LEMMA TurnObjects ==
    ASSUME NEW n, NEW g, NEW h, NEW p, NEW base, NEW type, NEW b, NEW k, NEW U, NEW o, NEW V,
           NEW L, NEW C, NEW H, NEW T, NEW L2, NEW C2, NEW H2, NEW T2,
           TurnSizes(n, g, h, p, base, L, C, H, L2, C2, H2),
           FramesFit(o, L, C, H, T), Closed(o, V), Objects(o, L, C, H, V, T),
           BegunFrom(b, C[n]),
           CppTurn(C, C2, n, b, g, type, h, p, base),
           LuaTurn(L, L2, k, g, U, p, base),
           HeapTurn(H, H2, k, g, type, h, b.obj),
           TypeTurn(T, T2, g, type, h, U),
           \A i \in 1..(n - 1) : ReadsSame(L, L2, C[i]),
           \A j \in 1..g : <<type, U[j]>> \in V,
           AfterBy(o, L[p], k) = AfterBy(o, L[p], Cursor(L, C[n])) \ {k},
           \A f \in FieldsOf(b.type) : Key(f.name) = k => FieldRead(H2, T2, b.obj, f)
    PROVE  Objects(o, L2, C2, H2, V, T2)
<1> /\ n \in Nat /\ n # 0 /\ g \in Nat /\ h \in Nat /\ p \in Nat /\ p # 0
    /\ base \in Nat /\ p < base
    BY DEF TurnSizes
<1> /\ Len(H) = h /\ Len(H2) = h + g /\ Len(C) = n /\ Len(C2) = n + g /\ C[n].idx = p
    BY DEF TurnSizes
<1> FrameFits(o, L, H, T, C[n])
    BY DEF FramesFit
<1>1. b.type = C[n].type /\ b.obj = C[n].obj /\ b.idx = p /\ Cursor(L2, b) = L2[p + 1]
    BY BegunIs
<1>2. C[n].obj \in 1..h /\ T[C[n].obj] = <<C[n].type, L[p]>>
    BY DEF FrameFits
<1>3. L2[p] = L[p] /\ L2[p + 1] = k /\ \A j \in 1..g : L2[base + j] = U[j]
    <2>1. p \in 1..p
        OBVIOUS
    <2>2. (\A i \in 1..p : L2[i] = L[i]) /\ L2[p + 1] = k /\ \A j \in 1..g : L2[base + j] = U[j]
        BY Zenon DEF LuaTurn
    <2> QED BY <2>1, <2>2, Zenon
<1>4. HeapGrown(H, H2, T, T2)
    BY DEF HeapGrown, TypeTurn
<1>5. ASSUME NEW x \in 1..h, NEW f \in FieldsOf(T[x][1])
      PROVE  FieldRead(H2, T2, x, f) \/ Waits(o, L2, C2, H2, x, f)
    <2>0. T2[x] = T[x]
        BY DEF TypeTurn
    <2>1. CASE x = b.obj /\ Key(f.name) = k
        BY <1>1, <1>2, <2>1
    <2>2. CASE ~(x = b.obj /\ Key(f.name) = k)
        <3>1. H2[x][f.name] = H[x][f.name]
            <4>1. f.name \in Names(T[x][1])
                BY DEF Names, FieldsOf
            <4>2. f.name \in DOMAIN H[x]
                BY <4>1 DEF Objects
            <4> QED BY <2>2, <4>2 DEF HeapTurn
        <3>2. CASE FieldRead(H, T, x, f)
            <4>1. IsRead(H, T, f, Given(T[x][2], f), H[x][f.name])
                BY <3>2 DEF FieldRead
            <4>2. IsRead(H2, T2, f, Given(T[x][2], f), H[x][f.name])
                BY <1>4, <4>1, ReadStays
            <4> QED BY <2>0, <3>1, <4>2 DEF FieldRead
        <3>3. CASE Waits(o, L, C, H, x, f)
            <4>1. PICK i \in 1..n : C[i].obj = x
                                   /\ Key(f.name) \in AfterBy(o, L[C[i].idx], Cursor(L, C[i]))
                BY <3>3 DEF Waits
            <4>2. H2[x][f.name] = Default(f)
                BY <3>1, <3>3 DEF Waits
            <4>3. CASE i = n
                <5>1. Key(f.name) # k /\ Key(f.name) \in AfterBy(o, L[p], k)
                    BY <1>1, <2>2, <4>1, <4>3
                <5>2. C2[n] = b /\ n \in 1..(n + g)
                    BY DEF CppTurn
                <5>3. C2[n].obj = x /\ Key(f.name) \in AfterBy(o, L2[C2[n].idx], Cursor(L2, C2[n]))
                    BY <1>1, <1>3, <4>1, <4>3, <5>1, <5>2
                <5> QED BY <4>2, <5>2, <5>3 DEF Waits
            <4>4. CASE i # n
                <5>1. i \in 1..(n - 1) /\ i \in 1..(n + g)
                    BY <4>4
                <5>2. C2[i] = C[i] /\ L2[C[i].idx] = L[C[i].idx] /\ Cursor(L2, C[i]) = Cursor(L, C[i])
                    BY <5>1 DEF CppTurn, ReadsSame
                <5> QED BY <4>1, <4>2, <5>1, <5>2 DEF Waits
            <4> QED BY <4>3, <4>4
        <3> QED BY <3>2, <3>3 DEF Objects
    <2> QED BY <2>1, <2>2
<1>6. ASSUME NEW j \in 1..g
      PROVE  /\ T2[h + j] = <<type, U[j]>>
             /\ H2[h + j] = NewMessage(type)
             /\ \A f \in FieldsOf(type) :
                  FieldRead(H2, T2, h + j, f) \/ Waits(o, L2, C2, H2, h + j, f)
    <2>1. T2[h + j] = <<type, U[j]>> /\ H2[h + j] = NewMessage(type)
        BY DEF TypeTurn, HeapTurn
    <2>2. type \in DOMAIN Schema
        BY DEF Closed, Convertible
    <2>3. ASSUME NEW f \in FieldsOf(type)
          PROVE  FieldRead(H2, T2, h + j, f) \/ Waits(o, L2, C2, H2, h + j, f)
        <3>1. H2[h + j][f.name] = Default(f)
            BY <2>1, <2>2, SchemaIs
        <3>2. CASE IsRead(H2, T2, f, Given(U[j], f), Default(f))
            BY <2>1, <3>1, <3>2 DEF FieldRead
        <3>3. CASE Key(f.name) \in AfterBy(o, U[j], Nil)
            <4>1. PICK c : c = C2[n + j] /\ c = NewFrame(type, h, p, base, j)
                BY DEF CppTurn
            <4>2. c.obj = h + j /\ c.idx = base + j /\ c.first
                BY <4>1, NewFrameIs
            <4>3. Cursor(L2, c) = Nil
                BY <4>2 DEF Cursor
            <4>4. L2[c.idx] = U[j]
                BY <1>3, <4>2
            <4>5. n + j \in 1..Len(C2)
                OBVIOUS
            <4>6. C2[n + j].obj = h + j
                  /\ Key(f.name) \in AfterBy(o, L2[C2[n + j].idx], Cursor(L2, C2[n + j]))
                BY <3>3, <4>1, <4>2, <4>3, <4>4
            <4> QED BY <3>1, <4>5, <4>6 DEF Waits
        <3> QED BY <3>2, <3>3, NewField
    <2> QED BY <2>1, <2>3
<1>7. ASSUME NEW x \in 1..(h + g)
      PROVE  /\ T2[x] \in V
             /\ DOMAIN H2[x] = Names(T2[x][1])
             /\ \A f \in FieldsOf(T2[x][1]) : FieldRead(H2, T2, x, f) \/ Waits(o, L2, C2, H2, x, f)
    <2>1. CASE x \in 1..h
        <3>1. T2[x] = T[x] /\ DOMAIN H2[x] = DOMAIN H[x]
            BY <2>1 DEF TypeTurn, HeapTurn
        <3>2. T[x] \in V /\ DOMAIN H[x] = Names(T[x][1])
            BY <2>1 DEF Objects
        <3> QED BY <1>5, <2>1, <3>1, <3>2
    <2>2. ASSUME NEW j \in 1..g, x = h + j
          PROVE  /\ T2[x] \in V
                 /\ DOMAIN H2[x] = Names(T2[x][1])
                 /\ \A f \in FieldsOf(T2[x][1]) :
                      FieldRead(H2, T2, x, f) \/ Waits(o, L2, C2, H2, x, f)
        <3>1. type \in DOMAIN Schema
            BY DEF Closed, Convertible
        <3>2. T2[x] = <<type, U[j]>> /\ T2[x][1] = type /\ H2[x] = NewMessage(type)
            BY <1>6, <2>2
        <3>3. DOMAIN H2[x] = Names(type)
            BY <3>1, <3>2, SchemaIs
        <3> QED BY <1>6, <2>2, <3>2, <3>3
    <2>3. x \in 1..h \/ \E j \in 1..g : x = h + j
        BY Beyond
    <2> QED BY <2>1, <2>2, <2>3
<1> QED BY <1>7 DEF Objects

LEMMA FitsAre ==
    ASSUME NEW o, NEW L, NEW C, NEW H, NEW V, NEW T, ToProtoFits(o, L, C, H, V, T)
    PROVE  /\ Len(C) \in Nat /\ Len(C) # 0 /\ Len(C) \in 1..Len(C)
           /\ Len(H) \in Nat /\ Len(H) # 0 /\ Len(L) \in Nat
           /\ Closed(o, V) /\ IsArray(o) /\ IsArray(L) /\ IsArray(C) /\ C # <<>> /\ IsArray(H)
           /\ T[1] = <<Root, L[1]>>
           /\ FramesFit(o, L, C, H, T)
           /\ \A i \in 1..Len(C) : FrameIs(L, H, V, T, C[i])
           /\ Layout(L, C)
           /\ Objects(o, L, C, H, V, T)
<1>1. /\ Closed(o, V)
      /\ IsArray(L) /\ IsArray(C) /\ C # <<>> /\ IsArray(H) /\ Len(H) # 0
      /\ T[1] = <<Root, L[1]>>
      /\ \A i \in 1..Len(C) : FrameFits(o, L, H, T, C[i])
      /\ Layout(L, C)
      /\ Objects(o, L, C, H, V, T)
    BY DEF ToProtoFits
<1>2. Len(C) \in Nat /\ Len(C) # 0 /\ Len(H) \in Nat /\ Len(L) \in Nat
    BY <1>1, ArraySeq, EmptyArray
<1>3. ASSUME NEW i \in 1..Len(C) PROVE FrameIs(L, H, V, T, C[i])
    <2>0. PICK c : c = C[i]
        OBVIOUS
    <2>1. FrameFits(o, L, H, T, c)
        BY <1>1, <2>0
    <2>u. PICK u : u = L[c.idx]
        OBVIOUS
    <2>2. /\ c.obj \in 1..Len(H) /\ c.idx \in 1..Len(L) /\ Top(c) \in 1..Len(L)
          /\ T[c.obj] = <<c.type, u>>
        BY <2>1, <2>u DEF FrameFits
    <2>3. <<c.type, u>> \in V
        BY <1>1, <2>2 DEF Objects
    <2>4. Convertible(o, V, c.type, u)
        <3>1. PICK q \in V : q = <<c.type, u>>
            BY <2>3
        <3>2. Convertible(o, V, q[1], q[2]) /\ q[1] = c.type /\ q[2] = u
            BY <1>1, <3>1 DEF Closed
        <3> QED BY <3>2
    <2>5. IsTable(u) /\ IsArray(u.arr) /\ c.type \in DOMAIN Schema
        BY <2>4 DEF Convertible
    <2>6. c.idx \in Nat /\ c.idx # 0 /\ Top(c) \in Nat
        BY <1>2, <2>2
    <2>7. FrameIs(L, H, V, T, c)
        BY <2>2, <2>3, <2>5, <2>6, <2>u DEF FrameIs
    <2> QED BY <2>0, <2>7
<1>4. IsArray(o)
    BY <1>1 DEF Closed
<1> QED BY <1>1, <1>2, <1>3, <1>4 DEF FramesFit

LEMMA TurnFits ==
    ASSUME NEW o, NEW L, NEW C, NEW H, NEW V, NEW T, ToProtoFits(o, L, C, H, V, T),
           NEW b, NEW k, NEW g \in Nat, NEW type, NEW U, NEW base \in Nat,
           NEW L2, NEW C2, NEW H2, NEW T2,
           BegunFrom(b, C[Len(C)]), b.idx < base,
           k \in KeysBy(o, L[b.idx]),
           AfterBy(o, L[b.idx], k) = AfterBy(o, L[b.idx], Cursor(L, C[Len(C)])) \ {k},
           CppTurn(C, C2, Len(C), b, g, type, Len(H), b.idx, base),
           LuaTurn(L, L2, k, g, U, b.idx, base),
           HeapTurn(H, H2, k, g, type, Len(H), b.obj),
           TypeTurn(T, T2, g, type, Len(H), U),
           \A j \in 1..g : <<type, U[j]>> \in V,
           \A f \in FieldsOf(b.type) : Key(f.name) = k => FieldRead(H2, T2, b.obj, f)
    PROVE  ToProtoFits(o, L2, C2, H2, V, T2)
<1>1. PICK n \in Nat, h \in Nat, p \in Nat :
        n = Len(C) /\ h = Len(H) /\ p = b.idx /\ p = C[n].idx /\ n # 0 /\ h # 0 /\ p # 0
    <2>1. Len(C) \in Nat /\ Len(C) # 0 /\ Len(C) \in 1..Len(C) /\ Len(H) \in Nat /\ Len(H) # 0
        BY FitsAre
    <2>2. C[Len(C)].idx \in Nat /\ C[Len(C)].idx # 0
        <3>1. FrameIs(L, H, V, T, C[Len(C)])
            BY <2>1, FitsAre
        <3> QED BY <3>1 DEF FrameIs
    <2>3. b.idx = C[Len(C)].idx
        BY BegunIs
    <2> QED BY <2>1, <2>2, <2>3
<1>2. /\ Closed(o, V) /\ Layout(L, C) /\ Objects(o, L, C, H, V, T)
      /\ T[1] = <<Root, L[1]>>
    BY FitsAre
<1>3. /\ n \in 1..n
      /\ FramesFit(o, L, C, H, T)
    BY <1>1, FitsAre
<1>4. /\ CppTurn(C, C2, n, b, g, type, h, p, base)
      /\ LuaTurn(L, L2, k, g, U, p, base)
      /\ HeapTurn(H, H2, k, g, type, h, b.obj)
      /\ TypeTurn(T, T2, g, type, h, U)
    BY <1>1
<1>5. /\ IsArray(L2) /\ IsArray(C2) /\ IsArray(H2) /\ Len(C2) = n + g /\ Len(H2) = h + g
      /\ Len(L2) = IF g = 0 THEN p + 1 ELSE base + g
    BY <1>4 DEF CppTurn, LuaTurn, HeapTurn
<1>s. TurnSizes(n, g, h, p, base, L, C, H, L2, C2, H2)
    BY <1>1, <1>5 DEF TurnSizes
<1>b. BegunFrom(b, C[n]) /\ k \in KeysBy(o, L[p])
    BY <1>1
<1>6. /\ FramesFit(o, L2, C2, H2, T2)
      /\ \A i \in 1..(n - 1) : ReadsSame(L, L2, C[i])
    BY <1>s, <1>b, <1>2, <1>3, <1>4, TurnFrames
<1>7. Layout(L2, C2)
    BY <1>s, <1>b, <1>2, <1>3, <1>4, TurnLayout
<1>8. Objects(o, L2, C2, H2, V, T2)
    <2>1. AfterBy(o, L[p], k) = AfterBy(o, L[p], Cursor(L, C[n])) \ {k}
        BY <1>1
    <2> QED BY <1>s, <1>b, <1>2, <1>3, <1>4, <1>6, <2>1, TurnObjects
<1>9. C2 # <<>> /\ Len(H2) # 0
    BY <1>1, <1>5, EmptyArray
<1>10. T2[1] = <<Root, L2[1]>>
    <2>1. 1 \in 1..p /\ 1 \in 1..h
        BY <1>1
    <2> QED BY <1>2, <1>4, <2>1 DEF LuaTurn, TypeTurn
<1>11. \A i \in 1..Len(C2) : FrameFits(o, L2, H2, T2, C2[i])
    BY <1>6 DEF FramesFit
<1> QED BY <1>2, <1>5, <1>7, <1>8, <1>9, <1>10, <1>11 DEF ToProtoFits

\* lua_next finds no more keys: the frame goes, with what it was made for.
Converted(o, L, H, V, T) ==
    /\ Closed(o, V)
    /\ Len(L) = 1 /\ IsArray(H) /\ Len(H) # 0
    /\ T[1] = <<Root, L[1]>>
    /\ \A x \in 1..Len(H) :
         /\ T[x] \in V
         /\ DOMAIN H[x] = Names(T[x][1])
         /\ \A f \in FieldsOf(T[x][1]) : FieldRead(H, T, x, f)

PopTurn(L, C, L2, C2, n) ==
    /\ IsArray(L2) /\ Len(L2) = C[n].idx - C[n].pops
    /\ \A i \in 1..Len(L2) : L2[i] = L[i]
    /\ IsArray(C2) /\ Len(C2) = n - 1
    /\ \A i \in 1..(n - 1) : C2[i] = C[i]

LEMMA PopFits ==
    ASSUME NEW o, NEW L, NEW C, NEW H, NEW V, NEW T, NEW L2, NEW C2,
           ToProtoFits(o, L, C, H, V, T),
           PopTurn(L, C, L2, C2, Len(C)),
           AfterBy(o, L[C[Len(C)].idx], Cursor(L, C[Len(C)])) = {}
    PROVE  IF Len(C) = 1 THEN Converted(o, L2, H, V, T) ELSE ToProtoFits(o, L2, C2, H, V, T)
<1>1. PICK n \in Nat : n = Len(C) /\ n # 0
    BY FitsAre
<1>2. /\ Closed(o, V) /\ Layout(L, C) /\ Objects(o, L, C, H, V, T) /\ IsArray(H)
      /\ T[1] = <<Root, L[1]>>
      /\ Len(H) \in Nat /\ Len(H) # 0
      /\ FramesFit(o, L, C, H, T)
    BY FitsAre
<1>3. /\ IsArray(L2) /\ Len(L2) = C[n].idx - C[n].pops
      /\ \A i \in 1..Len(L2) : L2[i] = L[i]
      /\ IsArray(C2) /\ Len(C2) = n - 1
      /\ \A i \in 1..(n - 1) : C2[i] = C[i]
    BY <1>1 DEF PopTurn
<1>4. /\ C[1].idx = 1 /\ C[1].pops = 0
      /\ \A i \in 2..n : C[i].idx = Top(C[i - 1]) + C[i].pops
      /\ \A i, j \in 1..n : i < j => Top(C[i]) < C[j].idx /\ C[i].obj # C[j].obj
    BY <1>1, <1>2 DEF Layout
<1>5. ASSUME NEW x \in 1..Len(H), NEW f \in FieldsOf(T[x][1])
      PROVE  \/ FieldRead(H, T, x, f)
             \/ /\ H[x][f.name] = Default(f)
                /\ \E i \in 1..(n - 1) :
                     C[i].obj = x /\ Key(f.name) \in AfterBy(o, L[C[i].idx], Cursor(L, C[i]))
    <2>1. CASE Waits(o, L, C, H, x, f)
        <3>1. PICK i \in 1..n : C[i].obj = x
                               /\ Key(f.name) \in AfterBy(o, L[C[i].idx], Cursor(L, C[i]))
            BY <1>1, <2>1 DEF Waits
        <3>2. i # n
            BY <1>1, <3>1
        <3>3. i \in 1..(n - 1)
            BY <3>2
        <3> QED BY <2>1, <3>1, <3>3 DEF Waits
    <2> QED BY <1>2, <2>1 DEF Objects
<1>6. CASE n = 1
    <2>1. 1..(n - 1) = {}
        BY <1>6
    <2>2. \A x \in 1..Len(H) : \A f \in FieldsOf(T[x][1]) : FieldRead(H, T, x, f)
        BY <1>5, <2>1
    <2>3. Len(L2) = 1
        BY <1>3, <1>4, <1>6
    <2>4. L2[1] = L[1]
        BY <1>3, <2>3
    <2>5. \A x \in 1..Len(H) : T[x] \in V /\ DOMAIN H[x] = Names(T[x][1])
        BY <1>2 DEF Objects
    <2>6. Converted(o, L2, H, V, T)
        BY <1>2, <2>2, <2>3, <2>4, <2>5 DEF Converted
    <2> QED BY <1>1, <1>6, <2>6
<1>7. CASE n # 1
    <2>1. n \in 2..n /\ n - 1 \in 1..n /\ n - 1 \in 1..(n - 1) /\ 1 \in 1..(n - 1)
        BY <1>1, <1>7
    <2>2. /\ FrameFits(o, L, H, T, C[n - 1]) /\ FrameFits(o, L, H, T, C[n])
        BY <1>1, <1>2, <2>1 DEF FramesFit
    <2>3. Top(C[n - 1]) \in Nat /\ Top(C[n - 1]) # 0 /\ C[n].pops \in Nat
        <3>1. PICK c : c = C[n - 1] /\ FrameFits(o, L, H, T, c)
            BY <2>2
        <3>2. Top(c) \in 1..Len(L)
            BY <3>1 DEF FrameFits
        <3>3. Len(L) \in Nat
            BY FitsAre
        <3>4. C[n].pops \in Nat
            BY <2>2 DEF FrameFits
        <3> QED BY <3>1, <3>2, <3>3, <3>4
    <2>4. Len(L2) = Top(C[n - 1])
        BY <1>3, <1>4, <2>1, <2>3
    <2>5. PICK q \in Nat : q = Len(L2) /\ q # 0
        BY <2>3, <2>4
    <2>6. LuaSame(L, L2, q) /\ HeapGrown(H, H, T, T)
        BY <1>2, <1>3, <2>5 DEF LuaSame, HeapGrown
    <2>7. ASSUME NEW i \in 1..(n - 1)
          PROVE  FrameFits(o, L2, H, T, C[i]) /\ ReadsSame(L, L2, C[i])
        <3>1. FrameFits(o, L, H, T, C[i])
            BY <1>1, <1>2 DEF FramesFit
        <3>2. Top(C[i]) <= q
            <4>1. CASE i = n - 1
                BY <2>4, <2>5, <4>1
            <4>2. CASE i # n - 1
                <5>1. i \in 1..n /\ i < n - 1
                    BY <4>2
                <5>2. Top(C[i]) < C[n - 1].idx
                    BY <1>4, <2>1, <5>1
                <5>3. PICK c : c = C[n - 1] /\ FrameFits(o, L, H, T, c)
                    BY <2>2
                <5>4. c.idx \in Nat /\ c.idx <= Top(c)
                    BY <5>3 DEF FrameFits, Top
                <5>5. PICK d : d = C[i] /\ FrameFits(o, L, H, T, d)
                    BY <3>1
                <5>6. Top(d) \in Nat
                    BY <5>5 DEF FrameFits, Top
                <5> QED BY <2>4, <2>5, <5>2, <5>3, <5>4, <5>5, <5>6
            <4> QED BY <4>1, <4>2
        <3> QED BY <2>6, <3>1, <3>2, FrameStays, Zenon
    <2>8. FramesFit(o, L2, C2, H, T)
        BY <1>3, <2>7 DEF FramesFit
    <2>9. Layout(L2, C2)
        <3>1. C2[1] = C[1] /\ C2[Len(C2)] = C[n - 1]
            BY <1>3, <2>1
        <3>2. \A i \in 2..(n - 1) : i \in 2..n /\ i \in 1..(n - 1) /\ i - 1 \in 1..(n - 1)
            OBVIOUS
        <3>3. \A i \in 2..(n - 1) : C2[i].idx = Top(C2[i - 1]) + C2[i].pops
            BY <1>3, <1>4, <3>2, ZenonT(30)
        <3>4. \A i \in 1..(n - 1) : i \in 1..n
            OBVIOUS
        <3>5. \A i, j \in 1..(n - 1) : i < j => Top(C2[i]) < C2[j].idx /\ C2[i].obj # C2[j].obj
            <4>1. ASSUME NEW i \in 1..(n - 1), NEW j \in 1..(n - 1), i < j
                  PROVE  Top(C2[i]) < C2[j].idx /\ C2[i].obj # C2[j].obj
                <5>1. C2[i] = C[i] /\ C2[j] = C[j]
                    BY <1>3
                <5>2. Top(C[i]) < C[j].idx /\ C[i].obj # C[j].obj
                    BY <1>4, <3>4, <4>1
                <5> QED BY <5>1, <5>2
            <4> QED BY <4>1
        <3> QED BY <1>3, <1>4, <2>4, <3>1, <3>3, <3>5 DEF Layout
    <2>10. Objects(o, L2, C2, H, V, T)
        <3>1. ASSUME NEW x \in 1..Len(H), NEW f \in FieldsOf(T[x][1])
              PROVE  FieldRead(H, T, x, f) \/ Waits(o, L2, C2, H, x, f)
            <4>1. CASE FieldRead(H, T, x, f)
                BY <4>1
            <4>2. ASSUME NEW i \in 1..(n - 1), H[x][f.name] = Default(f), C[i].obj = x,
                         Key(f.name) \in AfterBy(o, L[C[i].idx], Cursor(L, C[i]))
                  PROVE  Waits(o, L2, C2, H, x, f)
                <5>1. C2[i] = C[i] /\ L2[C[i].idx] = L[C[i].idx] /\ Cursor(L2, C[i]) = Cursor(L, C[i])
                    BY <1>3, <2>7 DEF ReadsSame
                <5> QED BY <1>3, <4>2, <5>1 DEF Waits
            <4> QED BY <1>5, <4>1, <4>2
        <3>2. \A x \in 1..Len(H) : T[x] \in V /\ DOMAIN H[x] = Names(T[x][1])
            BY <1>2 DEF Objects
        <3> QED BY <3>1, <3>2 DEF Objects
    <2>11. T[1] = <<Root, L2[1]>>
        <3>1. 1 \in 1..Len(L2)
            BY <2>5
        <3> QED BY <1>2, <1>3, <3>1
    <2>12. C2 # <<>>
        BY <1>1, <1>3, <1>7, EmptyArray
    <2>13. \A i \in 1..Len(C2) : FrameFits(o, L2, H, T, C2[i])
        BY <2>8 DEF FramesFit
    <2>14. ToProtoFits(o, L2, C2, H, V, T)
        BY <1>2, <1>3, <2>9, <2>10, <2>11, <2>12, <2>13 DEF ToProtoFits
    <2> QED BY <1>1, <1>7, <2>14
<1> QED BY <1>6, <1>7

\* lua2protobuf_nostack is called with a table alone on the stack.
LEMMA StartFits ==
    ASSUME NEW o, NEW V, NEW u, NEW T, Closed(o, V), <<Root, u>> \in V, T[1] = <<Root, u>>
    PROVE  ToProtoFits(o, <<u>>, <<InFrame(Root, 1, 1, 0)>>, <<NewMessage(Root)>>, V, T)
<1> DEFINE c == InFrame(Root, 1, 1, 0)
           L == <<u>>
           C == <<c>>
           H == <<NewMessage(Root)>>
<1>1. /\ c = [type |-> c.type, obj |-> c.obj, idx |-> c.idx, first |-> c.first, pops |-> c.pops]
      /\ c.type = Root /\ c.obj = 1 /\ c.idx = 1 /\ c.first /\ c.pops = 0 /\ Top(c) = 1
      /\ c.first \in BOOLEAN /\ \A S : Cursor(S, c) = Nil
    BY DEF InFrame, Top, Cursor
<1>2. /\ IsArray(L) /\ Len(L) = 1 /\ L[1] = u
      /\ IsArray(C) /\ Len(C) = 1 /\ C[1] = c
      /\ IsArray(H) /\ Len(H) = 1 /\ H[1] = NewMessage(Root)
      /\ C # <<>>
    BY DEF IsArray
<1>3. Root \in DOMAIN Schema
    BY LuaProtoAssumption
<1> HIDE DEF c, L, C, H
<1>4. FrameFits(o, L, H, T, c)
    BY <1>1, <1>2 DEF FrameFits
<1>5. Layout(L, C)
    BY <1>1, <1>2 DEF Layout
<1>6. Objects(o, L, C, H, V, T)
    <2>1. ASSUME NEW f \in FieldsOf(Root) PROVE FieldRead(H, T, 1, f) \/ Waits(o, L, C, H, 1, f)
        <3>1. H[1][f.name] = Default(f)
            BY <1>2, <1>3, SchemaIs
        <3>2. CASE IsRead(H, T, f, Given(u, f), Default(f))
            BY <3>1, <3>2 DEF FieldRead
        <3>3. CASE Key(f.name) \in AfterBy(o, u, Nil)
            <4>1. 1 \in 1..Len(C) /\ C[1].obj = 1 /\ L[C[1].idx] = u /\ Cursor(L, C[1]) = Nil
                BY <1>1, <1>2
            <4> QED BY <3>1, <3>3, <4>1 DEF Waits
        <3> QED BY <3>2, <3>3, NewField
    <2>2. DOMAIN H[1] = Names(Root)
        BY <1>2, <1>3, SchemaIs
    <2>3. T[1] \in V /\ T[1][1] = Root
        OBVIOUS
    <2>4. \A x \in 1..Len(H) : x = 1
        BY <1>2
    <2> QED BY <2>1, <2>2, <2>3, <2>4 DEF Objects
<1>7. \A i \in 1..Len(C) : FrameFits(o, L, H, T, C[i])
    <2>1. \A i \in 1..Len(C) : i = 1
        BY <1>2
    <2> QED BY <1>2, <1>4, <2>1
<1>8. ToProtoFits(o, L, C, H, V, T)
    BY <1>2, <1>5, <1>6, <1>7 DEF ToProtoFits
<1> QED BY <1>8 DEF c, L, C, H

-----------------------------------------------------------------------------
(* The turns of the loop of lua2protobuf_nostack *)

\* The stacks when lua_next is called: n frames, and the table at place p.
AskedIs(n, p) ==
    /\ n = Len(cpp) /\ n # 0 /\ p # 0
    /\ Frame = cpp[n] /\ Frame.idx = p
    /\ BegunFrom(Begun, cpp[n])
    /\ IsArray(Asked) /\ Len(Asked) = p + 1
    /\ \A i \in 1..p : Asked[i] = lua[i]
    /\ InTable = lua[p]
    /\ Last(Asked) = Cursor(lua, cpp[n])

LEMMA FirstEnds ==
    ASSUME NEW c,
           \E a1, a2, a3, a4, a5 :
              c = [type |-> a1, obj |-> a2, idx |-> a3, first |-> a4, pops |-> a5]
    PROVE  [c EXCEPT !.first = FALSE]
             = [type |-> c.type, obj |-> c.obj, idx |-> c.idx, first |-> FALSE, pops |-> c.pops]
<1>1. PICK a1, a2, a3, a4, a5 :
        c = [type |-> a1, obj |-> a2, idx |-> a3, first |-> a4, pops |-> a5]
    OBVIOUS
<1> DEFINE R(f) == [type |-> a1, obj |-> a2, idx |-> a3, first |-> f, pops |-> a5]
           W(d, f) == [d EXCEPT !.first = f]
<1>2. \A f : W(R(a4), f) = R(f)
    OBVIOUS
<1>3. c = R(a4)
    BY <1>1
<1>4. c.type = a1 /\ c.obj = a2 /\ c.idx = a3 /\ c.pops = a5
    BY <1>1
<1> HIDE DEF R, W
<1>5. W(c, FALSE) = R(FALSE)
    BY <1>2, <1>3, Zenon
<1> QED BY <1>4, <1>5 DEF R, W

LEMMA AskedShape ==
    ASSUME NEW V, NEW T, ToProtoFits(order, lua, cpp, heap, V, T)
    PROVE  \E n, p \in Nat : AskedIs(n, p) /\ FrameIs(lua, heap, V, T, cpp[n])
<1>1. PICK n \in Nat : n = Len(cpp) /\ n # 0 /\ n \in 1..n
    BY FitsAre
<1>2. /\ IsArray(cpp) /\ cpp # <<>> /\ IsArray(lua) /\ Len(lua) \in Nat
      /\ FrameIs(lua, heap, V, T, cpp[n]) /\ FrameFits(order, lua, heap, T, cpp[n])
      /\ Layout(lua, cpp)
    BY <1>1, FitsAre DEF FramesFit
<1>3. Frame = cpp[n]
    BY <1>1, <1>2, FrontIs DEF Frame
<1>4. PICK c : c = cpp[n]
    OBVIOUS
<1>5. /\ c = [type |-> c.type, obj |-> c.obj, idx |-> c.idx, first |-> c.first, pops |-> c.pops]
      /\ c.first \in BOOLEAN /\ c.idx \in Nat
    BY <1>2, <1>4 DEF FrameFits
<1>6. PICK p \in Nat : p = c.idx /\ p # 0
    BY <1>2, <1>4, <1>5 DEF FrameIs
<1>7. BegunFrom(Begun, c)
    <2>1. Begun = [c EXCEPT !.first = FALSE]
        BY <1>3, <1>4 DEF Begun
    <2>2. [c EXCEPT !.first = FALSE]
            = [type |-> c.type, obj |-> c.obj, idx |-> c.idx, first |-> FALSE, pops |-> c.pops]
        <3>1. \E a1, a2, a3, a4, a5 :
                c = [type |-> a1, obj |-> a2, idx |-> a3, first |-> a4, pops |-> a5]
            BY <1>5
        <3> QED BY <3>1, FirstEnds
    <2>3. c = [type |-> c.type, obj |-> c.obj, idx |-> c.idx, first |-> c.first, pops |-> c.pops]
        BY <1>5
    <2> QED BY <2>1, <2>2, <2>3 DEF BegunFrom
<1>8. Len(lua) = Top(c)
    BY <1>1, <1>2, <1>4 DEF Layout
<1>9. CASE c.first
    <2>1. Len(lua) = p /\ Asked = Append(lua, Nil) /\ Cursor(lua, c) = Nil
        BY <1>3, <1>4, <1>6, <1>8, <1>9 DEF Top, Asked, Cursor
    <2>2. /\ IsArray(Asked) /\ Len(Asked) = p + 1 /\ Asked[p + 1] = Nil /\ Asked # <<>>
          /\ \A i \in 1..p : Asked[i] = lua[i]
        BY <1>2, <2>1, AppendIs
    <2>3. Last(Asked) = Nil
        BY <2>2, FrontIs
    <2>4. InTable = lua[p]
        BY <1>3, <1>4, <1>6, <2>2 DEF InTable
    <2>5. AskedIs(n, p)
        BY <1>1, <1>3, <1>4, <1>6, <1>7, <2>1, <2>2, <2>3, <2>4 DEF AskedIs
    <2> QED BY <1>2, <2>5
<1>10. CASE ~c.first
    <2>1. Len(lua) = p + 1 /\ Asked = lua /\ Cursor(lua, c) = lua[p + 1]
        BY <1>3, <1>4, <1>6, <1>8, <1>10 DEF Top, Asked, Cursor
    <2>2. Asked # <<>>
        BY <1>2, <2>1, EmptyArray
    <2>3. Last(Asked) = lua[p + 1]
        BY <1>2, <2>1, <2>2, FrontIs
    <2>4. InTable = lua[p]
        BY <1>3, <1>4, <1>6, <2>1 DEF InTable
    <2>5. AskedIs(n, p)
        BY <1>1, <1>2, <1>3, <1>4, <1>6, <1>7, <2>1, <2>3, <2>4 DEF AskedIs
    <2> QED BY <1>2, <2>5
<1> QED BY <1>5, <1>9, <1>10

\* lua_next is called with nil or with a key of the table.
LEMMA NextIsSafe ==
    ASSUME NEW V, NEW T, ToProtoFits(order, lua, cpp, heap, V, T)
    PROVE  MayNext(InTable, Last(Asked))
<1>1. PICK n \in Nat, p \in Nat : AskedIs(n, p) /\ FrameIs(lua, heap, V, T, cpp[n])
    BY AskedShape
<1>2. FrameFits(order, lua, heap, T, cpp[n])
    <2>1. n = Len(cpp)
        BY <1>1 DEF AskedIs
    <2> QED BY <2>1, FitsAre DEF FramesFit
<1>3. PICK c : c = cpp[n]
    OBVIOUS
<1>4. /\ InTable = lua[c.idx] /\ Last(Asked) = Cursor(lua, c)
    BY <1>1, <1>3 DEF AskedIs
<1>5. c.first \in BOOLEAN /\ (~c.first => lua[c.idx + 1] \in KeysBy(order, lua[c.idx]))
    BY <1>2, <1>3 DEF FrameFits
<1>6. IsTable(lua[c.idx])
    BY <1>1, <1>3 DEF FrameIs
<1>7. Keys(InTable) = KeysBy(order, lua[c.idx])
    BY <1>4, ByOrder
<1> QED BY <1>4, <1>5, <1>6, <1>7 DEF MayNext, Cursor

\* After lua_next has found a key: it is on top, and then its value.
FoundIs(n, p) ==
    /\ IsArray(KeyLeft) /\ Len(KeyLeft) = p + 1 /\ KeyLeft[p + 1] = InKey
    /\ \A i \in 1..p : KeyLeft[i] = lua[i]
    /\ IsArray(Found) /\ Len(Found) = p + 2 /\ Found[p + 1] = InKey /\ Found[p + 2] = InValue
    /\ \A i \in 1..p : Found[i] = lua[i]
    /\ IsArray(Becomes(Begun)) /\ Len(Becomes(Begun)) = n /\ Becomes(Begun)[n] = Begun
    /\ \A i \in 1..(n - 1) : Becomes(Begun)[i] = cpp[i]
    /\ IsArray(Front(cpp)) /\ Len(Front(cpp)) = n - 1
    /\ \A i \in 1..(n - 1) : Front(cpp)[i] = cpp[i]

LEMMA FoundShape ==
    ASSUME NEW V, NEW T, ToProtoFits(order, lua, cpp, heap, V, T),
           NEW n \in Nat, NEW p \in Nat, AskedIs(n, p)
    PROVE  FoundIs(n, p)
<1>1. /\ n = Len(cpp) /\ n # 0 /\ p # 0
      /\ IsArray(Asked) /\ Len(Asked) = p + 1
      /\ \A i \in 1..p : Asked[i] = lua[i]
    BY DEF AskedIs
<1>2. IsArray(cpp) /\ cpp # <<>>
    BY FitsAre
<1>3. Asked # <<>>
    BY <1>1, EmptyArray
<1>4. IsArray(Front(Asked)) /\ Len(Front(Asked)) = p /\ \A i \in 1..p : Front(Asked)[i] = lua[i]
    <2>1. (p + 1) - 1 = p
        OBVIOUS
    <2> QED BY <1>1, <1>3, <2>1, FrontIs
<1>5. PICK s : s = Front(Asked)
    OBVIOUS
<1>6. /\ IsArray(KeyLeft) /\ Len(KeyLeft) = p + 1 /\ KeyLeft[p + 1] = InKey
      /\ \A i \in 1..p : KeyLeft[i] = lua[i]
    BY <1>4, <1>5, AppendIs DEF KeyLeft
<1>7. /\ IsArray(Found) /\ Len(Found) = p + 2 /\ Found[p + 2] = InValue
      /\ \A i \in 1..(p + 1) : Found[i] = KeyLeft[i]
    <2>1. (p + 1) + 1 = p + 2
        OBVIOUS
    <2>2. PICK s2 : s2 = KeyLeft
        OBVIOUS
    <2> QED BY <1>6, <2>1, <2>2, AppendIs DEF Found
<1>8. /\ Found[p + 1] = InKey
      /\ \A i \in 1..p : Found[i] = lua[i]
    <2>1. p + 1 \in 1..(p + 1) /\ \A i \in 1..p : i \in 1..(p + 1)
        OBVIOUS
    <2> QED BY <1>6, <1>7, <2>1
<1>9. /\ IsArray(Front(cpp)) /\ Len(Front(cpp)) = n - 1
      /\ \A i \in 1..(n - 1) : Front(cpp)[i] = cpp[i]
    BY <1>1, <1>2, FrontIs
<1>10. /\ IsArray(Becomes(Begun)) /\ Len(Becomes(Begun)) = n /\ Becomes(Begun)[n] = Begun
       /\ \A i \in 1..(n - 1) : Becomes(Begun)[i] = cpp[i]
    <2>1. (n - 1) + 1 = n
        OBVIOUS
    <2>2. PICK s2 : s2 = Front(cpp)
        OBVIOUS
    <2> QED BY <1>9, <2>1, <2>2, AppendIs DEF Becomes
<1> QED BY <1>6, <1>7, <1>8, <1>9, <1>10 DEF FoundIs

\* The key found, and the field of its name.
LEMMA KeyFound ==
    ASSUME NEW V, NEW T, ToProtoFits(order, lua, cpp, heap, V, T),
           NEW n \in Nat, NEW p \in Nat, AskedIs(n, p)
    PROVE  /\ InKey = Nil => AfterBy(order, lua[p], Cursor(lua, cpp[n])) = {}
           /\ InKey # Nil =>
                /\ InKey \in KeysBy(order, lua[p])
                /\ AfterBy(order, lua[p], InKey)
                     = AfterBy(order, lua[p], Cursor(lua, cpp[n])) \ {InKey}
<1>1. PICK k : k = Cursor(lua, cpp[n])
    OBVIOUS
<1>2. InTable = lua[p] /\ Last(Asked) = k /\ InKey = NextKey(lua[p], k)
    BY <1>1 DEF AskedIs, InKey
<1>3. k = Nil \/ k \in KeysBy(order, lua[p])
    BY <1>2, NextIsSafe, ByOrder DEF MayNext
<1>4. IsArray(order)
    BY FitsAre
<1>5. IsArray(lua[p].arr)
    <2>1. n \in 1..Len(cpp) /\ cpp[n].idx = p
        BY DEF AskedIs
    <2>2. FrameIs(lua, heap, V, T, cpp[n])
        BY <2>1, FitsAre
    <2> QED BY <2>1, <2>2 DEF FrameIs
<1> QED BY <1>1, <1>2, <1>3, <1>4, <1>5, NextKeyIs

\* The field that has the name of the key found.
LEMMA FieldFound ==
    ASSUME NEW V, NEW T, ToProtoFits(order, lua, cpp, heap, V, T),
           NEW n \in Nat, NEW p \in Nat, AskedIs(n, p), InKey # Nil
    PROVE  /\ \A f \in FieldsOf(Frame.type) :
                Key(f.name) = InKey => InFields = {f} /\ InField = f /\ Given(lua[p], f) = InValue
           /\ InFields # {} => InField \in FieldsOf(Frame.type) /\ Key(InField.name) = InKey
<1>1. InKey \in KeysBy(order, lua[p])
    BY KeyFound
<1>2. FrameIs(lua, heap, V, T, Frame) /\ Frame.idx = p /\ InTable = lua[p]
    <2>1. n \in 1..Len(cpp) /\ Frame = cpp[n] /\ Frame.idx = p /\ InTable = lua[p]
        BY DEF AskedIs
    <2> QED BY <2>1, FitsAre
<1>3. Frame.type \in DOMAIN Schema /\ IsArray(lua[p].arr) /\ IsArray(order)
    BY <1>2, FitsAre DEF FrameIs
<1>4. PICK k : k = InKey
    OBVIOUS
<1>5. \/ k.kind = "number"
      \/ k.kind = "string" /\ k.s \in DOMAIN lua[p].hash /\ Key(k.s) = k
    <2>1. PICK i : \/ k = Number(i)
                   \/ k = Key(i) /\ k.s \in DOMAIN lua[p].hash
        BY <1>1, <1>3, <1>4, RankIs
    <2> QED BY <2>1, KeyKinds
<1>6. ASSUME NEW f \in FieldsOf(Frame.type), Key(f.name) = k
      PROVE  InFields = {f} /\ InField = f /\ Given(lua[p], f) = InValue
    <2>1. k.kind = "string" /\ k.s = f.name /\ k.kind # "number"
        BY <1>6, KeyKinds
    <2>2. InFields = Fields(Frame.type, f.name)
        BY <1>4, <2>1 DEF InFields
    <2>3. InFields = {f}
        BY <1>3, <2>2, SchemaIs
    <2>4. InField = f
        BY <2>3 DEF InField
    <2>5. InValue = lua[p].hash[f.name]
        BY <1>2, <1>4, <2>1 DEF InValue, At
    <2>6. f.name \in DOMAIN lua[p].hash
        BY <1>5, <2>1
    <2> QED BY <2>3, <2>4, <2>5, <2>6 DEF Given
<1>7. ASSUME InFields # {}
      PROVE  InField \in FieldsOf(Frame.type) /\ Key(InField.name) = k
    <2>1. k.kind # "number" /\ InFields = Fields(Frame.type, k.s)
        BY <1>4, <1>7 DEF InFields
    <2>2. InField \in InFields
        BY <1>7 DEF InField
    <2>3. InField \in FieldsOf(Frame.type) /\ InField.name = k.s
        BY <1>3, <2>1, <2>2, SchemaIs
    <2> QED BY <1>5, <2>1, <2>3
<1> QED BY <1>4, <1>6, <1>7

\* One field of one message is set.
HeapSet(H, H1, x, s, v) ==
    /\ IsArray(H1) /\ Len(H1) = Len(H)
    /\ \A y \in 1..Len(H) : DOMAIN H1[y] = DOMAIN H[y]
    /\ \A y \in 1..Len(H) : \A q \in DOMAIN H[y] : y # x \/ q # s => H1[y][q] = H[y][q]
    /\ H1[x][s] = v

LEMMA HeapSetIs ==
    ASSUME NEW H, IsArray(H), NEW x \in 1..Len(H), NEW s \in DOMAIN H[x], NEW v
    PROVE  HeapSet(H, [H EXCEPT ![x][s] = v], x, s, v)
<1>1. PICK w : w = [H[x] EXCEPT ![s] = v]
    OBVIOUS
<1>2. DOMAIN w = DOMAIN H[x] /\ w[s] = v /\ \A q \in DOMAIN H[x] : q # s => w[q] = H[x][q]
    BY <1>1
<1>3. [H EXCEPT ![x][s] = v] = [H EXCEPT ![x] = w]
    BY <1>1
<1>4. PICK H1 : H1 = [H EXCEPT ![x] = w]
    OBVIOUS
<1>5. /\ IsArray(H1) /\ Len(H1) = Len(H)
      /\ \A y \in 1..Len(H) : H1[y] = IF y = x THEN w ELSE H[y]
    <2>1. SetAt(H, x, w, H1)
        BY <1>4 DEF SetAt
    <2> QED BY <2>1, ExceptIs
<1>6. HeapSet(H, H1, x, s, v)
    BY <1>2, <1>5 DEF HeapSet
<1> QED BY <1>3, <1>4, <1>6

LEMMA TakeTurn ==
    ASSUME NEW V, NEW T, ToProtoFits(order, lua, cpp, heap, V, T),
           NEW n \in Nat, NEW p \in Nat, AskedIs(n, p), InKey # Nil,
           NEW g \in Nat, NEW type, NEW U, NEW base \in Nat, p < base,
           NEW L2, NEW C2, NEW H2, NEW T2,
           CppTurn(cpp, C2, n, Begun, g, type, Len(heap), p, base),
           LuaTurn(lua, L2, InKey, g, U, p, base),
           HeapTurn(heap, H2, InKey, g, type, Len(heap), Frame.obj),
           TypeTurn(T, T2, g, type, Len(heap), U),
           \A j \in 1..g : <<type, U[j]>> \in V,
           \A f \in FieldsOf(Frame.type) : Key(f.name) = InKey => FieldRead(H2, T2, Frame.obj, f)
    PROVE  ToProtoFits(order, L2, C2, H2, V, T2)
<1>1. PICK b : b = Begun
    OBVIOUS
<1>2. n = Len(cpp) /\ BegunFrom(b, cpp[n]) /\ Frame = cpp[n] /\ Frame.idx = p
    BY <1>1 DEF AskedIs
<1>3. b.idx = p /\ b.obj = Frame.obj /\ b.type = Frame.type
    BY <1>2, BegunIs
<1>4. PICK k : k = InKey
    OBVIOUS
<1>5. /\ k \in KeysBy(order, lua[p])
      /\ AfterBy(order, lua[p], k) = AfterBy(order, lua[p], Cursor(lua, cpp[n])) \ {k}
    BY <1>4, KeyFound
<1>6. /\ BegunFrom(b, cpp[Len(cpp)]) /\ b.idx < base
      /\ k \in KeysBy(order, lua[b.idx])
      /\ AfterBy(order, lua[b.idx], k) = AfterBy(order, lua[b.idx], Cursor(lua, cpp[Len(cpp)])) \ {k}
      /\ CppTurn(cpp, C2, Len(cpp), b, g, type, Len(heap), b.idx, base)
      /\ LuaTurn(lua, L2, k, g, U, b.idx, base)
      /\ HeapTurn(heap, H2, k, g, type, Len(heap), b.obj)
      /\ \A f \in FieldsOf(b.type) : Key(f.name) = k => FieldRead(H2, T2, b.obj, f)
    BY <1>1, <1>2, <1>3, <1>4, <1>5
<1> QED BY <1>6, TurnFits

\* A turn that pushes no frame.
LEMMA QuietTurn ==
    ASSUME NEW V, NEW T, ToProtoFits(order, lua, cpp, heap, V, T),
           NEW n \in Nat, NEW p \in Nat, AskedIs(n, p), InKey # Nil,
           NEW H2, HeapTurn(heap, H2, InKey, 0, Root, Len(heap), Frame.obj),
           \A f \in FieldsOf(Frame.type) : Key(f.name) = InKey => FieldRead(H2, T, Frame.obj, f)
    PROVE  ToProtoFits(order, KeyLeft, Becomes(Begun), H2, V, T)
<1>1. FoundIs(n, p)
    BY FoundShape
<1>2. 1..0 = {} /\ n + 0 = n /\ p + 1 \in Nat /\ p < p + 1
    OBVIOUS
<1>3. CppTurn(cpp, Becomes(Begun), n, Begun, 0, Root, Len(heap), p, p + 1)
    BY <1>1, <1>2 DEF FoundIs, CppTurn
<1>4. LuaTurn(lua, KeyLeft, InKey, 0, <<>>, p, p + 1)
    BY <1>1, <1>2 DEF FoundIs, LuaTurn
<1>5. TypeTurn(T, T, 0, Root, Len(heap), <<>>)
    BY <1>2 DEF TypeTurn
<1>7. PICK base, L2, C2, U :
         base = p + 1 /\ L2 = KeyLeft /\ C2 = Becomes(Begun) /\ U = <<>>
    OBVIOUS
<1>8. /\ base \in Nat /\ p < base
      /\ CppTurn(cpp, C2, n, Begun, 0, Root, Len(heap), p, base)
      /\ LuaTurn(lua, L2, InKey, 0, U, p, base)
      /\ TypeTurn(T, T, 0, Root, Len(heap), U)
      /\ \A j \in 1..0 : <<Root, U[j]>> \in V
    BY <1>2, <1>3, <1>4, <1>5, <1>7
<1>9. ToProtoFits(order, L2, C2, H2, V, T)
    BY <1>8, TakeTurn
<1> QED BY <1>7, <1>9

\* The message of a frame has every field of its type.
LEMMA FrameObject ==
    ASSUME NEW V, NEW T, ToProtoFits(order, lua, cpp, heap, V, T),
           NEW n \in Nat, NEW p \in Nat, AskedIs(n, p)
    PROVE  /\ IsArray(heap) /\ Len(heap) \in Nat /\ Frame.obj \in 1..Len(heap)
           /\ T[Frame.obj] = <<Frame.type, lua[p]>>
           /\ T[Frame.obj][1] = Frame.type /\ T[Frame.obj][2] = lua[p]
           /\ Frame.type \in DOMAIN Schema
           /\ <<Frame.type, lua[p]>> \in V
           /\ \A f \in FieldsOf(Frame.type) :
                /\ f.name \in DOMAIN heap[Frame.obj]
                /\ \/ FieldRead(heap, T, Frame.obj, f)
                   \/ heap[Frame.obj][f.name] = Default(f)
<1>1. IsArray(heap) /\ Len(heap) \in Nat /\ Objects(order, lua, cpp, heap, V, T)
    BY FitsAre
<1>2. FrameIs(lua, heap, V, T, Frame) /\ Frame.idx = p
    <2>1. n \in 1..Len(cpp) /\ Frame = cpp[n] /\ Frame.idx = p
        BY DEF AskedIs
    <2> QED BY <2>1, FitsAre
<1>3. /\ Frame.obj \in 1..Len(heap) /\ T[Frame.obj] = <<Frame.type, lua[p]>>
      /\ Frame.type \in DOMAIN Schema /\ <<Frame.type, lua[p]>> \in V
    BY <1>2 DEF FrameIs
<1>4. PICK x : x = Frame.obj
    OBVIOUS
<1>5. T[x][1] = Frame.type /\ T[x][2] = lua[p]
    BY <1>3, <1>4
<1>6. ASSUME NEW f \in FieldsOf(Frame.type)
      PROVE  /\ f.name \in DOMAIN heap[x]
             /\ FieldRead(heap, T, x, f) \/ heap[x][f.name] = Default(f)
    <2>1. /\ DOMAIN heap[x] = Names(Frame.type)
          /\ FieldRead(heap, T, x, f) \/ Waits(order, lua, cpp, heap, x, f)
        BY <1>1, <1>3, <1>4, <1>5 DEF Objects
    <2>2. f.name \in Names(Frame.type)
        BY DEF Names, FieldsOf
    <2> QED BY <2>1, <2>2 DEF Waits
<1> QED BY <1>1, <1>3, <1>4, <1>5, <1>6

LEMMA ReadNow ==
    ASSUME NEW V, NEW T, ToProtoFits(order, lua, cpp, heap, V, T),
           NEW n \in Nat, NEW p \in Nat, AskedIs(n, p), InKey # Nil,
           NEW H2, NEW T2, T2[Frame.obj] = T[Frame.obj],
           IsRead(H2, T2, InField, InValue, H2[Frame.obj][InField.name])
    PROVE  \A f \in FieldsOf(Frame.type) : Key(f.name) = InKey => FieldRead(H2, T2, Frame.obj, f)
<1>0. T[Frame.obj][2] = lua[p]
    BY FrameObject, ZenonT(30)
<1>1. T2[Frame.obj][2] = lua[p]
    BY <1>0, Zenon
<1> QED BY <1>1, FieldFound DEF FieldRead

LEMMA SetTurn ==
    ASSUME NEW H1, NEW v, HeapSet(heap, H1, Frame.obj, InField.name, v),
           Key(InField.name) = InKey, Len(heap) \in Nat
    PROVE  HeapTurn(heap, H1, InKey, 0, Root, Len(heap), Frame.obj)
<1>1. 1..0 = {} /\ Len(heap) + 0 = Len(heap)
    OBVIOUS
<1> QED BY <1>1 DEF HeapSet, HeapTurn

LEMMA SkipFits ==
    ASSUME NEW V, NEW T, ToProtoFits(order, lua, cpp, heap, V, T), InSkips
    PROVE  ToProtoFits(order', lua', cpp', heap', V, T)
<1>1. PICK n \in Nat, p \in Nat : AskedIs(n, p)
    BY AskedShape
<1>2. /\ InKey # Nil /\ ~InFits
      /\ lua' = KeyLeft /\ cpp' = Becomes(Begun) /\ heap' = heap /\ order' = order
    BY DEF InSkips, InMore
<1>3. IsArray(heap) /\ Len(heap) \in Nat
    BY FitsAre
<1>4. HeapTurn(heap, heap, InKey, 0, Root, Len(heap), Frame.obj)
    <2>1. 1..0 = {} /\ Len(heap) + 0 = Len(heap)
        BY <1>3
    <2> QED BY <1>3, <2>1 DEF HeapTurn
<1>5. ASSUME NEW f \in FieldsOf(Frame.type), Key(f.name) = InKey
      PROVE  FieldRead(heap, T, Frame.obj, f)
    <2>1. InFields = {f} /\ InField = f /\ Given(lua[p], f) = InValue
        BY <1>1, <1>2, <1>5, FieldFound
    <2>2. IF f.rep \/ f.kind = "message" THEN ~IsTable(InValue) ELSE ~Accepts(f.kind, InValue)
        BY <1>2, <2>1 DEF InFits
    <2>3. f.kind \in Kinds /\ f.rep \in BOOLEAN
        BY <1>1, FrameObject, SchemaIs
    <2>4. IsRead(heap, T, f, InValue, Default(f))
        BY <2>2, <2>3, DefaultRead
    <2>5. FieldRead(heap, T, Frame.obj, f) \/ heap[Frame.obj][f.name] = Default(f)
        BY <1>1, FrameObject
    <2>6. T[Frame.obj][2] = lua[p]
        BY <1>1, FrameObject
    <2> QED BY <2>1, <2>4, <2>5, <2>6 DEF FieldRead
<1>6. ToProtoFits(order, KeyLeft, Becomes(Begun), heap, V, T)
    BY <1>1, <1>2, <1>4, <1>5, QuietTurn
<1> QED BY <1>2, <1>6

\* A field that is not of messages.
LEMMA SetFits ==
    ASSUME NEW V, NEW T, ToProtoFits(order, lua, cpp, heap, V, T),
           InMore, InFits, NEW v, SetField(v),
           \A H : IsRead(H, T, InField, InValue, v),
           lua' = KeyLeft, cpp' = Becomes(Begun), order' = order
    PROVE  ToProtoFits(order', lua', cpp', heap', V, T)
<1>1. PICK n \in Nat, p \in Nat : AskedIs(n, p)
    BY AskedShape
<1>2. InKey # Nil /\ InFields # {}
    BY DEF InMore, InFits
<1>3. InField \in FieldsOf(Frame.type) /\ Key(InField.name) = InKey
    BY <1>1, <1>2, FieldFound
<1>4. /\ IsArray(heap) /\ Len(heap) \in Nat /\ Frame.obj \in 1..Len(heap)
      /\ InField.name \in DOMAIN heap[Frame.obj]
    BY <1>1, <1>3, FrameObject
<1>5. PICK H2 : H2 = heap'
    OBVIOUS
<1>6. HeapSet(heap, H2, Frame.obj, InField.name, v)
    BY <1>4, <1>5, HeapSetIs DEF SetField
<1>7. HeapTurn(heap, H2, InKey, 0, Root, Len(heap), Frame.obj)
    BY <1>3, <1>4, <1>6, SetTurn
<1>8. H2[Frame.obj][InField.name] = v
    BY <1>6 DEF HeapSet
<1>9. \A f \in FieldsOf(Frame.type) : Key(f.name) = InKey => FieldRead(H2, T, Frame.obj, f)
    <2>1. IsRead(H2, T, InField, InValue, H2[Frame.obj][InField.name])
        BY <1>8
    <2> QED BY <1>1, <1>2, <2>1, ReadNow
<1>10. ToProtoFits(order, KeyLeft, Becomes(Begun), H2, V, T)
    BY <1>1, <1>2, <1>7, <1>9, QuietTurn
<1> QED BY <1>5, <1>10

LEMMA ScalarFits ==
    ASSUME NEW V, NEW T, ToProtoFits(order, lua, cpp, heap, V, T), InScalar
    PROVE  ToProtoFits(order', lua', cpp', heap', V, T)
<1>1. PICK f, v : f = InField /\ v = InValue
    OBVIOUS
<1>2. /\ InMore /\ InFits /\ ~f.rep /\ f.kind # "message" /\ SetField(<<v.n>>)
      /\ lua' = KeyLeft /\ cpp' = Becomes(Begun) /\ order' = order
    BY <1>1 DEF InScalar
<1>3. Accepts(f.kind, v)
    BY <1>1, <1>2 DEF InFits
<1>4. \A H : IsRead(H, T, f, v, <<v.n>>)
    BY <1>2, <1>3 DEF IsRead
<1> QED BY <1>1, <1>2, <1>4, SetFits

LEMMA ScalarsFit ==
    ASSUME NEW V, NEW T, ToProtoFits(order, lua, cpp, heap, V, T), InScalars
    PROVE  ToProtoFits(order', lua', cpp', heap', V, T)
<1>1. PICK f, v : f = InField /\ v = InValue
    OBVIOUS
<1>2. /\ InMore /\ InFits /\ f.rep /\ f.kind # "message" /\ SetField(Accepted(f.kind, v.arr))
      /\ lua' = KeyLeft /\ cpp' = Becomes(Begun) /\ order' = order
    BY <1>1 DEF InScalars
<1>3. IsTable(v) /\ Elements(v) = v.arr
    BY <1>1, <1>2 DEF InFits, Elements
<1>4. \A H : IsRead(H, T, f, v, Accepted(f.kind, v.arr))
    BY <1>2, <1>3 DEF IsRead
<1> QED BY <1>1, <1>2, <1>4, SetFits

\* A sequence of length a, and after it one of length b.
Joined(r, s, t, a, b) ==
    /\ IsArray(r) /\ Len(r) = a + b
    /\ \A i \in 1..a : r[i] = s[i]
    /\ \A i \in 1..b : r[a + i] = t[i]

LEMMA JoinedIs ==
    ASSUME NEW s, NEW t, IsArray(s), IsArray(t), NEW a, NEW b, a = Len(s), b = Len(t)
    PROVE  Joined(s \o t, s, t, a, b)
BY ConcatIs DEF Joined

\* A turn that pushes frames for new messages.
Added(H1, H2, g, type, h) ==
    /\ IsArray(H2) /\ Len(H2) = h + g
    /\ \A x \in 1..h : H2[x] = H1[x]
    /\ \A j \in 1..g : H2[h + j] = NewMessage(type)

LEMMA AddedTurn ==
    ASSUME NEW H1, NEW H2, NEW v, NEW g \in Nat, NEW type,
           HeapSet(heap, H1, Frame.obj, InField.name, v),
           Added(H1, H2, g, type, Len(heap)),
           Key(InField.name) = InKey, Len(heap) \in Nat, Frame.obj \in 1..Len(heap)
    PROVE  /\ HeapTurn(heap, H2, InKey, g, type, Len(heap), Frame.obj)
           /\ H2[Frame.obj][InField.name] = v
BY DEF HeapSet, HeapTurn, Added

LEMMA TypesExist ==
    ASSUME NEW T, NEW g \in Nat, NEW type, NEW h \in Nat, NEW U
    PROVE  \E T2 : TypeTurn(T, T2, g, type, h, U)
<1>1. PICK T2 : T2 = [x \in 1..(h + g) |-> IF x <= h THEN T[x] ELSE <<type, U[x - h]>>]
    OBVIOUS
<1>2. ASSUME NEW x \in 1..h PROVE T2[x] = T[x]
    BY <1>1
<1>3. ASSUME NEW j \in 1..g PROVE T2[h + j] = <<type, U[j]>>
    <2>1. h + j \in 1..(h + g) /\ ~(h + j <= h) /\ (h + j) - h = j
        OBVIOUS
    <2> QED BY <1>1, <2>1
<1> QED BY <1>2, <1>3 DEF TypeTurn

LEMMA LoudTurn ==
    ASSUME NEW V, NEW T, ToProtoFits(order, lua, cpp, heap, V, T),
           NEW n \in Nat, NEW p \in Nat, AskedIs(n, p), InKey # Nil, InFields # {},
           NEW g \in Nat, NEW type, NEW U, NEW base \in Nat, p < base,
           NEW L2, NEW C2, NEW H1, NEW H2, NEW v,
           CppTurn(cpp, C2, n, Begun, g, type, Len(heap), p, base),
           LuaTurn(lua, L2, InKey, g, U, p, base),
           HeapSet(heap, H1, Frame.obj, InField.name, v),
           Added(H1, H2, g, type, Len(heap)),
           \A j \in 1..g : <<type, U[j]>> \in V,
           \A T2 : TypeTurn(T, T2, g, type, Len(heap), U) => IsRead(H2, T2, InField, InValue, v)
    PROVE  \E T2 : ToProtoFits(order, L2, C2, H2, V, T2)
<1>1. Key(InField.name) = InKey
    BY FieldFound
<1>2. Len(heap) \in Nat /\ Frame.obj \in 1..Len(heap)
    BY FrameObject
<1>3. PICK T2 : TypeTurn(T, T2, g, type, Len(heap), U)
    BY <1>2, TypesExist
<1>4. /\ HeapTurn(heap, H2, InKey, g, type, Len(heap), Frame.obj)
      /\ H2[Frame.obj][InField.name] = v
    BY <1>1, <1>2, AddedTurn
<1>5. T2[Frame.obj] = T[Frame.obj]
    BY <1>2, <1>3 DEF TypeTurn
<1>6. IsRead(H2, T2, InField, InValue, H2[Frame.obj][InField.name])
    BY <1>3, <1>4
<1>7. \A f \in FieldsOf(Frame.type) : Key(f.name) = InKey => FieldRead(H2, T2, Frame.obj, f)
    BY <1>5, <1>6, ReadNow
<1>8. ToProtoFits(order, L2, C2, H2, V, T2)
    BY <1>3, <1>4, <1>7, TakeTurn
<1> QED BY <1>8

\* The tables for a field of messages are among those that can be converted.
LEMMA ValueKnown ==
    ASSUME NEW V, NEW T, ToProtoFits(order, lua, cpp, heap, V, T),
           NEW n \in Nat, NEW p \in Nat, AskedIs(n, p), InKey # Nil, InFits,
           InField.kind = "message"
    PROVE  /\ IsTable(InValue) /\ IsArray(InValue.arr)
           /\ ~InField.rep => <<InField.type, InValue>> \in V
           /\ InField.rep =>
                /\ InValue.arr # <<>> => IsTable(InValue.arr[1])
                /\ \A j \in DOMAIN InValue.arr :
                     IsTable(InValue.arr[j]) => <<InField.type, InValue.arr[j]>> \in V
<1>1. PICK f, v : f = InField /\ v = InValue
    OBVIOUS
<1>2. InFields # {} /\ IsTable(v)
    BY <1>1 DEF InFits
<1>3. f \in FieldsOf(Frame.type) /\ Given(lua[p], f) = v
    BY <1>1, <1>2, FieldFound
<1>4. Convertible(order, V, Frame.type, lua[p])
    <2>1. PICK q \in V : q = <<Frame.type, lua[p]>>
        BY FrameObject
    <2>2. Convertible(order, V, q[1], q[2]) /\ q[1] = Frame.type /\ q[2] = lua[p]
        BY <2>1, FitsAre DEF Closed
    <2> QED BY <2>2
<1>5. /\ IsArray(v.arr)
      /\ f.kind = "message" /\ ~f.rep => <<f.type, v>> \in V
      /\ f.kind = "message" /\ f.rep =>
           /\ v.arr # <<>> => IsTable(v.arr[1])
           /\ \A j \in DOMAIN v.arr : IsTable(v.arr[j]) => <<f.type, v.arr[j]>> \in V
    BY <1>2, <1>3, <1>4 DEF Convertible
<1> QED BY <1>1, <1>2, <1>5

LEMMA MessageFits ==
    ASSUME NEW V, NEW T, ToProtoFits(order, lua, cpp, heap, V, T), InMessage
    PROVE  \E T2 : ToProtoFits(order', lua', cpp', heap', V, T2)
<1>1. PICK n \in Nat, p \in Nat : AskedIs(n, p)
    BY AskedShape
<1>2. PICK h \in Nat : h = Len(heap)
    BY FitsAre
<1>3. PICK f, v, type : f = InField /\ v = InValue /\ type = f.type
    OBVIOUS
<1>4. /\ InKey # Nil /\ InFits /\ InFields # {} /\ ~f.rep /\ f.kind = "message"
      /\ heap' = Append([heap EXCEPT ![Frame.obj][f.name] = <<h + 1>>], NewMessage(type))
      /\ lua' = Found
      /\ cpp' = Append(Becomes(Begun), InFrame(type, h + 1, Len(Found), 1))
      /\ order' = order
    BY <1>2, <1>3 DEF InMessage, InMore, InFits
<1>5. FoundIs(n, p)
    BY <1>1, FoundShape
<1>6. PICK base \in Nat : base = p + 1
    OBVIOUS
<1>7. PICK U : U[1] = v
    <2>1. <<v>>[1] = v
        OBVIOUS
    <2> QED BY <2>1
<1>8. p < base /\ base + 1 = p + 2 /\ base - p = 1 /\ 1..1 = {1}
    BY <1>6
<1>9. CppTurn(cpp, cpp', n, Begun, 1, type, h, p, base)
    <2>1. PICK s : s = Becomes(Begun)
        OBVIOUS
    <2>2. /\ IsArray(s) /\ Len(s) = n /\ s[n] = Begun /\ Len(Found) = p + 2
          /\ \A i \in 1..(n - 1) : s[i] = cpp[i]
        BY <1>5, <2>1 DEF FoundIs
    <2>3. PICK c : c = InFrame(type, h + 1, Len(Found), 1)
        OBVIOUS
    <2>4. c = NewFrame(type, h, p, base, 1)
        BY <1>8, <2>2, <2>3 DEF NewFrame
    <2>5. PICK C2 : C2 = cpp' /\ C2 = Append(s, c)
        BY <1>4, <2>1, <2>3
    <2>6. /\ IsArray(C2) /\ Len(C2) = n + 1 /\ C2[n + 1] = c
          /\ \A i \in 1..n : C2[i] = s[i]
        BY <2>2, <2>5, AppendIs
    <2>7. n \in 1..n /\ \A i \in 1..(n - 1) : i \in 1..n
        BY <1>1 DEF AskedIs
    <2>8. CppTurn(cpp, C2, n, Begun, 1, type, h, p, base)
        BY <1>8, <2>2, <2>4, <2>6, <2>7 DEF CppTurn
    <2> QED BY <2>5, <2>8
<1>10. LuaTurn(lua, lua', InKey, 1, U, p, base)
    BY <1>3, <1>4, <1>5, <1>7, <1>8 DEF LuaTurn, FoundIs
<1>11. PICK H1 : H1 = [heap EXCEPT ![Frame.obj][f.name] = <<h + 1>>]
    OBVIOUS
<1>12. HeapSet(heap, H1, Frame.obj, f.name, <<h + 1>>)
    <2>1. f \in FieldsOf(Frame.type)
        BY <1>1, <1>3, <1>4, FieldFound
    <2>2. IsArray(heap) /\ Frame.obj \in 1..Len(heap) /\ f.name \in DOMAIN heap[Frame.obj]
        BY <1>1, <2>1, FrameObject
    <2> QED BY <1>11, <2>2, HeapSetIs
<1>13. Added(H1, heap', 1, type, h)
    <2>1. IsArray(H1) /\ Len(H1) = h
        BY <1>2, <1>12 DEF HeapSet
    <2>2. PICK w : w = NewMessage(type)
        OBVIOUS
    <2>3. PICK H2 : H2 = heap' /\ H2 = Append(H1, w)
        BY <1>4, <1>11, <2>2
    <2>4. IsArray(H2) /\ Len(H2) = h + 1 /\ H2[h + 1] = w /\ \A x \in 1..h : H2[x] = H1[x]
        BY <2>1, <2>3, AppendIs
    <2> QED BY <1>8, <2>2, <2>3, <2>4 DEF Added
<1>14. \A j \in 1..1 : <<type, U[j]>> \in V
    BY <1>1, <1>3, <1>4, <1>7, <1>8, ValueKnown
<1>15. ASSUME NEW T2, TypeTurn(T, T2, 1, type, h, U) PROVE IsRead(heap', T2, f, v, <<h + 1>>)
    <2>1. Len(heap') = h + 1 /\ h + 1 \in 1..(h + 1)
        BY <1>13 DEF Added
    <2>2. T2[h + 1] = <<type, v>>
        BY <1>7, <1>8, <1>15 DEF TypeTurn
    <2>3. IsTable(v)
        BY <1>1, <1>3, <1>4, ValueKnown
    <2> QED BY <1>3, <1>4, <2>1, <2>2, <2>3 DEF IsRead
<1>16. PICK L2, C2, H2, w : L2 = lua' /\ C2 = cpp' /\ H2 = heap' /\ w = <<h + 1>>
    OBVIOUS
<1>17. /\ CppTurn(cpp, C2, n, Begun, 1, type, Len(heap), p, base)
       /\ LuaTurn(lua, L2, InKey, 1, U, p, base)
       /\ HeapSet(heap, H1, Frame.obj, InField.name, w)
       /\ Added(H1, H2, 1, type, Len(heap))
       /\ \A T2 : TypeTurn(T, T2, 1, type, Len(heap), U) => IsRead(H2, T2, InField, InValue, w)
    BY <1>2, <1>3, <1>9, <1>10, <1>12, <1>13, <1>15, <1>16
<1>18. \E T2 : ToProtoFits(order, L2, C2, H2, V, T2)
    BY <1>1, <1>4, <1>8, <1>14, <1>17, LoudTurn
<1> QED BY <1>4, <1>16, <1>18

LEMMA MessagesFit ==
    ASSUME NEW V, NEW T, ToProtoFits(order, lua, cpp, heap, V, T), InMessages
    PROVE  \E T2 : ToProtoFits(order', lua', cpp', heap', V, T2)
<1>1. PICK n \in Nat, p \in Nat : AskedIs(n, p)
    BY AskedShape
<1>2. PICK h \in Nat : h = Len(heap)
    BY FitsAre
<1>3. PICK f, v, type, good :
        f = InField /\ v = InValue /\ type = f.type /\ good = TablesIn(v.arr)
    OBVIOUS
<1>4. PICK got, news, U, frames :
        /\ got = [i \in DOMAIN good |-> h + i]
        /\ news = [i \in DOMAIN good |-> NewMessage(type)]
        /\ U = [i \in DOMAIN good |-> v.arr[good[i]]]
        /\ frames = [i \in DOMAIN good |->
                        InFrame(type, h + i, Len(Found) + i, IF good[i] = 1 THEN 2 ELSE 1)]
    OBVIOUS
<1>5. PICK H1 : H1 = [heap EXCEPT ![Frame.obj][f.name] = got]
    OBVIOUS
<1>6. /\ InKey # Nil /\ InFits /\ InFields # {} /\ f.rep /\ f.kind = "message"
      /\ order' = order
    BY <1>3 DEF InMessages, InMore, InFits
<1>7. /\ heap' = H1 \o news
      /\ lua' = IF v.arr = <<>> THEN KeyLeft ELSE Found \o U
      /\ cpp' = Becomes(Begun) \o frames
    BY <1>2, <1>3, <1>4, <1>5 DEF InMessages
<1>8. FoundIs(n, p)
    BY <1>1, FoundShape
<1>9. /\ IsTable(v) /\ IsArray(v.arr)
      /\ v.arr # <<>> => IsTable(v.arr[1])
      /\ \A j \in DOMAIN v.arr : IsTable(v.arr[j]) => <<f.type, v.arr[j]>> \in V
    BY <1>1, <1>3, <1>6, ValueKnown
<1>10. /\ IsArray(good)
       /\ \A k \in 1..Len(good) : good[k] \in 1..Len(v.arr) /\ IsTable(v.arr[good[k]])
       /\ v.arr # <<>> => /\ Len(good) # 0
                          /\ \A k \in 1..Len(good) : good[k] = 1 <=> k = 1
       /\ v.arr = <<>> => Len(good) = 0
    BY <1>3, <1>9, TablesInIs
<1>11. PICK g \in Nat : g = Len(good)
    BY <1>10, ArraySeq
<1>12. DOMAIN good = 1..g /\ DOMAIN v.arr = 1..Len(v.arr)
    BY <1>9, <1>10, <1>11, ArraySeq
<1>13. PICK base \in Nat : base = p + 2
    OBVIOUS
<1>14. p < base /\ base - p = 2 /\ Len(Found) = base
    BY <1>8, <1>13 DEF FoundIs
<1>15. /\ IsArray(news) /\ Len(news) = g
       /\ IsArray(U) /\ Len(U) = g
       /\ IsArray(frames) /\ Len(frames) = g
    <2>1. /\ news = [i \in 1..g |-> news[i]] /\ U = [i \in 1..g |-> U[i]]
          /\ frames = [i \in 1..g |-> frames[i]]
        BY <1>4, <1>12
    <2> QED BY <2>1, MadeArray
<1>16. CppTurn(cpp, cpp', n, Begun, g, type, h, p, base)
    <2>1. PICK s : s = Becomes(Begun)
        OBVIOUS
    <2>2. /\ IsArray(s) /\ Len(s) = n /\ s[n] = Begun
          /\ \A i \in 1..(n - 1) : s[i] = cpp[i]
        BY <1>8, <2>1 DEF FoundIs
    <2>3. ASSUME NEW j \in 1..g PROVE frames[j] = NewFrame(type, h, p, base, j)
        <3>1. v.arr # <<>> /\ (good[j] = 1 <=> j = 1)
            BY <1>10, <1>11
        <3>2. frames[j] = InFrame(type, h + j, base + j, IF j = 1 THEN 2 ELSE 1)
            BY <1>4, <1>12, <1>14, <3>1
        <3> QED BY <1>14, <3>2 DEF NewFrame
    <2>4. PICK C2 : C2 = cpp' /\ C2 = s \o frames
        BY <1>7, <2>1
    <2>5. /\ IsArray(C2) /\ Len(C2) = n + g
          /\ \A i \in 1..n : C2[i] = s[i]
          /\ \A i \in 1..g : C2[n + i] = frames[i]
        <3>1. Joined(s \o frames, s, frames, n, g)
            BY <1>15, <2>2, JoinedIs
        <3> QED BY <2>4, <3>1 DEF Joined
    <2>6. n \in 1..n /\ \A i \in 1..(n - 1) : i \in 1..n
        BY <1>1 DEF AskedIs
    <2>7. CppTurn(cpp, C2, n, Begun, g, type, h, p, base)
        BY <2>2, <2>3, <2>5, <2>6 DEF CppTurn
    <2> QED BY <2>4, <2>7
<1>17. LuaTurn(lua, lua', InKey, g, U, p, base)
    <2>1. CASE v.arr = <<>>
        <3>1. g = 0 /\ 1..g = {}
            BY <1>10, <1>11, <2>1
        <3>2. lua' = KeyLeft
            BY <1>7, <2>1
        <3>3. /\ IsArray(KeyLeft) /\ Len(KeyLeft) = p + 1 /\ KeyLeft[p + 1] = InKey
              /\ \A i \in 1..p : KeyLeft[i] = lua[i]
            BY <1>8 DEF FoundIs
        <3> QED BY <3>1, <3>2, <3>3 DEF LuaTurn
    <2>2. CASE v.arr # <<>>
        <3>1. g # 0
            BY <1>10, <1>11, <2>2
        <3>2. PICK s, L2 : s = Found /\ L2 = lua' /\ L2 = s \o U
            BY <1>7, <2>2
        <3>3. /\ IsArray(s) /\ Len(s) = base /\ s[p + 1] = InKey
              /\ \A i \in 1..p : s[i] = lua[i]
            BY <1>8, <1>13, <3>2 DEF FoundIs
        <3>4. /\ IsArray(L2) /\ Len(L2) = base + g
              /\ \A i \in 1..base : L2[i] = s[i]
              /\ \A i \in 1..g : L2[base + i] = U[i]
            <4>1. Joined(s \o U, s, U, base, g)
                BY <1>15, <3>3, JoinedIs
            <4> QED BY <3>2, <4>1 DEF Joined
        <3>5. p + 1 \in 1..base /\ \A i \in 1..p : i \in 1..base
            BY <1>13
        <3>6. LuaTurn(lua, L2, InKey, g, U, p, base)
            BY <3>1, <3>3, <3>4, <3>5 DEF LuaTurn
        <3> QED BY <3>2, <3>6
    <2> QED BY <2>1, <2>2
<1>18. HeapSet(heap, H1, Frame.obj, f.name, got)
    <2>1. f \in FieldsOf(Frame.type)
        BY <1>1, <1>3, <1>6, FieldFound
    <2>2. IsArray(heap) /\ Frame.obj \in 1..Len(heap) /\ f.name \in DOMAIN heap[Frame.obj]
        BY <1>1, <2>1, FrameObject
    <2> QED BY <1>5, <2>2, HeapSetIs
<1>19. Added(H1, heap', g, type, h)
    <2>1. IsArray(H1) /\ Len(H1) = h
        BY <1>2, <1>18 DEF HeapSet
    <2>2. PICK H2 : H2 = heap' /\ H2 = H1 \o news
        BY <1>7
    <2>3. /\ IsArray(H2) /\ Len(H2) = h + g /\ \A x \in 1..h : H2[x] = H1[x]
          /\ \A j \in 1..g : H2[h + j] = news[j]
        <3>1. Joined(H1 \o news, H1, news, h, g)
            BY <1>15, <2>1, JoinedIs
        <3> QED BY <2>2, <3>1 DEF Joined
    <2>4. \A j \in 1..g : news[j] = NewMessage(type)
        BY <1>4, <1>12
    <2> QED BY <2>2, <2>3, <2>4 DEF Added
<1>20. ASSUME NEW j \in 1..g PROVE U[j] = v.arr[good[j]] /\ <<type, U[j]>> \in V
    BY <1>3, <1>4, <1>9, <1>10, <1>11, <1>12
<1>21. ASSUME NEW T2, TypeTurn(T, T2, g, type, h, U) PROVE IsRead(heap', T2, f, v, got)
    <2>1. Elements(v) = v.arr
        BY <1>9 DEF Elements
    <2>2. DOMAIN got = 1..g /\ DOMAIN TablesIn(v.arr) = 1..g
        BY <1>3, <1>4, <1>12
    <2>3. ASSUME NEW j \in 1..g
          PROVE  got[j] \in 1..Len(heap') /\ T2[got[j]] = <<f.type, v.arr[TablesIn(v.arr)[j]]>>
        <3>1. got[j] = h + j
            BY <1>4, <1>12
        <3>2. Len(heap') = h + g
            BY <1>19 DEF Added
        <3>3. T2[h + j] = <<type, U[j]>>
            BY <1>21 DEF TypeTurn
        <3>4. h + j \in 1..(h + g)
            OBVIOUS
        <3>5. <<type, U[j]>> = <<f.type, v.arr[TablesIn(v.arr)[j]]>>
            BY <1>3, <1>20
        <3> QED BY <3>1, <3>2, <3>3, <3>4, <3>5
    <2> QED BY <1>6, <2>1, <2>2, <2>3 DEF IsRead
<1>22. PICK L2, C2, H2 : L2 = lua' /\ C2 = cpp' /\ H2 = heap'
    OBVIOUS
<1>23. /\ CppTurn(cpp, C2, n, Begun, g, type, Len(heap), p, base)
       /\ LuaTurn(lua, L2, InKey, g, U, p, base)
       /\ HeapSet(heap, H1, Frame.obj, InField.name, got)
       /\ Added(H1, H2, g, type, Len(heap))
       /\ \A T2 : TypeTurn(T, T2, g, type, Len(heap), U) => IsRead(H2, T2, InField, InValue, got)
       /\ \A j \in 1..g : <<type, U[j]>> \in V
    BY <1>2, <1>3, <1>16, <1>17, <1>18, <1>19, <1>20, <1>21, <1>22
<1>24. \E T2 : ToProtoFits(order, L2, C2, H2, V, T2)
    BY <1>1, <1>6, <1>14, <1>23, LoudTurn
<1> QED BY <1>6, <1>22, <1>24

LEMMA PopsFit ==
    ASSUME NEW V, NEW T, ToProtoFits(order, lua, cpp, heap, V, T), InPops
    PROVE  \/ pc' = "done" /\ Converted(order', lua', heap', V, T)
           \/ pc' = pc /\ ToProtoFits(order', lua', cpp', heap', V, T)
<1>1. PICK n \in Nat, p \in Nat : AskedIs(n, p)
    BY AskedShape
<1>2. /\ n = Len(cpp) /\ Frame = cpp[n] /\ n # 0 /\ Frame.idx = p /\ p # 0
      /\ IsArray(Asked) /\ Len(Asked) = p + 1
      /\ \A i \in 1..p : Asked[i] = lua[i]
    BY <1>1 DEF AskedIs
<1>3. FoundIs(n, p)
    BY <1>1, FoundShape
<1>4. IsArray(Front(cpp)) /\ Len(Front(cpp)) = n - 1 /\ \A i \in 1..(n - 1) : Front(cpp)[i] = cpp[i]
    BY <1>3 DEF FoundIs
<1>5. /\ InKey = Nil /\ heap' = heap /\ order' = order /\ cpp' = Front(cpp)
      /\ lua' = SubSeq(Asked, 1, Len(Asked) - 1 - Frame.pops)
      /\ pc' = IF cpp' = <<>> THEN "done" ELSE pc
    BY DEF InPops
<1>6. AfterBy(order, lua[p], Cursor(lua, cpp[n])) = {}
    BY <1>1, <1>5, KeyFound
<1>7. PICK m \in Nat : m = Frame.pops /\ m <= p
    <2>1. /\ Layout(lua, cpp) /\ FrameFits(order, lua, heap, T, cpp[n])
        BY <1>2, FitsAre DEF FramesFit
    <2>2. Frame.pops \in Nat
        BY <1>2, <2>1 DEF FrameFits
    <2>3. CASE n = 1
        <3>1. Frame.pops = 0
            BY <1>2, <2>1, <2>3 DEF Layout
        <3> QED BY <3>1
    <2>4. CASE n # 1
        <3>1. n \in 2..Len(cpp) /\ n - 1 \in 1..Len(cpp)
            BY <1>2, <2>4
        <3>2. cpp[n].idx = Top(cpp[n - 1]) + cpp[n].pops
            BY <2>1, <3>1 DEF Layout
        <3>3. Top(cpp[n - 1]) \in Nat
            <4>1. PICK c : c = cpp[n - 1] /\ FrameIs(lua, heap, V, T, c)
                BY <3>1, FitsAre
            <4> QED BY <4>1 DEF FrameIs
        <3> QED BY <1>2, <2>2, <3>2, <3>3
    <2> QED BY <2>3, <2>4
<1>8. PICK L2 : L2 = lua' /\ L2 = SubSeq(Asked, 1, p - m)
    <2>1. (p + 1) - 1 - m = p - m
        BY <1>7
    <2> QED BY <1>2, <1>5, <1>7, <2>1
<1>9. IsArray(L2) /\ Len(L2) = p - m /\ \A i \in 1..(p - m) : L2[i] = lua[i]
    <2>1. p - m \in 0..(p + 1) /\ \A i \in 1..(p - m) : i \in 1..p
        BY <1>7
    <2>2. PICK s : s = Asked
        OBVIOUS
    <2>3. IsArray(L2) /\ Len(L2) = p - m /\ \A i \in 1..(p - m) : L2[i] = s[i]
        BY <1>2, <1>8, <2>1, <2>2, PrefixIs
    <2> QED BY <1>2, <2>1, <2>2, <2>3
<1>10. PopTurn(lua, cpp, L2, Front(cpp), n)
    BY <1>2, <1>4, <1>7, <1>9 DEF PopTurn
<1>11. PICK C2 : C2 = Front(cpp)
    OBVIOUS
<1>12. IF n = 1 THEN Converted(order, L2, heap, V, T) ELSE ToProtoFits(order, L2, C2, heap, V, T)
    <2>1. /\ PopTurn(lua, cpp, L2, C2, Len(cpp))
          /\ AfterBy(order, lua[cpp[Len(cpp)].idx], Cursor(lua, cpp[Len(cpp)])) = {}
        BY <1>2, <1>6, <1>10, <1>11
    <2> QED BY <1>2, <2>1, PopFits
<1>13. C2 = <<>> <=> n = 1
    BY <1>2, <1>4, <1>11, EmptyArray
<1> QED BY <1>5, <1>8, <1>11, <1>12, <1>13

-----------------------------------------------------------------------------
(* What is in a message at every depth *)

RunUpTo(g, n, a, s) ==
    /\ g[0] = a
    /\ \A i \in Nat : i + 1 <= n => g[i + 1] = s[g[i]]

LEMMA RunsAgree ==
    ASSUME NEW a, NEW s, NEW n \in Nat, NEW g, NEW h,
           RunUpTo(g, n, a, s), RunUpTo(h, n, a, s)
    PROVE  \A i \in Nat : i <= n => g[i] = h[i]
<1> DEFINE S == {i \in Nat : i <= n => g[i] = h[i]}
<1>1. 0 \in S
    BY DEF RunUpTo
<1>2. ASSUME NEW i \in Nat, i \in S PROVE i + 1 \in S
    BY <1>2 DEF RunUpTo
<1> HIDE DEF S
<1>3. Nat \subseteq S
    BY <1>1, <1>2, SetInduction
<1> QED BY <1>3 DEF S

LEMMA RunsExist ==
    ASSUME NEW D, NEW a \in D, NEW s \in [D -> D]
    PROVE  \A n \in Nat : \E g \in [Nat -> D] : RunUpTo(g, n, a, s)
<1> DEFINE S == {n \in Nat : \E g \in [Nat -> D] : RunUpTo(g, n, a, s)}
<1>1. 0 \in S
    <2>1. PICK g \in [Nat -> D] : g = [i \in Nat |-> a]
        OBVIOUS
    <2>2. RunUpTo(g, 0, a, s)
        BY <2>1 DEF RunUpTo
    <2> QED BY <2>2
<1>2. ASSUME NEW n \in Nat, n \in S PROVE n + 1 \in S
    <2>1. PICK g \in [Nat -> D] : RunUpTo(g, n, a, s)
        BY <1>2
    <2>2. s[g[n]] \in D
        OBVIOUS
    <2>3. PICK h \in [Nat -> D] : h = [i \in Nat |-> IF i = n + 1 THEN s[g[n]] ELSE g[i]]
        BY <2>2
    <2>4. RunUpTo(h, n + 1, a, s)
        <3>1. h[0] = a
            BY <2>1, <2>3 DEF RunUpTo
        <3>2. ASSUME NEW i \in Nat, i + 1 <= n + 1 PROVE h[i + 1] = s[h[i]]
            <4>1. i # n + 1 /\ h[i] = g[i]
                BY <2>3, <3>2
            <4>2. CASE i = n
                BY <2>3, <4>1, <4>2
            <4>3. CASE i # n
                <5>1. i + 1 <= n /\ i + 1 # n + 1
                    BY <3>2, <4>3
                <5>2. h[i + 1] = g[i + 1]
                    BY <2>3, <5>1
                <5> QED BY <2>1, <4>1, <5>1, <5>2 DEF RunUpTo
            <4> QED BY <4>2, <4>3
        <3> QED BY <3>1, <3>2 DEF RunUpTo
    <2> QED BY <2>4
<1> HIDE DEF S
<1>3. Nat \subseteq S
    BY <1>1, <1>2, SetInduction
<1> QED BY <1>3 DEF S

LEMMA Iterates ==
    ASSUME NEW D, NEW a \in D, NEW s \in [D -> D]
    PROVE  \E f \in [Nat -> D] : f[0] = a /\ \A n \in Nat : f[n + 1] = s[f[n]]
<1> DEFINE run(n) == CHOOSE g \in [Nat -> D] : RunUpTo(g, n, a, s)
<1>1. \A n \in Nat : run(n) \in [Nat -> D] /\ RunUpTo(run(n), n, a, s)
    BY RunsExist
<1> HIDE DEF run
<1>2. PICK f \in [Nat -> D] : \A n \in Nat : f[n] = run(n)[n]
    <2>1. [n \in Nat |-> run(n)[n]] \in [Nat -> D]
        BY <1>1
    <2> QED BY <2>1
<1>3. f[0] = a
    BY <1>1, <1>2 DEF RunUpTo
<1>4. ASSUME NEW n \in Nat PROVE f[n + 1] = s[f[n]]
    <2>1. PICK g, h : g = run(n) /\ h = run(n + 1)
        OBVIOUS
    <2>2. RunUpTo(g, n, a, s) /\ RunUpTo(h, n + 1, a, s)
        BY <1>1, <2>1
    <2>3. RunUpTo(h, n, a, s)
        BY <2>2 DEF RunUpTo
    <2>4. g[n] = h[n]
        BY <2>2, <2>3, RunsAgree
    <2>5. h[n + 1] = s[h[n]]
        BY <2>2 DEF RunUpTo
    <2> QED BY <1>2, <2>1, <2>4, <2>5
<1> QED BY <1>3, <1>4

LevelsOf(f, a, s) == f = [n \in Nat |-> IF n = 0 THEN a ELSE s[f[n - 1]]]

\* Whatever has the parts of all its members has those of every depth.
LEMMA LevelsIn ==
    ASSUME NEW W, NEW a \in SUBSET W, NEW s \in [SUBSET W -> SUBSET W],
           NEW f, LevelsOf(f, a, s)
    PROVE  \A n \in Nat : f[n] \in SUBSET W
<1> DEFINE S == {n \in Nat : f[n] \in SUBSET W}
<1>1. f[0] = a
    BY DEF LevelsOf
<1>2. ASSUME NEW n \in Nat PROVE f[n + 1] = s[f[n]]
    <2>1. n + 1 \in Nat /\ n + 1 # 0 /\ (n + 1) - 1 = n
        OBVIOUS
    <2> QED BY <2>1 DEF LevelsOf
<1>3. 0 \in S
    BY <1>1
<1>4. ASSUME NEW n \in Nat, n \in S PROVE n + 1 \in S
    BY <1>2, <1>4
<1> HIDE DEF S
<1>5. Nat \subseteq S
    BY <1>3, <1>4, SetInduction
<1> QED BY <1>5 DEF S

LEMMA LevelsExist ==
    ASSUME NEW W, NEW a \in SUBSET W, NEW s \in [SUBSET W -> SUBSET W]
    PROVE  \E f : LevelsOf(f, a, s)
<1>1. PICK f \in [Nat -> SUBSET W] : f[0] = a /\ \A n \in Nat : f[n + 1] = s[f[n]]
    <2>1. PICK D : D = SUBSET W
        OBVIOUS
    <2>2. a \in D /\ s \in [D -> D]
        BY <2>1
    <2>3. \E f \in [Nat -> D] : f[0] = a /\ \A n \in Nat : f[n + 1] = s[f[n]]
        BY <2>2, Iterates, SMTT(30)
    <2> QED BY <2>1, <2>3
<1>2. ASSUME NEW n \in Nat PROVE f[n] = IF n = 0 THEN a ELSE s[f[n - 1]]
    <2>1. CASE n = 0
        BY <1>1, <2>1
    <2>2. CASE n # 0
        <3>1. n - 1 \in Nat /\ (n - 1) + 1 = n
            BY <2>2
        <3>2. f[(n - 1) + 1] = s[f[n - 1]]
            BY <1>1, <3>1
        <3> QED BY <2>2, <3>1, <3>2
    <2> QED BY <2>1, <2>2
<1>3. LevelsOf(f, a, s)
    BY <1>2 DEF LevelsOf
<1> QED BY <1>3

LEMMA ToProtoIn ==
    ASSUME NEW W, <<Root, 1, lua[1]>> \in W,
           \A q \in W : PartsToProto(q[1], q[2], q[3]) \subseteq W
    PROVE  \A n \in Nat : ToProto[n] \subseteq W
<1> DEFINE a == {<<Root, 1, lua[1]>>}
           Parts(X) == UNION {PartsToProto(q[1], q[2], q[3]) : q \in X}
           s == [X \in SUBSET W |-> Parts(X)]
<1>1. a \in SUBSET W /\ \A X \in SUBSET W : Parts(X) \in SUBSET W
    OBVIOUS
<1>2. s \in [SUBSET W -> SUBSET W] /\ \A X \in SUBSET W : s[X] = Parts(X)
    BY <1>1
<1> HIDE DEF a, Parts, s
<1>3. PICK f : LevelsOf(f, a, s)
    BY <1>1, <1>2, LevelsExist
<1>4. \A n \in Nat : f[n] \in SUBSET W
    BY <1>1, <1>2, <1>3, LevelsIn
<1>5. f = [n \in Nat |-> IF n = 0 THEN a ELSE Parts(f[n - 1])]
    <2>1. \A n \in Nat : n # 0 => n - 1 \in Nat
        OBVIOUS
    <2>2. \A n \in Nat : n # 0 => s[f[n - 1]] = Parts(f[n - 1])
        BY <1>2, <1>4, <2>1
    <2> QED BY <1>3, <2>2 DEF LevelsOf
<1>6. ToProto = [n \in Nat |-> IF n = 0 THEN a ELSE Parts(ToProto[n - 1])]
    BY <1>5 DEF ToProto, a, Parts
<1>7. ToProto[0] = a /\ \A n \in Nat : ToProto[n + 1] = Parts(ToProto[n])
    <2>1. \A n \in Nat : n + 1 \in Nat /\ n + 1 # 0 /\ (n + 1) - 1 = n
        OBVIOUS
    <2> QED BY <1>6, <2>1
<1> DEFINE S == {n \in Nat : ToProto[n] \in SUBSET W}
<1>8. 0 \in S /\ \A n \in Nat : n \in S => n + 1 \in S
    BY <1>1, <1>7
<1> HIDE DEF S
<1>9. Nat \subseteq S
    BY <1>8, SetInduction
<1> QED BY <1>9 DEF S

\* When all is read, the message is whole.
LEMMA WholeIs ==
    ASSUME NEW o, NEW V, NEW T, Converted(o, lua, heap, V, T)
    PROVE  Len(lua) = 1 /\ WholeMessage
<1> DEFINE W == {<<T[x][1], x, T[x][2]>> : x \in 1..Len(heap)}
<1>1. /\ Len(lua) = 1 /\ IsArray(heap) /\ Len(heap) # 0 /\ T[1] = <<Root, lua[1]>>
      /\ \A x \in 1..Len(heap) : DOMAIN heap[x] = Names(T[x][1])
      /\ \A x \in 1..Len(heap) : \A f \in FieldsOf(T[x][1]) : FieldRead(heap, T, x, f)
    BY DEF Converted
<1>2. Len(heap) \in Nat /\ DOMAIN heap = 1..Len(heap)
    BY <1>1, ArraySeq
<1>3. <<Root, 1, lua[1]>> \in W
    <2>1. 1 \in 1..Len(heap)
        BY <1>1, <1>2
    <2>2. T[1][1] = Root /\ T[1][2] = lua[1]
        BY <1>1
    <2> QED BY <2>1, <2>2
<1>4. ASSUME NEW type, NEW u, NEW x \in 1..Len(heap), type = T[x][1], u = T[x][2]
      PROVE  IsMessageOf(type, x, u) /\ PartsToProto(type, x, u) \subseteq W
    <2>1. ASSUME NEW i \in DOMAIN Schema[type], NEW f, NEW v, NEW got,
                 f = Schema[type][i], v = Given(u, f), got = heap[x][f.name]
          PROVE  IsRead(heap, T, f, v, got)
        <3>1. f \in FieldsOf(type)
            BY <2>1 DEF FieldsOf
        <3> QED BY <1>1, <1>4, <2>1, <3>1 DEF FieldRead
    <2>2. IsMessageOf(type, x, u)
        <3>1. x \in DOMAIN heap /\ DOMAIN heap[x] = Names(type)
            BY <1>1, <1>2, <1>4
        <3>2. ASSUME NEW i \in DOMAIN Schema[type], NEW f, NEW v, NEW got,
                     f = Schema[type][i], v = Given(u, f), got = heap[x][f.name]
              PROVE  CASE f.kind = "message" /\ f.rep -> DOMAIN got = DOMAIN TablesIn(Elements(v))
                       [] f.kind = "message" /\ ~f.rep -> DOMAIN got = IF IsTable(v) THEN {1} ELSE {}
                       [] f.kind # "message" /\ f.rep -> got = Accepted(f.kind, Elements(v))
                       [] OTHER -> got = IF Accepts(f.kind, v) THEN <<v.n>> ELSE <<0>>
            <4>1. IsRead(heap, T, f, v, got)
                BY <2>1, <3>2
            <4> QED BY <4>1 DEF IsRead
        <3> QED BY <3>1, <3>2 DEF IsMessageOf
    <2>3. ASSUME NEW q \in PartsToProto(type, x, u) PROVE q \in W
        <3>1. PICK i \in DOMAIN Schema[type] :
                q \in LET f == Schema[type][i]
                          v == Given(u, f)
                          got == heap[x][f.name]
                      IN IF f.kind # "message" THEN {}
                         ELSE IF f.rep
                           THEN {<<f.type, got[j], v.arr[TablesIn(v.arr)[j]]>> :
                                   j \in DOMAIN got \cap DOMAIN TablesIn(Elements(v))}
                           ELSE {<<f.type, got[j], v>> : j \in DOMAIN got}
            BY <2>3 DEF PartsToProto
        <3>2. PICK f, v, got : f = Schema[type][i] /\ v = Given(u, f) /\ got = heap[x][f.name]
            OBVIOUS
        <3>3. IsRead(heap, T, f, v, got)
            BY <2>1, <3>2
        <3>4. /\ f.kind = "message"
              /\ q \in IF f.rep
                         THEN {<<f.type, got[j], v.arr[TablesIn(v.arr)[j]]>> :
                                 j \in DOMAIN got \cap DOMAIN TablesIn(Elements(v))}
                         ELSE {<<f.type, got[j], v>> : j \in DOMAIN got}
            BY <3>1, <3>2
        <3>5. PICK y, w : y \in 1..Len(heap) /\ T[y] = <<f.type, w>> /\ q = <<f.type, y, w>>
            <4>1. CASE f.rep
                <5>1. PICK j \in DOMAIN got : q = <<f.type, got[j], v.arr[TablesIn(v.arr)[j]]>>
                    BY <3>4, <4>1
                <5>2. /\ got[j] \in 1..Len(heap)
                      /\ T[got[j]] = <<f.type, v.arr[TablesIn(v.arr)[j]]>>
                    BY <3>3, <3>4, <4>1 DEF IsRead
                <5> QED BY <5>1, <5>2
            <4>2. CASE ~f.rep
                <5>1. PICK j \in DOMAIN got : q = <<f.type, got[j], v>>
                    BY <3>4, <4>2
                <5>2. got[j] \in 1..Len(heap) /\ T[got[j]] = <<f.type, v>>
                    BY <3>3, <3>4, <4>2 DEF IsRead
                <5> QED BY <5>1, <5>2
            <4> QED BY <4>1, <4>2
        <3>6. T[y][1] = f.type /\ T[y][2] = w
            BY <3>5
        <3>7. q = <<T[y][1], y, T[y][2]>>
            BY <3>5, <3>6
        <3> QED BY <3>5, <3>7
    <2> QED BY <2>2, <2>3
<1>5. \A q \in W : /\ IsMessageOf(q[1], q[2], q[3])
                   /\ PartsToProto(q[1], q[2], q[3]) \subseteq W
    <2>1. ASSUME NEW x \in 1..Len(heap), NEW q, q = <<T[x][1], x, T[x][2]>>
          PROVE  IsMessageOf(q[1], q[2], q[3]) /\ PartsToProto(q[1], q[2], q[3]) \subseteq W
        <3>1. q[1] = T[x][1] /\ q[2] = x /\ q[3] = T[x][2]
            BY <2>1
        <3> HIDE DEF W
        <3> QED BY <1>4, <3>1
    <2> QED BY <2>1
<1> HIDE DEF W
<1>6. \A n \in Nat : ToProto[n] \subseteq W
    BY <1>3, <1>5, ToProtoIn
<1>7. \A n \in 0..Depth : n \in Nat
    OBVIOUS
<1> QED BY <1>1, <1>5, <1>6, <1>7 DEF WholeMessage

-----------------------------------------------------------------------------
(* From a message to a table.  Q is a set of triples of a type, a message of it *)
(* and its table, all complete, that has with a triple those of the messages in *)
(* the message.  pos gives the place of each frame's table on the Lua stack.    *)

ItemsAre(Q, f, m, a, e) ==
    /\ IsArray(a) /\ Len(a) = e
    /\ \A j \in 1..e : <<f.type, m[f.name][j], a[j]>> \in Q

ValueIs(Q, f, m, v) ==
    CASE f.kind = "message" /\ f.rep ->
           v = Table(v.arr, <<>>) /\ ItemsAre(Q, f, m, v.arr, Len(m[f.name]))
      [] f.kind = "message" /\ ~f.rep -> <<f.type, SubMessage(f, m), v>> \in Q
      [] f.kind # "message" /\ f.rep ->
           v = Table([j \in DOMAIN m[f.name] |-> Pushed(f.kind, m[f.name][j])], <<>>)
      [] OTHER -> v = Pushed(f.kind, m[f.name][1])

\* The table has the first d fields.
PartIs(Q, type, m, t, d) ==
    /\ t = Table(<<>>, t.hash)
    /\ DOMAIN t.hash = {Schema[type][i].name : i \in 1..d}
    /\ \A i \in 1..d : ValueIs(Q, Schema[type][i], m, t.hash[Schema[type][i].name])

Complete(Q) ==
    \A q \in Q : /\ q[1] \in DOMAIN Schema /\ q[2] \in Messages[q[1]]
                 /\ PartIs(Q, q[1], q[2], q[3], Len(Schema[q[1]]))

LEMMA TableIs ==
    ASSUME NEW a, NEW h
    PROVE  IsTable(Table(a, h)) /\ Table(a, h).arr = a /\ Table(a, h).hash = h
BY DEF Table, Value, IsTable

WithHash(t, x) == [t EXCEPT !.hash = x]
WithArr(t, x) == [t EXCEPT !.arr = x]

LEMMA ValueSet ==
    ASSUME NEW k, NEW n, NEW s, NEW a, NEW h, NEW x
    PROVE  /\ WithHash(Value(k, n, s, a, h), x) = Value(k, n, s, a, x)
           /\ WithArr(Value(k, n, s, a, h), x) = Value(k, n, s, x, h)
BY DEF Value, WithHash, WithArr

LEMMA TableSet ==
    ASSUME NEW a, NEW h, NEW x
    PROVE  /\ WithHash(Table(a, h), x) = Table(a, x)
           /\ WithArr(Table(a, h), x) = Table(x, h)
<1>1. PICK k, n, s : k = "table" /\ n = 0 /\ s = ""
    OBVIOUS
<1>2. \A b, g : Table(b, g) = Value(k, n, s, b, g)
    BY <1>1 DEF Table
<1>3. /\ WithHash(Value(k, n, s, a, h), x) = Value(k, n, s, a, x)
      /\ WithArr(Value(k, n, s, a, h), x) = Value(k, n, s, x, h)
    BY ValueSet
<1> QED BY <1>2, <1>3

LEMMA FieldNames ==
    ASSUME NEW type \in DOMAIN Schema
    PROVE  /\ Len(Schema[type]) \in Nat /\ DOMAIN Schema[type] = 1..Len(Schema[type])
           /\ \A i \in 1..Len(Schema[type]) : Schema[type][i] \in FieldsOf(type)
           /\ \A i, j \in 1..Len(Schema[type]) :
                Schema[type][i].name = Schema[type][j].name => i = j
<1>1. IsArray(Schema[type])
    BY LuaProtoAssumption
<1>2. Len(Schema[type]) \in Nat /\ DOMAIN Schema[type] = 1..Len(Schema[type])
    BY <1>1, ArraySeq
<1>3. \A i, j \in 1..Len(Schema[type]) : Schema[type][i].name = Schema[type][j].name => i = j
    BY <1>2, LuaProtoAssumption
<1> QED BY <1>2, <1>3 DEF FieldsOf

LEMMA ValueGrows ==
    ASSUME NEW Q, NEW Q2, Q \subseteq Q2, NEW f, NEW m, NEW v, ValueIs(Q, f, m, v)
    PROVE  ValueIs(Q2, f, m, v)
BY DEF ValueIs, ItemsAre

LEMMA PartGrows ==
    ASSUME NEW Q, NEW Q2, Q \subseteq Q2, NEW type, NEW m, NEW t, NEW d,
           PartIs(Q, type, m, t, d)
    PROVE  PartIs(Q2, type, m, t, d)
BY ValueGrows DEF PartIs

LEMMA WithName ==
    ASSUME NEW t, NEW s, NEW v, t = Table(<<>>, t.hash)
    PROVE  LET u == With(t, Key(s), v) IN
           /\ u = Table(<<>>, u.hash)
           /\ DOMAIN u.hash = DOMAIN t.hash \cup {s}
           /\ u.hash[s] = v
           /\ \A x \in DOMAIN t.hash : x # s => u.hash[x] = t.hash[x]
<1>1. PICK h : h = t.hash /\ t = Table(<<>>, h)
    OBVIOUS
<1>2. PICK g : g = [x \in DOMAIN h \cup {s} |-> IF x = s THEN v ELSE h[x]]
    OBVIOUS
<1>3. Key(s).kind # "number" /\ Key(s).s = s
    BY KeyKinds
<1>4. With(t, Key(s), v) = [t EXCEPT !.hash = g]
    BY <1>1, <1>2, <1>3, TableIs DEF With
<1>5. [Table(<<>>, h) EXCEPT !.hash = g] = Table(<<>>, g)
    <2>1. PICK e : e = <<>>
        OBVIOUS
    <2>2. WithHash(Table(e, h), g) = Table(e, g)
        BY TableSet
    <2> QED BY <2>1, <2>2 DEF WithHash
<1>6. PICK u : u = With(t, Key(s), v) /\ u = Table(<<>>, g)
    BY <1>1, <1>4, <1>5
<1>7. u.hash = g
    BY <1>6, TableIs
<1>8. /\ u = Table(<<>>, u.hash) /\ DOMAIN u.hash = DOMAIN t.hash \cup {s} /\ u.hash[s] = v
      /\ \A x \in DOMAIN t.hash : x # s => u.hash[x] = t.hash[x]
    <2>1. DOMAIN g = DOMAIN h \cup {s} /\ g[s] = v /\ \A x \in DOMAIN h : x # s => g[x] = h[x]
        BY <1>2
    <2> QED BY <1>1, <1>6, <1>7, <2>1
<1> QED BY <1>6, <1>8

LEMMA WithItem ==
    ASSUME NEW a, NEW n, NEW v, IsArray(a)
    PROVE  With(Table(a, <<>>), Number(n), v) = Table(Append(a, v), <<>>)
<1>1. Number(n).kind = "number"
    BY KeyKinds
<1>2. With(Table(a, <<>>), Number(n), v)
        = [Table(a, <<>>) EXCEPT !.arr = Append(Table(a, <<>>).arr, v)]
    BY <1>1 DEF With
<1>3. PICK b : b = Append(a, v)
    OBVIOUS
<1>4. [Table(a, <<>>) EXCEPT !.arr = b] = Table(b, <<>>)
    <2>1. PICK e : e = <<>>
        OBVIOUS
    <2>2. WithArr(Table(a, e), b) = Table(b, e)
        BY TableSet
    <2> QED BY <2>1, <2>2 DEF WithArr
<1> QED BY <1>2, <1>3, <1>4, TableIs

\* The next field is set.
LEMMA PartNext ==
    ASSUME NEW Q, NEW type \in DOMAIN Schema, NEW m, NEW t, NEW d \in Nat,
           PartIs(Q, type, m, t, d), d + 1 <= Len(Schema[type]),
           NEW v, ValueIs(Q, Schema[type][d + 1], m, v)
    PROVE  PartIs(Q, type, m, With(t, Key(Schema[type][d + 1].name), v), d + 1)
<1>1. PICK s, u : s = Schema[type][d + 1].name /\ u = With(t, Key(s), v)
    OBVIOUS
<1>2. /\ t = Table(<<>>, t.hash)
      /\ DOMAIN t.hash = {Schema[type][i].name : i \in 1..d}
      /\ \A i \in 1..d : ValueIs(Q, Schema[type][i], m, t.hash[Schema[type][i].name])
    BY DEF PartIs
<1>3. /\ u = Table(<<>>, u.hash) /\ DOMAIN u.hash = DOMAIN t.hash \cup {s} /\ u.hash[s] = v
      /\ \A x \in DOMAIN t.hash : x # s => u.hash[x] = t.hash[x]
    BY <1>1, <1>2, WithName
<1>4. \A i \in 1..(d + 1) : i \in 1..d \/ i = d + 1
    OBVIOUS
<1>5. \A i \in 1..d : i \in 1..(d + 1) /\ Schema[type][i].name # s
    BY <1>1, FieldNames
<1>6. DOMAIN u.hash = {Schema[type][i].name : i \in 1..(d + 1)}
    BY <1>1, <1>2, <1>3, <1>4
<1>7. ASSUME NEW i \in 1..(d + 1)
      PROVE  ValueIs(Q, Schema[type][i], m, u.hash[Schema[type][i].name])
    <2>1. CASE i = d + 1
        BY <1>1, <1>3, <2>1
    <2>2. CASE i \in 1..d
        <3>1. u.hash[Schema[type][i].name] = t.hash[Schema[type][i].name]
            BY <1>2, <1>3, <1>5, <2>2
        <3> QED BY <1>2, <2>2, <3>1
    <2> QED BY <1>4, <2>1, <2>2
<1>8. PartIs(Q, type, m, u, d + 1)
    BY <1>3, <1>6, <1>7 DEF PartIs
<1> QED BY <1>1, <1>8

\* lua_settable
LEMMA SetTableIs ==
    ASSUME NEW s, IsArray(s), NEW q \in Nat, q # 0, Len(s) = q + 2
    PROVE  /\ IsArray(SetTable(s)) /\ Len(SetTable(s)) = q
           /\ \A i \in 1..(q - 1) : SetTable(s)[i] = s[i]
           /\ SetTable(s)[q] = With(s[q], s[q + 1], s[q + 2])
<1>1. PICK r : r = SubSeq(s, 1, q)
    OBVIOUS
<1>2. IsArray(r) /\ Len(r) = q /\ \A i \in 1..q : r[i] = s[i]
    <2>1. q \in 0..Len(s)
        OBVIOUS
    <2> QED BY <1>1, <2>1, PrefixIs
<1>3. q \in 1..q /\ (q + 2) - 2 = q /\ (q + 2) - 1 = q + 1
    OBVIOUS
<1>4. PICK w : w = With(r[q], s[q + 1], s[q + 2])
    OBVIOUS
<1>5. PICK t : t = [r EXCEPT ![q] = w]
    OBVIOUS
<1>6. SetTable(s) = t
    BY <1>1, <1>3, <1>4, <1>5 DEF SetTable
<1>7. SetAt(r, q, w, t)
    BY <1>5 DEF SetAt
<1>8. /\ IsArray(t) /\ Len(t) = Len(r)
      /\ \A i \in 1..Len(r) : t[i] = IF i = q THEN w ELSE r[i]
    BY <1>2, <1>3, <1>7, ExceptIs
<1> QED BY <1>2, <1>3, <1>4, <1>6, <1>8

OutShape(c) ==
    /\ \E t, m, n, r, l : c = [type |-> t, msg |-> m, next |-> n, settable |-> r, loop |-> l]
    /\ c.type \in DOMAIN Schema /\ c.msg \in Messages[c.type]
    /\ c.next \in Nat /\ c.next # 0 /\ c.next <= Len(Schema[c.type]) + 1
    /\ c.loop \in Nat

SameMessage(c, d) ==
    /\ d.type = c.type /\ d.msg = c.msg /\ d.settable = c.settable

\* The array of a repeated message is open, with e elements.
Opens(Q, L, c, p, e) ==
    /\ c.next <= Len(Schema[c.type])
    /\ LET f == Schema[c.type][c.next] IN
       /\ f.rep /\ f.kind = "message"
       /\ L[p + 1] = Key(f.name)
       /\ L[p + 2] = Table(L[p + 2].arr, <<>>)
       /\ ItemsAre(Q, f, c.msg, L[p + 2].arr, e)
       /\ c.loop <= Len(c.msg[f.name])

TopIs(Q, L, c, p) ==
    /\ OutShape(c)
    /\ PartIs(Q, c.type, c.msg, L[p], c.next - 1)
    /\ c.loop # 0 => Opens(Q, L, c, p, c.loop)

\* What a frame has between its table and the next frame's.
Span(c) == IF c.loop = 0 THEN 1 ELSE 3

\* Frame c waits for the frame b above it.
WaitsFor(Q, L, c, b, p) ==
    /\ OutShape(c) /\ b.settable
    /\ c.loop = 0 =>
         /\ c.next > 1
         /\ LET f == Schema[c.type][c.next - 1] IN
            /\ ~f.rep /\ f.kind = "message"
            /\ L[p + 1] = Key(f.name)
            /\ b.type = f.type /\ b.msg = SubMessage(f, c.msg)
         /\ PartIs(Q, c.type, c.msg, L[p], c.next - 2)
    /\ c.loop # 0 =>
         /\ Opens(Q, L, c, p, c.loop - 1)
         /\ LET f == Schema[c.type][c.next] IN
            b.type = f.type /\ b.msg = c.msg[f.name][c.loop]
         /\ \E k \in Nat : L[p + 3] = Number(k)
         /\ PartIs(Q, c.type, c.msg, L[p], c.next - 1)

OutPlaces(pos, L, C) ==
    /\ pos[1] = 2
    /\ \A i \in 1..Len(C) : pos[i] \in Nat /\ pos[i] # 0
    /\ \A i \in 1..(Len(C) - 1) : pos[i + 1] = pos[i] + Span(C[i]) + 1
    /\ \A i, j \in 1..Len(C) : i <= j => pos[i] <= pos[j]
    /\ Len(L) = pos[Len(C)] + (IF C[Len(C)].loop = 0 THEN 0 ELSE 2)

ToLuaFits(Q, pos, L, C) ==
    /\ Complete(Q)
    /\ IsArray(L) /\ IsArray(C) /\ C # <<>>
    /\ L[1] = Below
    /\ OutPlaces(pos, L, C)
    /\ \A i \in 1..(Len(C) - 1) : WaitsFor(Q, L, C[i], C[i + 1], pos[i])
    /\ TopIs(Q, L, C[Len(C)], pos[Len(C)])
    /\ C[1].type = Root /\ C[1].msg = source /\ ~C[1].settable

LEMMA OpensStays ==
    ASSUME NEW Q, NEW Q2, Q \subseteq Q2, NEW L, NEW L2, NEW c, NEW p, NEW e,
           L2[p + 1] = L[p + 1], L2[p + 2] = L[p + 2], Opens(Q, L, c, p, e)
    PROVE  Opens(Q2, L2, c, p, e)
BY DEF Opens, ItemsAre

LEMMA WaitsStays ==
    ASSUME NEW Q, NEW Q2, Q \subseteq Q2, NEW L, NEW L2, NEW c, NEW b, NEW b2, NEW p \in Nat,
           WaitsFor(Q, L, c, b, p), SameMessage(b, b2), p # 0,
           \A i \in 1..(p + Span(c)) : L2[i] = L[i]
    PROVE  WaitsFor(Q2, L2, c, b2, p)
<1>1. /\ OutShape(c) /\ b.settable
      /\ b2.type = b.type /\ b2.msg = b.msg /\ b2.settable = b.settable
    BY DEF WaitsFor, SameMessage
<1>2. b2.settable
    BY <1>1
<1>3. CASE c.loop = 0
    <2>1. p \in 1..(p + Span(c)) /\ p + 1 \in 1..(p + Span(c))
        BY <1>3 DEF Span
    <2>2. L2[p] = L[p] /\ L2[p + 1] = L[p + 1]
        BY <2>1
    <2>3. PartIs(Q, c.type, c.msg, L[p], c.next - 2)
        BY <1>3 DEF WaitsFor
    <2>4. PartIs(Q2, c.type, c.msg, L2[p], c.next - 2)
        BY <2>2, <2>3, PartGrows
    <2> QED BY <1>1, <1>2, <1>3, <2>2, <2>4 DEF WaitsFor
<1>4. CASE c.loop # 0
    <2>1. /\ p \in 1..(p + Span(c)) /\ p + 1 \in 1..(p + Span(c))
          /\ p + 2 \in 1..(p + Span(c)) /\ p + 3 \in 1..(p + Span(c))
        BY <1>4 DEF Span
    <2>2. L2[p] = L[p] /\ L2[p + 1] = L[p + 1] /\ L2[p + 2] = L[p + 2] /\ L2[p + 3] = L[p + 3]
        BY <2>1
    <2>3. PartIs(Q, c.type, c.msg, L[p], c.next - 1) /\ Opens(Q, L, c, p, c.loop - 1)
        BY <1>4 DEF WaitsFor
    <2>4. PartIs(Q2, c.type, c.msg, L2[p], c.next - 1) /\ Opens(Q2, L2, c, p, c.loop - 1)
        BY <2>2, <2>3, PartGrows, OpensStays
    <2> QED BY <1>1, <1>2, <1>4, <2>2, <2>4 DEF WaitsFor
<1> QED BY <1>3, <1>4

LEMMA OutIs ==
    ASSUME NEW Q, NEW pos, NEW L, NEW C, ToLuaFits(Q, pos, L, C)
    PROVE  \E n \in Nat, p \in Nat :
             /\ n = Len(C) /\ n # 0 /\ n \in 1..n /\ p = pos[n] /\ p # 0 /\ p >= 2
             /\ TopIs(Q, L, C[n], p)
             /\ Len(L) = p + (IF C[n].loop = 0 THEN 0 ELSE 2)
             /\ IsArray(L) /\ IsArray(C) /\ C # <<>> /\ Last(C) = C[n]
             /\ IsArray(Front(C)) /\ Len(Front(C)) = n - 1
             /\ \A i \in 1..(n - 1) : Front(C)[i] = C[i]
             /\ C[1].type = Root /\ C[1].msg = source /\ ~C[1].settable
<1>1. /\ IsArray(L) /\ IsArray(C) /\ C # <<>> /\ OutPlaces(pos, L, C)
      /\ TopIs(Q, L, C[Len(C)], pos[Len(C)])
      /\ C[1].type = Root /\ C[1].msg = source /\ ~C[1].settable
    BY DEF ToLuaFits
<1>2. PICK n \in Nat : n = Len(C) /\ n # 0
    BY <1>1, FrontIs
<1>3. n \in 1..n /\ 1 \in 1..n
    BY <1>2
<1>4. PICK p \in Nat : p = pos[n] /\ p # 0 /\ p >= 2
    BY <1>1, <1>2, <1>3 DEF OutPlaces
<1>5. /\ Last(C) = C[n] /\ IsArray(Front(C)) /\ Len(Front(C)) = n - 1
      /\ \A i \in 1..(n - 1) : Front(C)[i] = C[i]
    BY <1>1, <1>2, FrontIs
<1>6. Len(L) = p + (IF C[n].loop = 0 THEN 0 ELSE 2)
    BY <1>1, <1>2, <1>4 DEF OutPlaces
<1> QED BY <1>1, <1>2, <1>3, <1>4, <1>5, <1>6

OutRecord(t, m, n, r, l) == [type |-> t, msg |-> m, next |-> n, settable |-> r, loop |-> l]

LEMMA OutRecordIs ==
    ASSUME NEW t, NEW m, NEW n, NEW r, NEW l, NEW x
    PROVE  /\ OutRecord(t, m, n, r, l).type = t /\ OutRecord(t, m, n, r, l).msg = m
           /\ OutRecord(t, m, n, r, l).next = n /\ OutRecord(t, m, n, r, l).settable = r
           /\ OutRecord(t, m, n, r, l).loop = l
BY DEF OutRecord

\* What the turns do to the top frame.
NextSet(c) == [c EXCEPT !.next = @ + 1, !.loop = 0]
LoopSet(c) == [c EXCEPT !.loop = @ + 1]

WithNext(c, x) == [c EXCEPT !.next = x]
WithLoop(c, x) == [c EXCEPT !.loop = x]

LEMMA RecordSet ==
    ASSUME NEW t, NEW m, NEW n, NEW r, NEW l
    PROVE  /\ NextSet(OutRecord(t, m, n, r, l)) = OutRecord(t, m, n + 1, r, 0)
           /\ LoopSet(OutRecord(t, m, n, r, l)) = OutRecord(t, m, n, r, l + 1)
<1>1. \A a, b, c, d, e, x : WithNext(OutRecord(a, b, c, d, e), x) = OutRecord(a, b, x, d, e)
    BY DEF OutRecord, WithNext
<1>2. \A a, b, c, d, e, x : WithLoop(OutRecord(a, b, c, d, e), x) = OutRecord(a, b, c, d, x)
    BY DEF OutRecord, WithLoop
<1>4. \A c : NextSet(c) = WithLoop(WithNext(c, c.next + 1), 0)
    <2>1. ASSUME NEW c PROVE NextSet(c) = WithLoop(WithNext(c, c.next + 1), 0)
        <3>1. PICK x, y : x = c.next + 1 /\ y = 0
            OBVIOUS
        <3>2. NextSet(c) = [c EXCEPT !.next = x, !.loop = y]
            BY <3>1, Zenon DEF NextSet
        <3>3. [c EXCEPT !.next = x, !.loop = y] = WithLoop(WithNext(c, x), y)
            BY DEF WithNext, WithLoop
        <3>4. NextSet(c) = WithLoop(WithNext(c, x), y)
            BY <3>2, <3>3, Zenon
        <3> QED BY <3>1, <3>4
    <2> QED BY <2>1
<1>5. \A c : LoopSet(c) = WithLoop(c, c.loop + 1)
    BY DEF LoopSet, WithLoop
<1>6. PICK c : c = OutRecord(t, m, n, r, l)
    OBVIOUS
<1>7. c.next = n /\ c.loop = l
    BY <1>6, OutRecordIs
<1>8. NextSet(c) = OutRecord(t, m, n + 1, r, 0)
    BY <1>1, <1>2, <1>4, <1>6, <1>7
<1>9. LoopSet(c) = OutRecord(t, m, n, r, l + 1)
    BY <1>2, <1>5, <1>6, <1>7
<1> QED BY <1>6, <1>8, <1>9

LEMMA FrameSet ==
    ASSUME NEW c, OutShape(c)
    PROVE  /\ \E t, m, n, r, l : NextSet(c) = OutRecord(t, m, n, r, l)
           /\ \E t, m, n, r, l : LoopSet(c) = OutRecord(t, m, n, r, l)
           /\ SameMessage(c, NextSet(c)) /\ SameMessage(c, LoopSet(c))
           /\ NextSet(c).next = c.next + 1 /\ NextSet(c).loop = 0
           /\ LoopSet(c).next = c.next /\ LoopSet(c).loop = c.loop + 1
<1>1. PICK t, m, n, r, l : c = OutRecord(t, m, n, r, l)
    BY DEF OutShape, OutRecord
<1>2. /\ c.type = t /\ c.msg = m /\ c.next = n /\ c.settable = r /\ c.loop = l
    BY <1>1, OutRecordIs
<1>3. PICK d, e : d = OutRecord(t, m, n + 1, r, 0) /\ e = OutRecord(t, m, n, r, l + 1)
    OBVIOUS
<1>4. NextSet(c) = d /\ LoopSet(c) = e
    BY <1>1, <1>3, RecordSet
<1>5. /\ d.type = t /\ d.msg = m /\ d.next = n + 1 /\ d.settable = r /\ d.loop = 0
      /\ e.type = t /\ e.msg = m /\ e.next = n /\ e.settable = r /\ e.loop = l + 1
    BY <1>3, OutRecordIs
<1> QED BY <1>2, <1>3, <1>4, <1>5 DEF SameMessage

\* What is below frame m stays, and frame m is d now.
Kept(pos, L, C, L2, C2, m, d) ==
    /\ IsArray(L2) /\ IsArray(C2)
    /\ \A i \in 1..(m - 1) : C2[i] = C[i]
    /\ C2[m] = d /\ SameMessage(C[m], d)
    /\ \A i \in 1..(pos[m] - 1) : L2[i] = L[i]

StillWaits(Q, pos, C, L2, C2, m) ==
    /\ L2[1] = Below /\ C2[1].type = Root /\ C2[1].msg = source /\ ~C2[1].settable
    /\ \A i \in 1..(m - 1) : /\ WaitsFor(Q, L2, C2[i], C2[i + 1], pos[i])
                             /\ Span(C2[i]) = Span(C[i])

LEMMA KeptWaits ==
    ASSUME NEW Q, NEW Q2, Q \subseteq Q2, NEW pos, NEW L, NEW C, NEW L2, NEW C2,
           NEW m \in Nat, NEW d,
           ToLuaFits(Q, pos, L, C), m # 0, m <= Len(C), Len(C) \in Nat,
           Kept(pos, L, C, L2, C2, m, d)
    PROVE  StillWaits(Q2, pos, C, L2, C2, m)
<1>1. /\ OutPlaces(pos, L, C) /\ L[1] = Below
      /\ \A i \in 1..(Len(C) - 1) : WaitsFor(Q, L, C[i], C[i + 1], pos[i])
      /\ C[1].type = Root /\ C[1].msg = source /\ ~C[1].settable
    BY DEF ToLuaFits
<1>2. /\ pos[1] = 2
      /\ \A i \in 1..Len(C) : pos[i] \in Nat /\ pos[i] # 0
      /\ \A i \in 1..(Len(C) - 1) : pos[i + 1] = pos[i] + Span(C[i]) + 1
      /\ \A i, j \in 1..Len(C) : i <= j => pos[i] <= pos[j]
    BY <1>1 DEF OutPlaces
<1>3. PICK p \in Nat : p = pos[m] /\ p >= 2
    <2>1. m \in 1..Len(C) /\ 1 \in 1..Len(C) /\ 1 <= m
        OBVIOUS
    <2> QED BY <1>2, <2>1
<1>4. /\ \A i \in 1..(m - 1) : C2[i] = C[i]
      /\ C2[m] = d /\ d.type = C[m].type /\ d.msg = C[m].msg /\ d.settable = C[m].settable
      /\ SameMessage(C[m], d)
      /\ \A i \in 1..(p - 1) : L2[i] = L[i]
    BY <1>3 DEF Kept, SameMessage
<1>5. L2[1] = Below
    <2>1. 1 \in 1..(p - 1)
        BY <1>3
    <2> QED BY <1>1, <1>4, <2>1
<1>6. C2[1].type = Root /\ C2[1].msg = source /\ ~C2[1].settable
    <2>1. CASE m = 1
        BY <1>1, <1>4, <2>1
    <2>2. CASE m # 1
        <3>1. 1 \in 1..(m - 1)
            BY <2>2
        <3> QED BY <1>1, <1>4, <3>1
    <2> QED BY <2>1, <2>2
<1>7. ASSUME NEW i \in 1..(m - 1)
      PROVE  WaitsFor(Q2, L2, C2[i], C2[i + 1], pos[i]) /\ Span(C2[i]) = Span(C[i])
    <2>1. /\ i \in 1..(Len(C) - 1) /\ i \in 1..Len(C) /\ i + 1 \in 1..Len(C)
          /\ m \in 1..Len(C) /\ i + 1 <= m
        OBVIOUS
    <2>2. PICK x \in Nat : x = pos[i] /\ x # 0
        BY <1>2, <2>1
    <2>3. PICK c, b, b2 : c = C[i] /\ b = C[i + 1] /\ b2 = C2[i + 1] /\ c = C2[i]
        BY <1>4
    <2>4. SameMessage(b, b2)
        <3>1. CASE i + 1 = m
            BY <1>4, <2>3, <3>1
        <3>2. CASE i + 1 # m
            <4>1. i + 1 \in 1..(m - 1)
                BY <3>2
            <4> QED BY <1>4, <2>3, <4>1 DEF SameMessage
        <3> QED BY <3>1, <3>2
    <2>5. WaitsFor(Q, L, c, b, x)
        BY <1>1, <2>1, <2>2, <2>3
    <2>6. \A y \in 1..(x + Span(c)) : L2[y] = L[y]
        <3>1. Span(c) \in Nat
            BY DEF Span
        <3>2. x + Span(c) + 1 = pos[i + 1] /\ pos[i + 1] <= p /\ pos[i + 1] \in Nat
            BY <1>2, <1>3, <2>1, <2>2, <2>3
        <3>3. \A y \in 1..(x + Span(c)) : y \in 1..(p - 1)
            BY <3>1, <3>2
        <3> QED BY <1>4, <3>3
    <2>7. WaitsFor(Q2, L2, c, b2, x)
        BY <2>2, <2>4, <2>5, <2>6, WaitsStays
    <2> QED BY <2>2, <2>3, <2>7
<1> QED BY <1>5, <1>6, <1>7 DEF StillWaits

\* Frame m is on top now.
LEMMA OutTurn ==
    ASSUME NEW Q, NEW Q2, Q \subseteq Q2, Complete(Q2),
           NEW pos, NEW L, NEW C, NEW L2, NEW C2, NEW m \in Nat, NEW d,
           ToLuaFits(Q, pos, L, C), m # 0, m <= Len(C),
           Kept(pos, L, C, L2, C2, m, d), Len(C2) = m,
           Len(L2) = pos[m] + (IF d.loop = 0 THEN 0 ELSE 2),
           TopIs(Q2, L2, d, pos[m])
    PROVE  ToLuaFits(Q2, pos, L2, C2)
<1>1. PICK n \in Nat : n = Len(C)
    BY OutIs
<1>2. /\ L2[1] = Below /\ C2[1].type = Root /\ C2[1].msg = source /\ ~C2[1].settable
      /\ \A i \in 1..(m - 1) : WaitsFor(Q2, L2, C2[i], C2[i + 1], pos[i])
      /\ \A i \in 1..(m - 1) : Span(C2[i]) = Span(C[i])
    <2>1. StillWaits(Q2, pos, C, L2, C2, m)
        BY <1>1, KeptWaits
    <2> QED BY <2>1 DEF StillWaits
<1>3. IsArray(L2) /\ IsArray(C2) /\ C2[m] = d
    BY DEF Kept
<1>4. C2 # <<>>
    BY <1>3, EmptyArray
<1>5. OutPlaces(pos, L2, C2)
    <2>1. OutPlaces(pos, L, C)
        BY DEF ToLuaFits
    <2>2. \A i \in 1..m : i \in 1..n
        BY <1>1
    <2>3. \A i \in 1..(m - 1) : i \in 1..(n - 1)
        BY <1>1
    <2> QED BY <1>1, <1>2, <1>3, <2>1, <2>2, <2>3 DEF OutPlaces
<1>6. TopIs(Q2, L2, C2[Len(C2)], pos[Len(C2)])
    BY <1>3
<1> QED BY <1>2, <1>3, <1>4, <1>5, <1>6 DEF ToLuaFits

\* Frame b is pushed, and frame n waits for it.
Pushes(Q, pos, L, C, L2, C2, n, p, d, b) ==
    /\ ToLuaFits(Q, pos, L, C) /\ n # 0 /\ n = Len(C) /\ p = pos[n]
    /\ Kept(pos, L, C, L2, C2, n, d) /\ Len(C2) = n + 1 /\ C2[n + 1] = b /\ b.loop = 0
    /\ WaitsFor(Q, L2, d, b, p) /\ Len(L2) = p + Span(d) + 1
    /\ TopIs(Q, L2, b, p + Span(d) + 1)

LEMMA PushFits ==
    ASSUME NEW Q, NEW pos, NEW L, NEW C, NEW L2, NEW C2, NEW n \in Nat, NEW p \in Nat, NEW d, NEW b,
           Pushes(Q, pos, L, C, L2, C2, n, p, d, b)
    PROVE  \E pos2 : ToLuaFits(Q, pos2, L2, C2)
<1> SUFFICES ASSUME ToLuaFits(Q, pos, L, C), n # 0, n = Len(C), p = pos[n],
                    Kept(pos, L, C, L2, C2, n, d), Len(C2) = n + 1, C2[n + 1] = b, b.loop = 0,
                    WaitsFor(Q, L2, d, b, p), Len(L2) = p + Span(d) + 1,
                    TopIs(Q, L2, b, p + Span(d) + 1)
             PROVE  \E pos2 : ToLuaFits(Q, pos2, L2, C2)
    BY DEF Pushes
<1>1. PICK x \in Nat : x = p + Span(d) + 1 /\ x > p
    <2>1. Span(d) \in Nat
        BY DEF Span
    <2> QED BY <2>1
<1>2. PICK pos2 : pos2 = [i \in 1..(n + 1) |-> IF i = n + 1 THEN x ELSE pos[i]]
    OBVIOUS
<1>3. pos2[n + 1] = x /\ \A i \in 1..n : pos2[i] = pos[i]
    <2>1. n + 1 \in 1..(n + 1) /\ \A i \in 1..n : i \in 1..(n + 1) /\ i # n + 1
        OBVIOUS
    <2> QED BY <1>2, <2>1
<1>4. /\ L2[1] = Below /\ C2[1].type = Root /\ C2[1].msg = source /\ ~C2[1].settable
      /\ \A i \in 1..(n - 1) : WaitsFor(Q, L2, C2[i], C2[i + 1], pos[i])
      /\ \A i \in 1..(n - 1) : Span(C2[i]) = Span(C[i])
    <2>1. StillWaits(Q, pos, C, L2, C2, n)
        <3>1. PICK Q2 : Q2 = Q /\ Q \subseteq Q2
            OBVIOUS
        <3>2. n <= Len(C) /\ Len(C) \in Nat
            OBVIOUS
        <3>3. StillWaits(Q2, pos, C, L2, C2, n)
            BY <3>1, <3>2, KeptWaits
        <3> QED BY <3>1, <3>3
    <2> QED BY <2>1 DEF StillWaits
<1>5. IsArray(L2) /\ IsArray(C2) /\ C2[n] = d
    BY DEF Kept
<1>6. C2 # <<>>
    BY <1>5, EmptyArray
<1>7. Complete(Q) /\ OutPlaces(pos, L, C)
    BY DEF ToLuaFits
<1>8. \A i \in 1..((n + 1) - 1) : i \in 1..n /\ (i = n \/ (i \in 1..(n - 1) /\ i + 1 \in 1..n))
    OBVIOUS
<1>9. OutPlaces(pos2, L2, C2)
    <2>1. /\ pos[1] = 2
          /\ \A i \in 1..n : pos[i] \in Nat /\ pos[i] # 0
          /\ \A i \in 1..(n - 1) : pos[i + 1] = pos[i] + Span(C[i]) + 1
          /\ \A i, j \in 1..n : i <= j => pos[i] <= pos[j]
        BY <1>7 DEF OutPlaces
    <2>2. pos2[1] = 2
        BY <1>3, <2>1
    <2>3. \A i \in 1..(n + 1) : i \in 1..n \/ i = n + 1
        OBVIOUS
    <2>4. \A i \in 1..(n + 1) : pos2[i] \in Nat /\ pos2[i] # 0
        BY <1>1, <1>3, <2>1, <2>3
    <2>5. \A i \in 1..((n + 1) - 1) : pos2[i + 1] = pos2[i] + Span(C2[i]) + 1
        <3>1. ASSUME NEW i \in 1..(n - 1) PROVE pos2[i + 1] = pos2[i] + Span(C2[i]) + 1
            <4>1. i \in 1..n /\ i + 1 \in 1..n
                OBVIOUS
            <4> QED BY <1>3, <1>4, <2>1, <4>1
        <3>2. pos2[n + 1] = pos2[n] + Span(C2[n]) + 1
            <4>1. n \in 1..n
                OBVIOUS
            <4> QED BY <1>1, <1>3, <1>5, <4>1
        <3> QED BY <1>8, <3>1, <3>2
    <2>6. ASSUME NEW i \in 1..(n + 1), NEW j \in 1..(n + 1), i <= j PROVE pos2[i] <= pos2[j]
        <3>1. CASE j \in 1..n
            <4>1. i \in 1..n
                BY <2>6, <3>1
            <4> QED BY <1>3, <2>1, <2>6, <3>1, <4>1
        <3>2. CASE j = n + 1
            <4>1. CASE i = n + 1
                BY <2>4, <3>2, <4>1
            <4>2. CASE i \in 1..n
                <5>1. n \in 1..n /\ i <= n
                    BY <4>2
                <5>2. pos[i] <= p /\ pos[i] \in Nat
                    BY <2>1, <4>2, <5>1
                <5> QED BY <1>1, <1>3, <3>2, <4>2, <5>2
            <4> QED BY <2>3, <4>1, <4>2
        <3> QED BY <2>3, <3>1, <3>2
    <2>7. Len(L2) = pos2[n + 1] + 0
        BY <1>1, <1>3
    <2> QED BY <2>2, <2>4, <2>5, <2>6, <2>7 DEF OutPlaces
<1>10. \A i \in 1..((n + 1) - 1) : WaitsFor(Q, L2, C2[i], C2[i + 1], pos2[i])
    <2>1. WaitsFor(Q, L2, C2[n], C2[n + 1], pos2[n])
        <3>1. n \in 1..n
            OBVIOUS
        <3> QED BY <1>3, <1>5, <3>1
    <2>2. ASSUME NEW i \in 1..(n - 1) PROVE WaitsFor(Q, L2, C2[i], C2[i + 1], pos2[i])
        <3>1. i \in 1..n
            OBVIOUS
        <3> QED BY <1>3, <1>4, <3>1
    <2> QED BY <1>8, <2>1, <2>2
<1>11. TopIs(Q, L2, C2[Len(C2)], pos2[Len(C2)])
    BY <1>1, <1>3
<1>12. ToLuaFits(Q, pos2, L2, C2)
    BY <1>4, <1>5, <1>6, <1>7, <1>9, <1>10, <1>11 DEF ToLuaFits
<1> QED BY <1>12

-----------------------------------------------------------------------------
(* The turns of the loop of protobuf2lua_nostack *)

OutAt(Q, pos, n, p) ==
    /\ n = Len(cpp) /\ n # 0 /\ p # 0 /\ p = pos[n] /\ n \in 1..n
    /\ Frame = cpp[n] /\ OutShape(Frame) /\ TopIs(Q, lua, Frame, p)
    /\ Len(lua) = p + (IF Frame.loop = 0 THEN 0 ELSE 2)
    /\ IsArray(lua) /\ IsArray(cpp) /\ Complete(Q)
    /\ IsArray(Front(cpp)) /\ Len(Front(cpp)) = n - 1
    /\ \A i \in 1..(n - 1) : Front(cpp)[i] = cpp[i]
    /\ lua[1] = Below /\ cpp[1].type = Root /\ cpp[1].msg = source /\ ~cpp[1].settable
    /\ n = 1 => p = 2

LEMMA OutNow ==
    ASSUME NEW Q, NEW pos, ToLuaFits(Q, pos, lua, cpp)
    PROVE  \E n, p \in Nat : OutAt(Q, pos, n, p)
<1>1. PICK n \in Nat, p \in Nat :
         /\ n = Len(cpp) /\ n # 0 /\ n \in 1..n /\ p = pos[n] /\ p # 0 /\ p >= 2
         /\ TopIs(Q, lua, cpp[n], p)
         /\ Len(lua) = p + (IF cpp[n].loop = 0 THEN 0 ELSE 2)
         /\ IsArray(lua) /\ IsArray(cpp) /\ cpp # <<>> /\ Last(cpp) = cpp[n]
         /\ IsArray(Front(cpp)) /\ Len(Front(cpp)) = n - 1
         /\ \A i \in 1..(n - 1) : Front(cpp)[i] = cpp[i]
         /\ cpp[1].type = Root /\ cpp[1].msg = source /\ ~cpp[1].settable
    BY OutIs
<1>2. Complete(Q) /\ lua[1] = Below /\ OutPlaces(pos, lua, cpp)
    BY DEF ToLuaFits
<1>3. n = 1 => p = 2
    BY <1>1, <1>2 DEF OutPlaces
<1>4. OutShape(cpp[n])
    BY <1>1 DEF TopIs
<1> QED BY <1>1, <1>2, <1>3, <1>4 DEF OutAt, Frame

Made(Q, L) ==
    /\ Complete(Q) /\ IsArray(L) /\ Len(L) = 2 /\ L[1] = Below
    /\ <<Root, source, L[2]>> \in Q

\* All fields of a message are done: its table is complete.
LEMMA OneMore ==
    ASSUME NEW Q, NEW pos, NEW n \in Nat, NEW p \in Nat, OutAt(Q, pos, n, p),
           Frame.next > Len(Schema[Frame.type])
    PROVE  /\ Frame.loop = 0 /\ Len(lua) = p
           /\ Complete(Q \cup {<<Frame.type, Frame.msg, lua[p]>>})
<1>1. PICK c, t : c = Frame /\ t = lua[p]
    OBVIOUS
<1>2. OutShape(c) /\ TopIs(Q, lua, c, p) /\ Len(lua) = p + (IF c.loop = 0 THEN 0 ELSE 2) /\ Complete(Q)
    BY <1>1 DEF OutAt
<1>3. /\ c.type \in DOMAIN Schema /\ c.msg \in Messages[c.type] /\ c.next \in Nat
      /\ c.next <= Len(Schema[c.type]) + 1 /\ c.next > Len(Schema[c.type])
    BY <1>1, <1>2 DEF OutShape
<1>4. Len(Schema[c.type]) \in Nat
    BY <1>3, FieldNames
<1>5. c.loop = 0
    BY <1>2, <1>3, <1>4 DEF TopIs, Opens
<1>6. PartIs(Q, c.type, c.msg, t, Len(Schema[c.type]))
    <2>1. c.next - 1 = Len(Schema[c.type])
        BY <1>3, <1>4
    <2> QED BY <1>1, <1>2, <2>1 DEF TopIs
<1>7. PICK Q2 : Q2 = Q \cup {<<c.type, c.msg, t>>}
    OBVIOUS
<1>8. Q \subseteq Q2
    BY <1>7
<1>9. ASSUME NEW q \in Q2
      PROVE  /\ q[1] \in DOMAIN Schema /\ q[2] \in Messages[q[1]]
             /\ PartIs(Q2, q[1], q[2], q[3], Len(Schema[q[1]]))
    <2>1. CASE q \in Q
        <3>1. /\ q[1] \in DOMAIN Schema /\ q[2] \in Messages[q[1]]
              /\ PartIs(Q, q[1], q[2], q[3], Len(Schema[q[1]]))
            BY <1>2, <2>1 DEF Complete
        <3> QED BY <1>8, <3>1, PartGrows
    <2>2. CASE q = <<c.type, c.msg, t>>
        <3>1. q[1] = c.type /\ q[2] = c.msg /\ q[3] = t
            BY <2>2
        <3>2. PartIs(Q2, c.type, c.msg, t, Len(Schema[c.type]))
            BY <1>6, <1>8, PartGrows
        <3> QED BY <1>3, <3>1, <3>2
    <2> QED BY <1>7, <2>1, <2>2
<1>10. Complete(Q2)
    BY <1>9 DEF Complete
<1> QED BY <1>1, <1>2, <1>4, <1>5, <1>7, <1>10 DEF OutAt

\* The table goes into the one below it.
LEMMA GoesIn ==
    ASSUME NEW Q, NEW Q2, Q \subseteq Q2, NEW L, IsArray(L), NEW c, NEW b, NEW r \in Nat, r # 0,
           WaitsFor(Q, L, c, b, r), Len(L) = r + Span(c) + 1,
           <<b.type, b.msg, L[Len(L)]>> \in Q2
    PROVE  /\ IsArray(SetTable(L)) /\ Len(SetTable(L)) = r + (IF c.loop = 0 THEN 0 ELSE 2)
           /\ \A i \in 1..(r - 1) : SetTable(L)[i] = L[i]
           /\ TopIs(Q2, SetTable(L), c, r)
<1>1. PICK S : S = SetTable(L)
    OBVIOUS
<1>2. OutShape(c)
    BY DEF WaitsFor
<1>3. /\ c.type \in DOMAIN Schema /\ c.next \in Nat /\ c.next # 0 /\ c.loop \in Nat
      /\ c.next <= Len(Schema[c.type]) + 1
    BY <1>2 DEF OutShape
<1>4. Len(Schema[c.type]) \in Nat
    BY <1>3, FieldNames
<1>5. CASE c.loop = 0
    <2>1. Len(L) = r + 2
        BY <1>5 DEF Span
    <2>2. /\ IsArray(S) /\ Len(S) = r
          /\ \A i \in 1..(r - 1) : S[i] = L[i]
          /\ S[r] = With(L[r], L[r + 1], L[r + 2])
        BY <1>1, <2>1, SetTableIs
    <2>3. PICK d \in Nat : d = c.next - 2 /\ d + 1 = c.next - 1 /\ d + 1 <= Len(Schema[c.type]) /\ c.next > 1
        <3>1. c.next > 1
            BY <1>5 DEF WaitsFor
        <3>2. c.next - 2 \in Nat /\ (c.next - 2) + 1 = c.next - 1 /\ (c.next - 2) + 1 <= Len(Schema[c.type])
            BY <1>3, <1>4, <3>1
        <3> QED BY <3>1, <3>2
    <2>4. PICK f, t : f = Schema[c.type][d + 1] /\ t = L[r + 2]
        OBVIOUS
    <2>5. /\ ~f.rep /\ f.kind = "message" /\ L[r + 1] = Key(f.name)
          /\ b.type = f.type /\ b.msg = SubMessage(f, c.msg)
          /\ PartIs(Q, c.type, c.msg, L[r], d)
        BY <1>5, <2>3, <2>4 DEF WaitsFor
    <2>6. ValueIs(Q2, f, c.msg, t)
        BY <2>1, <2>4, <2>5 DEF ValueIs
    <2>7. PartIs(Q2, c.type, c.msg, L[r], d)
        BY <2>5, PartGrows
    <2>8. PartIs(Q2, c.type, c.msg, With(L[r], Key(f.name), t), d + 1)
        BY <1>3, <2>3, <2>4, <2>6, <2>7, PartNext
    <2>9. TopIs(Q2, S, c, r)
        BY <1>2, <1>5, <2>2, <2>3, <2>4, <2>5, <2>8 DEF TopIs
    <2> QED BY <1>1, <1>5, <2>2, <2>9
<1>6. CASE c.loop # 0
    <2>1. Len(L) = (r + 2) + 2 /\ r + 2 # 0 /\ (r + 2) + 2 = r + 4 /\ (r + 2) + 1 = r + 3 /\ r + 2 \in Nat
        BY <1>6 DEF Span
    <2>2. PICK x \in Nat : x = r + 2 /\ x # 0 /\ Len(L) = x + 2 /\ x + 1 = r + 3
        BY <2>1
    <2>3. /\ IsArray(S) /\ Len(S) = x
          /\ \A i \in 1..(x - 1) : S[i] = L[i]
          /\ S[x] = With(L[x], L[x + 1], L[x + 2])
        BY <1>1, <2>2, SetTableIs
    <2>4. PICK f, t, a : f = Schema[c.type][c.next] /\ t = L[x + 2] /\ a = L[x].arr
        OBVIOUS
    <2>5. /\ Opens(Q, L, c, r, c.loop - 1)
          /\ b.type = f.type /\ b.msg = c.msg[f.name][c.loop]
          /\ \E k \in Nat : L[x + 1] = Number(k)
          /\ PartIs(Q, c.type, c.msg, L[r], c.next - 1)
        BY <1>6, <2>2, <2>4 DEF WaitsFor
    <2>6. /\ c.next <= Len(Schema[c.type]) /\ f.rep /\ f.kind = "message"
          /\ L[r + 1] = Key(f.name) /\ L[x] = Table(a, <<>>)
          /\ ItemsAre(Q, f, c.msg, a, c.loop - 1) /\ c.loop <= Len(c.msg[f.name])
        BY <2>2, <2>4, <2>5 DEF Opens
    <2>7. PICK k \in Nat : L[x + 1] = Number(k)
        BY <2>5
    <2>8. PICK a2 : a2 = Append(a, t)
        OBVIOUS
    <2>9. IsArray(a) /\ Len(a) = c.loop - 1 /\ \A j \in 1..(c.loop - 1) : <<f.type, c.msg[f.name][j], a[j]>> \in Q
        BY <2>6 DEF ItemsAre
    <2>10. S[x] = Table(a2, <<>>) /\ S[x].arr = a2
        <3>1. With(Table(a, <<>>), Number(k), t) = Table(a2, <<>>)
            BY <2>8, <2>9, WithItem
        <3>2. PICK e : e = <<>>
            OBVIOUS
        <3>3. Table(a2, e).arr = a2
            BY TableIs
        <3> QED BY <2>3, <2>4, <2>6, <2>7, <3>1, <3>2, <3>3
    <2>11. ItemsAre(Q2, f, c.msg, a2, c.loop)
        <3>1. /\ IsArray(a2) /\ Len(a2) = (c.loop - 1) + 1 /\ a2[(c.loop - 1) + 1] = t
              /\ \A j \in 1..(c.loop - 1) : a2[j] = a[j]
            BY <2>8, <2>9, AppendIs
        <3>2. (c.loop - 1) + 1 = c.loop /\ \A j \in 1..c.loop : j = c.loop \/ j \in 1..(c.loop - 1)
            BY <1>3, <1>6
        <3>3. <<f.type, c.msg[f.name][c.loop], t>> \in Q2
            BY <2>2, <2>4, <2>5
        <3>4. ASSUME NEW j \in 1..c.loop PROVE <<f.type, c.msg[f.name][j], a2[j]>> \in Q2
            <4>1. CASE j = c.loop
                BY <3>1, <3>2, <3>3, <4>1
            <4>2. CASE j \in 1..(c.loop - 1)
                BY <2>9, <3>1, <4>2
            <4> QED BY <3>2, <4>1, <4>2
        <3> QED BY <3>1, <3>2, <3>4 DEF ItemsAre
    <2>12. S[r] = L[r] /\ S[r + 1] = L[r + 1] /\ \A i \in 1..(r - 1) : S[i] = L[i]
        <3>1. r \in 1..(x - 1) /\ r + 1 \in 1..(x - 1) /\ \A i \in 1..(r - 1) : i \in 1..(x - 1)
            BY <2>2
        <3> QED BY <2>3, <3>1
    <2>13. Opens(Q2, S, c, r, c.loop)
        BY <2>2, <2>4, <2>6, <2>10, <2>11, <2>12 DEF Opens
    <2>14. PartIs(Q2, c.type, c.msg, S[r], c.next - 1)
        BY <2>5, <2>12, PartGrows
    <2>15. TopIs(Q2, S, c, r)
        BY <1>2, <2>13, <2>14 DEF TopIs
    <2> QED BY <1>1, <1>6, <2>2, <2>3, <2>12, <2>15
<1> QED BY <1>5, <1>6

LEMMA PopsOut ==
    ASSUME NEW Q, NEW pos, ToLuaFits(Q, pos, lua, cpp), OutPops
    PROVE  \/ pc' = "made" /\ \E Q2 : Made(Q2, lua')
           \/ pc' = pc /\ \E Q2, pos2 : ToLuaFits(Q2, pos2, lua', cpp')
<1>1. PICK n \in Nat, p \in Nat : OutAt(Q, pos, n, p)
    BY OutNow
<1>2. /\ Frame.next > Len(Schema[Frame.type])
      /\ lua' = (IF Frame.settable THEN SetTable(lua) ELSE lua) /\ cpp' = Front(cpp)
      /\ pc' = (IF cpp' = <<>> THEN "made" ELSE pc)
    BY DEF OutPops
<1>3. PICK Q2 : Q2 = Q \cup {<<Frame.type, Frame.msg, lua[p]>>}
    OBVIOUS
<1>4. Frame.loop = 0 /\ Len(lua) = p /\ Complete(Q2) /\ Q \subseteq Q2
    BY <1>1, <1>2, <1>3, OneMore
<1>5. PICK c : c = Frame
    OBVIOUS
<1>6. /\ n = Len(cpp) /\ n # 0 /\ p # 0 /\ p = pos[n] /\ c = cpp[n]
      /\ IsArray(lua) /\ IsArray(cpp) /\ IsArray(Front(cpp)) /\ Len(Front(cpp)) = n - 1
      /\ \A i \in 1..(n - 1) : Front(cpp)[i] = cpp[i]
      /\ lua[1] = Below /\ cpp[1].type = Root /\ cpp[1].msg = source /\ ~cpp[1].settable
      /\ n = 1 => p = 2
    BY <1>1, <1>5 DEF OutAt
<1>7. <<c.type, c.msg, lua[p]>> \in Q2
    BY <1>3, <1>5
<1>8. CASE n = 1
    <2>1. c.type = Root /\ c.msg = source /\ ~c.settable /\ p = 2
        BY <1>6, <1>8
    <2>2. lua' = lua
        BY <1>2, <1>5, <2>1
    <2>3. cpp' = <<>>
        <3>1. Len(Front(cpp)) = 0
            BY <1>6, <1>8
        <3> QED BY <1>2, <1>6, <3>1, EmptyArray
    <2>4. Made(Q2, lua)
        BY <1>4, <1>6, <1>7, <2>1 DEF Made
    <2>5. pc' = "made"
        BY <1>2, <2>3
    <2> QED BY <2>2, <2>4, <2>5
<1>9. CASE n # 1
    <2>1. PICK m \in Nat : m = n - 1 /\ m # 0 /\ n = m + 1 /\ m <= n
        <3>1. n # 0
            BY <1>6
        <3>2. n - 1 \in Nat /\ n - 1 # 0 /\ n = (n - 1) + 1 /\ n - 1 <= n
            BY <1>9, <3>1
        <3> QED BY <3>2
    <2>2. PICK b, r : b = cpp[m] /\ r \in Nat /\ r = pos[m] /\ r # 0 /\ p = r + Span(b) + 1
        <3>1. OutPlaces(pos, lua, cpp)
            BY DEF ToLuaFits
        <3>2. m \in 1..(n - 1) /\ m \in 1..n
            BY <2>1
        <3>3. /\ \A i \in 1..n : pos[i] \in Nat /\ pos[i] # 0
              /\ \A i \in 1..(n - 1) : pos[i + 1] = pos[i] + Span(cpp[i]) + 1
            <4>1. n = Len(cpp)
                BY <1>6
            <4> QED BY <3>1, <4>1 DEF OutPlaces
        <3> QED BY <1>6, <2>1, <3>3
    <2>3. WaitsFor(Q, lua, b, c, r)
        <3>1. m \in 1..(Len(cpp) - 1)
            BY <1>6, <2>1
        <3>2. WaitsFor(Q, lua, cpp[m], cpp[m + 1], pos[m])
            BY <3>1 DEF ToLuaFits
        <3> QED BY <1>6, <2>1, <2>2, <3>2
    <2>4. lua' = SetTable(lua)
        BY <1>2, <1>5, <2>3 DEF WaitsFor
    <2>5. PICK L2, C2 : L2 = lua' /\ C2 = cpp'
        OBVIOUS
    <2>6. /\ IsArray(L2) /\ Len(L2) = r + (IF b.loop = 0 THEN 0 ELSE 2)
          /\ \A i \in 1..(r - 1) : L2[i] = lua[i]
          /\ TopIs(Q2, L2, b, r)
        <3>1. /\ IsArray(SetTable(lua)) /\ Len(SetTable(lua)) = r + (IF b.loop = 0 THEN 0 ELSE 2)
              /\ \A i \in 1..(r - 1) : SetTable(lua)[i] = lua[i]
              /\ TopIs(Q2, SetTable(lua), b, r)
            <4>1. Len(lua) = r + Span(b) + 1 /\ <<c.type, c.msg, lua[Len(lua)]>> \in Q2
                BY <1>4, <1>7, <2>2
            <4>2. PICK L : L = lua
                OBVIOUS
            <4>3. /\ Q \subseteq Q2 /\ IsArray(L) /\ r \in Nat /\ r # 0
                  /\ WaitsFor(Q, L, b, c, r) /\ Len(L) = r + Span(b) + 1
                  /\ <<c.type, c.msg, L[Len(L)]>> \in Q2
                BY <1>4, <1>6, <2>2, <2>3, <4>1, <4>2
            <4>4. /\ IsArray(SetTable(L)) /\ Len(SetTable(L)) = r + (IF b.loop = 0 THEN 0 ELSE 2)
                  /\ \A i \in 1..(r - 1) : SetTable(L)[i] = L[i]
                  /\ TopIs(Q2, SetTable(L), b, r)
                BY <4>3, GoesIn
            <4> QED BY <4>2, <4>4
        <3> QED BY <2>4, <2>5, <3>1
    <2>7. IsArray(C2) /\ Len(C2) = m /\ \A i \in 1..m : C2[i] = cpp[i]
        BY <1>2, <1>6, <2>1, <2>5
    <2>8. Kept(pos, lua, cpp, L2, C2, m, b)
        <3>1. \A i \in 1..(m - 1) : i \in 1..m
            BY <2>1
        <3>2. m \in 1..m
            BY <2>1
        <3> QED BY <2>2, <2>6, <2>7, <3>1, <3>2 DEF Kept, SameMessage
    <2>9. ToLuaFits(Q2, pos, L2, C2)
        <3>1. m <= Len(cpp) /\ Len(L2) = pos[m] + (IF b.loop = 0 THEN 0 ELSE 2) /\ TopIs(Q2, L2, b, pos[m])
            BY <1>6, <2>1, <2>2, <2>6
        <3> QED BY <1>4, <2>1, <2>7, <2>8, <3>1, OutTurn
    <2>10. pc' = pc
        <3>1. C2 # <<>>
            BY <2>1, <2>7, EmptyArray
        <3> QED BY <1>2, <2>5, <3>1
    <2> QED BY <2>5, <2>9, <2>10
<1> QED BY <1>8, <1>9

\* A field of the frame's message is at turn.
OutTurns(Q, pos, n, p, f, c) ==
    /\ OutAt(Q, pos, n, p) /\ c = Frame /\ f = OutField
    /\ c.type \in DOMAIN Schema /\ c.msg \in Messages[c.type]
    /\ c.next \in Nat /\ c.next # 0 /\ c.next <= Len(Schema[c.type]) /\ c.loop \in Nat
    /\ f \in FieldsOf(c.type) /\ f = Schema[c.type][c.next]
    /\ PartIs(Q, c.type, c.msg, lua[p], c.next - 1)
    /\ c.loop # 0 => Opens(Q, lua, c, p, c.loop)

LEMMA TurnNow ==
    ASSUME NEW Q, NEW pos, ToLuaFits(Q, pos, lua, cpp), OutMore
    PROVE  \E n, p \in Nat : \E f, c : OutTurns(Q, pos, n, p, f, c)
<1>1. PICK n \in Nat, p \in Nat : OutAt(Q, pos, n, p)
    BY OutNow
<1>2. PICK c, f : c = Frame /\ f = OutField
    OBVIOUS
<1>3. OutShape(c) /\ TopIs(Q, lua, c, p) /\ c.next <= Len(Schema[c.type]) /\ f = Schema[c.type][c.next]
    BY <1>1, <1>2 DEF OutAt, OutMore, OutField
<1>4. /\ c.type \in DOMAIN Schema /\ c.msg \in Messages[c.type]
      /\ c.next \in Nat /\ c.next # 0 /\ c.loop \in Nat
    BY <1>3 DEF OutShape
<1>5. f \in FieldsOf(c.type)
    <2>1. c.next \in 1..Len(Schema[c.type])
        BY <1>3, <1>4, FieldNames
    <2> QED BY <1>3, <1>4, <2>1, FieldNames
<1>6. OutTurns(Q, pos, n, p, f, c)
    BY <1>1, <1>2, <1>3, <1>4, <1>5 DEF OutTurns, TopIs
<1> QED BY <1>6

\* The frames after a turn that changes the top one.
TopNow(C2, n, d) ==
    /\ IsArray(C2) /\ Len(C2) = n /\ C2[n] = d
    /\ \A i \in 1..(n - 1) : C2[i] = cpp[i]

LEMMA TopBecomes ==
    ASSUME NEW Q, NEW pos, NEW n \in Nat, NEW p \in Nat, OutAt(Q, pos, n, p),
           NEW d, NEW C2, C2 = Becomes(d)
    PROVE  TopNow(C2, n, d)
<1>1. /\ IsArray(Front(cpp)) /\ Len(Front(cpp)) = n - 1 /\ n # 0
      /\ \A i \in 1..(n - 1) : Front(cpp)[i] = cpp[i]
    BY DEF OutAt
<1>2. (n - 1) + 1 = n
    OBVIOUS
<1>3. PICK F : F = Front(cpp)
    OBVIOUS
<1>4. C2 = Append(F, d)
    BY <1>3 DEF Becomes
<1>5. /\ IsArray(C2) /\ Len(C2) = n /\ C2[n] = d
      /\ \A i \in 1..(n - 1) : C2[i] = F[i]
    BY <1>1, <1>2, <1>3, <1>4, AppendIs
<1> QED BY <1>1, <1>3, <1>5 DEF TopNow

\* What is in a message that comes into the VM.
LEMMA InMessageIs ==
    ASSUME NEW type \in DOMAIN Schema, NEW m \in Messages[type], NEW f \in FieldsOf(type)
    PROVE  /\ IsArray(m[f.name])
           /\ ~f.rep /\ f.kind # "message" => Len(m[f.name]) = 1
           /\ ~f.rep /\ f.kind = "message" => SubMessage(f, m) \in Messages[f.type]
           /\ f.rep /\ f.kind = "message" =>
                \A j \in DOMAIN m[f.name] : m[f.name][j] \in Messages[f.type]
           /\ f.kind = "message" => f.type \in DOMAIN Schema
<1>1. PICK i \in DOMAIN Schema[type] : f = Schema[type][i]
    BY DEF FieldsOf
<1>2. f.kind = "message" => f.type \in DOMAIN Schema
    BY SchemaIs
<1> QED BY <1>1, <1>2, MessagesAssumption

LEMMA NoItems == IsArray(<<>>) /\ Len(<<>>) = 0 /\ DOMAIN <<>> = {}
<1>1. PICK S : S = {}
    OBVIOUS
<1>2. <<>> \in Seq(S)
    OBVIOUS
<1>3. IsArray(<<>>)
    BY <1>2, SeqArray
<1> QED BY <1>3

\* The stack with the key of the field, and with its array.
NamedIs(s, f, p) ==
    /\ IsArray(s) /\ Len(s) = p + 1 /\ s[p + 1] = Key(f.name)
    /\ \A i \in 1..p : s[i] = lua[i]

OpenedIs(Q, s, f, c, p) ==
    /\ IsArray(s) /\ Len(s) = p + 2 /\ s[p + 1] = Key(f.name)
    /\ \A i \in 1..p : s[i] = lua[i]
    /\ s[p + 2] = Table(s[p + 2].arr, <<>>)
    /\ ItemsAre(Q, f, c.msg, s[p + 2].arr, c.loop)

LEMMA NamedNow ==
    ASSUME NEW Q, NEW pos, NEW n \in Nat, NEW p \in Nat, NEW f, NEW c,
           OutTurns(Q, pos, n, p, f, c), c.loop = 0
    PROVE  NamedIs(Named, f, p)
<1>1. c = Frame /\ f = OutField /\ IsArray(lua) /\ Len(lua) = p
    BY DEF OutTurns, OutAt
<1>2. PICK k : k = Key(f.name)
    OBVIOUS
<1>3. Named = Append(lua, k)
    BY <1>1, <1>2 DEF Named
<1>4. /\ IsArray(Append(lua, k)) /\ Len(Append(lua, k)) = p + 1 /\ Append(lua, k)[p + 1] = k
      /\ \A i \in 1..p : Append(lua, k)[i] = lua[i]
    BY <1>1, AppendIs
<1> QED BY <1>2, <1>3, <1>4 DEF NamedIs

LEMMA OpenedNow ==
    ASSUME NEW Q, NEW pos, NEW n \in Nat, NEW p \in Nat, NEW f, NEW c,
           OutTurns(Q, pos, n, p, f, c)
    PROVE  OpenedIs(Q, Opened, f, c, p) /\ (c.loop = 0 => Opened[p + 2] = Table(<<>>, <<>>))
<1>1. c = Frame /\ f = OutField /\ IsArray(lua) /\ f = Schema[c.type][c.next]
    BY DEF OutTurns, OutAt
<1>2. CASE c.loop = 0
    <2>1. NamedIs(Named, f, p)
        BY <1>2, NamedNow
    <2>2. PICK s, t : s = Named /\ t = Table(<<>>, <<>>)
        OBVIOUS
    <2>3. Opened = Append(s, t)
        BY <1>1, <1>2, <2>2 DEF Opened
    <2>4. IsArray(s) /\ Len(s) = p + 1 /\ s[p + 1] = Key(f.name) /\ \A i \in 1..p : s[i] = lua[i]
        BY <2>1, <2>2 DEF NamedIs
    <2>5. /\ IsArray(Append(s, t)) /\ Len(Append(s, t)) = p + 2 /\ Append(s, t)[p + 2] = t
          /\ \A i \in 1..(p + 1) : Append(s, t)[i] = s[i]
        <3>1. (p + 1) + 1 = p + 2
            OBVIOUS
        <3> QED BY <2>4, <3>1, AppendIs
    <2>6. p + 1 \in 1..(p + 1) /\ \A i \in 1..p : i \in 1..(p + 1)
        OBVIOUS
    <2>7. Append(s, t)[p + 1] = Key(f.name) /\ \A i \in 1..p : Append(s, t)[i] = lua[i]
        BY <2>4, <2>5, <2>6
    <2>8. t.arr = <<>>
        BY <2>2, TableIs
    <2>9. ItemsAre(Q, f, c.msg, t.arr, c.loop)
        <3>1. \A j \in 1..0 : FALSE
            OBVIOUS
        <3> QED BY <1>2, <2>8, <3>1, NoItems DEF ItemsAre
    <2> QED BY <1>2, <2>2, <2>3, <2>5, <2>7, <2>8, <2>9 DEF OpenedIs
<1>3. CASE c.loop # 0
    <2>1. Opened = lua
        BY <1>1, <1>3 DEF Opened
    <2>2. Opens(Q, lua, c, p, c.loop) /\ Len(lua) = p + 2
        BY <1>1, <1>3 DEF OutTurns, OutAt
    <2> QED BY <1>1, <1>3, <2>1, <2>2 DEF Opens, OpenedIs
<1> QED BY <1>2, <1>3

\* The field is set, and the next one is at turn.
LEMMA FieldIsSet ==
    ASSUME NEW Q, NEW pos, ToLuaFits(Q, pos, lua, cpp),
           NEW n \in Nat, NEW p \in Nat, NEW f, NEW c, OutTurns(Q, pos, n, p, f, c),
           NEW s, IsArray(s), Len(s) = p + 2, \A i \in 1..p : s[i] = lua[i],
           s[p + 1] = Key(f.name), ValueIs(Q, f, c.msg, s[p + 2]),
           lua' = SetTable(s), cpp' = Becomes(Advanced)
    PROVE  ToLuaFits(Q, pos, lua', cpp')
<1>1. PICK d : d = NextSet(c)
    OBVIOUS
<1>2. /\ OutAt(Q, pos, n, p) /\ c = Frame
      /\ c.type \in DOMAIN Schema /\ c.msg \in Messages[c.type]
      /\ c.next \in Nat /\ c.next # 0 /\ c.next <= Len(Schema[c.type])
      /\ f = Schema[c.type][c.next] /\ PartIs(Q, c.type, c.msg, lua[p], c.next - 1)
    BY DEF OutTurns
<1>3. OutShape(c) /\ c = cpp[n] /\ n = Len(cpp) /\ n # 0 /\ p # 0 /\ p = pos[n] /\ Complete(Q)
    BY <1>2 DEF OutAt
<1>4. Advanced = d
    BY <1>1, <1>2 DEF Advanced, NextSet
<1>5. /\ \E t, m, x, r, l : d = OutRecord(t, m, x, r, l)
      /\ SameMessage(c, d) /\ d.next = c.next + 1 /\ d.loop = 0
    BY <1>1, <1>3, FrameSet
<1>6. OutShape(d)
    <2>1. Len(Schema[c.type]) \in Nat
        BY <1>2, FieldNames
    <2>2. d.next \in Nat /\ d.next # 0 /\ d.next <= Len(Schema[c.type]) + 1 /\ d.loop \in Nat
        BY <1>2, <1>5, <2>1, SMTT(30)
    <2> QED BY <1>2, <1>5, <2>2 DEF OutShape, OutRecord, SameMessage
<1>7. PICK L2, C2 : L2 = lua' /\ C2 = cpp'
    OBVIOUS
<1>8. /\ IsArray(L2) /\ Len(L2) = p /\ \A i \in 1..(p - 1) : L2[i] = lua[i]
      /\ L2[p] = With(lua[p], Key(f.name), s[p + 2])
    <2>1. /\ IsArray(SetTable(s)) /\ Len(SetTable(s)) = p
          /\ \A i \in 1..(p - 1) : SetTable(s)[i] = s[i]
          /\ SetTable(s)[p] = With(s[p], s[p + 1], s[p + 2])
        BY <1>3, SetTableIs
    <2>2. p \in 1..p /\ \A i \in 1..(p - 1) : i \in 1..p
        BY <1>3
    <2>3. s[p] = lua[p] /\ \A i \in 1..(p - 1) : s[i] = lua[i]
        BY <2>2
    <2>4. SetTable(s) = L2
        BY <1>7
    <2>5. IsArray(L2) /\ Len(L2) = p /\ \A i \in 1..(p - 1) : L2[i] = s[i]
        BY <2>1, <2>4
    <2>6. L2[p] = With(lua[p], Key(f.name), s[p + 2])
        BY <2>1, <2>3, <2>4
    <2>7. \A i \in 1..(p - 1) : L2[i] = lua[i]
        BY <2>3, <2>5
    <2> QED BY <2>5, <2>6, <2>7
<1>9. IsArray(C2) /\ Len(C2) = n /\ C2[n] = d /\ \A i \in 1..(n - 1) : C2[i] = cpp[i]
    <2>1. C2 = Becomes(d)
        BY <1>4, <1>7
    <2>2. OutAt(Q, pos, n, p)
        BY <1>2
    <2>3. TopNow(C2, n, d)
        BY <2>1, <2>2, TopBecomes
    <2> QED BY <2>3 DEF TopNow
<1>10. PartIs(Q, c.type, c.msg, L2[p], c.next)
    <2>1. PICK x \in Nat : x = c.next - 1 /\ x + 1 = c.next
        BY <1>2
    <2>2. PICK t, v : t = lua[p] /\ v = s[p + 2]
        OBVIOUS
    <2>3. PartIs(Q, c.type, c.msg, With(t, Key(Schema[c.type][x + 1].name), v), x + 1)
        BY <1>2, <2>1, <2>2, PartNext
    <2> QED BY <1>2, <1>8, <2>1, <2>2, <2>3
<1>11. TopIs(Q, L2, d, p)
    <2>1. d.next - 1 = c.next
        BY <1>2, <1>5
    <2> QED BY <1>5, <1>6, <1>10, <2>1 DEF TopIs, SameMessage
<1>12. Kept(pos, lua, cpp, L2, C2, n, d)
    BY <1>3, <1>5, <1>8, <1>9 DEF Kept
<1>13. ToLuaFits(Q, pos, L2, C2)
    <2>1. PICK Q2 : Q2 = Q /\ Q \subseteq Q2
        OBVIOUS
    <2>2. n <= Len(cpp) /\ Len(L2) = pos[n] + (IF d.loop = 0 THEN 0 ELSE 2)
        BY <1>3, <1>5, <1>8
    <2>3. ToLuaFits(Q2, pos, L2, C2)
        BY <1>3, <1>9, <1>11, <1>12, <2>1, <2>2, OutTurn
    <2> QED BY <2>1, <2>3
<1> QED BY <1>7, <1>13

LEMMA ScalarOut ==
    ASSUME NEW Q, NEW pos, ToLuaFits(Q, pos, lua, cpp), OutScalar
    PROVE  ToLuaFits(Q, pos, lua', cpp')
<1>1. PICK n \in Nat, p \in Nat : \E f, c : OutTurns(Q, pos, n, p, f, c)
    BY TurnNow DEF OutScalar
<1>2. PICK f, c : OutTurns(Q, pos, n, p, f, c)
    BY <1>1
<1>3. c = Frame /\ f = OutField /\ f = Schema[c.type][c.next]
    BY <1>2 DEF OutTurns
<1>4. /\ ~f.rep /\ f.kind # "message" /\ cpp' = Becomes(Advanced)
      /\ lua' = SetTable(Append(Named, Pushed(f.kind, c.msg[f.name][1])))
    BY <1>3 DEF OutScalar
<1>5. c.loop = 0
    BY <1>2, <1>3, <1>4 DEF OutTurns, Opens
<1>6. NamedIs(Named, f, p)
    BY <1>2, <1>5, NamedNow
<1>7. PICK s, v : s = Append(Named, v) /\ v = Pushed(f.kind, c.msg[f.name][1])
    OBVIOUS
<1>8. ValueIs(Q, f, c.msg, v)
    BY <1>4, <1>7 DEF ValueIs
<1>9. /\ IsArray(s) /\ Len(s) = p + 2 /\ s[p + 2] = v /\ s[p + 1] = Key(f.name)
      /\ \A i \in 1..p : s[i] = lua[i]
    <2>1. /\ IsArray(Named) /\ Len(Named) = p + 1 /\ Named[p + 1] = Key(f.name)
          /\ \A i \in 1..p : Named[i] = lua[i]
        BY <1>6 DEF NamedIs
    <2>2. /\ IsArray(s) /\ Len(s) = (p + 1) + 1 /\ s[(p + 1) + 1] = v
          /\ \A i \in 1..(p + 1) : s[i] = Named[i]
        BY <1>7, <2>1, AppendIs
    <2>3. (p + 1) + 1 = p + 2 /\ p + 1 \in 1..(p + 1) /\ \A i \in 1..p : i \in 1..(p + 1)
        OBVIOUS
    <2> QED BY <2>1, <2>2, <2>3
<1>10. lua' = SetTable(s)
    BY <1>4, <1>7
<1> QED BY <1>2, <1>4, <1>8, <1>9, <1>10, FieldIsSet

LEMMA ScalarsOut ==
    ASSUME NEW Q, NEW pos, ToLuaFits(Q, pos, lua, cpp), OutScalars
    PROVE  ToLuaFits(Q, pos, lua', cpp')
<1>1. PICK n \in Nat, p \in Nat : \E f, c : OutTurns(Q, pos, n, p, f, c)
    BY TurnNow DEF OutScalars
<1>2. PICK f, c : OutTurns(Q, pos, n, p, f, c)
    BY <1>1
<1>3. c = Frame /\ f = OutField /\ f = Schema[c.type][c.next]
    BY <1>2 DEF OutTurns
<1>4. PICK a : a = [j \in DOMAIN c.msg[f.name] |-> Pushed(f.kind, c.msg[f.name][j])]
    OBVIOUS
<1>5. /\ f.rep /\ f.kind # "message" /\ cpp' = Becomes(Advanced)
      /\ lua' = SetTable([Opened EXCEPT ![Len(Opened)].arr = a])
    <2>1. Items = c.msg[f.name]
        BY <1>3 DEF Items
    <2>2. a = [i \in DOMAIN Items |-> Pushed(OutField.kind, Items[i])]
        BY <1>3, <1>4, <2>1
    <2>3. lua' = SetTable([Opened EXCEPT ![Len(Opened)].arr = a])
        BY <2>2, Zenon DEF OutScalars
    <2> QED BY <1>3, <2>3 DEF OutScalars
<1>6. c.loop = 0
    BY <1>2, <1>3, <1>5 DEF OutTurns, Opens
<1>7. PICK o, q : o = Opened /\ q = p + 2
    OBVIOUS
<1>8. /\ IsArray(o) /\ Len(o) = q /\ o[p + 1] = Key(f.name) /\ o[q] = Table(<<>>, <<>>)
      /\ \A i \in 1..p : o[i] = lua[i]
    BY <1>2, <1>6, <1>7, OpenedNow DEF OpenedIs
<1>9. PICK u, s : u = WithArr(o[q], a) /\ s = [o EXCEPT ![q] = u]
    OBVIOUS
<1>10. lua' = SetTable(s)
    <2>1. [o EXCEPT ![q].arr = a] = s
        BY <1>9 DEF WithArr
    <2> QED BY <1>5, <1>7, <1>8, <2>1
<1>11. u = Table(a, <<>>)
    <2>1. PICK e : e = <<>>
        OBVIOUS
    <2>2. WithArr(Table(e, e), a) = Table(a, e)
        BY TableSet
    <2> QED BY <1>8, <1>9, <2>1, <2>2
<1>12. ValueIs(Q, f, c.msg, u)
    BY <1>4, <1>5, <1>11 DEF ValueIs
<1>13. /\ IsArray(s) /\ Len(s) = p + 2 /\ s[p + 2] = u /\ s[p + 1] = Key(f.name)
       /\ \A i \in 1..p : s[i] = lua[i]
    <2>1. SetAt(o, q, u, s)
        BY <1>9 DEF SetAt
    <2>2. q \in Nat /\ q \in 1..Len(o) /\ Len(o) = p + 2
        BY <1>7, <1>8
    <2>5. IsArray(o) /\ q \in 1..Len(o)
        BY <1>8, <2>2
    <2>3. /\ IsArray(s) /\ Len(s) = Len(o)
          /\ \A i \in 1..Len(o) : s[i] = IF i = q THEN u ELSE o[i]
        BY <2>1, <2>5, ExceptIs
    <2>4. p + 2 \in 1..Len(o) /\ p + 1 \in 1..Len(o) /\ p + 1 # q /\ p + 2 = q
          /\ \A i \in 1..p : i \in 1..Len(o) /\ i # q
        BY <1>7, <2>2
    <2> QED BY <1>8, <2>2, <2>3, <2>4
<1> QED BY <1>2, <1>5, <1>10, <1>12, <1>13, FieldIsSet

LEMMA ItemsDoneOut ==
    ASSUME NEW Q, NEW pos, ToLuaFits(Q, pos, lua, cpp), OutItemsDone
    PROVE  ToLuaFits(Q, pos, lua', cpp')
<1>1. PICK n \in Nat, p \in Nat : \E f, c : OutTurns(Q, pos, n, p, f, c)
    BY TurnNow DEF OutItemsDone
<1>2. PICK f, c : OutTurns(Q, pos, n, p, f, c)
    BY <1>1
<1>3. /\ c = Frame /\ f = OutField /\ f = Schema[c.type][c.next] /\ f \in FieldsOf(c.type)
      /\ c.type \in DOMAIN Schema /\ c.msg \in Messages[c.type] /\ c.loop \in Nat
      /\ c.loop # 0 => Opens(Q, lua, c, p, c.loop)
    BY <1>2 DEF OutTurns
<1>4. /\ f.rep /\ f.kind = "message" /\ cpp' = Becomes(Advanced)
      /\ c.loop >= Len(c.msg[f.name])
      /\ lua' = SetTable(Opened)
    BY <1>3 DEF OutItemsDone, Items
<1>5. c.loop = Len(c.msg[f.name])
    <2>1. IsArray(c.msg[f.name])
        BY <1>3, InMessageIs
    <2>2. Len(c.msg[f.name]) \in Nat
        BY <2>1 DEF IsArray
    <2>3. c.loop # 0 => c.loop <= Len(c.msg[f.name])
        BY <1>3 DEF Opens
    <2> QED BY <1>3, <1>4, <2>2, <2>3
<1>6. PICK s : s = Opened
    OBVIOUS
<1>7. OpenedIs(Q, s, f, c, p)
    BY <1>2, <1>6, OpenedNow
<1>8. /\ IsArray(s) /\ Len(s) = p + 2 /\ s[p + 1] = Key(f.name)
      /\ \A i \in 1..p : s[i] = lua[i]
      /\ s[p + 2] = Table(s[p + 2].arr, <<>>)
      /\ ItemsAre(Q, f, c.msg, s[p + 2].arr, c.loop)
    BY <1>7 DEF OpenedIs
<1>9. ValueIs(Q, f, c.msg, s[p + 2])
    BY <1>4, <1>5, <1>8 DEF ValueIs
<1>10. lua' = SetTable(s)
    BY <1>4, <1>6
<1> QED BY <1>2, <1>4, <1>8, <1>9, <1>10, FieldIsSet

LEMMA OutFrameIs ==
    ASSUME NEW type, NEW m, NEW r
    PROVE  OutFrame(type, m, r) = OutRecord(type, m, 1, r, 0)
BY DEF OutFrame, OutRecord

\* The table of a frame that has just been pushed.
EmptyAt(L, x) == L[x] = Table(<<>>, <<>>)

LEMMA NewTable ==
    ASSUME NEW Q, NEW L, NEW x, EmptyAt(L, x), NEW type \in DOMAIN Schema,
           NEW m \in Messages[type], NEW r, NEW b, b = OutFrame(type, m, r)
    PROVE  /\ b.type = type /\ b.msg = m /\ b.settable = r /\ b.loop = 0
           /\ TopIs(Q, L, b, x)
<1>2. PICK x1, x0 : x1 = 1 /\ x0 = 0
    OBVIOUS
<1>3. b = OutRecord(type, m, x1, r, x0)
    BY <1>2, OutFrameIs
<1>10. b.type = type /\ b.msg = m /\ b.next = 1 /\ b.loop = 0
    BY <1>2, <1>3, OutRecordIs
<1>11. b.settable = r
    BY <1>3, OutRecordIs
<1>4. Len(Schema[type]) \in Nat
    BY FieldNames
<1>5. OutShape(b)
    <2>1. \E t, g, n, s, l : b = OutRecord(t, g, n, s, l)
        BY <1>3
    <2>2. b.next \in Nat /\ b.next # 0 /\ b.next <= Len(Schema[b.type]) + 1 /\ b.loop \in Nat
        BY <1>4, <1>10
    <2>3. b.type \in DOMAIN Schema /\ b.msg \in Messages[b.type]
        BY <1>10
    <2> QED BY <2>1, <2>2, <2>3 DEF OutShape, OutRecord
<1>6. PICK t : t = L[x]
    OBVIOUS
<1>7. t.hash = <<>>
    BY <1>6, TableIs DEF EmptyAt
<1>8. PartIs(Q, type, m, t, 0)
    <2>1. DOMAIN t.hash = {}
        BY <1>7, NoItems
    <2>2. \A i \in 1..0 : FALSE
        OBVIOUS
    <2>3. t = Table(<<>>, t.hash)
        BY <1>6, <1>7 DEF EmptyAt
    <2> QED BY <2>1, <2>2, <2>3 DEF PartIs
<1>9. TopIs(Q, L, b, x)
    <2>1. b.next - 1 = 0
        BY <1>10
    <2> QED BY <1>5, <1>6, <1>8, <1>10, <2>1 DEF TopIs
<1> QED BY <1>9, <1>10, <1>11

LEMMA AdvancedIs ==
    ASSUME NEW Q, NEW pos, NEW n \in Nat, NEW p \in Nat, NEW f, NEW c,
           OutTurns(Q, pos, n, p, f, c), NEW d, d = NextSet(c)
    PROVE  /\ OutShape(d) /\ SameMessage(c, d) /\ d.next = c.next + 1 /\ d.loop = 0
           /\ Advanced = d
<1>1. /\ OutAt(Q, pos, n, p) /\ c = Frame
      /\ c.type \in DOMAIN Schema /\ c.msg \in Messages[c.type]
      /\ c.next \in Nat /\ c.next # 0 /\ c.next <= Len(Schema[c.type])
    BY DEF OutTurns
<1>2. OutShape(c)
    BY <1>1 DEF OutAt
<1>3. /\ \E t, m, x, r, l : d = OutRecord(t, m, x, r, l)
      /\ SameMessage(c, d) /\ d.next = c.next + 1 /\ d.loop = 0
    BY <1>2, FrameSet
<1>4. OutShape(d)
    <2>1. Len(Schema[c.type]) \in Nat
        BY <1>1, FieldNames
    <2>2. d.next \in Nat /\ d.next # 0 /\ d.next <= Len(Schema[c.type]) + 1 /\ d.loop \in Nat
        BY <1>1, <1>3, <2>1
    <2> QED BY <1>1, <1>3, <2>2 DEF OutShape, OutRecord, SameMessage
<1> QED BY <1>1, <1>3, <1>4 DEF Advanced, NextSet

LEMMA MessageOut ==
    ASSUME NEW Q, NEW pos, ToLuaFits(Q, pos, lua, cpp), OutMessage
    PROVE  \E pos2 : ToLuaFits(Q, pos2, lua', cpp')
<1>1. PICK n \in Nat, p \in Nat : \E f, c : OutTurns(Q, pos, n, p, f, c)
    BY TurnNow DEF OutMessage
<1>2. PICK f, c : OutTurns(Q, pos, n, p, f, c)
    BY <1>1
<1>3. /\ c = Frame /\ f = OutField /\ f = Schema[c.type][c.next] /\ f \in FieldsOf(c.type)
      /\ c.type \in DOMAIN Schema /\ c.msg \in Messages[c.type]
      /\ c.next \in Nat /\ c.next # 0 /\ c.next <= Len(Schema[c.type])
      /\ PartIs(Q, c.type, c.msg, lua[p], c.next - 1)
      /\ OutAt(Q, pos, n, p)
    BY <1>2 DEF OutTurns
<1>4. PICK r : r = TRUE
    OBVIOUS
<1>5. PICK b : b = OutFrame(f.type, SubMessage(f, c.msg), r)
    OBVIOUS
<1>6. PICK d : d = NextSet(c)
    OBVIOUS
<1>7. /\ OutShape(d) /\ SameMessage(c, d) /\ d.next = c.next + 1 /\ d.loop = 0
      /\ Advanced = d
    BY <1>2, <1>6, AdvancedIs
<1>8. /\ ~f.rep /\ f.kind = "message" /\ lua' = Append(Named, Table(<<>>, <<>>))
    BY <1>3 DEF OutMessage
<1>9. cpp' = Append(Becomes(d), b)
    <2>1. b = OutFrame(OutField.type, SubMessage(OutField, Frame.msg), TRUE)
        BY <1>3, <1>4, <1>5, Zenon
    <2> QED BY <1>7, <2>1, Zenon DEF OutMessage
<1>10. c.loop = 0
    BY <1>2, <1>3, <1>8 DEF OutTurns, Opens
<1>11. NamedIs(Named, f, p)
    BY <1>2, <1>10, NamedNow
<1>12. PICK L2, C2 : L2 = lua' /\ C2 = cpp'
    OBVIOUS
<1>13. /\ IsArray(L2) /\ Len(L2) = p + 2 /\ L2[p + 2] = Table(<<>>, <<>>) /\ L2[p + 1] = Key(f.name)
       /\ \A i \in 1..p : L2[i] = lua[i]
    <2>1. /\ IsArray(Named) /\ Len(Named) = p + 1 /\ Named[p + 1] = Key(f.name)
          /\ \A i \in 1..p : Named[i] = lua[i]
        BY <1>11 DEF NamedIs
    <2>2. PICK v : v = Table(<<>>, <<>>)
        OBVIOUS
    <2>3. PICK s : s = Named
        OBVIOUS
    <2>4. L2 = Append(s, v)
        BY <1>8, <1>12, <2>2, <2>3
    <2>5. /\ IsArray(L2) /\ Len(L2) = (p + 1) + 1 /\ L2[(p + 1) + 1] = v
          /\ \A i \in 1..(p + 1) : L2[i] = s[i]
        BY <2>1, <2>3, <2>4, AppendIs
    <2>6. (p + 1) + 1 = p + 2 /\ p + 1 \in 1..(p + 1) /\ \A i \in 1..p : i \in 1..(p + 1)
        OBVIOUS
    <2> QED BY <2>1, <2>2, <2>3, <2>5, <2>6
<1>14. /\ IsArray(C2) /\ Len(C2) = n + 1 /\ C2[n + 1] = b /\ C2[n] = d
       /\ \A i \in 1..(n - 1) : C2[i] = cpp[i]
    <2>1. PICK B : B = Becomes(d)
        OBVIOUS
    <2>2. TopNow(B, n, d)
        BY <1>3, <2>1, TopBecomes
    <2>3. IsArray(B) /\ Len(B) = n /\ B[n] = d /\ \A i \in 1..(n - 1) : B[i] = cpp[i]
        BY <2>2 DEF TopNow
    <2>4. /\ IsArray(Append(B, b)) /\ Len(Append(B, b)) = n + 1 /\ Append(B, b)[n + 1] = b
          /\ \A i \in 1..n : Append(B, b)[i] = B[i]
        BY <2>3, AppendIs
    <2>5. n \in 1..n /\ \A i \in 1..(n - 1) : i \in 1..n
        BY <1>3 DEF OutAt
    <2>6. C2 = Append(B, b)
        BY <1>9, <1>12, <2>1
    <2> QED BY <2>3, <2>4, <2>5, <2>6
<1>15. /\ b.type = f.type /\ b.msg = SubMessage(f, c.msg) /\ b.settable = r /\ b.loop = 0
       /\ TopIs(Q, L2, b, p + 2)
    <2>1. f.type \in DOMAIN Schema /\ SubMessage(f, c.msg) \in Messages[f.type]
        BY <1>3, <1>8, InMessageIs
    <2>2. PICK y, g, m : y = p + 2 /\ g = f.type /\ m = SubMessage(f, c.msg)
        OBVIOUS
    <2>3. EmptyAt(L2, y) /\ g \in DOMAIN Schema /\ m \in Messages[g]
        BY <1>13, <2>1, <2>2 DEF EmptyAt
    <2>4. b = OutFrame(g, m, r)
        BY <1>5, <2>2
    <2>5. b.type = g /\ b.msg = m /\ b.settable = r /\ b.loop = 0 /\ TopIs(Q, L2, b, y)
        BY <2>3, <2>4, NewTable
    <2> QED BY <2>2, <2>5
<1>16. b.settable
    <2>1. b.settable = r
        BY <1>15
    <2> QED BY <1>4, <2>1, Zenon
<1>17. /\ c = cpp[n] /\ n = Len(cpp) /\ n # 0 /\ p # 0 /\ p = pos[n]
    BY <1>3 DEF OutAt
<1>18. L2[p] = lua[p] /\ \A i \in 1..(p - 1) : L2[i] = lua[i]
    <2>1. p \in 1..p /\ \A i \in 1..(p - 1) : i \in 1..p
        BY <1>17
    <2> QED BY <1>13, <2>1
<1>19. Kept(pos, lua, cpp, L2, C2, n, d)
    BY <1>7, <1>13, <1>14, <1>17, <1>18 DEF Kept
<1>20. WaitsFor(Q, L2, d, b, p)
    <2>1. d.next - 1 = c.next /\ d.next - 2 = c.next - 1 /\ d.next > 1
        BY <1>3, <1>7
    <2>2. PartIs(Q, c.type, c.msg, L2[p], c.next - 1)
        BY <1>3, <1>18
    <2>3. d.type = c.type /\ d.msg = c.msg
        BY <1>7 DEF SameMessage
    <2> QED BY <1>3, <1>7, <1>8, <1>13, <1>15, <1>16, <2>1, <2>2, <2>3 DEF WaitsFor
<1>21. Span(d) = 1 /\ p + Span(d) + 1 = p + 2
    BY <1>7 DEF Span
<1>22. \E pos2 : ToLuaFits(Q, pos2, L2, C2)
    <2>1. Len(L2) = p + Span(d) + 1 /\ TopIs(Q, L2, b, p + Span(d) + 1)
        BY <1>13, <1>15, <1>21
    <2>2. Len(C2) = n + 1 /\ C2[n + 1] = b /\ b.loop = 0
        BY <1>14, <1>15
    <2>3. Pushes(Q, pos, lua, cpp, L2, C2, n, p, d, b)
        BY <1>17, <1>19, <1>20, <2>1, <2>2 DEF Pushes
    <2> QED BY <2>3, PushFits
<1> QED BY <1>12, <1>22

LEMMA NextItemOut ==
    ASSUME NEW Q, NEW pos, ToLuaFits(Q, pos, lua, cpp), OutNextItem
    PROVE  \E pos2 : ToLuaFits(Q, pos2, lua', cpp')
<1>1. PICK n \in Nat, p \in Nat : \E f, c : OutTurns(Q, pos, n, p, f, c)
    BY TurnNow DEF OutNextItem
<1>2. PICK f, c : OutTurns(Q, pos, n, p, f, c)
    BY <1>1
<1>3. /\ c = Frame /\ f = OutField /\ f = Schema[c.type][c.next] /\ f \in FieldsOf(c.type)
      /\ c.type \in DOMAIN Schema /\ c.msg \in Messages[c.type]
      /\ c.next \in Nat /\ c.next # 0 /\ c.next <= Len(Schema[c.type]) /\ c.loop \in Nat
      /\ PartIs(Q, c.type, c.msg, lua[p], c.next - 1)
      /\ OutAt(Q, pos, n, p)
    BY <1>2 DEF OutTurns
<1>4. PICK r : r = TRUE
    OBVIOUS
<1>5. PICK k \in Nat : k = c.loop + 1 /\ k # 0 /\ k - 1 = c.loop
    BY <1>3
<1>6. PICK b, m : m = c.msg[f.name][k] /\ b = OutFrame(f.type, m, r)
    OBVIOUS
<1>7. PICK d : d = LoopSet(c)
    OBVIOUS
<1>8. f.rep /\ f.kind = "message" /\ k <= Len(c.msg[f.name]) /\ k \in DOMAIN c.msg[f.name]
    <2>1. f.rep /\ f.kind = "message" /\ c.loop < Len(c.msg[f.name])
        BY <1>3 DEF OutNextItem, Items
    <2>2. IsArray(c.msg[f.name])
        BY <1>3, InMessageIs
    <2>3. DOMAIN c.msg[f.name] = 1..Len(c.msg[f.name]) /\ Len(c.msg[f.name]) \in Nat
        BY <2>2, ArraySeq
    <2>4. PICK z \in Nat : z = Len(c.msg[f.name])
        BY <2>3
    <2>5. c.loop < z
        BY <2>1, <2>4
    <2>6. k <= z /\ k \in 1..z
        BY <1>3, <1>5, <2>5
    <2> QED BY <2>1, <2>3, <2>4, <2>6
<1>9. m \in Messages[f.type] /\ f.type \in DOMAIN Schema
    BY <1>3, <1>6, <1>8, InMessageIs
<1>10. /\ \E t, g, x, s, l : d = OutRecord(t, g, x, s, l)
       /\ SameMessage(c, d) /\ d.next = c.next /\ d.loop = k
    BY <1>3, <1>5, <1>7, FrameSet, SMTT(30) DEF OutAt
<1>11. d.type = c.type /\ d.msg = c.msg /\ OutShape(d)
    <2>1. d.type = c.type /\ d.msg = c.msg
        BY <1>10 DEF SameMessage
    <2>2. Len(Schema[c.type]) \in Nat
        BY <1>3, FieldNames
    <2>3. d.next \in Nat /\ d.next # 0 /\ d.next <= Len(Schema[c.type]) + 1 /\ d.loop \in Nat
        BY <1>3, <1>10, <2>2
    <2> QED BY <1>3, <1>10, <2>1, <2>3 DEF OutShape, OutRecord
<1>12. cpp' = Append(Becomes(d), b)
    <2>1. b = OutFrame(OutField.type, Items[Frame.loop + 1], TRUE)
        <3>1. m = Items[Frame.loop + 1]
            BY <1>3, <1>5, <1>6 DEF Items
        <3> QED BY <1>3, <1>4, <1>6, <3>1, Zenon
    <2>2. d = [Frame EXCEPT !.loop = @ + 1]
        BY <1>3, <1>7 DEF LoopSet
    <2> QED BY <2>1, <2>2, Zenon DEF OutNextItem
<1>13. PICK o, num, e : o = Opened /\ num = Number(k) /\ EmptyAt(<<e>>, 1)
    <2>1. EmptyAt(<<Table(<<>>, <<>>)>>, 1)
        BY DEF EmptyAt
    <2> QED BY <2>1
<1>14. OpenedIs(Q, o, f, c, p)
    BY <1>2, <1>13, OpenedNow
<1>15. /\ IsArray(o) /\ Len(o) = p + 2 /\ o[p + 1] = Key(f.name)
       /\ \A i \in 1..p : o[i] = lua[i]
       /\ o[p + 2] = Table(o[p + 2].arr, <<>>)
       /\ ItemsAre(Q, f, c.msg, o[p + 2].arr, c.loop)
    BY <1>14 DEF OpenedIs
<1>16. e = Table(<<>>, <<>>)
    BY <1>13 DEF EmptyAt
<1>17. PICK L2, C2 : L2 = lua' /\ C2 = cpp'
    OBVIOUS
<1>18. L2 = o \o <<num, e>>
    BY <1>3, <1>5, <1>13, <1>16, <1>17 DEF OutNextItem
<1>19. /\ IsArray(L2) /\ Len(L2) = p + 4 /\ L2[p + 3] = num /\ L2[p + 4] = e
       /\ \A i \in 1..(p + 2) : L2[i] = o[i]
    <2>1. PICK w : w = <<num, e>>
        OBVIOUS
    <2>2. IsArray(w) /\ Len(w) = 2 /\ w[1] = num /\ w[2] = e
        <3>1. PICK S : S = {num, e}
            OBVIOUS
        <3>2. w \in Seq(S)
            BY <2>1, <3>1
        <3> QED BY <2>1, <3>2, SeqArray
    <2>3. /\ IsArray(o \o w) /\ Len(o \o w) = (p + 2) + 2
          /\ \A i \in 1..(p + 2) : (o \o w)[i] = o[i]
          /\ \A i \in 1..2 : (o \o w)[(p + 2) + i] = w[i]
        <3>1. PICK x, y : x = Len(o) /\ y = Len(w)
            OBVIOUS
        <3>2. Joined(o \o w, o, w, x, y)
            BY <1>15, <2>2, <3>1, JoinedIs
        <3>3. x = p + 2 /\ y = 2
            BY <1>15, <2>2, <3>1
        <3> QED BY <3>2, <3>3 DEF Joined
    <2>4. 1 \in 1..2 /\ 2 \in 1..2 /\ (p + 2) + 1 = p + 3 /\ (p + 2) + 2 = p + 4
        OBVIOUS
    <2>5. L2 = o \o w
        BY <1>18, <2>1
    <2> QED BY <2>2, <2>3, <2>4, <2>5
<1>20. /\ IsArray(C2) /\ Len(C2) = n + 1 /\ C2[n + 1] = b /\ C2[n] = d
       /\ \A i \in 1..(n - 1) : C2[i] = cpp[i]
    <2>1. PICK B : B = Becomes(d)
        OBVIOUS
    <2>2. TopNow(B, n, d)
        BY <1>3, <2>1, TopBecomes
    <2>3. IsArray(B) /\ Len(B) = n /\ B[n] = d /\ \A i \in 1..(n - 1) : B[i] = cpp[i]
        BY <2>2 DEF TopNow
    <2>4. /\ IsArray(Append(B, b)) /\ Len(Append(B, b)) = n + 1 /\ Append(B, b)[n + 1] = b
          /\ \A i \in 1..n : Append(B, b)[i] = B[i]
        BY <2>3, AppendIs
    <2>5. n \in 1..n /\ \A i \in 1..(n - 1) : i \in 1..n
        BY <1>3 DEF OutAt
    <2>6. C2 = Append(B, b)
        BY <1>12, <1>17, <2>1
    <2> QED BY <2>3, <2>4, <2>5, <2>6
<1>21. /\ b.type = f.type /\ b.msg = m /\ b.settable = r /\ b.loop = 0
       /\ TopIs(Q, L2, b, p + 4)
    <2>1. PICK y, g : y = p + 4 /\ g = f.type
        OBVIOUS
    <2>2. EmptyAt(L2, y) /\ g \in DOMAIN Schema /\ m \in Messages[g]
        BY <1>9, <1>16, <1>19, <2>1 DEF EmptyAt
    <2>3. b = OutFrame(g, m, r)
        BY <1>6, <2>1
    <2>4. b.type = g /\ b.msg = m /\ b.settable = r /\ b.loop = 0 /\ TopIs(Q, L2, b, y)
        BY <2>2, <2>3, NewTable
    <2> QED BY <2>1, <2>4
<1>22. b.settable
    <2>1. b.settable = r
        BY <1>21
    <2> QED BY <1>4, <2>1, Zenon
<1>23. /\ c = cpp[n] /\ n = Len(cpp) /\ n # 0 /\ p # 0 /\ p = pos[n]
    BY <1>3 DEF OutAt
<1>24. /\ L2[p] = lua[p] /\ L2[p + 1] = Key(f.name) /\ L2[p + 2] = o[p + 2]
       /\ \A i \in 1..(p - 1) : L2[i] = lua[i]
    <2>1. /\ p \in 1..p /\ p \in 1..(p + 2) /\ p + 1 \in 1..(p + 2) /\ p + 2 \in 1..(p + 2)
          /\ \A i \in 1..(p - 1) : i \in 1..p /\ i \in 1..(p + 2)
        BY <1>23
    <2> QED BY <1>15, <1>19, <2>1
<1>25. Kept(pos, lua, cpp, L2, C2, n, d)
    BY <1>10, <1>19, <1>20, <1>23, <1>24 DEF Kept
<1>26. WaitsFor(Q, L2, d, b, p)
    <2>1. Opens(Q, L2, d, p, k - 1)
        BY <1>3, <1>5, <1>8, <1>10, <1>11, <1>15, <1>24 DEF Opens
    <2>2. PartIs(Q, c.type, c.msg, L2[p], c.next - 1)
        BY <1>3, <1>24
    <2>3. \E i \in Nat : L2[p + 3] = Number(i)
        BY <1>13, <1>19
    <2>4. b.type = f.type /\ b.msg = c.msg[f.name][k]
        BY <1>6, <1>21
    <2> QED BY <1>3, <1>5, <1>10, <1>11, <1>22, <2>1, <2>2, <2>3, <2>4 DEF WaitsFor
<1>27. Span(d) = 3 /\ p + Span(d) + 1 = p + 4
    BY <1>5, <1>10 DEF Span
<1>28. \E pos2 : ToLuaFits(Q, pos2, L2, C2)
    <2>1. Len(L2) = p + Span(d) + 1 /\ TopIs(Q, L2, b, p + Span(d) + 1)
        BY <1>19, <1>21, <1>27
    <2>2. Len(C2) = n + 1 /\ C2[n + 1] = b /\ b.loop = 0
        BY <1>20, <1>21
    <2>3. n # 0 /\ n = Len(cpp) /\ p = pos[n]
        BY <1>23
    <2>4. Pushes(Q, pos, lua, cpp, L2, C2, n, p, d, b)
        BY <1>25, <1>26, <2>1, <2>2, <2>3 DEF Pushes
    <2> QED BY <2>4, PushFits
<1> QED BY <1>17, <1>28

-----------------------------------------------------------------------------
(* The table that is made *)

LEMMA PartTable ==
    ASSUME NEW Q, NEW type, NEW m, NEW t, NEW d, PartIs(Q, type, m, t, d)
    PROVE  IsTable(t) /\ t.arr = <<>>
<1>1. PICK h : t = Table(<<>>, h)
    BY DEF PartIs
<1> QED BY <1>1, TableIs

LEMMA ToLuaIn ==
    ASSUME NEW W, <<Root, source, lua[2]>> \in W,
           \A q \in W : PartsToLua(q[1], q[2], q[3]) \subseteq W
    PROVE  \A n \in Nat : ToLua[n] \subseteq W
<1> DEFINE a == {<<Root, source, lua[2]>>}
           Parts(X) == UNION {PartsToLua(q[1], q[2], q[3]) : q \in X}
           s == [X \in SUBSET W |-> Parts(X)]
<1>1. a \in SUBSET W /\ \A X \in SUBSET W : Parts(X) \in SUBSET W
    OBVIOUS
<1>2. s \in [SUBSET W -> SUBSET W] /\ \A X \in SUBSET W : s[X] = Parts(X)
    BY <1>1
<1> HIDE DEF a, Parts, s
<1>3. PICK f : LevelsOf(f, a, s)
    BY <1>1, <1>2, LevelsExist
<1>4. \A n \in Nat : f[n] \in SUBSET W
    BY <1>1, <1>2, <1>3, LevelsIn
<1>5. f = [n \in Nat |-> IF n = 0 THEN a ELSE Parts(f[n - 1])]
    <2>1. \A n \in Nat : n # 0 => n - 1 \in Nat
        OBVIOUS
    <2>2. \A n \in Nat : n # 0 => s[f[n - 1]] = Parts(f[n - 1])
        BY <1>2, <1>4, <2>1
    <2> QED BY <1>3, <2>2 DEF LevelsOf
<1>6. ToLua = [n \in Nat |-> IF n = 0 THEN a ELSE Parts(ToLua[n - 1])]
    BY <1>5 DEF ToLua, a, Parts
<1>7. ToLua[0] = a /\ \A n \in Nat : ToLua[n + 1] = Parts(ToLua[n])
    <2>1. \A n \in Nat : n + 1 \in Nat /\ n + 1 # 0 /\ (n + 1) - 1 = n
        OBVIOUS
    <2> QED BY <1>6, <2>1
<1> DEFINE S == {n \in Nat : ToLua[n] \in SUBSET W}
<1>8. 0 \in S /\ \A n \in Nat : n \in S => n + 1 \in S
    BY <1>1, <1>7
<1> HIDE DEF S
<1>9. Nat \subseteq S
    BY <1>8, SetInduction
<1> QED BY <1>9 DEF S

\* A complete table is the table of its message.
LEMMA CompleteTable ==
    ASSUME NEW Q, Complete(Q), NEW q \in Q
    PROVE  /\ IsTableOf(q[1], q[2], q[3])
           /\ PartsToLua(q[1], q[2], q[3]) \subseteq Q
<1>1. PICK type, m, t : type = q[1] /\ m = q[2] /\ t = q[3]
    OBVIOUS
<1>2. type \in DOMAIN Schema /\ m \in Messages[type] /\ PartIs(Q, type, m, t, Len(Schema[type]))
    BY <1>1 DEF Complete
<1>3. IsTable(t) /\ t.arr = <<>>
    BY <1>2, PartTable
<1>4. DOMAIN Schema[type] = 1..Len(Schema[type])
    BY <1>2, FieldNames
<1>5. /\ DOMAIN t.hash = {Schema[type][i].name : i \in DOMAIN Schema[type]}
      /\ \A i \in DOMAIN Schema[type] : ValueIs(Q, Schema[type][i], m, t.hash[Schema[type][i].name])
    BY <1>2, <1>4 DEF PartIs
<1>6. ASSUME NEW i \in DOMAIN Schema[type], NEW f, NEW v,
             f = Schema[type][i], v = t.hash[f.name]
      PROVE  /\ ValueIs(Q, f, m, v) /\ f \in FieldsOf(type) /\ IsArray(m[f.name])
             /\ f.kind = "message" /\ f.rep =>
                  /\ v = Table(v.arr, <<>>) /\ DOMAIN v.arr = DOMAIN m[f.name]
                  /\ \A j \in DOMAIN v.arr : <<f.type, m[f.name][j], v.arr[j]>> \in Q
             /\ f.kind = "message" /\ ~f.rep => IsTable(v)
    <2>1. ValueIs(Q, f, m, v)
        BY <1>5, <1>6
    <2>2. f \in FieldsOf(type)
        BY <1>6 DEF FieldsOf
    <2>3. IsArray(m[f.name])
        BY <1>2, <2>2, InMessageIs
    <2>4. ASSUME f.kind = "message", f.rep
          PROVE  /\ v = Table(v.arr, <<>>) /\ DOMAIN v.arr = DOMAIN m[f.name]
                 /\ \A j \in DOMAIN v.arr : <<f.type, m[f.name][j], v.arr[j]>> \in Q
        <3>1. v = Table(v.arr, <<>>) /\ ItemsAre(Q, f, m, v.arr, Len(m[f.name]))
            BY <2>1, <2>4 DEF ValueIs
        <3>2. /\ IsArray(v.arr) /\ Len(v.arr) = Len(m[f.name])
              /\ \A j \in 1..Len(m[f.name]) : <<f.type, m[f.name][j], v.arr[j]>> \in Q
            BY <3>1 DEF ItemsAre
        <3>3. DOMAIN v.arr = 1..Len(m[f.name]) /\ DOMAIN m[f.name] = 1..Len(m[f.name])
            BY <2>3, <3>2, ArraySeq
        <3> QED BY <3>1, <3>2, <3>3
    <2>5. ASSUME f.kind = "message", ~f.rep PROVE IsTable(v)
        <3>1. PICK w : w = <<f.type, SubMessage(f, m), v>> /\ w \in Q
            BY <2>1, <2>5 DEF ValueIs
        <3>2. w[3] = v
            BY <3>1
        <3>3. PartIs(Q, w[1], w[2], w[3], Len(Schema[w[1]]))
            BY <3>1 DEF Complete
        <3> QED BY <3>2, <3>3, PartTable
    <2> QED BY <2>1, <2>2, <2>3, <2>4, <2>5
<1>7. IsTableOf(type, m, t)
    <2>1. ASSUME NEW i \in DOMAIN Schema[type], NEW f, NEW v,
                 f = Schema[type][i], v = t.hash[f.name]
          PROVE  CASE f.kind = "message" /\ f.rep ->
                        v = Table(v.arr, <<>>) /\ DOMAIN v.arr = DOMAIN m[f.name]
                   [] f.kind = "message" /\ ~f.rep -> IsTable(v)
                   [] f.kind # "message" /\ f.rep ->
                        v = Table([j \in DOMAIN m[f.name] |-> Pushed(f.kind, m[f.name][j])], <<>>)
                   [] OTHER -> v = Pushed(f.kind, m[f.name][1])
        <3>1. /\ ValueIs(Q, f, m, v)
              /\ f.kind = "message" /\ f.rep =>
                   v = Table(v.arr, <<>>) /\ DOMAIN v.arr = DOMAIN m[f.name]
              /\ f.kind = "message" /\ ~f.rep => IsTable(v)
            BY <1>6, <2>1
        <3> QED BY <3>1 DEF ValueIs
    <2> QED BY <1>3, <1>5, <2>1 DEF IsTableOf, Names
<1>8. ASSUME NEW w \in PartsToLua(type, m, t) PROVE w \in Q
    <2>1. PICK i \in DOMAIN Schema[type] :
            w \in LET f == Schema[type][i] IN
                  IF f.kind # "message" \/ f.name \notin DOMAIN t.hash THEN {}
                  ELSE IF f.rep
                    THEN {<<f.type, m[f.name][j], t.hash[f.name].arr[j]>> :
                            j \in DOMAIN m[f.name] \cap DOMAIN t.hash[f.name].arr}
                    ELSE {<<f.type, SubMessage(f, m), t.hash[f.name]>>}
        BY <1>8 DEF PartsToLua
    <2>2. PICK f, v : f = Schema[type][i] /\ v = t.hash[f.name]
        OBVIOUS
    <2>3. /\ f.kind = "message"
          /\ w \in IF f.rep
                     THEN {<<f.type, m[f.name][j], v.arr[j]>> : j \in DOMAIN m[f.name] \cap DOMAIN v.arr}
                     ELSE {<<f.type, SubMessage(f, m), v>>}
        BY <2>1, <2>2
    <2>4. /\ ValueIs(Q, f, m, v)
          /\ f.rep => \A j \in DOMAIN v.arr : <<f.type, m[f.name][j], v.arr[j]>> \in Q
        BY <1>6, <2>2, <2>3
    <2>5. CASE f.rep
        BY <2>3, <2>4, <2>5
    <2>6. CASE ~f.rep
        <3>1. <<f.type, SubMessage(f, m), v>> \in Q
            BY <2>3, <2>4, <2>6 DEF ValueIs
        <3> QED BY <2>3, <2>6, <3>1
    <2> QED BY <2>5, <2>6
<1> QED BY <1>1, <1>7, <1>8

\* What TableIsMade says of the state.
TableWhole ==
    /\ Len(lua) = 2 /\ lua[1] = Below
    /\ \A n \in 0..Depth : \A q \in ToLua[n] : IsTableOf(q[1], q[2], q[3])

LEMMA MadeIsWhole ==
    ASSUME NEW Q, Made(Q, lua)
    PROVE  TableWhole
<1>1. Complete(Q) /\ Len(lua) = 2 /\ lua[1] = Below /\ <<Root, source, lua[2]>> \in Q
    BY DEF Made
<1>2. \A q \in Q : IsTableOf(q[1], q[2], q[3]) /\ PartsToLua(q[1], q[2], q[3]) \subseteq Q
    BY <1>1, CompleteTable
<1>3. \A n \in Nat : ToLua[n] \subseteq Q
    BY <1>1, <1>2, ToLuaIn
<1>4. \A n \in 0..Depth : n \in Nat
    OBVIOUS
<1> QED BY <1>1, <1>2, <1>3, <1>4 DEF TableWhole

-----------------------------------------------------------------------------
(* The table that was made can be converted back, and so can the tables of Lua *)
(* code whose arrays of messages begin with tables.                            *)

LEMMA ScalarPushed ==
    ASSUME NEW kind \in Kinds, kind # "message", NEW n
    PROVE  ~IsTable(Pushed(kind, n))
<1>1. \A k, x, s, a, h : Value(k, x, s, a, h).kind = k
    BY DEF Value
<1>2. CASE kind \in {"number", "float"}
    BY <1>2, KeyKinds DEF Pushed
<1>3. CASE kind = "long"
    BY <1>1, <1>3 DEF Pushed, IsTable
<1>4. CASE kind = "bool"
    BY <1>1, <1>4 DEF Pushed, IsTable
<1>5. CASE kind = "text"
    BY <1>1, <1>5 DEF Pushed, IsTable
<1> QED BY <1>2, <1>3, <1>4, <1>5 DEF Kinds

\* The tables of Q, each with its type.
Typed(Q) == {<<q[1], q[3]>> : q \in Q}

LEMMA MadeConverts ==
    ASSUME NEW Q, Complete(Q), NEW o \in Orders, NEW q \in Q
    PROVE  Convertible(o, Typed(Q), q[1], q[3])
<1>1. PICK type, m, t : type = q[1] /\ m = q[2] /\ t = q[3]
    OBVIOUS
<1>2. PICK V : V = Typed(Q)
    OBVIOUS
<1>3. \A w \in Q : <<w[1], w[3]>> \in V
    BY <1>2 DEF Typed
<1>4. type \in DOMAIN Schema /\ m \in Messages[type] /\ PartIs(Q, type, m, t, Len(Schema[type]))
    BY <1>1 DEF Complete
<1>5. IsTable(t) /\ IsArray(t.arr)
    BY <1>4, PartTable, NoItems
<1>6. DOMAIN Schema[type] = 1..Len(Schema[type])
    BY <1>4, FieldNames
<1>7. /\ DOMAIN t.hash = {Schema[type][i].name : i \in DOMAIN Schema[type]}
      /\ \A i \in DOMAIN Schema[type] : ValueIs(Q, Schema[type][i], m, t.hash[Schema[type][i].name])
    BY <1>4, <1>6 DEF PartIs
<1>8. DOMAIN t.hash \subseteq {o[j] : j \in DOMAIN o}
    BY <1>4, <1>7, OrdersAssumption
<1>9. ASSUME NEW f \in FieldsOf(type), NEW v, v = Given(t, f), IsTable(v)
      PROVE  /\ IsArray(v.arr)
             /\ f.kind = "message" /\ ~f.rep => <<f.type, v>> \in V
             /\ f.kind = "message" /\ f.rep =>
                  /\ v.arr # <<>> => IsTable(v.arr[1])
                  /\ \A j \in DOMAIN v.arr : IsTable(v.arr[j]) => <<f.type, v.arr[j]>> \in V
    <2>1. v = t.hash[f.name] /\ ValueIs(Q, f, m, v)
        <3>1. f.name \in DOMAIN t.hash /\ ValueIs(Q, f, m, t.hash[f.name])
            BY <1>7 DEF FieldsOf
        <3> QED BY <1>9, <3>1 DEF Given
    <2>2. f.kind \in Kinds /\ f.rep \in BOOLEAN
        BY <1>4, SchemaIs
    <2>3. IsArray(m[f.name])
        BY <1>4, InMessageIs
    <2>4. CASE f.kind = "message" /\ f.rep
        <3>1. PICK e : e = Len(m[f.name])
            OBVIOUS
        <3>2. /\ IsArray(v.arr) /\ Len(v.arr) = e
              /\ \A j \in 1..e : <<f.type, m[f.name][j], v.arr[j]>> \in Q
            BY <2>1, <2>4, <3>1 DEF ValueIs, ItemsAre
        <3>3. DOMAIN v.arr = 1..e /\ e \in Nat
            BY <3>2, ArraySeq
        <3>4. ASSUME NEW j \in 1..e PROVE IsTable(v.arr[j]) /\ <<f.type, v.arr[j]>> \in V
            <4>1. PICK w : w = <<f.type, m[f.name][j], v.arr[j]>> /\ w \in Q
                BY <3>2
            <4>2. w[1] = f.type /\ w[3] = v.arr[j]
                BY <4>1
            <4>3. PartIs(Q, w[1], w[2], w[3], Len(Schema[w[1]]))
                BY <4>1 DEF Complete
            <4>4. IsTable(w[3])
                BY <4>3, PartTable
            <4> QED BY <1>3, <4>1, <4>2, <4>4
        <3>5. v.arr # <<>> => 1 \in 1..e
            BY <3>2, <3>3, EmptyArray
        <3> QED BY <2>4, <3>2, <3>3, <3>4, <3>5
    <2>5. CASE f.kind = "message" /\ ~f.rep
        <3>1. PICK w : w = <<f.type, SubMessage(f, m), v>> /\ w \in Q
            BY <2>1, <2>5 DEF ValueIs
        <3>2. w[1] = f.type /\ w[3] = v
            BY <3>1
        <3>3. PartIs(Q, w[1], w[2], w[3], Len(Schema[w[1]]))
            BY <3>1 DEF Complete
        <3>4. v.arr = <<>>
            BY <3>2, <3>3, PartTable
        <3> QED BY <1>3, <2>5, <3>1, <3>2, <3>4, NoItems
    <2>6. CASE f.kind # "message" /\ f.rep
        <3>1. PICK a : a = [j \in DOMAIN m[f.name] |-> Pushed(f.kind, m[f.name][j])]
            OBVIOUS
        <3>2. PICK e : e = <<>>
            OBVIOUS
        <3>3. v = Table(a, e)
            BY <2>1, <2>6, <3>1, <3>2 DEF ValueIs
        <3>4. v.arr = a
            BY <3>3, TableIs
        <3>5. PICK x \in Nat : DOMAIN m[f.name] = 1..x
            BY <2>3, ArraySeq
        <3>6. a = [i \in 1..x |-> a[i]]
            BY <3>1, <3>5
        <3> QED BY <2>6, <3>4, <3>6, MadeArray
    <2>7. CASE f.kind # "message" /\ ~f.rep
        <3>1. v = Pushed(f.kind, m[f.name][1])
            BY <2>1, <2>7 DEF ValueIs
        <3> QED BY <1>9, <2>2, <2>7, <3>1, ScalarPushed
    <2> QED BY <2>2, <2>4, <2>5, <2>6, <2>7
<1>10. Convertible(o, V, type, t)
    BY <1>4, <1>5, <1>8, <1>9 DEF Convertible
<1> QED BY <1>1, <1>2, <1>10

LEMMA MadeCloses ==
    ASSUME NEW Q, Complete(Q), NEW o \in Orders
    PROVE  Closed(o, Typed(Q))
<1>1. IsArray(o)
    BY OrdersAssumption
<1>2. ASSUME NEW p \in Typed(Q) PROVE Convertible(o, Typed(Q), p[1], p[2])
    <2>1. PICK q \in Q : p = <<q[1], q[3]>>
        BY DEF Typed
    <2>2. p[1] = q[1] /\ p[2] = q[3]
        BY <2>1
    <2>3. Convertible(o, Typed(Q), q[1], q[3])
        BY MadeConverts
    <2> QED BY <2>2, <2>3
<1> QED BY <1>1, <1>2 DEF Closed

LEMMA HandsOverFits ==
    ASSUME NEW Q, Made(Q, lua), order \in Orders, HandsOver
    PROVE  \E V, T : ToProtoFits(order', lua', cpp', heap', V, T)
<1>1. PICK u : u = lua[2]
    OBVIOUS
<1>2. Complete(Q) /\ Len(lua) = 2 /\ IsArray(lua) /\ <<Root, source, u>> \in Q
    BY <1>1 DEF Made
<1>3. PICK V : V = Typed(Q)
    OBVIOUS
<1>4. Closed(order, V)
    BY <1>2, <1>3, MadeCloses
<1>5. <<Root, u>> \in V
    <2>1. PICK q : q = <<Root, source, u>> /\ q \in Q
        BY <1>2
    <2>2. q[1] = Root /\ q[3] = u
        BY <2>1
    <2> QED BY <1>3, <2>1, <2>2 DEF Typed
<1>6. PICK T : T[1] = <<Root, u>>
    <2>1. <<<<Root, u>>>>[1] = <<Root, u>>
        OBVIOUS
    <2> QED BY <2>1
<1>7. ToProtoFits(order, <<u>>, <<InFrame(Root, 1, 1, 0)>>, <<NewMessage(Root)>>, V, T)
    BY <1>4, <1>5, <1>6, StartFits
<1>8. Last(lua) = u
    BY <1>1, <1>2 DEF Last
<1>9. /\ order' = order /\ lua' = <<u>> /\ cpp' = <<InFrame(Root, 1, 1, 0)>>
      /\ heap' = <<NewMessage(Root)>>
    BY <1>8 DEF HandsOver
<1> QED BY <1>7, <1>9

\* The tables Lua code hands over, each with its type.
Handed == UNION {{<<t, u>> : u \in Tables[t]} : t \in DOMAIN Schema}

LEMMA HandedConverts ==
    ASSUME ArraysBeginWithTables, NEW o \in Orders, NEW t \in DOMAIN Schema, NEW u \in Tables[t]
    PROVE  Convertible(o, Handed, t, u)
<1>1. \A s \in DOMAIN Schema : \A w \in Tables[s] : <<s, w>> \in Handed
    BY DEF Handed
<1>2. /\ IsTable(u) /\ IsArray(u.arr)
      /\ DOMAIN u.hash \subseteq {o[j] : j \in DOMAIN o}
    BY TablesAssumption, OrdersAssumption
<1>3. ASSUME NEW f \in FieldsOf(t), NEW v, v = Given(u, f), IsTable(v)
      PROVE  /\ IsArray(v.arr)
             /\ f.kind = "message" /\ ~f.rep => <<f.type, v>> \in Handed
             /\ f.kind = "message" /\ f.rep =>
                  /\ v.arr # <<>> => IsTable(v.arr[1])
                  /\ \A j \in DOMAIN v.arr : IsTable(v.arr[j]) => <<f.type, v.arr[j]>> \in Handed
    <2>1. PICK i \in DOMAIN Schema[t] : f = Schema[t][i]
        BY DEF FieldsOf
    <2>2. f.name \in DOMAIN u.hash /\ v = u.hash[f.name]
        BY <1>3, KeyKinds DEF Given
    <2>3. /\ IsArray(v.arr)
          /\ f.kind = "message" /\ ~f.rep => v \in Tables[f.type]
          /\ f.kind = "message" /\ f.rep =>
               \A j \in DOMAIN v.arr : IsTable(v.arr[j]) => v.arr[j] \in Tables[f.type]
        BY <1>3, <2>1, <2>2, TablesAssumption
    <2>4. f.kind = "message" => f.type \in DOMAIN Schema
        BY SchemaIs
    <2>5. f.kind = "message" /\ f.rep /\ v.arr # <<>> => IsTable(v.arr[1])
        BY <1>3, <2>1, <2>2 DEF ArraysBeginWithTables
    <2> QED BY <1>1, <2>3, <2>4, <2>5
<1> QED BY <1>2, <1>3 DEF Convertible

LEMMA HandedCloses ==
    ASSUME ArraysBeginWithTables, NEW o \in Orders
    PROVE  Closed(o, Handed)
<1>1. IsArray(o)
    BY OrdersAssumption
<1>2. ASSUME NEW p \in Handed PROVE Convertible(o, Handed, p[1], p[2])
    <2>1. PICK t \in DOMAIN Schema : p \in {<<t, u>> : u \in Tables[t]}
        BY DEF Handed
    <2>2. PICK u \in Tables[t] : p = <<t, u>>
        BY <2>1
    <2>3. p[1] = t /\ p[2] = u
        BY <2>2
    <2>4. Convertible(o, Handed, t, u)
        BY HandedConverts
    <2> QED BY <2>3, <2>4
<1> QED BY <1>1, <1>2 DEF Closed

-----------------------------------------------------------------------------
(* The first half of a conversion: a table of the whole message *)

ToLuaNow == \E Q, pos : ToLuaFits(Q, pos, lua, cpp)

MadeNow == \E Q : Made(Q, lua)

MadeInv ==
    /\ order \in Orders
    /\ pc \in {"toLua", "made", "toProto", "done"}
    /\ pc = "toLua" => ToLuaNow
    /\ pc = "made" => MadeNow

LEMMA SourceKept ==
    ASSUME source' = source
    PROVE  /\ \A Q, pos : ToLuaFits(Q, pos, lua', cpp') => ToLuaNow'
           /\ \A Q : Made(Q, lua') => MadeNow'
<1>1. ASSUME NEW Q, NEW pos, ToLuaFits(Q, pos, lua', cpp') PROVE ToLuaNow'
    BY <1>1 DEF ToLuaFits, ToLuaNow
<1>2. ASSUME NEW Q, Made(Q, lua') PROVE MadeNow'
    BY <1>2 DEF Made, MadeNow
<1> QED BY <1>1, <1>2

StartOut ==
    /\ source \in Messages[Root] /\ lua = <<Below, Table(<<>>, <<>>)>>
    /\ cpp = <<OutFrame(Root, source, FALSE)>>

LEMMA StartToLua ==
    ASSUME StartOut
    PROVE  ToLuaNow
<1>1. PICK r : r = FALSE
    OBVIOUS
<1>2. PICK b, x1, x0 : b = OutFrame(Root, source, r) /\ x1 = 1 /\ x0 = 0
    OBVIOUS
<1>3. Root \in DOMAIN Schema /\ Len(Schema[Root]) \in Nat
    BY LuaProtoAssumption, FieldNames
<1>4. EmptyAt(lua, 2) /\ IsArray(lua) /\ Len(lua) = 2 /\ lua[1] = Below
    <2>1. PICK S : S = {Below, Table(<<>>, <<>>)}
        OBVIOUS
    <2>2. lua \in Seq(S)
        BY <2>1 DEF StartOut
    <2> QED BY <2>2, SeqArray DEF EmptyAt, StartOut
<1>5. PICK Q : Q = {}
    OBVIOUS
<1>6. /\ b.type = Root /\ b.msg = source /\ b.settable = r /\ b.loop = 0
      /\ TopIs(Q, lua, b, 2)
    <2>1. source \in Messages[Root]
        BY DEF StartOut
    <2> QED BY <1>2, <1>3, <1>4, <2>1, NewTable
<1>7. ~b.settable
    <2>1. b.settable = r
        BY <1>6
    <2> QED BY <1>1, <2>1, Zenon
<1>8. IsArray(cpp) /\ Len(cpp) = 1 /\ cpp[1] = b /\ cpp # <<>>
    <2>1. cpp = <<b>>
        BY <1>1, <1>2, Zenon DEF StartOut
    <2>2. PICK S : S = {b}
        OBVIOUS
    <2>3. cpp \in Seq(S) /\ Len(cpp) = 1 /\ cpp[1] = b /\ cpp # <<>>
        BY <2>1, <2>2
    <2> QED BY <2>3, SeqArray
<1>9. PICK pos : pos = [i \in {1} |-> 2]
    OBVIOUS
<1>10. OutPlaces(pos, lua, cpp)
    <2>1. pos[1] = 2 /\ (\A i \in 1..1 : i = 1) /\ (\A i \in 1..(1 - 1) : FALSE)
        BY <1>9
    <2>2. Len(lua) = 2 /\ Len(cpp) = 1 /\ cpp[1].loop = 0
        BY <1>4, <1>6, <1>8
    <2>3. Len(lua) = pos[Len(cpp)] + (IF cpp[Len(cpp)].loop = 0 THEN 0 ELSE 2)
        BY <2>1, <2>2
    <2>4. /\ \A i \in 1..Len(cpp) : pos[i] \in Nat /\ pos[i] # 0
          /\ \A i, j \in 1..Len(cpp) : i <= j => pos[i] <= pos[j]
        BY <2>1, <2>2
    <2>5. \A i \in 1..(Len(cpp) - 1) : FALSE
        BY <2>1, <2>2
    <2> QED BY <2>1, <2>3, <2>4, <2>5 DEF OutPlaces
<1>11. Complete(Q)
    BY <1>5 DEF Complete
<1>12. ToLuaFits(Q, pos, lua, cpp)
    <2>1. \A i \in 1..(1 - 1) : FALSE
        OBVIOUS
    <2>2. pos[1] = 2
        BY <1>9
    <2>3. /\ \A i \in 1..(Len(cpp) - 1) : WaitsFor(Q, lua, cpp[i], cpp[i + 1], pos[i])
          /\ TopIs(Q, lua, cpp[Len(cpp)], pos[Len(cpp)])
        BY <1>6, <1>8, <2>1, <2>2
    <2>4. cpp[1].type = Root /\ cpp[1].msg = source /\ ~cpp[1].settable
        BY <1>6, <1>7, <1>8
    <2> QED BY <1>4, <1>8, <1>10, <1>11, <2>3, <2>4 DEF ToLuaFits
<1> QED BY <1>12 DEF ToLuaNow

LEMMA MadeInit == Init => MadeInv
<1> SUFFICES ASSUME Init PROVE MadeInv
    OBVIOUS
<1>1. CASE pc = "toLua"
    <2>1. /\ source \in Messages[Root] /\ lua = <<Below, Table(<<>>, <<>>)>>
          /\ cpp = <<OutFrame(Root, source, FALSE)>> /\ order \in Orders
        BY <1>1 DEF Init
    <2>2. ToLuaNow
        BY <2>1, StartToLua DEF StartOut
    <2> QED BY <1>1, <2>1, <2>2 DEF MadeInv
<1>2. CASE pc = "toProto"
    BY <1>2 DEF Init, MadeInv
<1> QED BY <1>1, <1>2 DEF Init

LEMMA MadeNext == MadeInv /\ [Next]_vars => MadeInv'
<1> SUFFICES ASSUME MadeInv, [Next]_vars PROVE MadeInv'
    OBVIOUS
<1> USE DEF MadeInv
<1>1. CASE OutPops
    <2>1. pc = "toLua" /\ source' = source /\ order' = order
        BY <1>1 DEF OutPops
    <2>2. PICK Q, pos : ToLuaFits(Q, pos, lua, cpp)
        BY <2>1 DEF ToLuaNow
    <2>3. \/ pc' = "made" /\ \E Q2 : Made(Q2, lua')
          \/ pc' = pc /\ \E Q2, pos2 : ToLuaFits(Q2, pos2, lua', cpp')
        BY <1>1, <2>2, PopsOut
    <2>4. (pc' = "made" /\ MadeNow') \/ (pc' = pc /\ ToLuaNow')
        BY <2>1, <2>3, SourceKept
    <2> QED BY <2>1, <2>4
<1>2. CASE OutScalar
    <2>1. pc = "toLua" /\ pc' = pc /\ source' = source /\ order' = order
        BY <1>2 DEF OutScalar, OutMore
    <2>2. PICK Q, pos : ToLuaFits(Q, pos, lua, cpp)
        BY <2>1 DEF ToLuaNow
    <2>3. ToLuaFits(Q, pos, lua', cpp')
        BY <1>2, <2>2, ScalarOut
    <2>4. ToLuaNow'
        BY <2>1, <2>3, SourceKept
    <2> QED BY <2>1, <2>4
<1>3. CASE OutMessage
    <2>1. pc = "toLua" /\ pc' = pc /\ source' = source /\ order' = order
        BY <1>3 DEF OutMessage, OutMore
    <2>2. PICK Q, pos : ToLuaFits(Q, pos, lua, cpp)
        BY <2>1 DEF ToLuaNow
    <2>3. \E pos2 : ToLuaFits(Q, pos2, lua', cpp')
        BY <1>3, <2>2, MessageOut
    <2>4. ToLuaNow'
        BY <2>1, <2>3, SourceKept
    <2> QED BY <2>1, <2>4
<1>4. CASE OutScalars
    <2>1. pc = "toLua" /\ pc' = pc /\ source' = source /\ order' = order
        BY <1>4 DEF OutScalars, OutMore
    <2>2. PICK Q, pos : ToLuaFits(Q, pos, lua, cpp)
        BY <2>1 DEF ToLuaNow
    <2>3. ToLuaFits(Q, pos, lua', cpp')
        BY <1>4, <2>2, ScalarsOut
    <2>4. ToLuaNow'
        BY <2>1, <2>3, SourceKept
    <2> QED BY <2>1, <2>4
<1>5. CASE OutNextItem
    <2>1. pc = "toLua" /\ pc' = pc /\ source' = source /\ order' = order
        BY <1>5 DEF OutNextItem, OutMore
    <2>2. PICK Q, pos : ToLuaFits(Q, pos, lua, cpp)
        BY <2>1 DEF ToLuaNow
    <2>3. \E pos2 : ToLuaFits(Q, pos2, lua', cpp')
        BY <1>5, <2>2, NextItemOut
    <2>4. ToLuaNow'
        BY <2>1, <2>3, SourceKept
    <2> QED BY <2>1, <2>4
<1>6. CASE OutItemsDone
    <2>1. pc = "toLua" /\ pc' = pc /\ source' = source /\ order' = order
        BY <1>6 DEF OutItemsDone, OutMore
    <2>2. PICK Q, pos : ToLuaFits(Q, pos, lua, cpp)
        BY <2>1 DEF ToLuaNow
    <2>3. ToLuaFits(Q, pos, lua', cpp')
        BY <1>6, <2>2, ItemsDoneOut
    <2>4. ToLuaNow'
        BY <2>1, <2>3, SourceKept
    <2> QED BY <2>1, <2>4
<1>7. CASE HandsOver
    BY <1>7 DEF HandsOver
<1>8. CASE Lua2Protobuf
    <2>1. /\ pc = "toProto" /\ pc' \in {"toProto", "done"} /\ order' = order
        <3>1. CASE InSkips
            BY <3>1 DEF InSkips, InMore, InSafe
        <3>2. CASE InScalar
            BY <3>2 DEF InScalar, InMore, InSafe
        <3>3. CASE InScalars
            BY <3>3 DEF InScalars, InMore, InSafe
        <3>4. CASE InMessage
            BY <3>4 DEF InMessage, InMore, InSafe
        <3>5. CASE InMessages
            BY <3>5 DEF InMessages, InMore, InSafe
        <3>6. CASE InPops
            BY <3>6 DEF InPops, InSafe
        <3> QED BY <1>8, <3>1, <3>2, <3>3, <3>4, <3>5, <3>6 DEF Lua2Protobuf
    <2> QED BY <2>1
<1>9. CASE UNCHANGED vars
    BY <1>9 DEF vars, ToLuaNow, MadeNow, ToLuaFits, Made
<1> QED BY <1>1, <1>2, <1>3, <1>4, <1>5, <1>6, <1>7, <1>8, <1>9 DEF Next, Protobuf2Lua

\* For every schema and every message: when protobuf2lua_nostack returns, it has
\* left exactly one value on the Lua stack, above what was there before, and that
\* value is the table of the whole message, at every depth that is looked into.
THEOREM ToLuaIsWhole == Spec => []TableIsMade
<1>1. MadeInv => TableIsMade
    <2> SUFFICES ASSUME MadeInv, pc = "made" PROVE TableWhole
        BY DEF TableIsMade, TableWhole
    <2>1. PICK Q : Made(Q, lua)
        BY DEF MadeInv, MadeNow
    <2> QED BY <2>1, MadeIsWhole
<1> QED BY <1>1, MadeInit, MadeNext, PTL DEF Spec

-----------------------------------------------------------------------------
(* The second half: a message of all that fits *)

ToProtoNow == \E V, T : ToProtoFits(order, lua, cpp, heap, V, T)

ConvertedNow == \E V, T : Converted(order, lua, heap, V, T)

FitInv ==
    /\ MadeInv
    /\ pc = "toProto" => ToProtoNow
    /\ pc = "done" => ConvertedNow

LEMMA ProtoKept ==
    /\ \A V, T : ToProtoFits(order', lua', cpp', heap', V, T) => ToProtoNow'
    /\ \A V, T : Converted(order', lua', heap', V, T) => ConvertedNow'
BY DEF ToProtoNow, ConvertedNow

LEMMA FitInit ==
    ASSUME ArraysBeginWithTables
    PROVE  Init => FitInv
<1> SUFFICES ASSUME Init PROVE FitInv
    OBVIOUS
<1>1. MadeInv
    BY MadeInit
<1>2. CASE pc = "toLua"
    BY <1>1, <1>2 DEF FitInv
<1>3. CASE pc = "toProto"
    <2>1. /\ source \in Tables[Root] /\ order \in Orders
          /\ lua = <<source>> /\ cpp = <<InFrame(Root, 1, 1, 0)>> /\ heap = <<NewMessage(Root)>>
        BY <1>3 DEF Init, StartIn
    <2>2. Closed(order, Handed)
        BY <2>1, HandedCloses
    <2>3. <<Root, source>> \in Handed
        BY <2>1, LuaProtoAssumption DEF Handed
    <2>4. PICK T : T[1] = <<Root, source>>
        <3>1. <<<<Root, source>>>>[1] = <<Root, source>>
            OBVIOUS
        <3> QED BY <3>1
    <2>5. PICK u, o : u = source /\ o = order
        OBVIOUS
    <2>6. ToProtoFits(o, <<u>>, <<InFrame(Root, 1, 1, 0)>>, <<NewMessage(Root)>>, Handed, T)
        BY <2>2, <2>3, <2>4, <2>5, StartFits
    <2>7. ToProtoFits(order, lua, cpp, heap, Handed, T)
        BY <2>1, <2>5, <2>6
    <2>8. ToProtoNow
        BY <2>7 DEF ToProtoNow
    <2> QED BY <1>1, <1>3, <2>8 DEF FitInv
<1> QED BY <1>2, <1>3 DEF Init

LEMMA FitNext == FitInv /\ [Next]_vars => FitInv'
<1> SUFFICES ASSUME FitInv, [Next]_vars PROVE FitInv'
    OBVIOUS
<1>1. MadeInv /\ MadeInv'
    BY MadeNext DEF FitInv
<1> USE DEF FitInv
<1>2. CASE Protobuf2Lua
    <2>1. pc' \in {"toLua", "made"}
        <3>1. CASE OutPops
            BY <3>1 DEF OutPops
        <3>2. CASE OutScalar
            BY <3>2 DEF OutScalar, OutMore
        <3>3. CASE OutMessage
            BY <3>3 DEF OutMessage, OutMore
        <3>4. CASE OutScalars
            BY <3>4 DEF OutScalars, OutMore
        <3>5. CASE OutNextItem
            BY <3>5 DEF OutNextItem, OutMore
        <3>6. CASE OutItemsDone
            BY <3>6 DEF OutItemsDone, OutMore
        <3> QED BY <1>2, <3>1, <3>2, <3>3, <3>4, <3>5, <3>6 DEF Protobuf2Lua
    <2> QED BY <1>1, <2>1
<1>3. CASE HandsOver
    <2>1. pc = "made" /\ pc' = "toProto" /\ order \in Orders
        BY <1>1, <1>3 DEF HandsOver, MadeInv
    <2>2. PICK Q : Made(Q, lua)
        BY <1>1, <2>1 DEF MadeInv, MadeNow
    <2>3. ToProtoNow'
        BY <1>3, <2>1, <2>2, HandsOverFits, ProtoKept
    <2> QED BY <1>1, <2>1, <2>3
<1>4. CASE InSkips
    <2>1. pc = "toProto" /\ pc' = pc
        BY <1>4 DEF InSkips, InMore, InSafe
    <2>2. PICK V, T : ToProtoFits(order, lua, cpp, heap, V, T)
        BY <2>1 DEF ToProtoNow
    <2>3. ToProtoNow'
        BY <1>4, <2>2, SkipFits, ProtoKept
    <2> QED BY <1>1, <2>1, <2>3
<1>5. CASE InScalar
    <2>1. pc = "toProto" /\ pc' = pc
        BY <1>5 DEF InScalar, InMore, InSafe
    <2>2. PICK V, T : ToProtoFits(order, lua, cpp, heap, V, T)
        BY <2>1 DEF ToProtoNow
    <2>3. ToProtoNow'
        BY <1>5, <2>2, ScalarFits, ProtoKept
    <2> QED BY <1>1, <2>1, <2>3
<1>6. CASE InScalars
    <2>1. pc = "toProto" /\ pc' = pc
        BY <1>6 DEF InScalars, InMore, InSafe
    <2>2. PICK V, T : ToProtoFits(order, lua, cpp, heap, V, T)
        BY <2>1 DEF ToProtoNow
    <2>3. ToProtoNow'
        BY <1>6, <2>2, ScalarsFit, ProtoKept
    <2> QED BY <1>1, <2>1, <2>3
<1>7. CASE InMessage
    <2>1. pc = "toProto" /\ pc' = pc
        BY <1>7 DEF InMessage, InMore, InSafe
    <2>2. PICK V, T : ToProtoFits(order, lua, cpp, heap, V, T)
        BY <2>1 DEF ToProtoNow
    <2>3. ToProtoNow'
        BY <1>7, <2>2, MessageFits, ProtoKept
    <2> QED BY <1>1, <2>1, <2>3
<1>8. CASE InMessages
    <2>1. pc = "toProto" /\ pc' = pc
        BY <1>8 DEF InMessages, InMore, InSafe
    <2>2. PICK V, T : ToProtoFits(order, lua, cpp, heap, V, T)
        BY <2>1 DEF ToProtoNow
    <2>3. ToProtoNow'
        BY <1>8, <2>2, MessagesFit, ProtoKept
    <2> QED BY <1>1, <2>1, <2>3
<1>9. CASE InPops
    <2>1. pc = "toProto"
        BY <1>9 DEF InPops, InSafe
    <2>2. PICK V, T : ToProtoFits(order, lua, cpp, heap, V, T)
        BY <2>1 DEF ToProtoNow
    <2>3. \/ pc' = "done" /\ Converted(order', lua', heap', V, T)
          \/ pc' = pc /\ ToProtoFits(order', lua', cpp', heap', V, T)
        BY <1>9, <2>2, PopsFit
    <2>4. (pc' = "done" /\ ConvertedNow') \/ (pc' = pc /\ ToProtoNow')
        BY <2>3, ProtoKept
    <2> QED BY <1>1, <2>1, <2>4
<1>10. CASE UNCHANGED vars
    BY <1>1, <1>10 DEF vars, ToProtoNow, ConvertedNow
<1> QED BY <1>2, <1>3, <1>4, <1>5, <1>6, <1>7, <1>8, <1>9, <1>10 DEF Next, Lua2Protobuf

LEMMA FitAlways ==
    ASSUME ArraysBeginWithTables
    PROVE  Spec => []FitInv
<1>1. Init => FitInv
    BY FitInit
<1> QED BY <1>1, FitNext, PTL DEF Spec

\* When the arrays of messages begin with tables: for every schema, every table
\* and every order in which lua_next visits names, each call of lua_next in
\* lua2protobuf_nostack has nil or a key of its table on top of the stack, so no
\* walk ends in a Lua error.
THEOREM NoLuaErrorHolds ==
    ASSUME ArraysBeginWithTables
    PROVE  Spec => []NoLuaError
<1>1. FitInv => NoLuaError
    <2> SUFFICES ASSUME FitInv, pc = "toProto" PROVE MayNext(InTable, Last(Asked))
        BY DEF NoLuaError
    <2>1. PICK V, T : ToProtoFits(order, lua, cpp, heap, V, T)
        BY DEF FitInv, ToProtoNow
    <2> QED BY <2>1, NextIsSafe
<1>2. Spec => []FitInv
    BY FitAlways
<1> QED BY <1>1, <1>2, PTL

\* Under the same condition: at every turn of lua2protobuf_nostack the frames of
\* cpp_stack have on the Lua stack exactly what they will pop, each with its
\* table at the place the frame names.
THEOREM StacksStayInStep ==
    ASSUME ArraysBeginWithTables
    PROVE  Spec => []StacksInStep
<1>1. FitInv => StacksInStep
    <2> SUFFICES ASSUME FitInv, pc = "toProto"
                 PROVE  /\ cpp[1].idx = 1 /\ cpp[1].pops = 0 /\ Len(lua) = Top(Frame)
                        /\ \A i \in 2..Len(cpp) : cpp[i].idx = Top(cpp[i - 1]) + cpp[i].pops
                        /\ \A i \in DOMAIN cpp : IsTable(lua[cpp[i].idx])
        BY DEF StacksInStep
    <2>1. PICK V, T : ToProtoFits(order, lua, cpp, heap, V, T)
        BY DEF FitInv, ToProtoNow
    <2>2. /\ IsArray(cpp) /\ Layout(lua, cpp)
          /\ \A i \in 1..Len(cpp) : FrameIs(lua, heap, V, T, cpp[i])
        BY <2>1, FitsAre
    <2>3. Frame = cpp[Len(cpp)]
        BY DEF Frame, Last
    <2>4. DOMAIN cpp = 1..Len(cpp)
        BY <2>2, ArraySeq
    <2>5. \A i \in DOMAIN cpp : IsTable(lua[cpp[i].idx])
        BY <2>2, <2>4 DEF FrameIs
    <2> QED BY <2>2, <2>3, <2>5 DEF Layout
<1>2. Spec => []FitInv
    BY FitAlways
<1> QED BY <1>1, <1>2, PTL

\* Under the same condition: when lua2protobuf_nostack returns, the message has
\* all of the table that fits it and defaults elsewhere, at every depth that is
\* looked into, and the Lua stack is what it was before the call.
THEOREM ToProtoIsWhole ==
    ASSUME ArraysBeginWithTables
    PROVE  Spec => []MessageIsMade
<1>1. FitInv => MessageIsMade
    <2> SUFFICES ASSUME FitInv, pc = "done" PROVE Len(lua) = 1 /\ WholeMessage
        BY DEF MessageIsMade
    <2>1. PICK V, T : Converted(order, lua, heap, V, T)
        BY DEF FitInv, ConvertedNow
    <2> QED BY <2>1, WholeIs
<1>2. Spec => []FitInv
    BY FitAlways
<1> QED BY <1>1, <1>2, PTL

=============================================================================
