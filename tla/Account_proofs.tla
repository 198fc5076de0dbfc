--------------------------- MODULE Account_proofs ---------------------------
(***************************************************************************)
(* Proofs about Bag, for every value of INT32_MAX and of the amounts, and  *)
(* about Account, for every set of connections, users, passwords and clock *)
(* readings, every initial table, every bound and every limit.             *)
(***************************************************************************)
EXTENDS Account, TLAPS

-----------------------------------------------------------------------------
(* The bag *)
SaneItems == [itemID : Int, number : 1..INT32_MAX]

LEMMA SaneBagType ==
    ASSUME NEW bag, SaneBag(bag)
    PROVE  /\ bag \in Seq(BagItems)
           /\ bag \in Seq(SaneItems)
           /\ Len(bag) \in Nat
           /\ DOMAIN bag = 1..Len(bag)
           /\ \A k \in DOMAIN bag : /\ bag[k] \in SaneItems
                                    /\ bag[k].itemID \in Int
                                    /\ bag[k].number \in Int
                                    /\ bag[k].number >= 1
                                    /\ bag[k].number <= INT32_MAX
<1>1. bag \in Seq(SaneItems)
    BY DEF SaneBag, SaneItems
<1>2. Len(bag) \in Nat /\ DOMAIN bag = 1..Len(bag)
    BY <1>1
<1>3. \A k \in DOMAIN bag : bag[k] \in SaneItems
    BY <1>1
<1>4. SaneItems \subseteq BagItems
    BY BagAssumption DEF SaneItems, BagItems
<1>5. bag \in Seq(BagItems)
    BY <1>1, <1>2, <1>3, <1>4
<1>6. \A x \in SaneItems : /\ x.itemID \in Int
                           /\ x.number \in Int
                           /\ x.number >= 1
                           /\ x.number <= INT32_MAX
    BY BagAssumption DEF SaneItems
<1> QED BY <1>1, <1>2, <1>3, <1>5, <1>6

\* What makes a sequence of entries a sane bag.
LEMMA SaneBagIntro ==
    ASSUME NEW n \in Nat,
           NEW b,
           b = [k \in 1..n |-> b[k]],
           \A k \in 1..n : b[k] \in SaneItems,
           \A j, k \in 1..n : b[j].itemID = b[k].itemID => j = k
    PROVE  SaneBag(b)
<1>1. b \in Seq(SaneItems)
    OBVIOUS
<1>2. DOMAIN b = 1..n
    OBVIOUS
<1> QED BY <1>1, <1>2 DEF SaneBag, SaneItems

\* In a sane bag the entry found is the only one of its item.
LEMMA FindsTheEntry ==
    ASSUME NEW bag, SaneBag(bag), NEW itemID \in Int
    PROVE  LET k == FindDbBagItemByItemID(bag, itemID) IN
           \/ /\ k = 0
              /\ Places(bag, itemID) = {}
           \/ /\ k \in DOMAIN bag
              /\ k # 0
              /\ bag[k].itemID = itemID
              /\ Places(bag, itemID) = {k}
<1> DEFINE at == Places(bag, itemID)
           k == FindDbBagItemByItemID(bag, itemID)
<1>1. CASE at = {}
    BY <1>1 DEF FindDbBagItemByItemID
<1>2. CASE at # {}
    <2>1. PICK i \in at : TRUE
        BY <1>2
    <2>2. i \in DOMAIN bag /\ bag[i].itemID = itemID /\ i \in Int /\ i # 0
        BY <2>1, SaneBagType DEF Places
    <2>3. at = {i}
        BY <2>1, <2>2 DEF Places, SaneBag
    <2>4. k = CHOOSE x \in at : \A j \in at : x <= j
        BY <1>2 DEF FindDbBagItemByItemID
    <2>5. \E x \in at : \A j \in at : x <= j
        BY <2>2, <2>3
    <2>6. k \in at
        <3> HIDE DEF at, k
        <3> QED BY <2>4, <2>5
    <2> QED BY <2>2, <2>3, <2>6
<1> QED BY <1>1, <1>2

\* AddItemByItemID keeps a bag sane, for every item and every amount.
THEOREM AddKeepsSane ==
    ASSUME NEW bag, SaneBag(bag), NEW itemID \in Int, NEW count \in Int
    PROVE  SaneBag(AddItemByItemID(bag, itemID, count))
<1> DEFINE k == FindDbBagItemByItemID(bag, itemID)
           n == Len(bag)
           b == AddItemByItemID(bag, itemID, count)
<1> SUFFICES SaneBag(b)
    OBVIOUS
<1>t. /\ n \in Nat
      /\ DOMAIN bag = 1..n
      /\ bag \in Seq(SaneItems)
      /\ \A j \in 1..n : bag[j] \in SaneItems
    BY SaneBagType
<1>u. \A i, j \in 1..n : bag[i].itemID = bag[j].itemID => i = j
    BY <1>t DEF SaneBag
<1>1. CASE ~TestAddItemByItemID(bag, itemID, count)
    BY <1>1 DEF AddItemByItemID
<1>2. CASE TestAddItemByItemID(bag, itemID, count) /\ k = 0
    <2>1. b = Append(bag, [itemID |-> itemID, number |-> count])
        BY <1>2 DEF AddItemByItemID
    <2>2. count \in 1..INT32_MAX
        BY <1>2, BagAssumption DEF TestAddItemByItemID, GetItemCountByItemID
    <2>3. \A j \in 1..n : bag[j].itemID # itemID
        BY <1>2, <1>t, FindsTheEntry, SaneBagType DEF Places
    <2>4. [itemID |-> itemID, number |-> count] \in SaneItems
        BY <2>2 DEF SaneItems
    <2> DEFINE e == [itemID |-> itemID, number |-> count]
    <2>5. /\ b = [j \in 1..(n + 1) |-> b[j]]
          /\ \A j \in 1..n : b[j] = bag[j]
          /\ b[n + 1] = e
        BY <2>1, <1>t
    <2>6. e.itemID = itemID
        OBVIOUS
    <2> HIDE DEF b, e
    <2>7. \A i \in 1..(n + 1) : i \in 1..n \/ i = n + 1
        BY <1>t
    <2>8. \A j \in 1..(n + 1) : b[j] \in SaneItems
        BY <2>4, <2>5, <2>7, <1>t DEF e
    <2>9. \A j \in 1..n : b[j].itemID = bag[j].itemID /\ b[j].itemID # itemID
        BY <2>3, <2>5
    <2>10. \A i, j \in 1..(n + 1) : b[i].itemID = b[j].itemID => i = j
        <3> SUFFICES ASSUME NEW i \in 1..(n + 1), NEW j \in 1..(n + 1),
                            b[i].itemID = b[j].itemID
                     PROVE  i = j
            OBVIOUS
        <3>1. CASE i = n + 1
            BY <3>1, <2>5, <2>6, <2>7, <2>9
        <3>2. CASE j = n + 1
            BY <3>2, <2>5, <2>6, <2>7, <2>9
        <3>3. CASE i \in 1..n /\ j \in 1..n
            BY <3>3, <2>9, <1>u
        <3> QED BY <3>1, <3>2, <3>3, <2>7
    <2>11. n + 1 \in Nat
        BY <1>t
    <2> QED BY <2>5, <2>8, <2>10, <2>11, SaneBagIntro
<1>3. CASE TestAddItemByItemID(bag, itemID, count) /\ k # 0
    <2>1. b = [bag EXCEPT ![k].number = @ + count]
        BY <1>3 DEF AddItemByItemID
    <2>2. k \in 1..n /\ bag[k].itemID = itemID
        BY <1>3, <1>t, FindsTheEntry
    <2>3. bag[k].number + count \in 1..INT32_MAX
        <3>1. bag[k].number <= INT32_MAX - count /\ count > 0
            BY <1>3 DEF TestAddItemByItemID, GetItemCountByItemID
        <3>2. bag[k].number \in Int /\ bag[k].number >= 1
            BY <2>2, <1>t, SaneBagType
        <3> HIDE DEF k
        <3> QED BY <3>1, <3>2, BagAssumption
    <2> DEFINE e == [bag[k] EXCEPT !.number = @ + count]
    <2>4. e \in SaneItems /\ e.itemID = bag[k].itemID
        BY <2>2, <2>3, <1>t DEF SaneItems
    <2>5. /\ b = [j \in 1..n |-> b[j]]
          /\ \A j \in 1..n : b[j] = IF j = k THEN e ELSE bag[j]
        BY <2>1, <2>2, <1>t
    <2> HIDE DEF b, e, k
    <2>6. \A j \in 1..n : b[j] \in SaneItems /\ b[j].itemID = bag[j].itemID
        BY <2>4, <2>5, <1>t
    <2> QED BY <2>5, <2>6, <1>t, <1>u, SaneBagIntro
<1> QED BY <1>1, <1>2, <1>3

\* SubItemByItemID keeps a bag sane: an entry that falls to 0 goes, and it is
\* the entry of that item that goes.
THEOREM SubKeepsSane ==
    ASSUME NEW bag, SaneBag(bag), NEW itemID \in Int, NEW count \in Int
    PROVE  SaneBag(SubItemByItemID(bag, itemID, count))
<1> DEFINE k == FindDbBagItemByItemID(bag, itemID)
           n == Len(bag)
           left == [bag EXCEPT ![k].number = @ - count]
           b == SubItemByItemID(bag, itemID, count)
<1> SUFFICES SaneBag(b)
    OBVIOUS
<1>t. /\ n \in Nat
      /\ DOMAIN bag = 1..n
      /\ \A j \in 1..n : bag[j] \in SaneItems
    BY SaneBagType
<1>u. \A i, j \in 1..n : bag[i].itemID = bag[j].itemID => i = j
    BY <1>t DEF SaneBag
<1>1. CASE count <= 0 \/ k = 0 \/ bag[k].number < count
    BY <1>1 DEF SubItemByItemID
<1>2. CASE ~(count <= 0 \/ k = 0 \/ bag[k].number < count)
    <2>1. k \in 1..n /\ bag[k].itemID = itemID /\ k \in Int
        BY <1>2, <1>t, FindsTheEntry
    <2>2. /\ bag[k].number \in Int
          /\ bag[k].number <= INT32_MAX
          /\ bag[k].number >= count
        BY <1>2, <2>1, <1>t, SaneBagType
    <2> DEFINE e == [bag[k] EXCEPT !.number = @ - count]
    <2>3. /\ e.number = bag[k].number - count
          /\ e.itemID = bag[k].itemID
        BY <2>1, <1>t DEF SaneItems
    <2>4. /\ DOMAIN left = 1..n
          /\ left = [j \in 1..n |-> left[j]]
          /\ \A j \in 1..n : left[j] = IF j = k THEN e ELSE bag[j]
        BY <2>1, <1>t
    <2>5. CASE left[k].number = 0
        <3>1. b = RemoveItem(left, itemID)
            BY <1>2, <2>5 DEF SubItemByItemID
        <3>2. \A j \in 1..n : left[j].itemID = bag[j].itemID
            <4> HIDE DEF left, e, k
            <4> QED BY <2>3, <2>4
        <3>3. Places(left, itemID) = {k}
            <4> HIDE DEF left, e, k
            <4> QED BY <3>2, <2>1, <2>4, <1>u DEF Places
        <3>4. (CHOOSE i \in {k} : \A j \in {k} : j <= i) = k
            <4> HIDE DEF k
            <4> QED BY <2>1
        <3>5. Len(left) = n
            <4> HIDE DEF left, k
            <4> QED BY <2>4, <1>t
        <3>6. b = [i \in 1..(n - 1) |->
                     IF i < k THEN left[i] ELSE left[i + 1]]
            <4> HIDE DEF left, k, b
            <4> QED BY <3>1, <3>3, <3>4, <3>5 DEF RemoveItem
        <3> HIDE DEF left, e, k, b
        <3>7. /\ b = [i \in 1..(n - 1) |-> b[i]]
              /\ \A i \in 1..(n - 1) :
                   b[i] = IF i < k THEN bag[i] ELSE bag[i + 1]
            BY <3>6, <2>1, <2>4, <1>t
        <3>8. n - 1 \in Nat
            BY <2>1, <1>t
        <3>9. \A i \in 1..(n - 1) : b[i] \in SaneItems
            BY <3>7, <2>1, <1>t
        <3>10. \A i, j \in 1..(n - 1) : b[i].itemID = b[j].itemID => i = j
            BY <3>7, <2>1, <1>t, <1>u
        <3> QED BY <3>7, <3>8, <3>9, <3>10, SaneBagIntro
    <2>6. CASE left[k].number # 0
        <3>1. b = left
            BY <1>2, <2>6 DEF SubItemByItemID
        <3>2. e.number \in 1..INT32_MAX
            <4>1. e.number # 0
                <5> HIDE DEF left, e, k
                <5> QED BY <2>1, <2>4, <2>6
            <4>2. count > 0
                BY <1>2
            <4> HIDE DEF left, e, k
            <4> QED BY <4>1, <4>2, <2>2, <2>3, BagAssumption
        <3>3. e \in SaneItems
            BY <3>2, <2>1, <2>3, <1>t DEF SaneItems
        <3> HIDE DEF left, e, k, b
        <3>4. \A j \in 1..n : /\ left[j] \in SaneItems
                              /\ left[j].itemID = bag[j].itemID
            BY <3>3, <2>3, <2>4, <1>t
        <3> QED BY <3>1, <3>4, <2>4, <1>t, <1>u, SaneBagIntro
    <2> QED BY <2>5, <2>6
<1> QED BY <1>1, <1>2

\* A tick keeps a bag sane, whatever it holds and however often it comes.
THEOREM TickKeepsSane ==
    ASSUME NEW bag, SaneBag(bag)
    PROVE  SaneBag(BagOnTick(bag))
<1> DEFINE b == IF TestAddItemByItemID(bag, 1, TickGain)
                  THEN AddItemByItemID(bag, 1, TickGain)
                  ELSE SubItemByItemID(bag, 1, 1)
<1>1. TickGain \in Int /\ TickLoss \in Int /\ 1 \in Int
    BY BagAssumption
<1>2. SaneBag(b)
    BY <1>1, AddKeepsSane, SubKeepsSane
<1>3. SaneBag(SubItemByItemID(b, 1, TickLoss))
    <2> HIDE DEF b
    <2> QED BY <1>1, <1>2, SubKeepsSane
<1> QED BY <1>2, <1>3 DEF BagOnTick


-----------------------------------------------------------------------------
(* The inductive invariant.  That an account a client was told stays is    *)
(* not inductive by itself: a record that is written back replaces the row *)
(* of its id, so every record on its way to the table, in a player, or on  *)
(* its way to a player must carry the keys and password of a row.          *)

GoodRequest(m) ==
    /\ m.op \in {"insert", "write"} => SaneRow(m.row)
    /\ m.op = "write" => Owned(m.row)

GoodAnswer(a) ==
    /\ a.row # None => SaneRow(a.row) /\ Owned(a.row)
    /\ a.op = "insert" /\ a.row # None => a.row = a.asked

TableIsGood == KeysAreUnique(table) /\ \A r \in table : SaneRow(r)
PlayersAreGood ==
    \A c \in Conns : player[c] # None => SaneRow(player[c]) /\ Owned(player[c])
RequestsAreGood == \A i \in DOMAIN toDb : GoodRequest(toDb[i])
AnswersAreGood == \A i \in DOMAIN toLua : GoodAnswer(toLua[i])

IInv ==
    /\ TypeOK
    /\ TableIsGood
    /\ PlayersAreGood
    /\ RequestsAreGood
    /\ AnswersAreGood
    /\ CreatedIsOwned

-----------------------------------------------------------------------------
(* Messages and rows *)

LEMMA RequestTypes ==
    /\ \A c \in Conns, r \in Rows : InsertReq(c, r) \in Requests
    /\ \A c \in Conns, u \in Users \cup {Invalid}, p \in Passwords \cup {Invalid} :
         SelectReq(c, u, p) \in Requests
    /\ \A r \in Rows : WriteReq(r) \in Requests
    /\ \A m \in Requests :
         /\ m.op = "insert" => m.conn \in Conns /\ m.row \in Rows
         /\ m.op = "select" => /\ m.conn \in Conns
                               /\ m.user \in Users \cup {Invalid}
                               /\ m.password \in Passwords \cup {Invalid}
         /\ m.op = "write" => m.row \in Rows
BY DEF Requests, InsertReq, SelectReq, WriteReq

LEMMA AnswerTypes ==
    /\ \A m \in Requests, r \in Rows \cup {None} :
         /\ m.op = "insert" => InsertRes(m, r) \in Answers
         /\ m.op = "select" => SelectRes(m, r) \in Answers
    /\ \A a \in Answers :
         /\ a.op \in {"insert", "select"}
         /\ a.conn \in Conns
         /\ a.row \in Rows \cup {None}
         /\ a.op = "insert" => a.asked \in Rows
<1>1. ASSUME NEW m \in Requests, NEW r \in Rows \cup {None}, m.op = "insert"
      PROVE  InsertRes(m, r) \in Answers
    BY <1>1, RequestTypes DEF InsertRes, Answers
<1>2. ASSUME NEW m \in Requests, NEW r \in Rows \cup {None}, m.op = "select"
      PROVE  SelectRes(m, r) \in Answers
    BY <1>2, RequestTypes DEF SelectRes, Answers
<1>3. ASSUME NEW a \in Answers
      PROVE  /\ a.op \in {"insert", "select"}
             /\ a.conn \in Conns
             /\ a.row \in Rows \cup {None}
             /\ a.op = "insert" => a.asked \in Rows
    BY <1>3 DEF Answers
<1> QED BY <1>1, <1>2, <1>3

\* The row of a new account is a sane row.
LEMMA NewRowIsSane ==
    ASSUME NEW t \in Times, NEW u \in Users, NEW p \in Passwords
    PROVE  NewRow(t, u, p) \in Rows /\ SaneRow(NewRow(t, u, p))
<1>1. SaneBag(<<>>)
    BY DEF SaneBag
<1>2. <<>> \in Seq(BagItems)
    OBVIOUS
<1> QED BY <1>1, <1>2, AccountAssumption DEF NewRow, Rows, SaneRow

\* A tick changes what a row holds, keeps it sane and keeps its keys.
LEMMA TickedRow ==
    ASSUME NEW r \in Rows, SaneRow(r)
    PROVE  /\ Ticked(r) \in Rows
           /\ SaneRow(Ticked(r))
           /\ Ticked(r).id = r.id
           /\ Ticked(r).user = r.user
           /\ Ticked(r).password = r.password
<1>1. SaneBag(BagOnTick(r.bag))
    BY TickKeepsSane DEF SaneRow
<1>2. BagOnTick(r.bag) \in Seq(BagItems)
    BY <1>1, SaneBagType
<1>3. LevelOnTick(r.level) \in 0..LevelMax /\ LevelOnTick(r.level) \in Nat
    BY AccountAssumption DEF SaneRow, LevelOnTick
<1>4. /\ r.id \in Times /\ r.user \in Users /\ r.password \in Passwords
      /\ r = [id |-> r.id, user |-> r.user, password |-> r.password,
              level |-> r.level, bag |-> r.bag]
    BY DEF Rows
<1> DEFINE l == LevelOnTick(r.level)
           g == BagOnTick(r.bag)
<1>5. Ticked(r) = [r EXCEPT !.level = l, !.bag = g]
    BY DEF Ticked
<1> HIDE DEF l, g
<1>6. Ticked(r) = [id |-> r.id, user |-> r.user, password |-> r.password,
                   level |-> l, bag |-> g]
    BY <1>4, <1>5
<1>7. Ticked(r) \in Rows
    BY <1>2, <1>3, <1>4, <1>6 DEF l, g, Rows
<1> QED BY <1>1, <1>3, <1>6, <1>7 DEF l, g, SaneRow

\* What is in a queue after a message was taken or added.
LEMMA QueueFacts ==
    ASSUME NEW S, NEW q \in Seq(S)
    PROVE  /\ \A e \in S : /\ Append(q, e) \in Seq(S)
                           /\ \A i \in DOMAIN Append(q, e) :
                                \/ Append(q, e)[i] = e
                                \/ \E j \in DOMAIN q : Append(q, e)[i] = q[j]
           /\ q # <<>> =>
                /\ Head(q) \in S
                /\ Tail(q) \in Seq(S)
                /\ \E j \in DOMAIN q : Head(q) = q[j]
                /\ \A i \in DOMAIN Tail(q) :
                     \E j \in DOMAIN q : Tail(q)[i] = q[j]
           /\ \A k \in 0..Len(q) :
                /\ SubSeq(q, 1, k) \in Seq(S)
                /\ \A i \in DOMAIN SubSeq(q, 1, k) :
                     \E j \in DOMAIN q : SubSeq(q, 1, k)[i] = q[j]
<1>1. ASSUME NEW e \in S
      PROVE  /\ Append(q, e) \in Seq(S)
             /\ \A i \in DOMAIN Append(q, e) :
                  \/ Append(q, e)[i] = e
                  \/ \E j \in DOMAIN q : Append(q, e)[i] = q[j]
    OBVIOUS
<1>2. ASSUME q # <<>>
      PROVE  /\ Head(q) \in S
             /\ Tail(q) \in Seq(S)
             /\ \E j \in DOMAIN q : Head(q) = q[j]
             /\ \A i \in DOMAIN Tail(q) :
                  \E j \in DOMAIN q : Tail(q)[i] = q[j]
    <2>1. Len(q) \in Nat /\ Len(q) # 0 /\ DOMAIN q = 1..Len(q)
        BY <1>2
    <2>2. Head(q) = q[1] /\ 1 \in DOMAIN q
        BY <2>1
    <2>3. Tail(q) \in Seq(S) /\ DOMAIN Tail(q) = 1..(Len(q) - 1)
        BY <1>2, <2>1
    <2>4. \A i \in 1..(Len(q) - 1) : Tail(q)[i] = q[i + 1] /\ i + 1 \in DOMAIN q
        BY <1>2, <2>1
    <2> QED BY <2>1, <2>2, <2>3, <2>4
<1>3. ASSUME NEW k \in 0..Len(q)
      PROVE  /\ SubSeq(q, 1, k) \in Seq(S)
             /\ \A i \in DOMAIN SubSeq(q, 1, k) :
                  \E j \in DOMAIN q : SubSeq(q, 1, k)[i] = q[j]
    OBVIOUS
<1> QED BY <1>1, <1>2, <1>3

-----------------------------------------------------------------------------
(* Frames: what a step that leaves the table alone, or keeps every account *)
(* of it, must show.                                                       *)

OwnersKept == \A r : Owned(r) => Owned(r)'

LEMMA SameTable ==
    ASSUME UNCHANGED table
    PROVE  OwnersKept /\ (TableIsGood => TableIsGood')
BY DEF OwnersKept, Owned, TableIsGood, KeysAreUnique

LEMMA MessagesStayGood ==
    ASSUME OwnersKept
    PROVE  /\ \A m : GoodRequest(m) => GoodRequest(m)'
           /\ \A a : GoodAnswer(a) => GoodAnswer(a)'
BY DEF OwnersKept, GoodRequest, GoodAnswer, SaneRow, SaneBag

LEMMA RequestsFrame ==
    ASSUME RequestsAreGood, OwnersKept,
           \A i \in DOMAIN toDb' : \A m :
               m = toDb'[i] => \/ \E j \in DOMAIN toDb : m = toDb[j]
                               \/ GoodRequest(m)'
    PROVE  RequestsAreGood'
<1> SUFFICES ASSUME NEW i \in DOMAIN toDb', NEW m, m = toDb'[i]
             PROVE  GoodRequest(m)'
    BY DEF RequestsAreGood
<1> QED BY MessagesStayGood DEF RequestsAreGood

LEMMA AnswersFrame ==
    ASSUME AnswersAreGood, OwnersKept,
           \A i \in DOMAIN toLua' : \A a :
               a = toLua'[i] => \/ \E j \in DOMAIN toLua : a = toLua[j]
                                \/ GoodAnswer(a)'
    PROVE  AnswersAreGood'
<1> SUFFICES ASSUME NEW i \in DOMAIN toLua', NEW a, a = toLua'[i]
             PROVE  GoodAnswer(a)'
    BY DEF AnswersAreGood
<1> QED BY MessagesStayGood DEF AnswersAreGood

LEMMA PlayersFrame ==
    ASSUME PlayersAreGood, OwnersKept,
           \A c \in Conns : \A r :
               r = player'[c] /\ r # None => \/ r = player[c]
                                             \/ SaneRow(r) /\ Owned(r)'
    PROVE  PlayersAreGood'
<1> SUFFICES ASSUME NEW c \in Conns, NEW r, r = player'[c], r # None
             PROVE  SaneRow(r) /\ Owned(r)'
    BY DEF PlayersAreGood, SaneRow, SaneBag
<1> QED BY DEF PlayersAreGood, OwnersKept

LEMMA ToldFrame ==
    ASSUME CreatedIsOwned, OwnersKept,
           \A t \in told' : t \in told \/ (t.row = t.asked /\ Owned(t.row))
    PROVE  CreatedIsOwned'
BY DEF CreatedIsOwned, OwnersKept

\* A queue, a player or the history that a step leaves alone stays good.
LEMMA Unchanged ==
    ASSUME IInv, OwnersKept
    PROVE  /\ UNCHANGED toDb => RequestsAreGood'
           /\ UNCHANGED toLua => AnswersAreGood'
           /\ UNCHANGED player => PlayersAreGood'
           /\ UNCHANGED told => CreatedIsOwned'
<1>1. UNCHANGED toDb => RequestsAreGood'
    BY RequestsFrame DEF IInv
<1>2. UNCHANGED toLua => AnswersAreGood'
    BY AnswersFrame DEF IInv
<1>3. UNCHANGED player => PlayersAreGood'
    BY PlayersFrame DEF IInv
<1>4. UNCHANGED told => CreatedIsOwned'
    BY ToldFrame DEF IInv
<1> QED BY <1>1, <1>2, <1>3, <1>4

\* A good request is added to the queue, or lost.
LEMMA SendKeeps ==
    ASSUME IInv, OwnersKept, NEW m \in Requests, GoodRequest(m), Send2IPC(m)
    PROVE  toDb' \in Seq(Requests) /\ RequestsAreGood'
<1>1. toDb \in Seq(Requests)
    BY DEF IInv, TypeOK
<1>2. GoodRequest(m)'
    BY MessagesStayGood
<1>3. CASE link
    <2>1. toDb' = Append(toDb, m)
        BY <1>3 DEF Send2IPC
    <2> QED BY <1>1, <1>2, <2>1, QueueFacts, RequestsFrame DEF IInv
<1>4. CASE ~link
    BY <1>1, <1>4, Unchanged DEF Send2IPC
<1> QED BY <1>3, <1>4

\* A message is taken from the head of the channel.
LEMMA TakesKeeps ==
    ASSUME IInv, OwnersKept, NEW op, Takes(op)
    PROVE  /\ toDb' \in Seq(Requests)
           /\ RequestsAreGood'
           /\ Head(toDb) \in Requests
           /\ Head(toDb).op = op
           /\ GoodRequest(Head(toDb))
<1>1. toDb \in Seq(Requests) /\ toDb # <<>> /\ toDb' = Tail(toDb)
    BY DEF IInv, TypeOK, Takes
<1>2. RequestsAreGood'
    BY <1>1, QueueFacts, RequestsFrame DEF IInv
<1>3. GoodRequest(Head(toDb))
    BY <1>1, QueueFacts DEF IInv, RequestsAreGood
<1> QED BY <1>1, <1>2, <1>3, QueueFacts DEF Takes

\* A good answer is sent, or lost.
LEMMA AnswerKeeps ==
    ASSUME IInv, OwnersKept, NEW a \in Answers, GoodAnswer(a)', Answer(a)
    PROVE  /\ toLua' \in Seq(Answers)
           /\ AnswersAreGood'
           /\ lost' \subseteq Conns
<1>1. toLua \in Seq(Answers) /\ lost \subseteq Conns
    BY DEF IInv, TypeOK
<1>2. CASE link
    <2>1. toLua' = Append(toLua, a)
        BY <1>2 DEF Answer
    <2>2. AnswersAreGood'
        BY <1>1, <2>1, QueueFacts, AnswersFrame DEF IInv
    <2>3. lost' = lost
        BY <1>2 DEF Answer
    <2> QED BY <1>1, <2>1, <2>2, <2>3, QueueFacts
<1>3. CASE ~link
    <2>1. AnswersAreGood'
        BY <1>3, Unchanged DEF Answer
    <2>2. a.conn \in Conns
        BY AnswerTypes
    <2> QED BY <1>1, <1>3, <2>1, <2>2 DEF Answer
<1> QED BY <1>2, <1>3

-----------------------------------------------------------------------------
(* One lemma per action *)

LEMMA InitIInv == Init => IInv
<1> SUFFICES ASSUME Init PROVE IInv
    OBVIOUS
<1>1. TypeOK
    <2>1. /\ conn \in [Conns -> {"idle", "online", "gone"}]
          /\ player \in [Conns -> Rows \cup {None}]
        BY DEF Init
    <2>2. toDb \in Seq(Requests) /\ toLua \in Seq(Answers)
        BY DEF Init
    <2>3. table \subseteq Rows
        BY AccountAssumption DEF Init
    <2>4. sent \in [Conns -> Nat] /\ waiting \in [Conns -> Int]
        BY DEF Init
    <2>5. /\ safeStop \in BOOLEAN
          /\ link \in BOOLEAN
          /\ lost \subseteq Conns
          /\ told \subseteq [row : Rows, asked : Rows]
        BY DEF Init
    <2> QED BY <2>1, <2>2, <2>3, <2>4, <2>5 DEF TypeOK
<1>2. TableIsGood
    BY AccountAssumption DEF Init, TableIsGood
<1>3. PlayersAreGood /\ CreatedIsOwned
    BY DEF Init, PlayersAreGood, CreatedIsOwned
<1>4. RequestsAreGood /\ AnswersAreGood
    BY DEF Init, RequestsAreGood, AnswersAreGood
<1> QED BY <1>1, <1>2, <1>3, <1>4 DEF IInv

LEMMA OnNewConnectionKeeps ==
    ASSUME IInv, NEW c \in Conns, OnNewConnection(c)
    PROVE  IInv'
<1>1. UNCHANGED <<player, toDb, toLua, table, told>>
    BY DEF OnNewConnection, dbVars, histVars
<1>2. OwnersKept /\ TableIsGood'
    BY <1>1, SameTable DEF IInv
<1>3. TypeOK'
    BY DEF IInv, TypeOK, OnNewConnection, dbVars, histVars
<1> QED BY <1>1, <1>2, <1>3, Unchanged DEF IInv

LEMMA OnCreateUserKeeps ==
    ASSUME IInv, NEW c \in Conns, OnCreateUser(c)
    PROVE  IInv'
<1>1. UNCHANGED <<conn, player, safeStop, link, toLua, table, told>>
    BY DEF OnCreateUser, vmVars
<1>2. OwnersKept /\ TableIsGood'
    BY <1>1, SameTable DEF IInv
<1>3. PICK u \in Users \cup {Invalid}, p \in Passwords \cup {Invalid} :
         \/ UNCHANGED <<toDb, waiting, lost>>
         \/ /\ AcceptsCreate(u, p)
            /\ \E t \in Times : Send2IPC(InsertReq(c, NewRow(t, u, p)))
            /\ waiting' = [waiting EXCEPT ![c] = @ + 1]
            /\ lost' = IF link THEN lost ELSE lost \cup {c}
    BY DEF OnCreateUser
<1>4. toDb' \in Seq(Requests) /\ RequestsAreGood'
    <2>1. CASE UNCHANGED toDb
        BY <1>2, <2>1, Unchanged DEF IInv, TypeOK
    <2>2. ASSUME NEW t \in Times, AcceptsCreate(u, p),
                 Send2IPC(InsertReq(c, NewRow(t, u, p)))
          PROVE  toDb' \in Seq(Requests) /\ RequestsAreGood'
        <3>1. u \in Users /\ p \in Passwords
            BY <2>2 DEF AcceptsCreate
        <3>2. NewRow(t, u, p) \in Rows /\ SaneRow(NewRow(t, u, p))
            BY <3>1, NewRowIsSane
        <3> DEFINE m == InsertReq(c, NewRow(t, u, p))
        <3>3. m \in Requests
            BY <3>2, RequestTypes
        <3>4. GoodRequest(m)
            BY <3>2 DEF GoodRequest, InsertReq
        <3> HIDE DEF m
        <3>5. Send2IPC(m)
            BY <2>2 DEF m
        <3> QED BY <1>2, <3>3, <3>4, <3>5, SendKeeps
    <2> QED BY <1>3, <2>1, <2>2
<1>5. waiting' \in [Conns -> Int] /\ lost' \subseteq Conns
    BY <1>3 DEF IInv, TypeOK
<1>6. sent' \in [Conns -> Nat]
    BY DEF OnCreateUser, ClientSends, IInv, TypeOK
<1>7. TypeOK'
    BY <1>1, <1>4, <1>5, <1>6 DEF IInv, TypeOK
<1> QED BY <1>1, <1>2, <1>4, <1>7, Unchanged DEF IInv

LEMMA OnLoginKeeps ==
    ASSUME IInv, NEW c \in Conns, OnLogin(c)
    PROVE  IInv'
<1>1. UNCHANGED <<conn, player, safeStop, link, toLua, table, waiting, lost,
                  told>>
    BY DEF OnLogin, vmVars
<1>2. OwnersKept /\ TableIsGood'
    BY <1>1, SameTable DEF IInv
<1>3. PICK u \in Users \cup {Invalid}, p \in Passwords \cup {Invalid} :
         UNCHANGED toDb \/ Send2IPC(SelectReq(c, u, p))
    BY DEF OnLogin
<1>4. toDb' \in Seq(Requests) /\ RequestsAreGood'
    <2>1. CASE UNCHANGED toDb
        BY <1>2, <2>1, Unchanged DEF IInv, TypeOK
    <2>2. CASE Send2IPC(SelectReq(c, u, p))
        <3>1. SelectReq(c, u, p) \in Requests
            BY RequestTypes
        <3>2. GoodRequest(SelectReq(c, u, p))
            BY DEF GoodRequest, SelectReq
        <3> QED BY <1>2, <2>2, <3>1, <3>2, SendKeeps
    <2> QED BY <1>3, <2>1, <2>2
<1>5. sent' \in [Conns -> Nat]
    BY DEF OnLogin, ClientSends, IInv, TypeOK
<1>6. TypeOK'
    BY <1>1, <1>4, <1>5 DEF IInv, TypeOK
<1> QED BY <1>1, <1>2, <1>4, <1>6, Unchanged DEF IInv

LEMMA OnCloseConnectionKeeps ==
    ASSUME IInv, NEW c \in Conns, OnCloseConnection(c)
    PROVE  IInv'
<1>1. /\ UNCHANGED <<safeStop, link, toLua, table, sent, waiting, lost, told>>
      /\ conn' = [conn EXCEPT ![c] = "gone"]
      /\ player' = [player EXCEPT ![c] = None]
    BY DEF OnCloseConnection, histVars
<1>2. OwnersKept /\ TableIsGood'
    BY <1>1, SameTable DEF IInv
<1>3. toDb' \in Seq(Requests) /\ RequestsAreGood'
    <2>1. CASE player[c] = None
        BY <1>2, <2>1, Unchanged DEF IInv, TypeOK, OnCloseConnection
    <2>2. CASE player[c] # None
        <3>1. player[c] \in Rows /\ SaneRow(player[c]) /\ Owned(player[c])
            BY <2>2 DEF IInv, TypeOK, PlayersAreGood
        <3>2. WriteReq(player[c]) \in Requests
            BY <3>1, RequestTypes
        <3>3. GoodRequest(WriteReq(player[c]))
            BY <3>1 DEF GoodRequest, WriteReq
        <3>4. Send2IPC(WriteReq(player[c]))
            BY <2>2 DEF OnCloseConnection, OnLogout
        <3> QED BY <1>2, <3>2, <3>3, <3>4, SendKeeps
    <2> QED BY <2>1, <2>2
<1>4. PlayersAreGood'
    BY <1>1, <1>2, PlayersFrame DEF IInv, TypeOK
<1>5. TypeOK'
    BY <1>1, <1>3 DEF IInv, TypeOK
<1> QED BY <1>1, <1>2, <1>3, <1>4, <1>5, Unchanged DEF IInv

LEMMA OnSafeStopKeeps ==
    ASSUME IInv, OnSafeStop
    PROVE  IInv'
<1>1. UNCHANGED <<conn, player, dbVars, histVars>> /\ safeStop' = TRUE
    BY DEF OnSafeStop
<1>2. OwnersKept /\ TableIsGood'
    BY <1>1, SameTable DEF IInv, dbVars
<1>3. TypeOK'
    BY <1>1 DEF IInv, TypeOK, dbVars, histVars
<1> QED BY <1>1, <1>2, <1>3, Unchanged DEF IInv, dbVars, histVars

LEMMA OnTickKeeps ==
    ASSUME IInv, OnTick
    PROVE  IInv'
<1>1. /\ UNCHANGED <<conn, safeStop, dbVars, histVars>>
      /\ player' = [c \in Conns |-> IF player[c] = None
                                      THEN None
                                      ELSE Ticked(player[c])]
    BY DEF OnTick
<1>2. OwnersKept /\ TableIsGood'
    BY <1>1, SameTable DEF IInv, dbVars
<1>3. \A c \in Conns : player[c] # None =>
        /\ Ticked(player[c]) \in Rows
        /\ SaneRow(Ticked(player[c]))
        /\ Owned(Ticked(player[c]))
    <2> SUFFICES ASSUME NEW c \in Conns, player[c] # None
                 PROVE  /\ Ticked(player[c]) \in Rows
                        /\ SaneRow(Ticked(player[c]))
                        /\ Owned(Ticked(player[c]))
        OBVIOUS
    <2>1. player[c] \in Rows /\ SaneRow(player[c]) /\ Owned(player[c])
        BY DEF IInv, TypeOK, PlayersAreGood
    <2> QED BY <2>1, TickedRow DEF Owned
<1>4. player' \in [Conns -> Rows \cup {None}]
    BY <1>1, <1>3
<1>5. PlayersAreGood'
    BY <1>1, <1>2, <1>3, PlayersFrame DEF IInv, OwnersKept
<1>6. TypeOK'
    BY <1>1, <1>4 DEF IInv, TypeOK, dbVars, histVars
<1> QED BY <1>1, <1>2, <1>5, <1>6, Unchanged DEF IInv, dbVars, histVars

\* The head of the answers is taken.
LEMMA TakenAnswer ==
    ASSUME IInv, OwnersKept, toLua # <<>>, toLua' = Tail(toLua)
    PROVE  /\ toLua' \in Seq(Answers)
           /\ AnswersAreGood'
           /\ Head(toLua) \in Answers
           /\ GoodAnswer(Head(toLua))
<1>1. toLua \in Seq(Answers)
    BY DEF IInv, TypeOK
<1>2. AnswersAreGood'
    BY <1>1, QueueFacts, AnswersFrame DEF IInv
<1>3. GoodAnswer(Head(toLua))
    BY <1>1, QueueFacts DEF IInv, AnswersAreGood
<1> QED BY <1>1, <1>2, <1>3, QueueFacts

LEMMA OnInsertAnswerKeeps ==
    ASSUME IInv, OnInsertAnswer
    PROVE  IInv'
<1> DEFINE a == Head(toLua)
<1>1. /\ UNCHANGED <<conn, player, safeStop, link, toDb, table, sent, lost>>
      /\ toLua # <<>> /\ toLua' = Tail(toLua) /\ a.op = "insert"
      /\ waiting' = [waiting EXCEPT ![a.conn] = @ - 1]
      /\ told' = IF a.row = None
                   THEN told
                   ELSE told \cup {[row |-> a.row, asked |-> a.asked]}
    BY DEF OnInsertAnswer, vmVars
<1>2. OwnersKept /\ TableIsGood'
    BY <1>1, SameTable DEF IInv
<1>3. toLua' \in Seq(Answers) /\ AnswersAreGood' /\ a \in Answers /\ GoodAnswer(a)
    BY <1>1, <1>2, TakenAnswer
<1>4. waiting' \in [Conns -> Int]
    <2>1. PICK x \in Conns : x = a.conn
        BY <1>3, AnswerTypes
    <2>2. waiting \in [Conns -> Int] /\ waiting' = [waiting EXCEPT ![x] = @ - 1]
        BY <1>1, <2>1 DEF IInv, TypeOK
    <2> QED BY <2>2
<1>5. told' \subseteq [row : Rows, asked : Rows] /\ CreatedIsOwned'
    <2>1. CASE a.row = None
        BY <1>1, <1>2, <2>1, Unchanged DEF IInv, TypeOK
    <2>2. CASE a.row # None
        <3> DEFINE t == [row |-> a.row, asked |-> a.asked]
        <3>1. a.row \in Rows /\ a.asked \in Rows
            BY <1>1, <1>3, <2>2, AnswerTypes
        <3>2. t \in [row : Rows, asked : Rows]
            BY <3>1
        <3>3. t.row = t.asked /\ Owned(t.row)
            BY <1>1, <1>3, <2>2 DEF GoodAnswer
        <3>4. told' = told \cup {t}
            BY <1>1, <2>2
        <3> HIDE DEF t
        <3>5. CreatedIsOwned'
            BY <1>2, <3>3, <3>4, ToldFrame DEF IInv
        <3> QED BY <3>2, <3>4, <3>5 DEF IInv, TypeOK
    <2> QED BY <2>1, <2>2
<1> HIDE DEF a
<1>6. TypeOK'
    BY <1>1, <1>3, <1>4, <1>5 DEF IInv, TypeOK
<1> QED BY <1>1, <1>2, <1>3, <1>5, <1>6, Unchanged DEF IInv

LEMMA OnLoginAnswerKeeps ==
    ASSUME IInv, OnLoginAnswer
    PROVE  IInv'
<1>0. PICK a : a = Head(toLua)
    OBVIOUS
<1>1. /\ UNCHANGED <<conn, safeStop, link, toDb, table, histVars>>
      /\ toLua # <<>> /\ toLua' = Tail(toLua)
      /\ \/ player' = player
         \/ player' = [player EXCEPT ![a.conn] = a.row] /\ a.row # None
    BY <1>0 DEF OnLoginAnswer
<1>2. OwnersKept /\ TableIsGood'
    BY <1>1, SameTable DEF IInv
<1>3. toLua' \in Seq(Answers) /\ AnswersAreGood' /\ a \in Answers /\ GoodAnswer(a)
    BY <1>0, <1>1, <1>2, TakenAnswer
<1>4. player' \in [Conns -> Rows \cup {None}] /\ PlayersAreGood'
    <2>1. CASE player' = player
        BY <1>2, <2>1, Unchanged DEF IInv, TypeOK
    <2>2. CASE player' = [player EXCEPT ![a.conn] = a.row] /\ a.row # None
        <3>1. a.row \in Rows \cup {None}
            BY <1>3, AnswerTypes
        <3>2. SaneRow(a.row) /\ Owned(a.row)
            BY <1>3, <2>2 DEF GoodAnswer
        <3>3. \A c \in Conns : player'[c] = player[c] \/ player'[c] = a.row
            BY <2>2 DEF IInv, TypeOK
        <3>4. player' \in [Conns -> Rows \cup {None}]
            BY <2>2, <3>1 DEF IInv, TypeOK
        <3>5. Owned(a.row)'
            BY <1>1, <3>2 DEF Owned
        <3>6. ASSUME NEW c \in Conns, NEW r, r = player'[c], r # None
              PROVE  r = player[c] \/ (SaneRow(r) /\ Owned(r)')
            <4>1. CASE r = a.row
                BY <1>2, <3>2, <4>1 DEF OwnersKept
            <4> QED BY <3>3, <3>6, <4>1
        <3> QED BY <1>2, <3>4, <3>6, PlayersFrame DEF IInv
    <2> QED BY <1>1, <2>1, <2>2
<1>5. TypeOK'
    BY <1>1, <1>3, <1>4 DEF IInv, TypeOK, histVars
<1> QED BY <1>1, <1>2, <1>3, <1>4, <1>5, Unchanged DEF IInv, histVars

\* A new row takes nothing from the accounts there are.
LEMMA InsertRowKeeps ==
    ASSUME IInv, NEW r \in Rows, SaneRow(r), InsertRow(r)
    PROVE  /\ OwnersKept
           /\ TableIsGood'
           /\ table' \subseteq Rows
           /\ Owned(r)'
<1>1. /\ table' = table \cup {r}
      /\ \A s \in table : s.id # r.id /\ s.user # r.user
    BY DEF InsertRow
<1>2. OwnersKept
    BY <1>1 DEF OwnersKept, Owned
<1>3. KeysAreUnique(table')
    BY <1>1 DEF IInv, TableIsGood, KeysAreUnique
<1>4. (\A s \in table : SaneRow(s))'
    BY <1>1 DEF IInv, TableIsGood, SaneRow, SaneBag
<1>5. Owned(r)'
    BY <1>1 DEF Owned
<1> QED BY <1>1, <1>2, <1>3, <1>4, <1>5 DEF IInv, TypeOK, TableIsGood, KeysAreUnique

\* A record that carries the keys and password of a row replaces that row
\* and leaves every account what it was.
LEMMA ReplaceRowKeeps ==
    ASSUME IInv, NEW r \in Rows, SaneRow(r), Owned(r), ReplaceRow(r)
    PROVE  /\ OwnersKept
           /\ TableIsGood'
           /\ table' \subseteq Rows
<1>1. table' = {s \in table : s.id # r.id} \cup {r}
    BY DEF ReplaceRow
<1>2. PICK o \in table : /\ o.id = r.id
                         /\ o.user = r.user
                         /\ o.password = r.password
    BY DEF Owned
<1>3. \A s \in table : s.id = r.id \/ s.user = r.user => s = o
    BY <1>2 DEF IInv, TableIsGood, KeysAreUnique
<1>4. OwnersKept
    BY <1>1, <1>2, <1>3 DEF OwnersKept, Owned
<1>5. KeysAreUnique(table')
    BY <1>1, <1>2, <1>3 DEF IInv, TableIsGood, KeysAreUnique
<1>6. (\A s \in table : SaneRow(s))'
    BY <1>1 DEF IInv, TableIsGood, SaneRow, SaneBag
<1> QED BY <1>1, <1>4, <1>5, <1>6 DEF IInv, TypeOK, TableIsGood, KeysAreUnique

LEMMA DbInsertKeeps ==
    ASSUME IInv, DbInsert
    PROVE  IInv'
<1>0. PICK m : m = Head(toDb)
    OBVIOUS
<1>1. /\ UNCHANGED <<conn, player, safeStop, link, sent, waiting, told>>
      /\ Takes("insert")
      /\ \/ UNCHANGED table /\ Answer(InsertRes(m, None))
         \/ InsertRow(m.row) /\ Answer(InsertRes(m, None))
         \/ InsertRow(m.row) /\ Answer(InsertRes(m, m.row))
    BY <1>0 DEF DbInsert, InsertFails, vmVars
<1>2. /\ m \in Requests
      /\ m.op = "insert"
      /\ m.row \in Rows
      /\ SaneRow(m.row)
    <2>1. toDb \in Seq(Requests) /\ toDb # <<>> /\ m.op = "insert"
        BY <1>0, <1>1 DEF IInv, TypeOK, Takes
    <2>2. m \in Requests /\ GoodRequest(m)
        BY <1>0, <2>1, QueueFacts DEF IInv, RequestsAreGood
    <2> QED BY <2>1, <2>2, RequestTypes DEF GoodRequest
<1>3. /\ OwnersKept
      /\ TableIsGood'
      /\ table' \subseteq Rows
      /\ UNCHANGED table \/ Owned(m.row)'
    BY <1>1, <1>2, SameTable, InsertRowKeeps DEF IInv, TypeOK
<1>4. toDb' \in Seq(Requests) /\ RequestsAreGood'
    BY <1>1, <1>3, TakesKeeps
<1>5. toLua' \in Seq(Answers) /\ AnswersAreGood' /\ lost' \subseteq Conns
    <2>1. CASE Answer(InsertRes(m, None))
        <3>1. InsertRes(m, None) \in Answers
            BY <1>2, AnswerTypes
        <3>2. GoodAnswer(InsertRes(m, None))'
            BY DEF GoodAnswer, InsertRes
        <3> QED BY <1>3, <2>1, <3>1, <3>2, AnswerKeeps
    <2>2. CASE InsertRow(m.row) /\ Answer(InsertRes(m, m.row))
        <3>1. InsertRes(m, m.row) \in Answers
            BY <1>2, AnswerTypes
        <3>2. Owned(m.row)'
            BY <1>2, <2>2, InsertRowKeeps
        <3>3. GoodAnswer(InsertRes(m, m.row))'
            BY <1>2, <3>2 DEF GoodAnswer, InsertRes, SaneRow, SaneBag
        <3> QED BY <1>3, <2>2, <3>1, <3>3, AnswerKeeps
    <2> QED BY <1>1, <2>1, <2>2
<1>6. TypeOK'
    BY <1>1, <1>3, <1>4, <1>5 DEF IInv, TypeOK
<1> QED BY <1>1, <1>3, <1>4, <1>5, <1>6, Unchanged DEF IInv

LEMMA DbSelectKeeps ==
    ASSUME IInv, DbSelect
    PROVE  IInv'
<1>0. PICK m : m = Head(toDb)
    OBVIOUS
<1>1. /\ UNCHANGED <<conn, player, safeStop, link, table, sent, waiting, told>>
      /\ Takes("select")
      /\ \/ Answer(SelectRes(m, None))
         \/ \E r \in table : Answer(SelectRes(m, r))
    BY <1>0 DEF DbSelect, vmVars
<1>2. OwnersKept /\ TableIsGood'
    BY <1>1, SameTable DEF IInv
<1>3. /\ toDb' \in Seq(Requests) /\ RequestsAreGood'
      /\ m \in Requests
      /\ m.op = "select"
    BY <1>0, <1>1, <1>2, TakesKeeps
<1>4. PICK r \in table \cup {None} : Answer(SelectRes(m, r))
    BY <1>1
<1>5. SelectRes(m, r) \in Answers
    BY <1>3, AnswerTypes DEF IInv, TypeOK
<1>6. GoodAnswer(SelectRes(m, r))
    BY DEF GoodAnswer, SelectRes, Owned, IInv, TableIsGood
<1>7. GoodAnswer(SelectRes(m, r))'
    BY <1>2, <1>6, MessagesStayGood
<1>8. toLua' \in Seq(Answers) /\ AnswersAreGood' /\ lost' \subseteq Conns
    BY <1>2, <1>4, <1>5, <1>7, AnswerKeeps
<1>9. TypeOK'
    BY <1>1, <1>3, <1>8 DEF IInv, TypeOK
<1> QED BY <1>1, <1>2, <1>3, <1>8, <1>9, Unchanged DEF IInv

LEMMA DbWriteKeeps ==
    ASSUME IInv, DbWrite
    PROVE  IInv'
<1>0. PICK m : m = Head(toDb)
    OBVIOUS
<1>1. /\ UNCHANGED <<conn, player, safeStop, link, toLua, histVars>>
      /\ Takes("write")
      /\ UNCHANGED table \/ ReplaceRow(m.row)
    BY <1>0 DEF DbWrite, vmVars
<1>2. m.row \in Rows /\ SaneRow(m.row) /\ Owned(m.row)
    <2>1. toDb \in Seq(Requests) /\ toDb # <<>> /\ m.op = "write"
        BY <1>0, <1>1 DEF IInv, TypeOK, Takes
    <2>2. m \in Requests /\ GoodRequest(m)
        BY <1>0, <2>1, QueueFacts DEF IInv, RequestsAreGood
    <2> QED BY <2>1, <2>2, RequestTypes DEF GoodRequest
<1>3. OwnersKept /\ TableIsGood' /\ table' \subseteq Rows
    BY <1>1, <1>2, SameTable, ReplaceRowKeeps DEF IInv, TypeOK
<1>4. toDb' \in Seq(Requests) /\ RequestsAreGood'
    BY <1>1, <1>3, TakesKeeps
<1>5. TypeOK'
    BY <1>1, <1>3, <1>4 DEF IInv, TypeOK, histVars
<1> QED BY <1>1, <1>3, <1>4, <1>5, Unchanged DEF IInv, histVars

\* The connections of the create requests and answers of a queue.
LEMMA InsertsOfConns ==
    ASSUME NEW q,
           \A i \in DOMAIN q : q[i].op = "insert" => q[i].conn \in Conns
    PROVE  InsertsOf(q) \subseteq Conns
BY DEF InsertsOf

LEMMA LinkDownKeeps ==
    ASSUME IInv, LinkDown
    PROVE  IInv'
<1>1. /\ UNCHANGED <<conn, player, safeStop, table, sent, waiting, told>>
      /\ link' = FALSE
      /\ toLua' = <<>>
    BY DEF LinkDown, vmVars
<1>2. PICK k \in 0..Len(toDb) :
         /\ toDb' = SubSeq(toDb, 1, k)
         /\ lost' = lost \cup InsertsOf(SubSeq(toDb, k + 1, Len(toDb)))
                         \cup InsertsOf(toLua)
    BY DEF LinkDown
<1>3. OwnersKept /\ TableIsGood'
    BY <1>1, SameTable DEF IInv
<1>4. toDb \in Seq(Requests) /\ toLua \in Seq(Answers)
    BY DEF IInv, TypeOK
<1>5. toDb' \in Seq(Requests) /\ RequestsAreGood'
    BY <1>2, <1>3, <1>4, QueueFacts, RequestsFrame DEF IInv
<1>6. toLua' \in Seq(Answers) /\ AnswersAreGood'
    BY <1>1 DEF AnswersAreGood
<1>7. lost' \subseteq Conns
    <2>1. InsertsOf(toLua) \subseteq Conns
        BY <1>4, AnswerTypes, InsertsOfConns
    <2> DEFINE q == SubSeq(toDb, k + 1, Len(toDb))
    <2>2. q \in Seq(Requests)
        BY <1>4
    <2>3. InsertsOf(q) \subseteq Conns
        <3> HIDE DEF q
        <3> QED BY <2>2, RequestTypes, InsertsOfConns
    <2> QED BY <1>2, <2>1, <2>3 DEF IInv, TypeOK
<1>8. TypeOK'
    BY <1>1, <1>5, <1>6, <1>7 DEF IInv, TypeOK
<1> QED BY <1>1, <1>3, <1>5, <1>6, <1>8, Unchanged DEF IInv

LEMMA LinkUpKeeps ==
    ASSUME IInv, LinkUp
    PROVE  IInv'
<1>1. UNCHANGED <<conn, player, safeStop, toDb, toLua, table, histVars>>
    BY DEF LinkUp, vmVars
<1>2. OwnersKept /\ TableIsGood'
    BY <1>1, SameTable DEF IInv
<1>3. TypeOK'
    BY <1>1 DEF IInv, TypeOK, LinkUp, histVars
<1> QED BY <1>1, <1>2, <1>3, Unchanged DEF IInv, histVars

-----------------------------------------------------------------------------
(* The theorems *)

LEMMA StutterKeeps ==
    ASSUME IInv, UNCHANGED vars
    PROVE  IInv'
<1>1. /\ UNCHANGED <<conn, player, safeStop, link, toDb, toLua, table>>
      /\ UNCHANGED <<sent, waiting, lost, told>>
    BY DEF vars, vmVars, dbVars, histVars
<1>2. OwnersKept /\ TableIsGood'
    BY <1>1, SameTable DEF IInv
<1>3. TypeOK'
    BY <1>1 DEF IInv, TypeOK
<1> QED BY <1>1, <1>2, <1>3, Unchanged DEF IInv

LEMMA NextKeeps == IInv /\ [Next]_vars => IInv'
<1> SUFFICES ASSUME IInv, [Next]_vars PROVE IInv'
    OBVIOUS
<1>1. ASSUME NEW c \in Conns, VM(c)
      PROVE  IInv'
    BY <1>1, OnNewConnectionKeeps, OnCreateUserKeeps, OnLoginKeeps,
       OnCloseConnectionKeeps DEF VM
<1>2. CASE OnAnswer
    BY <1>2, OnInsertAnswerKeeps, OnLoginAnswerKeeps DEF OnAnswer
<1>3. CASE OnTick
    BY <1>3, OnTickKeeps
<1>4. CASE OnSafeStop
    BY <1>4, OnSafeStopKeeps
<1>5. CASE Dbsvrgo
    BY <1>5, DbInsertKeeps, DbSelectKeeps, DbWriteKeeps DEF Dbsvrgo
<1>6. CASE LinkDown \/ LinkUp
    BY <1>6, LinkDownKeeps, LinkUpKeeps
<1>7. CASE UNCHANGED vars
    BY <1>7, StutterKeeps
<1> QED BY <1>1, <1>2, <1>3, <1>4, <1>5, <1>6, <1>7 DEF Next

LEMMA IInvAlways == Spec => []IInv
BY InitIInv, NextKeeps, PTL DEF Spec

\* The variables keep their types; above all, no account is ever made with a
\* user id or a password that the create handler should have refused.
THEOREM AccountTypes == Spec => []TypeOK
<1>1. IInv => TypeOK
    BY DEF IInv
<1> QED BY <1>1, IInvAlways, PTL

\* An account a client was told of is the one it asked for, and stays: no
\* create request in the same millisecond or under the same name and no
\* record written back, however late, takes it over or removes it.
THEOREM AccountsAreKept == Spec => []CreatedIsOwned
<1>1. IInv => CreatedIsOwned
    BY DEF IInv
<1> QED BY <1>1, IInvAlways, PTL

\* REPLACE by id always finds the row of its own account.
THEOREM WritesFindTheirRows == Spec => []WriteFindsItsRow
<1>1. IInv => WriteFindsItsRow
    BY DEF IInv, TableIsGood, RequestsAreGood, GoodRequest, WriteFindsItsRow
<1> QED BY <1>1, IInvAlways, PTL

\* Levels and bags stay within what the database can store, for every limit
\* and however many ticks a player lives through.
THEOREM RecordsStaySane == Spec => []RecordsAreSane
<1>1. IInv => RecordsAreSane
    BY DEF IInv, TableIsGood, PlayersAreGood, RequestsAreGood, AnswersAreGood,
           GoodRequest, GoodAnswer, RecordsAreSane
<1> QED BY <1>1, IInvAlways, PTL
=============================================================================
