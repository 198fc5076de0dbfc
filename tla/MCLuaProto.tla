----------------------------- MODULE MCLuaProto -----------------------------
(***************************************************************************)
(* Instances of LuaProto.  The schema has what the messages of the server  *)
(* have: all four scalars, repeated scalars, a message (the base info of a *)
(* record) and repeated messages in repeated messages (players of a map,   *)
(* items of a bag).                                                        *)
(***************************************************************************)
EXTENDS LuaProto

F(s, k, r, t) == [name |-> s, kind |-> k, rep |-> r, type |-> t]

MCSchema ==
    [Record |-> << F("id", "long", FALSE, ""),
                   F("bags", "message", TRUE, "Bag"),
                   F("info", "message", FALSE, "Bag"),
                   F("names", "text", TRUE, "") >>,
     Bag |-> << F("items", "message", TRUE, "Item"),
                F("level", "float", FALSE, "") >>,
     Item |-> << F("good", "bool", FALSE, "") >>]

\* Messages with up to two elements in every repeated field.
UpTo2(S) == {<<>>} \cup {<<x>> : x \in S} \cup {<<x, y>> : x \in S, y \in S}

I(n) == [good |-> <<n>>]
MCItems == {I(0), I(1)}
MCBags ==
    [items : {<<>>, <<I(1)>>, <<I(1), I(0)>>}, level : {<<3>>}]
        \cup {[items |-> <<>>, level |-> <<0>>]}
MCRecords ==
    LET bags == {b \in MCBags : b.level = <<3>>} IN
    [id : {<<7>>}, bags : UpTo2(bags), info : {<<>>} \cup {<<b>> : b \in bags},
     names : {<<>>, <<1, 2>>}]
MCMessages == [Record |-> MCRecords, Bag |-> MCBags, Item |-> MCItems]

MCOrder == <<"bags", "extra", "id", "names", "info", "level", "items", "good">>
MCOrders == {MCOrder, Reverse(MCOrder)}

\* Tables of Lua code: fields are missing, unknown or of another type, and
\* arrays hold values that do not fit.
T(h) == Table(<<>>, h)
A(a) == Table(a, <<>>)
Bad == Number(5)

MCItem == T([good |-> Value("boolean", 1, "", <<>>, <<>>)])
MCBag == T([level |-> Number(3), items |-> A(<<MCItem, Bad>>)])

MCIds == {Nil, Value("string", 7, "", <<>>, <<>>), A(<<>>)}
MCInfos == {Nil, Bad, MCBag, T([extra |-> Bad, items |-> Bad])}
MCNames == {Nil, Bad, A(<<Number(1), A(<<>>), Value("string", 2, "text", <<>>, <<>>)>>)}
MCArrays == {Nil, Bad, A(<<>>), A(<<MCBag>>), A(<<T(<<>>), Bad, MCBag>>)}

\* A field whose value is nil is not in the table.
Present(h) == [s \in {x \in DOMAIN h : h[x] # Nil} |-> h[s]]

TablesWith(arrays) ==
    {Table(<<Bad>>, Present([id |-> i, info |-> b, names |-> n, bags |-> a, extra |-> e])) :
        i \in MCIds, b \in MCInfos, n \in MCNames, a \in arrays, e \in {Nil, Bad}}

TablesAre(records) ==
    [Record |-> records,
     Bag |-> {MCBag, T(<<>>), T([extra |-> Bad, items |-> Bad])},
     Item |-> {MCItem}]

MCTables == TablesAre(TablesWith(MCArrays))

\* Arrays of messages whose first element is none.
MCBadTables == TablesAre(TablesWith({A(<<Bad>>), A(<<Bad, MCBag>>)}))
MCNone == [Record |-> {}, Bag |-> {}, Item |-> {}]

=============================================================================
