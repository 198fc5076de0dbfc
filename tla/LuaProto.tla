------------------------------ MODULE LuaProto ------------------------------
(***************************************************************************)
(* Conversion between protobuf messages and Lua tables.  Every message     *)
(* that enters the VM goes through protobuf2lua_nostack and every message  *)
(* that leaves it through lua2protobuf_nostack.  Both walk the message     *)
(* without recursion: a C++ stack (cpp) holds one frame per message being  *)
(* converted, and the Lua stack (lua) holds the keys and tables on the way *)
(* to it.  The two stacks have to stay in step: lua_next takes its key     *)
(* from the top of the Lua stack, lua_settable its table from two below.   *)
(*                                                                         *)
(* One action is one turn of the while loop.  A scalar is a number of the  *)
(* range of its field's type; what is modelled of its type is how it looks *)
(* in Lua and which Lua values the field accepts.                          *)
(***************************************************************************)
EXTENDS Naturals, FiniteSets, Sequences, SequencesExt

CONSTANTS
    Schema,     \* message type -> its fields, in the order of the .proto file
    Root,       \* the type of the message converted
    Messages,   \* type -> the messages of it that come into the VM, and in those
    Tables,     \* type -> the tables Lua code hands over for it, and in those
    Orders,     \* orders in which lua_next may visit the names in a table
    Depth       \* bound: how deep the properties look into a message

\* A field; rep for a repeated one, type for the fields that are messages.
Kinds == {"number", "float", "long", "bool", "text", "message"}

IsArray(a) == Len(a) \in Nat /\ a = [i \in 1..Len(a) |-> a[i]]

ASSUME LuaProtoAssumption ==
    /\ Root \in DOMAIN Schema /\ Depth \in Nat
    /\ \A t \in DOMAIN Schema : IsArray(Schema[t])
    /\ \A t \in DOMAIN Schema : \A i \in DOMAIN Schema[t] :
         LET f == Schema[t][i] IN
         /\ f.kind \in Kinds
         /\ f.rep \in BOOLEAN
         /\ f.kind = "message" => f.type \in DOMAIN Schema
         /\ \A j \in DOMAIN Schema[t] : Schema[t][j].name = f.name => j = i

VARIABLES
    pc,      \* "toLua", "made", "toProto" or "done"
    source,  \* history: the message, or the table, that is converted
    order,   \* the order of lua_next
    lua,     \* the Lua stack, its top at the end
    cpp,     \* cpp_stack
    heap     \* the messages made by lua2protobuf_nostack; heap[1] is package

vars == <<pc, source, order, lua, cpp, heap>>

-----------------------------------------------------------------------------
(* Lua values *)

Value(k, n, s, a, h) == [kind |-> k, n |-> n, s |-> s, arr |-> a, hash |-> h]

Nil == Value("nil", 0, "", <<>>, <<>>)
Number(n) == Value("number", n, "", <<>>, <<>>)
Key(s) == Value("string", 0, s, <<>>, <<>>)

\* A table: its array part, and its values by name.
Table(a, h) == Value("table", 0, "", a, h)
IsTable(v) == v.kind = "table"

\* t[k] = v for a name, or for the index after the last.
With(t, k, v) ==
    IF k.kind = "number"
      THEN [t EXCEPT !.arr = Append(@, v)]
      ELSE [t EXCEPT !.hash = [s \in DOMAIN @ \cup {k.s} |-> IF s = k.s THEN v ELSE @[s]]]

\* lua_settable(L, -3)
SetTable(s) ==
    LET n == Len(s) IN
    [SubSeq(s, 1, n - 2) EXCEPT ![n - 2] = With(@, s[n - 1], s[n])]

\* The keys of a table, and which of them lua_next visits when: the array part
\* first, the names in the given order.
Keys(t) ==
    {Number(i) : i \in DOMAIN t.arr}
        \cup {Key(order[i]) : i \in {j \in DOMAIN order : order[j] \in DOMAIN t.hash}}

Rank(t, k) ==
    CASE k = Nil -> 0
      [] k.kind = "number" -> k.n
      [] k.kind = "string" -> Len(t.arr) + (CHOOSE i \in DOMAIN order : order[i] = k.s)

At(t, k) == IF k.kind = "number" THEN t.arr[k.n] ELSE t.hash[k.s]

\* lua_next accepts nil and the keys of the table.  Anything else is a Lua error,
\* which ends the process: there is no step.
MayNext(t, k) == IsTable(t) /\ (k = Nil \/ k \in Keys(t))

\* The key after k, Nil after the last.
KeysAfter(t, k) == {l \in Keys(t) : Rank(t, l) > Rank(t, k)}

NextKey(t, k) ==
    LET ahead == KeysAfter(t, k) IN
    IF ahead = {} THEN Nil
    ELSE CHOOSE l \in ahead : \A m \in ahead : Rank(t, l) <= Rank(t, m)

-----------------------------------------------------------------------------
(* Fields *)

\* What a scalar looks like in Lua: 64-bit integers do not fit a number.
Pushed(kind, n) ==
    CASE kind \in {"number", "float"} -> Number(n)
      [] kind = "long" -> Value("string", n, "", <<>>, <<>>)
      [] kind = "bool" -> Value("boolean", n, "", <<>>, <<>>)
      [] kind = "text" -> Value("string", n, "text", <<>>, <<>>)

\* lua_isnumber, for int32, uint32, float, double and enum fields.  Of the
\* strings, only those that read as a number: those with an empty s.
AcceptsNumber(v) == v.kind = "number" \/ (v.kind = "string" /\ v.s = "")

\* lua_isstring, for the two 64-bit types: a number counts as a string.
AcceptsLong(v) == v.kind \in {"number", "string"}

AcceptsBool(v) == v.kind = "boolean"

AcceptsText(v) == v.kind \in {"number", "string"}

Accepts(kind, v) ==
    CASE kind \in {"number", "float"} -> AcceptsNumber(v)
      [] kind = "long" -> AcceptsLong(v)
      [] kind = "bool" -> AcceptsBool(v)
      [] kind = "text" -> AcceptsText(v)

\* FindFieldByName
Fields(type, s) == {f \in {Schema[type][i] : i \in DOMAIN Schema[type]} : f.name = s}

\* An empty message: a scalar has its default, a message may be absent.
NewMessage(type) ==
    [s \in {Schema[type][i].name : i \in DOMAIN Schema[type]} |->
       LET f == CHOOSE f \in Fields(type, s) : TRUE
       IN IF f.rep \/ f.kind = "message" THEN <<>> ELSE <<0>>]

\* GetMessage returns the default instance for an absent one.
SubMessage(f, m) == IF m[f.name] = <<>> THEN NewMessage(f.type) ELSE m[f.name][1]

\* What is converted: with a message, or a table, those in it; an order has all
\* the names there are.
ASSUME MessagesAssumption ==
    \A t \in DOMAIN Schema : \A m \in Messages[t] : \A i \in DOMAIN Schema[t] :
        LET f == Schema[t][i] IN
        /\ IsArray(m[f.name])
        /\ ~f.rep /\ f.kind # "message" => Len(m[f.name]) = 1
        /\ ~f.rep /\ f.kind = "message" => SubMessage(f, m) \in Messages[f.type]
        /\ f.rep /\ f.kind = "message" =>
             \A j \in DOMAIN m[f.name] : m[f.name][j] \in Messages[f.type]

ASSUME TablesAssumption ==
    \A t \in DOMAIN Schema : \A u \in Tables[t] :
        /\ IsTable(u) /\ IsArray(u.arr)
        /\ \A i \in DOMAIN Schema[t] :
             LET f == Schema[t][i]
                 v == u.hash[f.name]
             IN f.name \in DOMAIN u.hash /\ IsTable(v) =>
                  /\ IsArray(v.arr)
                  /\ f.kind = "message" /\ ~f.rep => v \in Tables[f.type]
                  /\ f.kind = "message" /\ f.rep =>
                       \A j \in DOMAIN v.arr : IsTable(v.arr[j]) => v.arr[j] \in Tables[f.type]

ASSUME OrdersAssumption ==
    \A o \in Orders :
        /\ IsArray(o)
        /\ \A t \in DOMAIN Schema :
             /\ \A i \in DOMAIN Schema[t] : Schema[t][i].name \in {o[j] : j \in DOMAIN o}
             /\ \A u \in Tables[t] : DOMAIN u.hash \subseteq {o[j] : j \in DOMAIN o}

\* The arrays of messages that Lua code builds have tables at the beginning.
ArraysBeginWithTables ==
    \A t \in DOMAIN Schema : \A u \in Tables[t] : \A i \in DOMAIN Schema[t] :
        LET f == Schema[t][i]
            v == u.hash[f.name]
            given == f.name \in DOMAIN u.hash /\ IsTable(v)
        IN f.kind = "message" /\ f.rep /\ given /\ v.arr # <<>> => IsTable(v.arr[1])

-----------------------------------------------------------------------------
(* Both stacks at the start *)

\* Whatever the caller of protobuf2lua_nostack has on the stack already.
Below == Key("below")

OutFrame(type, m, settable) ==
    [type |-> type, msg |-> m, next |-> 1, settable |-> settable, loop |-> 0]

\* (faulty variant: the array is never popped)
InFrameKeepsArray(type, obj, idx, pops) ==
    [type |-> type, obj |-> obj, idx |-> idx, first |-> TRUE,
     pops |-> IF pops = 2 THEN 1 ELSE pops]

InFrame(type, obj, idx, pops) ==
    [type |-> type, obj |-> obj, idx |-> idx, first |-> TRUE, pops |-> pops]

\* lua2protobuf_nostack is called with the table alone on the stack.
StartIn(t) ==
    /\ lua = <<t>>
    /\ cpp = <<InFrame(Root, 1, 1, 0)>>
    /\ heap = <<NewMessage(Root)>>

Init ==
    /\ order \in Orders
    /\ \/ /\ pc = "toLua"
          /\ source \in Messages[Root]
          /\ lua = <<Below, Table(<<>>, <<>>)>>
          /\ cpp = <<OutFrame(Root, source, FALSE)>>
          /\ heap = <<>>
       \/ /\ pc = "toProto"
          /\ source \in Tables[Root]
          /\ StartIn(source)

Frame == Last(cpp)

\* cpp_stack with its top frame replaced
Becomes(f) == Append(Front(cpp), f)

-----------------------------------------------------------------------------
(* protobuf2lua_nostack *)

OutMore == pc = "toLua" /\ Frame.next <= Len(Schema[Frame.type])

OutField == Schema[Frame.type][Frame.next]

\* The key of a field is pushed when the field is met for the first time.
Named == IF Frame.loop = 0 THEN Append(lua, Key(OutField.name)) ELSE lua

\* (faulty variants: the loop index is kept; the field is not left)
AdvancedKeepsLoop == [Frame EXCEPT !.next = @ + 1]
AdvancedStays == [Frame EXCEPT !.loop = 0]

Advanced == [Frame EXCEPT !.next = @ + 1, !.loop = 0]

\* All fields are done: the table goes into the one that waits for it.
OutPops ==
    /\ pc = "toLua"
    /\ Frame.next > Len(Schema[Frame.type])
    /\ lua' = IF Frame.settable THEN SetTable(lua) ELSE lua
    /\ cpp' = Front(cpp)
    /\ pc' = IF cpp' = <<>> THEN "made" ELSE pc
    /\ UNCHANGED <<source, order, heap>>

OutScalar ==
    /\ OutMore
    /\ ~OutField.rep
    /\ OutField.kind # "message"
    /\ lua' = SetTable(Append(Named,
                 Pushed(OutField.kind, Frame.msg[OutField.name][1])))
    /\ cpp' = Becomes(Advanced)
    /\ UNCHANGED <<pc, source, order, heap>>

OutMessage ==
    /\ OutMore
    /\ ~OutField.rep
    /\ OutField.kind = "message"
    /\ lua' = Append(Named, Table(<<>>, <<>>))
    /\ cpp' = Append(Becomes(Advanced),
                OutFrame(OutField.type, SubMessage(OutField, Frame.msg), TRUE))
    /\ UNCHANGED <<pc, source, order, heap>>

\* The table of a repeated field, made when the field is met.
Opened == IF Frame.loop = 0 THEN Append(Named, Table(<<>>, <<>>)) ELSE lua

Items == Frame.msg[OutField.name]

\* Of the cases for repeated scalars, that of float does not advance the loop
\* index: its turn never ends, and there is no step.
OutScalars ==
    /\ OutMore
    /\ OutField.rep
    /\ OutField.kind # "message"
    /\ OutField.kind = "float" => Items = <<>>
    /\ lua' = SetTable([Opened EXCEPT ![Len(Opened)].arr =
                 [i \in DOMAIN Items |-> Pushed(OutField.kind, Items[i])]])
    /\ cpp' = Becomes(Advanced)
    /\ UNCHANGED <<pc, source, order, heap>>

\* A repeated message: the turn ends with the frame of the next element, and
\* the field is met again when that frame has gone.
OutNextItem ==
    /\ OutMore
    /\ OutField.rep
    /\ OutField.kind = "message"
    /\ Frame.loop < Len(Items)
    /\ lua' = Opened \o <<Number(Frame.loop + 1), Table(<<>>, <<>>)>>
    /\ cpp' = Append(Becomes([Frame EXCEPT !.loop = @ + 1]),
                OutFrame(OutField.type, Items[Frame.loop + 1], TRUE))
    /\ UNCHANGED <<pc, source, order, heap>>

OutItemsDone ==
    /\ OutMore
    /\ OutField.rep
    /\ OutField.kind = "message"
    /\ Frame.loop >= Len(Items)
    /\ lua' = SetTable(Opened)
    /\ cpp' = Becomes(Advanced)
    /\ UNCHANGED <<pc, source, order, heap>>

\* Lua code hands over the table it was given, as the example handler does.
HandsOver ==
    /\ pc = "made"
    /\ pc' = "toProto"
    /\ lua' = <<Last(lua)>>
    /\ cpp' = <<InFrame(Root, 1, 1, 0)>>
    /\ heap' = <<NewMessage(Root)>>
    /\ UNCHANGED <<source, order>>

-----------------------------------------------------------------------------
(* lua2protobuf_nostack *)

\* The stack when lua_next is called: a frame begins with the key nil.
Asked == IF Frame.first THEN Append(lua, Nil) ELSE lua

InTable == Asked[Frame.idx]

InSafe == pc = "toProto" /\ MayNext(InTable, Last(Asked))

InKey == NextKey(InTable, Last(Asked))

\* lua_next has found a key: it replaces the last one, its value is on top.
InMore == InSafe /\ InKey # Nil

InValue == At(InTable, InKey)

\* The field of this name; an index of the array part is the name of none.
InFields == IF InKey.kind = "number" THEN {} ELSE Fields(Frame.type, InKey.s)

InField == CHOOSE f \in InFields : TRUE

\* The key is a field's and the field accepts the value.
InFits ==
    /\ InFields # {}
    /\ IF InField.rep \/ InField.kind = "message"
         THEN IsTable(InValue)
         ELSE Accepts(InField.kind, InValue)

\* The Lua stack with the key, and with key and value.
KeyLeft == Append(Front(Asked), InKey)
Found == Append(KeyLeft, InValue)

Begun == [Frame EXCEPT !.first = FALSE]

\* (faulty variant: the value of an unknown key stays on the stack)
InSkipsKeepsValue ==
    /\ InMore
    /\ ~InFits
    /\ lua' = IF InFields = {} THEN Found ELSE KeyLeft
    /\ cpp' = Becomes(Begun)
    /\ UNCHANGED <<pc, source, order, heap>>

\* No such field, or a value the field does not accept.
InSkips ==
    /\ InMore
    /\ ~InFits
    /\ lua' = KeyLeft
    /\ cpp' = Becomes(Begun)
    /\ UNCHANGED <<pc, source, order, heap>>

SetField(s) == heap' = [heap EXCEPT ![Frame.obj][InField.name] = s]

InScalar ==
    /\ InMore
    /\ InFits
    /\ ~InField.rep
    /\ InField.kind # "message"
    /\ SetField(<<InValue.n>>)
    /\ lua' = KeyLeft
    /\ cpp' = Becomes(Begun)
    /\ UNCHANGED <<pc, source, order>>

\* The places of an array whose elements pass a test, in order.
InOrder(at) ==
    [k \in 1..Cardinality(at) |->
        CHOOSE i \in at : Cardinality({j \in at : j <= i}) = k]

\* Elements of the wrong type are left out.
Accepted(kind, arr) ==
    LET good == InOrder({i \in DOMAIN arr : Accepts(kind, arr[i])})
    IN [k \in DOMAIN good |-> arr[good[k]].n]

InScalars ==
    /\ InMore
    /\ InFits
    /\ InField.rep
    /\ InField.kind # "message"
    /\ SetField(Accepted(InField.kind, InValue.arr))
    /\ lua' = KeyLeft
    /\ cpp' = Becomes(Begun)
    /\ UNCHANGED <<pc, source, order>>

\* MutableMessage: the key and the table stay until the new frame is done.
InMessage ==
    /\ InMore
    /\ InFits
    /\ ~InField.rep
    /\ InField.kind = "message"
    /\ heap' = Append([heap EXCEPT ![Frame.obj][InField.name] = <<Len(heap) + 1>>],
                      NewMessage(InField.type))
    /\ lua' = Found
    /\ cpp' = Append(Becomes(Begun),
                InFrame(InField.type, Len(heap) + 1, Len(Found), 1))
    /\ UNCHANGED <<pc, source, order>>

\* (faulty variant: the messages are added as their frames are done, from the
\* last element to the first)
InMessagesBackwards ==
    LET n == Len(InValue.arr) IN
    /\ InMore
    /\ InFits
    /\ InField.rep
    /\ InField.kind = "message"
    /\ heap' = [heap EXCEPT ![Frame.obj][InField.name] =
                  [i \in 1 .. n |-> Len(heap) + n + 1 - i]]
               \o [i \in 1 .. n |-> NewMessage(InField.type)]
    /\ lua' = IF n = 0 THEN KeyLeft ELSE Found \o InValue.arr
    /\ cpp' = Becomes(Begun)
              \o [i \in 1 .. n |->
                    InFrame(InField.type, Len(heap) + i, Len(Found) + i,
                            IF i = 1 THEN 2 ELSE 1)]
    /\ UNCHANGED <<pc, source, order>>

TablesIn(arr) == InOrder({i \in DOMAIN arr : IsTable(arr[i])})

\* A repeated message pushes all its elements and a frame for each; the frame
\* of the first element, which is the last to be done, also pops the array.
InMessages ==
    LET good == TablesIn(InValue.arr) IN
    /\ InMore
    /\ InFits
    /\ InField.rep
    /\ InField.kind = "message"
    /\ heap' = [heap EXCEPT ![Frame.obj][InField.name] =
                  [i \in DOMAIN good |-> Len(heap) + i]]
               \o [i \in DOMAIN good |-> NewMessage(InField.type)]
    /\ lua' = IF InValue.arr = <<>> THEN KeyLeft
              ELSE Found \o [i \in DOMAIN good |-> InValue.arr[good[i]]]
    /\ cpp' = Becomes(Begun)
              \o [i \in DOMAIN good |->
                    InFrame(InField.type, Len(heap) + i, Len(Found) + i,
                            IF good[i] = 1 THEN 2 ELSE 1)]
    /\ UNCHANGED <<pc, source, order>>

\* lua_next has no more keys: it has popped the last one, and the frame pops
\* what it was made for.
InPops ==
    /\ InSafe
    /\ InKey = Nil
    /\ lua' = SubSeq(Asked, 1, Len(Asked) - 1 - Frame.pops)
    /\ cpp' = Front(cpp)
    /\ pc' = IF cpp' = <<>> THEN "done" ELSE pc
    /\ UNCHANGED <<source, order, heap>>

Protobuf2Lua ==
    OutPops \/ OutScalar \/ OutMessage \/ OutScalars \/ OutNextItem \/ OutItemsDone

Lua2Protobuf ==
    InSkips \/ InScalar \/ InScalars \/ InMessage \/ InMessages \/ InPops

Next == Protobuf2Lua \/ HandsOver \/ Lua2Protobuf

Spec == Init /\ [][Next]_vars

FairSpec == Spec /\ WF_vars(Next)

-----------------------------------------------------------------------------
(* What the conversions are to compute *)

Names(type) == {Schema[type][i].name : i \in DOMAIN Schema[type]}

\* The table of a message, but for what is in its messages: all the fields,
\* each with its value, and absent messages as empty ones.
IsTableOf(type, m, t) ==
    /\ IsTable(t) /\ t.arr = <<>> /\ DOMAIN t.hash = Names(type)
    /\ \A i \in DOMAIN Schema[type] :
         LET f == Schema[type][i]
             v == t.hash[f.name]
         IN CASE f.kind = "message" /\ f.rep ->
                   v = Table(v.arr, <<>>) /\ DOMAIN v.arr = DOMAIN m[f.name]
              [] f.kind = "message" /\ ~f.rep -> IsTable(v)
              [] f.kind # "message" /\ f.rep ->
                   v = Table([j \in DOMAIN m[f.name] |-> Pushed(f.kind, m[f.name][j])], <<>>)
              [] OTHER -> v = Pushed(f.kind, m[f.name][1])

\* The messages in a message, each with the table in its place in a table.
PartsToLua(type, m, t) ==
    UNION {LET f == Schema[type][i] IN
           IF f.kind # "message" \/ f.name \notin DOMAIN t.hash THEN {}
           ELSE IF f.rep
             THEN {<<f.type, m[f.name][j], t.hash[f.name].arr[j]>> :
                     j \in DOMAIN m[f.name] \cap DOMAIN t.hash[f.name].arr}
             ELSE {<<f.type, SubMessage(f, m), t.hash[f.name]>>} :
           i \in DOMAIN Schema[type]}

\* The same at every depth.
ToLua[n \in Nat] ==
    IF n = 0 THEN {<<Root, source, lua[2]>>}
    ELSE UNION {PartsToLua(q[1], q[2], q[3]) : q \in ToLua[n - 1]}

\* The message of a table, but for what is in its messages: what fits its
\* field, defaults for the rest.
Given(t, f) == IF f.name \in DOMAIN t.hash THEN t.hash[f.name] ELSE Nil

Elements(v) == IF IsTable(v) THEN v.arr ELSE <<>>

IsMessageOf(type, o, t) ==
    /\ o \in DOMAIN heap /\ DOMAIN heap[o] = Names(type)
    /\ \A i \in DOMAIN Schema[type] :
         LET f == Schema[type][i]
             v == Given(t, f)
             got == heap[o][f.name]
         IN CASE f.kind = "message" /\ f.rep -> DOMAIN got = DOMAIN TablesIn(Elements(v))
              [] f.kind = "message" /\ ~f.rep -> DOMAIN got = IF IsTable(v) THEN {1} ELSE {}
              [] f.kind # "message" /\ f.rep -> got = Accepted(f.kind, Elements(v))
              [] OTHER -> got = IF Accepts(f.kind, v) THEN <<v.n>> ELSE <<0>>

PartsToProto(type, o, t) ==
    UNION {LET f == Schema[type][i]
               v == Given(t, f)
               got == heap[o][f.name]
           IN IF f.kind # "message" THEN {}
              ELSE IF f.rep
                THEN {<<f.type, got[j], v.arr[TablesIn(v.arr)[j]]>> :
                        j \in DOMAIN got \cap DOMAIN TablesIn(Elements(v))}
                ELSE {<<f.type, got[j], v>> : j \in DOMAIN got} :
           i \in DOMAIN Schema[type]}

ToProto[n \in Nat] ==
    IF n = 0 THEN {<<Root, 1, lua[1]>>}
    ELSE UNION {PartsToProto(q[1], q[2], q[3]) : q \in ToProto[n - 1]}

-----------------------------------------------------------------------------
(* Properties *)

\* protobuf2lua_nostack leaves exactly one value on the Lua stack, the table
\* of the whole message, and what was there before is untouched
\* (the assertion after each of its calls).
TableIsMade ==
    pc = "made" =>
        /\ Len(lua) = 2 /\ lua[1] = Below
        /\ \A n \in 0..Depth : \A q \in ToLua[n] : IsTableOf(q[1], q[2], q[3])

\* Each frame of lua2protobuf_nostack stands for a table that is still at its
\* place when the frames above it are gone, and the frames have on the Lua
\* stack exactly what they will pop: a frame made for a field its table (and,
\* in the last frame of an array, the array), the frame that is being walked
\* its key besides.
Top(f) == IF f.first THEN f.idx ELSE f.idx + 1

StacksInStep ==
    pc = "toProto" =>
        /\ cpp[1].idx = 1 /\ cpp[1].pops = 0 /\ Len(lua) = Top(Frame)
        /\ \A i \in 2..Len(cpp) : cpp[i].idx = Top(cpp[i - 1]) + cpp[i].pops
        /\ \A i \in DOMAIN cpp : IsTable(lua[cpp[i].idx])

\* lua_next is never called with a key of another table, so the walk of a
\* table does not raise an error in the middle of a message.
NoLuaError == pc = "toProto" => MayNext(InTable, Last(Asked))

\* The message has all of the table that fits it, in whatever order the keys
\* were visited, and the Lua stack is after lua2protobuf_nostack what it was
\* before (the assertion in Lua2Protobuf, whose comment says it must be
\* balanced).
WholeMessage == \A n \in 0..Depth : \A q \in ToProto[n] : IsMessageOf(q[1], q[2], q[3])

MessageIsMade == pc = "done" => Len(lua) = 1 /\ WholeMessage

\* Every conversion comes to an end.
Terminates == <>(pc = "done")

\* What the log lines of lua2protobuf_nostack say of a value that does not
\* fit: it is given up, and the rest of the table is converted.
BadValuesAreSkipped == NoLuaError /\ (pc = "done" => WholeMessage)

=============================================================================
