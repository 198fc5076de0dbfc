-------------------------------- MODULE Bag --------------------------------
(***************************************************************************)
(* The bag of a player: a list of items, each with its number, kept in the *)
(* player's record (PlayerCmptBagLogic.lua).  The operators return the bag *)
(* a method of the component leaves behind.                                *)
(***************************************************************************)
EXTENDS Integers, Sequences

CONSTANTS
    INT32_MAX,  \* largest value of the protobuf field "number"
    TickGain,   \* what a tick tries to add of item 1: 100
    TickLoss    \* what a tick then tries to take of it: 99

ASSUME BagAssumption ==
    /\ INT32_MAX \in Nat
    /\ TickGain \in Nat
    /\ TickLoss \in Nat

BagItems == [itemID : Int, number : Int]

\* Where the list has the item; several places if the list is corrupt.
Places(bag, itemID) == {k \in DOMAIN bag : bag[k].itemID = itemID}

\* The index of the first entry of the item, 0 for Lua's nil.
FindDbBagItemByItemID(bag, itemID) ==
    LET at == Places(bag, itemID)
    IN  IF at = {} THEN 0 ELSE CHOOSE k \in at : \A j \in at : k <= j

GetItemCountByItemID(bag, itemID) ==
    LET k == FindDbBagItemByItemID(bag, itemID)
    IN  IF k = 0 THEN 0 ELSE bag[k].number

\* (faulty variant: the limit of the field is not looked at)
TestAddUnlimited(bag, itemID, count) == count > 0

TestAddItemByItemID(bag, itemID, count) ==
    /\ count > 0
    /\ GetItemCountByItemID(bag, itemID) <= INT32_MAX - count

AddItemByItemID(bag, itemID, count) ==
    LET k == FindDbBagItemByItemID(bag, itemID) IN
    IF ~TestAddItemByItemID(bag, itemID, count) THEN bag
    ELSE IF k = 0 THEN Append(bag, [itemID |-> itemID, number |-> count])
    ELSE [bag EXCEPT ![k].number = @ + count]

TestSubItemByItemID(bag, itemID, count) ==
    /\ count > 0
    /\ GetItemCountByItemID(bag, itemID) >= count

\* table.remove of the last entry of the item
RemoveItem(bag, itemID) ==
    LET at == Places(bag, itemID)
        k  == CHOOSE i \in at : \A j \in at : j <= i
    IN  [i \in 1..(Len(bag) - 1) |-> IF i < k THEN bag[i] ELSE bag[i + 1]]

\* An item whose number falls to 0 leaves the list.
SubItemByItemID(bag, itemID, count) ==
    LET k    == FindDbBagItemByItemID(bag, itemID)
        left == [bag EXCEPT ![k].number = @ - count]
    IN  IF count <= 0 \/ k = 0 \/ bag[k].number < count THEN bag
        ELSE IF left[k].number = 0 THEN RemoveItem(left, itemID)
        ELSE left

\* PlayerCmptBag:OnTick
BagOnTick(bag) ==
    LET b == IF TestAddItemByItemID(bag, 1, TickGain)
               THEN AddItemByItemID(bag, 1, TickGain)
               ELSE SubItemByItemID(bag, 1, 1)
    IN  IF TestSubItemByItemID(b, 1, TickLoss)
          THEN SubItemByItemID(b, 1, TickLoss)
          ELSE b

\* A bag the database can store and the component can read back: no item
\* twice, no empty entry, every number within the field.
SaneBag(bag) ==
    /\ bag \in Seq([itemID : Int, number : 1..INT32_MAX])
    /\ \A j, k \in DOMAIN bag : bag[j].itemID = bag[k].itemID => j = k
=============================================================================
