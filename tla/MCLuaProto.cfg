SPECIFICATION FairSpec
CONSTANTS
    Schema <- MCSchema
    Root = "Record"
    Messages <- MCMessages
    Tables <- MCTables
    Orders <- MCOrders
    Depth = 2
INVARIANTS
    TableIsMade
    StacksInStep
    NoLuaError
    MessageIsMade
PROPERTY
    Terminates
CHECK_DEADLOCK FALSE
