SPECIFICATION Spec
CONSTANTS
    Schema <- MCSchema
    Root = "Record"
    Messages <- MCNone
    Tables <- MCBadTables
    Orders <- MCOrders
    Depth = 2
INVARIANT
    BadValuesAreSkipped
CHECK_DEADLOCK FALSE
