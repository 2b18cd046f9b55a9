\* One connection of each kind, up to two pieces of data each way.
SPECIFICATION Spec
CONSTANTS
    Kinds = {"tcp", "dns"}
    MaxData = 2
    HighWater = 1
    Mishaps = {"carrier", "stop"}
INVARIANTS
    TypeOK
    Whole
PROPERTIES
    LeaveTogether
    QueryEnds
\* A connection comes to its end.
CHECK_DEADLOCK FALSE
