SPECIFICATION DataSpec
CONSTANTS
    r1 = r1
    r2 = r2
    Requests <- TwoRequests
    Namespaces = {"valid"}
    MaxObjects = 2
    MaxStreams = 2
    BufferCap = 1
SYMMETRY Symmetry
CONSTRAINTS DataOnly OneOrSmall
INVARIANTS
    DataTypeOK
    NoMisrouting
    StreamOrder
    OnlyOverflowDrops
    StreamCountIsClose
PROPERTIES
    UnknownOnlyWithReason
CHECK_DEADLOCK FALSE
