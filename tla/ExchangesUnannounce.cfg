SPECIFICATION FetchSpec
CONSTANTS
    Requests <- TwoIDs
    Namespaces = {"n1"}
    Plans <- TwoAnnouncements
    MaxWithdraws = 1
    MaxStreams = 0
    MaxObjects = 0
    BufferCap = 1
INVARIANTS
    UnknownMeansNotAnnounced
CHECK_DEADLOCK FALSE
