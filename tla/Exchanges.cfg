SPECIFICATION FetchSpec
CONSTANTS
    Requests <- TwoIDs
    Namespaces = {"n1", "n2", "invalid"}
    Plans <- MixedPlans
    MaxWithdraws = 2
    MaxStreams = 1
    MaxObjects = 2
    BufferCap = 1
INVARIANTS
    TypeOK
    ReturnsTheDecision
    AnnouncedWasAccepted
    UnknownOnlyAfterWithdrawal
    StatusWasAskedFor
    FetchTypeOK
    IgnoredOnlyAfterFailure
CHECK_DEADLOCK FALSE
PROPERTIES
    ExchangesReturn
    FetchedIsRead
