SPECIFICATION FairSpec
CONSTANTS
    InitialMax <- MixedMax
    ServerSetupMax = 4
    Kinds = {"SUBSCRIBE", "FETCH"}
    MaxID = 7
INVARIANTS
    TypeOK
    SetupComesFirst
    GrantIsHonoured
    GrantsOnlyGrow
    NoStarvation
PROPERTIES
    BlockedEventuallyFreed
CHECK_DEADLOCK FALSE
