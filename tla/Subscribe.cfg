SPECIFICATION FairSpec
CONSTANTS
    r1 = r1
    r2 = r2
    Requests <- TwoRequests
    Namespaces = {"valid", "invalid"}
INVARIANTS
    TypeOK
    AtMostOneAnswer
    Agreement
    UnknownOnlyAfterClose
    DoneAfterOk
    EntriesHaveOwners
PROPERTIES
    ImplementsContract
    CallsReturn
    UnsubscribeTakesEffect
    DoneIsSeen
CHECK_DEADLOCK FALSE
