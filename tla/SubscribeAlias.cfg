SPECIFICATION Spec
CONSTANTS
    r1 = r1
    r2 = r2
    Requests <- TwoRequests
    Namespaces = {"valid"}
INVARIANTS
    NoDuplicateTrackAlias
CHECK_DEADLOCK FALSE
