SPECIFICATION Spec
CONSTANTS
    r1 = r1
    r2 = r2
    Requests <- OneRequest
    Namespaces = {"valid"}
INVARIANTS
    UnhandledAnswerIsDropped
CHECK_DEADLOCK FALSE
