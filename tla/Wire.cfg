SPECIFICATION Spec
CONSTANTS
    Numbers = {0, 63, 64, 16384}
    MaxBody = 310
    MaxItems = 2
    Messages <- AllMessages
    Followers <- Following
    Cuts = {0, 1, 2, 3, 5, 7, 10, 15, 20, 40, 70}
    Headers <- SomeHeaders
    Requests = {0, 64}
    ObjectIDs = {0, 64}
    Payloads <- SomePayloads
INVARIANTS
    TypeOK
    ReceivedIsSent
    ErrorsComeFromOutside
    NeverHalfRead
CHECK_DEADLOCK FALSE
