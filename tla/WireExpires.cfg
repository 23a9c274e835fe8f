SPECIFICATION Spec
CONSTANTS
    Numbers = {0}
    MaxBody = 310
    MaxItems = 2
    Messages <- OkMessages
    Followers <- OkMessages
    Cuts = {}
    Headers <- SomeHeaders
    Requests = {0}
    ObjectIDs = {0}
    Payloads <- SomePayloads
INVARIANTS
    ExpiryIsKept
CHECK_DEADLOCK FALSE
