SPECIFICATION Spec
CONSTANTS
    InitialMax <- TenMax
    ServerSetupMax = 100
    Kinds = {"SUBSCRIBE"}
    MaxID = 12
INVARIANTS
    GrantIsHonoured
CHECK_DEADLOCK FALSE
