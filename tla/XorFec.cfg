SPECIFICATION Spec
CONSTANTS
    BlockSize = 3
    Base = 4
    CleanupEvery = 2
    KeepBlocks = 0
    MaxCounter = 8
INVARIANTS
    TypeOK
    OneLossIsRepaired
    WithheldOnlyOnRecovery
PROPERTIES
    RecoveryIsExact
CHECK_DEADLOCK FALSE
