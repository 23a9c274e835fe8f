SPECIFICATION Spec
CONSTANTS
    BlockSize = 3
    Base = 4
    CleanupEvery = 2
    KeepBlocks = 0
    MaxCounter = 6
INVARIANTS
    LostOnesAreRecovered
CHECK_DEADLOCK FALSE
