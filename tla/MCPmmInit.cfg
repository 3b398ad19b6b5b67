SPECIFICATION Spec
CONSTANTS
    PageSize = 2
    ByteBits = 2
    WordSize = 32
    MaxEntries = 3
    MaxPages = 7
INVARIANTS
    OnlyUsableFreed
    NothingLost
PROPERTY Ends
CHECK_DEADLOCK FALSE
