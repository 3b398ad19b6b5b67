SPECIFICATION PartSpec
CONSTANTS
    d1 = d1
    d2 = d2
    Drives = {d1, d2}
    Sectors <- MCSectors
    CACHE_SECTS = 2
    Bytes = {0, 1}
    Disk0 = d1
    Kinds = {"gpt", "gpt_revision", "mbr"}
    Slots = {0, 1, 2}
    First <- MCFirst
    Count <- MCCount
    Garbage = {0, 1}
    SeekLimit = 4
    SIZE_T = 4
    RawWrites = FALSE
    RawBytes = {0}
    FollowTorn = FALSE
INVARIANTS
    TagsDescribeCache
PROPERTIES
    ImplementsDisk
    PartitionsAreDisks
    ScanEnds
CHECK_DEADLOCK FALSE
