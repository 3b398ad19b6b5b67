SPECIFICATION Spec
CONSTANTS
    FilePaths <- MCFilePaths
    DirPaths <- MCDirPaths
    NBlocks = 3
    Reserved = 1
    DirSize = 3
    BYTES_PER_BLOCK = 2
    Bytes = {0, 1}
    Payloads = {1}
    MaxOpen = 1
    MaxHandles = 2
    MaxSize = 3
    Lens = {2}
    InitSizes = {3}
    BadPaths = FALSE
    Gaps = FALSE
INVARIANTS
    ChainsSound
    CachedFilesTrue
    TreeSound
    FilesReadBack
\* The kernel may come to a bad end.
CHECK_DEADLOCK FALSE
