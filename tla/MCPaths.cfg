SPECIFICATION PathsSpec
CONSTANTS
    Letters = {".", "a"}
    Inputs <- MCInputs
    MountNames <- MCMountNames
    Dirs <- MCDirs
    Pwds <- MCPwds
    MaxInput = 6
    MaxMounts = 2
    BufSize = 14
    Stale = FALSE
INVARIANTS
    PathsTypeOK
    ResolvedRight
    MountRight
PROPERTY
    ResolutionEnds
CHECK_DEADLOCK FALSE
