SPECIFICATION PathsSpec
CONSTANTS
    Letters = {".", "a"}
    Inputs <- MCInputs
    MountNames <- MCMountNames
    Dirs <- MCDirs
    Pwds <- MCDirs
    MaxInput = 4
    MaxMounts = 1
    BufSize = 14
    Stale = TRUE
INVARIANTS
    ResolvedRight
