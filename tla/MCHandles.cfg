SPECIFICATION Spec
CONSTANTS
    MaxTasks = 2
    MaxHandles = 2
    MaxInternal = 4
    StdStreams = 1
    StaleCloses = FALSE
INVARIANTS
    HandlesPrivate
\* A loop that needs a handle beyond the bound stops.
CHECK_DEADLOCK FALSE
