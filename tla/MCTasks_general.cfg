\* Every condition at once: parents that end before their children, tasks that
\* wait on the disk, allocations that fail, pids without a task.
SPECIFICATION Spec
CONSTANTS
    MaxTasks = 5
    Capacity = 3
    NShells = 2
    Payloads = {1}
    IpcMax = 1
    Workload = {"disk", "orphans", "low_memory", "bad_pids"}
INVARIANTS
    TypeOK
    ScanSeesEveryTask
    ScanStaysInTable
    TicksOnOutsideSyscalls
    RunningTaskIsActive
    NoLostIpcWakeup
    BlockedParentHasChild
PROPERTY
    OthersOnlyWoken
\* An undefined kernel stops.
CHECK_DEADLOCK FALSE
