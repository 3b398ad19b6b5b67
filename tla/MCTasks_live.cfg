\* Liveness: nothing the kernel leaves undefined is in the workload.
SPECIFICATION Spec
CONSTANTS
    MaxTasks = 5
    Capacity = 3
    NShells = 2
    Payloads = {1}
    IpcMax = 1
    Workload = {}
INVARIANT
    SavedContextIsUser
PROPERTIES
    SchedulerSettles
    NoStarvation
