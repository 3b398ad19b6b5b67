---------------------------- MODULE TasksProofs ----------------------------
(***************************************************************************)
(* What Tasks guarantees for every size of the table, every amount of      *)
(* memory and every workload.                                              *)
(***************************************************************************)
EXTENDS Tasks, FiniteSetTheorems, TLAPS

(***************************************************************************)
(* The inductive invariant, in parts.                                      *)
(***************************************************************************)

\* NULL slots are a suffix of the table that starts at Capacity + 1 at the
\* latest.
TableInv ==
    /\ \A p, q \in Pids : p < q /\ task_table[q] # NULL => task_table[p] # NULL
    /\ \A p \in Pids : p > Capacity => task_table[p] = NULL
    /\ Cardinality(LiveTasks) <= Capacity

\* The scan has not passed the first NULL slot.
ScanInv == \A p \in Pids : p < current_task => task_table[p] # NULL

\* What each mode says about the current task and the interrupt state; the
\* kernel's own task is there and never runs.
ModeInv ==
    /\ TicksOnOutsideSyscalls
    /\ RunningTaskIsActive
    /\ mode = "retry" => Live(current_task) /\ status[current_task] = IOWAIT
    /\ mode = "idle" => current_task = 0
    /\ Live(0) /\ status[0] = RES

\* Interrupts stay off in the scheduler when no retry reaches the disk.
ContextInv ==
    "disk" \notin Workload =>
        /\ mode \in {"sched", "retry"} => ~int_flag
        /\ SavedContextIsUser

IndInv ==
    /\ TypeOK
    /\ TableInv
    /\ ScanInv
    /\ ModeInv
    /\ NoLostIpcWakeup
    /\ BlockedParentHasChild
    /\ ContextInv

(***************************************************************************)
(* The table.                                                              *)
(***************************************************************************)

\* The set of live tasks is finite, so its cardinality is a number.
LEMMA LiveTasksFinite ==
    /\ IsFiniteSet(LiveTasks)
    /\ Cardinality(LiveTasks) \in Nat
<1>1. IsFiniteSet(Pids)
  BY FS_Interval, TasksAssumption DEF Pids
<1>2. LiveTasks \in SUBSET Pids
  BY DEF LiveTasks
<1> QED
  BY <1>1, <1>2, FS_Subset, FS_CardinalityType

\* task_create takes a slot below the number of live tasks: every slot under
\* it is live.
LEMMA NewPidBound ==
    ASSUME NEW new \in Pids, IsNewPid(new)
    PROVE  new <= Cardinality(LiveTasks)
<1> USE TasksAssumption
<1>1. 0 .. (new - 1) \in SUBSET LiveTasks
  BY DEF IsNewPid, LiveTasks, Pids
<1>2. Cardinality(0 .. (new - 1)) <= Cardinality(LiveTasks)
  BY <1>1, LiveTasksFinite, FS_Subset
<1>3. Cardinality(0 .. (new - 1)) = new
  BY FS_Interval DEF Pids
<1> QED
  BY <1>2, <1>3

\* A step that leaves the table alone leaves its shape alone.
LEMMA TableKept ==
    ASSUME TableInv, UNCHANGED task_table
    PROVE  TableInv'
  BY DEF TableInv, LiveTasks, Live

\* The first NULL slot is in the table, at Capacity + 1 or below, so a scan
\* that has not passed it is in the table too.
LEMMA ScanInTable ==
    ASSUME TypeOK, TableInv, ScanInv
    PROVE  current_task \in Pids
  BY TasksAssumption DEF TypeOK, TableInv, ScanInv, Pids

\* A task created by task_create fills the lowest free slot.
LEMMA TableCreated ==
    ASSUME TypeOK, TableInv, NEW new \in Pids, TaskCreate(new)
    PROVE  TableInv'
<1> USE TasksAssumption
<1>1. new < Capacity
  BY NewPidBound, LiveTasksFinite DEF TaskCreate, RoomForTask, Pids
<1>2. LiveTasks' = LiveTasks \cup {new}
  BY DEF TaskCreate, LiveTasks, Live, TypeOK
<1>3. Cardinality(LiveTasks \cup {new}) <= Capacity
  <2>1. new \notin LiveTasks /\ Cardinality(LiveTasks) < Capacity
    BY DEF TaskCreate, RoomForTask, IsNewPid, LiveTasks
  <2>2. Cardinality(LiveTasks \cup {new}) = Cardinality(LiveTasks) + 1
    BY <2>1, LiveTasksFinite, FS_AddElement
  <2> QED
    BY <2>1, <2>2, LiveTasksFinite
<1>4. \A p \in Pids : p < new => task_table[p] = TASK
  BY DEF TaskCreate, IsNewPid, Live
<1>5. \A p, q \in Pids : p < q /\ task_table'[q] # NULL => task_table'[p] # NULL
  BY <1>4 DEF TaskCreate, TableInv, TypeOK, NULL, TASK, Pids
<1>6. ASSUME NEW p \in Pids, p > Capacity PROVE task_table'[p] = NULL
  <2>1. p # new
    BY <1>1, <1>6 DEF Pids
  <2>2. task_table'[p] = task_table[p]
    BY <2>1 DEF TaskCreate, TypeOK
  <2> QED
    BY <1>6, <2>2 DEF TableInv
<1> QED
  BY <1>2, <1>3, <1>5, <1>6 DEF TableInv

\* A creation that fails marks at most the lowest free slot.
LEMMA TableCreateFailed ==
    ASSUME TypeOK, TableInv, TaskCreateFails
    PROVE  TableInv'
<1> USE TasksAssumption
<1>1. CASE UNCHANGED task_table
  BY <1>1, TableKept
<1>2. CASE \E new \in Pids :
              /\ IsNewPid(new)
              /\ task_table' = [task_table EXCEPT ![new] = EMPTY_PID]
  <2>1. PICK new \in Pids :
              /\ IsNewPid(new)
              /\ task_table' = [task_table EXCEPT ![new] = EMPTY_PID]
    BY <1>2
  <2>2. new <= Capacity
    BY <2>1, NewPidBound, LiveTasksFinite DEF TableInv, Pids
  <2>3. LiveTasks' = LiveTasks
    BY <2>1 DEF LiveTasks, Live, IsNewPid, TypeOK, TASK, EMPTY_PID
  <2>4. \A p \in Pids : p < new => task_table[p] = TASK
    BY <2>1 DEF IsNewPid, Live
  <2>5. \A p, q \in Pids : p < q /\ task_table'[q] # NULL => task_table'[p] # NULL
    BY <2>1, <2>4 DEF TableInv, TypeOK, NULL, TASK, EMPTY_PID, Pids
  <2>6. ASSUME NEW p \in Pids, p > Capacity PROVE task_table'[p] = NULL
    <3>1. p # new
      BY <2>2, <2>6 DEF Pids
    <3>2. task_table'[p] = task_table[p]
      BY <2>1, <3>1 DEF TypeOK
    <3> QED
      BY <2>6, <3>2 DEF TableInv
  <2> QED
    BY <2>3, <2>5, <2>6 DEF TableInv
<1> QED
  BY <1>1, <1>2 DEF TaskCreateFails

\* A task that ends leaves EMPTY_PID, which is not NULL.
LEMMA TableVacated ==
    ASSUME TypeOK, TableInv, NEW p \in Pids, Live(p),
           task_table' = [task_table EXCEPT ![p] = EMPTY_PID]
    PROVE  TableInv'
<1> USE TasksAssumption
<1>1. LiveTasks' = LiveTasks \ {p}
  BY DEF LiveTasks, Live, TypeOK, TASK, EMPTY_PID
<1>2. Cardinality(LiveTasks \ {p}) <= Capacity
  BY LiveTasksFinite, FS_RemoveElement DEF TableInv
<1>3. \A i \in Pids : task_table'[i] = NULL <=> task_table[i] = NULL
  BY DEF Live, TypeOK, TASK, EMPTY_PID, NULL
<1> QED
  BY <1>1, <1>2, <1>3 DEF TableInv
\* Going undefined changes the mode only.
LEMMA UndefinedKeeps ==
    ASSUME IndInv, Undefined
    PROVE  IndInv'
<1> USE TasksAssumption
<1>0. current_task \in Pids
  BY ScanInTable DEF IndInv
<1>1. TypeOK'
  BY <1>0 DEF IndInv, TypeOK, ModeInv, RunningTaskIsActive, Undefined, table,
     ipc, sched, irq, Modes, Pids, Statuses, ACTIVE, RES, IOWAIT, IPCWAIT,
     PROCWAIT, VDEVWAIT
<1>2. TableInv'
  BY TableKept DEF IndInv, ModeInv, RunningTaskIsActive, Undefined, table,
     ipc, sched, irq
<1>3. ScanInv'
  BY <1>0 DEF IndInv, TypeOK, ScanInv, ModeInv, RunningTaskIsActive, Live,
     Undefined, table, ipc, sched, irq, Pids, NULL, TASK, EMPTY_PID
<1>4. ModeInv'
  BY <1>0 DEF IndInv, TypeOK, ModeInv, RunningTaskIsActive,
     TicksOnOutsideSyscalls, Live, Undefined, table, ipc, sched, irq, Modes,
     Pids, TASK, EMPTY_PID, NULL, ACTIVE, RES, IOWAIT, IPCWAIT, PROCWAIT,
     VDEVWAIT
<1>5. NoLostIpcWakeup'
  BY <1>0 DEF IndInv, TypeOK, NoLostIpcWakeup, ModeInv, RunningTaskIsActive,
     Live, Undefined, table, ipc, sched, irq, TASK, EMPTY_PID, ACTIVE, RES,
     IOWAIT, IPCWAIT, PROCWAIT, VDEVWAIT
<1>6. BlockedParentHasChild'
  BY <1>0 DEF IndInv, TypeOK, BlockedParentHasChild, ModeInv,
     RunningTaskIsActive, Live, Undefined, table, ipc, sched, irq, TASK,
     EMPTY_PID, ACTIVE, RES, IOWAIT, IPCWAIT, PROCWAIT, VDEVWAIT
<1>7. ContextInv'
  BY <1>0 DEF IndInv, TypeOK, ContextInv, SavedContextIsUser, ModeInv,
     RunningTaskIsActive, Live, Undefined, table, ipc, sched, irq, TASK,
     EMPTY_PID, ACTIVE, RES, IOWAIT, IPCWAIT, PROCWAIT, VDEVWAIT
<1> QED
  BY <1>1, <1>2, <1>3, <1>4, <1>5, <1>6, <1>7 DEF IndInv

\* The system-call entry.
LEMMA SyscallKeeps ==
    ASSUME IndInv, Syscall
    PROVE  IndInv'
<1> USE TasksAssumption
<1>0. current_task \in Pids
  BY ScanInTable DEF IndInv
<1>1. TypeOK'
  BY <1>0 DEF IndInv, TypeOK, ModeInv, RunningTaskIsActive, Syscall, table,
     ipc, sched, irq, Modes, Pids, Statuses, ACTIVE, RES, IOWAIT, IPCWAIT,
     PROCWAIT, VDEVWAIT
<1>2. TableInv'
  BY TableKept DEF IndInv, ModeInv, RunningTaskIsActive, Syscall, table, ipc,
     sched, irq
<1>3. ScanInv'
  BY <1>0 DEF IndInv, TypeOK, ScanInv, ModeInv, RunningTaskIsActive, Live,
     Syscall, table, ipc, sched, irq, Pids, NULL, TASK, EMPTY_PID
<1>4. ModeInv'
  BY <1>0 DEF IndInv, TypeOK, ModeInv, RunningTaskIsActive,
     TicksOnOutsideSyscalls, Live, Syscall, table, ipc, sched, irq, Modes, Pids,
     TASK, EMPTY_PID, NULL, ACTIVE, RES, IOWAIT, IPCWAIT, PROCWAIT, VDEVWAIT
<1>5. NoLostIpcWakeup'
  BY <1>0 DEF IndInv, TypeOK, NoLostIpcWakeup, ModeInv, RunningTaskIsActive,
     Live, Syscall, table, ipc, sched, irq, TASK, EMPTY_PID, ACTIVE, RES, IOWAIT,
     IPCWAIT, PROCWAIT, VDEVWAIT
<1>6. BlockedParentHasChild'
  BY <1>0 DEF IndInv, TypeOK, BlockedParentHasChild, ModeInv,
     RunningTaskIsActive, Live, Syscall, table, ipc, sched, irq, TASK, EMPTY_PID,
     ACTIVE, RES, IOWAIT, IPCWAIT, PROCWAIT, VDEVWAIT
<1>7. ContextInv'
  BY <1>0 DEF IndInv, TypeOK, ContextInv, SavedContextIsUser, ModeInv,
     RunningTaskIsActive, Live, Syscall, table, ipc, sched, irq, TASK, EMPTY_PID,
     ACTIVE, RES, IOWAIT, IPCWAIT, PROCWAIT, VDEVWAIT
<1> QED
  BY <1>1, <1>2, <1>3, <1>4, <1>5, <1>6, <1>7 DEF IndInv

\* ipc_await blocks on an empty queue only.
LEMMA IpcAwaitKeeps ==
    ASSUME IndInv, IpcAwait
    PROVE  IndInv'
<1> USE TasksAssumption
<1>0. current_task \in Pids
  BY ScanInTable DEF IndInv
<1>1. TypeOK'
  <2>1. current_task' \in 0 .. MaxTasks
    BY <1>0 DEF IpcAwait, Block, EnterScheduler, Pids
  <2> QED
    BY <1>0, <2>1 DEF IndInv, TypeOK, ModeInv, RunningTaskIsActive, IpcAwait,
       Block, EnterScheduler, table, ipc, sched, irq, Modes, Statuses, ACTIVE,
       RES, IOWAIT, IPCWAIT, PROCWAIT, VDEVWAIT
<1>2. TableInv'
  BY TableKept DEF IndInv, ModeInv, RunningTaskIsActive, IpcAwait, Block,
     EnterScheduler, table, ipc, sched, irq
<1>3. ScanInv'
  <2>1. \A p \in Pids : p < current_task + 1 => p < current_task \/ p = current_task
    BY <1>0 DEF Pids
  <2>2. task_table[current_task] # NULL
    BY DEF IndInv, ModeInv, RunningTaskIsActive, Live, IpcAwait, Block,
       EnterScheduler, NULL, TASK, EMPTY_PID
  <2> QED
    BY <2>1, <2>2 DEF IndInv, ScanInv, IpcAwait, Block, EnterScheduler, table,
       ipc, sched, irq
<1>4. ModeInv'
  BY <1>0 DEF IndInv, TypeOK, ModeInv, RunningTaskIsActive,
     TicksOnOutsideSyscalls, Live, IpcAwait, Block, EnterScheduler, table, ipc,
     sched, irq, Modes, Pids, TASK, EMPTY_PID, NULL, ACTIVE, RES, IOWAIT,
     IPCWAIT, PROCWAIT, VDEVWAIT
<1>5. NoLostIpcWakeup'
  BY <1>0 DEF IndInv, TypeOK, NoLostIpcWakeup, ModeInv, RunningTaskIsActive,
     Live, IpcAwait, Block, EnterScheduler, table, ipc, sched, irq, TASK,
     EMPTY_PID, ACTIVE, RES, IOWAIT, IPCWAIT, PROCWAIT, VDEVWAIT
<1>6. BlockedParentHasChild'
  BY <1>0 DEF IndInv, TypeOK, BlockedParentHasChild, ModeInv,
     RunningTaskIsActive, Live, IpcAwait, Block, EnterScheduler, table, ipc,
     sched, irq, TASK, EMPTY_PID, ACTIVE, RES, IOWAIT, IPCWAIT, PROCWAIT,
     VDEVWAIT
<1>7. ContextInv'
  BY <1>0 DEF IndInv, TypeOK, ContextInv, SavedContextIsUser, ModeInv,
     RunningTaskIsActive, Live, IpcAwait, Block, EnterScheduler, table, ipc,
     sched, irq, TASK, EMPTY_PID, ACTIVE, RES, IOWAIT, IPCWAIT, PROCWAIT,
     VDEVWAIT
<1> QED
  BY <1>1, <1>2, <1>3, <1>4, <1>5, <1>6, <1>7 DEF IndInv

\* vdev_await.
LEMMA VdevAwaitKeeps ==
    ASSUME IndInv, VdevAwait
    PROVE  IndInv'
<1> USE TasksAssumption
<1>0. current_task \in Pids
  BY ScanInTable DEF IndInv
<1>1. TypeOK'
  <2>1. current_task' \in 0 .. MaxTasks
    BY <1>0 DEF VdevAwait, Block, EnterScheduler, Pids
  <2> QED
    BY <1>0, <2>1 DEF IndInv, TypeOK, ModeInv, RunningTaskIsActive, VdevAwait,
       Block, EnterScheduler, table, ipc, sched, irq, Modes, Statuses, ACTIVE,
       RES, IOWAIT, IPCWAIT, PROCWAIT, VDEVWAIT
<1>2. TableInv'
  BY TableKept DEF IndInv, ModeInv, RunningTaskIsActive, VdevAwait, Block,
     EnterScheduler, table, ipc, sched, irq
<1>3. ScanInv'
  <2>1. \A p \in Pids : p < current_task + 1 => p < current_task \/ p = current_task
    BY <1>0 DEF Pids
  <2>2. task_table[current_task] # NULL
    BY DEF IndInv, ModeInv, RunningTaskIsActive, Live, VdevAwait, Block,
       EnterScheduler, NULL, TASK, EMPTY_PID
  <2> QED
    BY <2>1, <2>2 DEF IndInv, ScanInv, VdevAwait, Block, EnterScheduler,
       table, ipc, sched, irq
<1>4. ModeInv'
  BY <1>0 DEF IndInv, TypeOK, ModeInv, RunningTaskIsActive,
     TicksOnOutsideSyscalls, Live, VdevAwait, Block, EnterScheduler, table, ipc,
     sched, irq, Modes, Pids, TASK, EMPTY_PID, NULL, ACTIVE, RES, IOWAIT,
     IPCWAIT, PROCWAIT, VDEVWAIT
<1>5. NoLostIpcWakeup'
  BY <1>0 DEF IndInv, TypeOK, NoLostIpcWakeup, ModeInv, RunningTaskIsActive,
     Live, VdevAwait, Block, EnterScheduler, table, ipc, sched, irq, TASK,
     EMPTY_PID, ACTIVE, RES, IOWAIT, IPCWAIT, PROCWAIT, VDEVWAIT
<1>6. BlockedParentHasChild'
  BY <1>0 DEF IndInv, TypeOK, BlockedParentHasChild, ModeInv,
     RunningTaskIsActive, Live, VdevAwait, Block, EnterScheduler, table, ipc,
     sched, irq, TASK, EMPTY_PID, ACTIVE, RES, IOWAIT, IPCWAIT, PROCWAIT,
     VDEVWAIT
<1>7. ContextInv'
  BY <1>0 DEF IndInv, TypeOK, ContextInv, SavedContextIsUser, ModeInv,
     RunningTaskIsActive, Live, VdevAwait, Block, EnterScheduler, table, ipc,
     sched, irq, TASK, EMPTY_PID, ACTIVE, RES, IOWAIT, IPCWAIT, PROCWAIT,
     VDEVWAIT
<1> QED
  BY <1>1, <1>2, <1>3, <1>4, <1>5, <1>6, <1>7 DEF IndInv

\* vdev_io_wrapper wakes a manager.
LEMMA VdevWakeKeeps ==
    ASSUME IndInv, NEW p \in Pids, VdevWake(p)
    PROVE  IndInv'
<1> USE TasksAssumption
<1>0. current_task \in Pids
  BY ScanInTable DEF IndInv
<1>1. TypeOK'
  BY <1>0 DEF IndInv, TypeOK, ModeInv, RunningTaskIsActive, VdevWake,
     ReturnToUser, table, ipc, sched, irq, Modes, Pids, Statuses, ACTIVE, RES,
     IOWAIT, IPCWAIT, PROCWAIT, VDEVWAIT
<1>2. TableInv'
  BY TableKept DEF IndInv, ModeInv, RunningTaskIsActive, VdevWake,
     ReturnToUser, table, ipc, sched, irq
<1>3. ScanInv'
  BY <1>0 DEF IndInv, TypeOK, ScanInv, ModeInv, RunningTaskIsActive, Live,
     VdevWake, ReturnToUser, table, ipc, sched, irq, Pids, NULL, TASK, EMPTY_PID
<1>4. ModeInv'
  BY <1>0 DEF IndInv, TypeOK, ModeInv, RunningTaskIsActive,
     TicksOnOutsideSyscalls, Live, VdevWake, ReturnToUser, table, ipc, sched,
     irq, Modes, Pids, TASK, EMPTY_PID, NULL, ACTIVE, RES, IOWAIT, IPCWAIT,
     PROCWAIT, VDEVWAIT
<1>5. NoLostIpcWakeup'
  BY <1>0 DEF IndInv, TypeOK, NoLostIpcWakeup, ModeInv, RunningTaskIsActive,
     Live, VdevWake, ReturnToUser, table, ipc, sched, irq, TASK, EMPTY_PID,
     ACTIVE, RES, IOWAIT, IPCWAIT, PROCWAIT, VDEVWAIT
<1>6. BlockedParentHasChild'
  BY <1>0 DEF IndInv, TypeOK, BlockedParentHasChild, ModeInv,
     RunningTaskIsActive, Live, VdevWake, ReturnToUser, table, ipc, sched, irq,
     TASK, EMPTY_PID, ACTIVE, RES, IOWAIT, IPCWAIT, PROCWAIT, VDEVWAIT
<1>7. ContextInv'
  BY <1>0 DEF IndInv, TypeOK, ContextInv, SavedContextIsUser, ModeInv,
     RunningTaskIsActive, Live, VdevWake, ReturnToUser, table, ipc, sched, irq,
     TASK, EMPTY_PID, ACTIVE, RES, IOWAIT, IPCWAIT, PROCWAIT, VDEVWAIT
<1> QED
  BY <1>1, <1>2, <1>3, <1>4, <1>5, <1>6, <1>7 DEF IndInv

\* A task enters IOWAIT.
LEMMA IoNotReadyKeeps ==
    ASSUME IndInv, IoNotReady
    PROVE  IndInv'
<1> USE TasksAssumption
<1>0. current_task \in Pids
  BY ScanInTable DEF IndInv
<1>1. TypeOK'
  <2>1. current_task' \in 0 .. MaxTasks
    BY <1>0 DEF IoNotReady, Block, EnterScheduler, Pids
  <2>2. status' \in [Pids -> Statuses]
    BY <1>0 DEF IndInv, TypeOK, IoNotReady, Block, Statuses, ACTIVE, IOWAIT
  <2>3. cpu' \in [Pids -> {"user", "kernel"}]
    BY DEF IndInv, TypeOK, IoNotReady, Block
  <2> QED
    BY <2>1, <2>2, <2>3 DEF IndInv, TypeOK, IoNotReady, Block, EnterScheduler,
       ipc, Modes
<1>2. TableInv'
  BY TableKept DEF IndInv, ModeInv, RunningTaskIsActive, IoNotReady, Block,
     EnterScheduler, table, ipc, sched, irq
<1>3. ScanInv'
  <2>1. \A p \in Pids : p < current_task + 1 => p < current_task \/ p = current_task
    BY <1>0 DEF Pids
  <2>2. task_table[current_task] # NULL
    BY DEF IndInv, ModeInv, RunningTaskIsActive, Live, IoNotReady, Block,
       EnterScheduler, NULL, TASK, EMPTY_PID
  <2> QED
    BY <2>1, <2>2 DEF IndInv, ScanInv, IoNotReady, Block, EnterScheduler,
       table, ipc, sched, irq
<1>4. ModeInv'
  <2>1. current_task # 0 /\ status[current_task] = ACTIVE
    BY DEF IndInv, ModeInv, RunningTaskIsActive, IoNotReady, ACTIVE, RES
  <2>2. 0 \in Pids /\ status \in [Pids -> Statuses] /\ status[0] = RES
    BY <1>0 DEF IndInv, TypeOK, ModeInv, Pids
  <2>3. ASSUME status' = [status EXCEPT ![current_task] = IOWAIT]
        PROVE  status'[0] = RES
    BY <1>0, <2>1, <2>2, <2>3
  <2>4. ASSUME NEW p \in Pids, status[p] = VDEVWAIT,
               status' = [status EXCEPT ![current_task] = IOWAIT, ![p] = ACTIVE]
        PROVE  status'[0] = RES
    BY <1>0, <2>1, <2>2, <2>4 DEF RES, VDEVWAIT
  <2>5. status'[0] = RES
    BY <2>3, <2>4 DEF IoNotReady, Block
  <2> QED
    BY <1>0, <2>1, <2>5 DEF IndInv, ModeInv, RunningTaskIsActive,
       TicksOnOutsideSyscalls, Live, IoNotReady, Block, EnterScheduler, Pids
<1>5. NoLostIpcWakeup'
  BY <1>0 DEF IndInv, TypeOK, NoLostIpcWakeup, ModeInv, RunningTaskIsActive,
     Live, IoNotReady, Block, EnterScheduler, table, ipc, sched, irq, TASK,
     EMPTY_PID, ACTIVE, RES, IOWAIT, IPCWAIT, PROCWAIT, VDEVWAIT
<1>6. BlockedParentHasChild'
  BY <1>0 DEF IndInv, TypeOK, BlockedParentHasChild, ModeInv,
     RunningTaskIsActive, Live, IoNotReady, Block, EnterScheduler, table, ipc,
     sched, irq, TASK, EMPTY_PID, ACTIVE, RES, IOWAIT, IPCWAIT, PROCWAIT,
     VDEVWAIT
<1>7. ContextInv'
  BY <1>0 DEF IndInv, TypeOK, ContextInv, SavedContextIsUser, ModeInv,
     RunningTaskIsActive, Live, IoNotReady, Block, EnterScheduler, table, ipc,
     sched, irq, TASK, EMPTY_PID, ACTIVE, RES, IOWAIT, IPCWAIT, PROCWAIT,
     VDEVWAIT
<1> QED
  BY <1>1, <1>2, <1>3, <1>4, <1>5, <1>6, <1>7 DEF IndInv

\* A call that changes none of this state.
LEMMA OtherSyscallKeeps ==
    ASSUME IndInv, OtherSyscall
    PROVE  IndInv'
<1> USE TasksAssumption
<1>0. current_task \in Pids
  BY ScanInTable DEF IndInv
<1>1. TypeOK'
  BY <1>0 DEF IndInv, TypeOK, ModeInv, RunningTaskIsActive, OtherSyscall,
     ReturnToUser, table, ipc, sched, irq, Modes, Pids, Statuses, ACTIVE, RES,
     IOWAIT, IPCWAIT, PROCWAIT, VDEVWAIT
<1>2. TableInv'
  BY TableKept DEF IndInv, ModeInv, RunningTaskIsActive, OtherSyscall,
     ReturnToUser, table, ipc, sched, irq
<1>3. ScanInv'
  BY <1>0 DEF IndInv, TypeOK, ScanInv, ModeInv, RunningTaskIsActive, Live,
     OtherSyscall, ReturnToUser, table, ipc, sched, irq, Pids, NULL, TASK,
     EMPTY_PID
<1>4. ModeInv'
  BY <1>0 DEF IndInv, TypeOK, ModeInv, RunningTaskIsActive,
     TicksOnOutsideSyscalls, Live, OtherSyscall, ReturnToUser, table, ipc, sched,
     irq, Modes, Pids, TASK, EMPTY_PID, NULL, ACTIVE, RES, IOWAIT, IPCWAIT,
     PROCWAIT, VDEVWAIT
<1>5. NoLostIpcWakeup'
  BY <1>0 DEF IndInv, TypeOK, NoLostIpcWakeup, ModeInv, RunningTaskIsActive,
     Live, OtherSyscall, ReturnToUser, table, ipc, sched, irq, TASK, EMPTY_PID,
     ACTIVE, RES, IOWAIT, IPCWAIT, PROCWAIT, VDEVWAIT
<1>6. BlockedParentHasChild'
  BY <1>0 DEF IndInv, TypeOK, BlockedParentHasChild, ModeInv,
     RunningTaskIsActive, Live, OtherSyscall, ReturnToUser, table, ipc, sched,
     irq, TASK, EMPTY_PID, ACTIVE, RES, IOWAIT, IPCWAIT, PROCWAIT, VDEVWAIT
<1>7. ContextInv'
  BY <1>0 DEF IndInv, TypeOK, ContextInv, SavedContextIsUser, ModeInv,
     RunningTaskIsActive, Live, OtherSyscall, ReturnToUser, table, ipc, sched,
     irq, TASK, EMPTY_PID, ACTIVE, RES, IOWAIT, IPCWAIT, PROCWAIT, VDEVWAIT
<1> QED
  BY <1>1, <1>2, <1>3, <1>4, <1>5, <1>6, <1>7 DEF IndInv

\* The scan wraps.
LEMMA SchedWrapKeeps ==
    ASSUME IndInv, SchedWrap
    PROVE  IndInv'
<1> USE TasksAssumption
<1>0. current_task \in Pids
  BY ScanInTable DEF IndInv
<1>1. TypeOK'
  <2>1. current_task' \in 0 .. MaxTasks
    BY DEF SchedWrap
  <2> QED
    BY <2>1 DEF IndInv, TypeOK, SchedWrap, table, ipc, Modes
<1>2. TableInv'
  BY TableKept DEF IndInv, ModeInv, RunningTaskIsActive, SchedWrap, table,
     ipc, sched, irq
<1>3. ScanInv'
  BY <1>0 DEF IndInv, TypeOK, ScanInv, ModeInv, RunningTaskIsActive, Live,
     SchedWrap, table, ipc, sched, irq, Pids, NULL, TASK, EMPTY_PID
<1>4. ModeInv'
  BY <1>0 DEF IndInv, TypeOK, ModeInv, RunningTaskIsActive,
     TicksOnOutsideSyscalls, Live, SchedWrap, table, ipc, sched, irq, Modes,
     Pids, TASK, EMPTY_PID, NULL, ACTIVE, RES, IOWAIT, IPCWAIT, PROCWAIT,
     VDEVWAIT
<1>5. NoLostIpcWakeup'
  BY <1>0 DEF IndInv, TypeOK, NoLostIpcWakeup, ModeInv, RunningTaskIsActive,
     Live, SchedWrap, table, ipc, sched, irq, TASK, EMPTY_PID, ACTIVE, RES,
     IOWAIT, IPCWAIT, PROCWAIT, VDEVWAIT
<1>6. BlockedParentHasChild'
  BY <1>0 DEF IndInv, TypeOK, BlockedParentHasChild, ModeInv,
     RunningTaskIsActive, Live, SchedWrap, table, ipc, sched, irq, TASK,
     EMPTY_PID, ACTIVE, RES, IOWAIT, IPCWAIT, PROCWAIT, VDEVWAIT
<1>7. ContextInv'
  BY <1>0 DEF IndInv, TypeOK, ContextInv, SavedContextIsUser, ModeInv,
     RunningTaskIsActive, Live, SchedWrap, table, ipc, sched, irq, TASK,
     EMPTY_PID, ACTIVE, RES, IOWAIT, IPCWAIT, PROCWAIT, VDEVWAIT
<1> QED
  BY <1>1, <1>2, <1>3, <1>4, <1>5, <1>6, <1>7 DEF IndInv

\* The scan passes a slot that holds no task to run.
LEMMA SchedSkipKeeps ==
    ASSUME IndInv, SchedSkip
    PROVE  IndInv'
<1> USE TasksAssumption
<1>0. current_task \in Pids
  BY ScanInTable DEF IndInv
<1>1. TypeOK'
  <2>1. current_task' \in 0 .. MaxTasks
    BY <1>0 DEF SchedSkip, Pids
  <2> QED
    BY <1>0, <2>1 DEF IndInv, TypeOK, ModeInv, RunningTaskIsActive, SchedSkip,
       table, ipc, sched, irq, Modes, Statuses, ACTIVE, RES, IOWAIT, IPCWAIT,
       PROCWAIT, VDEVWAIT
<1>2. TableInv'
  BY TableKept DEF IndInv, ModeInv, RunningTaskIsActive, SchedSkip, table,
     ipc, sched, irq
<1>3. ScanInv'
  <2>1. \A p \in Pids : p < current_task + 1 => p < current_task \/ p = current_task
    BY <1>0 DEF Pids
  <2>2. task_table[current_task] # NULL
    BY DEF IndInv, ModeInv, RunningTaskIsActive, Live, SchedSkip, NULL, TASK,
       EMPTY_PID
  <2> QED
    BY <2>1, <2>2 DEF IndInv, ScanInv, SchedSkip, table, ipc, sched, irq
<1>4. ModeInv'
  BY <1>0 DEF IndInv, TypeOK, ModeInv, RunningTaskIsActive,
     TicksOnOutsideSyscalls, Live, SchedSkip, table, ipc, sched, irq, Modes,
     Pids, TASK, EMPTY_PID, NULL, ACTIVE, RES, IOWAIT, IPCWAIT, PROCWAIT,
     VDEVWAIT
<1>5. NoLostIpcWakeup'
  BY <1>0 DEF IndInv, TypeOK, NoLostIpcWakeup, ModeInv, RunningTaskIsActive,
     Live, SchedSkip, table, ipc, sched, irq, TASK, EMPTY_PID, ACTIVE, RES,
     IOWAIT, IPCWAIT, PROCWAIT, VDEVWAIT
<1>6. BlockedParentHasChild'
  BY <1>0 DEF IndInv, TypeOK, BlockedParentHasChild, ModeInv,
     RunningTaskIsActive, Live, SchedSkip, table, ipc, sched, irq, TASK,
     EMPTY_PID, ACTIVE, RES, IOWAIT, IPCWAIT, PROCWAIT, VDEVWAIT
<1>7. ContextInv'
  BY <1>0 DEF IndInv, TypeOK, ContextInv, SavedContextIsUser, ModeInv,
     RunningTaskIsActive, Live, SchedSkip, table, ipc, sched, irq, TASK,
     EMPTY_PID, ACTIVE, RES, IOWAIT, IPCWAIT, PROCWAIT, VDEVWAIT
<1> QED
  BY <1>1, <1>2, <1>3, <1>4, <1>5, <1>6, <1>7 DEF IndInv

\* The scheduler runs a task.
LEMMA SchedRunKeeps ==
    ASSUME IndInv, SchedRun
    PROVE  IndInv'
<1> USE TasksAssumption
<1>0. current_task \in Pids
  BY ScanInTable DEF IndInv
<1>1. TypeOK'
  BY <1>0 DEF IndInv, TypeOK, ModeInv, RunningTaskIsActive, SchedRun,
     TaskSpinup, table, ipc, sched, irq, Modes, Pids, Statuses, ACTIVE, RES,
     IOWAIT, IPCWAIT, PROCWAIT, VDEVWAIT
<1>2. TableInv'
  BY TableKept DEF IndInv, ModeInv, RunningTaskIsActive, SchedRun, TaskSpinup,
     table, ipc, sched, irq
<1>3. ScanInv'
  BY <1>0 DEF IndInv, TypeOK, ScanInv, ModeInv, RunningTaskIsActive, Live,
     SchedRun, TaskSpinup, table, ipc, sched, irq, Pids, NULL, TASK, EMPTY_PID
<1>4. ModeInv'
  BY <1>0 DEF IndInv, TypeOK, ModeInv, RunningTaskIsActive,
     TicksOnOutsideSyscalls, Live, SchedRun, TaskSpinup, table, ipc, sched, irq,
     Modes, Pids, TASK, EMPTY_PID, NULL, ACTIVE, RES, IOWAIT, IPCWAIT, PROCWAIT,
     VDEVWAIT
<1>5. NoLostIpcWakeup'
  BY <1>0 DEF IndInv, TypeOK, NoLostIpcWakeup, ModeInv, RunningTaskIsActive,
     Live, SchedRun, TaskSpinup, table, ipc, sched, irq, TASK, EMPTY_PID, ACTIVE,
     RES, IOWAIT, IPCWAIT, PROCWAIT, VDEVWAIT
<1>6. BlockedParentHasChild'
  BY <1>0 DEF IndInv, TypeOK, BlockedParentHasChild, ModeInv,
     RunningTaskIsActive, Live, SchedRun, TaskSpinup, table, ipc, sched, irq,
     TASK, EMPTY_PID, ACTIVE, RES, IOWAIT, IPCWAIT, PROCWAIT, VDEVWAIT
<1>7. ContextInv'
  BY <1>0 DEF IndInv, TypeOK, ContextInv, SavedContextIsUser, ModeInv,
     RunningTaskIsActive, Live, SchedRun, TaskSpinup, table, ipc, sched, irq,
     TASK, EMPTY_PID, ACTIVE, RES, IOWAIT, IPCWAIT, PROCWAIT, VDEVWAIT
<1> QED
  BY <1>1, <1>2, <1>3, <1>4, <1>5, <1>6, <1>7 DEF IndInv

\* The scheduler repeats an I/O.
LEMMA SchedRetryKeeps ==
    ASSUME IndInv, SchedRetry
    PROVE  IndInv'
<1> USE TasksAssumption
<1>0. current_task \in Pids
  BY ScanInTable DEF IndInv
<1>1. TypeOK'
  BY <1>0 DEF IndInv, TypeOK, ModeInv, RunningTaskIsActive, SchedRetry, table,
     ipc, sched, irq, Modes, Pids, Statuses, ACTIVE, RES, IOWAIT, IPCWAIT,
     PROCWAIT, VDEVWAIT
<1>2. TableInv'
  BY TableKept DEF IndInv, ModeInv, RunningTaskIsActive, SchedRetry, table,
     ipc, sched, irq
<1>3. ScanInv'
  BY <1>0 DEF IndInv, TypeOK, ScanInv, ModeInv, RunningTaskIsActive, Live,
     SchedRetry, table, ipc, sched, irq, Pids, NULL, TASK, EMPTY_PID
<1>4. ModeInv'
  BY <1>0 DEF IndInv, TypeOK, ModeInv, RunningTaskIsActive,
     TicksOnOutsideSyscalls, Live, SchedRetry, table, ipc, sched, irq, Modes,
     Pids, TASK, EMPTY_PID, NULL, ACTIVE, RES, IOWAIT, IPCWAIT, PROCWAIT,
     VDEVWAIT
<1>5. NoLostIpcWakeup'
  BY <1>0 DEF IndInv, TypeOK, NoLostIpcWakeup, ModeInv, RunningTaskIsActive,
     Live, SchedRetry, table, ipc, sched, irq, TASK, EMPTY_PID, ACTIVE, RES,
     IOWAIT, IPCWAIT, PROCWAIT, VDEVWAIT
<1>6. BlockedParentHasChild'
  BY <1>0 DEF IndInv, TypeOK, BlockedParentHasChild, ModeInv,
     RunningTaskIsActive, Live, SchedRetry, table, ipc, sched, irq, TASK,
     EMPTY_PID, ACTIVE, RES, IOWAIT, IPCWAIT, PROCWAIT, VDEVWAIT
<1>7. ContextInv'
  BY <1>0 DEF IndInv, TypeOK, ContextInv, SavedContextIsUser, ModeInv,
     RunningTaskIsActive, Live, SchedRetry, table, ipc, sched, irq, TASK,
     EMPTY_PID, ACTIVE, RES, IOWAIT, IPCWAIT, PROCWAIT, VDEVWAIT
<1> QED
  BY <1>1, <1>2, <1>3, <1>4, <1>5, <1>6, <1>7 DEF IndInv

\* The I/O is still not ready.
LEMMA RetryNotReadyKeeps ==
    ASSUME IndInv, RetryNotReady
    PROVE  IndInv'
<1> USE TasksAssumption
<1>0. current_task \in Pids
  BY ScanInTable DEF IndInv
<1>1. TypeOK'
  <2>1. current_task' \in 0 .. MaxTasks
    BY <1>0 DEF RetryNotReady, Pids
  <2> QED
    BY <1>0, <2>1 DEF IndInv, TypeOK, ModeInv, RunningTaskIsActive,
       RetryNotReady, table, ipc, sched, irq, Modes, Statuses, ACTIVE, RES,
       IOWAIT, IPCWAIT, PROCWAIT, VDEVWAIT
<1>2. TableInv'
  BY TableKept DEF IndInv, ModeInv, RunningTaskIsActive, RetryNotReady, table,
     ipc, sched, irq
<1>3. ScanInv'
  <2>1. \A p \in Pids : p < current_task + 1 => p < current_task \/ p = current_task
    BY <1>0 DEF Pids
  <2>2. task_table[current_task] # NULL
    BY DEF IndInv, ModeInv, RunningTaskIsActive, Live, RetryNotReady, NULL,
       TASK, EMPTY_PID
  <2> QED
    BY <2>1, <2>2 DEF IndInv, ScanInv, RetryNotReady, table, ipc, sched, irq
<1>4. ModeInv'
  <2>1. 0 \in Pids /\ status \in [Pids -> Statuses] /\ status[0] = RES
    BY <1>0 DEF IndInv, TypeOK, ModeInv, Pids
  <2>2. status'[0] = RES
    BY <2>1 DEF RetryNotReady, RES, VDEVWAIT
  <2> QED
    BY <1>0, <2>2 DEF IndInv, ModeInv, RunningTaskIsActive,
       TicksOnOutsideSyscalls, Live, RetryNotReady, irq, Pids
<1>5. NoLostIpcWakeup'
  BY <1>0 DEF IndInv, TypeOK, NoLostIpcWakeup, ModeInv, RunningTaskIsActive,
     Live, RetryNotReady, table, ipc, sched, irq, TASK, EMPTY_PID, ACTIVE, RES,
     IOWAIT, IPCWAIT, PROCWAIT, VDEVWAIT
<1>6. BlockedParentHasChild'
  BY <1>0 DEF IndInv, TypeOK, BlockedParentHasChild, ModeInv,
     RunningTaskIsActive, Live, RetryNotReady, table, ipc, sched, irq, TASK,
     EMPTY_PID, ACTIVE, RES, IOWAIT, IPCWAIT, PROCWAIT, VDEVWAIT
<1>7. ContextInv'
  BY <1>0 DEF IndInv, TypeOK, ContextInv, SavedContextIsUser, ModeInv,
     RunningTaskIsActive, Live, RetryNotReady, table, ipc, sched, irq, TASK,
     EMPTY_PID, ACTIVE, RES, IOWAIT, IPCWAIT, PROCWAIT, VDEVWAIT
<1> QED
  BY <1>1, <1>2, <1>3, <1>4, <1>5, <1>6, <1>7 DEF IndInv

\* The I/O is done and its task runs.
LEMMA RetryDoneKeeps ==
    ASSUME IndInv, RetryDone
    PROVE  IndInv'
<1> USE TasksAssumption
<1>0. current_task \in Pids
  BY ScanInTable DEF IndInv
<1>1. TypeOK'
  BY <1>0 DEF IndInv, TypeOK, ModeInv, RunningTaskIsActive, RetryDone,
     TaskSpinup, table, ipc, sched, irq, Modes, Pids, Statuses, ACTIVE, RES,
     IOWAIT, IPCWAIT, PROCWAIT, VDEVWAIT
<1>2. TableInv'
  BY TableKept DEF IndInv, ModeInv, RunningTaskIsActive, RetryDone,
     TaskSpinup, table, ipc, sched, irq
<1>3. ScanInv'
  BY <1>0 DEF IndInv, TypeOK, ScanInv, ModeInv, RunningTaskIsActive, Live,
     RetryDone, TaskSpinup, table, ipc, sched, irq, Pids, NULL, TASK, EMPTY_PID
<1>4. ModeInv'
  <2>1. current_task # 0 /\ status[current_task] = IOWAIT
    BY DEF IndInv, ModeInv, RetryDone, RES, IOWAIT
  <2>2. 0 \in Pids /\ status \in [Pids -> Statuses] /\ status[0] = RES
    BY <1>0 DEF IndInv, TypeOK, ModeInv, Pids
  <2>3. ASSUME status' = [status EXCEPT ![current_task] = ACTIVE]
        PROVE  status'[current_task] = ACTIVE /\ status'[0] = RES
    BY <1>0, <2>1, <2>2, <2>3
  <2>4. ASSUME NEW p \in Pids, status[p] = VDEVWAIT,
               status' = [status EXCEPT ![current_task] = ACTIVE, ![p] = ACTIVE]
        PROVE  status'[current_task] = ACTIVE /\ status'[0] = RES
    BY <1>0, <2>1, <2>2, <2>4 DEF RES, VDEVWAIT
  <2>5. status'[current_task] = ACTIVE /\ status'[0] = RES
    BY <2>3, <2>4 DEF RetryDone
  <2> QED
    BY <1>0, <2>1, <2>5 DEF IndInv, ModeInv, RunningTaskIsActive,
       TicksOnOutsideSyscalls, Live, RetryDone, TaskSpinup, Pids
<1>5. NoLostIpcWakeup'
  BY <1>0 DEF IndInv, TypeOK, NoLostIpcWakeup, ModeInv, RunningTaskIsActive,
     Live, RetryDone, TaskSpinup, table, ipc, sched, irq, TASK, EMPTY_PID,
     ACTIVE, RES, IOWAIT, IPCWAIT, PROCWAIT, VDEVWAIT
<1>6. BlockedParentHasChild'
  BY <1>0 DEF IndInv, TypeOK, BlockedParentHasChild, ModeInv,
     RunningTaskIsActive, Live, RetryDone, TaskSpinup, table, ipc, sched, irq,
     TASK, EMPTY_PID, ACTIVE, RES, IOWAIT, IPCWAIT, PROCWAIT, VDEVWAIT
<1>7. ContextInv'
  BY <1>0 DEF IndInv, TypeOK, ContextInv, SavedContextIsUser, ModeInv,
     RunningTaskIsActive, Live, RetryDone, TaskSpinup, table, ipc, sched, irq,
     TASK, EMPTY_PID, ACTIVE, RES, IOWAIT, IPCWAIT, PROCWAIT, VDEVWAIT
<1> QED
  BY <1>1, <1>2, <1>3, <1>4, <1>5, <1>6, <1>7 DEF IndInv

\* A fresh queue is zeroed memory.
LEMMA EmptyQueueType == 0 \in Pids /\ EmptyQueue \in [0 .. IpcMax - 1 -> Packets]
  BY TasksAssumption DEF EmptyQueue, ZeroPacket, Packets, Pids

\* task_create keeps the types of what it writes.
LEMMA CreatedTypes ==
    ASSUME TypeOK, current_task \in Pids, NEW new \in Pids, TaskCreate(new)
    PROVE  /\ task_table' \in [Pids -> {NULL, EMPTY_PID, TASK}]
           /\ parent' \in [Pids -> Pids]
           /\ cpu' \in [Pids -> {"user", "kernel"}]
           /\ ipc_queue' \in [Pids -> [0 .. IpcMax - 1 -> Packets]]
           /\ ipc_queue_ptr' \in [Pids -> 0 .. IpcMax]
  BY TasksAssumption, EmptyQueueType DEF TypeOK, TaskCreate

\* A creation that fails ends no task.
LEMMA FailedKeepsLive ==
    ASSUME TypeOK, TaskCreateFails
    PROVE  \A p \in Pids : Live(p)' <=> Live(p)
  BY DEF TypeOK, TaskCreateFails, IsNewPid, Live, TASK, EMPTY_PID

\* A tick that finds a record to save the context in.
LEMMA TickKeeps ==
    ASSUME IndInv,
           Timer,
           Live(current_task)
    PROVE  IndInv'
<1> USE TasksAssumption
<1>0. current_task \in Pids
  BY ScanInTable DEF IndInv
<1>1. TypeOK'
  <2>1. current_task' \in 0 .. MaxTasks
    BY <1>0 DEF Timer, TaskSwitch, EnterScheduler, Pids
  <2> QED
    BY <1>0, <2>1 DEF IndInv, TypeOK, ModeInv, RunningTaskIsActive, Timer,
       TaskSwitch, EnterScheduler, table, ipc, sched, Modes, Statuses, ACTIVE,
       RES, IOWAIT, IPCWAIT, PROCWAIT, VDEVWAIT
<1>2. TableInv'
  BY TableKept DEF IndInv, ModeInv, RunningTaskIsActive, Timer, TaskSwitch,
     EnterScheduler, table, ipc, sched
<1>3. ScanInv'
  <2>1. \A p \in Pids : p < current_task + 1 => p < current_task \/ p = current_task
    BY <1>0 DEF Pids
  <2>2. task_table[current_task] # NULL
    BY DEF IndInv, ModeInv, RunningTaskIsActive, Live, Timer, TaskSwitch,
       EnterScheduler, NULL, TASK, EMPTY_PID
  <2> QED
    BY <1>0, <2>1, <2>2 DEF IndInv, TypeOK, ScanInv, Timer, TaskSwitch,
       EnterScheduler, table, ipc, sched, NULL, TASK, EMPTY_PID
<1>4. ModeInv'
  BY <1>0 DEF IndInv, TypeOK, ModeInv, RunningTaskIsActive,
     TicksOnOutsideSyscalls, Live, Timer, TaskSwitch, EnterScheduler, table, ipc,
     sched, Modes, Pids, TASK, EMPTY_PID, NULL, ACTIVE, RES, IOWAIT, IPCWAIT,
     PROCWAIT, VDEVWAIT
<1>5. NoLostIpcWakeup'
  BY <1>0 DEF IndInv, TypeOK, NoLostIpcWakeup, ModeInv, RunningTaskIsActive,
     Live, Timer, TaskSwitch, EnterScheduler, table, ipc, sched, TASK, EMPTY_PID,
     ACTIVE, RES, IOWAIT, IPCWAIT, PROCWAIT, VDEVWAIT
<1>6. BlockedParentHasChild'
  BY <1>0 DEF IndInv, TypeOK, BlockedParentHasChild, ModeInv,
     RunningTaskIsActive, Live, Timer, TaskSwitch, EnterScheduler, table, ipc,
     sched, TASK, EMPTY_PID, ACTIVE, RES, IOWAIT, IPCWAIT, PROCWAIT, VDEVWAIT
<1>7. ContextInv'
  <2>1. mode \in {"user", "sched", "retry", "idle"}
    BY DEF IndInv, TypeOK, Modes, ModeInv, TicksOnOutsideSyscalls, Timer
  <2>2. CASE mode = "user"
    BY <1>0, <2>2 DEF IndInv, TypeOK, ContextInv, SavedContextIsUser, Live,
       Timer, TaskSwitch, EnterScheduler
  <2>3. CASE mode = "idle"
    BY <1>0, <2>3 DEF IndInv, TypeOK, ContextInv, SavedContextIsUser, ModeInv,
       Live, Timer, TaskSwitch, EnterScheduler
  <2>4. CASE mode \in {"sched", "retry"}
    BY <2>4 DEF IndInv, ContextInv, Timer
  <2> QED
    BY <2>1, <2>2, <2>3, <2>4
<1> QED
  BY <1>1, <1>2, <1>3, <1>4, <1>5, <1>6, <1>7 DEF IndInv

\* task_fork makes a child.
LEMMA ForkCreates ==
    ASSUME IndInv,
           mode = "user",
           NEW new \in Pids, TaskCreate(new),
           status' = [status EXCEPT ![new] = status[current_task]],
           awaited' = [awaited EXCEPT ![new] = 0],
           EnterScheduler,
           UNCHANGED current_task
    PROVE  IndInv'
<1> USE TasksAssumption
<1>0. current_task \in Pids
  BY ScanInTable DEF IndInv
<1>1. TypeOK'
  <2>1. status' \in [Pids -> Statuses]
    BY <1>0 DEF IndInv, TypeOK, Statuses, ACTIVE, PROCWAIT
  <2>2. awaited' \in [Pids -> Pids]
    BY <1>0, EmptyQueueType DEF IndInv, TypeOK
  <2>3. current_task' \in 0 .. MaxTasks
    BY <1>0 DEF Pids
  <2> QED
    BY <1>0, <2>1, <2>2, <2>3, CreatedTypes DEF IndInv, TypeOK, EnterScheduler, Modes
<1>2. TableInv'
  BY TableCreated DEF IndInv, ModeInv, RunningTaskIsActive, TaskCreate,
     IsNewPid, EnterScheduler, table, ipc, sched
<1>3. ScanInv'
  BY <1>0 DEF IndInv, TypeOK, ScanInv, ModeInv, RunningTaskIsActive, Live,
     TaskCreate, IsNewPid, EnterScheduler, table, ipc, sched, Pids, NULL, TASK,
     EMPTY_PID
<1>4. ModeInv'
  BY <1>0 DEF IndInv, TypeOK, ModeInv, RunningTaskIsActive,
     TicksOnOutsideSyscalls, Live, TaskCreate, IsNewPid, EnterScheduler, table,
     ipc, sched, Modes, Pids, TASK, EMPTY_PID, NULL, ACTIVE, RES, IOWAIT,
     IPCWAIT, PROCWAIT, VDEVWAIT
<1>5. NoLostIpcWakeup'
  BY <1>0 DEF IndInv, TypeOK, NoLostIpcWakeup, ModeInv, RunningTaskIsActive,
     Live, TaskCreate, IsNewPid, EnterScheduler, table, ipc, sched, TASK,
     EMPTY_PID, ACTIVE, RES, IOWAIT, IPCWAIT, PROCWAIT, VDEVWAIT
<1>6. BlockedParentHasChild'
  BY <1>0 DEF IndInv, TypeOK, BlockedParentHasChild, ModeInv,
     RunningTaskIsActive, Live, TaskCreate, IsNewPid, EnterScheduler, table, ipc,
     sched, TASK, EMPTY_PID, ACTIVE, RES, IOWAIT, IPCWAIT, PROCWAIT, VDEVWAIT
<1>7. ContextInv'
  BY <1>0 DEF IndInv, TypeOK, ContextInv, SavedContextIsUser, ModeInv,
     RunningTaskIsActive, Live, TaskCreate, IsNewPid, EnterScheduler, table, ipc,
     sched, TASK, EMPTY_PID, ACTIVE, RES, IOWAIT, IPCWAIT, PROCWAIT, VDEVWAIT
<1> QED
  BY <1>1, <1>2, <1>3, <1>4, <1>5, <1>6, <1>7 DEF IndInv

\* task_fork fails.
LEMMA ForkFails ==
    ASSUME IndInv,
           mode = "user",
           TaskCreateFails,
           EnterScheduler,
           UNCHANGED current_task
    PROVE  IndInv'
<1> USE TasksAssumption
<1>0. current_task \in Pids
  BY ScanInTable DEF IndInv
<1>1. TypeOK'
  BY <1>0 DEF IndInv, TypeOK, ModeInv, RunningTaskIsActive, TaskCreateFails,
     IsNewPid, EnterScheduler, table, ipc, sched, Modes, Pids, Statuses, ACTIVE,
     RES, IOWAIT, IPCWAIT, PROCWAIT, VDEVWAIT
<1>2. TableInv'
  BY TableCreateFailed DEF IndInv, ModeInv, RunningTaskIsActive,
     TaskCreateFails, IsNewPid, EnterScheduler, table, ipc, sched
<1>3. ScanInv'
  BY <1>0 DEF IndInv, TypeOK, ScanInv, ModeInv, RunningTaskIsActive, Live,
     TaskCreateFails, IsNewPid, EnterScheduler, table, ipc, sched, Pids, NULL,
     TASK, EMPTY_PID
<1>4. ModeInv'
  <2>1. 0 \in Pids /\ \A p \in Pids : Live(p)' <=> Live(p)
    BY EmptyQueueType, FailedKeepsLive DEF IndInv
  <2> QED
    BY <1>0, <2>1 DEF IndInv, ModeInv, RunningTaskIsActive,
       TicksOnOutsideSyscalls, TaskCreateFails, EnterScheduler
<1>5. NoLostIpcWakeup'
  BY <1>0 DEF IndInv, TypeOK, NoLostIpcWakeup, ModeInv, RunningTaskIsActive,
     Live, TaskCreateFails, IsNewPid, EnterScheduler, table, ipc, sched, TASK,
     EMPTY_PID, ACTIVE, RES, IOWAIT, IPCWAIT, PROCWAIT, VDEVWAIT
<1>6. BlockedParentHasChild'
  BY <1>0 DEF IndInv, TypeOK, BlockedParentHasChild, ModeInv,
     RunningTaskIsActive, Live, TaskCreateFails, IsNewPid, EnterScheduler, table,
     ipc, sched, TASK, EMPTY_PID, ACTIVE, RES, IOWAIT, IPCWAIT, PROCWAIT,
     VDEVWAIT
<1>7. ContextInv'
  BY <1>0 DEF IndInv, TypeOK, ContextInv, SavedContextIsUser, ModeInv,
     RunningTaskIsActive, Live, TaskCreateFails, IsNewPid, EnterScheduler, table,
     ipc, sched, TASK, EMPTY_PID, ACTIVE, RES, IOWAIT, IPCWAIT, PROCWAIT,
     VDEVWAIT
<1> QED
  BY <1>1, <1>2, <1>3, <1>4, <1>5, <1>6, <1>7 DEF IndInv

\* general_execute fails.
LEMMA ExecuteFailsKeeps ==
    ASSUME IndInv,
           ExecuteFails
    PROVE  IndInv'
<1> USE TasksAssumption
<1>0. current_task \in Pids
  BY ScanInTable DEF IndInv
<1>1. TypeOK'
  BY <1>0 DEF IndInv, TypeOK, ModeInv, RunningTaskIsActive, ExecuteFails,
     TaskCreateFails, IsNewPid, ReturnToUser, table, ipc, sched, Modes, Pids,
     Statuses, ACTIVE, RES, IOWAIT, IPCWAIT, PROCWAIT, VDEVWAIT
<1>2. TableInv'
  BY TableCreateFailed, TableKept DEF IndInv, ModeInv, RunningTaskIsActive,
     ExecuteFails, TaskCreateFails, IsNewPid, ReturnToUser, table, ipc, sched
<1>3. ScanInv'
  BY <1>0 DEF IndInv, TypeOK, ScanInv, ModeInv, RunningTaskIsActive, Live,
     ExecuteFails, TaskCreateFails, IsNewPid, ReturnToUser, table, ipc, sched,
     Pids, NULL, TASK, EMPTY_PID
<1>4. ModeInv'
  <2>1. 0 \in Pids /\ \A p \in Pids : Live(p)' <=> Live(p)
    BY EmptyQueueType, FailedKeepsLive DEF IndInv, ExecuteFails, table, Live
  <2>2. UNCHANGED status
    BY DEF ExecuteFails, TaskCreateFails, table
  <2> QED
    BY <1>0, <2>1, <2>2 DEF IndInv, ModeInv, RunningTaskIsActive,
       TicksOnOutsideSyscalls, ExecuteFails, ReturnToUser, sched
<1>5. NoLostIpcWakeup'
  BY <1>0 DEF IndInv, TypeOK, NoLostIpcWakeup, ModeInv, RunningTaskIsActive,
     Live, ExecuteFails, TaskCreateFails, IsNewPid, ReturnToUser, table, ipc,
     sched, TASK, EMPTY_PID, ACTIVE, RES, IOWAIT, IPCWAIT, PROCWAIT, VDEVWAIT
<1>6. BlockedParentHasChild'
  BY <1>0 DEF IndInv, TypeOK, BlockedParentHasChild, ModeInv,
     RunningTaskIsActive, Live, ExecuteFails, TaskCreateFails, IsNewPid,
     ReturnToUser, table, ipc, sched, TASK, EMPTY_PID, ACTIVE, RES, IOWAIT,
     IPCWAIT, PROCWAIT, VDEVWAIT
<1>7. ContextInv'
  BY <1>0 DEF IndInv, TypeOK, ContextInv, SavedContextIsUser, ModeInv,
     RunningTaskIsActive, Live, ExecuteFails, TaskCreateFails, IsNewPid,
     ReturnToUser, table, ipc, sched, TASK, EMPTY_PID, ACTIVE, RES, IOWAIT,
     IPCWAIT, PROCWAIT, VDEVWAIT
<1> QED
  BY <1>1, <1>2, <1>3, <1>4, <1>5, <1>6, <1>7 DEF IndInv

\* general_execute makes a child.
LEMMA ExecuteKeeps ==
    ASSUME IndInv,
           NEW new \in Pids, TaskCreate(new),
           mode = "syscall",
           status' = [status EXCEPT ![new] = ACTIVE],
           awaited' = [awaited EXCEPT ![new] = 0],
           ReturnToUser
    PROVE  IndInv'
<1> USE TasksAssumption
<1>0. current_task \in Pids
  BY ScanInTable DEF IndInv
<1>1. TypeOK'
  <2>1. status' \in [Pids -> Statuses]
    BY <1>0 DEF IndInv, TypeOK, Statuses, ACTIVE, PROCWAIT
  <2>2. awaited' \in [Pids -> Pids]
    BY <1>0, EmptyQueueType DEF IndInv, TypeOK
  <2>3. current_task' \in 0 .. MaxTasks
    BY <1>0 DEF ReturnToUser, sched, Pids
  <2> QED
    BY <1>0, <2>1, <2>2, <2>3, CreatedTypes DEF IndInv, TypeOK, ReturnToUser, sched, Modes
<1>2. TableInv'
  BY TableCreated DEF IndInv, ModeInv, RunningTaskIsActive, TaskCreate,
     IsNewPid, ReturnToUser, table, ipc, sched
<1>3. ScanInv'
  BY <1>0 DEF IndInv, TypeOK, ScanInv, ModeInv, RunningTaskIsActive, Live,
     TaskCreate, IsNewPid, ReturnToUser, table, ipc, sched, Pids, NULL, TASK,
     EMPTY_PID
<1>4. ModeInv'
  BY <1>0 DEF IndInv, TypeOK, ModeInv, RunningTaskIsActive,
     TicksOnOutsideSyscalls, Live, TaskCreate, IsNewPid, ReturnToUser, table,
     ipc, sched, Modes, Pids, TASK, EMPTY_PID, NULL, ACTIVE, RES, IOWAIT,
     IPCWAIT, PROCWAIT, VDEVWAIT
<1>5. NoLostIpcWakeup'
  BY <1>0 DEF IndInv, TypeOK, NoLostIpcWakeup, ModeInv, RunningTaskIsActive,
     Live, TaskCreate, IsNewPid, ReturnToUser, table, ipc, sched, TASK,
     EMPTY_PID, ACTIVE, RES, IOWAIT, IPCWAIT, PROCWAIT, VDEVWAIT
<1>6. BlockedParentHasChild'
  BY <1>0 DEF IndInv, TypeOK, BlockedParentHasChild, ModeInv,
     RunningTaskIsActive, Live, TaskCreate, IsNewPid, ReturnToUser, table, ipc,
     sched, TASK, EMPTY_PID, ACTIVE, RES, IOWAIT, IPCWAIT, PROCWAIT, VDEVWAIT
<1>7. ContextInv'
  BY <1>0 DEF IndInv, TypeOK, ContextInv, SavedContextIsUser, ModeInv,
     RunningTaskIsActive, Live, TaskCreate, IsNewPid, ReturnToUser, table, ipc,
     sched, TASK, EMPTY_PID, ACTIVE, RES, IOWAIT, IPCWAIT, PROCWAIT, VDEVWAIT
<1> QED
  BY <1>1, <1>2, <1>3, <1>4, <1>5, <1>6, <1>7 DEF IndInv

\* general_execute_block makes a child and waits.
LEMMA ExecuteBlockKeeps ==
    ASSUME IndInv,
           NEW new \in Pids, TaskCreate(new),
           mode = "syscall",
           status' = [status EXCEPT ![new] = ACTIVE, ![current_task] = PROCWAIT],
           awaited' = [awaited EXCEPT ![new] = 0, ![current_task] = new],
           current_task' = current_task + 1,
           EnterScheduler
    PROVE  IndInv'
<1> USE TasksAssumption
<1>0. current_task \in Pids
  BY ScanInTable DEF IndInv
<1>1. TypeOK'
  <2>1. status' \in [Pids -> Statuses]
    BY <1>0 DEF IndInv, TypeOK, Statuses, ACTIVE, PROCWAIT
  <2>2. awaited' \in [Pids -> Pids]
    BY <1>0, EmptyQueueType DEF IndInv, TypeOK
  <2>3. current_task' \in 0 .. MaxTasks
    BY <1>0 DEF Pids
  <2> QED
    BY <1>0, <2>1, <2>2, <2>3, CreatedTypes DEF IndInv, TypeOK, EnterScheduler, Modes
<1>2. TableInv'
  BY TableCreated DEF IndInv, ModeInv, RunningTaskIsActive, TaskCreate,
     IsNewPid, EnterScheduler, table, ipc, sched
<1>3. ScanInv'
  <2>1. \A p \in Pids : p < current_task + 1 => p < current_task \/ p = current_task
    BY <1>0 DEF Pids
  <2>2. task_table[current_task] # NULL
    BY DEF IndInv, ModeInv, RunningTaskIsActive, Live, TaskCreate, IsNewPid,
       EnterScheduler, NULL, TASK, EMPTY_PID
  <2> QED
    BY <1>0, <2>1, <2>2 DEF IndInv, TypeOK, ScanInv, TaskCreate, IsNewPid,
       EnterScheduler, table, ipc, sched, NULL, TASK, EMPTY_PID
<1>4. ModeInv'
  BY <1>0 DEF IndInv, TypeOK, ModeInv, RunningTaskIsActive,
     TicksOnOutsideSyscalls, Live, TaskCreate, IsNewPid, EnterScheduler, table,
     ipc, sched, Modes, Pids, TASK, EMPTY_PID, NULL, ACTIVE, RES, IOWAIT,
     IPCWAIT, PROCWAIT, VDEVWAIT
<1>5. NoLostIpcWakeup'
  BY <1>0 DEF IndInv, TypeOK, NoLostIpcWakeup, ModeInv, RunningTaskIsActive,
     Live, TaskCreate, IsNewPid, EnterScheduler, table, ipc, sched, TASK,
     EMPTY_PID, ACTIVE, RES, IOWAIT, IPCWAIT, PROCWAIT, VDEVWAIT
<1>6. BlockedParentHasChild'
  BY <1>0 DEF IndInv, TypeOK, BlockedParentHasChild, ModeInv,
     RunningTaskIsActive, Live, TaskCreate, IsNewPid, EnterScheduler, table, ipc,
     sched, TASK, EMPTY_PID, ACTIVE, RES, IOWAIT, IPCWAIT, PROCWAIT, VDEVWAIT
<1>7. ContextInv'
  BY <1>0 DEF IndInv, TypeOK, ContextInv, SavedContextIsUser, ModeInv,
     RunningTaskIsActive, Live, TaskCreate, IsNewPid, EnterScheduler, table, ipc,
     sched, TASK, EMPTY_PID, ACTIVE, RES, IOWAIT, IPCWAIT, PROCWAIT, VDEVWAIT
<1> QED
  BY <1>1, <1>2, <1>3, <1>4, <1>5, <1>6, <1>7 DEF IndInv

\* execve.
LEMMA ExecveKeeps ==
    ASSUME IndInv,
           mode = "syscall",
           status' = [status EXCEPT ![current_task] = ACTIVE],
           cpu' = [cpu EXCEPT ![current_task] = "user"],
           EnterScheduler,
           UNCHANGED <<task_table, parent, awaited, ipc, current_task>>
    PROVE  IndInv'
<1> USE TasksAssumption
<1>0. current_task \in Pids
  BY ScanInTable DEF IndInv
<1>1. TypeOK'
  BY <1>0 DEF IndInv, TypeOK, ModeInv, RunningTaskIsActive, EnterScheduler,
     table, ipc, sched, Modes, Pids, Statuses, ACTIVE, RES, IOWAIT, IPCWAIT,
     PROCWAIT, VDEVWAIT
<1>2. TableInv'
  BY TableKept DEF IndInv, ModeInv, RunningTaskIsActive, EnterScheduler,
     table, ipc, sched
<1>3. ScanInv'
  BY <1>0 DEF IndInv, TypeOK, ScanInv, ModeInv, RunningTaskIsActive, Live,
     EnterScheduler, table, ipc, sched, Pids, NULL, TASK, EMPTY_PID
<1>4. ModeInv'
  BY <1>0 DEF IndInv, TypeOK, ModeInv, RunningTaskIsActive,
     TicksOnOutsideSyscalls, Live, EnterScheduler, table, ipc, sched, Modes,
     Pids, TASK, EMPTY_PID, NULL, ACTIVE, RES, IOWAIT, IPCWAIT, PROCWAIT,
     VDEVWAIT
<1>5. NoLostIpcWakeup'
  BY <1>0 DEF IndInv, TypeOK, NoLostIpcWakeup, ModeInv, RunningTaskIsActive,
     Live, EnterScheduler, table, ipc, sched, TASK, EMPTY_PID, ACTIVE, RES,
     IOWAIT, IPCWAIT, PROCWAIT, VDEVWAIT
<1>6. BlockedParentHasChild'
  BY <1>0 DEF IndInv, TypeOK, BlockedParentHasChild, ModeInv,
     RunningTaskIsActive, Live, EnterScheduler, table, ipc, sched, TASK,
     EMPTY_PID, ACTIVE, RES, IOWAIT, IPCWAIT, PROCWAIT, VDEVWAIT
<1>7. ContextInv'
  BY <1>0 DEF IndInv, TypeOK, ContextInv, SavedContextIsUser, ModeInv,
     RunningTaskIsActive, Live, EnterScheduler, table, ipc, sched, TASK,
     EMPTY_PID, ACTIVE, RES, IOWAIT, IPCWAIT, PROCWAIT, VDEVWAIT
<1> QED
  BY <1>1, <1>2, <1>3, <1>4, <1>5, <1>6, <1>7 DEF IndInv

\* task_quit of the running task.  Its parent, if it waits, is woken; every
\* other waiting task keeps the child it has.
LEMMA QuitKeeps ==
    ASSUME IndInv, mode \in {"user", "syscall"}, TaskQuit, mode' # "undefined"
    PROVE  IndInv'
<1> USE TasksAssumption
<1> DEFINE p == current_task
           par == parent[p]
<1>0. p \in Pids /\ p # 0 /\ Live(p) /\ status[p] = ACTIVE /\ par \in Pids /\ 0 \in Pids
  BY EmptyQueueType DEF IndInv, TypeOK, ModeInv, RunningTaskIsActive
<1>a. /\ task_table' = [task_table EXCEPT ![p] = EMPTY_PID]
      /\ status' = [status EXCEPT
            ![par] = IF Live(par) THEN WokenParent(status[par]) ELSE status[par],
            ![p] = RES]
      /\ parent' = [parent EXCEPT ![p] = 0]
      /\ cpu' = [cpu EXCEPT ![p] = "user"]
      /\ ipc_queue' = [ipc_queue EXCEPT ![p] = EmptyQueue]
      /\ ipc_queue_ptr' = [ipc_queue_ptr EXCEPT ![p] = 0]
      /\ awaited' = [awaited EXCEPT ![p] = 0]
      /\ EnterScheduler
      /\ UNCHANGED current_task
  <2>1. status \in [Pids -> Statuses]
    BY DEF IndInv, TypeOK
  <2> QED
    BY <1>0, <2>1 DEF TaskQuit, Vacated, Undefined
<1>b. \A q \in Pids : Live(q)' <=> Live(q) /\ q # p
  BY <1>0, <1>a DEF IndInv, TypeOK, Live, TASK, EMPTY_PID
<1>c. ASSUME NEW q \in Pids, q # p
      PROVE  \/ status'[q] = status[q]
             \/ status[q] = PROCWAIT /\ status'[q] = ACTIVE /\ q = par
  <2>1. status \in [Pids -> Statuses]
    BY DEF IndInv, TypeOK
  <2>2. CASE q # par
    BY <1>0, <1>a, <1>c, <2>1, <2>2
  <2>3. CASE q = par
    <3>1. status'[q] = IF Live(q) THEN WokenParent(status[q]) ELSE status[q]
      BY <1>0, <1>a, <1>c, <2>1, <2>3
    <3> QED
      BY <2>3, <3>1 DEF WokenParent
  <2> QED
    BY <2>2, <2>3
<1>d. par # p /\ Live(par) /\ status[par] = PROCWAIT => status'[par] = ACTIVE
  BY <1>0, <1>a DEF IndInv, TypeOK, WokenParent
<1>1. TypeOK'
  <2>1. status' \in [Pids -> Statuses]
    BY <1>0, <1>a DEF IndInv, TypeOK, WokenParent, Statuses, ACTIVE, RES
  <2>2. ipc_queue' \in [Pids -> [0 .. IpcMax - 1 -> Packets]]
    BY <1>0, <1>a, EmptyQueueType DEF IndInv, TypeOK
  <2>3. /\ task_table' \in [Pids -> {NULL, EMPTY_PID, TASK}]
        /\ parent' \in [Pids -> Pids]
        /\ cpu' \in [Pids -> {"user", "kernel"}]
        /\ awaited' \in [Pids -> Pids]
    BY <1>0, <1>a DEF IndInv, TypeOK
  <2>4. ipc_queue_ptr' \in [Pids -> 0 .. IpcMax]
    BY <1>0, <1>a DEF IndInv, TypeOK
  <2> QED
    BY <1>a, <2>1, <2>2, <2>3, <2>4 DEF IndInv, TypeOK, EnterScheduler, Modes
<1>2. TableInv'
  BY <1>0, <1>a, TableVacated DEF IndInv
<1>3. ScanInv'
  BY <1>0, <1>a DEF IndInv, TypeOK, ScanInv, NULL, EMPTY_PID
<1>4. ModeInv'
  BY <1>0, <1>a, <1>b, <1>c DEF IndInv, ModeInv, RunningTaskIsActive,
     TicksOnOutsideSyscalls, EnterScheduler, RES, PROCWAIT
<1>5. NoLostIpcWakeup'
  BY <1>0, <1>a, <1>b, <1>c DEF IndInv, TypeOK, NoLostIpcWakeup, ACTIVE, IPCWAIT
<1>6. BlockedParentHasChild'
  <2> SUFFICES ASSUME NEW q \in Pids, Live(q)', status'[q] = PROCWAIT
               PROVE  \E c \in Pids : Live(c)' /\ parent'[c] = q
    BY DEF BlockedParentHasChild
  <2>1. Live(q) /\ q # p /\ status[q] = PROCWAIT
    BY <1>b, <1>c DEF ACTIVE, PROCWAIT
  <2>2. q # par
    BY <1>d, <2>1 DEF ACTIVE, PROCWAIT
  <2>3. PICK c \in Pids : Live(c) /\ parent[c] = q
    BY <2>1 DEF IndInv, BlockedParentHasChild
  <2>4. c # p
    BY <2>2, <2>3
  <2>5. Live(c)' /\ parent'[c] = q
    BY <1>0, <1>a, <1>b, <2>3, <2>4 DEF IndInv, TypeOK
  <2> QED
    BY <2>5
<1>7. ContextInv'
  BY <1>0, <1>a, <1>b, <1>c DEF IndInv, TypeOK, ContextInv, SavedContextIsUser,
     EnterScheduler, RES, PROCWAIT
<1> QED
  BY <1>1, <1>2, <1>3, <1>4, <1>5, <1>6, <1>7 DEF IndInv

\* ipc_send_packet queues a packet and wakes the task if it waits for one.
LEMMA IpcSendKeeps ==
    ASSUME IndInv, NEW pid \in Pids, NEW payload \in Payloads,
           IpcSend(pid, payload), mode' # "undefined"
    PROVE  IndInv'
<1> USE TasksAssumption
<1>0. current_task \in Pids
  BY ScanInTable DEF IndInv
<1>a. /\ ipc_queue' = [ipc_queue EXCEPT ![pid][ipc_queue_ptr[pid]] =
                           [sender |-> current_task, payload |-> payload]]
      /\ ipc_queue_ptr' = [ipc_queue_ptr EXCEPT ![pid] = ipc_queue_ptr[pid] + 1]
      /\ status' = [status EXCEPT
            ![pid] = IF status[pid] = IPCWAIT THEN ACTIVE ELSE status[pid]]
      /\ ipc_queue_ptr[pid] < IpcMax
      /\ mode = "syscall"
      /\ Live(pid)
      /\ ReturnToUser
      /\ UNCHANGED <<task_table, parent, cpu, awaited>>
  <2>1. status \in [Pids -> Statuses]
    BY DEF IndInv, TypeOK
  <2> QED
    BY <2>1 DEF IpcSend, Undefined
<1>b. \A q \in Pids : status'[q] = status[q] \/ (status[q] = IPCWAIT /\ status'[q] = ACTIVE)
  BY <1>a DEF IndInv, TypeOK
<1>c. 0 \in Pids /\ \A q \in Pids : Live(q)' <=> Live(q)
  BY <1>a, EmptyQueueType DEF Live
<1>1. TypeOK'
  <2>1. status' \in [Pids -> Statuses]
    BY <1>a DEF IndInv, TypeOK, Statuses, ACTIVE
  <2>2. [sender |-> current_task, payload |-> payload] \in Packets
    BY <1>0 DEF Packets
  <2>3. ipc_queue' \in [Pids -> [0 .. IpcMax - 1 -> Packets]]
    <3>1. ipc_queue \in [Pids -> [0 .. IpcMax - 1 -> Packets]]
      BY DEF IndInv, TypeOK
    <3>2. ipc_queue_ptr[pid] \in 0 .. IpcMax - 1
      BY <1>a DEF IndInv, TypeOK
    <3> QED
      BY <1>a, <2>2, <3>1, <3>2
  <2>4. ipc_queue_ptr' \in [Pids -> 0 .. IpcMax]
    BY <1>a DEF IndInv, TypeOK
  <2> QED
    BY <1>a, <2>1, <2>3, <2>4 DEF IndInv, TypeOK, ReturnToUser, sched, Modes
<1>2. TableInv'
  BY <1>a, TableKept DEF IndInv
<1>3. ScanInv'
  BY <1>a DEF IndInv, ScanInv, ReturnToUser, sched
<1>4. ModeInv'
  BY <1>0, <1>a, <1>b, <1>c DEF IndInv, ModeInv, RunningTaskIsActive,
     TicksOnOutsideSyscalls, ReturnToUser, sched, ACTIVE, RES, IPCWAIT
<1>5. NoLostIpcWakeup'
  BY <1>a, <1>c DEF IndInv, TypeOK, NoLostIpcWakeup, ACTIVE, IPCWAIT
<1>6. BlockedParentHasChild'
  BY <1>a, <1>b, <1>c DEF IndInv, BlockedParentHasChild, ACTIVE, PROCWAIT
<1>7. ContextInv'
  BY <1>a, <1>b, <1>c DEF IndInv, ContextInv, SavedContextIsUser, ReturnToUser,
     sched, RES, IPCWAIT
<1> QED
  BY <1>1, <1>2, <1>3, <1>4, <1>5, <1>6, <1>7 DEF IndInv

\* ipc_read_packet, whatever it makes of the queues, takes one packet from the
\* running task, which does not wait.
LEMMA IpcReadKeeps ==
    ASSUME IndInv, IpcRead, mode' # "undefined"
    PROVE  IndInv'
<1> USE TasksAssumption
<1> DEFINE p == current_task
           n == ipc_queue_ptr[p]
           s == ipc_queue[p][0].sender
<1>0. p \in Pids /\ n \in 0 .. IpcMax
  BY ScanInTable DEF IndInv, TypeOK
<1>a. /\ mode = "syscall"
      /\ n > 0
      /\ ipc_queue_ptr' = [ipc_queue_ptr EXCEPT ![p] = n - 1]
      /\ ReturnToUser
      /\ UNCHANGED table
  BY DEF IpcRead, Undefined
<1>b. ipc_queue' \in [Pids -> [0 .. IpcMax - 1 -> Packets]]
  <2>1. ipc_queue \in [Pids -> [0 .. IpcMax - 1 -> Packets]]
    BY DEF IndInv, TypeOK
  <2>2. ipc_queue[p][0] \in Packets /\ s \in Pids
    <3>1. ipc_queue[p][0] \in Packets
      BY <1>0, <2>1
    <3> QED
      BY <3>1 DEF Packets
  <2>3. [i \in 0 .. IpcMax - 1 |-> IF i < n - 1 THEN ipc_queue[s][n - 1]
                                               ELSE ipc_queue[s][i]]
           \in [0 .. IpcMax - 1 -> Packets]
    <3>1. n - 1 \in 0 .. IpcMax - 1
      BY <1>0, <1>a
    <3> QED
      BY <2>1, <2>2, <3>1
  <2>4. CASE n = 1
    BY <1>0, <2>1, <2>4, EmptyQueueType DEF IpcRead, Undefined
  <2>5. CASE n # 1
    BY <1>0, <2>1, <2>2, <2>3, <2>5 DEF IpcRead, Undefined
  <2> QED
    BY <2>4, <2>5
<1>1. TypeOK'
  <2>1. ipc_queue_ptr' \in [Pids -> 0 .. IpcMax]
    BY <1>0, <1>a DEF IndInv, TypeOK
  <2> QED
    BY <1>a, <1>b, <2>1 DEF IndInv, TypeOK, table, ReturnToUser, sched, Modes
<1>2. TableInv'
  BY <1>a, TableKept DEF IndInv, table
<1>3. ScanInv'
  BY <1>a DEF IndInv, ScanInv, table, ReturnToUser, sched
<1>4. ModeInv'
  BY <1>a DEF IndInv, ModeInv, RunningTaskIsActive, TicksOnOutsideSyscalls,
     Live, table, ReturnToUser, sched
<1>5. NoLostIpcWakeup'
  <2>1. status[p] = ACTIVE
    BY <1>a DEF IndInv, ModeInv, RunningTaskIsActive
  <2> QED
    BY <1>0, <1>a, <2>1 DEF IndInv, TypeOK, NoLostIpcWakeup, Live, table,
       ACTIVE, IPCWAIT
<1>6. BlockedParentHasChild'
  BY <1>a DEF IndInv, BlockedParentHasChild, Live, table
<1>7. ContextInv'
  BY <1>a DEF IndInv, ContextInv, SavedContextIsUser, Live, table, ReturnToUser
<1> QED
  BY <1>1, <1>2, <1>3, <1>4, <1>5, <1>6, <1>7 DEF IndInv

(***************************************************************************)
(* The invariant holds at first and every step keeps it.                   *)
(***************************************************************************)

\* The state kernel_init leaves behind satisfies the invariant.
LEMMA InitEstablishes == Init => IndInv
<1> SUFFICES ASSUME Init PROVE IndInv
  OBVIOUS
<1> USE TasksAssumption
<1>1. TypeOK
  BY EmptyQueueType DEF Init, TypeOK, Modes, Pids, Statuses, ACTIVE, RES
<1>2. TableInv
  <2>1. LiveTasks = 0 .. NShells
    BY DEF Init, LiveTasks, Live, Pids, TASK, NULL
  <2>2. Cardinality(LiveTasks) <= Capacity
    BY <2>1, FS_Interval
  <2>3. \A p, q \in Pids : p < q /\ task_table[q] # NULL => task_table[p] # NULL
    BY DEF Init, Pids, TASK, NULL
  <2>4. \A p \in Pids : p > Capacity => task_table[p] = NULL
    BY DEF Init, Pids, TASK, NULL
  <2> QED
    BY <2>2, <2>3, <2>4 DEF TableInv
<1>3. ScanInv /\ ModeInv
  BY DEF Init, ScanInv, ModeInv, TicksOnOutsideSyscalls, RunningTaskIsActive,
     Live, Pids, TASK
<1>4. NoLostIpcWakeup /\ BlockedParentHasChild /\ ContextInv
  BY DEF Init, NoLostIpcWakeup, BlockedParentHasChild, ContextInv,
     SavedContextIsUser, ACTIVE, RES, IPCWAIT, PROCWAIT
<1> QED
  BY <1>1, <1>2, <1>3, <1>4 DEF IndInv

\* Every step of the kernel, the tasks and the timer keeps the invariant.
LEMMA StepKeeps == IndInv /\ [Next]_vars => IndInv'
<1> SUFFICES ASSUME IndInv, [Next]_vars PROVE IndInv'
  OBVIOUS
<1>1. CASE Timer
  BY <1>1, TickKeeps, UndefinedKeeps DEF Timer, TaskSwitch
<1>2. CASE UserStep
  <2>1. CASE Exception
    BY <2>1, QuitKeeps, UndefinedKeeps DEF Exception, TaskQuit, EnterScheduler
  <2>2. CASE Fork
    BY <2>2, ForkCreates, ForkFails DEF Fork
  <2> QED
    BY <1>2, <2>1, <2>2, SyscallKeeps, IpcAwaitKeeps, VdevAwaitKeeps DEF UserStep
<1>3. CASE SyscallBody
  <2>1. CASE Quit
    BY <2>1, QuitKeeps, UndefinedKeeps DEF Quit, TaskQuit, EnterScheduler
  <2>2. CASE Execute
    BY <2>2, ExecuteKeeps DEF Execute
  <2>3. CASE ExecuteBlock
    BY <2>3, ExecuteBlockKeeps DEF ExecuteBlock
  <2>4. CASE Execve
    BY <2>4, ExecveKeeps, UndefinedKeeps DEF Execve
  <2>5. CASE IpcRead
    BY <2>5, IpcReadKeeps, UndefinedKeeps DEF IpcRead, ReturnToUser
  <2>6. CASE \E pid \in Pids, payload \in Payloads : IpcSend(pid, payload)
    BY <2>6, IpcSendKeeps, UndefinedKeeps DEF IpcSend, ReturnToUser
  <2> QED
    BY <1>3, <2>1, <2>2, <2>3, <2>4, <2>5, <2>6, ExecuteFailsKeeps,
       IoNotReadyKeeps, OtherSyscallKeeps, VdevWakeKeeps DEF SyscallBody
<1>4. CASE SchedStep
  BY <1>4, SchedWrapKeeps, SchedSkipKeeps, SchedRunKeeps, SchedRetryKeeps,
     RetryNotReadyKeeps, RetryDoneKeeps DEF SchedStep
<1>5. CASE StalePid
  BY <1>5, UndefinedKeeps DEF StalePid
<1>6. CASE UNCHANGED vars
  BY <1>6, TableKept DEF vars, IndInv, TypeOK, ScanInv, ModeInv,
     TicksOnOutsideSyscalls, RunningTaskIsActive, NoLostIpcWakeup,
     BlockedParentHasChild, ContextInv, SavedContextIsUser, Live
<1> QED
  BY <1>1, <1>2, <1>3, <1>4, <1>5, <1>6 DEF Next

\* Every reachable state of the kernel core satisfies the invariant.
THEOREM Invariance == Spec => []IndInv
  BY InitEstablishes, StepKeeps, PTL DEF Spec

(***************************************************************************)
(* What follows from it.                                                   *)
(***************************************************************************)

\* Type correctness: every variable keeps its type.
THEOREM TypeCorrect == Spec => []TypeOK
<1>1. IndInv => TypeOK
  BY DEF IndInv
<1> QED
  BY <1>1, Invariance, PTL

\* The scheduler's scan never leaves task_table: with memory for Capacity
\* task records and two slots more than that in the table, current_task++
\* meets a NULL slot in time, failed creations included.
THEOREM ScanSafe == Spec => []ScanStaysInTable
<1>1. IndInv => ScanStaysInTable
  BY ScanInTable DEF IndInv, ScanStaysInTable
<1> QED
  BY <1>1, Invariance, PTL

\* No task is hidden behind a NULL slot from the scheduler or from
\* ipc_resolve_name.
THEOREM ScanComplete == Spec => []ScanSeesEveryTask
<1>1. IndInv => ScanSeesEveryTask
  BY DEF IndInv, TableInv, ScanSeesEveryTask, Live, NULL, TASK
<1> QED
  BY <1>1, Invariance, PTL

\* IPC loses no wake-up: a task that waits has no packet.
THEOREM IpcWakeups == Spec => []NoLostIpcWakeup
<1>1. IndInv => NoLostIpcWakeup
  BY DEF IndInv
<1> QED
  BY <1>1, Invariance, PTL

\* A parent blocked in general_execute_block always has a child that can end
\* its wait, even after slots were vacated and used again.
THEOREM BlockedParents == Spec => []BlockedParentHasChild
<1>1. IndInv => BlockedParentHasChild
  BY DEF IndInv
<1> QED
  BY <1>1, Invariance, PTL

\* ts_enable brackets the bodies of system calls.
THEOREM Bracketed == Spec => []TicksOnOutsideSyscalls
<1>1. IndInv => TicksOnOutsideSyscalls
  BY DEF IndInv, ModeInv
<1> QED
  BY <1>1, Invariance, PTL

\* What runs is a live, active task, whichever way out of the kernel led to it.
THEOREM RunsActive == Spec => []RunningTaskIsActive
<1>1. IndInv => RunningTaskIsActive
  BY DEF IndInv, ModeInv
<1> QED
  BY <1>1, Invariance, PTL

\* If no task waits on the disk, every context the scheduler spins up is one
\* saved in user mode: the kernel is never preempted.
THEOREM KernelNotPreempted ==
    ASSUME "disk" \notin Workload
    PROVE  Spec => []SavedContextIsUser
<1>1. IndInv => SavedContextIsUser
  BY DEF IndInv, ContextInv
<1> QED
  BY <1>1, Invariance, PTL

(***************************************************************************)
(* What a step does to tasks other than the current one.                   *)
(***************************************************************************)

\* Task p is left as it is, or woken from a wait.
OnlyWoken(p) ==
    /\ task_table'[p] = TASK
    /\ status'[p] # status[p] =>
          status'[p] = ACTIVE /\ status[p] \in {IPCWAIT, PROCWAIT, VDEVWAIT}

\* A creation, or a failed one, takes a slot that has no task.
LEMMA CreateLeavesLive ==
    ASSUME TypeOK, NEW p \in Pids, Live(p),
           \/ TaskCreateFails
           \/ \E new \in Pids, st \in Statuses :
                 TaskCreate(new) /\ status' = [status EXCEPT ![new] = st]
    PROVE  task_table'[p] = TASK /\ status'[p] = status[p]
<1>1. CASE TaskCreateFails
  BY <1>1 DEF TaskCreateFails, IsNewPid, TypeOK, Live
<1>2. CASE \E new \in Pids, st \in Statuses :
              TaskCreate(new) /\ status' = [status EXCEPT ![new] = st]
  BY <1>2 DEF TaskCreate, IsNewPid, TypeOK, Live
<1> QED
  BY <1>1, <1>2

\* task_quit wakes a parent in PROCWAIT and ends the current task alone.
LEMMA QuitLeavesOthers ==
    ASSUME TypeOK, NEW p \in Pids, Live(p), p # current_task, current_task \in Pids,
           TaskQuit
    PROVE  OnlyWoken(p)
<1>1. CASE Undefined
  BY <1>1 DEF Undefined, table, OnlyWoken, Live
<1>2. CASE /\ task_table' = [task_table EXCEPT ![current_task] = Vacated]
           /\ status' = [status EXCEPT
                 ![parent[current_task]] =
                    IF Live(parent[current_task]) THEN WokenParent(@) ELSE @,
                 ![current_task] = RES]
  <2>1. task_table'[p] = TASK
    BY <1>2 DEF TypeOK, Live
  <2>2. status'[p] \in {status[p], WokenParent(status[p])}
    BY <1>2 DEF TypeOK
  <2> QED
    BY <2>1, <2>2 DEF OnlyWoken, WokenParent
<1> QED
  BY <1>1, <1>2 DEF TaskQuit

\* A task that blocks changes no other.
LEMMA BlockLeavesOthers ==
    ASSUME TypeOK, NEW p \in Pids, Live(p), p # current_task, NEW st,
           Block(st), UNCHANGED task_table
    PROVE  OnlyWoken(p)
  BY DEF Block, TypeOK, OnlyWoken, Live

\* The steps of a task in user mode.
LEMMA UserLeavesOthers ==
    ASSUME IndInv, NEW p \in Pids, Live(p), p # current_task, UserStep
    PROVE  OnlyWoken(p)
<1>0. TypeOK
  BY DEF IndInv
<1>1. CASE Syscall
  BY <1>1 DEF Syscall, table, OnlyWoken, Live
<1>2. CASE Exception
  <2>1. mode = "user" /\ TaskQuit
    BY <1>2 DEF Exception
  <2>2. current_task \in Pids
    BY <2>1 DEF IndInv, ModeInv, RunningTaskIsActive
  <2> QED
    BY <1>0, <2>1, <2>2, QuitLeavesOthers
<1>3. CASE IpcAwait
  BY <1>0, <1>3, BlockLeavesOthers DEF IpcAwait
<1>4. CASE VdevAwait
  BY <1>0, <1>4, BlockLeavesOthers DEF VdevAwait
<1>5. CASE Fork
  <2>1. current_task \in Pids
    BY <1>5 DEF Fork, IndInv, ModeInv, RunningTaskIsActive
  <2>2. status[current_task] \in Statuses
    BY <1>0, <2>1 DEF TypeOK
  <2> QED
    BY <1>0, <1>5, <2>2, CreateLeavesLive DEF Fork, OnlyWoken
<1> QED
  BY <1>1, <1>2, <1>3, <1>4, <1>5 DEF UserStep

\* The bodies of system calls: a send wakes from IPCWAIT, an access to a
\* device from VDEVWAIT, a quit from PROCWAIT.
LEMMA SyscallLeavesOthers ==
    ASSUME IndInv, NEW p \in Pids, Live(p), p # current_task, SyscallBody
    PROVE  OnlyWoken(p)
<1>0. TypeOK
  BY DEF IndInv
<1> HIDE DEF IndInv
<1>1. CASE Quit
  <2>1. mode = "syscall" /\ TaskQuit
    BY <1>1 DEF Quit
  <2>2. current_task \in Pids
    BY <2>1 DEF IndInv, ModeInv, RunningTaskIsActive
  <2> QED
    BY <1>0, <2>1, <2>2, QuitLeavesOthers
<1>2. CASE ExecuteFails
  BY <1>0, <1>2, CreateLeavesLive DEF ExecuteFails, table, OnlyWoken, Live
<1>3. CASE Execute
  BY <1>0, <1>3, CreateLeavesLive DEF Execute, OnlyWoken, Statuses
<1>4. CASE ExecuteBlock
  BY <1>0, <1>4 DEF ExecuteBlock, TaskCreate, IsNewPid, OnlyWoken, TypeOK, Live
<1>5. CASE Execve
  BY <1>0, <1>5 DEF Execve, Undefined, table, OnlyWoken, TypeOK, Live
<1>6. CASE IoNotReady
  BY <1>0, <1>6, BlockLeavesOthers DEF IoNotReady, OnlyWoken, TypeOK, Live
<1>7. CASE OtherSyscall
  BY <1>7 DEF OtherSyscall, table, OnlyWoken, Live
<1>8. CASE IpcRead
  BY <1>8 DEF IpcRead, Undefined, table, OnlyWoken, Live
<1>9. CASE \E pid \in Pids : VdevWake(pid)
  BY <1>0, <1>9 DEF VdevWake, OnlyWoken, TypeOK, Live
<1>10. CASE \E pid \in Pids, payload \in Payloads : IpcSend(pid, payload)
  BY <1>0, <1>10 DEF IpcSend, Undefined, table, OnlyWoken, TypeOK, Live
<1> QED
  BY <1>1, <1>2, <1>3, <1>4, <1>5, <1>6, <1>7, <1>8, <1>9, <1>10 DEF SyscallBody

\* The timer and the scheduler: a repeated access may wake a device's manager.
LEMMA SchedLeavesOthers ==
    ASSUME IndInv, NEW p \in Pids, Live(p), p # current_task, Timer \/ SchedStep
    PROVE  OnlyWoken(p)
<1>0. TypeOK
  BY DEF IndInv
<1>1. CASE Timer
  BY <1>1 DEF Timer, TaskSwitch, Undefined, table, OnlyWoken, Live
<1>2. CASE SchedWrap \/ SchedSkip \/ SchedRun \/ SchedRetry
  BY <1>2 DEF SchedWrap, SchedSkip, SchedRun, SchedRetry, table, OnlyWoken, Live
<1>3. CASE RetryNotReady \/ RetryDone
  BY <1>0, <1>3 DEF RetryNotReady, RetryDone, OnlyWoken, TypeOK, Live
<1> QED
  BY <1>1, <1>2, <1>3 DEF SchedStep

\* Nobody but the running task puts a task to sleep or ends it: whatever
\* quits, sends, device accesses and retries do to other tasks is to wake one
\* that waits for just that kind of event.
THEOREM OthersWoken == Spec => OthersOnlyWoken
<1>1. IndInv /\ [Next]_vars =>
         [\A p \in Pids : p # current_task /\ Live(p) =>
             /\ task_table'[p] = TASK
             /\ status'[p] # status[p] =>
                   status'[p] = ACTIVE /\ status[p] \in {IPCWAIT, PROCWAIT, VDEVWAIT}
         ]_vars
  <2> SUFFICES ASSUME IndInv, Next, NEW p \in Pids, p # current_task, Live(p)
               PROVE  OnlyWoken(p)
    BY DEF OnlyWoken
  <2> QED
    BY UserLeavesOthers, SyscallLeavesOthers, SchedLeavesOthers
       DEF Next, StalePid, Undefined, table, OnlyWoken, Live
<1> QED
  BY <1>1, Invariance, PTL DEF Spec, OthersOnlyWoken
=============================================================================
