------------------------------- MODULE Tasks -------------------------------
(***************************************************************************)
(* The multitasking core of the echidnaOS kernel: the task table, the      *)
(* round-robin scheduler, the timer interrupt and the system-call entry    *)
(* path, task creation and termination, blocking execution of a child,     *)
(* tasks blocked on I/O, and the IPC packet queues.                        *)
(*                                                                         *)
(*   kernel/src/task.c          task_create, task_fork, general_execute,   *)
(*                              general_execute_block, task_switch,        *)
(*                              task_scheduler, task_quit, execve          *)
(*   kernel/asm/isr.asm         irq0_handler, syscall and its special      *)
(*                              routines, fork_isr, ipc_await, vdev_await  *)
(*   kernel/src/syscalls.c      ipc_send_packet, ipc_read_packet and the   *)
(*                              enter_*wait_status routines                *)
(*   kernel/src/drivers/exceptions.c   exception_handler                   *)
(*                                                                         *)
(* One processor.  A task runs in user mode until the timer, a system call *)
(* or an exception enters the kernel.  The only preemption is the timer's, *)
(* and it needs the interrupt flag (IF) and ts_enable: each step below is  *)
(* a stretch of code the timer cannot split.                               *)
(***************************************************************************)
EXTENDS Integers, FiniteSets

CONSTANTS
    MaxTasks,   \* KRNL_MAX_TASKS: the length of task_table
    Capacity,   \* how many task records memory has room for at once
    NShells,    \* the shells kernel_init starts
    Payloads,   \* what an IPC packet points to; 0 is the null pointer
    IpcMax,     \* bound: no packet is sent to a queue of this length
    Workload    \* which of Conditions the programs and the machine meet

(***************************************************************************)
(* Conditions a run may or may not include:                                *)
(*   "disk"        a task waits in IOWAIT on a file that is on disk        *)
(*   "orphans"     a task may end while a task it started is still there   *)
(*   "low_memory"  kalloc may return NULL                                  *)
(*   "bad_pids"    a packet is sent to a pid past the table, or a device   *)
(*                 used whose manager has ended                            *)
(***************************************************************************)
Conditions == {"disk", "orphans", "low_memory", "bad_pids"}

(***************************************************************************)
(* A task record takes at least 33 pages with its image (16 reserved, 16   *)
(* of stack, 1 of metadata), so 65536 of them do not fit in the 4 GiB of a *)
(* 32-bit machine: memory runs out well before the table does.             *)
(***************************************************************************)
ASSUME TasksAssumption ==
    /\ MaxTasks \in Nat /\ Capacity \in Nat /\ NShells \in Nat
    /\ NShells + 1 <= Capacity
    /\ Capacity + 2 <= MaxTasks
    /\ IpcMax \in Nat \ {0}
    /\ Payloads \subseteq Nat \ {0}
    /\ Workload \subseteq Conditions

Pids == 0 .. MaxTasks - 1

\* The three things a slot of task_table holds: a null pointer (never used),
\* the EMPTY_PID marker (used and vacated), or a pointer to a task record.
NULL == "NULL"
EMPTY_PID == "EMPTY_PID"
TASK == "TASK"

\* task_t.status
ACTIVE == "ACTIVE"
RES == "RES"
IOWAIT == "IOWAIT"
IPCWAIT == "IPCWAIT"
PROCWAIT == "PROCWAIT"
VDEVWAIT == "VDEVWAIT"
Statuses == {ACTIVE, RES, IOWAIT, IPCWAIT, PROCWAIT, VDEVWAIT}

\* ipc_packet_t.  Queue memory that was never written holds zeroes, a packet
\* whose payload is a null pointer.
Packets == [sender : Pids, payload : Payloads \cup {0}]
ZeroPacket == [sender |-> 0, payload |-> 0]

VARIABLES
    task_table,     \* slot -> NULL, EMPTY_PID or TASK
    status,         \* task_t.status
    parent,         \* task_t.parent
    cpu,            \* task_t.cpu: a "user" or a "kernel" context was saved
    ipc_queue,      \* the memory behind task_t.ipc_queue, stale cells included
    ipc_queue_ptr,  \* task_t.ipc_queue_ptr: how many of its cells are queued
    current_task,
    idle_cpu,       \* no process took CPU time since the last wrap
    ts_enable,      \* the timer may switch tasks
    int_flag,       \* the processor's interrupt flag (IF)
    mode,           \* what the processor is executing
    awaited         \* ghost: the child general_execute_block started

(***************************************************************************)
(* mode: "user" the current task at ring 3; "syscall" the body of a system *)
(* call for it; "sched" the loop of task_scheduler; "retry" the scheduler  *)
(* inside the read or write of an IOWAIT task; "idle" the hlt loop; and    *)
(* "undefined" once the kernel has gone through NULL, EMPTY_PID or a       *)
(* context that is not one: nothing is claimed about what follows.         *)
(***************************************************************************)
Modes == {"user", "syscall", "sched", "retry", "idle", "undefined"}

table == <<task_table, status, parent, cpu, awaited>>
ipc == <<ipc_queue, ipc_queue_ptr>>
sched == <<current_task, idle_cpu>>
irq == <<ts_enable, int_flag>>
vars == <<task_table, status, parent, cpu, ipc_queue, ipc_queue_ptr,
          current_task, idle_cpu, ts_enable, int_flag, mode, awaited>>

Live(p) == task_table[p] = TASK

EmptyQueue == [i \in 0 .. IpcMax - 1 |-> ZeroPacket]

\* A kalloc that may come back with NULL.
KallocFails == "low_memory" \in Workload

LiveTasks == {p \in Pids : Live(p)}

\* Memory has room for one more task record.
RoomForTask == Cardinality(LiveTasks) < Capacity

----------------------------------------------------------------------------
(* The end of kernel_init: the kernel task in slot 0, the shells after it, *)
(* the processor in ENTER_IDLE.                                            *)

Init ==
    /\ task_table = [p \in Pids |-> IF p <= NShells THEN TASK ELSE NULL]
    /\ status = [p \in Pids |-> IF p \in 1 .. NShells THEN ACTIVE ELSE RES]
    /\ parent = [p \in Pids |-> 0]
    /\ cpu = [p \in Pids |-> "user"]
    /\ ipc_queue = [p \in Pids |-> EmptyQueue]
    /\ ipc_queue_ptr = [p \in Pids |-> 0]
    /\ current_task = 0
    /\ idle_cpu = TRUE
    /\ ts_enable = TRUE
    /\ int_flag = TRUE
    /\ mode = "idle"
    /\ awaited = [p \in Pids |-> 0]

----------------------------------------------------------------------------
(* Transfers of control shared by the handlers. *)

\* The kernel is past the end of what it defines.
Undefined ==
    /\ mode' = "undefined"
    /\ UNCHANGED <<table, ipc, sched, irq>>

\* Mutant: the way into the scheduler that does not set ts_enable again.
EnterSchedulerTicksOff ==
    /\ mode' = "sched"
    /\ int_flag' = FALSE
    /\ UNCHANGED <<ts_enable, idle_cpu>>

\* task_scheduler() is called: interrupts are off, task switching is on.
EnterScheduler ==
    /\ mode' = "sched"
    /\ int_flag' = FALSE
    /\ ts_enable' = TRUE
    /\ UNCHANGED idle_cpu

\* cli, ts_enable = 1, iretd: the system call returns to its caller.
ReturnToUser ==
    /\ mode' = "user"
    /\ int_flag' = TRUE
    /\ ts_enable' = TRUE
    /\ UNCHANGED sched

\* Mutant: vacated slots are not used again, as in the disabled task_start.
IsNewPidNullOnly(new) ==
    /\ new \in Pids
    /\ task_table[new] = NULL
    /\ \A p \in Pids : p < new => task_table[p] # NULL

\* The slot task_create takes: the lowest one without a task.
IsNewPid(new) ==
    /\ new \in Pids
    /\ ~Live(new)
    /\ \A p \in Pids : p < new => Live(p)

\* task_create succeeds; the record is one the caller has filled in.
TaskCreate(new) ==
    /\ RoomForTask
    /\ IsNewPid(new)
    /\ task_table' = [task_table EXCEPT ![new] = TASK]
    /\ parent' = [parent EXCEPT ![new] = current_task]
    /\ cpu' = [cpu EXCEPT ![new] = "user"]
    /\ ipc_queue' = [ipc_queue EXCEPT ![new] = EmptyQueue]
    /\ ipc_queue_ptr' = [ipc_queue_ptr EXCEPT ![new] = 0]

\* The caller sees FAILURE: an earlier kalloc came back NULL and the table is
\* as it was, or it was the task record's and the slot becomes EMPTY_PID.
TaskCreateFails ==
    /\ KallocFails \/ ~RoomForTask
    /\ \/ UNCHANGED task_table
       \/ \E new \in Pids :
             /\ IsNewPid(new)
             /\ task_table' = [task_table EXCEPT ![new] = EMPTY_PID]
    /\ UNCHANGED <<status, parent, cpu, awaited, ipc>>

\* task_switch: save the interrupted context in the current task's record,
\* step to the next slot and schedule.  A slot without a record takes the
\* store through a null or EMPTY_PID pointer.
TaskSwitch(context) ==
    \/ /\ Live(current_task)
       /\ cpu' = [cpu EXCEPT ![current_task] = context]
       /\ current_task' = current_task + 1
       /\ EnterScheduler
       /\ UNCHANGED <<task_table, status, parent, awaited, ipc>>
    \/ /\ ~Live(current_task)
       /\ Undefined

\* A task blocks itself in status st and gives up the processor.
Block(st) ==
    /\ status' = [status EXCEPT ![current_task] = st]
    /\ cpu' = [cpu EXCEPT ![current_task] = "user"]
    /\ current_task' = current_task + 1
    /\ EnterScheduler

\* The current task may end: without "orphans" its children have ended first.
MayQuit ==
    \/ "orphans" \in Workload
    \/ \A c \in Pids : Live(c) => parent[c] # current_task

\* Mutants: the slot is cleared; the parent is not woken; the parent is woken
\* whatever it does.
VacatedNull == NULL
NeverWoken(st) == st
AlwaysWoken(st) == ACTIVE

\* What task_quit leaves in the slot.
Vacated == EMPTY_PID

\* What it makes of the status of the parent.
WokenParent(st) == IF st = PROCWAIT THEN ACTIVE ELSE st

\* task_quit(current_task, ...): a waiting parent is woken, the slot becomes
\* EMPTY_PID and the scheduler resumes on it.  The parent's record is read
\* without asking whether the slot still holds one: through EMPTY_PID the
\* read faults, or yields something that is not KRN_STAT_PROCWAIT_TASK.
TaskQuit ==
    LET p == current_task
        par == parent[p]
    IN
    /\ MayQuit
    /\ \/ /\ task_table' = [task_table EXCEPT ![p] = Vacated]
          /\ status' = [status EXCEPT
                ![par] = IF Live(par) THEN WokenParent(@) ELSE @,
                ![p] = RES]
          /\ parent' = [parent EXCEPT ![p] = 0]
          /\ cpu' = [cpu EXCEPT ![p] = "user"]
          /\ ipc_queue' = [ipc_queue EXCEPT ![p] = EmptyQueue]
          /\ ipc_queue_ptr' = [ipc_queue_ptr EXCEPT ![p] = 0]
          /\ awaited' = [awaited EXCEPT ![p] = 0]
          /\ EnterScheduler
          /\ UNCHANGED current_task
       \/ /\ ~Live(par)
          /\ Undefined

----------------------------------------------------------------------------
(* The timer. *)

\* irq0_handler with ts_enable set.  (With ts_enable clear it only
\* acknowledges the interrupt: a stuttering step.)
Timer ==
    /\ int_flag
    /\ ts_enable
    /\ mode # "undefined"
    /\ TaskSwitch(IF mode = "user" THEN "user" ELSE "kernel")

----------------------------------------------------------------------------
(* What a task in user mode may do next. *)

\* Mutant: task switching stays on.
SyscallTicksOn ==
    /\ mode = "user"
    /\ mode' = "syscall"
    /\ int_flag' = TRUE
    /\ UNCHANGED <<table, ipc, sched, ts_enable>>

\* syscall: task switching off, interrupts on.
Syscall ==
    /\ mode = "user"
    /\ mode' = "syscall"
    /\ ts_enable' = FALSE
    /\ int_flag' = TRUE
    /\ UNCHANGED <<table, ipc, sched>>

\* exception_handler, taken from user code.
Exception ==
    /\ mode = "user"
    /\ TaskQuit

\* Mutant: wait without looking at the queue.
IpcAwaitUnguarded ==
    /\ mode = "user"
    /\ Block(IPCWAIT)
    /\ UNCHANGED <<task_table, parent, awaited, ipc>>

\* ipc_await, entered with interrupts off: wait only on an empty queue.
IpcAwait ==
    /\ mode = "user"
    /\ Block(IF ipc_queue_ptr[current_task] = 0 THEN IPCWAIT
                                                ELSE status[current_task])
    /\ UNCHANGED <<task_table, parent, awaited, ipc>>

\* vdev_await.
VdevAwait ==
    /\ mode = "user"
    /\ Block(VDEVWAIT)
    /\ UNCHANGED <<task_table, parent, awaited, ipc>>

\* The device side of vdev_await: vdev_io_wrapper wakes the manager.  The
\* access is made by a system call of another task.
VdevWake(p) ==
    /\ mode = "syscall"
    /\ Live(p)
    /\ status[p] = VDEVWAIT
    /\ status' = [status EXCEPT ![p] = ACTIVE]
    /\ ReturnToUser
    /\ UNCHANGED <<task_table, parent, cpu, awaited, ipc>>

\* fork_isr and task_fork, with interrupts off throughout.  The child is a
\* copy of the caller; both calls of task_scheduler stay on current_task.
Fork ==
    /\ mode = "user"
    /\ \/ \E new \in Pids :
             /\ TaskCreate(new)
             /\ status' = [status EXCEPT ![new] = status[current_task]]
             /\ awaited' = [awaited EXCEPT ![new] = 0]
       \/ TaskCreateFails
    /\ EnterScheduler
    /\ UNCHANGED current_task

----------------------------------------------------------------------------
(* The bodies of the system calls. *)

\* task_quit_self, and the calls that end their caller for a bogus argument:
\* ipc_send_packet, ipc_read_packet, ipc_resolve_name.
Quit ==
    /\ mode = "syscall"
    /\ TaskQuit

\* general_execute fails: no such file, or no memory for the task.
ExecuteFails ==
    /\ mode = "syscall"
    /\ \/ UNCHANGED table /\ UNCHANGED ipc
       \/ TaskCreateFails
    /\ ReturnToUser

\* general_execute.
Execute ==
    /\ mode = "syscall"
    /\ \E new \in Pids :
          /\ TaskCreate(new)
          /\ status' = [status EXCEPT ![new] = ACTIVE]
          /\ awaited' = [awaited EXCEPT ![new] = 0]
    /\ ReturnToUser

\* gen_exec_block_isr and general_execute_block: start the child, then wait
\* for it.
ExecuteBlock ==
    LET p == current_task
    IN
    /\ mode = "syscall"
    /\ \E new \in Pids :
          /\ TaskCreate(new)
          /\ status' = [status EXCEPT ![new] = ACTIVE, ![p] = PROCWAIT]
          /\ awaited' = [awaited EXCEPT ![new] = 0, ![p] = new]
    /\ current_task' = p + 1
    /\ EnterScheduler

\* execve: a fresh context in the same slot.  (With a missing file it
\* returns -1, as ExecuteFails does.)  A base of NULL is not noticed.
Execve ==
    /\ mode = "syscall"
    /\ \/ /\ status' = [status EXCEPT ![current_task] = ACTIVE]
          /\ cpu' = [cpu EXCEPT ![current_task] = "user"]
          /\ EnterScheduler
          /\ UNCHANGED <<task_table, parent, awaited, ipc, current_task>>
       \/ /\ KallocFails
          /\ Undefined

\* read_isr, write_isr, vfs_read_isr, vfs_write_isr when the device is not
\* ready: enter_iowait_status and task_switch.  (When it is ready the call
\* returns as any other does.)  The bytes before the one that was not ready
\* may have woken the manager of a vdev.
IoNotReady ==
    /\ mode = "syscall"
    /\ \/ Block(IOWAIT)
       \/ \E p \in Pids :
             /\ Live(p) /\ status[p] = VDEVWAIT
             /\ status' = [status EXCEPT ![current_task] = IOWAIT, ![p] = ACTIVE]
             /\ cpu' = [cpu EXCEPT ![current_task] = "user"]
             /\ current_task' = current_task + 1
             /\ EnterScheduler
    /\ UNCHANGED <<task_table, parent, awaited, ipc>>

\* A system call that touches none of this state, or I/O done at once.
OtherSyscall ==
    /\ mode = "syscall"
    /\ ReturnToUser
    /\ UNCHANGED <<table, ipc>>

\* ipc_send_packet to a pid that has a task.  (One without, or a bogus
\* length, is Quit; one past the table is StalePid.)  The two allocations are
\* not checked.
IpcSend(pid, payload) ==
    LET n == ipc_queue_ptr[pid]
    IN
    /\ mode = "syscall"
    /\ Live(pid)
    /\ n < IpcMax
    /\ \/ /\ ipc_queue' = [ipc_queue EXCEPT
                ![pid][n] = [sender |-> current_task, payload |-> payload]]
          /\ ipc_queue_ptr' = [ipc_queue_ptr EXCEPT ![pid] = n + 1]
          /\ status' = [status EXCEPT
                ![pid] = IF @ = IPCWAIT THEN ACTIVE ELSE @]
          /\ ReturnToUser
          /\ UNCHANGED <<task_table, parent, cpu, awaited>>
       \/ /\ KallocFails
          /\ Undefined

\* Mutant: no test for an empty queue.
IpcReadUnguarded ==
    /\ mode = "syscall"
    /\ ipc_queue_ptr' = [ipc_queue_ptr EXCEPT ![current_task] = @ - 1]
    /\ ReturnToUser
    /\ UNCHANGED <<table, ipc_queue>>

\* ipc_read_packet on a queue of one packet, or of more.  The loop that
\* pushes the queue back runs downwards over the queue of the SENDER, so
\* every cell below the last takes the value of cell n - 1 of that queue.
\* A sender that is gone, or has no queue of its own, makes it write through
\* a pointer to nothing; so does freeing the payload of a zero packet.
IpcRead ==
    LET p == current_task
        n == ipc_queue_ptr[p]
        head == ipc_queue[p][0]
        s == head.sender
        pushed == IF n = 1 THEN ipc_queue
                  ELSE [ipc_queue EXCEPT ![s] =
                           [i \in 0 .. IpcMax - 1 |->
                               IF i < n - 1 THEN ipc_queue[s][n - 1]
                                            ELSE ipc_queue[s][i]]]
    IN
    /\ mode = "syscall"
    /\ n > 0
    /\ \/ /\ head.payload # 0
          /\ n > 1 => Live(s) /\ ipc_queue_ptr[s] > 0
          /\ ipc_queue' = IF n = 1 THEN [pushed EXCEPT ![p] = EmptyQueue]
                                   ELSE pushed
          /\ ipc_queue_ptr' = [ipc_queue_ptr EXCEPT ![p] = n - 1]
          /\ ReturnToUser
          /\ UNCHANGED table
       \/ /\ \/ head.payload = 0
             \/ n > 1 /\ (~Live(s) \/ ipc_queue_ptr[s] = 0)
          /\ Undefined

----------------------------------------------------------------------------
(* task_scheduler: one step per turn of its loop. *)

\* Mutant: idle_cpu is not set again.
SchedWrapNeverIdle ==
    /\ mode = "sched"
    /\ task_table[current_task] = NULL
    /\ current_task' = 0
    /\ IF idle_cpu THEN mode' = "idle" /\ int_flag' = TRUE
                   ELSE UNCHANGED <<mode, int_flag>>
    /\ UNCHANGED <<table, ipc, ts_enable, idle_cpu>>

\* Past the last task: wrap, and idle if nobody ran since the last wrap.
SchedWrap ==
    /\ mode = "sched"
    /\ task_table[current_task] = NULL
    /\ current_task' = 0
    /\ idle_cpu' = TRUE
    /\ IF idle_cpu THEN mode' = "idle" /\ int_flag' = TRUE
                   ELSE UNCHANGED <<mode, int_flag>>
    /\ UNCHANGED <<table, ipc, ts_enable>>

\* An EMPTY_PID slot, or a task that is not to run.
SchedSkip ==
    /\ mode = "sched"
    /\ \/ task_table[current_task] = EMPTY_PID
       \/ Live(current_task) /\ status[current_task] \in
             {IPCWAIT, PROCWAIT, VDEVWAIT, RES}
    /\ current_task' = current_task + 1
    /\ UNCHANGED <<table, ipc, idle_cpu, irq, mode>>

\* task_spinup of the current task's saved context.
TaskSpinup ==
    /\ idle_cpu' = FALSE
    /\ IF cpu[current_task] = "user" THEN mode' = "user" /\ int_flag' = TRUE
                                     ELSE mode' = "undefined" /\ UNCHANGED int_flag
    /\ UNCHANGED <<current_task, ts_enable>>

SchedRun ==
    /\ mode = "sched"
    /\ Live(current_task)
    /\ status[current_task] = ACTIVE
    /\ TaskSpinup
    /\ UNCHANGED <<table, ipc>>

\* The scheduler repeats the I/O a task waits for.  If that reaches the disk
\* (bd.c), the driver's ENABLE_INTERRUPTS leaves the interrupt flag set.
SchedRetry ==
    /\ mode = "sched"
    /\ Live(current_task)
    /\ status[current_task] = IOWAIT
    /\ mode' = "retry"
    /\ \/ UNCHANGED int_flag
       \/ "disk" \in Workload /\ int_flag' = TRUE
    /\ UNCHANGED <<table, ipc, sched, ts_enable>>

\* IO_NOT_READY again, at the first byte or at a later one.
RetryNotReady ==
    /\ mode = "retry"
    /\ mode' = "sched"
    /\ current_task' = current_task + 1
    /\ \/ UNCHANGED status
       \/ \E p \in Pids :
             /\ Live(p) /\ status[p] = VDEVWAIT
             /\ status' = [status EXCEPT ![p] = ACTIVE]
    /\ UNCHANGED <<task_table, parent, cpu, awaited, ipc, idle_cpu, irq>>

\* Mutant: the task runs and is still marked as waiting.
RetryDoneStillWaiting ==
    /\ mode = "retry"
    /\ TaskSpinup
    /\ UNCHANGED <<table, ipc>>

\* The result goes to the task, which runs.  If the device is a vdev its
\* manager may be woken by the access.
RetryDone ==
    /\ mode = "retry"
    /\ \/ status' = [status EXCEPT ![current_task] = ACTIVE]
       \/ \E p \in Pids :
             /\ Live(p) /\ status[p] = VDEVWAIT
             /\ status' = [status EXCEPT ![current_task] = ACTIVE, ![p] = ACTIVE]
    /\ TaskSpinup
    /\ UNCHANGED <<task_table, parent, cpu, awaited, ipc>>

\* ipc_send_packet looks for the task of any pid it is given, also past the
\* table; vdev_io_wrapper follows the pointer of a manager that has ended, in
\* a call or in the scheduler.
StalePid ==
    /\ "bad_pids" \in Workload
    /\ mode \in {"syscall", "retry"}
    /\ Undefined

----------------------------------------------------------------------------

UserStep ==
    \/ Syscall \/ Exception \/ IpcAwait \/ VdevAwait \/ Fork

SyscallBody ==
    \/ Quit \/ ExecuteFails \/ Execute \/ ExecuteBlock \/ Execve
    \/ IoNotReady \/ OtherSyscall \/ IpcRead
    \/ \E pid \in Pids : VdevWake(pid)
    \/ \E pid \in Pids, payload \in Payloads : IpcSend(pid, payload)

SchedStep ==
    \/ SchedWrap \/ SchedSkip \/ SchedRun \/ SchedRetry
    \/ RetryNotReady \/ RetryDone

Next == Timer \/ UserStep \/ SyscallBody \/ SchedStep \/ StalePid

(***************************************************************************)
(* The timer is free-running at 4 kHz, so it does not miss user mode for   *)
(* ever (strong fairness: system calls keep clearing ts_enable).  Kernel   *)
(* code runs to its end: the scheduler's loop and a system call's body are *)
(* weakly fair.  Nothing is assumed of what a task does in user mode, nor  *)
(* of a device ever becoming ready.                                        *)
(***************************************************************************)
Fairness ==
    /\ SF_vars(Timer)
    /\ WF_vars(SchedStep)
    /\ WF_vars(SyscallBody)

Spec == Init /\ [][Next]_vars /\ Fairness
----------------------------------------------------------------------------
(* Properties. *)

\* Every variable has its type.
TypeOK ==
    /\ task_table \in [Pids -> {NULL, EMPTY_PID, TASK}]
    /\ status \in [Pids -> Statuses]
    /\ parent \in [Pids -> Pids]
    /\ cpu \in [Pids -> {"user", "kernel"}]
    /\ ipc_queue \in [Pids -> [0 .. IpcMax - 1 -> Packets]]
    /\ ipc_queue_ptr \in [Pids -> 0 .. IpcMax]
    /\ current_task \in 0 .. MaxTasks
    /\ idle_cpu \in BOOLEAN
    /\ ts_enable \in BOOLEAN
    /\ int_flag \in BOOLEAN
    /\ mode \in Modes
    /\ awaited \in [Pids -> Pids]

\* task_scheduler wraps, and ipc_resolve_name stops, at the first NULL slot:
\* no task may ever sit above one, whatever was created, ended or failed to
\* be created before.
ScanSeesEveryTask ==
    \A p, q \in Pids : p < q /\ Live(q) => task_table[p] # NULL

\* The scheduler's unchecked current_task++ never leaves the table: memory
\* runs out while a NULL slot is still ahead of it, and a failed creation
\* does not eat the NULL slots one by one.
ScanStaysInTable == current_task \in Pids

\* No lost wake-up in IPC: ipc_send_packet is the only thing that ends an
\* IPCWAIT, so a task must not be waiting while it has a packet.
NoLostIpcWakeup ==
    \A p \in Pids : Live(p) /\ status[p] = IPCWAIT => ipc_queue_ptr[p] = 0

\* Only task_quit of a child ends a PROCWAIT: a parent blocked in
\* general_execute_block has a child left that can end it.
BlockedParentHasChild ==
    \A p \in Pids : Live(p) /\ status[p] = PROCWAIT =>
        \E c \in Pids : Live(c) /\ parent[c] = p

\* ts_enable is a bracket around the body of a system call.  Left cleared,
\* every later tick is dropped and no other task runs again; left set, a
\* tick switches in the middle of the kernel.
TicksOnOutsideSyscalls ==
    mode # "undefined" => (ts_enable <=> mode # "syscall")

\* What the processor runs at ring 3 is a task the scheduler may run, and
\* ticks reach it.
RunningTaskIsActive ==
    mode \in {"user", "syscall"} =>
        /\ current_task \in Pids \ {0}
        /\ Live(current_task)
        /\ status[current_task] = ACTIVE
        /\ int_flag

\* "disable all interrupts, reenable task switch" (isr.asm): with task
\* switching on the kernel runs with interrupts off, so the context saved for
\* a task the scheduler may spin up is the one it had in user mode.
SavedContextIsUser ==
    \A p \in Pids : Live(p) /\ status[p] # RES => cpu[p] = "user"

\* Nobody but the running task puts a task to sleep or ends it: a step
\* changes another task only by waking it, and wakes only one that waits.
OthersOnlyWoken ==
    [][\A p \in Pids : p # current_task /\ Live(p) =>
          /\ task_table'[p] = TASK
          /\ status'[p] # status[p] =>
                status'[p] = ACTIVE /\ status[p] \in {IPCWAIT, PROCWAIT, VDEVWAIT}
      ]_vars

\* "start waiting for the child process" (task.c): a task blocked in
\* general_execute_block goes on when the child it started has ended.
WokenByAwaitedChild ==
    [][\A p \in Pids :
          Live(p) /\ status[p] = PROCWAIT /\ status'[p] = ACTIVE
            => ~ Live(awaited[p])']_vars

\* The packets queued for task p, oldest first.
Queued(p) == [i \in 0 .. ipc_queue_ptr[p] - 1 |-> ipc_queue[p][i]]

\* "push the queue back" (syscalls.c): when a task takes a packet, the packets
\* after it move up by one and those of other tasks stay as they are.
ReadPushesQueueBack ==
    [][\A p \in Pids :
          ipc_queue_ptr'[p] = ipc_queue_ptr[p] - 1 /\ mode' = "user"
            => Queued(p)' = [i \in 0 .. ipc_queue_ptr[p] - 2 |->
                                Queued(p)[i + 1]]]_vars

\* The scheduler's loop ends, whatever the tasks wait for: it finds a task to
\* run or it idles.
SchedulerSettles == mode \in {"sched", "retry"} ~> mode \in {"user", "idle"}

\* No starvation: a task that can run does, however the others call, fork,
\* quit and block.
NoStarvation ==
    \A p \in Pids \ {0} :
        Live(p) /\ status[p] = ACTIVE ~>
            mode \in {"user", "syscall"} /\ current_task = p
=============================================================================
