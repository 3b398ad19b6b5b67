------------------------------ MODULE Handles ------------------------------
(***************************************************************************)
(* Open files.  A task's descriptor is an entry of its file_handles_v2 and *)
(* names a handle of a file system; a handle of echfs names in turn an     *)
(* entry of the kernel's file_handles_v2, through which echfs reads its    *)
(* device, and that entry names a handle of devfs.                         *)
(*                                                                         *)
(*   kernel/src/vfs.c        vfs_open, vfs_kopen, vfs_close, vfs_kclose,   *)
(*                           vfs_kfork                                     *)
(*   kernel/src/fs/devfs.c, kernel/src/fs/echfs.c    open, close, fork     *)
(*   kernel/src/klib.c       create_file_handle_v2                         *)
(*   kernel/src/task.c       the handles in task_fork, general_execute and *)
(*                           task_quit                                     *)
(*                                                                         *)
(* A table is as long as it was made; an entry past its end is, like one   *)
(* marked free, the next to be used, so both are free entries here.        *)
(***************************************************************************)
EXTENDS Integers

CONSTANTS
    MaxTasks,       \* bound: pids 1 .. MaxTasks; the kernel has pid 0
    MaxHandles,     \* bound: descriptors of a task
    MaxInternal,    \* bound: entries of the kernel's and the file systems' tables
    StdStreams,     \* descriptors general_execute opens for a task: 3
    StaleCloses     \* whether programs also close descriptors they closed before

ASSUME HandlesAssumption ==
    /\ MaxTasks \in Nat /\ MaxHandles \in Nat \ {0} /\ StdStreams \in Nat
    /\ StdStreams <= MaxHandles /\ MaxHandles <= MaxInternal
    /\ MaxInternal \in Nat
    /\ StaleCloses \in BOOLEAN

KERNEL == 0
Pids == 0 .. MaxTasks
Idx == 0 .. MaxInternal - 1

\* The entries the table of p may have.
Entries(p) == 0 .. (IF p = KERNEL THEN MaxInternal ELSE MaxHandles) - 1

VARIABLES
    file_handles_v2,    \* pid -> table of descriptors
    devfs_handles,
    echfs_handles,
    live,               \* the user tasks
    pc,                 \* "ready", or the loop of "clone" or "execute"
    task,               \* the task that forks
    new,                \* the task being made
    i                   \* the loop's counter

vars == <<file_handles_v2, devfs_handles, echfs_handles, live, pc, task, new, i>>
tables == <<file_handles_v2, devfs_handles, echfs_handles>>

FileSystems == {"devfs", "echfs"}

\* file_handle_v2_t and echfs_handle_t.
Entry(fs, h) == [free |-> FALSE, fs |-> fs, internal_handle |-> h]
EchfsHandle(k) == [free |-> FALSE, dev_handle |-> k]

\* An entry not used since its table was made.
NoEntry == [free |-> TRUE, fs |-> "devfs", internal_handle |-> -1]
NoTable(p) == [h \in Entries(p) |-> NoEntry]

\* The partition the root is on has its device open.
Init ==
    /\ file_handles_v2 = [p \in Pids |-> NoTable(p)]
    /\ devfs_handles = [d \in Idx |-> [free |-> d # 0]]
    /\ echfs_handles = [e \in Idx |-> [free |-> TRUE, dev_handle |-> 0]]
    /\ live = {}
    /\ pc = "ready"
    /\ task = KERNEL /\ new = KERNEL /\ i = 0

----------------------------------------------------------------------------

HasFree(t) == {h \in DOMAIN t : t[h].free} # {}

\* "check for a free handle first": the lowest free entry, or the end.
FreeHandle(t) ==
    CHOOSE h \in DOMAIN t : t[h].free /\ \A g \in DOMAIN t : g < h => ~t[g].free

\* A handle of devfs, named by entry h of the table of p.
UseDevice(p, h) ==
    LET d == FreeHandle(devfs_handles)
    IN
    /\ HasFree(devfs_handles)
    /\ devfs_handles' = [devfs_handles EXCEPT ![d].free = FALSE]
    /\ file_handles_v2' = [file_handles_v2 EXCEPT ![p][h] = Entry("devfs", d)]
    /\ UNCHANGED echfs_handles

\* A handle of echfs with the device it reads from, named by entry h of the
\* table of p; so do open and fork (the file, its offset and the file cache are
\* not part of this module).
UseFile(p, h) ==
    LET d == FreeHandle(devfs_handles)
        k == FreeHandle(file_handles_v2[KERNEL])
        e == FreeHandle(echfs_handles)
    IN
    /\ HasFree(devfs_handles) /\ HasFree(file_handles_v2[KERNEL])
    /\ HasFree(echfs_handles)
    /\ devfs_handles' = [devfs_handles EXCEPT ![d].free = FALSE]
    /\ echfs_handles' = [echfs_handles EXCEPT ![e] = EchfsHandle(k)]
    /\ file_handles_v2' = [file_handles_v2 EXCEPT ![KERNEL][k] = Entry("devfs", d),
                                                  ![p][h] = Entry("echfs", e)]

Use(p, h, fs) == IF fs = "devfs" THEN UseDevice(p, h) ELSE UseFile(p, h)

\* vfs_open by a task.
VfsOpen(p, fs) ==
    /\ pc = "ready"
    /\ p \in live
    /\ HasFree(file_handles_v2[p])
    /\ Use(p, FreeHandle(file_handles_v2[p]), fs)
    /\ UNCHANGED <<live, pc, task, new, i>>

\* vfs_close of a device by a task: devfs_close, then the entry if it is open.
CloseDevice(p, h) ==
    LET d == file_handles_v2[p][h].internal_handle
    IN
    /\ ~devfs_handles[d].free
    /\ devfs_handles' = [devfs_handles EXCEPT ![d].free = TRUE]
    /\ file_handles_v2' = [file_handles_v2 EXCEPT ![p][h].free = TRUE]
    /\ UNCHANGED echfs_handles

\* vfs_close of a file: echfs_close closes its device through vfs_kclose, which
\* does nothing if devfs_close fails.
CloseFile(p, h) ==
    LET e == file_handles_v2[p][h].internal_handle
        k == echfs_handles[e].dev_handle
        d == file_handles_v2[KERNEL][k].internal_handle
    IN
    /\ ~echfs_handles[e].free
    /\ echfs_handles' = [echfs_handles EXCEPT ![e].free = TRUE]
    /\ devfs_handles' = [devfs_handles EXCEPT ![d].free = TRUE]
    /\ file_handles_v2' = [file_handles_v2 EXCEPT
          ![KERNEL][k].free = @ \/ ~devfs_handles[d].free,
          ![p][h].free = TRUE]

\* vfs_close.  A handle of the file system that is already free makes it
\* fail, and nothing changes.
VfsClose(p, h) ==
    /\ pc = "ready"
    /\ p \in live
    /\ file_handles_v2[p][h] # NoEntry
    /\ StaleCloses \/ ~file_handles_v2[p][h].free
    /\ IF file_handles_v2[p][h].fs = "devfs" THEN CloseDevice(p, h)
                                             ELSE CloseFile(p, h)
    /\ UNCHANGED <<live, pc, task, new, i>>

----------------------------------------------------------------------------
(* task_fork: the table is cloned before the task is created. *)

Fork(p, c) ==
    /\ pc = "ready"
    /\ p \in live /\ c \in Pids \ (live \cup {KERNEL})
    /\ pc' = "clone"
    /\ task' = p /\ new' = c /\ i' = 0
    /\ UNCHANGED <<tables, live>>

\* Mutant: the child's entry names the handle of the parent's.
CloneHandleShared ==
    /\ pc = "clone" /\ i < MaxHandles
    /\ file_handles_v2' = [file_handles_v2 EXCEPT ![new][i] = file_handles_v2[task][i]]
    /\ i' = i + 1
    /\ UNCHANGED <<devfs_handles, echfs_handles, live, pc, task, new>>

\* One turn of the loop: a new handle of the same file system, or a free entry.
CloneHandle ==
    /\ pc = "clone" /\ i < MaxHandles
    /\ IF file_handles_v2[task][i].free THEN UNCHANGED tables
                                        ELSE Use(new, i, file_handles_v2[task][i].fs)
    /\ i' = i + 1
    /\ UNCHANGED <<live, pc, task, new>>

ForkDone ==
    /\ pc = "clone" /\ i = MaxHandles
    /\ pc' = "ready"
    /\ live' = live \cup {new}
    /\ task' = KERNEL /\ new' = KERNEL /\ i' = 0
    /\ UNCHANGED tables

\* task_create fails: the table is freed, the handles in it are not closed.
ForkFails ==
    /\ pc = "clone" /\ i = MaxHandles
    /\ pc' = "ready"
    /\ file_handles_v2' = [file_handles_v2 EXCEPT ![new] = NoTable(new)]
    /\ task' = KERNEL /\ new' = KERNEL /\ i' = 0
    /\ UNCHANGED <<devfs_handles, echfs_handles, live>>

----------------------------------------------------------------------------
(* general_execute: the task is created, then its standard streams are     *)
(* opened by the kernel, copied into its table and marked free in the      *)
(* kernel's.  (The handle the program is read through is closed again.)    *)

Execute(c) ==
    /\ pc = "ready"
    /\ c \in Pids \ (live \cup {KERNEL})
    /\ pc' = "execute"
    /\ live' = live \cup {c}
    /\ new' = c /\ i' = 0
    /\ UNCHANGED <<tables, task>>

OpenStream(fs) ==
    /\ pc = "execute" /\ i < StdStreams
    /\ HasFree(file_handles_v2[new])
    /\ Use(new, FreeHandle(file_handles_v2[new]), fs)
    /\ i' = i + 1
    /\ UNCHANGED <<live, pc, task, new>>

Executed ==
    /\ pc = "execute" /\ i = StdStreams
    /\ pc' = "ready"
    /\ task' = KERNEL /\ new' = KERNEL /\ i' = 0
    /\ UNCHANGED <<tables, live>>

\* task_quit frees the table and closes nothing.
Quit(p) ==
    /\ pc = "ready"
    /\ p \in live
    /\ live' = live \ {p}
    /\ file_handles_v2' = [file_handles_v2 EXCEPT ![p] = NoTable(p)]
    /\ UNCHANGED <<devfs_handles, echfs_handles, pc, task, new, i>>

Next ==
    \/ CloneHandle \/ ForkDone \/ ForkFails \/ Executed
    \/ \E fs \in FileSystems : OpenStream(fs)
    \/ \E p \in Pids :
          \/ Execute(p) \/ Quit(p)
          \/ \E fs \in FileSystems : VfsOpen(p, fs)
          \/ \E h \in Entries(p) : VfsClose(p, h)
          \/ \E c \in Pids : Fork(p, c)

Spec == Init /\ [][Next]_vars

----------------------------------------------------------------------------

\* Every variable has its type.
TypeOK ==
    /\ DOMAIN file_handles_v2 = Pids
    /\ \A p \in Pids : file_handles_v2[p] \in
          [Entries(p) -> [free : BOOLEAN, fs : FileSystems,
                          internal_handle : Idx \cup {-1}]]
    /\ devfs_handles \in [Idx -> [free : BOOLEAN]]
    /\ echfs_handles \in [Idx -> [free : BOOLEAN, dev_handle : Idx]]
    /\ live \subseteq Pids \ {KERNEL}
    /\ pc \in {"ready", "clone", "execute"}
    /\ task \in Pids /\ new \in Pids
    /\ i \in 0 .. MaxHandles
    /\ pc = "execute" => i <= StdStreams

Open(p, h) == ~file_handles_v2[p][h].free
Fs(p, h) == file_handles_v2[p][h].fs
Internal(p, h) == file_handles_v2[p][h].internal_handle

\* What an open descriptor names is open.
NamesOpen ==
    \A p \in Pids : \A h \in Entries(p) : Open(p, h) =>
        IF Fs(p, h) = "devfs" THEN ~devfs_handles[Internal(p, h)].free
                              ELSE ~echfs_handles[Internal(p, h)].free

\* Two descriptors, of one task or of two, name two handles.
NamesDistinct ==
    \A p, q \in Pids : \A g \in Entries(p), h \in Entries(q) :
        /\ Open(p, g) /\ Open(q, h)
        /\ Fs(p, g) = Fs(q, h) /\ Internal(p, g) = Internal(q, h)
        => p = q /\ g = h

\* An open file of echfs has a device descriptor of its own in the kernel's
\* table.
DevicesOwned ==
    \A e \in Idx : ~echfs_handles[e].free =>
        /\ Open(KERNEL, echfs_handles[e].dev_handle)
        /\ Fs(KERNEL, echfs_handles[e].dev_handle) = "devfs"
        /\ \A f \in Idx \ {e} : ~echfs_handles[f].free =>
              echfs_handles[f].dev_handle # echfs_handles[e].dev_handle

\* Each descriptor is its task's alone, through all three layers: however
\* tasks open, close, fork, fail to fork, start others and end, nobody else
\* can move its offset or close it.
HandlesPrivate == NamesOpen /\ NamesDistinct /\ DevicesOwned
=============================================================================
