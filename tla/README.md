# A verification project for the echidnaOS kernel

echidnaOS is a small 32-bit, single-processor, preemptive kernel for x86 that
isolates its tasks by segmentation. This directory holds TLA+ models of it, the
TLC runs that check them on small instances, and TLAPS proofs for every value
of the constants. `PROJECT.json` lists the same things in machine-readable
form: components, runs, mutants, the source lines behind each definition,
findings, hazards and theorems. Paths below are relative to `src/`.

## 1. Inventory

| Component | State it keeps | Operations | Correct if |
|---|---|---|---|
| Task table and scheduler (`kernel/src/task.c`, `asm/task.asm`, `init.c`) | `task_table` (NULL, EMPTY_PID or record), `current_task`, `idle_cpu`; per task: status, parent, saved context, file handles, IPC queue, image | create, fork, execute, execute-and-wait, execve, quit, switch, schedule, repeat a waiting task's I/O | every live task is reached by the scan, the scan stays in the table, runnable tasks run, waits end for the right reason |
| Interrupt and system-call entry (`asm/isr.asm`, `drivers/exceptions.c`) | `ts_enable`, IF, `read_stat`, `write_stat`, `last_syscall` | timer, keyboard interrupt, system call and its special routines, exceptions | kernel code is not preempted, ticks are on whenever a task runs |
| IPC (`syscalls.c`) | `ipc_queue`, `ipc_queue_ptr` per task | send, read, await, query, resolve a name | FIFO, no lost wake-up |
| Other system calls (`syscalls.c`) | heap size, LDT, signal handlers, pwd | getters and setters, `resize_heap`, `syscall_new_segment` | the caller's record only |
| Page allocator (`mm/pmm.c`) | `bitmap`, `last_used_index`, `highest_page` | `init_pmm`, `pmm_alloc(z)`, `pmm_free` | a page is free exactly if it is usable and not in use |
| Kernel heap (`klib.c`) | a metadata page in front of each block | `kalloc`, `krealloc`, `kfree` | blocks are private, zeroed at first, and keep their contents |
| BIOS disk driver (`drivers/bios_harddisks/bd.c`) | one 32 KiB write-back cache and its tags | read or write a byte; load and flush by BIOS calls | the cache cannot be told from the disks |
| Partitions (`part.c`) | per partition: offset and a one-sector cache | scan the table, read or write a byte | coherent with the disk; the scan ends |
| Virtual devices (`drivers/vdev/vdev.c`) | per device: owner, two ready flags, addresses | register, ready, await, access | no access or wake-up is lost |
| VFS (`vfs.c`) | mount points, file systems, two handle tables per task | open, close, read, write, seek, fork, path resolution | a handle names one open file; reads end |
| devfs, device list (`fs/devfs.c`, `dev.c`) | devices, handles | the VFS interface over byte devices | as above |
| echfs (`fs/echfs.c`) | mounts, cached files, path cache, handles | the VFS interface over an allocation table and a directory | chains disjoint, caches coherent |
| Keyboard (`drivers/keyboard.c`) | per terminal: line buffer, input buffer | interrupt handler; fetch a character | no key lost or reordered, buffers bounded |
| Terminals (`drivers/tty.c`, `drivers/tty/tty.c`) | text field, cursor, escape parser | put a character, switch terminal | the cursor stays on the screen |
| Stream devices (`com`, `stty`, `e9`, `pcspk`, `streams`) | next to none | port I/O | — |
| Hardware set-up, real-mode calls, messages, panic | descriptor tables, PIC, PIT | once at boot; output | — |
| Shell, ported programs (`shell/`, `patches/`) | user programs | — | — |

**Interaction.** One processor; control moves by interrupts. A user task enters
the kernel by a system call, an exception or the timer. A system call runs with
interrupts on and task switching off; the scheduler runs with interrupts off
and task switching on. A call that cannot finish parks its task in a wait
status; the scheduler itself repeats file and device I/O for tasks in IOWAIT,
so the VFS, the file systems and the disk driver are called in two different
contexts. IPC sends, quits of children and vdev accesses write the status of
other tasks.

**What is hard.** Steps of the scheduler, of system calls and of the timer in
an order nobody tested; conventions about two flags kept by hand on a dozen
ways out of the kernel; slots of the task table that are vacated and used
again; allocation failures half-way through creating a task; rounding and
integer width in the page allocator; caches on top of caches, each with its
tags updated after its contents; pointers into lists that move; parsers that
keep their state from one character to the next; waits that end only if
somebody asks again. The hazards in `PROJECT.json` name the lines.

## 2. Modules

| Module | Models |
|---|---|
| `Tasks` | task table, scheduler, timer, system-call bracket, process life cycle, wait statuses, IPC queues |
| `TasksProofs` | its inductive invariant and theorems |
| `PmmInit` | `init_pmm` |
| `PmmInitProofs` | `init_pmm` frees what is usable, and all of it |
| `NextFit` | what `inner_alloc` and `pmm_alloc` compute, without loops |
| `PmmScan` | the loops of `pmm_alloc`, turn by turn, and `pmm_free` |
| `PmmScanProofs` | the loops compute `NextFit` |
| `Heap` | abstract: what the heap promises its users |
| `Pmm` | `kalloc`, `krealloc`, `kfree` on pages, on top of `NextFit` |
| `PmmProofs` | memory safety; `Pmm` implements `Heap` |
| `Disk` | abstract: drives as arrays of bytes |
| `DiskCache` | the disk driver's cache, sector by sector, with BIOS errors |
| `Part` | extends `DiskCache`: the scan of a partition table, and the cache of each partition on top of the driver's |
| `DiskCacheProofs` | the tags are right; `DiskCache` implements `Disk`, and the partitions of `Part` implement it too |
| `Handles` | descriptors of tasks and of the kernel, handles of devfs and echfs |
| `Paths` | absolute paths, mountpoints, the working directory |
| `VfsProofs` | descriptors are private (`Handles`); paths resolve and mountpoints are found as they should be (`Paths`) |
| `Echfs` | the tables, blocks, cached files and handles of the file system |
| `EchfsProofs` | chains, cached files, the tree, and that files read back |
| `Keyboard` | the interrupt handler and its two buffers for each terminal |
| `Vdev` | a virtual device and the task that serves it |
| `DevIO` | composes `Keyboard` and `Vdev` with a program's reads and writes, their parts, waits and retries |
| `Tty` | the screen of a terminal, its escape sequences and the video memory |
| `DriverProofs` | bytes of a virtual device are exchanged once, keys arrive in order (`DevIO`); the cursor, the video memory and the escape parser (`Tty`) |
| `MC*` | instances for TLC |

### Tasks

`mode` says what the processor executes; `ts_enable` and `int_flag` are the two
flags of the preemption convention. Each action is a stretch of code that a
tick cannot split: the whole body of a system call is one action because
`ts_enable` is clear in it; `ipc_await`, `vdev_await` and `fork` are taken with
interrupts off straight from user mode; a turn of the scheduler's loop is one
action; a retry of I/O is two (`SchedRetry`, then `RetryDone` or
`RetryNotReady`), because the disk driver may let a tick in between.

The processor goes to `"undefined"` when the kernel dereferences NULL or
EMPTY_PID or spins up a context that was saved inside the kernel. Nothing is
claimed about what follows; it has no outgoing step. That is why the runs that
include such conditions do not check deadlock.

`Workload` selects conditions: `"disk"` (a task waits on a disk file),
`"orphans"` (a task ends before its children), `"low_memory"` (`kalloc` may
fail at any call), `"bad_pids"` (a pid is used that has no task: one past the
table given to `ipc_send_packet`, or the owner of a vdev that has ended; the
step `StalePid` goes to `"undefined"`). An access to a vdev may wake its manager
and then not be ready for a later byte, in a call (`IoNotReady`) and in a retry
(`RetryNotReady`). Without `"low_memory"` a creation still fails when
`Capacity` records exist. The ghost `awaited` records which child
`general_execute_block` started; no guard reads it.

Abstracted: images, segments, file handles, exit values, names. An IPC packet
is its sender and payload; the queue keeps stale cells because the code reads
them. `IpcMax` bounds the queue's length.

### Page allocator and heap

`PmmInit` keeps addresses in bytes and lets the page size, the bits of a byte
and the word size be small, so that every rounding case occurs on a few pages.
A bit no one has written is `"stale"`: memory holds whatever was there.

`PmmScan` has `last_used_index`, the running count and both limits as the code
does. `NextFit` defines the result with a set of possible ends of runs;
`LoopIsNextFit` relates the two, and `Pmm` is built on the latter. `Pmm` keeps
the first two words of every page, which is where the metadata is, so a store
through one block that reached the metadata of another would be seen. `held`
(ghost) is what the owners believe. `Pmm` assumes that page 0 is not usable
memory (the BIOS vectors are there) and that no size overflows `DIV_ROUNDUP`.
The code does not ensure the latter: `resize_heap` computes a size from one its
caller chooses (`syscalls.c:390-395`), modulo 4 GiB, and tests nothing.
`PmmAssumption` bounds the sizes, and nothing is claimed beyond them.

### Disk cache

One byte stands for a sector. A miss is a sequence of steps, one for each BIOS
call, each of which may fail; a failure panics, and `panicked` is never left,
so deadlock is not checked. `InCache` in the refinement mapping says when a
byte is to be found in the cache: the dirty block counts until the flush has
reached the medium.

An access may be dropped. `vfs_uread` and `vfs_uwrite` park a task that asks for
more than `MAX_SIMULTANOUS_VFS_ACCESS` bytes in IOWAIT (`vfs.c:318-347`), so the
scheduler repeats disk transfers, and it does so with `ts_enable` set
(`task.c:391-427`). The driver enables interrupts after its flush and after its
load; a tick that comes there enters `task_switch`, which overwrites the saved
context and schedules anew. `DropEarly` is a tick before the flush or between
the flush and the load, which does no harm. `DropLate` is one after the load:
the cache has been replaced, and of the tags, the status and the byte that is
written any may have been stored, since the compiler may order them. `DropHit`
is one in a write hit, with interrupts on from an earlier access. Both set the
history variable `torn`. The properties hold until `torn` is set;
`HitsAreReads`, which does not mention it, is refuted. (What the task does when
it is run again with that context is in `Tasks`: the kernel goes to
`"undefined"`.)

### Handles

A descriptor of a task names a handle of devfs or echfs; a handle of echfs
names a descriptor in the kernel's own table, which names a handle of devfs.
The three kinds of table hand out the lowest free entry and grow at the end,
so an entry past the end and a free one are the same here. `vfs_open`,
`vfs_close` and the quit of a task are one action each; the loops of
`task_fork` and `general_execute` that make descriptors take one step for each.
`task_fork` may fail after it has cloned the handles: the table is dropped, the
handles in it stay in use, and so they do when a task ends. Files, offsets and
the file cache are left out. A standard stream is opened in the kernel's table
and moved to the task's: `OpenStream` makes it in the latter at once. That the
stream's path can be opened is assumed (the code uses -1 as an index if not).

`StaleCloses` says whether programs close descriptors a second time.
`vfs_close` calls the file system before it looks at the descriptor, so such a
close ends the use of whoever has the recycled handle; with
`StaleCloses = TRUE` TLC refutes `HandlesPrivate`. The run has it `FALSE`.

### Partitions

`Part` extends `DiskCache` and shares its variables: an access to a partition
that misses its one-sector cache asks the driver for a write, then for a read
(`PartFlush`, `PartLoad`), each of which may take the driver many steps or
panic, and only then sets its own tags (`PartTag`). `Seek` is `devfs_seek` with
its refusals, which nobody looks at: the access then goes to where the handle
was. `ScanAdd` copies a struct from the stack, so `cache_state` and the cached
byte are chosen from `Garbage` and `Bytes`. Sector 0 stands for all the sectors
the table is on, and the kind of table is a constant of the drive. A tick may
drop the access in the driver, between its two transfers (`PartDrop`, with the
offset of the handle moved or not), in a write hit of the driver that a flush
asks for (`DropHitBelow`), or while the partition stores its own sector, number
and state (`PartDropLate`, `PartDropHit`); the last two set `part_torn`. The
refinement `PartitionsAreDisks` uses the same abstract `Disk` as the driver's,
with partitions for drives.

### Paths

`vfs_get_absolute_path` is a loop over characters with a pointer into the buffer
it fills and three `goto`s; `first_run`, `loop` and `term` are the places it is
at, and each case of the code is an action. Characters matter here (it is a
parser), but in the run there are only three: `/`, `.` and a letter. The
reference definition splits a path into names and walks along them (`Words`,
`Walked`, `PathOf`). The action `Call` stands for every routine that resolves a
path, and `VfsCd` ends it. Two routines change the working directory: `vfs_cd`
stores a result of the function (`VfsCd`), and `general_execute` stores whatever
string a program gives (`ExecPwd`): empty, without a slash, or with one at its
end. From such a directory the search back for a slash may find none and leave
the buffer; `at = "outside"`, which has no step, is the end of the model then.
The buffer is an uninitialised array of the caller: `Stale` chooses whether it
begins empty or with what the last call left in it.

### echfs

A path is a sequence of names here, since `Paths` has shown what resolution
does. `fat`, `dir` and `data` are the device; `cached_files` is the list with
one block of data for each file; a handle is `current` as long as the list has
not been moved since it was opened. `Moved` forgets what a stale handle holds.
The loops of `get_free_id`, of the chain and of block allocation are recursive
functions. `status` says that the model has come to one of five ends: a loop
that never ends (`"hung"`), a search that leaves its table (`"overrun"`), memory
that is used after it was freed (`"freed"`), a transfer dropped by a tick in the
disk driver (`"dropped"`, see above), and two directories with one id
(`"twins"`). The code has no tests that would prevent them and nothing is
claimed of what follows, so most properties begin with `status = "ok"`; when
`"twins"` comes about is the part `IdsApart` of `TreeSound`.
`files` and `misread` are history: what programs have written, and whether a
byte read was another. `misread` is about bytes that a read returns: a handle
reads up to the end its file had when it was opened, since `echfs_uwrite` moves
the size of the cached file and not the `end` of the handle (`echfs.c:594`,
`753-758`), so that bytes appended later are not offered to it.

### Keyboard, virtual devices, reads and writes

`keyboard_handler` is one action for each code; a letter is `"a"` whatever the
key, except `"c"`, which the handler tests with control held. `l1` and `l2` are
the buffers up to their indices. `keyboard_fetch_char` is two steps in `DevIO`
(`FetchChar`, `Shift`) as interrupts are on between them. `due` is history: what
the readers of a terminal are to get.

`op` in `DevIO` is the system call under way: what is left, how far its loop
is, whether the program runs it or the scheduler repeats it. `Stops` is
`vfs_uread` or `vfs_uwrite` after the loop: the task waits if the device was not
ready or if more than `MAX_ACCESS` was left. In `Vdev` the task that serves the
device executes `vdevin` or `vdevout` of the shell: it says that it is ready in
one system call and waits in the next; a tick, and with it an access of the
program, may come between the two. `Interrupts` chooses whether keys fall into a
read.

### Terminals

`scr` holds the field, the cursor's cell and the video memory; a cell is a
character and whether it has the cursor's palette. The functions of the driver
are operators from screen to screen, in the order in which the code composes
them, and each case of `text_putchar` and `escape_parse` is an action. Colours
are left out. Another terminal, which stays blank, is there to be switched to;
it is switched to between characters only, although the keyboard interrupt may
call `switch_tty` in the middle of `text_putchar` (`tty.c:107-112`).

A parameter is an `int` that wraps when its digits overflow it, as on this
compiler and machine; `INT_MAX` is a constant, so that small ints show every
overflow. A parameter may be 0 or become negative, and the clamps of `H` are at
the far end only, so the cursor may leave the screen. `text_putchar` would then
store outside the field: what a terminal does from there is not modelled.

## 3. Runs

| Run | Result | What it shows |
|---|---|---|
| `tasks_general` | pass | all conditions together, 3 records in 5 slots: the table stays scannable, the scan stays inside, the flags bracket system calls, no packet or child is waited for in vain, only the running task is ever stopped |
| `tasks_live` | pass | without disk waits the kernel is not preempted, the scheduler settles, no starvation, no deadlock |
| `pmm_init` | pass | every map of up to 3 entries over 7 pages: only usable pages are freed, none is lost, the loops end |
| `pmm_scan` | pass | 9 pages, 2 of them reserved, all sequences of calls and frees |
| `pmm_heap` | pass | 7 pages of 2 bytes, sizes 0 to 3: memory safety and `Heap` |
| `handles` | pass | two tasks and the kernel: no two descriptors share a handle, what is open stays open, each file has a device of its own |
| `part_disk` | pass | the driver's cache implements `Disk`, and so do two partitions on top of it, with BIOS errors at every sector and accesses dropped wherever a tick may come, until one is dropped between its stores; the scan of a table ends |
| `echfs` | pass | chains, directory and cached files stay consistent, files read back as written, by path and through handles; ids are shared only once they are out of order |
| `paths` | pass | every path of up to six characters, from working directories of every form: it resolves to the directory it leads to and lies in the right file system if the path is absolute or the working directory in normal form; the pointer leaves the buffer only where neither begins with a slash; the loop ends |
| `paths_stale` | violation | paths of up to four characters, with what an earlier call left in the buffer: `a/..` after `a/a` resolves to `/a` |
| `devio` | pass | typed lines arrive whole and in order and end the reads that wait for them; bytes of a virtual device are exchanged once; its task is woken as long as the device is ready, and a wake-up is lost nowhere but between the task's two calls |
| `tty` | pass | only a position below 1 takes the cursor off the screen, parameters that overflow included; until then one cursor, a video memory that shows the terminal; no escape sequence leaks into the next |

The violation is a disagreement between a comment in the source and what the
code does; `findings` quotes it. The type invariants of the other modules are
used by their proofs or kept as documentation; two runs check one.

**What is refuted.** A constant that excludes a condition is a claim about the
code's environment that the code does not ensure. With it relaxed TLC refutes
the property named, and some formulas of the modules are refuted as they stand.
The reader should know of each:

| Condition | Refuted | Because |
|---|---|---|
| `Workload = {"disk"}` in `tasks_live` | `SavedContextIsUser` | the scheduler repeats disk I/O with task switching on, and the driver lets a tick in, which abandons the access half-way |
| `WokenByAwaitedChild` with four records | itself | a parent in PROCWAIT is woken by any child that ends |
| `ReadPushesQueueBack` with `IpcMax = 2` | itself | reading a packet moves the sender's queue, not the reader's |
| `BitmapHosted` in `pmm_init` | itself | a bitmap that ends inside a page leaves that page free |
| `StaleCloses = TRUE` in `handles` | `HandlesPrivate` | `vfs_close` calls the file system before it looks at the descriptor |
| `Garbage = {2}`, `RawWrites = TRUE` or `SeekLimit = 2` in `part_disk` | `PartitionsAreDisks` | uninitialised `cache_state`; two caches that do not know of each other; refused seeks |
| `"none"` in `Kinds` in `part_disk` | `ScanEnds` | -1 also means "no partition here" |
| `Gaps = TRUE` in `echfs` | `ChainsSound` | a block that was found is not marked before the next is searched for |
| `BadPaths = TRUE` in `echfs` | `TreeSound` | `echfs_mkdir` ignores a failed search |
| `PathsApart` with directories `d`, `e`, `f`, files `a`, `e/a`, `f/a` and `DirSize = 4` | itself | a directory made in the entry of a removed file, in front of another, makes `get_free_id` give the next one an id in use (`echfs.c:375`): a file then has two paths, though `search` "returns unique entry #" (`echfs.c:358`) |
| `HitsAreReads` in `part_disk` | itself | an access dropped between the load and the tags (`bd.c:200`, `228`) leaves another block in the cache than they name, and a hit does not return "the read byte" (`bd.c:172`) |
| `ResultAbsolute` in `paths` | itself | `general_execute` stores a working directory nobody has looked at (`task.c:201`), and a relative path is not made "into an absolute one" (`vfs.c:39`) |
| `Interrupts = TRUE` or two `Readers` in `devio` | `KeysInOrder` | a key pressed during the fetch; one `is_eof` for all terminals |

More is known from modelling and has no property: a read of more than
`MAX_ACCESS` bytes at the end of a file may never return; a handle whose file
was cached before another, and a truncating open of a cached file, use freed
memory (`status = "freed"`); a full first buffer accepts not even the newline
that would empty it, and the second is filled with no test; a modifier is
toggled by every code of its key, repeats included; a vdev keeps the pid of a
task that has ended; the bits of the last pages may lie outside the bitmap
(`"stale"` in `PmmInit`); a usable region of 4 GiB makes the loop of `init_pmm`
wrap, so `Ends` is checked below the size of the address space.

**Bounds.** Three records with the kernel's own leave two user tasks, enough for
a sender and a receiver or a parent and a child, with slots vacated and taken
again. The conditions are all on in `tasks_general`. The table has two slots
more than memory has records, which is the assumption (`TasksAssumption`) under
which the unchecked index is safe: a task record with its image takes at least
33 pages, so 65536 of them do not fit in 4 GiB. Seven pages allow three blocks,
fragmentation, failure and both kinds of resize. In `PmmInit`, pages of two
bytes and bytes of two bits make bitmaps that fill no page, one page, or end in
the middle of one. Four handles in each file system serve two descriptors of
each of two tasks, minus the one the root partition holds, so that handles are
recycled and leaked and the tables fill up; one standard stream instead of three
leaves room for the task's own.

In `part_disk` two-sector blocks let an error fall in the middle of a flush; a
drive of five sectors has a short last block, partitions of two sectors and of
one with an empty entry between them, so that a block of the driver's cache
spans two partitions, and another drive evicts both. Programs there
write one value to the other drive (`RawBytes`), which is there to evict, and a
state in which an access was torn has no successors (`FollowTorn = FALSE`),
since the property says nothing from there on. In `echfs` two blocks of two
bytes, files of up to three bytes, three entries, two files and three
directories suffice for chains that grow, blocks and entries that are used again
by another file, tables that are full, and a directory that takes the entry of a
removed file in front of another, after which the third gets an id in use. In
`paths`, six characters hold two double dots with a name between them; three
directories below each other and every pair of mountpoints; the working
directory is one of these, empty, a name without a slash, or ends in one
(`Pwds`; what `vfs_cd` would add to these is cut off); the buffer is longer than
any result. In `devio`, buffers of two characters and parts of two bytes, with
reads of one and of three, make lines that fill a buffer, reads that span lines
and reads in two parts; one terminal is read, another may be switched to. In
`tty`, three rows of two columns and ints from -8 to 7, with digits 0 and 2,
make every movement run into both edges and every parameter overflow; one mode
stands for the three, which are set alike.

**Fairness.** `SF(Timer)`: the PIT runs at 4 kHz whatever the software does, and
user mode, with both flags on, recurs; strong, because system calls keep
clearing `ts_enable`. `WF(SchedStep)`, `WF(SyscallBody)`: kernel code goes on.
`tasks_live` leaves out the conditions under which the kernel reaches
`"undefined"`, since nothing is live after that. `PmmInit`, the scan in `Part`
(`WF(Scan)`, `WF(DriverStep)`) and the loop in `Paths` (`WF(Loop)`): kernel code
goes on. `DevIO`: `WF(Kernel)`, because the scheduler comes back to every
waiting task (`NoStarvation` of `Tasks`) and a system call that has begun goes
on; and a task that has said that it is ready calls `vdev_await` next, which is
how the shell's commands are written. Nothing else is assumed of user code, and
nothing of devices or of who presses keys.

**Deadlock** is checked except where the system may really stop: after a panic
(`DiskCache`, `Part`), at a bad end (`Tasks`, `Echfs`, `"outside"` in `Paths`),
at the end of boot code (`PmmInit`), and where the next value is beyond a bound:
a handle in `Handles`, a working directory in `Paths`.

**Mutants.** For every property of a passing run, `mutants` names a plausible
bug in a mapped definition that makes that run fail.

## 4. Proofs

All proofs are for arbitrary constants that satisfy the named assumptions.

* `TasksProofs`. The properties are not inductive one by one: that the scan
  stays in the table needs that slots above `Capacity` were never used, which
  needs that a slot is taken only if all lower ones are live and that at most
  `Capacity` are. `IndInv` is the conjunction of `TypeOK`, `TableInv` (used
  slots are a prefix, at most `Capacity` live tasks, NULL above), `ScanInv`
  (`current_task` is at most one past a used slot), `ModeInv` (the flags and
  the running task, for each mode), `NoLostIpcWakeup`, `BlockedParentHasChild`
  and `ContextInv`. One lemma for each action shows that it keeps all of them.
  Theorems: `TypeCorrect`, `ScanSafe`, `ScanComplete`, `IpcWakeups`,
  `BlockedParents`, `Bracketed`, `RunsActive`, and `KernelNotPreempted`, which
  assumes that no task waits on the disk and is false without that.
  `OthersWoken` is the action property: each action is shown to touch, beside
  the running task, only slots that were free or tasks that wait.
* `PmmInitProofs`. `InitInv` says that every entry of the map still ends where
  the loader's did and begins there too, but for the one that hosts the bitmap,
  which begins `bitmap_size` bytes later; and how far the third loop is: the
  entries before `i` are free from their first page to their last, and `j` is a
  multiple of the page size that counts the pages freed of entry `i`.
  `FreesOnlyUsable` needs no more. `LosesNothing` assumes that the map ends
  within the address space (`MaxPages * PageSize <= WordSize`): `bitmap` is an
  address modulo 2^32, and above 4 GiB it would not be where the entry is cut.
  That a finite set has a minimum and a maximum comes from the well-foundedness
  of the numbers, since the code's two searches are `Min` and `Max` here.
* `PmmScanProofs`. The loop invariant says that the last `p` pages before the
  index are free, that no run of `count` pages ends at or before the index, and
  that the first call left nothing behind; `ScanCorrect` and
  `ScanTakesOnlyFree` follow.
* `PmmProofs`. `IndInv` is the type invariant with `MetadataIntact`,
  `BlocksDisjoint` and `BitmapExact`: the frees are right only because the
  metadata are, these stay right only because blocks are disjoint, and
  allocation keeps them disjoint only because the bitmap is exact
  (`MetadataSafe`, `BlocksApart`, `BitmapRight`). `PmmImplementsHeap` maps each
  action to one of `Heap` or a stutter.
* `DiskCacheProofs`. `IndInv` adds to the type invariant how far a flush or a
  load has come; it holds until an access is torn (`SafeInv`), and an access
  dropped before its load keeps it, because the cache is as dirty as it was and
  a second flush writes the same bytes. `CacheImplementsDisk` maps the steps of
  a flush and early drops to stutters and the update of the tags to the read or
  write; a step that tears is allowed anything, and so is what follows. The
  second half is about `Part`. `PartInv` adds what each partition's cache holds
  (never dirty before it was filled; if clean, what the drive has, unless it is
  being replaced) and what the driver is busy with on a partition's behalf.
  `DriverBelow` shows that partitions use the driver as its own specification
  allows, so that all theorems about the driver hold below them;
  `PartitionsImplementDisks` that the two caches together implement one disk for
  each partition, until an access is torn in either (`PartSafe`). It assumes
  `PartsSound`: partitions lie on the drive and apart, their offsets fit an int,
  nobody writes to the drive behind them and the uninitialised `cache_state` is
  not CACHE_DIRTY. The instance of `part_disk` satisfies it, and each of the
  last three is needed (the table in section 3).
* `VfsProofs`, on `Handles`. `HandlesPrivate` is nearly inductive; what is
  missing is what the tables may hold and whose tables the loops work on.
  `TablesInv` adds that the three kinds of table keep their types and that what
  is open names a handle that exists, and `LoopInv` that the tables the loops of
  fork and execution read and fill are users' tasks', never the kernel's.
  `DescriptorsPrivate` assumes `~StaleCloses`, without which it is false.
* `VfsProofs`, on `Paths`. `PointersInv` bounds `path_ptr` by the length of the
  working directory and by `pos`, and gives `PathsTypeCorrect`: the walk back to
  a slash stops at the first cell at the latest, if the path or the working
  directory begins with one; otherwise it may leave the buffer, and
  `PathsTypeOK` says that it does only then. `BufferInv` says what the buffer
  holds at each place of the loop, for the characters before `pos` split into
  the directories they lead to (`D`) and the beginning of a name (`C`): at
  `first_run` the path of `D`; in `loop` either that after a slash is seen
  (`Between`), or `D`, a slash and `C`, a name that is neither one dot nor two,
  as the characters ahead show (`InName`); and that no slash is left behind the
  pointer for a later `..` to find. `PathsResolved` follows at the end of the
  path. `PathsMount` then compares characters with names: splitting a joined
  path gives the names back (`RoundTrip`), so one normal path is the beginning
  of another up to a slash exactly if its names are the first of the other's
  (`OnPrefix`, `PrefixOn`), and the longer of two such is the deeper (`Deeper`).
  All three assume `Roomy`, a buffer with room for the longest working
  directory, path, separator and NUL, because the code tests no length, that of
  the string given to `general_execute` included. The last two assume `~Stale`,
  without which `ResolvedRight` is false (`paths_stale`); `VfsCd` puts the
  buffer back because the array is a new one. They say nothing of a relative
  path from a working directory that is not in normal form, which
  `general_execute` may store: what it should lead to is nowhere said, and that
  it is absolute at least is refuted (`ResultAbsolute`). `NormalAssumption` says
  that the directories there are and the mountpoints are in normal form: the
  former are a name for each, the latter are literals in the kernel. What
  `Words`, `Walked` and `Joined` compute comes from a lemma about functions
  defined step by step (`Recursion`) and from induction stated for sets
  (`Induction`, `SeqInduction`), which the well-foundedness of the numbers
  gives.
* `EchfsProofs`. None of the properties is inductive alone: blocks are found by
  following what a cached file says, cached files are right only because the
  tables are, and what is read back depends on both. `EchfsInv` says that there
  is one record for each file on which the directory (`Placed`, `Entries`), the
  allocation table and the blocks (`ViewsInv`), the list of cached files
  (`Caches`), the open handles (`HandlesInv`) and the history of what programs
  wrote agree, beside a directory that is a tree (`TreeInv`); the entry of a
  file that is being written lags behind until the call ends (`Writing`).
  `EchfsChainsSound`, `EchfsCachedFilesTrue`, `EchfsTreeSound` and
  `EchfsFilesReadBack` follow, for any number of files and directories. All
  assume `~BadPaths` and `~Gaps`, which the first and the third need.
  `IdsApart`, a part of `TreeSound`, is about a step that ends the model: while
  ids grow from entry to entry the one pass of `get_free_id` meets every id at
  most as large as its candidate in turn, so that the result is new; an entry
  that is used again is the only way out of that order. Chains and paths are
  followed by induction over their length, as in `VfsProofs`.
* `DriverProofs`, on `DevIO`. `BytesOnce` holds by an invariant on the ready
  flags, the two payloads and the place the manager is at, wherever ticks fall.
  `AwaitMissesOnlyEarlier` is the action property that goes with it: once the
  task waits, what takes the device's being ready also wakes the task, so that a
  wake-up is lost only between its two calls (where it is, as `vdev_await` asks
  nothing). `KeysOrdered` relates the history `due` to the two buffers: a map
  from positions to positions says where each character passed on sits, in place
  of a recursive definition of what is due, and it accounts for a character that
  was fetched and not yet shifted out. It assumes `~Interrupts` and one reader,
  and is false without either. `VdevAssumption` (a byte is one of 0 to 255, so
  that `NoByte` is none) is what it needs of the bytes.
* `DriverProofs`, on `Tty`. `EscapesClean` holds by itself, with any parameters.
  `CursorStays` says that one step alone takes the cursor off the screen: `H`
  with a row or a column below 1, be it given as 0 or by digits that overflow.
  `VideoFollows` holds as long as the cursor is on the screen. The two need each
  other, through two notions of a screen that the driver's operators pass among
  them: `Drawn`, with the cursor in its cell alone, and `Cleared`, with none; in
  both the video memory follows the field. `ScreenInv` is that a screen with its
  cursor on it is `Drawn`.

Checked by TLC only:

* liveness (`SchedulerSettles`, `NoStarvation`, `Ends`, `ScanEnds`,
  `ResolutionEnds`, `LineReturns`, `VdevServed`), which is out of the prover's
  reach;
* that the constants excluded in section 3 refute what the table there says.

## 5. The plan

Modelling is done as far as the code repays it, and every safety invariant and
action property that the passing runs check is proved. What might follow: the
state after a torn access or with two directories of one id, of which the models
now only say how it comes about; switches of terminals inside `text_putchar`;
and the hazards that have no property yet.

## 6. Not modelled

* `echfs_list`, `ipc_payload_length` and others that only read; the detection
  of drives and the list of devices, which only grow at boot; capslock, which
  chooses among tables of letters; `text_clear` and the cursor's colours, which
  nobody calls.
* An echo or a switch of terminals from the keyboard interrupt in the middle of
  `text_putchar`: `Tty` takes characters one at a time. What a terminal does
  once its cursor is off the screen.
* What becomes of a file system's caches when a transfer is dropped
  (`"dropped"` in `Echfs`), and of a task that is run with the context saved
  then (`"undefined"` in `Tasks`).
* Sizes of requests for memory near 4 GiB, which `resize_heap` may pass on.
* State of a task record no one else reads: heap size, segments, signal
  handlers.
* Descriptor tables, PIC, PIT, real-mode switching: hardware set-up with no
  state of its own to go wrong later. The stream devices: port I/O. Messages,
  traces and panics: formatting.
* The shell, except for its two vdev commands, ported programs and patches: a
  user program makes any sequence of system calls.
