------------------------------- MODULE DevIO -------------------------------
(***************************************************************************)
(* A program that reads terminals and reads and writes a virtual device:   *)
(* read and write (isr.asm, vfs.c), the loops of devfs (fs/devfs.c), and   *)
(* the scheduler, which repeats for a waiting task what was not ready      *)
(* (task.c); with the keyboard and the task that has the virtual device.   *)
(***************************************************************************)
EXTENDS Keyboard, Vdev

CONSTANTS
    Readers,        \* the terminals that are read
    Lens,           \* the lengths programs ask for
    MAX_ACCESS,     \* MAX_SIMULTANOUS_VFS_ACCESS
    Interrupts      \* whether keys are pressed during a read system call

ASSUME DevIOAssumption ==
    /\ Readers \subseteq Ttys /\ "vdev" \notin Ttys
    /\ Lens \subseteq Nat \ {0} /\ MAX_ACCESS \in Nat \ {0}
    /\ Interrupts \in BOOLEAN

VARIABLES
    op,             \* the read or write under way
    misread         \* history: a character came that was not due

vars == <<kbVars, vdVars, op, misread>>

NoOp == [phase |-> "idle", dev |-> "vdev", type |-> "read", len |-> 0, done |-> 0,
         i |-> 0, retry |-> FALSE]

Init == KbInit /\ VdInit /\ op = NoOp /\ misread = FALSE

\* read_isr or write_isr.
Call(dev, type, len) ==
    /\ op.phase = "idle"
    /\ op' = [NoOp EXCEPT !.phase = "loop", !.dev = dev, !.type = type, !.len = len]
    /\ UNCHANGED <<kbVars, vdVars, misread>>

\* The scheduler comes to the waiting task; interrupts are off until it leaves.
Retry ==
    /\ op.phase = "wait"
    /\ op' = [op EXCEPT !.phase = "loop", !.i = 0, !.retry = TRUE]
    /\ UNCHANGED <<kbVars, vdVars, misread>>

\* vfs_uread and vfs_uwrite: a part is done at a time, and it counts as not
\* ready if it is not the last.
Left == op.len - op.done
Part == IF Left <= MAX_ACCESS THEN Left ELSE MAX_ACCESS

\* The loop is left.  read_stat sends the task to IOWAIT, or leaves it there,
\* with the rest to do.
Stops(stat) ==
    IF stat \/ Left > MAX_ACCESS
    THEN [op EXCEPT !.phase = "wait", !.done = @ + op.i, !.i = 0, !.retry = FALSE]
    ELSE NoOp

InLoop == op.phase = "loop" /\ op.i < Part

\* All that was asked for is done.
Full ==
    /\ op.phase = "loop" /\ op.i = Part
    /\ op' = Stops(FALSE)
    /\ UNCHANGED <<kbVars, vdVars, misread>>

----------------------------------------------------------------------------
(* devfs_uread of a terminal: keyboard_fetch_char *)

InTty == InLoop /\ op.dev \in Ttys /\ UNCHANGED vdVars

\* The history when the reader gets c.
Expected(c) ==
    /\ misread' = (misread \/ due[op.dev] = <<>> \/ Head(due[op.dev]) # c)
    /\ due' = [due EXCEPT ![op.dev] = IF @ = <<>> THEN @ ELSE Tail(@)]

\* Mutant: the end of a line is taken for a device that is not ready.
EndOfLineWaits ==
    /\ InTty
    /\ is_eof
    /\ is_eof' = FALSE
    /\ Expected(EOF)
    /\ op' = Stops(TRUE)
    /\ UNCHANGED <<mods, current_tty, l1, l2, modes>>

\* is_eof, which was set by whoever read a newline last.
EndOfLine ==
    /\ InTty
    /\ is_eof
    /\ is_eof' = FALSE
    /\ Expected(EOF)
    /\ op' = Stops(FALSE)
    /\ UNCHANGED <<mods, current_tty, l1, l2, modes>>

\* The index is lowered and the first character taken.
FetchChar ==
    /\ InTty
    /\ ~is_eof /\ l2[op.dev] # <<>>
    /\ Expected(Head(l2[op.dev]))
    /\ is_eof' = (Head(l2[op.dev]) = "newline")
    /\ op' = [op EXCEPT !.phase = "shift"]
    /\ UNCHANGED <<mods, current_tty, l1, l2, modes>>

\* Mutant: the character at the end goes.
ShiftEnd ==
    /\ op.phase = "shift"
    /\ l2' = [l2 EXCEPT ![op.dev] = SubSeq(@, 1, Len(@) - 1)]
    /\ op' = [op EXCEPT !.phase = "loop", !.i = @ + 1]
    /\ UNCHANGED <<mods, current_tty, l1, modes, is_eof, due, vdVars, misread>>

\* The others are moved to the front.
Shift ==
    /\ op.phase = "shift"
    /\ l2' = [l2 EXCEPT ![op.dev] = Tail(@)]
    /\ op' = [op EXCEPT !.phase = "loop", !.i = @ + 1]
    /\ UNCHANGED <<mods, current_tty, l1, modes, is_eof, due, vdVars, misread>>

\* Nothing is there: a zero, or IO_NOT_READY.
NothingTyped ==
    /\ InTty
    /\ ~is_eof /\ l2[op.dev] = <<>>
    /\ op' = IF "noblock" \in modes[op.dev] THEN [op EXCEPT !.i = @ + 1] ELSE Stops(TRUE)
    /\ UNCHANGED <<kbVars, misread>>

----------------------------------------------------------------------------
(* devfs_uread and devfs_uwrite of the virtual device *)

InVdev(type) == InLoop /\ op.dev = "vdev" /\ op.type = type /\ UNCHANGED kbVars

ReadVdev ==
    /\ InVdev("read")
    /\ IoRead
    /\ op' = [op EXCEPT !.i = @ + 1]
    /\ UNCHANGED misread

WriteVdev(b) ==
    /\ InVdev("write")
    /\ IoWrite(b)
    /\ op' = [op EXCEPT !.i = @ + 1]
    /\ UNCHANGED misread

VdevNotReady ==
    /\ \/ InVdev("read") /\ ~status_out
       \/ InVdev("write") /\ ~status_in
    /\ op' = Stops(TRUE)
    /\ UNCHANGED <<vdVars, misread>>

----------------------------------------------------------------------------

\* keyboard_isr, while interrupts are on.
Key(code) ==
    /\ op.phase \in {"idle", "wait"} \/ (Interrupts /\ ~op.retry)
    /\ keyboard_handler(code, op.phase = "shift" /\ op.dev = current_tty)
    /\ UNCHANGED <<vdVars, op, misread>>

\* The program changes the mode of a terminal.
Switch(t, m) ==
    /\ op.phase = "idle"
    /\ SwitchMode(t, m)
    /\ UNCHANGED <<vdVars, op, misread>>

\* The task with the device runs when the program does not.
Manage ==
    /\ op.phase \in {"idle", "wait"}
    /\ Manager
    /\ UNCHANGED <<kbVars, op, misread>>

Kernel ==
    \/ Retry \/ Full \/ EndOfLine \/ FetchChar \/ Shift \/ NothingTyped
    \/ ReadVdev \/ VdevNotReady \/ \E b \in Bytes : WriteVdev(b)

Next ==
    \/ \E len \in Lens : \/ \E t \in Readers : Call(t, "read", len)
                         \/ \E type \in {"read", "write"} : Call("vdev", type, len)
    \/ Kernel
    \/ \E code \in Codes : Key(code)
    \/ \E t \in Readers, m \in Modes : Switch(t, m)
    \/ Manage

\* The scheduler comes to every waiting task again, and a system call goes on;
\* a task that has said it is ready goes on to wait.
Spec ==
    /\ Init /\ [][Next]_vars
    /\ WF_vars(Kernel)
    /\ WF_vars(Manage /\ manager.pc = "ready")

----------------------------------------------------------------------------

\* Every variable has its type.
TypeOK ==
    /\ mods \subseteq {"shift", "ctrl"}
    /\ current_tty \in Ttys /\ is_eof \in BOOLEAN
    /\ \A t \in Ttys : /\ Len(l1[t]) <= KB_L1_SIZE /\ Len(l2[t]) <= KB_L2_SIZE
                       /\ modes[t] \subseteq Modes
    /\ status_in \in BOOLEAN /\ status_out \in BOOLEAN
    /\ payload_in \in Bytes /\ payload_out \in Bytes
    /\ manager.pc \in {"idle", "ready", "VDEVWAIT", "told"}
    /\ op.phase \in {"idle", "loop", "shift", "wait"}
    /\ op.done \in 0 .. op.len /\ op.i \in 0 .. Part

\* Through both buffers, reads of any length, waits and retries, the reader of
\* a terminal gets the lines and raw characters as they were passed on, each
\* line with its end of file, and none is lost (keyboard_fetch_char).
KeysInOrder ==
    /\ ~misread
    /\ op.phase = "idle" /\ ~is_eof =>
          \A t \in Readers : l2[t] = <<>> => due[t] = <<>>

\* A read that waits returns once a line has been typed on its terminal, if it
\* asks for no more than is done at a time (task.c, case KRN_STAT_IOWAIT_TASK).
LineReturns ==
    (/\ op.phase = "wait" /\ op.dev \in Ttys /\ Left <= MAX_ACCESS
     /\ \E k \in DOMAIN l2[op.dev] : l2[op.dev][k] = "newline")
    ~> op.phase = "idle"

\* An access that finds the task of the device waiting wakes it, be it made by
\* a call or, the device not having been ready then, by the scheduler for a
\* program that waits (vdev_io_wrapper).  The device must still be ready: an
\* access that came before vdev_await has taken that, and woken nobody.
VdevServed ==
    (/\ manager.pc = "VDEVWAIT" /\ op.phase = "wait" /\ op.dev = "vdev"
     /\ \/ manager.cmd = "in" /\ status_in /\ op.type = "write"
        \/ manager.cmd = "out" /\ status_out /\ op.type = "read")
    ~> manager.pc # "VDEVWAIT"

\* The task of a device waits for an access in vain only if that access came
\* between its two system calls, when a tick had taken the processor from it:
\* what ends a device's being ready once the task waits also wakes the task
\* (vdev_io_wrapper, vdev_await).
MissedOnlyBeforeAwait ==
    [][(status_in /\ ~status_in') \/ (status_out /\ ~status_out')
          => manager.pc = "ready" \/ (manager.pc = "VDEVWAIT" /\ manager'.pc = "told")]_vars
=============================================================================
