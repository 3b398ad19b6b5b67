------------------------------- MODULE Vdev -------------------------------
(***************************************************************************)
(* A virtual device, kernel/src/drivers/vdev/vdev.c, and the task that     *)
(* registered it, the commands vdevin and vdevout of shell/shell.c: it     *)
(* says that it is ready in one system call and waits to be told of an     *)
(* access in the next.  Tasks that access the device are elsewhere.  The   *)
(* flags that an access sets in its memory it does not look at.            *)
(***************************************************************************)
EXTENDS Integers

CONSTANT Bytes

ASSUME VdevAssumption == Bytes \subseteq 0 .. 255

VARIABLES
    status_in, status_out,      \* whether they are READY
    payload_in, payload_out,    \* the cells in the memory of the task
    manager,                    \* where the task is, see below
    arrived,                    \* history: the byte written and not yet seen
    offered                     \* history: the byte offered and not yet read

vdVars == <<status_in, status_out, payload_in, payload_out, manager, arrived, offered>>

(***************************************************************************)
(* The task is "idle", at the prompt; it has made its device "ready" and   *)
(* not called vdev_await yet; it is in status "VDEVWAIT"; or "told".  cmd  *)
(* is the command it executes.                                             *)
(***************************************************************************)
At(pc, cmd) == [pc |-> pc, cmd |-> cmd]

NoByte == -1

\* register_vdev has returned.
VdInit ==
    /\ status_in = FALSE /\ status_out = FALSE
    /\ payload_in = 0 /\ payload_out = 0
    /\ manager = At("idle", "in")
    /\ arrived = NoByte /\ offered = NoByte

vdev_in_ready ==
    /\ manager.pc = "idle"
    /\ status_in' = TRUE
    /\ manager' = At("ready", "in")
    /\ UNCHANGED <<status_out, payload_in, payload_out, arrived, offered>>

vdev_out_ready(b) ==
    /\ manager.pc = "idle"
    /\ payload_out' = b
    /\ status_out' = TRUE
    /\ manager' = At("ready", "out")
    /\ offered' = b
    /\ UNCHANGED <<status_in, payload_in, arrived>>

\* enter_vdevwait_status: whether something has happened already is not asked.
vdev_await ==
    /\ manager.pc = "ready"
    /\ manager' = At("VDEVWAIT", manager.cmd)
    /\ UNCHANGED <<status_in, status_out, payload_in, payload_out, arrived, offered>>

\* vdev_await returns.  The command takes the byte and is over.
Told ==
    /\ manager.pc = "told"
    /\ manager' = At("idle", "in")
    /\ arrived' = IF manager.cmd = "in" /\ payload_in = arrived THEN NoByte ELSE arrived
    /\ UNCHANGED <<status_in, status_out, payload_in, payload_out, offered>>

\* An access wakes the task if it waits.
Woken == IF manager.pc = "VDEVWAIT" THEN At("told", manager.cmd) ELSE manager

\* Mutant: the device stays ready for reads.
IoReadAgain ==
    /\ status_out
    /\ manager' = Woken
    /\ offered' = NoByte
    /\ UNCHANGED <<status_in, status_out, payload_in, payload_out, arrived>>

\* vdev_io_wrapper, DF_READ: payload_out is returned.
IoRead ==
    /\ status_out
    /\ manager' = Woken
    /\ status_out' = FALSE
    /\ offered' = NoByte
    /\ UNCHANGED <<status_in, payload_in, payload_out, arrived>>

\* Mutant: the task is not woken.
IoWriteSilent(b) ==
    /\ status_in
    /\ status_in' = FALSE
    /\ payload_in' = b
    /\ arrived' = b
    /\ UNCHANGED <<status_out, payload_out, manager, offered>>

\* vdev_io_wrapper, DF_WRITE.
IoWrite(b) ==
    /\ status_in
    /\ manager' = Woken
    /\ status_in' = FALSE
    /\ payload_in' = b
    /\ arrived' = b
    /\ UNCHANGED <<status_out, payload_out, offered>>

Manager == vdev_in_ready \/ vdev_await \/ Told \/ \E b \in Bytes : vdev_out_ready(b)

----------------------------------------------------------------------------

\* The bytes exchanged through a vdev are each taken once: the device is ready
\* for a byte only if the last one has been seen, and for a read only if a byte
\* is offered that nobody has read; and the task is told of one only when it
\* has arrived (vdev_io_wrapper).
VdevBytesOnce ==
    /\ status_in => arrived = NoByte
    /\ status_out => offered # NoByte /\ offered = payload_out
    /\ manager.pc = "told" /\ manager.cmd = "in" => arrived = payload_in
=============================================================================
