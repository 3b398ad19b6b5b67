-------------------------------- MODULE Disk --------------------------------
(***************************************************************************)
(* What the block-device driver promises: each drive is an array of bytes, *)
(* a read returns the byte that was written last, and the machine stops if *)
(* the BIOS reports an error.                                              *)
(***************************************************************************)
EXTENDS Integers

CONSTANTS
    Drives,
    Sectors,    \* drive -> its length; one byte stands for a sector
    Bytes

VARIABLES
    store,      \* drive -> location -> byte
    out,        \* what the last access returned
    stopped

Locations(d) == 0 .. Sectors[d] - 1

Init ==
    /\ store = [d \in Drives |-> [loc \in Locations(d) |-> 0]]
    /\ out = 0
    /\ stopped = FALSE

Read(d, loc) ==
    /\ ~stopped
    /\ out' = store[d][loc]
    /\ UNCHANGED <<store, stopped>>

Write(d, loc, payload) ==
    /\ ~stopped
    /\ store' = [store EXCEPT ![d][loc] = payload]
    /\ out' = 0
    /\ UNCHANGED stopped

Stop ==
    /\ ~stopped
    /\ stopped' = TRUE
    /\ UNCHANGED <<store, out>>

Next ==
    \/ Stop
    \/ \E d \in Drives : \E loc \in Locations(d) :
          Read(d, loc) \/ \E payload \in Bytes : Write(d, loc, payload)

Spec == Init /\ [][Next]_<<store, out, stopped>>
=============================================================================
