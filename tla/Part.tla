------------------------------- MODULE Part -------------------------------
(***************************************************************************)
(* Partitions, kernel/src/part.c, on top of the disk driver: the scan of a *)
(* drive's partition table at boot, and a write-back cache of one sector   *)
(* for each partition, behind which is the driver's own cache.             *)
(*                                                                         *)
(* A partition reads its drive through a handle of devfs whose offset is   *)
(* set by devfs_seek before each access; devfs_seek may refuse, and nobody *)
(* looks.  As in DiskCache one byte stands for a sector; sector 0 stands   *)
(* for all the sectors the table is on.                                    *)
(*                                                                         *)
(* A tick that drops an access in the driver drops the partition's with    *)
(* it, and one may come wherever the driver has left interrupts on.        *)
(***************************************************************************)
EXTENDS DiskCache

CONSTANTS
    Disk0,          \* the drive with the table
    Kinds,          \* the kinds of table it may have
    Slots,          \* entries of the table: 0 .. some number
    First, Count,   \* slot -> starting sector, sector count; 0: no partition
    Garbage,        \* what cache_state may be in the uninitialised struct part
    SeekLimit,      \* sectors an int offset in bytes can reach: 2^31 / 512
    SIZE_T,         \* size_t wraps around here
    RawWrites,      \* whether programs write to that drive behind the partitions
    RawBytes,       \* bound: the bytes programs write to drives themselves
    FollowTorn      \* bound: whether anything is done after an access is torn

ASSUME PartAssumption ==
    /\ Disk0 \in Drives
    /\ Kinds \subseteq {"gpt", "gpt_revision", "mbr", "none"}
    /\ Slots \subseteq Nat
    /\ First \in [Slots -> Nat \ {0}] /\ Count \in [Slots -> Nat]
    /\ Garbage \subseteq {CACHE_NOT_READY, CACHE_READY, CACHE_DIRTY}
    /\ SeekLimit \in Nat /\ SIZE_T \in Nat /\ \A s \in Slots : s < SIZE_T
    /\ RawWrites \in BOOLEAN /\ RawBytes \subseteq Bytes /\ FollowTorn \in BOOLEAN

VARIABLES
    table,      \* the kind of table on the drive, until it has been scanned
    ppc,        \* "scan", "table", "ready", "flush", "load" or "tag"
    n,          \* the scan's loop counter
    part,       \* slot -> its struct part
    preq,       \* the access to a partition under way
    pout,       \* what the last access to a partition returned
    part_torn   \* history: an access was dropped between its stores

pvars == <<table, ppc, n, part, preq, pout, part_torn>>
allvars == <<vars, pvars>>

PartLocations(s) == 0 .. Count[s] - 1

\* A partition's in_cache before its first access: (uint64_t)-1.
Unset == -1

NoRequest == [slot |-> 0, loc |-> 0, type |-> "read", payload |-> 0]

PInit ==
    /\ Init
    /\ table \in Kinds
    /\ ppc = "scan" /\ n = 0
    /\ part = [s \in Slots |-> [added |-> FALSE, in_cache |-> Unset, cache |-> 0,
                                cache_state |-> CACHE_NOT_READY, ptr |-> 0]]
    /\ preq = NoRequest
    /\ pout = 0
    /\ part_torn = FALSE

----------------------------------------------------------------------------
(* What the driver is asked for: one access to the drive, a hit or a miss. *)

DriveRead(loc) ==
    \/ ReadHit(Disk0, loc)
    \/ Miss([drive |-> Disk0, loc |-> loc, type |-> "read", payload |-> 0])

DriveWrite(loc, payload) ==
    \/ WriteHit(Disk0, loc, payload)
    \/ Miss([drive |-> Disk0, loc |-> loc, type |-> "write", payload |-> payload])

\* The driver has returned.
DriveDone == pc = "ready" /\ ~panicked

\* devfs_seek to a sector: refused past the end of the drive, and where the
\* offset in bytes does not fit an int or is negative.
Seek(ptr, sect) ==
    IF sect \in 0 .. Sectors[Disk0] /\ sect < SeekLimit THEN sect ELSE ptr

----------------------------------------------------------------------------
(* add_partitioned_medium *)

NO_PARTITION == -1
END_OF_TABLE == -3

\* Mutant: past the last entry there is merely no partition.
GptGetPartNoEnd(k) ==
    IF table = "gpt_revision" THEN END_OF_TABLE
    ELSE IF k \notin Slots \/ Count[k] = 0 THEN NO_PARTITION ELSE 0

GptGetPart(k) ==
    IF table = "gpt_revision" \/ k \notin Slots THEN END_OF_TABLE
    ELSE IF Count[k] = 0 THEN NO_PARTITION ELSE 0

MbrGetPart(k) ==
    IF k \notin Slots THEN END_OF_TABLE
    ELSE IF Count[k] = 0 THEN NO_PARTITION ELSE 0

\* A drive with neither table gets -1, which is also NO_PARTITION.
GetPart(k) ==
    CASE table \in {"gpt", "gpt_revision"} -> GptGetPart(k)
      [] table = "mbr" -> MbrGetPart(k)
      [] table = "none" -> -1

\* get_part reads the table.
ScanRead ==
    /\ ppc = "scan" /\ DriveDone
    /\ DriveRead(0)
    /\ ppc' = "table"
    /\ UNCHANGED <<table, n, part, preq, pout, part_torn>>

ScanSkip ==
    /\ ppc = "table" /\ DriveDone
    /\ GetPart(n) = NO_PARTITION
    /\ n' = (n + 1) % SIZE_T
    /\ ppc' = "scan"
    /\ UNCHANGED <<vars, table, part, preq, pout, part_torn>>

ScanEnd ==
    /\ ppc = "table" /\ DriveDone
    /\ GetPart(n) = END_OF_TABLE
    /\ n' = 0 /\ table' = "scanned"
    /\ ppc' = "ready"
    /\ UNCHANGED <<vars, part, preq, pout, part_torn>>

\* The struct on the stack is copied with what was there before.
ScanAdd ==
    /\ ppc = "table" /\ DriveDone
    /\ GetPart(n) = 0
    /\ \E state \in Garbage, byte \in Bytes :
          part' = [part EXCEPT ![n] = [added |-> TRUE, in_cache |-> Unset,
                                       cache |-> byte, cache_state |-> state,
                                       ptr |-> 0]]
    /\ n' = (n + 1) % SIZE_T
    /\ ppc' = "scan"
    /\ UNCHANGED <<vars, table, preq, pout, part_torn>>

Scan == ScanRead \/ ScanSkip \/ ScanEnd \/ ScanAdd

----------------------------------------------------------------------------
(* partitioned_medium_io_wrapper *)

PartHit(r) ==
    /\ part[r.slot].cache_state # CACHE_NOT_READY
    /\ r.loc = part[r.slot].in_cache

\* The switch at its end.
Transfer(r, p) ==
    \/ /\ r.type = "read"
       /\ pout' = p.cache
       /\ part' = [part EXCEPT ![r.slot] = p]
    \/ /\ r.type = "write"
       /\ pout' = 0
       /\ part' = [part EXCEPT ![r.slot] =
             [p EXCEPT !.cache = r.payload, !.cache_state = CACHE_DIRTY]]

PartAccessHit(r) ==
    /\ ppc = "ready" /\ DriveDone
    /\ part[r.slot].added
    /\ PartHit(r)
    /\ Transfer(r, part[r.slot])
    /\ UNCHANGED <<vars, table, ppc, n, preq, part_torn>>

\* Mutant: a dirty sector is not written back.
PartMissDrops(r) ==
    /\ ppc = "ready" /\ DriveDone
    /\ part[r.slot].added
    /\ ~PartHit(r)
    /\ preq' = r
    /\ ppc' = "load"
    /\ UNCHANGED <<vars, table, n, part, pout, part_torn>>

PartMiss(r) ==
    /\ ppc = "ready" /\ DriveDone
    /\ part[r.slot].added
    /\ ~PartHit(r)
    /\ preq' = r
    /\ ppc' = IF part[r.slot].cache_state = CACHE_DIRTY THEN "flush" ELSE "load"
    /\ UNCHANGED <<vars, table, n, part, pout, part_torn>>

\* devfs_seek, devfs_uwrite of the cached sector.
PartFlush ==
    LET s == preq.slot
        ptr == Seek(part[s].ptr, First[s] + part[s].in_cache)
    IN
    /\ ppc = "flush" /\ DriveDone
    /\ DriveWrite(ptr, part[s].cache)
    /\ part' = [part EXCEPT ![s].ptr = ptr + 1]
    /\ ppc' = "load"
    /\ UNCHANGED <<table, n, preq, pout, part_torn>>

\* devfs_seek, devfs_uread of the sector asked for.
PartLoad ==
    LET s == preq.slot
        ptr == Seek(part[s].ptr, First[s] + preq.loc)
    IN
    /\ ppc = "load" /\ DriveDone
    /\ DriveRead(ptr)
    /\ part' = [part EXCEPT ![s].ptr = ptr + 1]
    /\ ppc' = "tag"
    /\ UNCHANGED <<table, n, preq, pout, part_torn>>

PartTag ==
    /\ ppc = "tag" /\ DriveDone
    /\ Transfer(preq, [part[preq.slot] EXCEPT !.cache = out, !.in_cache = preq.loc,
                                              !.cache_state = CACHE_READY])
    /\ ppc' = "ready"
    /\ preq' = NoRequest
    /\ UNCHANGED <<vars, table, n, part_torn>>

PartAccess(r) == PartAccessHit(r) \/ PartMiss(r)

\* A program uses a drive itself.
Raw(d, loc) ==
    /\ ppc = "ready"
    /\ \/ ReadHit(d, loc)
       \/ Miss([drive |-> d, loc |-> loc, type |-> "read", payload |-> 0])
       \/ /\ RawWrites \/ d # Disk0
          /\ \E payload \in RawBytes :
                \/ WriteHit(d, loc, payload)
                \/ Miss([drive |-> d, loc |-> loc, type |-> "write",
                         payload |-> payload])
    /\ UNCHANGED pvars

\* The driver goes on with what it was asked for.
DriverStep ==
    /\ FlushSector \/ LoadSector \/ BiosError \/ Tag
    /\ UNCHANGED pvars

----------------------------------------------------------------------------
(* Dropped accesses *)

\* Transfers advance the offset of the handle at their end.
Offsets ==
    LET p == part[preq.slot]
    IN  IF ppc = "tag" \/ (ppc = "load" /\ p.cache_state = CACHE_DIRTY)
        THEN {p.ptr - 1, p.ptr} ELSE {p.ptr}

\* The access to a partition is over, whatever came of it.
GiveUp ==
    /\ ppc \notin {"scan", "table"} /\ ~panicked
    /\ ppc' = "ready" /\ preq' = NoRequest
    /\ UNCHANGED <<table, n, pout>>

\* In the driver, or between its two transfers: the partition's cache is as
\* it was.
PartDrop ==
    /\ GiveUp
    /\ \/ DropEarly \/ DropLate
       \/ pc = "ready" /\ ppc \in {"flush", "load", "tag"} /\ UNCHANGED vars
    /\ IF ppc = "ready" THEN UNCHANGED part
       ELSE \E p \in Offsets : part' = [part EXCEPT ![preq.slot].ptr = p]
    /\ UNCHANGED part_torn

\* In a write hit of the driver, which a program or a flush asks for.
DropHitBelow ==
    /\ GiveUp
    /\ \/ /\ ppc = "ready"
          /\ \E d \in Drives : \E loc \in Locations(d) : \E payload \in RawBytes :
                (RawWrites \/ d # Disk0) /\ DropHit(d, loc, payload)
          /\ UNCHANGED part
       \/ LET s == preq.slot
              ptr == Seek(part[s].ptr, First[s] + part[s].in_cache)
          IN  /\ ppc = "flush"
              /\ DropHit(Disk0, ptr, part[s].cache)
              /\ part' = [part EXCEPT ![s].ptr = ptr]
    /\ UNCHANGED part_torn

\* While the sector that was read, its number and the state are stored.
PartDropLate ==
    LET s == preq.slot
        write == preq.type = "write"
    IN
    /\ GiveUp
    /\ ppc = "tag" /\ pc = "ready"
    /\ \E byte \in {part[s].cache, out} \cup (IF write THEN {preq.payload} ELSE {}),
          sect \in {part[s].in_cache, preq.loc},
          state \in {part[s].cache_state, CACHE_READY}
                      \cup (IF write THEN {CACHE_DIRTY} ELSE {}),
          p \in Offsets :
          part' = [part EXCEPT ![s] = [@ EXCEPT !.cache = byte, !.in_cache = sect,
                                                !.cache_state = state, !.ptr = p]]
    /\ part_torn' = TRUE
    /\ UNCHANGED vars

\* In a write hit of the partition.
PartDropHit(s, loc, payload) ==
    /\ GiveUp
    /\ ppc = "ready" /\ pc = "ready"
    /\ part[s].added /\ PartHit([slot |-> s, loc |-> loc])
    /\ \E byte \in {part[s].cache, payload}, state \in {part[s].cache_state, CACHE_DIRTY} :
          part' = [part EXCEPT ![s].cache = byte, ![s].cache_state = state]
    /\ part_torn' = TRUE
    /\ UNCHANGED vars

PDrop ==
    \/ PartDrop \/ DropHitBelow \/ PartDropLate
    \/ \E s \in Slots : \E loc \in PartLocations(s) : \E payload \in Bytes :
          PartDropHit(s, loc, payload)

PNext ==
    /\ FollowTorn \/ ~(torn \/ part_torn)
    /\ \/ Scan
       \/ \E s \in Slots : \E loc \in PartLocations(s) :
             \/ PartAccess([slot |-> s, loc |-> loc, type |-> "read", payload |-> 0])
             \/ \E payload \in Bytes :
                   PartAccess([slot |-> s, loc |-> loc, type |-> "write",
                               payload |-> payload])
       \/ PartFlush \/ PartLoad \/ PartTag
       \/ \E d \in Drives : \E loc \in Locations(d) : Raw(d, loc)
       \/ DriverStep
       \/ PDrop

\* Boot code goes on; nothing is assumed of programs.
PartSpec ==
    PInit /\ [][PNext]_allvars /\ WF_allvars(Scan) /\ WF_allvars(DriverStep)

----------------------------------------------------------------------------

\* The partitions as their users see them: what a partition's own cache does
\* not have is what the drive has, its cache included.  A dirty sector counts
\* until the drive has it.
PartContents ==
    [s \in Slots |-> [loc \in PartLocations(s) |->
        IF /\ part[s].added /\ part[s].cache_state # CACHE_NOT_READY
           /\ part[s].in_cache = loc
           /\ preq.slot = s => ppc \notin {"load", "tag"}
        THEN part[s].cache
        ELSE IF /\ pc \in {"flush", "load", "tag"} /\ ppc = "load"
                /\ req.type = "write" /\ req.loc = First[s] + loc
        THEN req.payload
        ELSE Contents[Disk0][First[s] + loc]]]

P == INSTANCE Disk WITH
    Drives <- Slots, Sectors <- Count, store <- PartContents, out <- pout,
    stopped <- panicked

\* Two caches on top of each other, both written back late: a partition reads
\* back what was written to it last, whatever was evicted from either cache,
\* and a write to one partition is never seen in another; until an access is
\* dropped between the stores of one of the caches.
PartitionsAreDisks ==
    P!Init /\ [][P!Next \/ torn' \/ part_torn']_<<PartContents, pout, panicked>>

\* The scan of a drive with a table ends ("case END_OF_TABLE", part.c), unless
\* the BIOS fails.
ScanEnds == <>(ppc = "ready" \/ panicked)
=============================================================================
