----------------------------- MODULE DiskCache -----------------------------
(***************************************************************************)
(* The BIOS hard-disk driver, kernel/src/drivers/bios_harddisks/bd.c: one  *)
(* write-back cache of CACHE_SECTS sectors for all drives, filled and      *)
(* flushed a sector at a time by BIOS calls, any of which may fail.        *)
(*                                                                         *)
(* Interrupts are off around each of the two loops, and on after them.  An *)
(* access may be one the scheduler repeats for a waiting task; then a tick *)
(* that comes while they are on enters task_switch, which overwrites the   *)
(* saved context and schedules anew, and the access is dropped where it    *)
(* is.  (What the task does with that context is in Tasks.)                *)
(*                                                                         *)
(* One byte stands for a sector (BYTES_PER_SECT is 1), so that a location  *)
(* is a sector number and CACHE_SIZE is CACHE_SECTS.                       *)
(***************************************************************************)
EXTENDS Integers

CONSTANTS
    Drives,
    Sectors,        \* drive -> lba_count
    CACHE_SECTS,
    Bytes

ASSUME DiskCacheAssumption ==
    /\ CACHE_SECTS \in Nat \ {0}
    /\ Drives # {}
    /\ Sectors \in [Drives -> Nat]
    /\ Bytes \subseteq Nat /\ 0 \in Bytes

VARIABLES
    medium,         \* drive -> sector -> its byte
    cache_status, cached_drive, cached_block, disk_cache,
    pc,             \* where the access under way is
    req,            \* its arguments
    i,              \* the loop counter of disk_read_sector, disk_write_sector
    out,            \* what the last access returned
    panicked,
    torn            \* history: an access was dropped between its stores

cache == <<cache_status, cached_drive, cached_block, disk_cache>>
vars == <<medium, cache_status, cached_drive, cached_block, disk_cache, pc,
          req, i, out, panicked, torn>>

CACHE_NOT_READY == 0
CACHE_READY == 1
CACHE_DIRTY == 2

Locations(d) == 0 .. Sectors[d] - 1
Requests == [drive : Drives, loc : Nat, type : {"read", "write"}, payload : Bytes]

Block(loc) == loc \div CACHE_SECTS
Offset(loc) == loc % CACHE_SECTS

\* The sector that byte j of block b is on.
Lba(b, j) == b * CACHE_SECTS + j

\* cache_status is zero, so nothing depends on the other statics.
Init ==
    /\ medium = [d \in Drives |-> [loc \in Locations(d) |-> 0]]
    /\ cache_status = CACHE_NOT_READY
    /\ cached_drive \in Drives
    /\ cached_block = 0
    /\ disk_cache = [j \in 0 .. CACHE_SECTS - 1 |-> 0]
    /\ pc = "ready"
    /\ req = [drive |-> cached_drive, loc |-> 0, type |-> "read", payload |-> 0]
    /\ i = 0
    /\ out = 0
    /\ panicked = FALSE
    /\ torn = FALSE

----------------------------------------------------------------------------

\* The arguments go with the call.
Returned == [req EXCEPT !.loc = 0, !.type = "read", !.payload = 0]

\* The cache holds the block of this location.
Hit(d, loc) ==
    /\ Block(loc) = cached_block
    /\ d = cached_drive
    /\ cache_status # CACHE_NOT_READY

ReadHit(d, loc) ==
    /\ pc = "ready" /\ ~panicked
    /\ Hit(d, loc)
    /\ out' = disk_cache[Offset(loc)]
    /\ UNCHANGED <<medium, cache, pc, req, i, panicked, torn>>

WriteHit(d, loc, payload) ==
    /\ pc = "ready" /\ ~panicked
    /\ Hit(d, loc)
    /\ disk_cache' = [disk_cache EXCEPT ![Offset(loc)] = payload]
    /\ cache_status' = CACHE_DIRTY
    /\ out' = 0
    /\ UNCHANGED <<medium, cached_drive, cached_block, pc, req, i, panicked, torn>>

\* Mutant: a dirty block is dropped.
MissDrops(r) ==
    /\ pc = "ready" /\ ~panicked
    /\ ~Hit(r.drive, r.loc)
    /\ req' = r
    /\ i' = 0
    /\ pc' = "load"
    /\ UNCHANGED <<medium, cache, out, panicked, torn>>

\* A miss: flush the cache if it is dirty, then load.
Miss(r) ==
    /\ pc = "ready" /\ ~panicked
    /\ ~Hit(r.drive, r.loc)
    /\ req' = r
    /\ i' = 0
    /\ pc' = IF cache_status = CACHE_DIRTY THEN "flush" ELSE "load"
    /\ UNCHANGED <<medium, cache, out, panicked, torn>>

\* The loop goes on to the next sector, or to what follows it.
Advance(next) ==
    IF i + 1 < CACHE_SECTS THEN i' = i + 1 /\ UNCHANGED pc
                           ELSE i' = 0 /\ pc' = next

\* disk_write_sector: one sector of the cached block.
FlushSector ==
    LET lba == Lba(cached_block, i)
    IN
    /\ pc = "flush" /\ ~panicked
    /\ lba < Sectors[cached_drive]
    /\ medium' = [medium EXCEPT ![cached_drive][lba] = disk_cache[i]]
    /\ Advance("load")
    /\ UNCHANGED <<cache, req, out, panicked, torn>>

\* disk_read_sector: one sector of the block that was asked for.
LoadSector ==
    LET lba == Lba(Block(req.loc), i)
    IN
    /\ pc = "load" /\ ~panicked
    /\ lba < Sectors[req.drive]
    /\ disk_cache' = [disk_cache EXCEPT ![i] = medium[req.drive][lba]]
    /\ Advance("tag")
    /\ UNCHANGED <<medium, cache_status, cached_drive, cached_block, req, out,
                   panicked, torn>>

\* The BIOS call fails, as it must past the end of the drive: panic.
BiosError ==
    /\ pc \in {"flush", "load"} /\ ~panicked
    /\ panicked' = TRUE
    /\ UNCHANGED <<medium, cache, pc, req, i, out, torn>>

\* Mutant: a write to a block just loaded does not make it dirty.
TagClean ==
    /\ pc = "tag" /\ ~panicked
    /\ cached_drive' = req.drive
    /\ cached_block' = Block(req.loc)
    /\ IF req.type = "read"
       THEN /\ out' = disk_cache[Offset(req.loc)]
            /\ UNCHANGED disk_cache
       ELSE /\ disk_cache' = [disk_cache EXCEPT ![Offset(req.loc)] = req.payload]
            /\ out' = 0
    /\ cache_status' = CACHE_READY
    /\ pc' = "ready" /\ req' = Returned
    /\ UNCHANGED <<medium, i, panicked, torn>>

\* The rest of bios_harddisk_read or bios_harddisk_write after the load.
Tag ==
    /\ pc = "tag" /\ ~panicked
    /\ cached_drive' = req.drive
    /\ cached_block' = Block(req.loc)
    /\ \/ /\ req.type = "read"
          /\ cache_status' = CACHE_READY
          /\ out' = disk_cache[Offset(req.loc)]
          /\ UNCHANGED disk_cache
       \/ /\ req.type = "write"
          /\ disk_cache' = [disk_cache EXCEPT ![Offset(req.loc)] = req.payload]
          /\ cache_status' = CACHE_DIRTY
          /\ out' = 0
    /\ pc' = "ready" /\ req' = Returned
    /\ UNCHANGED <<medium, i, panicked, torn>>

\* bios_harddisks_io_wrapper.
Access(d, loc) ==
    \/ ReadHit(d, loc)
    \/ Miss([drive |-> d, loc |-> loc, type |-> "read", payload |-> 0])
    \/ \E payload \in Bytes :
          \/ WriteHit(d, loc, payload)
          \/ Miss([drive |-> d, loc |-> loc, type |-> "write", payload |-> payload])

\* A tick before the first sector is flushed, or between the flush and the
\* load: the cache holds what it did, and is as dirty as it was.
DropEarly ==
    /\ pc \in {"flush", "load"} /\ i = 0 /\ ~panicked
    /\ pc' = "ready" /\ req' = Returned
    /\ UNCHANGED <<medium, cache, i, out, panicked, torn>>

\* A tick after the load, before the tags, the status and the byte that is
\* written are all stored; the compiler may store them in any order.
DropLate ==
    /\ pc = "tag" /\ ~panicked
    /\ cached_drive' \in {cached_drive, req.drive}
    /\ cached_block' \in {cached_block, Block(req.loc)}
    /\ \/ /\ req.type = "read"
          /\ cache_status' \in {cache_status, CACHE_READY}
          /\ UNCHANGED disk_cache
       \/ /\ req.type = "write"
          /\ cache_status' \in {cache_status, CACHE_DIRTY}
          /\ disk_cache' \in
                {disk_cache, [disk_cache EXCEPT ![Offset(req.loc)] = req.payload]}
    /\ pc' = "ready" /\ req' = Returned
    /\ torn' = TRUE
    /\ UNCHANGED <<medium, i, out, panicked>>

\* A tick in a write hit: interrupts are still on from an earlier access.
DropHit(d, loc, payload) ==
    /\ pc = "ready" /\ ~panicked
    /\ Hit(d, loc)
    /\ disk_cache' \in {disk_cache, [disk_cache EXCEPT ![Offset(loc)] = payload]}
    /\ cache_status' \in {cache_status, CACHE_DIRTY}
    /\ torn' = TRUE
    /\ UNCHANGED <<medium, cached_drive, cached_block, pc, req, i, out, panicked>>

Drop ==
    \/ DropEarly \/ DropLate
    \/ \E d \in Drives : \E loc \in Locations(d) : \E payload \in Bytes :
          DropHit(d, loc, payload)

Next ==
    \/ \E d \in Drives : \E loc \in Locations(d) : Access(d, loc)
    \/ FlushSector \/ LoadSector \/ BiosError \/ Tag
    \/ Drop

Spec == Init /\ [][Next]_vars

----------------------------------------------------------------------------

\* Every variable has its type.
TypeOK ==
    /\ DOMAIN medium = Drives
    /\ \A d \in Drives : medium[d] \in [Locations(d) -> Bytes]
    /\ cache_status \in {CACHE_NOT_READY, CACHE_READY, CACHE_DIRTY}
    /\ cached_drive \in Drives
    /\ cached_block \in Nat
    /\ disk_cache \in [0 .. CACHE_SECTS - 1 -> Bytes]
    /\ pc \in {"ready", "flush", "load", "tag"}
    /\ req \in Requests
    /\ i \in 0 .. CACHE_SECTS - 1
    /\ out \in Bytes
    /\ panicked \in BOOLEAN /\ torn \in BOOLEAN

\* "returns the read byte, when reading" (bd.c): between accesses a cache
\* that is not dirty holds what is on the medium at the block its tags name,
\* so that a hit is as good as a read.
HitsAreReads ==
    pc = "ready" /\ cache_status = CACHE_READY =>
        \A j \in 0 .. CACHE_SECTS - 1 :
            /\ Lba(cached_block, j) \in Locations(cached_drive)
            /\ disk_cache[j] = medium[cached_drive][Lba(cached_block, j)]

\* It does unless an access was dropped between its stores: one that was
\* dropped before its load has done no harm.
TagsDescribeCache == ~torn => HitsAreReads

\* The cache, and not the medium, has the byte at this location.
InCache(d, loc) ==
    /\ pc \in {"ready", "flush"}
    /\ Hit(d, loc)

\* The drives as their users see them.
Contents ==
    [d \in Drives |-> [loc \in Locations(d) |->
        IF InCache(d, loc) THEN disk_cache[Offset(loc)] ELSE medium[d][loc]]]

D == INSTANCE Disk WITH store <- Contents, stopped <- panicked

\* The cache cannot be told from the drives behind it: no write is lost when
\* blocks are evicted, a flush reaches the drive the block came from, a BIOS
\* error half-way through a flush or a load has changed nothing a user had
\* read or written, and no more has an access dropped before its load; until
\* one is dropped between its stores.
ImplementsDisk == D!Init /\ [][D!Next \/ torn']_<<Contents, out, panicked>>
=============================================================================
