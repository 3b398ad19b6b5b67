-------------------------- MODULE DiskCacheProofs --------------------------
(***************************************************************************)
(* The cache of bd.c implements Disk, for every number and size of drives  *)
(* and every cache size; and so do the partitions of part.c on top of it,  *)
(* for every table whose partitions lie apart and within reach.            *)
(***************************************************************************)
EXTENDS Part, TLAPS

Cells == 0 .. CACHE_SECTS - 1

\* No sector has been loaded over the cached ones.
Intact == pc \in {"ready", "flush"} \/ (pc = "load" /\ i = 0)

\* The block the tags name is on the drive, and the cache agrees with it if
\* it is clean or was flushed.
ValidInv ==
    Intact /\ cache_status # CACHE_NOT_READY =>
        \A j \in Cells :
            /\ Lba(cached_block, j) \in Locations(cached_drive)
            /\ cache_status = CACHE_READY \/ pc = "load" =>
                  disk_cache[j] = medium[cached_drive][Lba(cached_block, j)]

\* The sectors that were flushed are on the medium.
FlushInv ==
    pc = "flush" =>
        /\ cache_status = CACHE_DIRTY
        /\ \A j \in 0 .. i - 1 :
              medium[cached_drive][Lba(cached_block, j)] = disk_cache[j]

\* The sectors that were loaded are those of the block that was asked for.
Loaded == IF pc = "tag" THEN CACHE_SECTS ELSE i

LoadInv ==
    /\ pc # "ready" => req.loc \in Locations(req.drive)
    /\ pc \in {"load", "tag"} =>
          \A j \in 0 .. Loaded - 1 :
              /\ Lba(Block(req.loc), j) \in Locations(req.drive)
              /\ disk_cache[j] = medium[req.drive][Lba(Block(req.loc), j)]

IndInv == TypeOK /\ ValidInv /\ FlushInv /\ LoadInv

(***************************************************************************)
(* Blocks and offsets.                                                     *)
(***************************************************************************)

\* A location is its block and its offset.
LEMMA SplitLocation ==
    ASSUME NEW loc \in Nat
    PROVE  /\ Block(loc) \in Nat /\ Offset(loc) \in Cells
           /\ Lba(Block(loc), Offset(loc)) = loc
<1>1. /\ loc = CACHE_SECTS * (loc \div CACHE_SECTS) + (loc % CACHE_SECTS)
      /\ loc % CACHE_SECTS \in 0 .. CACHE_SECTS - 1
      /\ loc \div CACHE_SECTS \in Nat
  BY DiskCacheAssumption
<1> QED
  BY <1>1, DiskCacheAssumption DEF Block, Offset, Lba, Cells

\* And a block and an offset are one location.
LEMMA JoinLocation ==
    ASSUME NEW b \in Nat, NEW j \in Cells
    PROVE  /\ Lba(b, j) \in Nat
           /\ Block(Lba(b, j)) = b /\ Offset(Lba(b, j)) = j
  BY DiskCacheAssumption DEF Block, Offset, Lba, Cells

\* Locations are natural numbers.
LEMMA LocationNat ==
    ASSUME NEW d \in Drives, NEW loc \in Locations(d)
    PROVE  loc \in Nat
  BY DiskCacheAssumption DEF Locations

(***************************************************************************)
(* The invariant.                                                          *)
(***************************************************************************)

\* An access that hits leaves every variable with its type.
LEMMA HitTypes ==
    ASSUME TypeOK, NEW d \in Drives, NEW loc \in Locations(d), NEW v \in Bytes,
           ReadHit(d, loc) \/ WriteHit(d, loc, v) \/ DropHit(d, loc, v)
    PROVE  TypeOK'
<1>1. Offset(loc) \in Cells /\ disk_cache \in [Cells -> Bytes]
  BY LocationNat, SplitLocation DEF TypeOK, Cells
<1>2. CASE ReadHit(d, loc)
  BY <1>1, <1>2 DEF ReadHit, TypeOK, cache, Cells
<1>3. CASE WriteHit(d, loc, v)
  BY <1>1, <1>3, DiskCacheAssumption DEF WriteHit, TypeOK, Cells, CACHE_DIRTY
<1>4. CASE DropHit(d, loc, v)
  <2>1. disk_cache' \in [Cells -> Bytes]
    BY <1>1, <1>4 DEF DropHit
  <2>2. cache_status' \in {CACHE_NOT_READY, CACHE_READY, CACHE_DIRTY}
    BY <1>4 DEF DropHit, TypeOK
  <2> QED
    BY <1>4, <2>1, <2>2 DEF DropHit, TypeOK, Cells
<1> QED
  BY <1>2, <1>3, <1>4

\* So does one that misses,
LEMMA MissTypes ==
    ASSUME TypeOK, NEW r \in Requests, Miss(r)
    PROVE  TypeOK'
  BY DiskCacheAssumption DEF TypeOK, Miss, cache

\* a sector that is flushed,
LEMMA FlushTypes ==
    ASSUME TypeOK, FlushSector
    PROVE  TypeOK'
<1> DEFINE lba == Lba(cached_block, i)
<1>0. /\ i \in Cells /\ cached_drive \in Drives /\ cached_block \in Nat
      /\ lba < Sectors[cached_drive] /\ disk_cache[i] \in Bytes
      /\ medium' = [medium EXCEPT ![cached_drive][lba] = disk_cache[i]]
      /\ Advance("load") /\ UNCHANGED <<cache, req, out, panicked, torn>>
  BY DEF FlushSector, TypeOK, Cells
<1>1. lba \in Locations(cached_drive)
  BY <1>0, JoinLocation, DiskCacheAssumption DEF Locations
<1>2. /\ \A d \in Drives : medium'[d] \in [Locations(d) -> Bytes]
      /\ DOMAIN medium' = Drives
  BY <1>0, <1>1 DEF TypeOK
<1>3. i' \in Cells /\ pc' \in {"ready", "flush", "load", "tag"}
  BY <1>0, DiskCacheAssumption DEF TypeOK, Advance, Cells
<1> QED
  BY <1>0, <1>2, <1>3 DEF TypeOK, cache, Cells

\* or loaded,
LEMMA LoadTypes ==
    ASSUME TypeOK, LoadSector
    PROVE  TypeOK'
<1> DEFINE lba == Lba(Block(req.loc), i)
<1>0. /\ i \in Cells /\ req.drive \in Drives /\ req.loc \in Nat
      /\ lba < Sectors[req.drive]
      /\ disk_cache' = [disk_cache EXCEPT ![i] = medium[req.drive][lba]]
      /\ Advance("tag")
      /\ UNCHANGED <<medium, cache_status, cached_drive, cached_block, req, out,
                     panicked, torn>>
  BY DEF LoadSector, TypeOK, Cells, Requests
<1>1. lba \in Locations(req.drive)
  BY <1>0, SplitLocation, JoinLocation, DiskCacheAssumption DEF Locations
<1>2. medium[req.drive][lba] \in Bytes
  BY <1>0, <1>1 DEF TypeOK
<1>3. i' \in Cells /\ pc' \in {"ready", "flush", "load", "tag"}
  BY <1>0, DiskCacheAssumption DEF TypeOK, Advance, Cells
<1> QED
  BY <1>0, <1>2, <1>3 DEF TypeOK, Cells

\* and the end of an access, finished or dropped.
LEMMA EndTypes ==
    ASSUME TypeOK, Tag \/ DropEarly \/ DropLate
    PROVE  TypeOK'
<1>1. /\ req.drive \in Drives /\ req.loc \in Nat /\ req.payload \in Bytes
      /\ disk_cache \in [Cells -> Bytes] /\ 0 \in Bytes
      /\ req' = Returned /\ Returned \in Requests
  BY DiskCacheAssumption
     DEF TypeOK, Requests, Cells, Returned, Tag, DropEarly, DropLate
<1>2. Block(req.loc) \in Nat /\ Offset(req.loc) \in Cells
  BY <1>1, SplitLocation
<1>3. CASE Tag
  <2>1. out' \in Bytes /\ disk_cache' \in [Cells -> Bytes]
    BY <1>1, <1>2, <1>3 DEF Tag, TypeOK
  <2>2. cache_status' \in {CACHE_NOT_READY, CACHE_READY, CACHE_DIRTY}
    BY <1>3 DEF Tag
  <2> QED
    BY <1>1, <1>2, <1>3, <2>1, <2>2 DEF Tag, TypeOK, Cells
<1>4. CASE DropEarly
  BY <1>1, <1>4 DEF DropEarly, TypeOK, cache
<1>5. CASE DropLate
  <2>1. disk_cache' \in [Cells -> Bytes]
    BY <1>1, <1>2, <1>5 DEF DropLate
  <2>2. cache_status' \in {CACHE_NOT_READY, CACHE_READY, CACHE_DIRTY}
    BY <1>5 DEF DropLate, TypeOK
  <2>3. cached_drive' \in Drives /\ cached_block' \in Nat
    BY <1>1, <1>2, <1>5 DEF DropLate, TypeOK
  <2> QED
    BY <1>1, <1>5, <2>1, <2>2, <2>3 DEF DropLate, TypeOK, Cells
<1> QED
  BY <1>3, <1>4, <1>5

\* Each access is a request.
LEMMA AccessRequest ==
    ASSUME NEW d \in Drives, NEW loc \in Locations(d), NEW t \in {"read", "write"},
           NEW v \in Bytes
    PROVE  [drive |-> d, loc |-> loc, type |-> t, payload |-> v] \in Requests
  BY LocationNat DEF Requests

\* Types are kept by every step, also once an access was torn.
LEMMA CacheTypes == TypeOK /\ [Next]_vars => TypeOK'
<1> SUFFICES ASSUME TypeOK, [Next]_vars PROVE TypeOK'
  OBVIOUS
<1>1. ASSUME NEW d \in Drives, NEW loc \in Locations(d), Access(d, loc) PROVE TypeOK'
  BY <1>1, AccessRequest, HitTypes, MissTypes, DiskCacheAssumption DEF Access
<1>2. CASE BiosError
  BY <1>2 DEF BiosError, cache, TypeOK
<1>3. CASE UNCHANGED vars
  BY <1>3 DEF vars, TypeOK
<1>4. CASE Drop
  BY <1>4, EndTypes, HitTypes DEF Drop
<1> QED
  BY <1>1, <1>2, <1>3, <1>4, FlushTypes, LoadTypes, EndTypes DEF Next

\* A write hit changes the cache and makes it dirty.
LEMMA WriteHitKeeps ==
    ASSUME IndInv, NEW d \in Drives, NEW loc \in Locations(d), NEW v \in Bytes,
           WriteHit(d, loc, v)
    PROVE  IndInv'
<1>1. TypeOK'
  BY HitTypes DEF IndInv
<1>2. ValidInv' /\ FlushInv' /\ LoadInv'
  BY DEF IndInv, ValidInv, Intact, FlushInv, LoadInv, WriteHit, Hit, CACHE_DIRTY,
     CACHE_READY, CACHE_NOT_READY, Loaded
<1> QED
  BY <1>1, <1>2 DEF IndInv

\* A miss starts a flush or a load.
LEMMA MissKeeps ==
    ASSUME IndInv, NEW r \in Requests, r.drive \in Drives,
           r.loc \in Locations(r.drive), Miss(r)
    PROVE  IndInv'
<1>1. TypeOK'
  BY MissTypes DEF IndInv
<1>2. ValidInv'
  <2>1. cache_status \in {CACHE_NOT_READY, CACHE_READY, CACHE_DIRTY}
    BY DEF IndInv, TypeOK
  <2> QED
    BY <2>1 DEF IndInv, ValidInv, Intact, Miss, cache, CACHE_DIRTY, CACHE_READY,
       CACHE_NOT_READY
<1>3. FlushInv' /\ LoadInv'
  BY DEF IndInv, FlushInv, LoadInv, Loaded, Miss, cache, CACHE_DIRTY
<1> QED
  BY <1>1, <1>2, <1>3 DEF IndInv

\* One sector is flushed.
LEMMA FlushSectorKeeps ==
    ASSUME IndInv, FlushSector
    PROVE  IndInv'
<1> DEFINE lba == Lba(cached_block, i)
<1>0. /\ pc = "flush" /\ i \in Cells /\ cached_drive \in Drives /\ cached_block \in Nat
      /\ lba < Sectors[cached_drive] /\ disk_cache[i] \in Bytes
      /\ medium' = [medium EXCEPT ![cached_drive][lba] = disk_cache[i]]
      /\ Advance("load") /\ UNCHANGED <<cache, req, out, panicked>>
  BY DEF FlushSector, IndInv, TypeOK, Cells
<1>1. lba \in Locations(cached_drive)
  BY <1>0, JoinLocation, DiskCacheAssumption DEF Locations
<1>2. /\ medium'[cached_drive][lba] = disk_cache[i]
      /\ \A l \in Locations(cached_drive) :
            l # lba => medium'[cached_drive][l] = medium[cached_drive][l]
      /\ \A d \in Drives : medium'[d] \in [Locations(d) -> Bytes]
      /\ DOMAIN medium' = Drives
  BY <1>0, <1>1 DEF IndInv, TypeOK
<1>3. \A j \in Cells : Lba(cached_block, j) = lba => j = i
  BY <1>0, JoinLocation
<1>4. TypeOK'
  BY FlushTypes DEF IndInv
<1>5. ValidInv'
  <2>1. /\ cache_status = CACHE_DIRTY /\ cache_status # CACHE_READY /\ UNCHANGED cache
        /\ \A j \in Cells : Lba(cached_block, j) \in Locations(cached_drive)
    BY <1>0 DEF IndInv, ValidInv, Intact, FlushInv, CACHE_DIRTY, CACHE_READY,
       CACHE_NOT_READY
  <2>2. ASSUME pc' = "load", NEW j \in Cells
        PROVE  disk_cache[j] = medium'[cached_drive][Lba(cached_block, j)]
    <3>1. i = CACHE_SECTS - 1
      BY <1>0, <2>2, DiskCacheAssumption DEF Advance, Cells
    <3>2. CASE j = i
      BY <3>2, <1>2
    <3>3. CASE j # i
      <4>1. j \in 0 .. i - 1
        BY <3>1, <3>3, DiskCacheAssumption DEF Cells
      <4> QED
        BY <4>1, <3>3, <2>1, <1>0, <1>2, <1>3 DEF IndInv, FlushInv
    <3> QED
      BY <3>2, <3>3
  <2> QED
    BY <2>1, <2>2 DEF ValidInv, cache
<1>6. FlushInv'
  <2> SUFFICES ASSUME pc' = "flush", NEW j \in 0 .. i' - 1
               PROVE  medium'[cached_drive][Lba(cached_block, j)] = disk_cache[j]
    BY <1>0 DEF IndInv, FlushInv, Advance, cache
  <2>1. i' = i + 1 /\ j \in Cells
    BY <1>0, DiskCacheAssumption DEF Advance, Cells
  <2>2. Lba(cached_block, j) \in Locations(cached_drive)
    BY <1>0, <2>1 DEF IndInv, ValidInv, Intact, FlushInv, CACHE_DIRTY, CACHE_NOT_READY
  <2>3. CASE j = i
    BY <2>3, <1>2
  <2>4. CASE j # i
    BY <2>1, <2>2, <2>4, <1>0, <1>2, <1>3 DEF IndInv, FlushInv, Cells
  <2> QED
    BY <2>3, <2>4
<1>7. LoadInv'
  BY <1>0, DiskCacheAssumption DEF IndInv, TypeOK, LoadInv, Loaded, Advance
<1> QED
  BY <1>4, <1>5, <1>6, <1>7 DEF IndInv

\* One sector is loaded.
LEMMA LoadSectorKeeps ==
    ASSUME IndInv, LoadSector
    PROVE  IndInv'
<1> DEFINE b == Block(req.loc)
           lba == Lba(b, i)
<1>0. /\ pc = "load" /\ i \in Cells /\ req.drive \in Drives
      /\ req.loc \in Locations(req.drive) /\ req.loc \in Nat
      /\ lba < Sectors[req.drive]
      /\ disk_cache' = [disk_cache EXCEPT ![i] = medium[req.drive][lba]]
      /\ Advance("tag")
      /\ UNCHANGED <<medium, cache_status, cached_drive, cached_block, req, out, panicked>>
  BY LocationNat DEF LoadSector, IndInv, TypeOK, Cells, LoadInv, Requests
<1>1. lba \in Locations(req.drive)
  BY <1>0, SplitLocation, JoinLocation, DiskCacheAssumption DEF Locations
<1>3. TypeOK'
  BY LoadTypes DEF IndInv
<1>4. ValidInv' /\ FlushInv'
  BY <1>0 DEF ValidInv, Intact, FlushInv, Advance, Cells
<1>5. LoadInv'
  <2> SUFFICES ASSUME NEW j \in 0 .. Loaded' - 1
               PROVE  /\ Lba(b, j) \in Locations(req.drive)
                      /\ disk_cache'[j] = medium[req.drive][Lba(b, j)]
    BY <1>0 DEF LoadInv
  <2>1. Loaded' = i + 1 /\ j \in Cells
    BY <1>0, DiskCacheAssumption DEF Loaded, Advance, Cells
  <2>2. CASE j = i
    BY <2>2, <1>0, <1>1 DEF IndInv, TypeOK, Cells
  <2>3. CASE j # i
    <3>1. j \in 0 .. Loaded - 1
      BY <2>1, <2>3, <1>0 DEF Loaded, Cells
    <3> QED
      BY <2>1, <2>3, <3>1, <1>0 DEF IndInv, TypeOK, LoadInv, Cells
  <2> QED
    BY <2>2, <2>3
<1> QED
  BY <1>3, <1>4, <1>5 DEF IndInv

\* What is known when the load is done.
LEMMA TagFacts ==
    ASSUME IndInv, Tag
    PROVE  /\ req.drive \in Drives /\ req.loc \in Locations(req.drive) /\ req.loc \in Nat
           /\ Block(req.loc) \in Nat /\ Offset(req.loc) \in Cells
           /\ \A j \in Cells :
                 /\ Lba(Block(req.loc), j) \in Locations(req.drive)
                 /\ disk_cache[j] = medium[req.drive][Lba(Block(req.loc), j)]
<1>1. req.drive \in Drives /\ req.loc \in Locations(req.drive)
  BY DEF IndInv, TypeOK, Requests, LoadInv, Tag
<1>2. Loaded = CACHE_SECTS
  BY DEF Tag, Loaded
<1> QED
  BY <1>1, <1>2, LocationNat, SplitLocation DEF IndInv, LoadInv, Tag, Cells

\* The tags are updated.
LEMMA TagKeeps ==
    ASSUME IndInv, Tag
    PROVE  IndInv'
<1>1. TypeOK'
  BY EndTypes DEF IndInv
<1>2. ValidInv'
  BY TagFacts DEF ValidInv, Tag, CACHE_READY, CACHE_DIRTY
<1>3. FlushInv' /\ LoadInv'
  BY DEF FlushInv, LoadInv, Tag
<1> QED
  BY <1>1, <1>2, <1>3 DEF IndInv

\* An access that is dropped before its load leaves the cache as it was, and
\* right: if it was flushed, it is as good as clean.
LEMMA DropEarlyKeeps ==
    ASSUME IndInv, DropEarly
    PROVE  IndInv'
<1>1. TypeOK'
  BY EndTypes DEF IndInv
<1>2. ValidInv'
  BY DEF IndInv, ValidInv, Intact, DropEarly, cache
<1>3. FlushInv' /\ LoadInv'
  BY DEF FlushInv, LoadInv, DropEarly
<1> QED
  BY <1>1, <1>2, <1>3 DEF IndInv

\* Each access asks for a location on a drive.
LEMMA AccessKeeps ==
    ASSUME IndInv, NEW d \in Drives, NEW loc \in Locations(d), Access(d, loc)
    PROVE  IndInv'
<1>1. CASE ReadHit(d, loc)
  <2>1. TypeOK'
    BY <1>1, HitTypes, DiskCacheAssumption DEF IndInv
  <2> QED
    BY <1>1, <2>1 DEF ReadHit, cache, IndInv, ValidInv, Intact, FlushInv, LoadInv, Loaded
<1>2. ASSUME NEW r \in Requests, r.drive = d, r.loc = loc, Miss(r) PROVE IndInv'
  BY <1>2, MissKeeps
<1> QED
  BY <1>1, <1>2, AccessRequest, WriteHitKeeps, DiskCacheAssumption DEF Access

\* The invariant holds at the start.
LEMMA CacheStarts == Init => IndInv
<1> SUFFICES ASSUME Init PROVE IndInv
  OBVIOUS
<1>1. req \in Requests
  BY DiskCacheAssumption DEF Init, Requests
<1>2. TypeOK
  <2>1. DOMAIN medium = Drives /\ \A d \in Drives : medium[d] \in [Locations(d) -> Bytes]
    BY DiskCacheAssumption DEF Init
  <2>2. disk_cache \in [0 .. CACHE_SECTS - 1 -> Bytes] /\ i \in 0 .. CACHE_SECTS - 1
    BY DiskCacheAssumption DEF Init
  <2> QED
    BY <1>1, <2>1, <2>2, DiskCacheAssumption DEF Init, TypeOK, CACHE_NOT_READY
<1> QED
  BY <1>2 DEF Init, IndInv, ValidInv, FlushInv, LoadInv, CACHE_NOT_READY

\* A torn access is not forgotten.
LEMMA TornForEver == [Next]_vars /\ torn => torn'
  BY DEF Next, vars, Access, ReadHit, WriteHit, Miss, FlushSector, LoadSector,
     BiosError, Tag, Drop, DropEarly, DropLate, DropHit

\* Every step keeps the invariant, unless it tears an access.
LEMMA CacheStep == IndInv /\ [Next]_vars => IndInv' \/ torn'
<1> SUFFICES ASSUME IndInv, [Next]_vars PROVE IndInv' \/ torn'
  OBVIOUS
<1>1. CASE BiosError
  BY <1>1 DEF BiosError, cache, IndInv, TypeOK, ValidInv, Intact, FlushInv, LoadInv, Loaded
<1>2. CASE UNCHANGED vars
  BY <1>2 DEF vars, IndInv, TypeOK, ValidInv, Intact, FlushInv, LoadInv, Loaded
<1>3. CASE Drop
  BY <1>3, DropEarlyKeeps DEF Drop, DropLate, DropHit
<1> QED
  BY <1>1, <1>2, <1>3, AccessKeeps, FlushSectorKeeps, LoadSectorKeeps, TagKeeps DEF Next

\* Types are right throughout, and the rest until an access is torn.
SafeInv == TypeOK /\ (torn \/ IndInv)

THEOREM CacheInvariance == Spec => []SafeInv
<1>1. Init => SafeInv
  BY CacheStarts DEF SafeInv, IndInv
<1>2. SafeInv /\ [Next]_vars => SafeInv'
  BY CacheStep, CacheTypes, TornForEver DEF SafeInv
<1> QED
  BY <1>1, <1>2, PTL DEF Spec

\* Between accesses a clean cache holds what its tags say, until an access is
\* dropped between its stores; one dropped before its load does no harm.
THEOREM TagsRight == Spec => []TagsDescribeCache
<1>1. SafeInv => TagsDescribeCache
  BY DEF SafeInv, IndInv, ValidInv, Intact, TagsDescribeCache, HitsAreReads, Cells,
     CACHE_READY, CACHE_NOT_READY
<1> QED
  BY <1>1, CacheInvariance, PTL

(***************************************************************************)
(* The steps are steps of Disk.                                            *)
(***************************************************************************)

\* The byte a user sees at one location.
Byte(d, loc) == IF InCache(d, loc) THEN disk_cache[Offset(loc)] ELSE medium[d][loc]

\* If every byte stays the same, so do the contents of the drives.
LEMMA SameContents ==
    ASSUME \A d \in Drives : \A loc \in Locations(d) : Byte(d, loc)' = Byte(d, loc)
    PROVE  Contents' = Contents
  BY DEF Contents, Byte

\* If one byte changes, the contents change there.
LEMMA ChangedContents ==
    ASSUME NEW d \in Drives, NEW loc \in Locations(d), NEW v,
           Byte(d, loc)' = v,
           \A e \in Drives : \A x \in Locations(e) :
               ~(e = d /\ x = loc) => Byte(e, x)' = Byte(e, x)
    PROVE  Contents' = [Contents EXCEPT ![d][loc] = v]
<1>1. ASSUME NEW e \in Drives, e # d PROVE Contents'[e] = Contents[e]
  BY <1>1 DEF Contents, Byte
<1>2. Contents'[d] = [Contents[d] EXCEPT ![loc] = v]
  BY DEF Contents, Byte
<1>3. Contents' \in [Drives -> {Contents'[e] : e \in Drives}] /\ DOMAIN Contents = Drives
  BY DEF Contents
<1> QED
  BY <1>1, <1>2, <1>3 DEF Contents

\* A hit on a location reads its byte.
LEMMA HitByte ==
    ASSUME NEW d \in Drives, NEW loc \in Locations(d), pc = "ready", Hit(d, loc)
    PROVE  Contents[d][loc] = disk_cache[Offset(loc)]
  BY DEF Contents, InCache

\* Two locations of one block with one offset are the same.
LEMMA SameLocation ==
    ASSUME NEW x \in Nat, NEW y \in Nat, Block(x) = Block(y), Offset(x) = Offset(y)
    PROVE  x = y
<1>1. x = Lba(Block(x), Offset(x)) /\ y = Lba(Block(y), Offset(y))
  BY SplitLocation
<1> QED
  BY <1>1

\* A read hit is a read.
LEMMA ReadHitRefines ==
    ASSUME IndInv, NEW d \in Drives, NEW loc \in Locations(d), ReadHit(d, loc)
    PROVE  D!Read(d, loc)
<1>1. Contents' = Contents
  BY DEF ReadHit, cache, Contents, InCache, Hit
<1>2. out' = Contents[d][loc]
  BY HitByte DEF ReadHit
<1> QED
  BY <1>1, <1>2 DEF D!Read, ReadHit

\* A write hit is a write.
LEMMA WriteHitRefines ==
    ASSUME IndInv, NEW d \in Drives, NEW loc \in Locations(d), NEW v \in Bytes,
           WriteHit(d, loc, v)
    PROVE  D!Write(d, loc, v)
<1>0. /\ loc \in Nat /\ Offset(loc) \in Cells /\ disk_cache \in [Cells -> Bytes]
      /\ pc = "ready" /\ pc' = "ready" /\ Hit(d, loc) /\ UNCHANGED <<medium, cached_drive, cached_block>>
      /\ disk_cache' = [disk_cache EXCEPT ![Offset(loc)] = v]
      /\ cache_status' = CACHE_DIRTY
  BY LocationNat, SplitLocation DEF WriteHit, IndInv, TypeOK, Cells
<1>1. ASSUME NEW e \in Drives, NEW x \in Locations(e)
      PROVE  InCache(e, x)' <=> InCache(e, x)
  BY <1>0 DEF InCache, Hit, CACHE_DIRTY, CACHE_NOT_READY
<1>2. Byte(d, loc)' = v
  BY <1>0, <1>1 DEF Byte, InCache
<1>3. ASSUME NEW e \in Drives, NEW x \in Locations(e), ~(e = d /\ x = loc)
      PROVE  Byte(e, x)' = Byte(e, x)
  <2>0. x \in Nat /\ Offset(x) \in Cells
    BY LocationNat, SplitLocation
  <2>1. CASE InCache(e, x)
    <3>1. e = d /\ Block(x) = Block(loc)
      BY <1>0, <2>1 DEF InCache, Hit
    <3>2. Offset(x) # Offset(loc)
      BY <1>0, <1>3, <2>0, <3>1, SameLocation
    <3> QED
      BY <1>0, <1>1, <2>0, <2>1, <3>2 DEF Byte
  <2>2. CASE ~InCache(e, x)
    BY <1>0, <1>1, <2>2 DEF Byte
  <2> QED
    BY <2>1, <2>2
<1>4. Contents' = [Contents EXCEPT ![d][loc] = v]
  BY <1>2, <1>3, ChangedContents
<1> QED
  BY <1>4 DEF D!Write, WriteHit

\* A clean cache agrees with the medium at every location it holds.
LEMMA CleanByte ==
    ASSUME IndInv, cache_status # CACHE_DIRTY, NEW e \in Drives, NEW x \in Locations(e)
    PROVE  Byte(e, x) = medium[e][x]
<1>1. CASE InCache(e, x)
  <2>1. cache_status = CACHE_READY /\ e = cached_drive /\ Block(x) = cached_block
    BY <1>1 DEF InCache, Hit, IndInv, TypeOK
  <2>2. Offset(x) \in Cells /\ Lba(Block(x), Offset(x)) = x
    BY LocationNat, SplitLocation
  <2>3. disk_cache[Offset(x)] = medium[cached_drive][Lba(cached_block, Offset(x))]
    BY <1>1, <2>1, <2>2 DEF InCache, IndInv, ValidInv, Intact, CACHE_READY, CACHE_NOT_READY
  <2> QED
    BY <1>1, <2>1, <2>2, <2>3 DEF Byte
<1>2. CASE ~InCache(e, x)
  BY <1>2 DEF Byte
<1> QED
  BY <1>1, <1>2

\* A miss changes nothing a user can see.
LEMMA MissRefines ==
    ASSUME IndInv, NEW r, Miss(r)
    PROVE  UNCHANGED <<Contents, out, panicked>>
<1>1. CASE cache_status = CACHE_DIRTY
  <2>1. Contents' = Contents
    BY <1>1 DEF Miss, cache, Contents, InCache, Hit
  <2> QED
    BY <2>1 DEF Miss
<1>2. CASE cache_status # CACHE_DIRTY
  <2>1. ASSUME NEW e \in Drives, NEW x \in Locations(e) PROVE Byte(e, x)' = Byte(e, x)
    <3>1. Byte(e, x)' = medium[e][x]
      BY <1>2 DEF Miss, cache, Byte, InCache
    <3> QED
      BY <1>2, <3>1, CleanByte
  <2>2. Contents' = Contents
    BY <2>1, SameContents
  <2> QED
    BY <2>2 DEF Miss
<1> QED
  BY <1>1, <1>2

\* Nor does a sector that is flushed: the cache has its byte until the last
\* one, and then the medium has them all.
LEMMA FlushRefines ==
    ASSUME IndInv, FlushSector
    PROVE  UNCHANGED <<Contents, out, panicked>>
<1>0. /\ pc = "flush" /\ i \in Cells /\ cached_drive \in Drives /\ cached_block \in Nat
      /\ medium' = [medium EXCEPT ![cached_drive][Lba(cached_block, i)] = disk_cache[i]]
      /\ Advance("load") /\ UNCHANGED <<cache, req, out, panicked>>
      /\ cache_status = CACHE_DIRTY
  BY DEF FlushSector, IndInv, TypeOK, Cells, FlushInv
<1>1. ASSUME NEW e \in Drives, NEW x \in Locations(e)
      PROVE  Byte(e, x)' = Byte(e, x)
  <2>0. /\ x \in Nat /\ Block(x) \in Nat /\ Offset(x) \in Cells
        /\ Lba(Block(x), Offset(x)) = x
    BY LocationNat, SplitLocation
  <2>1. medium'[e][x] = IF e = cached_drive /\ x = Lba(cached_block, i)
                        THEN disk_cache[i] ELSE medium[e][x]
    BY <1>0 DEF IndInv, TypeOK
  <2>2. CASE ~Hit(e, x)
    <3>1. ~(e = cached_drive /\ x = Lba(cached_block, i))
      BY <1>0, <2>2, JoinLocation DEF Hit, CACHE_DIRTY, CACHE_NOT_READY
    <3>2. ~InCache(e, x) /\ ~InCache(e, x)'
      BY <1>0, <2>2 DEF InCache, Hit, cache
    <3> QED
      BY <2>1, <3>1, <3>2 DEF Byte
  <2>3. CASE Hit(e, x)
    <3>0. e = cached_drive /\ Block(x) = cached_block /\ InCache(e, x)
      BY <1>0, <2>3 DEF Hit, InCache
    <3>1. CASE i + 1 < CACHE_SECTS
      <4>1. InCache(e, x)'
        BY <1>0, <2>3, <3>1 DEF Advance, InCache, Hit, cache
      <4> QED
        BY <1>0, <3>0, <4>1 DEF Byte, cache
    <3>2. CASE ~(i + 1 < CACHE_SECTS)
      <4>1. pc' = "load" /\ i = CACHE_SECTS - 1
        BY <1>0, <3>2, DiskCacheAssumption DEF Advance, Cells
      <4>2. ~InCache(e, x)'
        BY <4>1 DEF InCache
      <4>3. medium'[e][x] = disk_cache[Offset(x)]
        <5>1. CASE Offset(x) = i
          BY <2>0, <2>1, <3>0, <5>1
        <5>2. CASE Offset(x) # i
          <6>1. Offset(x) \in 0 .. i - 1
            BY <2>0, <4>1, <5>2, DiskCacheAssumption DEF Cells
          <6>2. medium[cached_drive][Lba(cached_block, Offset(x))] = disk_cache[Offset(x)]
            BY <1>0, <6>1 DEF IndInv, FlushInv
          <6>3. x # Lba(cached_block, i)
            BY <1>0, <5>2, JoinLocation
          <6> QED
            BY <2>0, <2>1, <3>0, <6>2, <6>3
        <5> QED
          BY <5>1, <5>2
      <4> QED
        BY <3>0, <4>2, <4>3 DEF Byte
    <3> QED
      BY <3>1, <3>2
  <2> QED
    BY <2>2, <2>3
<1>2. Contents' = Contents
  BY <1>1, SameContents
<1> QED
  BY <1>0, <1>2

\* During a load the medium has every byte.
LEMMA LoadRefines ==
    ASSUME IndInv, LoadSector
    PROVE  UNCHANGED <<Contents, out, panicked>>
<1>1. ASSUME NEW e \in Drives, NEW x \in Locations(e) PROVE Byte(e, x)' = Byte(e, x)
  BY DEF LoadSector, Advance, Byte, InCache
<1>2. Contents' = Contents
  BY <1>1, SameContents
<1> QED
  BY <1>2 DEF LoadSector

\* The update of the tags is the read or the write that was asked for.
LEMMA TagRefines ==
    ASSUME IndInv, Tag
    PROVE  \/ req.type = "read" /\ D!Read(req.drive, req.loc)
           \/ req.type = "write" /\ D!Write(req.drive, req.loc, req.payload)
<1>a. PICK d \in Drives, loc \in Nat, v \in Bytes :
           d = req.drive /\ loc = req.loc /\ v = req.payload
  BY TagFacts DEF IndInv, TypeOK, Requests
<1>0. /\ loc \in Locations(d) /\ Offset(loc) \in Cells /\ Block(loc) \in Nat
      /\ Lba(Block(loc), Offset(loc)) = loc
      /\ disk_cache \in [Cells -> Bytes]
      /\ pc = "tag" /\ pc' = "ready" /\ UNCHANGED <<medium, panicked>> /\ ~panicked
      /\ cached_drive' = d /\ cached_block' = Block(loc)
      /\ cache_status' # CACHE_NOT_READY
      /\ \A j \in Cells : disk_cache[j] = medium[d][Lba(Block(loc), j)]
  <2>1. /\ loc \in Locations(d) /\ Offset(loc) \in Cells /\ Block(loc) \in Nat
        /\ \A j \in Cells : disk_cache[j] = medium[d][Lba(Block(loc), j)]
    BY <1>a, TagFacts
  <2>2. Lba(Block(loc), Offset(loc)) = loc
    BY SplitLocation
  <2>3. disk_cache \in [Cells -> Bytes]
    BY DEF IndInv, TypeOK, Cells
  <2>4. /\ pc = "tag" /\ pc' = "ready" /\ UNCHANGED <<medium, panicked>> /\ ~panicked
        /\ cached_drive' = d /\ cached_block' = Block(loc)
        /\ cache_status' # CACHE_NOT_READY
    BY <1>a DEF Tag, CACHE_READY, CACHE_DIRTY, CACHE_NOT_READY
  <2> QED
    BY <2>1, <2>2, <2>3, <2>4
<1>1. ASSUME NEW e \in Drives, NEW x \in Locations(e)
      PROVE  /\ Byte(e, x) = medium[e][x]
             /\ x \in Nat /\ Offset(x) \in Cells
             /\ InCache(e, x)' <=> e = d /\ Block(x) = Block(loc)
             /\ e = d /\ Block(x) = Block(loc) => disk_cache[Offset(x)] = medium[e][x]
             /\ ~InCache(e, x)' => Byte(e, x)' = medium[e][x]
             /\ InCache(e, x)' => Byte(e, x)' = disk_cache'[Offset(x)]
  <2>1. x \in Nat /\ Offset(x) \in Cells /\ Lba(Block(x), Offset(x)) = x
    BY LocationNat, SplitLocation
  <2>2. Byte(e, x) = medium[e][x]
    BY <1>0 DEF Byte, InCache
  <2>3. InCache(e, x)' <=> e = d /\ Block(x) = Block(loc)
    BY <1>0 DEF InCache, Hit
  <2>4. e = d /\ Block(x) = Block(loc) => disk_cache[Offset(x)] = medium[e][x]
    BY <1>0, <2>1
  <2>5. /\ ~InCache(e, x)' => Byte(e, x)' = medium[e][x]
        /\ InCache(e, x)' => Byte(e, x)' = disk_cache'[Offset(x)]
    BY <1>0 DEF Byte
  <2> QED
    BY <2>1, <2>2, <2>3, <2>4, <2>5
<1>2. CASE req.type = "read"
  <2>1. disk_cache' = disk_cache /\ out' = disk_cache[Offset(loc)]
    BY <1>a, <1>2 DEF Tag
  <2>2. ASSUME NEW e \in Drives, NEW x \in Locations(e) PROVE Byte(e, x)' = Byte(e, x)
    BY <1>1, <2>1
  <2>3. Contents' = Contents
    BY <2>2, SameContents
  <2>4. out' = Contents[d][loc]
    BY <1>0, <2>1 DEF Contents, InCache
  <2> QED
    BY <1>a, <1>0, <1>2, <2>3, <2>4 DEF D!Read
<1>3. CASE req.type = "write"
  <2>1. disk_cache' = [disk_cache EXCEPT ![Offset(loc)] = v] /\ out' = 0
    BY <1>a, <1>3 DEF Tag
  <2>2. Byte(d, loc)' = v
    BY <1>0, <1>1, <2>1
  <2>3. ASSUME NEW e \in Drives, NEW x \in Locations(e), ~(e = d /\ x = loc)
        PROVE  Byte(e, x)' = Byte(e, x)
    <3>1. CASE InCache(e, x)'
      <4>1. e = d /\ Block(x) = Block(loc) /\ x \in Nat /\ Offset(x) \in Cells
        BY <1>1, <3>1
      <4>2. Offset(x) # Offset(loc)
        BY <2>3, <4>1, SameLocation
      <4>3. disk_cache'[Offset(x)] = disk_cache[Offset(x)]
        BY <1>0, <2>1, <4>1, <4>2
      <4> QED
        BY <1>1, <3>1, <4>1, <4>3
    <3>2. CASE ~InCache(e, x)'
      BY <1>1, <3>2
    <3> QED
      BY <3>1, <3>2
  <2>4. Contents' = [Contents EXCEPT ![d][loc] = v]
    BY <1>0, <2>2, <2>3, ChangedContents
  <2> QED
    BY <1>a, <1>0, <1>3, <2>1, <2>4 DEF D!Write
<1> QED
  BY <1>2, <1>3 DEF Tag

\* Nor does an access that is dropped before its load: what it has flushed is
\* on the medium and in the cache.
LEMMA DropEarlyRefines ==
    ASSUME IndInv, DropEarly
    PROVE  UNCHANGED <<Contents, out, panicked>>
<1>0. /\ pc' = "ready" /\ UNCHANGED <<medium, cache, out, panicked>>
      /\ pc = "flush" \/ (pc = "load" /\ i = 0)
  BY DEF DropEarly
<1>1. ASSUME NEW e \in Drives, NEW x \in Locations(e) PROVE Byte(e, x)' = Byte(e, x)
  <2>1. InCache(e, x)' <=> Hit(e, x)
    BY <1>0 DEF InCache, Hit, cache
  <2>2. CASE pc = "flush"
    BY <1>0, <2>1, <2>2 DEF Byte, InCache, cache
  <2>3. CASE pc = "load" /\ Hit(e, x)
    <3>1. /\ e = cached_drive /\ Block(x) = cached_block
          /\ cache_status # CACHE_NOT_READY
      BY <2>3 DEF Hit
    <3>2. Offset(x) \in Cells /\ Lba(Block(x), Offset(x)) = x
      BY LocationNat, SplitLocation
    <3>3. disk_cache[Offset(x)] = medium[cached_drive][Lba(cached_block, Offset(x))]
      BY <1>0, <2>3, <3>1, <3>2 DEF IndInv, ValidInv, Intact
    <3> QED
      BY <1>0, <2>1, <2>3, <3>1, <3>2, <3>3 DEF Byte, InCache, cache
  <2>4. CASE pc = "load" /\ ~Hit(e, x)
    BY <1>0, <2>1, <2>4 DEF Byte, InCache, cache
  <2> QED
    BY <1>0, <2>2, <2>3, <2>4
<1>2. Contents' = Contents
  BY <1>1, SameContents
<1> QED
  BY <1>0, <1>2

\* The cache implements the drives behind it: no write is lost, no read
\* returns another block's byte, and an error half-way, or an access dropped
\* before its load, changes nothing that a user has seen; until an access is
\* dropped between its stores.
THEOREM CacheImplementsDisk == Spec => ImplementsDisk
<1>1. Init => D!Init
  BY DEF Init, D!Init, Contents, InCache, Hit, Locations, D!Locations
<1>2. SafeInv /\ [Next]_vars => [D!Next \/ torn']_<<Contents, out, panicked>>
  <2> SUFFICES ASSUME IndInv, [Next]_vars
               PROVE  D!Next \/ torn' \/ UNCHANGED <<Contents, out, panicked>>
    BY TornForEver DEF SafeInv
  <2> USE DEF Locations, D!Locations
  <2>1. CASE \E d \in Drives : \E loc \in Locations(d) : Access(d, loc)
    <3>1. PICK d \in Drives : \E loc \in Locations(d) : Access(d, loc)
      BY <2>1
    <3>2. PICK loc \in Locations(d) : Access(d, loc)
      BY <3>1
    <3> QED
      BY <3>2, ReadHitRefines, WriteHitRefines, MissRefines DEF Access, D!Next
  <2>2. CASE Tag
    <3>1. /\ req.drive \in Drives /\ req.loc \in Locations(req.drive)
          /\ req.payload \in Bytes
      BY <2>2, TagFacts DEF IndInv, TypeOK, Requests
    <3> QED
      BY <2>2, <3>1, TagRefines DEF D!Next
  <2>3. CASE BiosError
    <3>1. Contents' = Contents
      BY <2>3 DEF BiosError, cache, Contents, InCache, Hit
    <3> QED
      BY <2>3, <3>1 DEF BiosError, D!Stop, D!Next
  <2>4. CASE UNCHANGED vars
    <3>1. Contents' = Contents
      BY <2>4 DEF vars, Contents, InCache, Hit
    <3> QED
      BY <2>4, <3>1 DEF vars
  <2>5. CASE Drop
    BY <2>5, DropEarlyRefines DEF Drop, DropLate, DropHit
  <2> QED
    BY <2>1, <2>2, <2>3, <2>4, <2>5, FlushRefines, LoadRefines DEF Next
<1> QED
  BY <1>1, <1>2, CacheInvariance, PTL DEF Spec, ImplementsDisk

(***************************************************************************)
(* Partitions: a second cache on top of the first.                         *)
(***************************************************************************)

\* The sector of the drive that a partition's own sector x is.
Sector(s, x) == First[s] + x

\* What the partitions need: they lie on the drive, apart from each other, the
\* offsets in bytes of their sectors fit an int, nobody writes to the drive
\* behind them, and what cache_state happens to be at first is not CACHE_DIRTY.
PartsSound ==
    /\ CACHE_DIRTY \notin Garbage
    /\ ~RawWrites
    /\ 0 < Sectors[Disk0]
    /\ \A s \in Slots : \A x \in PartLocations(s) :
          Sector(s, x) < Sectors[Disk0] /\ Sector(s, x) < SeekLimit
    /\ \A s, t \in Slots : \A x \in PartLocations(s), y \in PartLocations(t) :
          Sector(s, x) = Sector(t, y) => s = t /\ x = y

\* The partition whose cached sector is being replaced.
Dropped(s) == ppc \in {"load", "tag"} /\ preq.slot = s

\* What the drive has at a sector of a partition.
Below(s, x) == Contents[Disk0][Sector(s, x)]

SlotStates ==
    [added : BOOLEAN, in_cache : Int, cache : Bytes,
     cache_state : {CACHE_NOT_READY, CACHE_READY, CACHE_DIRTY}, ptr : Int]

PartRequests ==
    [slot : Slots, loc : Nat, type : {"read", "write"}, payload : Bytes]

PartTypes ==
    /\ part \in [Slots -> SlotStates]
    /\ ppc \in {"scan", "table", "ready", "flush", "load", "tag"}
    /\ ppc \in {"flush", "load", "tag"} =>
          /\ preq \in PartRequests
          /\ preq.loc \in PartLocations(preq.slot)
          /\ part[preq.slot].added
    /\ ppc \in {"scan", "table"} => \A s \in Slots : part[s].in_cache = Unset
    /\ \A s \in Slots : part[s].in_cache # Unset => part[s].in_cache \in PartLocations(s)

\* A partition's cache that was never filled is not dirty; one that was and
\* is clean agrees with the drive below.
SlotInv(s) ==
    /\ part[s].in_cache = Unset => part[s].cache_state # CACHE_DIRTY
    /\ part[s].in_cache # Unset /\ part[s].cache_state = CACHE_READY =>
          part[s].cache = Below(s, part[s].in_cache)

CachesInv == \A s \in Slots : SlotInv(s)

\* What the driver is busy with, or has just done, for a partition.
UnderWay ==
    /\ ppc = "flush" => pc = "ready" /\ part[preq.slot].cache_state = CACHE_DIRTY
    /\ ppc = "load" /\ pc # "ready" =>
          /\ part[preq.slot].cache_state = CACHE_DIRTY
          /\ req.type = "write" /\ req.drive = Disk0
          /\ req.loc = Sector(preq.slot, part[preq.slot].in_cache)
          /\ req.payload = part[preq.slot].cache
    /\ (ppc = "load" /\ pc = "ready") \/ ppc = "tag" =>
          (part[preq.slot].cache_state = CACHE_DIRTY =>
              part[preq.slot].cache = Below(preq.slot, part[preq.slot].in_cache))
    /\ ppc = "tag" /\ pc = "ready" => out = Below(preq.slot, preq.loc)
    /\ ppc = "tag" /\ pc # "ready" => req.loc = Sector(preq.slot, preq.loc)
    /\ ppc = "tag" /\ pc # "ready" => req.drive = Disk0
    /\ pc # "ready" /\ ppc # "load" /\ req.drive = Disk0 => req.type = "read"

PartInv == IndInv /\ PartTypes /\ CachesInv /\ UnderWay

\* A sector of a partition is a location of the drive, and devfs_seek gets
\* there.
LEMMA SectorFacts ==
    ASSUME PartsSound, NEW s \in Slots, NEW x \in PartLocations(s)
    PROVE  /\ x \in Nat /\ x # Unset
           /\ Sector(s, x) \in Nat /\ Sector(s, x) \in Locations(Disk0)
           /\ \A ptr : Seek(ptr, Sector(s, x)) = Sector(s, x)
<1>1. x \in Nat /\ Sectors[Disk0] \in Nat /\ SeekLimit \in Nat /\ First[s] \in Nat
  BY PartAssumption, DiskCacheAssumption DEF PartLocations
<1>2. Sector(s, x) < Sectors[Disk0] /\ Sector(s, x) < SeekLimit
  BY DEF PartsSound
<1>3. Sector(s, x) \in Nat
  BY <1>1 DEF Sector
<1> QED
  BY <1>1, <1>2, <1>3 DEF Locations, Seek, Unset

\* A write to the drive changes one byte of it.
LEMMA WrittenBelow ==
    ASSUME NEW d \in Drives, NEW loc \in Locations(d), NEW v,
           Contents' = [Contents EXCEPT ![d][loc] = v],
           NEW e \in Drives, NEW x \in Locations(e)
    PROVE  Contents'[e][x] = IF e = d /\ x = loc THEN v ELSE Contents[e][x]
<1>1. DOMAIN Contents = Drives /\ \A f \in Drives : DOMAIN Contents[f] = Locations(f)
  BY DEF Contents
<1> QED
  BY <1>1

(***************************************************************************)
(* What an access, or a step of the driver, does to the drive.             *)
(***************************************************************************)

\* A read returns the drive's byte, or has been asked for.
LEMMA DriveReadEffect ==
    ASSUME IndInv, NEW d \in Drives, NEW loc \in Locations(d),
           \/ ReadHit(d, loc)
           \/ Miss([drive |-> d, loc |-> loc, type |-> "read", payload |-> 0])
    PROVE  /\ Contents' = Contents /\ panicked' = panicked
           /\ \/ pc' = "ready" /\ out' = Contents[d][loc]
              \/ /\ pc' # "ready"
                 /\ req'.drive = d /\ req'.loc = loc /\ req'.type = "read"
<1>1. CASE ReadHit(d, loc)
  BY <1>1, ReadHitRefines DEF D!Read, ReadHit
<1>2. CASE Miss([drive |-> d, loc |-> loc, type |-> "read", payload |-> 0])
  <2>1. UNCHANGED <<Contents, panicked>>
    BY <1>2, MissRefines
  <2> QED
    BY <1>2, <2>1 DEF Miss
<1> QED
  BY <1>1, <1>2

\* A write has changed the drive's byte, or has been asked for.
LEMMA DriveWriteEffect ==
    ASSUME IndInv, NEW d \in Drives, NEW loc \in Locations(d), NEW v \in Bytes,
           \/ WriteHit(d, loc, v)
           \/ Miss([drive |-> d, loc |-> loc, type |-> "write", payload |-> v])
    PROVE  /\ panicked' = panicked
           /\ \/ /\ pc' = "ready"
                 /\ Contents' = [Contents EXCEPT ![d][loc] = v]
              \/ /\ pc' # "ready" /\ pc' \in {"flush", "load", "tag"}
                 /\ Contents' = Contents
                 /\ req'.drive = d /\ req'.loc = loc /\ req'.type = "write"
                 /\ req'.payload = v
<1>1. CASE WriteHit(d, loc, v)
  BY <1>1, WriteHitRefines DEF D!Write, WriteHit
<1>2. CASE Miss([drive |-> d, loc |-> loc, type |-> "write", payload |-> v])
  <2>1. UNCHANGED <<Contents, panicked>>
    BY <1>2, MissRefines
  <2> QED
    BY <1>2, <2>1 DEF Miss
<1> QED
  BY <1>1, <1>2

\* The driver goes on, and what was asked for happens in its last step.
LEMMA DriverEffect ==
    ASSUME IndInv, FlushSector \/ LoadSector \/ BiosError \/ Tag
    PROVE  /\ pc # "ready" /\ pc \in {"flush", "load", "tag"}
           /\ ~panicked /\ (pc' # "ready" => req' = req)
           /\ req.drive \in Drives /\ req.loc \in Locations(req.drive)
           /\ panicked' = panicked \/ BiosError
           /\ \/ pc' # "ready" /\ pc' \in {"flush", "load", "tag"} /\ Contents' = Contents
              \/ /\ pc' = "ready" /\ req.type = "read"
                 /\ Contents' = Contents /\ out' = Contents[req.drive][req.loc]
              \/ /\ pc' = "ready" /\ req.type = "write"
                 /\ Contents' = [Contents EXCEPT ![req.drive][req.loc] = req.payload]
<1>1. /\ pc # "ready" /\ ~panicked /\ (pc' # "ready" => req' = req)
      /\ pc \in {"flush", "load", "tag"}
  BY DEF FlushSector, LoadSector, BiosError, Tag
<1>2. req.drive \in Drives /\ req.loc \in Locations(req.drive)
  BY <1>1 DEF IndInv, TypeOK, Requests, LoadInv
<1>3. CASE FlushSector
  BY <1>1, <1>2, <1>3, FlushRefines DEF FlushSector, Advance
<1>4. CASE LoadSector
  BY <1>1, <1>2, <1>4, LoadRefines DEF LoadSector, Advance
<1>5. CASE BiosError
  <2>1. Contents' = Contents
    BY <1>5 DEF BiosError, cache, Contents, InCache, Hit
  <2> QED
    BY <1>1, <1>2, <1>5, <2>1 DEF BiosError
<1>6. CASE Tag
  BY <1>1, <1>2, <1>6, TagRefines DEF Tag, D!Read, D!Write
<1> QED
  BY <1>3, <1>4, <1>5, <1>6

(***************************************************************************)
(* The steps of partitions use the driver as its users do.                 *)
(***************************************************************************)

\* A dirty sector is written to its own place.
LEMMA FlushFacts ==
    ASSUME PartsSound, PartTypes, CachesInv, UnderWay, PartFlush
    PROVE  \E s \in Slots : \E x \in PartLocations(s) :
              /\ s = preq.slot /\ x = part[s].in_cache
              /\ part[s].cache \in Bytes
              /\ ppc = "flush" /\ ppc' = "load" /\ pc = "ready" /\ ~panicked
              /\ DriveWrite(Sector(s, x), part[s].cache)
              /\ part' = [part EXCEPT ![s].ptr = Sector(s, x) + 1]
              /\ UNCHANGED <<table, n, preq, pout>>
<1>1. PICK s \in Slots : s = preq.slot
  BY DEF PartFlush, PartTypes, PartRequests
<1>2. part[s] \in SlotStates /\ part[s].cache_state = CACHE_DIRTY
  BY <1>1 DEF PartFlush, PartTypes, UnderWay
<1>3. PICK x \in PartLocations(s) : x = part[s].in_cache
  BY <1>2 DEF CachesInv, SlotInv, PartTypes
<1>4. Seek(part[s].ptr, First[s] + part[s].in_cache) = Sector(s, x)
  BY <1>3, SectorFacts DEF Sector
<1>5. /\ ppc = "flush" /\ ppc' = "load" /\ pc = "ready" /\ ~panicked
      /\ DriveWrite(Sector(s, x), part[s].cache)
      /\ part' = [part EXCEPT ![s].ptr = Sector(s, x) + 1]
      /\ UNCHANGED <<table, n, preq, pout>>
  BY <1>1, <1>4 DEF PartFlush, DriveDone
<1>6. part[s].cache \in Bytes
  BY <1>2 DEF SlotStates
<1> QED
  BY <1>1, <1>3, <1>5, <1>6

\* The sector that was asked for is read from its own place.
LEMMA LoadFacts ==
    ASSUME PartsSound, PartTypes, PartLoad
    PROVE  \E s \in Slots : \E x \in PartLocations(s) :
              /\ s = preq.slot /\ x = preq.loc
              /\ ppc = "load" /\ ppc' = "tag" /\ pc = "ready" /\ ~panicked
              /\ DriveRead(Sector(s, x))
              /\ part' = [part EXCEPT ![s].ptr = Sector(s, x) + 1]
              /\ UNCHANGED <<table, n, preq, pout>>
<1>1. PICK s \in Slots : s = preq.slot
  BY DEF PartLoad, PartTypes, PartRequests
<1>2. PICK x \in PartLocations(s) : x = preq.loc
  BY <1>1 DEF PartLoad, PartTypes
<1>3. Seek(part[s].ptr, First[s] + preq.loc) = Sector(s, x)
  BY <1>2, SectorFacts DEF Sector
<1> QED
  BY <1>1, <1>2, <1>3 DEF PartLoad, DriveDone

\* Wherever a sector is flushed to, it is on the drive; also if an access was
\* torn before a sector was ever in the cache.
LEMMA FlushPlace ==
    ASSUME PartsSound, PartTypes, ppc = "flush"
    PROVE  \E s \in Slots, ptr \in Locations(Disk0) :
              /\ s = preq.slot /\ part[s].cache \in Bytes
              /\ ptr = Seek(part[s].ptr, First[s] + part[s].in_cache)
<1>1. PICK s \in Slots : s = preq.slot
  BY DEF PartTypes, PartRequests
<1>2. part[s] \in SlotStates /\ preq.loc \in PartLocations(s)
  BY <1>1 DEF PartTypes
<1>3. part[s].cache \in Bytes
  BY <1>2 DEF SlotStates
<1>4. CASE part[s].in_cache # Unset
  <2>1. PICK x \in PartLocations(s) : x = part[s].in_cache
    BY <1>4 DEF PartTypes
  <2>2. Sector(s, x) \in Locations(Disk0)
    BY SectorFacts
  <2>3. Seek(part[s].ptr, First[s] + part[s].in_cache) = Sector(s, x)
    BY <2>1, SectorFacts DEF Sector
  <2> QED
    BY <1>1, <1>3, <2>2, <2>3
<1>5. CASE part[s].in_cache = Unset
  <2>1. /\ First[s] \in Nat \ {0} /\ preq.loc \in Nat /\ Sectors[Disk0] \in Nat
        /\ SeekLimit \in Nat
    BY <1>2, PartAssumption, DiskCacheAssumption DEF PartLocations
  <2>2. First[s] + preq.loc < Sectors[Disk0] /\ First[s] + preq.loc < SeekLimit
    BY <1>2 DEF PartsSound, Sector
  <2>3. First[s] - 1 \in Locations(Disk0) /\ First[s] - 1 < SeekLimit
    BY <2>1, <2>2 DEF Locations
  <2>4. Seek(part[s].ptr, First[s] + part[s].in_cache) = First[s] - 1
    BY <1>5, <2>1, <2>3 DEF Seek, Unset, Locations
  <2> QED
    BY <1>1, <1>3, <2>3, <2>4
<1> QED
  BY <1>4, <1>5

\* Whatever is done to a partition, the drive sees accesses to its locations.
LEMMA DriverUsed ==
    ASSUME PartsSound, PartTypes, [PNext]_allvars
    PROVE  [Next]_vars
<1>0. Disk0 \in Drives /\ 0 \in Locations(Disk0) /\ 0 \in Bytes
  BY PartAssumption, DiskCacheAssumption DEF PartsSound, Locations
<1>1. ASSUME NEW d \in Drives, NEW loc \in Locations(d), Access(d, loc) PROVE Next
  BY <1>1 DEF Next
<1>2. CASE ScanRead
  BY <1>0, <1>1, <1>2 DEF ScanRead, DriveRead, Access
<1>3. CASE PartFlush
  <2>1. PICK s \in Slots, ptr \in Locations(Disk0) :
           /\ s = preq.slot /\ part[s].cache \in Bytes
           /\ ptr = Seek(part[s].ptr, First[s] + part[s].in_cache)
    BY <1>3, FlushPlace DEF PartFlush
  <2>2. DriveWrite(ptr, part[s].cache)
    BY <1>3, <2>1 DEF PartFlush
  <2>3. Access(Disk0, ptr)
    BY <2>1, <2>2 DEF DriveWrite, Access
  <2> QED
    BY <1>0, <1>1, <2>3
<1>4. CASE PartLoad
  <2>1. PICK s \in Slots : \E x \in PartLocations(s) : DriveRead(Sector(s, x))
    BY <1>4, LoadFacts
  <2>2. PICK x \in PartLocations(s) : DriveRead(Sector(s, x))
    BY <2>1
  <2>3. Access(Disk0, Sector(s, x))
    BY <2>2 DEF DriveRead, Access
  <2> QED
    BY <1>0, <1>1, <2>3, SectorFacts
<1>5. CASE \E d \in Drives : \E loc \in Locations(d) : Raw(d, loc)
  <2>1. PICK d \in Drives : \E loc \in Locations(d) : Raw(d, loc)
    BY <1>5
  <2>2. PICK loc \in Locations(d) : Raw(d, loc)
    BY <2>1
  <2>3. Access(d, loc)
    BY <2>2, PartAssumption DEF Raw, Access
  <2> QED
    BY <1>1, <2>3
<1>6. CASE DriverStep
  BY <1>6 DEF DriverStep, Next
<1>7. CASE ScanSkip \/ ScanEnd \/ ScanAdd \/ PartTag
  BY <1>7 DEF ScanSkip, ScanEnd, ScanAdd, PartTag
<1>8. ASSUME NEW r, PartAccess(r) PROVE UNCHANGED vars
  BY <1>8 DEF PartAccess, PartAccessHit, PartMiss
<1>9. CASE UNCHANGED allvars
  BY <1>9 DEF allvars
<1>10. CASE DropHitBelow
  <2>1. ASSUME NEW d \in Drives, NEW loc \in Locations(d), NEW v \in Bytes,
               DropHit(d, loc, v)
        PROVE  Next
    BY <2>1 DEF Next, Drop
  <2>2. CASE ppc = "ready"
    BY <1>10, <2>1, <2>2, PartAssumption DEF DropHitBelow
  <2>3. CASE ppc # "ready"
    <3>1. ppc = "flush"
      BY <1>10, <2>3 DEF DropHitBelow
    <3>2. PICK s \in Slots, ptr \in Locations(Disk0) :
             /\ s = preq.slot /\ part[s].cache \in Bytes
             /\ ptr = Seek(part[s].ptr, First[s] + part[s].in_cache)
      BY <3>1, FlushPlace
    <3> QED
      BY <1>0, <1>10, <2>1, <2>3, <3>2 DEF DropHitBelow
  <2> QED
    BY <2>2, <2>3
<1>11. CASE PDrop
  BY <1>10, <1>11 DEF PDrop, PartDrop, PartDropLate, PartDropHit, Next, Drop
<1> QED
  BY <1>2, <1>3, <1>4, <1>5, <1>6, <1>7, <1>8, <1>9, <1>11 DEF PNext, Scan

(***************************************************************************)
(* The types of partitions.                                                *)
(***************************************************************************)

\* What the switch at the end of an access makes of a cache.
LEMMA TransferEffect ==
    ASSUME PartTypes, NEW r \in PartRequests, NEW p \in SlotStates, Transfer(r, p)
    PROVE  /\ part' \in [Slots -> SlotStates]
           /\ \A s \in Slots : s # r.slot => part'[s] = part[s]
           /\ part'[r.slot].added = p.added
           /\ part'[r.slot].in_cache = p.in_cache
           /\ \/ /\ r.type = "read" /\ pout' = p.cache
                 /\ part'[r.slot].cache = p.cache
                 /\ part'[r.slot].cache_state = p.cache_state
              \/ /\ r.type = "write" /\ pout' = 0
                 /\ part'[r.slot].cache = r.payload
                 /\ part'[r.slot].cache_state = CACHE_DIRTY
<1>1. part \in [Slots -> SlotStates] /\ r.slot \in Slots /\ r.payload \in Bytes
  BY DEF PartTypes, PartRequests
<1>2. CASE r.type = "read"
  <2>1. pout' = p.cache /\ part' = [part EXCEPT ![r.slot] = p]
    BY <1>2 DEF Transfer
  <2> QED
    BY <1>1, <1>2, <2>1
<1>3. CASE r.type = "write"
  <2>1. PICK q : q = [p EXCEPT !.cache = r.payload, !.cache_state = CACHE_DIRTY]
    OBVIOUS
  <2>2. /\ q \in SlotStates /\ q.added = p.added /\ q.in_cache = p.in_cache
        /\ q.cache = r.payload /\ q.cache_state = CACHE_DIRTY
    BY <1>1, <2>1 DEF SlotStates
  <2>3. pout' = 0 /\ part' = [part EXCEPT ![r.slot] = q]
    BY <1>3, <2>1 DEF Transfer
  <2> QED
    BY <1>1, <1>3, <2>2, <2>3
<1> QED
  BY <1>2, <1>3 DEF Transfer

\* A new place in the drive's file leaves a cache alone.
LEMMA PtrOnly ==
    ASSUME part \in [Slots -> SlotStates], NEW s \in Slots, NEW p \in Int,
           part' = [part EXCEPT ![s].ptr = p]
    PROVE  /\ part' \in [Slots -> SlotStates]
           /\ \A t \in Slots :
                 /\ part'[t].added = part[t].added
                 /\ part'[t].in_cache = part[t].in_cache
                 /\ part'[t].cache = part[t].cache
                 /\ part'[t].cache_state = part[t].cache_state
<1>1. PICK q : q = [part[s] EXCEPT !.ptr = p]
  OBVIOUS
<1>2. part[s] \in SlotStates
  OBVIOUS
<1>3. /\ q \in SlotStates /\ q.added = part[s].added /\ q.in_cache = part[s].in_cache
      /\ q.cache = part[s].cache /\ q.cache_state = part[s].cache_state
  BY <1>1, <1>2 DEF SlotStates
<1>4. part' = [part EXCEPT ![s] = q]
  BY <1>1
<1> QED
  BY <1>3, <1>4

\* A cache that is filled with a sector.
Filled(p, v, x) == [p EXCEPT !.cache = v, !.in_cache = x, !.cache_state = CACHE_READY]

\* It is a cache, of that sector, and clean.
LEMMA FilledSlot ==
    ASSUME NEW p \in SlotStates, NEW v \in Bytes, NEW x \in Int
    PROVE  /\ Filled(p, v, x) \in SlotStates /\ Filled(p, v, x).added = p.added
           /\ Filled(p, v, x).in_cache = x /\ Filled(p, v, x).cache = v
           /\ Filled(p, v, x).cache_state = CACHE_READY
  BY DEF SlotStates, Filled

\* What the last step of an access to a partition knows and does.
LEMMA PartTagFacts ==
    ASSUME TypeOK, PartTypes, PartTag
    PROVE  /\ preq \in PartRequests /\ preq.slot \in Slots
           /\ preq.loc \in PartLocations(preq.slot) /\ preq.payload \in Bytes
           /\ ppc = "tag" /\ ppc' = "ready" /\ pc = "ready" /\ ~panicked /\ UNCHANGED vars
           /\ part' \in [Slots -> SlotStates]
           /\ \A t \in Slots : t # preq.slot => part'[t] = part[t]
           /\ part'[preq.slot].added
           /\ part'[preq.slot].in_cache = preq.loc
           /\ \/ /\ preq.type = "read" /\ pout' = out
                 /\ part'[preq.slot].cache = out
                 /\ part'[preq.slot].cache_state = CACHE_READY
              \/ /\ preq.type = "write" /\ pout' = 0
                 /\ part'[preq.slot].cache = preq.payload
                 /\ part'[preq.slot].cache_state = CACHE_DIRTY
<1>1. ppc = "tag" /\ ppc' = "ready" /\ pc = "ready" /\ ~panicked /\ UNCHANGED vars
  BY DEF PartTag, DriveDone
<1>2. out \in Bytes
  BY DEF TypeOK
<1>3. /\ preq \in PartRequests /\ preq.loc \in PartLocations(preq.slot)
      /\ part[preq.slot].added /\ part \in [Slots -> SlotStates]
  BY <1>1 DEF PartTypes
<1>4. preq.slot \in Slots /\ preq.payload \in Bytes /\ preq.loc \in Nat
  BY <1>3 DEF PartRequests
<1>5. PICK q : q = Filled(part[preq.slot], out, preq.loc)
  OBVIOUS
<1>6. part[preq.slot] \in SlotStates
  BY <1>3, <1>4
<1>7. /\ q \in SlotStates /\ q.added = part[preq.slot].added /\ q.in_cache = preq.loc
      /\ q.cache = out /\ q.cache_state = CACHE_READY
  <2>1. preq.loc \in Int
    BY <1>4
  <2> QED
    BY <1>2, <1>5, <1>6, <2>1, FilledSlot, Zenon
<1>8. Transfer(preq, q)
  BY <1>5 DEF PartTag, Filled
<1>9. /\ part' \in [Slots -> SlotStates]
      /\ \A t \in Slots : t # preq.slot => part'[t] = part[t]
      /\ part'[preq.slot].added
      /\ part'[preq.slot].in_cache = preq.loc
      /\ \/ /\ preq.type = "read" /\ pout' = out
            /\ part'[preq.slot].cache = out
            /\ part'[preq.slot].cache_state = CACHE_READY
         \/ /\ preq.type = "write" /\ pout' = 0
            /\ part'[preq.slot].cache = preq.payload
            /\ part'[preq.slot].cache_state = CACHE_DIRTY
  BY <1>3, <1>7, <1>8, TransferEffect
<1> QED
  BY <1>1, <1>3, <1>4, <1>9

\* A program's access to a partition.
PartUse ==
    \E s \in Slots : \E loc \in PartLocations(s) :
       \/ PartAccess([slot |-> s, loc |-> loc, type |-> "read", payload |-> 0])
       \/ \E payload \in Bytes :
             PartAccess([slot |-> s, loc |-> loc, type |-> "write", payload |-> payload])

\* Each is a request for a sector of a partition.
LEMMA PartUseRequest ==
    ASSUME PartsSound, PartUse
    PROVE  \E r \in PartRequests : r.loc \in PartLocations(r.slot) /\ PartAccess(r)
<1>1. ASSUME NEW s \in Slots, NEW loc \in PartLocations(s),
             NEW t \in {"read", "write"}, NEW v \in Bytes
      PROVE  LET r == [slot |-> s, loc |-> loc, type |-> t, payload |-> v]
             IN  r \in PartRequests /\ r.loc \in PartLocations(r.slot)
  BY SectorFacts DEF PartRequests
<1>2. 0 \in Bytes
  BY DiskCacheAssumption
<1>3a. PICK s \in Slots : \E loc \in PartLocations(s) :
       \/ PartAccess([slot |-> s, loc |-> loc, type |-> "read", payload |-> 0])
       \/ \E payload \in Bytes :
             PartAccess([slot |-> s, loc |-> loc, type |-> "write", payload |-> payload])
  BY DEF PartUse
<1>3. PICK loc \in PartLocations(s) :
       \/ PartAccess([slot |-> s, loc |-> loc, type |-> "read", payload |-> 0])
       \/ \E payload \in Bytes :
             PartAccess([slot |-> s, loc |-> loc, type |-> "write", payload |-> payload])
  BY <1>3a
<1>4. CASE PartAccess([slot |-> s, loc |-> loc, type |-> "read", payload |-> 0])
  BY <1>1, <1>2, <1>4
<1>5. ASSUME NEW v \in Bytes,
             PartAccess([slot |-> s, loc |-> loc, type |-> "write", payload |-> v])
      PROVE  \E r \in PartRequests : r.loc \in PartLocations(r.slot) /\ PartAccess(r)
  BY <1>1, <1>5
<1> QED
  BY <1>3, <1>4, <1>5

\* The scan leaves every variable with its type.
LEMMA ScanTypes ==
    ASSUME PartTypes, Scan
    PROVE  PartTypes'
<1>1. ppc \in {"scan", "table"} /\ ppc' \in {"scan", "table", "ready"}
  BY DEF Scan, ScanRead, ScanSkip, ScanEnd, ScanAdd
<1>2. CASE part' = part
  BY <1>1, <1>2 DEF PartTypes
<1>3. CASE ScanAdd
  <2>1. PICK state \in Garbage, byte \in Bytes :
           part' = [part EXCEPT ![n] = [added |-> TRUE, in_cache |-> Unset,
                       cache |-> byte, cache_state |-> state, ptr |-> 0]]
    BY <1>3 DEF ScanAdd
  <2> DEFINE new == [added |-> TRUE, in_cache |-> Unset, cache |-> byte,
                     cache_state |-> state, ptr |-> 0]
  <2>2. new \in SlotStates
    BY PartAssumption DEF SlotStates, Unset
  <2>3. part \in [Slots -> SlotStates]
    BY DEF PartTypes
  <2>4. /\ part' \in [Slots -> SlotStates]
        /\ \A s \in Slots : part'[s] = IF s = n THEN new ELSE part[s]
    BY <2>1, <2>2, <2>3
  <2>5. \A s \in Slots : part'[s].in_cache = Unset
    BY <1>1, <2>4 DEF PartTypes
  <2> QED
    BY <1>1, <2>4, <2>5 DEF PartTypes
<1> QED
  BY <1>2, <1>3 DEF Scan, ScanRead, ScanSkip, ScanEnd

\* So does an access,
LEMMA UseTypes ==
    ASSUME PartTypes, NEW r \in PartRequests, r.loc \in PartLocations(r.slot), PartAccess(r)
    PROVE  PartTypes'
<1>1. CASE PartMiss(r)
  BY <1>1 DEF PartMiss, PartTypes
<1>2. CASE PartAccessHit(r)
  <2>1. PICK s \in Slots : s = r.slot
    BY DEF PartRequests
  <2>2. ppc = "ready" /\ ppc' = "ready" /\ Transfer(r, part[s])
    BY <1>2, <2>1 DEF PartAccessHit
  <2>3. part[s] \in SlotStates
    BY DEF PartTypes
  <2>4. /\ part' \in [Slots -> SlotStates]
        /\ \A t \in Slots : part'[t].in_cache = part[t].in_cache
    BY <2>1, <2>2, <2>3, TransferEffect
  <2> QED
    BY <2>2, <2>4 DEF PartTypes
<1> QED
  BY <1>1, <1>2 DEF PartAccess

\* each of its transfers, and its end,
LEMMA TransferTypes ==
    ASSUME PartsSound, TypeOK, PartTypes, PartFlush \/ PartLoad \/ PartTag
    PROVE  PartTypes'
<1>0. part \in [Slots -> SlotStates]
  BY DEF PartTypes
<1>1. ASSUME NEW s \in Slots, NEW p \in Int, part' = [part EXCEPT ![s].ptr = p],
             preq' = preq, ppc \in {"flush", "load"}, ppc' \in {"load", "tag"}
      PROVE  PartTypes'
  <2>1. /\ part' \in [Slots -> SlotStates]
        /\ \A t \in Slots : /\ part'[t].added = part[t].added
                             /\ part'[t].in_cache = part[t].in_cache
    BY <1>0, <1>1, PtrOnly
  <2>2. preq \in PartRequests /\ preq.slot \in Slots
    BY <1>1 DEF PartTypes, PartRequests
  <2> QED
    BY <1>1, <2>1, <2>2 DEF PartTypes
<1>2. CASE PartFlush
  <2>1. PICK s \in Slots, ptr \in Locations(Disk0) :
           /\ s = preq.slot /\ part[s].cache \in Bytes
           /\ ptr = Seek(part[s].ptr, First[s] + part[s].in_cache)
    BY <1>2, FlushPlace DEF PartFlush
  <2>2. ptr + 1 \in Int
    BY PartAssumption, DiskCacheAssumption DEF Locations
  <2> QED
    BY <1>1, <1>2, <2>1, <2>2 DEF PartFlush
<1>3. CASE PartLoad
  <2>1. PICK s \in Slots : \E x \in PartLocations(s) :
              /\ ppc = "load" /\ ppc' = "tag"
              /\ part' = [part EXCEPT ![s].ptr = Sector(s, x) + 1]
              /\ preq' = preq
    BY <1>3, LoadFacts
  <2>2. PICK x \in PartLocations(s) : part' = [part EXCEPT ![s].ptr = Sector(s, x) + 1]
    BY <2>1
  <2>3. Sector(s, x) + 1 \in Int
    BY SectorFacts
  <2> QED
    BY <1>1, <2>1, <2>2, <2>3
<1>4. CASE PartTag
  <2>1. /\ part' \in [Slots -> SlotStates] /\ ppc' = "ready" /\ preq.slot \in Slots
        /\ \A t \in Slots : t # preq.slot => part'[t] = part[t]
        /\ part'[preq.slot].in_cache = preq.loc
        /\ preq.loc \in PartLocations(preq.slot)
    BY <1>4, PartTagFacts
  <2> QED
    BY <2>1 DEF PartTypes
<1> QED
  BY <1>2, <1>3, <1>4

\* The offset a dropped access leaves is a number.
LEMMA OffsetTypes ==
    ASSUME PartTypes, ppc \in {"flush", "load", "tag"}
    PROVE  /\ preq \in PartRequests /\ preq.slot \in Slots
           /\ part[preq.slot] \in SlotStates /\ Offsets \subseteq Int
<1>1. preq \in PartRequests /\ preq.slot \in Slots
  BY DEF PartTypes, PartRequests
<1>2. part[preq.slot] \in SlotStates
  BY <1>1 DEF PartTypes
<1>3. part[preq.slot].ptr \in Int
  BY <1>2 DEF SlotStates
<1> QED
  BY <1>1, <1>2, <1>3 DEF Offsets

\* or a drop of it before anything of the partition is stored,
LEMMA DropTypes ==
    ASSUME PartsSound, PartTypes, PartDrop \/ DropHitBelow
    PROVE  /\ PartTypes'
           /\ \A t \in Slots : /\ part'[t].added = part[t].added
                                /\ part'[t].in_cache = part[t].in_cache
                                /\ part'[t].cache = part[t].cache
                                /\ part'[t].cache_state = part[t].cache_state
<1>0. part \in [Slots -> SlotStates] /\ ppc' = "ready"
  BY DEF PartTypes, PartDrop, DropHitBelow, GiveUp
<1>1. \/ part' = part
      \/ \E s \in Slots, p \in Int : part' = [part EXCEPT ![s].ptr = p]
  <2>1. CASE PartDrop
    <3>1. ppc = "ready" \/ ppc \in {"flush", "load", "tag"}
      BY <2>1 DEF PartDrop, GiveUp, PartTypes
    <3> QED
      BY <2>1, <3>1, OffsetTypes DEF PartDrop
  <2>2. CASE DropHitBelow
    <3>1. CASE ppc = "flush"
      <4>1. PICK s \in Slots, ptr \in Locations(Disk0) :
               /\ s = preq.slot /\ part[s].cache \in Bytes
               /\ ptr = Seek(part[s].ptr, First[s] + part[s].in_cache)
        BY <3>1, FlushPlace
      <4>2. ptr \in Int
        BY PartAssumption, DiskCacheAssumption DEF Locations
      <4> QED
        BY <2>2, <3>1, <4>1, <4>2 DEF DropHitBelow
    <3> QED
      BY <2>2, <3>1 DEF DropHitBelow
  <2> QED
    BY <2>1, <2>2
<1>2. /\ part' \in [Slots -> SlotStates]
      /\ \A t \in Slots : /\ part'[t].added = part[t].added
                           /\ part'[t].in_cache = part[t].in_cache
                           /\ part'[t].cache = part[t].cache
                           /\ part'[t].cache_state = part[t].cache_state
  <2>1. CASE part' = part
    BY <1>0, <2>1
  <2>2. ASSUME NEW s \in Slots, NEW p \in Int, part' = [part EXCEPT ![s].ptr = p]
        PROVE  /\ part' \in [Slots -> SlotStates]
               /\ \A t \in Slots : /\ part'[t].added = part[t].added
                                    /\ part'[t].in_cache = part[t].in_cache
                                    /\ part'[t].cache = part[t].cache
                                    /\ part'[t].cache_state = part[t].cache_state
    BY <1>0, <2>2, PtrOnly
  <2> QED
    BY <1>1, <2>1, <2>2
<1> QED
  BY <1>0, <1>2 DEF PartTypes

\* or while it is.
LEMMA TornTypes ==
    ASSUME TypeOK, PartTypes,
           \/ PartDropLate
           \/ \E s \in Slots : \E loc \in PartLocations(s) : \E payload \in Bytes :
                 PartDropHit(s, loc, payload)
    PROVE  PartTypes'
<1>0. part \in [Slots -> SlotStates] /\ ppc' = "ready"
  BY DEF PartTypes, PartDropLate, PartDropHit, GiveUp
<1>1. ASSUME NEW s \in Slots, NEW q \in SlotStates, part' = [part EXCEPT ![s] = q],
             q.in_cache # Unset => q.in_cache \in PartLocations(s)
      PROVE  PartTypes'
  BY <1>0, <1>1 DEF PartTypes
<1>2. CASE PartDropLate
  <2> DEFINE s == preq.slot
  <2>1. /\ preq \in PartRequests /\ s \in Slots /\ part[s] \in SlotStates
        /\ Offsets \subseteq Int /\ preq.loc \in PartLocations(s) /\ preq.loc \in Int
        /\ preq.payload \in Bytes /\ out \in Bytes
    <3>1. ppc = "tag"
      BY <1>2 DEF PartDropLate
    <3>2. /\ preq \in PartRequests /\ s \in Slots /\ part[s] \in SlotStates
          /\ Offsets \subseteq Int
      BY <3>1, OffsetTypes
    <3>3. preq.loc \in PartLocations(s)
      BY <3>1 DEF PartTypes
    <3> QED
      BY <3>2, <3>3 DEF PartRequests, TypeOK
  <2>2. PICK byte \in Bytes, sect \in {part[s].in_cache, preq.loc},
             state \in {CACHE_NOT_READY, CACHE_READY, CACHE_DIRTY}, p \in Int :
          part' = [part EXCEPT ![s] = [@ EXCEPT !.cache = byte, !.in_cache = sect,
                                                !.cache_state = state, !.ptr = p]]
    <3> DEFINE B == {part[s].cache, out}
                       \cup (IF preq.type = "write" THEN {preq.payload} ELSE {})
               S == {part[s].cache_state, CACHE_READY}
                       \cup (IF preq.type = "write" THEN {CACHE_DIRTY} ELSE {})
    <3>1. /\ B \subseteq Bytes
          /\ S \subseteq {CACHE_NOT_READY, CACHE_READY, CACHE_DIRTY}
      BY <2>1 DEF SlotStates
    <3>2. \E byte \in B, sect \in {part[s].in_cache, preq.loc}, state \in S, p \in Offsets :
            part' = [part EXCEPT ![s] = [@ EXCEPT !.cache = byte, !.in_cache = sect,
                                                  !.cache_state = state, !.ptr = p]]
      BY <1>2 DEF PartDropLate
    <3> HIDE DEF B, S
    <3> QED
      BY <2>1, <3>1, <3>2
  <2>3. PICK q : q = [part[s] EXCEPT !.cache = byte, !.in_cache = sect,
                                     !.cache_state = state, !.ptr = p]
    OBVIOUS
  <2>4. sect \in Int
    BY <2>1, <2>2 DEF SlotStates
  <2>5. q \in SlotStates /\ q.in_cache = sect
    BY <2>1, <2>3, <2>4 DEF SlotStates
  <2>6. q.in_cache # Unset => q.in_cache \in PartLocations(s)
    BY <2>1, <2>2, <2>5 DEF PartTypes
  <2>7. part' = [part EXCEPT ![s] = q]
    BY <2>2, <2>3
  <2> QED
    BY <1>1, <2>1, <2>5, <2>6, <2>7
<1>3. ASSUME NEW s \in Slots, NEW loc \in PartLocations(s), NEW v \in Bytes,
             PartDropHit(s, loc, v)
      PROVE  PartTypes'
  <2>1. part[s] \in SlotStates /\ part[s].cache \in Bytes
    BY <1>0 DEF SlotStates
  <2>2. PICK byte \in Bytes, state \in {CACHE_NOT_READY, CACHE_READY, CACHE_DIRTY} :
          part' = [part EXCEPT ![s].cache = byte, ![s].cache_state = state]
    BY <1>3, <2>1 DEF PartDropHit, SlotStates
  <2>3. PICK q : q = [part[s] EXCEPT !.cache = byte, !.cache_state = state]
    OBVIOUS
  <2>4. q \in SlotStates /\ q.in_cache = part[s].in_cache
    BY <2>1, <2>3 DEF SlotStates
  <2>5. part' = [part EXCEPT ![s] = q]
    BY <1>0, <2>2, <2>3
  <2>6. q.in_cache # Unset => q.in_cache \in PartLocations(s)
    BY <2>4 DEF PartTypes
  <2> QED
    BY <1>1, <2>4, <2>5, <2>6
<1> QED
  BY <1>2, <1>3

\* Types are kept by every step, also once an access was torn.
LEMMA TypesStep == PartsSound /\ TypeOK /\ PartTypes /\ [PNext]_allvars => PartTypes'
<1> SUFFICES ASSUME PartsSound, TypeOK, PartTypes, [PNext]_allvars PROVE PartTypes'
  OBVIOUS
<1>1. CASE UNCHANGED pvars
  BY <1>1 DEF pvars, PartTypes
<1>2. CASE PartUse
  BY <1>2, PartUseRequest, UseTypes
<1>3. CASE PDrop
  BY <1>3, DropTypes, TornTypes DEF PDrop
<1> QED
  BY <1>1, <1>2, <1>3, ScanTypes, TransferTypes
     DEF PNext, PartUse, Raw, DriverStep, allvars

(***************************************************************************)
(* The invariant of the partitions.                                        *)
(***************************************************************************)

PartRest == CachesInv /\ UnderWay

\* A cache that nothing happens to, above a drive that does not change at the
\* partition's sectors, stays right.
LEMMA SlotKept ==
    ASSUME NEW s \in Slots, SlotInv(s),
           part'[s].in_cache = part[s].in_cache, part'[s].cache = part[s].cache,
           part'[s].cache_state = part[s].cache_state,
           PartTypes,
           \A x \in PartLocations(s) :
               part[s].cache_state = CACHE_DIRTY \/ Below(s, x)' = Below(s, x)
    PROVE  SlotInv(s)'
<1>1. Below(s, part[s].in_cache)' = Contents'[Disk0][First[s] + part'[s].in_cache]
  BY DEF Below, Sector
<1>2. \A x \in PartLocations(s) : Below(s, x)' = Contents'[Disk0][First[s] + x]
  BY DEF Below, Sector
<1>3. part[s].in_cache # Unset => part[s].in_cache \in PartLocations(s)
  BY DEF PartTypes
<1> QED
  BY <1>1, <1>2, <1>3 DEF SlotInv, CACHE_DIRTY, CACHE_READY

\* A write to another drive, or to another sector, is not seen.
LEMMA BelowKept ==
    ASSUME PartsSound, NEW d \in Drives, NEW loc \in Locations(d), NEW v,
           Contents' = [Contents EXCEPT ![d][loc] = v],
           NEW s \in Slots, NEW x \in PartLocations(s), d # Disk0 \/ loc # Sector(s, x)
    PROVE  Below(s, x)' = Below(s, x)
<1>1. Disk0 \in Drives /\ Sector(s, x) \in Locations(Disk0)
  BY SectorFacts, PartAssumption
<1>2. Contents'[Disk0][Sector(s, x)] = Contents[Disk0][Sector(s, x)]
  BY <1>1, WrittenBelow
<1> QED
  BY <1>2 DEF Below, Sector

\* The scan reads the table.
LEMMA ScanReadKeeps ==
    ASSUME PartsSound, PartInv, ScanRead
    PROVE  PartRest'
<1>0. Disk0 \in Drives /\ 0 \in Locations(Disk0)
  BY PartAssumption, DiskCacheAssumption DEF PartsSound, Locations
<1>1. /\ Contents' = Contents
      /\ pc' = "ready" \/ req'.type = "read"
  BY <1>0, DriveReadEffect DEF ScanRead, DriveRead, PartInv
<1>2. ppc = "scan" /\ ppc' = "table" /\ part' = part /\ preq' = preq
  BY DEF ScanRead
<1>4. CachesInv'
  <2> SUFFICES ASSUME NEW s \in Slots PROVE SlotInv(s)'
    BY DEF CachesInv
  <2>1. SlotInv(s)
    BY DEF PartInv, CachesInv
  <2>2. \A x \in PartLocations(s) : Below(s, x)' = Below(s, x)
    BY <1>1 DEF Below, Sector
  <2> QED
    BY <1>2, <2>1, <2>2, SlotKept DEF PartInv
<1>5. UnderWay'
  BY <1>1, <1>2 DEF UnderWay
<1> QED
  BY <1>4, <1>5 DEF PartRest

\* An entry without a partition is passed, or the table ends.
LEMMA ScanTurnKeeps ==
    ASSUME PartInv, ScanSkip \/ ScanEnd
    PROVE  PartRest'
<1>1. /\ ppc = "table" /\ ppc' \in {"scan", "ready"} /\ part' = part /\ preq' = preq
      /\ pc = "ready" /\ UNCHANGED vars
  BY DEF ScanSkip, ScanEnd, DriveDone
<1>3. CachesInv'
  <2>1. Contents' = Contents
    BY <1>1 DEF vars, Contents, InCache, Hit
  <2> QED
    BY <1>1, <2>1 DEF PartInv, CachesInv, SlotInv, Dropped, Below, Sector
<1>4. UnderWay'
  BY <1>1 DEF UnderWay, vars
<1> QED
  BY <1>3, <1>4 DEF PartRest

\* A partition is added, with whatever its cache held on the stack.
LEMMA ScanAddKeeps ==
    ASSUME PartsSound, PartInv, ScanAdd
    PROVE  PartRest'
<1>1. PICK state \in Garbage, byte \in Bytes :
         part' = [part EXCEPT ![n] = [added |-> TRUE, in_cache |-> Unset,
                     cache |-> byte, cache_state |-> state, ptr |-> 0]]
  BY DEF ScanAdd
<1>2. /\ ppc = "table" /\ ppc' = "scan" /\ pc = "ready" /\ preq' = preq /\ UNCHANGED vars
  BY DEF ScanAdd, DriveDone
<1> DEFINE new == [added |-> TRUE, in_cache |-> Unset, cache |-> byte,
                   cache_state |-> state, ptr |-> 0]
<1>3. state \in {CACHE_NOT_READY, CACHE_READY, CACHE_DIRTY} /\ state # CACHE_DIRTY
  BY PartAssumption DEF PartsSound
<1>4. new \in SlotStates
  BY <1>3 DEF SlotStates, Unset
<1>5. part \in [Slots -> SlotStates]
  BY DEF PartInv, PartTypes
<1>6. /\ part' \in [Slots -> SlotStates]
      /\ \A s \in Slots : part'[s] = IF s = n THEN new ELSE part[s]
  BY <1>1, <1>4, <1>5
<1>8. CachesInv'
  <2>1. Contents' = Contents
    BY <1>2 DEF vars, Contents, InCache, Hit
  <2> SUFFICES ASSUME NEW s \in Slots PROVE SlotInv(s)'
    BY DEF CachesInv
  <2>2. CASE s = n
    <3>1. part'[s].in_cache = Unset /\ part'[s].cache_state = state
      BY <1>6, <2>2
    <3> QED
      BY <3>1, <1>3 DEF SlotInv
  <2>3. CASE s # n
    <3>1. part'[s] = part[s]
      BY <1>6, <2>3
    <3> QED
      BY <1>2, <2>1, <3>1, SlotKept DEF PartInv, CachesInv, Dropped, Below, Sector
  <2> QED
    BY <2>2, <2>3
<1>9. UnderWay'
  BY <1>2 DEF UnderWay, vars
<1> QED
  BY <1>8, <1>9 DEF PartRest

\* A hit reads or writes the partition's own cache.
LEMMA PartHitKeeps ==
    ASSUME PartsSound, PartInv, NEW r \in PartRequests, r.loc \in PartLocations(r.slot),
           PartAccessHit(r)
    PROVE  PartRest'
<1>1. PICK s \in Slots : s = r.slot
  BY DEF PartRequests
<1>2. /\ ppc = "ready" /\ ppc' = "ready" /\ pc = "ready" /\ preq' = preq /\ UNCHANGED vars
      /\ Transfer(r, part[s]) /\ r.loc = part[s].in_cache
  BY <1>1 DEF PartAccessHit, PartHit, DriveDone
<1>3. PartTypes /\ part[s] \in SlotStates /\ r.loc # Unset
  BY <1>1, SectorFacts DEF PartInv, PartTypes
<1>4. /\ part' \in [Slots -> SlotStates]
      /\ \A t \in Slots : t # s => part'[t] = part[t]
      /\ part'[s].in_cache = part[s].in_cache
      /\ \/ part'[s].cache = part[s].cache /\ part'[s].cache_state = part[s].cache_state
         \/ part'[s].cache_state = CACHE_DIRTY
  BY <1>1, <1>2, <1>3, TransferEffect
<1>5. Contents' = Contents
  BY <1>2 DEF vars, Contents, InCache, Hit
<1>7. CachesInv'
  <2> SUFFICES ASSUME NEW t \in Slots PROVE SlotInv(t)'
    BY DEF CachesInv
  <2>1. SlotInv(t)
    BY DEF PartInv, CachesInv
  <2>2. \A x \in PartLocations(t) : Below(t, x)' = Below(t, x)
    BY <1>5 DEF Below, Sector
  <2>3. CASE /\ part'[t].in_cache = part[t].in_cache /\ part'[t].cache = part[t].cache
             /\ part'[t].cache_state = part[t].cache_state
    BY <2>1, <2>2, <2>3, SlotKept DEF PartInv
  <2>4. CASE t = s /\ part'[s].cache_state = CACHE_DIRTY
    BY <1>2, <1>3, <1>4, <2>1, <2>4 DEF SlotInv, CACHE_DIRTY, CACHE_READY
  <2> QED
    BY <1>4, <2>3, <2>4
<1>8. UnderWay'
  BY <1>2 DEF UnderWay, vars
<1> QED
  BY <1>7, <1>8 DEF PartRest

\* A miss starts a flush or a load.
LEMMA PartMissKeeps ==
    ASSUME PartInv, NEW r \in PartRequests, r.loc \in PartLocations(r.slot), PartMiss(r)
    PROVE  PartRest'
<1>1. /\ ppc = "ready" /\ pc = "ready" /\ preq' = r /\ part' = part /\ UNCHANGED vars
      /\ ppc' = IF part[r.slot].cache_state = CACHE_DIRTY THEN "flush" ELSE "load"
      /\ part[r.slot].added
  BY DEF PartMiss, DriveDone
<1>3. CachesInv'
  <2>1. Contents' = Contents
    BY <1>1 DEF vars, Contents, InCache, Hit
  <2> SUFFICES ASSUME NEW s \in Slots PROVE SlotInv(s)'
    BY DEF CachesInv
  <2>2. SlotInv(s)
    BY DEF PartInv, CachesInv
  <2>3. \A x \in PartLocations(s) : Below(s, x)' = Below(s, x)
    BY <2>1 DEF Below, Sector
  <2> QED
    BY <1>1, <2>2, <2>3, SlotKept DEF PartInv
<1>4. UnderWay'
  BY <1>1 DEF UnderWay, vars
<1> QED
  BY <1>3, <1>4 DEF PartRest

\* The dirty sector is written, or its write is under way.
LEMMA PartFlushKeeps ==
    ASSUME PartsSound, PartInv, PartFlush
    PROVE  PartRest'
<1>0. PartTypes /\ CachesInv /\ UnderWay /\ IndInv /\ Disk0 \in Drives
  BY PartAssumption DEF PartInv
<1>1. PICK s \in Slots : \E x \in PartLocations(s) :
              /\ s = preq.slot /\ x = part[s].in_cache
              /\ part[s].cache \in Bytes
              /\ ppc = "flush" /\ ppc' = "load" /\ pc = "ready" /\ ~panicked
              /\ DriveWrite(Sector(s, x), part[s].cache)
              /\ part' = [part EXCEPT ![s].ptr = Sector(s, x) + 1]
              /\ UNCHANGED <<table, n, preq, pout>>
  BY <1>0, FlushFacts
<1>2. PICK x \in PartLocations(s) :
              /\ s = preq.slot /\ x = part[s].in_cache
              /\ part[s].cache \in Bytes
              /\ ppc = "flush" /\ ppc' = "load" /\ pc = "ready" /\ ~panicked
              /\ DriveWrite(Sector(s, x), part[s].cache)
              /\ part' = [part EXCEPT ![s].ptr = Sector(s, x) + 1]
              /\ UNCHANGED <<table, n, preq, pout>>
  BY <1>1
<1>3. Sector(s, x) \in Locations(Disk0) /\ Sector(s, x) + 1 \in Int
  BY SectorFacts
<1>4. \/ /\ pc' = "ready"
         /\ Contents' = [Contents EXCEPT ![Disk0][Sector(s, x)] = part[s].cache]
      \/ /\ pc' # "ready" /\ Contents' = Contents
         /\ req'.drive = Disk0 /\ req'.loc = Sector(s, x) /\ req'.type = "write"
         /\ req'.payload = part[s].cache
  BY <1>0, <1>2, <1>3, DriveWriteEffect DEF DriveWrite
<1>5. part \in [Slots -> SlotStates]
  BY <1>0 DEF PartTypes
<1>6. /\ part' \in [Slots -> SlotStates]
      /\ \A t \in Slots :
            /\ part'[t].added = part[t].added
            /\ part'[t].in_cache = part[t].in_cache
            /\ part'[t].cache = part[t].cache
            /\ part'[t].cache_state = part[t].cache_state
  BY <1>2, <1>3, <1>5, PtrOnly
<1>8. CachesInv'
  <2> SUFFICES ASSUME NEW t \in Slots PROVE SlotInv(t)'
    BY DEF CachesInv
  <2>1. SlotInv(t)
    BY <1>0 DEF CachesInv
  <2>2. ASSUME NEW y \in PartLocations(t)
        PROVE  part[t].cache_state = CACHE_DIRTY \/ Below(t, y)' = Below(t, y)
    <3>1. CASE t = s
      BY <1>0, <1>2, <3>1 DEF UnderWay
    <3>2. CASE t # s
      <4>1. Sector(t, y) # Sector(s, x)
        BY <3>2 DEF PartsSound
      <4>2. CASE Contents' = Contents
        BY <4>2 DEF Below, Sector
      <4>3. CASE Contents' = [Contents EXCEPT ![Disk0][Sector(s, x)] = part[s].cache]
        BY <1>0, <1>3, <4>1, <4>3, BelowKept
      <4> QED
        BY <1>4, <4>2, <4>3
    <3> QED
      BY <3>1, <3>2
  <2> QED
    BY <1>6, <2>1, <2>2, SlotKept DEF PartInv
<1>9. UnderWay'
  <2>1. /\ preq' = preq /\ preq.slot = s /\ part'[s].in_cache = x
        /\ part'[s].cache = part[s].cache /\ part'[s].cache_state = CACHE_DIRTY
    BY <1>0, <1>2, <1>6 DEF UnderWay
  <2>2. CASE pc' = "ready" /\ Contents' = [Contents EXCEPT ![Disk0][Sector(s, x)] = part[s].cache]
    <3>1. Contents' = [Contents EXCEPT ![Disk0][Sector(s, x)] = part[s].cache]
      BY <2>2
    <3>2. DOMAIN Contents = Drives /\ DOMAIN Contents[Disk0] = Locations(Disk0)
      BY <1>0 DEF Contents
    <3>3. Contents'[Disk0][Sector(s, x)] = part[s].cache
      BY <1>0, <1>3, <3>1, <3>2
    <3>4. Below(preq.slot, part[preq.slot].in_cache)' = part'[preq.slot].cache
      BY <2>1, <3>3 DEF Below, Sector
    <3> QED
      BY <1>2, <2>1, <2>2, <3>4 DEF UnderWay
  <2>3. CASE pc' # "ready"
    BY <1>2, <1>4, <2>1, <2>3 DEF UnderWay, Sector
  <2> QED
    BY <1>4, <2>2, <2>3
<1> QED
  BY <1>8, <1>9 DEF PartRest

\* The sector that was asked for is read, or its read is under way.
LEMMA PartLoadKeeps ==
    ASSUME PartsSound, PartInv, PartLoad
    PROVE  PartRest'
<1>0. PartTypes /\ CachesInv /\ UnderWay /\ IndInv /\ Disk0 \in Drives
  BY PartAssumption DEF PartInv
<1>1. PICK s \in Slots : \E x \in PartLocations(s) :
              /\ s = preq.slot /\ x = preq.loc
              /\ ppc = "load" /\ ppc' = "tag" /\ pc = "ready" /\ ~panicked
              /\ DriveRead(Sector(s, x))
              /\ part' = [part EXCEPT ![s].ptr = Sector(s, x) + 1]
              /\ UNCHANGED <<table, n, preq, pout>>
  BY <1>0, LoadFacts
<1>2. PICK x \in PartLocations(s) :
              /\ s = preq.slot /\ x = preq.loc
              /\ ppc = "load" /\ ppc' = "tag" /\ pc = "ready" /\ ~panicked
              /\ DriveRead(Sector(s, x))
              /\ part' = [part EXCEPT ![s].ptr = Sector(s, x) + 1]
              /\ UNCHANGED <<table, n, preq, pout>>
  BY <1>1
<1>3. Sector(s, x) \in Locations(Disk0) /\ Sector(s, x) + 1 \in Int
  BY SectorFacts
<1>4. /\ Contents' = Contents
      /\ \/ pc' = "ready" /\ out' = Below(s, x)
         \/ /\ pc' # "ready"
            /\ req'.drive = Disk0 /\ req'.loc = Sector(s, x) /\ req'.type = "read"
  BY <1>0, <1>2, <1>3, DriveReadEffect DEF DriveRead, Below
<1>5. part \in [Slots -> SlotStates]
  BY <1>0 DEF PartTypes
<1>6. /\ part' \in [Slots -> SlotStates]
      /\ \A t \in Slots :
            /\ part'[t].added = part[t].added
            /\ part'[t].in_cache = part[t].in_cache
            /\ part'[t].cache = part[t].cache
            /\ part'[t].cache_state = part[t].cache_state
  BY <1>2, <1>3, <1>5, PtrOnly
<1>8. CachesInv'
  <2> SUFFICES ASSUME NEW t \in Slots PROVE SlotInv(t)'
    BY DEF CachesInv
  <2>1. SlotInv(t)
    BY <1>0 DEF CachesInv
  <2>2. \A y \in PartLocations(t) : Below(t, y)' = Below(t, y)
    BY <1>4 DEF Below, Sector
  <2> QED
    BY <1>6, <2>1, <2>2, SlotKept DEF PartInv
<1>9. UnderWay'
  <2>1. /\ preq' = preq /\ preq.slot = s /\ preq.loc = x
        /\ part'[s].in_cache = part[s].in_cache /\ part'[s].cache = part[s].cache
        /\ part'[s].cache_state = part[s].cache_state
    BY <1>2, <1>6
  <2>2. part[s].cache_state = CACHE_DIRTY => part[s].cache = Below(s, part[s].in_cache)
    BY <1>0, <1>2 DEF UnderWay
  <2> QED
    BY <1>2, <1>4, <2>1, <2>2 DEF UnderWay, Below, Sector
<1> QED
  BY <1>8, <1>9 DEF PartRest

\* The partition's cache has the sector that was asked for.
LEMMA PartTagKeeps ==
    ASSUME PartsSound, PartInv, PartTag
    PROVE  PartRest'
<1>0. TypeOK /\ PartTypes
  BY DEF PartInv, IndInv
<1>1. PICK s \in Slots : s = preq.slot
  BY <1>0, PartTagFacts
<1>2. PICK x \in PartLocations(s) : x = preq.loc
  BY <1>0, <1>1, PartTagFacts
<1>3. /\ ppc = "tag" /\ ppc' = "ready" /\ pc = "ready" /\ UNCHANGED vars
      /\ part' \in [Slots -> SlotStates]
      /\ \A t \in Slots : t # s => part'[t] = part[t]
      /\ part'[s].in_cache = x
      /\ \/ part'[s].cache = Below(s, x) /\ part'[s].cache_state = CACHE_READY
         \/ part'[s].cache_state = CACHE_DIRTY
  <2>1. out = Below(preq.slot, preq.loc)
    BY DEF PartInv, UnderWay, PartTag, DriveDone
  <2> QED
    BY <1>0, <1>1, <1>2, <2>1, PartTagFacts
<1>4. Contents' = Contents
  BY <1>3 DEF vars, Contents, InCache, Hit
<1>6. CachesInv'
  <2> SUFFICES ASSUME NEW t \in Slots PROVE SlotInv(t)'
    BY DEF CachesInv
  <2>1. \A y \in PartLocations(t) : Below(t, y)' = Below(t, y)
    BY <1>4 DEF Below, Sector
  <2>2. CASE t = s
    <3>1. x # Unset
      BY SectorFacts
    <3>2. CASE part'[s].cache_state = CACHE_DIRTY
      BY <1>3, <2>2, <3>1, <3>2 DEF SlotInv, CACHE_DIRTY, CACHE_READY
    <3>3. CASE part'[s].cache = Below(s, x) /\ part'[s].cache_state = CACHE_READY
      <4>1. part'[s].cache = Below(s, x)'
        BY <2>1, <2>2, <3>3
      <4>2. part'[s].cache = Below(s, part[s].in_cache)'
        BY <1>3, <4>1 DEF Below, Sector
      <4> QED
        BY <1>3, <2>2, <3>1, <4>2 DEF SlotInv
    <3> QED
      BY <1>3, <3>2, <3>3
  <2>3. CASE t # s
    <3>1. SlotInv(t) /\ part'[t] = part[t]
      BY <1>3, <2>3 DEF PartInv, CachesInv
    <3> QED
      BY <2>1, <3>1, SlotKept DEF PartInv
  <2> QED
    BY <2>2, <2>3
<1>7. UnderWay'
  BY <1>3 DEF UnderWay, vars
<1> QED
  BY <1>6, <1>7 DEF PartRest

\* A program that uses a drive itself does not change the partitioned one.
LEMMA RawKeeps ==
    ASSUME PartsSound, PartInv, NEW d \in Drives, NEW loc \in Locations(d), Raw(d, loc)
    PROVE  /\ PartRest'
           /\ \A s \in Slots : \A x \in PartLocations(s) : Below(s, x)' = Below(s, x)
           /\ UNCHANGED panicked
<1>0. IndInv /\ ppc = "ready" /\ UNCHANGED pvars
  BY DEF PartInv, Raw
<1>1. /\ \A s \in Slots : \A x \in PartLocations(s) : Below(s, x)' = Below(s, x)
      /\ pc' = "ready" \/ req'.drive # Disk0 \/ req'.type = "read"
      /\ UNCHANGED panicked
  <2>1. CASE \/ ReadHit(d, loc)
             \/ Miss([drive |-> d, loc |-> loc, type |-> "read", payload |-> 0])
    <3>1. /\ Contents' = Contents /\ panicked' = panicked
          /\ pc' = "ready" \/ req'.type = "read"
      BY <1>0, <2>1, DriveReadEffect
    <3> QED
      BY <3>1 DEF Below, Sector
  <2>2. ASSUME d # Disk0, NEW v \in Bytes,
               \/ WriteHit(d, loc, v)
               \/ Miss([drive |-> d, loc |-> loc, type |-> "write", payload |-> v])
        PROVE  /\ \A s \in Slots : \A x \in PartLocations(s) : Below(s, x)' = Below(s, x)
               /\ pc' = "ready" \/ req'.drive # Disk0
               /\ UNCHANGED panicked
    <3>1. /\ panicked' = panicked
          /\ \/ pc' = "ready" /\ Contents' = [Contents EXCEPT ![d][loc] = v]
             \/ Contents' = Contents /\ req'.drive = d
      BY <1>0, <2>2, DriveWriteEffect
    <3>2. CASE pc' = "ready" /\ Contents' = [Contents EXCEPT ![d][loc] = v]
      BY <2>2, <3>1, <3>2, BelowKept
    <3>3. CASE Contents' = Contents /\ req'.drive = d
      BY <2>2, <3>1, <3>3 DEF Below, Sector
    <3> QED
      BY <3>1, <3>2, <3>3
  <2>3. ~RawWrites /\ RawBytes \subseteq Bytes
    BY PartAssumption DEF PartsSound
  <2> QED
    BY <2>1, <2>2, <2>3 DEF Raw
<1>3. CachesInv'
  <2> SUFFICES ASSUME NEW s \in Slots PROVE SlotInv(s)'
    BY DEF CachesInv
  <2>1. SlotInv(s)
    BY DEF PartInv, CachesInv
  <2> QED
    BY <1>0, <1>1, <2>1, SlotKept DEF PartInv, pvars
<1>4. UnderWay'
  BY <1>0, <1>1 DEF UnderWay, pvars
<1> QED
  BY <1>1, <1>3, <1>4 DEF PartRest

\* What the driver does for a partition is a write of the sector it dropped,
\* or a read of the one that was asked for.
LEMMA DriverKeeps ==
    ASSUME PartsSound, PartInv, DriverStep
    PROVE  PartRest'
<1>0. IndInv /\ UnderWay /\ UNCHANGED pvars /\ (FlushSector \/ LoadSector \/ BiosError \/ Tag)
  BY DEF PartInv, DriverStep
<1>1. /\ pc # "ready" /\ (pc' # "ready" => req' = req)
      /\ req.drive \in Drives /\ req.loc \in Locations(req.drive)
      /\ \/ pc' # "ready" /\ Contents' = Contents
         \/ /\ pc' = "ready" /\ req.type = "read"
            /\ Contents' = Contents /\ out' = Contents[req.drive][req.loc]
         \/ /\ pc' = "ready" /\ req.type = "write"
            /\ Contents' = [Contents EXCEPT ![req.drive][req.loc] = req.payload]
  BY <1>0, DriverEffect
<1>3. ppc # "flush"
  BY <1>0, <1>1 DEF UnderWay
<1>4. CachesInv'
  <2> SUFFICES ASSUME NEW s \in Slots PROVE SlotInv(s)'
    BY DEF CachesInv
  <2>1. SlotInv(s)
    BY DEF PartInv, CachesInv
  <2>2. ASSUME NEW x \in PartLocations(s)
        PROVE  part[s].cache_state = CACHE_DIRTY \/ Below(s, x)' = Below(s, x)
    <3>1. CASE Contents' = Contents
      BY <3>1 DEF Below, Sector
    <3>2. CASE /\ req.type = "write"
               /\ Contents' = [Contents EXCEPT ![req.drive][req.loc] = req.payload]
      <4>1. CASE ppc # "load"
        <5>1. req.drive # Disk0
          BY <1>0, <1>1, <3>2, <4>1 DEF UnderWay
        <5> QED
          BY <1>1, <3>2, <5>1, BelowKept
      <4>2. CASE ppc = "load"
        <5>2. PICK t \in Slots : t = preq.slot
          BY <4>2 DEF PartInv, PartTypes, PartRequests
        <5>0. /\ part[t].cache_state = CACHE_DIRTY
              /\ req.loc = Sector(t, part[t].in_cache)
          BY <1>0, <1>1, <4>2, <5>2 DEF UnderWay
        <5>1. PICK y \in PartLocations(t) : req.loc = Sector(t, y)
          BY <5>0 DEF PartInv, PartTypes, CachesInv, SlotInv
        <5>3. CASE t = s
          BY <5>0, <5>3
        <5>4. CASE t # s
          <6>1. req.loc # Sector(s, x)
            BY <5>1, <5>2, <5>4 DEF PartsSound
          <6> QED
            BY <1>1, <3>2, <6>1, BelowKept
        <5> QED
          BY <5>3, <5>4
      <4> QED
        BY <4>1, <4>2
    <3> QED
      BY <1>1, <3>1, <3>2
  <2> QED
    BY <1>0, <2>1, <2>2, SlotKept DEF PartInv, pvars
<1>5. UnderWay'
  <2>1. UNCHANGED <<ppc, preq, part>>
    BY <1>0 DEF pvars
  <2>2. CASE ppc = "tag"
    <3>1. req.loc = Sector(preq.slot, preq.loc) /\ req.drive = Disk0 /\ req.type = "read"
      BY <1>0, <1>1, <2>2 DEF UnderWay
    <3>2. Contents' = Contents /\ (pc' = "ready" => out' = Below(preq.slot, preq.loc))
      BY <1>1, <3>1 DEF Below
    <3>3. Below(preq.slot, preq.loc)' = Below(preq.slot, preq.loc)
      BY <2>1, <3>2 DEF Below, Sector
    <3>4. /\ part[preq.slot].cache_state = CACHE_DIRTY =>
               part[preq.slot].cache = Below(preq.slot, part[preq.slot].in_cache)
          /\ Below(preq.slot, part[preq.slot].in_cache)'
               = Below(preq.slot, part[preq.slot].in_cache)
      BY <1>0, <2>1, <2>2, <3>2 DEF UnderWay, Below, Sector
    <3>5. pc' # "ready" => req' = req
      BY <1>1
    <3> QED
      BY <2>1, <2>2, <3>1, <3>2, <3>3, <3>4, <3>5 DEF UnderWay, Sector
  <2>3. CASE ppc = "load" /\ pc' = "ready"
    <3>1. /\ req.loc = Sector(preq.slot, part[preq.slot].in_cache)
          /\ req.type = "write" /\ req.drive = Disk0
          /\ req.payload = part[preq.slot].cache
      BY <1>0, <1>1, <2>3 DEF UnderWay
    <3>2. Contents'[Disk0][Sector(preq.slot, part[preq.slot].in_cache)]
             = part[preq.slot].cache
      BY <1>1, <2>3, <3>1, WrittenBelow
    <3>3. Below(preq.slot, part[preq.slot].in_cache)' = part'[preq.slot].cache
      BY <2>1, <3>2 DEF Below, Sector
    <3> QED
      BY <2>1, <2>3, <3>3 DEF UnderWay
  <2>4. CASE ppc # "tag" /\ ~(ppc = "load" /\ pc' = "ready")
    BY <1>0, <1>1, <1>3, <2>1, <2>4 DEF UnderWay, Sector
  <2> QED
    BY <2>2, <2>3, <2>4
<1> QED
  BY <1>4, <1>5 DEF PartRest

\* An access that is dropped before anything of the partition is stored leaves
\* its cache right, and its users see in it what they saw.
LEMMA DropKeeps ==
    ASSUME PartsSound, PartInv, PartDrop, ~torn'
    PROVE  PartRest' /\ Contents' = Contents
<1>0. /\ PartTypes /\ CachesInv /\ UnderWay /\ IndInv
      /\ ppc' = "ready" /\ pc' = "ready"
  BY DEF PartInv, PartDrop, GiveUp, DropEarly, DropLate, vars
<1>1. Contents' = Contents
  <2>1. CASE DropEarly
    BY <1>0, <2>1, DropEarlyRefines
  <2>2. CASE UNCHANGED vars
    BY <2>2 DEF vars, Contents, InCache, Hit
  <2> QED
    BY <2>1, <2>2 DEF PartDrop, DropLate
<1>2. CachesInv'
  <2> SUFFICES ASSUME NEW s \in Slots PROVE SlotInv(s)'
    BY DEF CachesInv
  <2>1. /\ SlotInv(s) /\ part'[s].in_cache = part[s].in_cache
        /\ part'[s].cache = part[s].cache /\ part'[s].cache_state = part[s].cache_state
    BY <1>0, DropTypes DEF CachesInv
  <2>2. \A x \in PartLocations(s) : Below(s, x)' = Below(s, x)
    BY <1>1 DEF Below, Sector
  <2> QED
    BY <1>0, <2>1, <2>2, SlotKept
<1>3. UnderWay'
  BY <1>0 DEF UnderWay
<1> QED
  BY <1>1, <1>2, <1>3 DEF PartRest

\* A torn access is not forgotten here either.
LEMMA PartTornForEver ==
    ASSUME PartsSound, PartTypes, [PNext]_allvars
    PROVE  torn \/ part_torn => torn' \/ part_torn'
<1>1. torn => torn'
  BY DriverUsed, TornForEver
<1>2. ASSUME NEW r, PartAccess(r) PROVE part_torn' = part_torn
  BY <1>2 DEF PartAccess, PartAccessHit, PartMiss
<1>3. ASSUME Scan \/ UNCHANGED pvars PROVE part_torn' = part_torn
  BY <1>3 DEF Scan, ScanRead, ScanSkip, ScanEnd, ScanAdd, pvars
<1>4. ASSUME PartFlush \/ PartLoad \/ PartTag PROVE part_torn' = part_torn
  BY <1>4 DEF PartFlush, PartLoad, PartTag
<1>5. ASSUME PartDrop \/ DropHitBelow PROVE part_torn' = part_torn
  BY <1>5 DEF PartDrop, DropHitBelow
<1>6. ASSUME PDrop PROVE part_torn => part_torn'
  BY <1>5, <1>6 DEF PDrop, PartDropLate, PartDropHit
<1> QED
  BY <1>1, <1>2, <1>3, <1>4, <1>6 DEF PNext, Raw, DriverStep, allvars

\* Every step keeps the invariant, unless it tears an access.
LEMMA PartStep ==
    PartsSound /\ PartInv /\ [PNext]_allvars => PartInv' \/ torn' \/ part_torn'
<1> SUFFICES ASSUME PartsSound, PartInv, [PNext]_allvars, ~torn', ~part_torn' PROVE PartInv'
  OBVIOUS
<1>1. IndInv' /\ PartTypes'
  BY DriverUsed, CacheStep, TypesStep DEF PartInv, IndInv
<1>2. CASE UNCHANGED allvars
  <2>1. UNCHANGED <<vars, pvars>>
    BY <1>2 DEF allvars
  <2>2. Contents' = Contents
    BY <2>1 DEF vars, Contents, InCache, Hit
  <2>3. UnderWay'
    BY <2>1, <2>2 DEF PartInv, UnderWay, vars, pvars, Below, Sector
  <2>4. CachesInv'
    BY <2>1, <2>2 DEF PartInv, CachesInv, SlotInv, Below, Sector, pvars
  <2> QED
    BY <1>1, <2>3, <2>4 DEF PartInv
<1>3. CASE PartUse
  <2>1. PICK r \in PartRequests : r.loc \in PartLocations(r.slot) /\ PartAccess(r)
    BY <1>3, PartUseRequest
  <2> QED
    BY <1>1, <2>1, PartHitKeeps, PartMissKeeps DEF PartAccess, PartRest, PartInv
<1>4. CASE Scan
  BY <1>1, <1>4, ScanReadKeeps, ScanTurnKeeps, ScanAddKeeps DEF Scan, PartRest, PartInv
<1>5. CASE PartFlush \/ PartLoad \/ PartTag \/ DriverStep
  BY <1>1, <1>5, PartFlushKeeps, PartLoadKeeps, PartTagKeeps, DriverKeeps DEF PartRest, PartInv
<1>6. CASE \E d \in Drives : \E loc \in Locations(d) : Raw(d, loc)
  BY <1>1, <1>6, RawKeeps DEF PartRest, PartInv
<1>7. CASE PDrop
  <2>1. PartDrop
    BY <1>7 DEF PDrop, DropHitBelow, DropHit, PartDropLate, PartDropHit
  <2> QED
    BY <1>1, <2>1, DropKeeps DEF PartRest, PartInv
<1> QED
  BY <1>2, <1>3, <1>4, <1>5, <1>6, <1>7 DEF PNext, PartUse

\* The invariant holds at the start.
LEMMA PartStarts == PInit => PartInv
<1> SUFFICES ASSUME PInit PROVE PartInv
  OBVIOUS
<1>1. IndInv
  BY CacheStarts DEF PInit
<1> DEFINE fresh == [added |-> FALSE, in_cache |-> Unset, cache |-> 0,
                     cache_state |-> CACHE_NOT_READY, ptr |-> 0]
<1>2. fresh \in SlotStates
  BY DiskCacheAssumption DEF SlotStates, Unset
<1>3. part = [s \in Slots |-> fresh] /\ ppc = "scan" /\ pc = "ready"
  BY DEF PInit, Init
<1>4. PartTypes
  BY <1>2, <1>3 DEF PartTypes
<1>5. CachesInv
  BY <1>3 DEF CachesInv, SlotInv, CACHE_NOT_READY, CACHE_DIRTY
<1>6. UnderWay
  BY <1>3 DEF UnderWay
<1> QED
  BY <1>1, <1>4, <1>5, <1>6 DEF PartInv

\* Types are right throughout, and both caches until an access is torn.
PartSafe == TypeOK /\ PartTypes /\ (torn \/ part_torn \/ PartInv)

THEOREM PartInvariance ==
    ASSUME PartsSound
    PROVE  PartSpec => []PartSafe
<1>1. PInit => PartSafe
  BY PartStarts DEF PartSafe, PartInv, IndInv
<1>2. PartSafe /\ [PNext]_allvars => PartSafe'
  BY PartStep, PartTornForEver, TypesStep, DriverUsed, CacheTypes DEF PartSafe
<1> QED
  BY <1>1, <1>2, PTL DEF PartSpec

\* Partitions use the driver as it wants to be used, so that all that is true
\* of the driver by itself is true below them.
THEOREM DriverBelow ==
    ASSUME PartsSound
    PROVE  PartSpec => Spec
<1>1. PInit => Init
  BY DEF PInit
<1>2. PartSafe /\ [PNext]_allvars => [Next]_vars
  BY DriverUsed DEF PartSafe
<1> QED
  BY <1>1, <1>2, PartInvariance, PTL DEF PartSpec, Spec

\* In particular a clean cache of the driver is as good as the medium.
THEOREM TagsRightBelow ==
    ASSUME PartsSound
    PROVE  PartSpec => []TagsDescribeCache
  BY DriverBelow, TagsRight

\* And the driver's cache cannot be told from the drives.
THEOREM DisksBelow ==
    ASSUME PartsSound
    PROVE  PartSpec => ImplementsDisk
  BY DriverBelow, CacheImplementsDisk

(***************************************************************************)
(* The steps are steps of a Disk whose drives are the partitions.          *)
(***************************************************************************)

\* The partition's own cache has this sector.
Held(s, x) ==
    /\ part[s].added /\ part[s].cache_state # CACHE_NOT_READY
    /\ part[s].in_cache = x
    /\ ~Dropped(s)

\* The sector is on its way to the drive.
Passing(s, x) ==
    /\ pc \in {"flush", "load", "tag"} /\ ppc = "load"
    /\ req.type = "write" /\ req.loc = Sector(s, x)

\* The byte a user of the partition sees.
PartByte(s, x) ==
    IF Held(s, x) THEN part[s].cache
    ELSE IF Passing(s, x) THEN req.payload ELSE Below(s, x)

\* The contents are made of those bytes.
LEMMA PartBytes ==
    PartContents = [s \in Slots |-> [x \in PartLocations(s) |-> PartByte(s, x)]]
<1>1. \A s \in Slots : (preq.slot = s => ppc \notin {"load", "tag"}) <=> ~Dropped(s)
  BY DEF Dropped
<1> QED
  BY <1>1 DEF PartContents, PartByte, Held, Passing, Below, Sector

\* Also after a step.
LEMMA NextPartBytes ==
    PartContents' = [s \in Slots |-> [x \in PartLocations(s) |-> PartByte(s, x)']]
<1>1. \A s \in Slots : (preq'.slot = s => ppc' \notin {"load", "tag"}) <=> ~Dropped(s)'
  BY DEF Dropped
<1> QED
  BY <1>1 DEF PartContents, PartByte, Held, Passing, Below, Sector, PartLocations

\* If every byte stays the same, so do the contents of the partitions.
LEMMA SamePartitions ==
    ASSUME \A s \in Slots : \A x \in PartLocations(s) : PartByte(s, x)' = PartByte(s, x)
    PROVE  PartContents' = PartContents
  BY PartBytes, NextPartBytes

\* If one byte changes, the contents change there.
LEMMA ChangedPartitions ==
    ASSUME NEW s \in Slots, NEW x \in PartLocations(s), NEW v,
           PartByte(s, x)' = v,
           \A t \in Slots : \A y \in PartLocations(t) :
               ~(t = s /\ y = x) => PartByte(t, y)' = PartByte(t, y)
    PROVE  PartContents' = [PartContents EXCEPT ![s][x] = v]
<1> DEFINE old == [t \in Slots |-> [y \in PartLocations(t) |-> PartByte(t, y)]]
           new == [t \in Slots |-> [y \in PartLocations(t) |-> PartByte(t, y)']]
<1>1. ASSUME NEW t \in Slots, t # s PROVE new[t] = old[t]
  BY <1>1
<1>2. new[s] = [old[s] EXCEPT ![x] = v]
  OBVIOUS
<1>3. new = [old EXCEPT ![s] = new[s]]
  BY <1>1
<1>4. new = [old EXCEPT ![s][x] = v]
  BY <1>2, <1>3
<1> QED
  BY <1>4, PartBytes, NextPartBytes

\* A byte that stays where it is stays the same.
LEMMA ByteKept ==
    ASSUME NEW s \in Slots, NEW x \in PartLocations(s),
           Held(s, x)' <=> Held(s, x), part'[s].cache = part[s].cache,
           ~Passing(s, x), ~Passing(s, x)', Below(s, x)' = Below(s, x)
    PROVE  PartByte(s, x)' = PartByte(s, x)
  BY DEF PartByte

\* The scan changes nothing a user can see.
LEMMA ScanQuiet ==
    ASSUME PartsSound, PartInv, Scan
    PROVE  UNCHANGED <<PartContents, pout, panicked>>
<1>0. Disk0 \in Drives /\ 0 \in Locations(Disk0) /\ IndInv
  BY PartAssumption, DiskCacheAssumption DEF PartsSound, Locations, PartInv
<1>1. Contents' = Contents /\ panicked' = panicked
  <2>1. CASE ScanRead
    BY <1>0, <2>1, DriveReadEffect DEF ScanRead, DriveRead
  <2>2. CASE UNCHANGED vars
    BY <2>2 DEF vars, Contents, InCache, Hit
  <2> QED
    BY <2>1, <2>2 DEF Scan, ScanSkip, ScanEnd, ScanAdd
<1>2. ppc \in {"scan", "table"} /\ ppc' \in {"scan", "table", "ready"} /\ pout' = pout
  BY DEF Scan, ScanRead, ScanSkip, ScanEnd, ScanAdd
<1>3. \A s \in Slots : part[s].in_cache = Unset /\ part'[s].in_cache = Unset
  <2>1. part \in [Slots -> SlotStates] /\ \A s \in Slots : part[s].in_cache = Unset
    BY <1>2 DEF PartInv, PartTypes
  <2>2. CASE part' = part
    BY <2>1, <2>2
  <2>3. CASE ScanAdd
    BY <2>1, <2>3 DEF ScanAdd
  <2> QED
    BY <2>2, <2>3 DEF Scan, ScanRead, ScanSkip, ScanEnd
<1>4. ASSUME NEW s \in Slots, NEW x \in PartLocations(s) PROVE PartByte(s, x)' = PartByte(s, x)
  <2>1. ~Held(s, x) /\ ~Held(s, x)'
    BY <1>3, SectorFacts DEF Held
  <2>2. ~Passing(s, x) /\ ~Passing(s, x)'
    BY <1>2 DEF Passing
  <2>3. Below(s, x)' = Below(s, x)
    BY <1>1 DEF Below, Sector
  <2> QED
    BY <2>1, <2>2, <2>3 DEF PartByte
<1>5. PartContents' = PartContents
  BY <1>4, SamePartitions
<1> QED
  BY <1>1, <1>2, <1>5

\* A hit is the read or the write.
LEMMA PartHitRefines ==
    ASSUME PartsSound, PartInv, NEW r \in PartRequests, r.loc \in PartLocations(r.slot),
           PartAccessHit(r)
    PROVE  P!Read(r.slot, r.loc) \/ P!Write(r.slot, r.loc, r.payload)
<1>1. PICK s \in Slots : s = r.slot
  BY DEF PartRequests
<1>2. PICK x \in PartLocations(s) : x = r.loc
  BY <1>1
<1>3. /\ ppc = "ready" /\ ppc' = "ready" /\ pc = "ready" /\ UNCHANGED vars
      /\ Transfer(r, part[s]) /\ part[s].in_cache = x /\ ~panicked
      /\ part[s].added /\ part[s].cache_state # CACHE_NOT_READY
  BY <1>1, <1>2 DEF PartAccessHit, PartHit, DriveDone
<1>4. PartTypes /\ part[s] \in SlotStates
  BY DEF PartInv, PartTypes
<1>5. /\ \A t \in Slots : t # s => part'[t] = part[t]
      /\ part'[s].in_cache = x /\ part'[s].added
      /\ \/ /\ r.type = "read" /\ pout' = part[s].cache
            /\ part'[s].cache = part[s].cache
            /\ part'[s].cache_state = part[s].cache_state
         \/ /\ r.type = "write" /\ pout' = 0
            /\ part'[s].cache = r.payload
            /\ part'[s].cache_state = CACHE_DIRTY
  BY <1>1, <1>3, <1>4, TransferEffect
<1>6. panicked' = panicked /\ Contents' = Contents
  BY <1>3 DEF vars, Contents, InCache, Hit
<1>7. /\ Held(s, x) /\ Held(s, x)'
      /\ \A y \in PartLocations(s) : y # x => ~Held(s, y) /\ ~Held(s, y)'
  BY <1>3, <1>5 DEF Held, Dropped, CACHE_DIRTY, CACHE_NOT_READY
<1>8. ASSUME NEW t \in Slots, NEW y \in PartLocations(t), ~(t = s /\ y = x)
      PROVE  PartByte(t, y)' = PartByte(t, y)
  <2>1. ~Passing(t, y) /\ ~Passing(t, y)' /\ Below(t, y)' = Below(t, y)
    BY <1>3, <1>6 DEF Passing, Below, Sector
  <2>2. CASE t = s
    BY <1>7, <1>8, <2>1, <2>2 DEF PartByte
  <2>3. CASE t # s
    <3>1. part'[t] = part[t] /\ (Held(t, y)' <=> Held(t, y))
      BY <1>3, <1>5, <2>3 DEF Held, Dropped
    <3> QED
      BY <2>1, <3>1, ByteKept
  <2> QED
    BY <2>2, <2>3
<1>9. PartContents[s][x] = part[s].cache
  BY <1>7, PartBytes DEF PartByte
<1>10. CASE r.type = "read"
  <2>1. PartByte(s, x)' = PartByte(s, x)
    BY <1>5, <1>7, <1>10 DEF PartByte
  <2>2. PartContents' = PartContents
    BY <1>8, <2>1, SamePartitions
  <2> QED
    BY <1>1, <1>2, <1>3, <1>5, <1>6, <1>9, <1>10, <2>2 DEF P!Read
<1>11. CASE r.type = "write"
  <2>1. PartByte(s, x)' = r.payload
    BY <1>5, <1>7, <1>11 DEF PartByte
  <2>2. PartContents' = [PartContents EXCEPT ![s][x] = r.payload]
    BY <1>8, <2>1, ChangedPartitions
  <2> QED
    BY <1>1, <1>2, <1>3, <1>5, <1>6, <1>11, <2>2 DEF P!Write
<1> QED
  BY <1>5, <1>10, <1>11

\* A miss changes nothing: a clean sector that is dropped is on the drive.
LEMMA PartMissQuiet ==
    ASSUME PartsSound, PartInv, NEW r \in PartRequests, PartMiss(r)
    PROVE  UNCHANGED <<PartContents, pout, panicked>>
<1>1. /\ ppc = "ready" /\ pc = "ready" /\ preq' = r /\ part' = part /\ UNCHANGED vars
      /\ ppc' = IF part[r.slot].cache_state = CACHE_DIRTY THEN "flush" ELSE "load"
      /\ pout' = pout
  BY DEF PartMiss, DriveDone
<1>2. Contents' = Contents /\ panicked' = panicked /\ pc' = "ready"
  BY <1>1 DEF vars, Contents, InCache, Hit
<1>3. ASSUME NEW s \in Slots, NEW x \in PartLocations(s) PROVE PartByte(s, x)' = PartByte(s, x)
  <2>1. ~Passing(s, x) /\ ~Passing(s, x)' /\ Below(s, x)' = Below(s, x) /\ ~Dropped(s)
    BY <1>1, <1>2 DEF Passing, Below, Sector, Dropped
  <2>2. CASE Held(s, x)' <=> Held(s, x)
    BY <1>1, <2>1, <2>2, ByteKept
  <2>3. CASE ~(Held(s, x)' <=> Held(s, x))
    <3>1. Held(s, x) /\ ~Held(s, x)' /\ r.slot = s /\ part[s].cache_state # CACHE_DIRTY
      BY <1>1, <2>1, <2>3 DEF Held, Dropped
    <3>2. part[s] \in SlotStates /\ SlotInv(s)
      BY DEF PartInv, PartTypes, CachesInv
    <3>3. part[s].cache_state = CACHE_READY
      BY <3>1, <3>2 DEF SlotStates, Held
    <3>4. part[s].in_cache = x /\ x # Unset
      BY <3>1, SectorFacts DEF Held
    <3>5. part[s].cache = Below(s, x)
      BY <2>1, <3>2, <3>3, <3>4 DEF SlotInv
    <3> QED
      BY <2>1, <3>1, <3>5 DEF PartByte
  <2> QED
    BY <2>2, <2>3
<1>4. PartContents' = PartContents
  BY <1>3, SamePartitions
<1> QED
  BY <1>1, <1>2, <1>4

\* Nor does the flush: the drive has the dirty sector, or is about to.
LEMMA PartFlushQuiet ==
    ASSUME PartsSound, PartInv, PartFlush
    PROVE  UNCHANGED <<PartContents, pout, panicked>>
<1>0. PartTypes /\ CachesInv /\ UnderWay /\ IndInv /\ Disk0 \in Drives
  BY PartAssumption DEF PartInv
<1>1. PICK s \in Slots : \E x \in PartLocations(s) :
              /\ s = preq.slot /\ x = part[s].in_cache
              /\ part[s].cache \in Bytes
              /\ ppc = "flush" /\ ppc' = "load" /\ pc = "ready" /\ ~panicked
              /\ DriveWrite(Sector(s, x), part[s].cache)
              /\ part' = [part EXCEPT ![s].ptr = Sector(s, x) + 1]
              /\ UNCHANGED <<table, n, preq, pout>>
  BY <1>0, FlushFacts
<1>2. PICK x \in PartLocations(s) :
              /\ s = preq.slot /\ x = part[s].in_cache
              /\ part[s].cache \in Bytes
              /\ ppc = "flush" /\ ppc' = "load" /\ pc = "ready" /\ ~panicked
              /\ DriveWrite(Sector(s, x), part[s].cache)
              /\ part' = [part EXCEPT ![s].ptr = Sector(s, x) + 1]
              /\ UNCHANGED <<table, n, preq, pout>>
  BY <1>1
<1>3. Sector(s, x) \in Locations(Disk0) /\ Sector(s, x) + 1 \in Int
  BY SectorFacts
<1>4. /\ panicked' = panicked
      /\ \/ /\ pc' = "ready"
            /\ Contents' = [Contents EXCEPT ![Disk0][Sector(s, x)] = part[s].cache]
         \/ /\ pc' \in {"flush", "load", "tag"} /\ Contents' = Contents
            /\ req'.loc = Sector(s, x) /\ req'.type = "write"
            /\ req'.payload = part[s].cache
  BY <1>0, <1>2, <1>3, DriveWriteEffect DEF DriveWrite
<1>5. part \in [Slots -> SlotStates] /\ part[s].added /\ part[s].cache_state = CACHE_DIRTY
  BY <1>0, <1>2 DEF PartTypes, UnderWay
<1>6. \A t \in Slots :
            /\ part'[t].added = part[t].added
            /\ part'[t].in_cache = part[t].in_cache
            /\ part'[t].cache = part[t].cache
            /\ part'[t].cache_state = part[t].cache_state
  BY <1>2, <1>3, <1>5, PtrOnly
<1>7. PartByte(s, x) = part[s].cache
  BY <1>2, <1>5 DEF PartByte, Held, Dropped, CACHE_DIRTY, CACHE_NOT_READY
<1>8. Held(s, x)' = FALSE
  BY <1>2 DEF Held, Dropped
<1>9. PartByte(s, x)' = part[s].cache
  <2>1. CASE pc' = "ready" /\ Contents' = [Contents EXCEPT ![Disk0][Sector(s, x)] = part[s].cache]
    <3>1. Contents'[Disk0][Sector(s, x)] = part[s].cache
      <4>1. DOMAIN Contents = Drives /\ DOMAIN Contents[Disk0] = Locations(Disk0)
        BY <1>0 DEF Contents
      <4> QED
        BY <1>0, <1>3, <2>1, <4>1
    <3>2. Below(s, x)' = part[s].cache
      BY <3>1 DEF Below, Sector
    <3>3. Passing(s, x)' = FALSE
      BY <2>1 DEF Passing
    <3> QED
      BY <1>8, <3>2, <3>3 DEF PartByte
  <2>2. CASE /\ pc' \in {"flush", "load", "tag"}
             /\ req'.loc = Sector(s, x) /\ req'.type = "write"
             /\ req'.payload = part[s].cache
    <3>1. Passing(s, x)'
      BY <1>2, <2>2 DEF Passing, Sector
    <3> QED
      BY <1>8, <2>2, <3>1 DEF PartByte
  <2> QED
    BY <1>4, <2>1, <2>2
<1>10. ASSUME NEW t \in Slots, NEW y \in PartLocations(t), ~(t = s /\ y = x)
       PROVE  PartByte(t, y)' = PartByte(t, y)
  <2>1. Sector(t, y) # Sector(s, x)
    BY <1>10 DEF PartsSound
  <2>2. ~Passing(t, y) /\ ~Passing(t, y)'
    BY <1>2, <1>4, <2>1 DEF Passing, Sector
  <2>3. Below(t, y)' = Below(t, y)
    <3>1. CASE Contents' = Contents
      BY <3>1 DEF Below, Sector
    <3>2. CASE Contents' = [Contents EXCEPT ![Disk0][Sector(s, x)] = part[s].cache]
      BY <1>0, <1>3, <2>1, <3>2, BelowKept
    <3> QED
      BY <1>4, <3>1, <3>2
  <2>4. Held(t, y)' <=> Held(t, y)
    <3>1. CASE t = s
      BY <1>2, <1>6, <1>10, <3>1 DEF Held, Dropped
    <3>2. CASE t # s
      BY <1>2, <1>6, <3>2 DEF Held, Dropped
    <3> QED
      BY <3>1, <3>2
  <2> QED
    BY <1>6, <2>2, <2>3, <2>4, ByteKept
<1>11. PartContents' = PartContents
  BY <1>7, <1>9, <1>10, SamePartitions
<1> QED
  BY <1>2, <1>4, <1>11

\* Nor does the load.
LEMMA PartLoadQuiet ==
    ASSUME PartsSound, PartInv, PartLoad
    PROVE  UNCHANGED <<PartContents, pout, panicked>>
<1>0. PartTypes /\ IndInv /\ Disk0 \in Drives
  BY PartAssumption DEF PartInv
<1>1. PICK s \in Slots : \E x \in PartLocations(s) :
              /\ s = preq.slot /\ x = preq.loc
              /\ ppc = "load" /\ ppc' = "tag" /\ pc = "ready" /\ ~panicked
              /\ DriveRead(Sector(s, x))
              /\ part' = [part EXCEPT ![s].ptr = Sector(s, x) + 1]
              /\ UNCHANGED <<table, n, preq, pout>>
  BY <1>0, LoadFacts
<1>2. PICK x \in PartLocations(s) :
              /\ s = preq.slot /\ x = preq.loc
              /\ ppc = "load" /\ ppc' = "tag" /\ pc = "ready" /\ ~panicked
              /\ DriveRead(Sector(s, x))
              /\ part' = [part EXCEPT ![s].ptr = Sector(s, x) + 1]
              /\ UNCHANGED <<table, n, preq, pout>>
  BY <1>1
<1>3. Sector(s, x) \in Locations(Disk0) /\ Sector(s, x) + 1 \in Int
  BY SectorFacts
<1>4. Contents' = Contents /\ panicked' = panicked
  BY <1>0, <1>2, <1>3, DriveReadEffect DEF DriveRead
<1>5. part \in [Slots -> SlotStates]
  BY <1>0 DEF PartTypes
<1>6. \A t \in Slots :
            /\ part'[t].added = part[t].added
            /\ part'[t].in_cache = part[t].in_cache
            /\ part'[t].cache = part[t].cache
            /\ part'[t].cache_state = part[t].cache_state
  BY <1>2, <1>3, <1>5, PtrOnly
<1>7. ASSUME NEW t \in Slots, NEW y \in PartLocations(t)
      PROVE  PartByte(t, y)' = PartByte(t, y)
  <2>1. ~Passing(t, y) /\ ~Passing(t, y)' /\ Below(t, y)' = Below(t, y)
    BY <1>2, <1>4 DEF Passing, Below, Sector
  <2>2. Held(t, y)' <=> Held(t, y)
    BY <1>2, <1>6 DEF Held, Dropped
  <2> QED
    BY <1>6, <2>1, <2>2, ByteKept
<1>8. PartContents' = PartContents
  BY <1>7, SamePartitions
<1> QED
  BY <1>2, <1>4, <1>8

\* The last step of a miss is the read or the write that was asked for.
LEMMA PartTagRefines ==
    ASSUME PartsSound, PartInv, PartTag
    PROVE  P!Read(preq.slot, preq.loc) \/ P!Write(preq.slot, preq.loc, preq.payload)
<1>0. TypeOK /\ PartTypes
  BY DEF PartInv, IndInv
<1>1. PICK s \in Slots : s = preq.slot
  BY <1>0, PartTagFacts
<1>2. PICK x \in PartLocations(s) : x = preq.loc
  BY <1>0, <1>1, PartTagFacts
<1>3. /\ ppc = "tag" /\ ppc' = "ready" /\ pc = "ready" /\ ~panicked /\ UNCHANGED vars
      /\ out = Below(s, x)
      /\ \A t \in Slots : t # s => part'[t] = part[t]
      /\ part'[s].added /\ part'[s].in_cache = x
      /\ \/ /\ preq.type = "read" /\ pout' = out
            /\ part'[s].cache = out /\ part'[s].cache_state = CACHE_READY
         \/ /\ preq.type = "write" /\ pout' = 0
            /\ part'[s].cache = preq.payload /\ part'[s].cache_state = CACHE_DIRTY
  <2>1. out = Below(preq.slot, preq.loc)
    BY DEF PartInv, UnderWay, PartTag, DriveDone
  <2> QED
    BY <1>0, <1>1, <1>2, <2>1, PartTagFacts
<1>4. panicked' = panicked /\ Contents' = Contents
  BY <1>3 DEF vars, Contents, InCache, Hit
<1>5. ASSUME NEW t \in Slots, NEW y \in PartLocations(t)
      PROVE  ~Passing(t, y) /\ ~Passing(t, y)' /\ Below(t, y)' = Below(t, y)
  BY <1>3, <1>4 DEF Passing, Below, Sector
<1>6. ASSUME NEW y \in PartLocations(s) PROVE PartByte(s, y) = Below(s, y)
  <2>1. ~Held(s, y)
    BY <1>1, <1>3 DEF Held, Dropped
  <2> QED
    BY <1>5, <2>1 DEF PartByte
<1>7. Held(s, x)' /\ \A y \in PartLocations(s) : y # x => ~Held(s, y)'
  BY <1>3 DEF Held, Dropped, CACHE_DIRTY, CACHE_READY, CACHE_NOT_READY
<1>8. ASSUME NEW t \in Slots, NEW y \in PartLocations(t), ~(t = s /\ y = x)
      PROVE  PartByte(t, y)' = PartByte(t, y)
  <2>1. CASE t = s
    <3>1. PartByte(t, y)' = Below(t, y)'
      BY <1>5, <1>7, <1>8, <2>1 DEF PartByte
    <3> QED
      BY <1>5, <1>6, <2>1, <3>1
  <2>2. CASE t # s
    <3>1. part'[t] = part[t] /\ (Held(t, y)' <=> Held(t, y))
      BY <1>1, <1>3, <2>2 DEF Held, Dropped
    <3> QED
      BY <1>5, <3>1, ByteKept
  <2> QED
    BY <2>1, <2>2
<1>9. PartContents[s][x] = Below(s, x)
  BY <1>6, PartBytes
<1>10. CASE preq.type = "read"
  <2>1. PartByte(s, x)' = PartByte(s, x)
    BY <1>3, <1>6, <1>7, <1>10 DEF PartByte
  <2>2. PartContents' = PartContents
    BY <1>8, <2>1, SamePartitions
  <2> QED
    BY <1>1, <1>2, <1>3, <1>4, <1>9, <1>10, <2>2 DEF P!Read
<1>11. CASE preq.type = "write"
  <2>1. PartByte(s, x)' = preq.payload
    BY <1>3, <1>7, <1>11 DEF PartByte
  <2>2. PartContents' = [PartContents EXCEPT ![s][x] = preq.payload]
    BY <1>8, <2>1, ChangedPartitions
  <2> QED
    BY <1>1, <1>2, <1>3, <1>4, <1>11, <2>2 DEF P!Write
<1> QED
  BY <1>3, <1>10, <1>11

\* Nobody sees in a partition what a program does to a drive.
LEMMA RawQuiet ==
    ASSUME PartsSound, PartInv, NEW d \in Drives, NEW loc \in Locations(d), Raw(d, loc)
    PROVE  UNCHANGED <<PartContents, pout, panicked>>
<1>1. ppc = "ready" /\ UNCHANGED <<part, preq, ppc, pout>>
  BY DEF Raw, pvars
<1>2. /\ \A s \in Slots : \A x \in PartLocations(s) : Below(s, x)' = Below(s, x)
      /\ UNCHANGED panicked
  BY RawKeeps
<1>3. ASSUME NEW s \in Slots, NEW x \in PartLocations(s) PROVE PartByte(s, x)' = PartByte(s, x)
  <2>1. ~Passing(s, x) /\ ~Passing(s, x)' /\ (Held(s, x)' <=> Held(s, x))
    BY <1>1 DEF Passing, Held, Dropped
  <2> QED
    BY <1>1, <1>2, <2>1, ByteKept
<1>4. PartContents' = PartContents
  BY <1>3, SamePartitions
<1> QED
  BY <1>1, <1>2, <1>4

\* Nor how the driver goes about what it was asked for: the sector on its way
\* to the drive is the one it becomes.
LEMMA DriverQuiet ==
    ASSUME PartsSound, PartInv, DriverStep
    PROVE  UNCHANGED <<PartContents, pout>>
<1>0. IndInv /\ UnderWay /\ UNCHANGED pvars /\ (FlushSector \/ LoadSector \/ BiosError \/ Tag)
  BY DEF PartInv, DriverStep
<1>1. /\ pc # "ready" /\ pc \in {"flush", "load", "tag"} /\ (pc' # "ready" => req' = req)
      /\ req.drive \in Drives /\ req.loc \in Locations(req.drive)
      /\ \/ pc' \in {"flush", "load", "tag"} /\ Contents' = Contents
         \/ pc' = "ready" /\ req.type = "read" /\ Contents' = Contents
         \/ /\ pc' = "ready" /\ req.type = "write"
            /\ Contents' = [Contents EXCEPT ![req.drive][req.loc] = req.payload]
  BY <1>0, DriverEffect
<1>2. UNCHANGED <<part, preq, ppc, pout>>
  BY <1>0 DEF pvars
<1>3. ASSUME NEW s \in Slots, NEW x \in PartLocations(s) PROVE PartByte(s, x)' = PartByte(s, x)
  <2>0. Held(s, x)' <=> Held(s, x)
    BY <1>2 DEF Held, Dropped
  <2>1. CASE Contents' = Contents /\ (pc' \in {"flush", "load", "tag"} \/ req.type = "read")
    <3>1. Below(s, x)' = Below(s, x) /\ (Passing(s, x)' <=> Passing(s, x))
      BY <1>1, <1>2, <2>1 DEF Below, Sector, Passing
    <3>2. Passing(s, x) => req' = req
      BY <1>1, <2>1 DEF Passing
    <3> QED
      BY <1>2, <2>0, <3>1, <3>2 DEF PartByte
  <2>2. CASE /\ pc' = "ready" /\ req.type = "write"
             /\ Contents' = [Contents EXCEPT ![req.drive][req.loc] = req.payload]
    <3>1. ~Passing(s, x)'
      BY <2>2 DEF Passing
    <3>2. CASE Passing(s, x)
      <4>1. req.drive = Disk0 /\ req.loc = Sector(s, x)
        BY <1>0, <1>1, <3>2 DEF UnderWay, Passing
      <4>2. DOMAIN Contents = Drives /\ DOMAIN Contents[Disk0] = Locations(Disk0)
        BY <1>1, <4>1 DEF Contents
      <4>3. Contents'[Disk0][Sector(s, x)] = req.payload
        BY <1>1, <2>2, <4>1, <4>2
      <4>4. Below(s, x)' = req.payload
        BY <4>3 DEF Below, Sector
      <4> QED
        BY <1>2, <2>0, <3>1, <3>2, <4>4 DEF PartByte
    <3>3. CASE ~Passing(s, x)
      <4>1. req.drive # Disk0 \/ req.loc # Sector(s, x)
        BY <1>0, <1>1, <2>2, <3>3 DEF UnderWay, Passing
      <4>2. Below(s, x)' = Below(s, x)
        BY <1>1, <2>2, <4>1, BelowKept
      <4> QED
        BY <1>2, <2>0, <3>1, <3>3, <4>2, ByteKept
    <3> QED
      BY <3>2, <3>3
  <2> QED
    BY <1>1, <2>1, <2>2
<1>4. PartContents' = PartContents
  BY <1>3, SamePartitions
<1> QED
  BY <1>2, <1>4

\* Nor an access that is dropped before anything of the partition is stored:
\* the sector that was to be replaced is in its cache again, and what was on
\* its way to the drive is what it holds.
LEMMA DropQuiet ==
    ASSUME PartsSound, PartInv, PartDrop, ~torn'
    PROVE  UNCHANGED <<PartContents, pout, panicked>>
<1>0. /\ PartTypes /\ CachesInv /\ UnderWay /\ Contents' = Contents
      /\ ppc' = "ready" /\ pc' = "ready" /\ pout' = pout /\ panicked' = panicked
  BY DropKeeps DEF PartInv, PartDrop, GiveUp, DropEarly, DropLate, vars
<1>1. \A t \in Slots : /\ part'[t].added = part[t].added
                       /\ part'[t].in_cache = part[t].in_cache
                       /\ part'[t].cache = part[t].cache
                       /\ part'[t].cache_state = part[t].cache_state
  BY <1>0, DropTypes
<1>2. ASSUME NEW s \in Slots, NEW x \in PartLocations(s) PROVE PartByte(s, x)' = PartByte(s, x)
  <2>0. /\ ~Passing(s, x)' /\ Below(s, x)' = Below(s, x) /\ ~Dropped(s)'
        /\ SlotInv(s) /\ part[s] \in SlotStates /\ x # Unset
    BY <1>0, SectorFacts DEF Passing, Below, Sector, Dropped, CachesInv, PartTypes
  <2>1. CASE Passing(s, x)
    <3>1. PICK t \in Slots : t = preq.slot
      BY <1>0, <2>1 DEF Passing, PartTypes, PartRequests
    <3>2. /\ part[t].cache_state = CACHE_DIRTY /\ req.payload = part[t].cache
          /\ req.loc = Sector(t, part[t].in_cache) /\ part[t].added /\ ppc = "load"
      BY <1>0, <2>1, <3>1 DEF Passing, UnderWay, PartTypes
    <3>3. part[t].in_cache \in PartLocations(t)
      BY <1>0, <3>2 DEF PartTypes, CachesInv, SlotInv
    <3>4. t = s /\ part[t].in_cache = x
      BY <2>1, <3>2, <3>3 DEF PartsSound, Passing
    <3>5. ~Held(s, x) /\ Held(s, x)'
      BY <1>1, <2>0, <3>1, <3>2, <3>4 DEF Held, Dropped, CACHE_DIRTY, CACHE_NOT_READY
    <3> QED
      BY <1>1, <2>1, <3>2, <3>4, <3>5 DEF PartByte
  <2>2. CASE ~Passing(s, x) /\ Dropped(s) /\ Held(s, x)'
    <3>1. /\ preq.slot = s /\ part[s].in_cache = x /\ ppc \in {"load", "tag"}
          /\ part[s].cache_state \in {CACHE_READY, CACHE_DIRTY}
      BY <1>1, <2>0, <2>2 DEF Held, Dropped, SlotStates
    <3>2. CASE part[s].cache_state = CACHE_READY
      <4>1. part[s].cache = Below(s, x)
        BY <2>0, <3>1, <3>2 DEF SlotInv
      <4> QED
        BY <1>1, <2>2, <4>1 DEF PartByte, Held
    <3>3. CASE part[s].cache_state = CACHE_DIRTY
      <4>1. ~(ppc = "load" /\ pc # "ready")
        <5>1. pc \in {"ready", "flush", "load", "tag"}
          BY DEF PartInv, IndInv, TypeOK
        <5> QED
          BY <1>0, <2>2, <3>1, <5>1 DEF UnderWay, Passing
      <4>2. part[s].cache = Below(s, x)
        BY <1>0, <3>1, <3>3, <4>1 DEF UnderWay
      <4> QED
        BY <1>1, <2>2, <4>2 DEF PartByte, Held
    <3> QED
      BY <3>1, <3>2, <3>3
  <2>3. CASE ~Passing(s, x) /\ ~(Dropped(s) /\ Held(s, x)')
    <3>1. Held(s, x)' <=> Held(s, x)
      BY <1>1, <2>0, <2>3 DEF Held
    <3> QED
      BY <1>1, <2>0, <2>3, <3>1, ByteKept
  <2> QED
    BY <2>1, <2>2, <2>3
<1>3. PartContents' = PartContents
  BY <1>2, SamePartitions
<1> QED
  BY <1>0, <1>3

\* At the start every sector of every partition is zero.
LEMMA PartInitRefines == PartsSound /\ PInit => P!Init
<1> SUFFICES ASSUME PartsSound, PInit PROVE P!Init
  OBVIOUS
<1>1. /\ Init /\ ppc = "scan" /\ pout = 0 /\ panicked = FALSE
      /\ \A s \in Slots : part[s].added = FALSE
  BY DEF PInit, Init
<1>2. ASSUME NEW s \in Slots, NEW x \in PartLocations(s) PROVE PartByte(s, x) = 0
  <2>1. ~Held(s, x) /\ ~Passing(s, x)
    BY <1>1 DEF Held, Passing
  <2>2. Disk0 \in Drives /\ Sector(s, x) \in Locations(Disk0)
    BY PartAssumption, SectorFacts
  <2>3. Below(s, x) = 0
    BY <1>1, <2>2 DEF Below, Init, Contents, InCache, Hit
  <2> QED
    BY <2>1, <2>3 DEF PartByte
<1>3. PartContents = [s \in Slots |-> [x \in PartLocations(s) |-> 0]]
  BY <1>2, PartBytes
<1> QED
  BY <1>1, <1>3 DEF P!Init, P!Locations, PartLocations

\* Two caches on top of each other, both written back late, cannot be told
\* from the partitions themselves: a partition reads back what was written to
\* it last and no other partition sees it, until an access is dropped between
\* the stores of one of the caches.
THEOREM PartitionsImplementDisks ==
    ASSUME PartsSound
    PROVE  PartSpec => PartitionsAreDisks
<1>1. PInit => P!Init
  BY PartInitRefines
<1>2. PartSafe /\ [PNext]_allvars =>
          [P!Next \/ torn' \/ part_torn']_<<PartContents, pout, panicked>>
  <2> SUFFICES ASSUME PartInv, [PNext]_allvars, ~torn', ~part_torn'
               PROVE  P!Next \/ UNCHANGED <<PartContents, pout, panicked>>
    BY PartTornForEver DEF PartSafe
  <2>0. ASSUME NEW s \in Slots, NEW x \in PartLocations(s), NEW v \in Bytes,
               P!Read(s, x) \/ P!Write(s, x, v)
        PROVE  P!Next
    BY <2>0 DEF P!Next, P!Locations, PartLocations
  <2>1. CASE PartUse
    <3>1. PICK r \in PartRequests : r.loc \in PartLocations(r.slot) /\ PartAccess(r)
      BY <2>1, PartUseRequest
    <3>2. r.slot \in Slots /\ r.payload \in Bytes
      BY DEF PartRequests
    <3> QED
      BY <2>0, <3>1, <3>2, PartHitRefines, PartMissQuiet DEF PartAccess
  <2>2. CASE PartTag
    <3>1. /\ preq.slot \in Slots /\ preq.loc \in PartLocations(preq.slot)
          /\ preq.payload \in Bytes
      BY <2>2, PartTagFacts DEF PartInv, IndInv
    <3> QED
      BY <2>0, <2>2, <3>1, PartTagRefines
  <2>3. CASE DriverStep
    <3>1. UNCHANGED <<PartContents, pout>> /\ ~panicked
      BY <2>3, DriverQuiet DEF DriverStep, FlushSector, LoadSector, BiosError, Tag
    <3>2. panicked' = panicked \/ panicked' = TRUE
      BY <2>3 DEF DriverStep, FlushSector, LoadSector, BiosError, Tag
    <3> QED
      BY <3>1, <3>2 DEF P!Next, P!Stop
  <2>4. CASE UNCHANGED allvars
    <3>1. UNCHANGED <<vars, pvars>>
      BY <2>4 DEF allvars
    <3>2. Contents' = Contents
      BY <3>1 DEF vars, Contents, InCache, Hit
    <3>3. PartContents' = PartContents
      BY <3>1, <3>2 DEF vars, pvars, PartContents
    <3> QED
      BY <3>1, <3>3 DEF vars, pvars
  <2>5. CASE \E d \in Drives : \E loc \in Locations(d) : Raw(d, loc)
    BY <2>5, RawQuiet
  <2>6. CASE PDrop
    <3>1. PartDrop
      BY <2>6 DEF PDrop, DropHitBelow, DropHit, PartDropLate, PartDropHit
    <3> QED
      BY <3>1, DropQuiet
  <2> QED
    BY <2>1, <2>2, <2>3, <2>4, <2>5, <2>6, ScanQuiet, PartFlushQuiet, PartLoadQuiet
       DEF PNext, PartUse
<1> QED
  BY <1>1, <1>2, PartInvariance, PTL DEF PartSpec, PartitionsAreDisks
=============================================================================
