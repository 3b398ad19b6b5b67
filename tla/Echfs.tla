------------------------------- MODULE Echfs -------------------------------
(***************************************************************************)
(* The file system echfs, kernel/src/fs/echfs.c: an allocation table, a    *)
(* directory table and blocks of data on a device, a list of cached files  *)
(* (one block of data each, written back when another block is needed),    *)
(* and open handles that point into that list.                             *)
(*                                                                         *)
(* System calls are not preempted, so an operation is one action; the      *)
(* loops of echfs_uread and echfs_uwrite take a step for each byte.  When  *)
(* the scheduler repeats one of these two for a waiting task, a tick that  *)
(* comes in the disk driver drops it where it is.                          *)
(*                                                                         *)
(* Paths are sequences of names.  Numbers that the code keeps apart from   *)
(* block numbers and directory ids by their size are negative here.        *)
(***************************************************************************)
EXTENDS Integers, Sequences, FiniteSets

CONSTANTS
    FilePaths, DirPaths,
    NBlocks,            \* blocks of the device
    Reserved,           \* the first so many hold the tables
    DirSize,            \* entries of the directory table
    BYTES_PER_BLOCK,
    Bytes,
    Payloads,           \* the bytes programs write
    MaxOpen, MaxHandles,    \* bounds: open handles, without and with forked ones
    MaxSize,            \* bound: bytes in a file
    Lens,               \* bytes of one echfs_uread or echfs_uwrite
    InitSizes,          \* the sizes the first file may have at boot
    BadPaths,           \* whether programs name files that cannot be found
    Gaps                \* whether programs write a block past the end of a file

ASSUME EchfsAssumption ==
    /\ NBlocks \in Nat /\ Reserved \in 1 .. NBlocks
    /\ DirSize \in Nat \ {0} /\ BYTES_PER_BLOCK \in Nat \ {0}
    /\ Bytes \subseteq Nat /\ 0 \in Bytes /\ Payloads \subseteq Bytes
    /\ MaxHandles \in Nat /\ MaxOpen \in 0 .. MaxHandles
    /\ MaxSize \in Nat /\ Lens \subseteq Nat \ {0}
    /\ \A p \in FilePaths \cup DirPaths : p \in Seq({p[k] : k \in DOMAIN p}) /\ p # <<>>
    /\ BadPaths \in BOOLEAN /\ Gaps \in BOOLEAN
    /\ InitSizes \subseteq 0 .. (NBlocks - Reserved) * BYTES_PER_BLOCK

ROOT_ID == -1
DELETED_ENTRY == -2
END_OF_CHAIN == -1
RESERVED_BLOCK == -3
FILE_TYPE == 0
DIRECTORY_TYPE == 1
CACHE_NOTREADY == 0
CACHE_READY == 1
CACHE_DIRTY == 2

VARIABLES
    fat,            \* block -> 0 if free, or the next of its chain
    dir,            \* the directory table
    data,           \* block -> offset -> byte
    cached_files,   \* the list of cached files
    freed,          \* cached_files points to memory that has been freed
    handles,        \* the open handles, and where they point
    op,             \* the echfs_uread or echfs_uwrite under way
    misread,        \* whether the byte read last was not what had been written
    files,          \* history: what programs have written, path -> bytes
    status          \* "ok", or what the kernel came to, see below

vars == <<fat, dir, data, cached_files, freed, handles, op, misread, files, status>>
disk == <<fat, dir, data>>

(***************************************************************************)
(* status is "hung" when a loop never ends, "overrun" when a search has    *)
(* left the table it searches, "freed" when memory is used that has been   *)
(* freed, "dropped" when a tick has dropped a transfer, and "twins" when a *)
(* directory was given the id of another.  Nothing is done after that.     *)
(***************************************************************************)
Statuses == {"ok", "hung", "overrun", "freed", "dropped", "twins"}

Slots == 0 .. DirSize - 1
Blocks == 0 .. NBlocks - 1
Offsets == 0 .. BYTES_PER_BLOCK - 1
Zeros == [k \in Offsets |-> 0]

DirEntry(parent, type, name, payload, size) ==
    [parent_id |-> parent, type |-> type, name |-> name, payload |-> payload,
     size |-> size]

Empty == DirEntry(0, FILE_TYPE, "", 0, 0)
Deleted == DirEntry(DELETED_ENTRY, FILE_TYPE, "", 0, 0)

Last(p) == p[Len(p)]

\* So many blocks hold so many bytes.
BlockCount(size) == (size + BYTES_PER_BLOCK - 1) \div BYTES_PER_BLOCK

Idle == [type |-> "none", handle |-> 0, left |-> 0, loc |-> 0]
NoHandle == [free |-> TRUE, path |-> <<>>, ptr |-> 0, begin |-> 0, end |-> 0,
             current |-> FALSE]

\* A disk with one file in the root, or none.
Init ==
    /\ \E p \in {q \in FilePaths : Len(q) = 1}, size \in InitSizes, exists \in BOOLEAN :
          LET used == IF exists THEN Reserved .. Reserved + BlockCount(size) - 1 ELSE {}
              last == Reserved + BlockCount(size) - 1
          IN
          /\ dir = [s \in Slots |-> IF s = 0 /\ exists
                THEN DirEntry(ROOT_ID, FILE_TYPE, Last(p),
                              IF size = 0 THEN END_OF_CHAIN ELSE Reserved, size)
                ELSE Empty]
          /\ fat = [b \in Blocks |->
                CASE b < Reserved -> RESERVED_BLOCK
                  [] b \in used -> IF b = last THEN END_OF_CHAIN ELSE b + 1
                  [] OTHER -> 0]
          /\ files = [q \in IF exists THEN {p} ELSE {} |-> [k \in 1 .. size |-> 0]]
    /\ data = [b \in Blocks |-> Zeros]
    /\ cached_files = <<>> /\ freed = FALSE
    /\ handles = [h \in 1 .. MaxHandles |-> NoHandle]
    /\ op = Idle /\ misread = FALSE
    /\ status = "ok"

----------------------------------------------------------------------------
(* The directory *)

SEARCH_FAILURE == -1

\* Entries before the first that has never been used.
Seen == {s \in Slots : \A t \in 0 .. s : dir[t].parent_id # 0}

Matches(name, parent, type) ==
    {s \in Seen : /\ dir[s].parent_id = parent
                  /\ dir[s].type = type
                  /\ dir[s].name = name}

search(name, parent, type) ==
    LET found == Matches(name, parent, type)
    IN  IF found = {} THEN SEARCH_FAILURE
        ELSE CHOOSE s \in found : \A t \in found : s <= t

\* The id of the directory the first k names of p lead to, 0 if there is none
\* (path_resolver's failure).
ParentId(p, k) ==
    LET id[j \in 0 .. Len(p)] ==
            IF j = 0 THEN ROOT_ID
            ELSE LET s == search(p[j], id[j - 1], DIRECTORY_TYPE)
                 IN  IF id[j - 1] = 0 \/ s = SEARCH_FAILURE THEN 0 ELSE dir[s].payload
    IN  id[k]

Parent(p) == ParentId(p, Len(p) - 1)
Failure(p) == Parent(p) = 0
Target(p, type) == IF Failure(p) THEN SEARCH_FAILURE ELSE search(Last(p), Parent(p), type)
Found(p, type) == Target(p, type) # SEARCH_FAILURE

\* The entries of directories.
DirSlots == {s \in Seen : dir[s].type = DIRECTORY_TYPE}

\* Mutant: an id that is taken.
GetFreeIdOne == 1

\* get_free_id: one pass over the entries.
GetFreeId ==
    LET id[i \in 0 .. DirSize] ==
            IF i = 0 THEN 1
            ELSE IF /\ i - 1 \in Seen /\ dir[i - 1].type = DIRECTORY_TYPE
                    /\ dir[i - 1].payload = id[i - 1]
            THEN id[i - 1] + 1 ELSE id[i - 1]
    IN  id[DirSize]

\* "find empty entry"
EmptySlots(d) == {s \in Slots : d[s].parent_id \in {0, DELETED_ENTRY}}
EmptySlot(d) == CHOOSE s \in EmptySlots(d) : \A t \in EmptySlots(d) : s <= t

\* The entry echfs_create writes, in a directory d.
WithFile(d, p) ==
    [d EXCEPT ![EmptySlot(d)] =
        DirEntry(Parent(p), FILE_TYPE, Last(p), END_OF_CHAIN, 0)]

----------------------------------------------------------------------------
(* Chains and cached files *)

\* The blocks from b to the end of the chain; the alloc_map of a cached file
\* (without the END_OF_CHAIN it ends in).
Chain(f, b) ==
    LET nth[k \in 0 .. NBlocks] ==
            IF k = 0 THEN b
            ELSE IF nth[k - 1] \in Blocks THEN f[nth[k - 1]] ELSE nth[k - 1]
        len == CHOOSE k \in 0 .. NBlocks :
                  nth[k] \notin Blocks /\ \A j \in 0 .. k - 1 : nth[j] \in Blocks
    IN  [k \in 1 .. len |-> nth[k - 1]]

\* A cached file that has just been added to the list.
NewCached(d, f, p, s) ==
    [path |-> p, entry |-> s, size |-> d[s].size,
     alloc_map |-> Chain(f, d[s].payload),
     cached_block |-> 0, cache |-> Zeros, cache_status |-> CACHE_NOTREADY]

CachedAt(p) == {c \in DOMAIN cached_files : cached_files[c].path = p}
Cached(p) == CachedAt(p) # {}
CachedFile(p) == cached_files[CHOOSE c \in CachedAt(p) : TRUE]

\* The list with a cached file replaced.
Updated(rec) ==
    [c \in DOMAIN cached_files |->
        IF cached_files[c].path = rec.path THEN rec ELSE cached_files[c]]

\* The list grows and so is moved: the handles point into freed memory.  What
\* else such a handle holds is forgotten, for to read or write by it is an end.
Moved == [h \in DOMAIN handles |-> [NoHandle EXCEPT !.free = handles[h].free]]

\* Mutant: the block that is replaced is dropped.
LoadDrops(rec, blk, d, st) ==
    [data |-> d,
     rec |-> [rec EXCEPT !.cache = d[rec.alloc_map[blk + 1]],
                         !.cached_block = blk, !.cache_status = st]]

\* "write possible dirty cache", "copy block in cache": the medium and the
\* cached file after that.
Load(rec, blk, d, st) ==
    LET flushed == IF rec.cache_status = CACHE_DIRTY
                   THEN [d EXCEPT ![rec.alloc_map[rec.cached_block + 1]] = rec.cache]
                   ELSE d
    IN  [data |-> flushed,
         rec |-> [rec EXCEPT !.cache = flushed[rec.alloc_map[blk + 1]],
                             !.cached_block = blk, !.cache_status = st]]

InCache(rec, blk) == rec.cache_status # CACHE_NOTREADY /\ rec.cached_block = blk

\* The medium and the cached file once its block is in the cache.
Fetched(rec, loc) ==
    LET blk == loc \div BYTES_PER_BLOCK
    IN  IF InCache(rec, blk) THEN [data |-> data, rec |-> rec]
        ELSE Load(rec, blk, data, CACHE_READY)

Byte(rec, loc) == rec.cache[loc % BYTES_PER_BLOCK]

----------------------------------------------------------------------------
(* Writing a byte: echfs_uwritebyte, and echfs_write after its search *)

FreeBlocks(f) == {b \in Blocks : f[b] = 0}
FreeBlock(f) == CHOOSE b \in FreeBlocks(f) : \A c \in FreeBlocks(f) : b <= c

\* Mutant: the new block is not linked to the chain.
ExtendedUnlinked(map, k, new) ==
    LET b == FreeBlock(fat)
    IN  [fat |-> [fat EXCEPT ![b] = END_OF_CHAIN], map |-> Append(map, b)]

\* Blocks k .. new - 1 of a file: each is searched for and linked to the one
\* before it, and the last is marked as the end.
Extended(map, k, new) ==
    LET ext[j \in k .. new] ==
            IF j = k THEN [fat |-> fat, map |-> SubSeq(map, 1, k)]
            ELSE LET b == FreeBlock(ext[j - 1].fat)
                     m == ext[j - 1].map
                 IN  [fat |-> IF j = 1 THEN ext[0].fat
                              ELSE [ext[j - 1].fat EXCEPT ![m[j - 1]] = b],
                      map |-> Append(m, b)]
    IN  [fat |-> [ext[new].fat EXCEPT ![ext[new].map[new]] = END_OF_CHAIN],
         map |-> ext[new].map]

\* What a write at loc does: the tables, the medium and the cached file.
Written(rec, loc, byte) ==
    LET k == BlockCount(rec.size)
        new == BlockCount(loc + 1)
        size == IF loc >= rec.size THEN loc + 1 ELSE rec.size
        blk == loc \div BYTES_PER_BLOCK
        ext == IF new > k THEN Extended(rec.alloc_map, k, new)
                          ELSE [fat |-> fat, map |-> rec.alloc_map]
        zeroed == [b \in Blocks |->
                      IF \E j \in k + 1 .. Len(ext.map) : ext.map[j] = b
                      THEN Zeros ELSE data[b]]
        grown == [rec EXCEPT !.size = size, !.alloc_map = ext.map]
        there == IF InCache(grown, blk)
                 THEN [data |-> zeroed, rec |-> [grown EXCEPT !.cache_status = CACHE_DIRTY]]
                 ELSE Load(grown, blk, zeroed, CACHE_DIRTY)
    IN  [fat |-> ext.fat, data |-> there.data,
         rec |-> [there.rec EXCEPT !.cache[loc % BYTES_PER_BLOCK] = byte]]

\* The free blocks suffice.
RoomFor(rec, loc) ==
    BlockCount(loc + 1) > BlockCount(rec.size) =>
        BlockCount(loc + 1) - BlockCount(rec.size) <= Cardinality(FreeBlocks(fat))

\* The entry of a file on disk, from its cached file.
EntryOf(rec) ==
    [dir[rec.entry] EXCEPT
        !.size = rec.size,
        !.payload = IF rec.alloc_map = <<>> THEN END_OF_CHAIN ELSE rec.alloc_map[1]]

\* A write that programs make.
Allowed(rec, loc) ==
    /\ loc < MaxSize
    /\ Gaps \/ BlockCount(loc + 1) <= BlockCount(rec.size) + 1

----------------------------------------------------------------------------
(* The operations *)

Ready == status = "ok" /\ op = Idle

\* The history when p is created or truncated, removed, or written to.
Emptied(p) == [q \in DOMAIN files \cup {p} |-> IF q = p THEN <<>> ELSE files[q]]
Without(p) == [q \in DOMAIN files \ {p} |-> files[q]]
Changed(p, loc, byte) ==
    [files EXCEPT ![p] =
        [k \in DOMAIN @ \cup 1 .. loc + 1 |->
            IF k = loc + 1 THEN byte ELSE IF k \in DOMAIN @ THEN @[k] ELSE 0]]

\* The kernel comes to a bad end.
Ends(st) ==
    /\ status' = st
    /\ UNCHANGED <<disk, cached_files, freed, handles, op, misread, files>>

\* vfs_kmkdir and echfs_mkdir.  get_free_id stops only at an entry that has
\* never been used.
Mkdir(p) ==
    /\ Ready
    /\ ~Found(p, DIRECTORY_TYPE)
    /\ BadPaths \/ ~Failure(p)
    /\ IF Seen = Slots THEN Ends("overrun")
       ELSE /\ dir' = [dir EXCEPT ![EmptySlot(dir)] =
                 IF Failure(p) THEN DirEntry(0, DIRECTORY_TYPE, "", GetFreeId, 0)
                 ELSE DirEntry(Parent(p), DIRECTORY_TYPE, Last(p), GetFreeId, 0)]
            /\ status' = IF \E s \in DirSlots : dir[s].payload = GetFreeId
                         THEN "twins" ELSE "ok"
            /\ UNCHANGED <<fat, data, cached_files, freed, handles, op, misread, files>>

\* vfs_kcreate and echfs_create.
Create(p) ==
    /\ Ready
    /\ ~Found(p, FILE_TYPE) /\ ~Failure(p)
    /\ IF EmptySlots(dir) = {} THEN Ends("overrun")
       ELSE /\ dir' = WithFile(dir, p)
            /\ files' = Emptied(p)
            /\ UNCHANGED <<fat, data, cached_files, freed, handles, op, misread, status>>

\* Mutant: the entry goes, the blocks stay.
RemovedKeepsBlocks(s, map) == [fat |-> fat, dir |-> [dir EXCEPT ![s] = Deleted]]

\* The tables without a file.
Removed(s, map) ==
    [fat |-> [b \in Blocks |-> IF \E k \in DOMAIN map : map[k] = b THEN 0 ELSE fat[b]],
     dir |-> [dir EXCEPT ![s] = Deleted]]

\* echfs_remove of a file that is not cached.
RemoveUncached(p) ==
    /\ Ready
    /\ ~freed \/ cached_files = <<>>
    /\ ~Cached(p)
    /\ BadPaths \/ ~Failure(p)
    /\ IF Failure(p) THEN Ends("hung")
       ELSE /\ Found(p, FILE_TYPE)
            /\ LET s == Target(p, FILE_TYPE)
                   r == Removed(s, Chain(fat, dir[s].payload))
               IN  fat' = r.fat /\ dir' = r.dir
            /\ files' = Without(p)
            /\ UNCHANGED <<data, cached_files, freed, handles, op, misread, status>>

\* The list without a cached file, those after it shifted down.
Shifted(c) ==
    [i \in 1 .. Len(cached_files) - 1 |-> cached_files[IF i < c THEN i ELSE i + 1]]

\* echfs_remove of a cached file: the list is shifted, and freed by a krealloc
\* whose result is not kept.
RemoveCached(p) ==
    /\ Ready
    /\ ~freed
    /\ Cached(p)
    /\ LET rec == CachedFile(p)
           r == Removed(rec.entry, Chain(fat, EntryOf(rec).payload))
       IN  fat' = r.fat /\ dir' = r.dir
    /\ cached_files' = Shifted(CHOOSE c \in CachedAt(p) : TRUE)
    /\ freed' = TRUE
    /\ files' = Without(p)
    /\ handles' = Moved
    /\ UNCHANGED <<data, op, misread, status>>

\* The search for a cached file reads the list, or krealloc reads the metadata
\* in front of it.
UsesFreed == Ready /\ freed /\ Ends("freed")

\* echfs_read and echfs_write of a path that is not found: the loop that caches
\* the allocation map starts at block 0, which is reserved, and meets no end.
Missing(p) == ~Cached(p) /\ ~Found(p, FILE_TYPE)
Lost == BadPaths /\ Ends("hung")

\* The cached file of p, which is added to the list if it is not there.
Looked(p) ==
    IF Cached(p) THEN CachedFile(p) ELSE NewCached(dir, fat, p, Target(p, FILE_TYPE))

\* vfs_kread and echfs_read.  Past the end there is nothing to fetch.
ReadFound(p, loc) ==
    /\ LET rec == Looked(p)
           f == IF loc < rec.size THEN Fetched(rec, loc) ELSE [data |-> data, rec |-> rec]
       IN  /\ data' = f.data
           /\ misread' = (loc < rec.size /\ Byte(f.rec, loc) # files[p][loc + 1])
           /\ IF Cached(p)
              THEN cached_files' = Updated(f.rec) /\ UNCHANGED handles
              ELSE cached_files' = Append(cached_files, f.rec) /\ handles' = Moved
    /\ UNCHANGED <<fat, dir, freed, op, files, status>>

ReadByPath(p, loc) ==
    /\ Ready /\ ~freed
    /\ IF Missing(p) THEN Lost ELSE ReadFound(p, loc)

\* vfs_kwrite and echfs_write.
WriteFound(p, loc, byte) ==
    /\ LET rec == Looked(p)
       IN  /\ Allowed(rec, loc)
           /\ IF ~RoomFor(rec, loc) THEN Ends("overrun")
              ELSE LET w == Written(rec, loc, byte)
                   IN  /\ fat' = w.fat /\ data' = w.data
                       /\ dir' = [dir EXCEPT ![rec.entry] = EntryOf(w.rec)]
                       /\ IF Cached(p)
                          THEN cached_files' = Updated(w.rec) /\ UNCHANGED handles
                          ELSE /\ cached_files' = Append(cached_files, w.rec)
                               /\ handles' = Moved
                       /\ files' = Changed(p, loc, byte)
                       /\ UNCHANGED <<freed, op, misread, status>>

WriteByPath(p, loc, byte) ==
    /\ Ready /\ ~freed
    /\ IF Missing(p) THEN Lost ELSE WriteFound(p, loc, byte)

----------------------------------------------------------------------------
(* Handles *)

FreeHandles == {h \in DOMAIN handles : handles[h].free}
MayOpen == Cardinality(FreeHandles) > MaxHandles - MaxOpen
FreeHandle == CHOOSE h \in FreeHandles : \A g \in FreeHandles : h <= g

\* echfs_open of a file whose entry is, by now, entry s of directory table d.
Opened(d, f, p, s, append) ==
    LET at == IF append THEN d[s].size ELSE 0
        new == [free |-> FALSE, path |-> p, ptr |-> at, begin |-> at,
                end |-> d[s].size, current |-> TRUE]
    IN
    /\ dir' = d /\ fat' = f
    /\ IF Cached(p)
       THEN /\ handles' = [handles EXCEPT ![FreeHandle] = new]
            /\ UNCHANGED cached_files
       ELSE /\ handles' = [Moved EXCEPT ![FreeHandle] = new]
            /\ cached_files' = Append(cached_files, NewCached(d, f, p, s))
    /\ UNCHANGED <<data, freed, op, misread, status>>

OpenExisting(p, append) ==
    /\ Ready /\ ~freed /\ MayOpen
    /\ Found(p, FILE_TYPE)
    /\ Opened(dir, fat, p, Target(p, FILE_TYPE), append)
    /\ UNCHANGED files

\* O_CREAT.
OpenNew(p) ==
    /\ Ready /\ ~freed /\ MayOpen
    /\ ~Found(p, FILE_TYPE) /\ ~Failure(p)
    /\ IF EmptySlots(dir) = {} THEN Ends("overrun")
       ELSE /\ Opened(WithFile(dir, p), fat, p, EmptySlot(dir), FALSE)
            /\ files' = Emptied(p)

\* O_TRUNC removes the file and creates it again.  If it was cached that frees
\* the list, which the rest of echfs_open then uses.
OpenTruncated(p) ==
    /\ Ready /\ ~freed /\ MayOpen
    /\ Found(p, FILE_TYPE)
    /\ IF Cached(p) THEN Ends("freed")
       ELSE LET s == Target(p, FILE_TYPE)
                r == Removed(s, Chain(fat, dir[s].payload))
            IN  /\ Opened(WithFile(r.dir, p), r.fat, p, EmptySlot(r.dir), FALSE)
                /\ files' = Emptied(p)

Close(h) ==
    /\ Ready
    /\ ~handles[h].free
    /\ handles' = [handles EXCEPT ![h] = NoHandle]
    /\ UNCHANGED <<disk, cached_files, freed, op, misread, files, status>>

Fork(h) ==
    /\ Ready /\ FreeHandles # {}
    /\ ~handles[h].free
    /\ handles' = [handles EXCEPT ![FreeHandle] = handles[h]]
    /\ UNCHANGED <<disk, cached_files, freed, op, misread, files, status>>

\* echfs_seek, which refuses what is not between begin and end.
Seek(h, to) ==
    /\ Ready
    /\ ~handles[h].free
    /\ to \in handles[h].begin .. handles[h].end
    /\ handles' = [handles EXCEPT ![h].ptr = to]
    /\ UNCHANGED <<disk, cached_files, freed, op, misread, files, status>>

\* echfs_uread and echfs_uwrite begin.
Begin(type, h, len) ==
    /\ Ready
    /\ ~handles[h].free
    /\ IF ~handles[h].current THEN Ends("freed")
       ELSE /\ op' = [type |-> type, handle |-> h, left |-> len,
                      loc |-> handles[h].ptr]
            /\ UNCHANGED <<disk, cached_files, freed, handles, misread, files, status>>

\* A byte has been done, cur_loc++.
Next1 == [op EXCEPT !.left = @ - 1, !.loc = @ + 1]

\* echfs_ureadbyte.
UreadByte ==
    LET p == handles[op.handle].path
        f == Fetched(CachedFile(p), op.loc)
    IN
    /\ status = "ok" /\ op.type = "read" /\ op.left > 0
    /\ op.loc < handles[op.handle].end
    /\ data' = f.data
    /\ cached_files' = Updated(f.rec)
    /\ misread' = (Byte(f.rec, op.loc) # files[p][op.loc + 1])
    /\ op' = Next1
    /\ UNCHANGED <<fat, dir, freed, handles, files, status>>

\* echfs_uwritebyte.
UwriteByte(byte) ==
    LET rec == CachedFile(handles[op.handle].path)
    IN
    /\ status = "ok" /\ op.type = "write" /\ op.left > 0
    /\ Allowed(rec, op.loc)
    /\ IF ~RoomFor(rec, op.loc) THEN Ends("overrun")
       ELSE LET w == Written(rec, op.loc, byte)
            IN  /\ fat' = w.fat /\ data' = w.data
                /\ cached_files' = Updated(w.rec)
                /\ op' = Next1
                /\ files' = Changed(rec.path, op.loc, byte)
                /\ UNCHANGED <<dir, freed, handles, misread, status>>

\* The end of echfs_uread.
UreadDone ==
    /\ status = "ok" /\ op.type = "read"
    /\ op.left = 0 \/ op.loc >= handles[op.handle].end
    /\ handles' = [handles EXCEPT ![op.handle].ptr = op.loc]
    /\ op' = Idle
    /\ UNCHANGED <<disk, cached_files, freed, misread, files, status>>

\* Mutant: the entry on disk is not brought up to date.
UwriteDoneNoEntry ==
    /\ status = "ok" /\ op.type = "write"
    /\ op.left = 0 \/ op.loc >= MaxSize
    /\ handles' = [handles EXCEPT ![op.handle].ptr = op.loc]
    /\ op' = Idle
    /\ UNCHANGED <<disk, cached_files, freed, misread, files, status>>

\* The end of echfs_uwrite, which writes the entry.
UwriteDone ==
    LET rec == CachedFile(handles[op.handle].path)
    IN
    /\ status = "ok" /\ op.type = "write"
    /\ op.left = 0 \/ op.loc >= MaxSize
    /\ dir' = [dir EXCEPT ![rec.entry] = EntryOf(rec)]
    /\ handles' = [handles EXCEPT ![op.handle].ptr = op.loc]
    /\ op' = Idle
    /\ UNCHANGED <<fat, data, cached_files, freed, misread, files, status>>

\* A tick comes in the disk driver while the scheduler repeats a transfer.
\* (What that does to the caches of the driver and of a partition is in
\* DiskCache and in Part.)
Abandoned == status = "ok" /\ op # Idle /\ Ends("dropped")

ByPath(p) ==
    \/ Create(p) \/ RemoveUncached(p) \/ RemoveCached(p)
    \/ OpenNew(p) \/ OpenTruncated(p)
    \/ \E append \in BOOLEAN : OpenExisting(p, append)
    \/ \E loc \in 0 .. MaxSize - 1 :
          ReadByPath(p, loc) \/ \E byte \in Payloads : WriteByPath(p, loc, byte)

ByHandle(h) ==
    \/ Close(h) \/ Fork(h)
    \/ \E to \in 0 .. MaxSize : Seek(h, to)
    \/ \E type \in {"read", "write"}, len \in Lens : Begin(type, h, len)

Next ==
    \/ \E p \in FilePaths : ByPath(p)
    \/ \E p \in DirPaths : Mkdir(p)
    \/ \E h \in DOMAIN handles : ByHandle(h)
    \/ UreadByte \/ UreadDone \/ UwriteDone
    \/ \E byte \in Payloads : UwriteByte(byte)
    \/ UsesFreed \/ Abandoned

Spec == Init /\ [][Next]_vars

----------------------------------------------------------------------------

\* Every variable has its type.
TypeOK ==
    /\ fat \in [Blocks -> Blocks \cup {RESERVED_BLOCK, END_OF_CHAIN}]
    /\ data \in [Blocks -> [Offsets -> Bytes]]
    /\ \A s \in Slots :
          /\ dir[s].type \in {FILE_TYPE, DIRECTORY_TYPE}
          /\ dir[s].parent_id \in {ROOT_ID, DELETED_ENTRY} \cup 0 .. DirSize
          /\ dir[s].size \in 0 .. MaxSize
    /\ \A c \in DOMAIN cached_files :
          /\ cached_files[c].entry \in Slots
          /\ \A k \in DOMAIN cached_files[c].alloc_map :
                cached_files[c].alloc_map[k] \in Blocks
          /\ cached_files[c].cache_status \in {CACHE_NOTREADY, CACHE_READY, CACHE_DIRTY}
    /\ \A h \in DOMAIN handles : handles[h].ptr \in 0 .. MaxSize
    /\ misread \in BOOLEAN /\ status \in Statuses

\* The entries of files, and what they are at present: a file that is being
\* written has its size and its first block in its cached file only.
FileSlots == {s \in Seen : dir[s].type = FILE_TYPE /\ dir[s].parent_id # DELETED_ENTRY}
CachedSlot(s) == {c \in DOMAIN cached_files : cached_files[c].entry = s}
Present(s) ==
    IF CachedSlot(s) = {} THEN dir[s]
    ELSE EntryOf(cached_files[CHOOSE c \in CachedSlot(s) : TRUE])
Used(s) == {Chain(fat, Present(s).payload)[k] : k \in DOMAIN Chain(fat, Present(s).payload)}

\* "find empty block", "write end of chain" (echfs.c): however files grow, are
\* truncated and removed, each chain has as many blocks as the file's size
\* calls for, no two files share a block, and the blocks in use are exactly
\* those of some file.
ChainsSound ==
    status = "ok" =>
        /\ \A s \in FileSlots :
              /\ Len(Chain(fat, Present(s).payload)) = BlockCount(Present(s).size)
              /\ Cardinality(Used(s)) = BlockCount(Present(s).size)
              /\ \A t \in FileSlots \ {s} : Used(s) \cap Used(t) = {}
        /\ UNION {Used(s) : s \in FileSlots} = {b \in Blocks : b >= Reserved /\ fat[b] # 0}

\* "cache the allocation map" (echfs.c): what is cached of a file when it is
\* first used stays true of the tables on disk, whatever is done to it and to
\* other files, by path or through handles.
CachedFilesTrue ==
    status = "ok" =>
        \A c \in DOMAIN cached_files :
            LET rec == cached_files[c]
            IN  /\ Target(rec.path, FILE_TYPE) = rec.entry
                /\ rec.alloc_map = Chain(fat, EntryOf(rec).payload)
                /\ op.type # "write" => EntryOf(rec) = dir[rec.entry]

\* The directory is a tree in which a path names one entry: entries have an
\* existing directory for a parent, names are unique within it, and no entry
\* is hidden behind one that was removed ("check if past last entry", echfs.c).
TreeShape ==
    status = "ok" =>
        /\ \A s, t \in FileSlots \cup DirSlots :
              /\ dir[s].parent_id = ROOT_ID
                 \/ \E u \in DirSlots : dir[u].payload = dir[s].parent_id
              /\ s # t => <<dir[s].parent_id, dir[s].type, dir[s].name>>
                             # <<dir[t].parent_id, dir[t].type, dir[t].name>>
        /\ \A s \in Slots \ Seen : dir[s] = Empty

\* get_free_id makes one pass: no two directories have one id as long as ids
\* grow from entry to entry, that is until a directory takes the place of a
\* removed file in front of another.
IdsApart ==
    (\A s, t \in DirSlots : s < t => dir[s].payload <= dir[t].payload) =>
        \A s, t \in DirSlots : dir[s].payload = dir[t].payload => s = t

\* A path names one entry: the shape of the tree, and ids that tell its
\* directories apart.
TreeSound == TreeShape /\ IdsApart

\* "returns unique entry #" (search, echfs.c): two paths never lead to one
\* file.
PathsApart ==
    \A p, q \in FilePaths :
        Found(p, FILE_TYPE) /\ Target(p, FILE_TYPE) = Target(q, FILE_TYPE) => p = q

\* The bytes of a file as its users see them.
Contents(p) ==
    LET s == Target(p, FILE_TYPE)
        rec == IF Cached(p) THEN CachedFile(p) ELSE NewCached(dir, fat, p, s)
    IN  [k \in 1 .. rec.size |->
            LET blk == (k - 1) \div BYTES_PER_BLOCK
            IN  IF InCache(rec, blk) THEN Byte(rec, k - 1)
                ELSE data[rec.alloc_map[blk + 1]][(k - 1) % BYTES_PER_BLOCK]]

\* A file reads back as it was written: every byte that a read returns, by
\* path or through a handle (up to the end the file had when it was opened,
\* for echfs_uwrite does not move it), with its bytes in a cache or on the
\* device, and whatever became of the blocks of files removed before ("copy
\* block in cache", echfs.c).
FilesReadBack ==
    status = "ok" =>
        /\ ~misread
        /\ DOMAIN files = {p \in FilePaths : Found(p, FILE_TYPE)}
        /\ \A p \in DOMAIN files : Contents(p) = files[p]
=============================================================================
