---------------------------- MODULE EchfsProofs ----------------------------
(***************************************************************************)
(* What Echfs guarantees for every device, every set of paths and every    *)
(* number of handles.                                                      *)
(***************************************************************************)
EXTENDS Echfs, WellFoundedInduction, SequenceTheorems, FiniteSetTheorems, TLAPS

(***************************************************************************)
(* The directory.                                                          *)
(***************************************************************************)

AllPaths == FilePaths \cup DirPaths
Names == {""} \cup UNION {{p[k] : k \in DOMAIN p} : p \in AllPaths}
Types == {FILE_TYPE, DIRECTORY_TYPE}

EntryRecs ==
    [parent_id : Int, type : Types, name : Names, payload : Int, size : Nat]

Live(s) == dir[s].parent_id \notin {0, DELETED_ENTRY}
IsDir(s) == dir[s].type = DIRECTORY_TYPE
IsFile(s) == Live(s) /\ dir[s].type = FILE_TYPE

\* An id that a directory has.
DirId(id) == id = ROOT_ID \/ \E u \in Slots : IsDir(u) /\ dir[u].payload = id

SameName(s, t) ==
    /\ dir[s].parent_id = dir[t].parent_id
    /\ dir[s].type = dir[t].type
    /\ dir[s].name = dir[t].name

TreeInv ==
    /\ dir \in [Slots -> EntryRecs]
    /\ \A s, t \in Slots : s <= t /\ dir[s].parent_id = 0 => dir[t] = Empty
    /\ \A s \in Slots : IsDir(s) => Live(s) /\ dir[s].payload >= 1
    /\ \A s \in Slots : Live(s) => DirId(dir[s].parent_id)
    /\ \A s, t \in Slots : Live(s) /\ SameName(s, t) => s = t
    /\ \A s, t \in Slots : IsDir(s) /\ IsDir(t) /\ dir[s].payload = dir[t].payload => s = t

\* Entry s is where the path p leads.
At(p, type, s) ==
    /\ Parent(p) # 0
    /\ s \in Slots
    /\ dir[s].parent_id = Parent(p)
    /\ dir[s].type = type
    /\ dir[s].name = Last(p)

(***************************************************************************)
(* Files, as whoever looks them up sees them: from their cached file, or   *)
(* from the one that would be made of what is on disk.                     *)
(***************************************************************************)

Data == Reserved .. NBlocks - 1
Statuses3 == {CACHE_NOTREADY, CACHE_READY, CACHE_DIRTY}

CachedRecs ==
    [path : FilePaths, entry : Slots, size : Nat, alloc_map : Seq(Data),
     cached_block : Nat, cache : [Offsets -> Bytes], cache_status : Statuses3]

\* The blocks of m, each linked to the next in the table f.
Chained(m, f) ==
    /\ \A i, j \in DOMAIN m : m[i] = m[j] => i = j
    /\ \A i \in DOMAIN m : f[m[i]] = IF i = Len(m) THEN END_OF_CHAIN ELSE m[i + 1]

First(m) == IF m = <<>> THEN END_OF_CHAIN ELSE m[1]

Has(rec, b) == \E k \in DOMAIN rec.alloc_map : rec.alloc_map[k] = b

Sound(rec, f, d) ==
    /\ rec \in CachedRecs
    /\ Chained(rec.alloc_map, f)
    /\ Len(rec.alloc_map) = BlockCount(rec.size)
    /\ rec.cache_status # CACHE_NOTREADY => rec.cached_block < Len(rec.alloc_map)
    /\ rec.cache_status = CACHE_READY =>
          rec.cache = d[rec.alloc_map[rec.cached_block + 1]]

\* The byte at loc: in the cache, or on the device.
Seen1(rec, d, loc) ==
    LET blk == loc \div BYTES_PER_BLOCK
    IN  IF InCache(rec, blk) THEN Byte(rec, loc)
        ELSE d[rec.alloc_map[blk + 1]][loc % BYTES_PER_BLOCK]

\* A file holds these bytes, and zeros in the rest of its last block.
Holds(rec, d, bytes) ==
    /\ bytes \in [1 .. rec.size -> Bytes]
    /\ \A loc \in Nat :
          loc \div BYTES_PER_BLOCK < Len(rec.alloc_map) =>
              Seen1(rec, d, loc) = IF loc < rec.size THEN bytes[loc + 1] ELSE 0

ViewsInv(V, f, d, fs) ==
    /\ f \in [Blocks -> Int] /\ d \in [Blocks -> [Offsets -> Bytes]]
    /\ V = [p \in DOMAIN fs |-> V[p]]
    /\ fs = [p \in DOMAIN fs |-> fs[p]]
    /\ \A p \in DOMAIN fs : Sound(V[p], f, d) /\ Holds(V[p], d, fs[p])
    /\ \A p, q \in DOMAIN fs : p # q => \A b \in Blocks : ~(Has(V[p], b) /\ Has(V[q], b))
    /\ \A b \in Blocks :
          IF b < Reserved THEN f[b] = RESERVED_BLOCK
          ELSE f[b] # 0 <=> \E p \in DOMAIN fs : Has(V[p], b)

\* The files programs know of are those of the directory, each by its path, and
\* directories have a path.
Placed(V) ==
    /\ DOMAIN files \subseteq FilePaths
    /\ \A p \in DOMAIN files : V[p].path = p /\ At(p, FILE_TYPE, V[p].entry)
    /\ \A s \in Slots : IsFile(s) => \E p \in DOMAIN files : V[p].entry = s
    /\ \A s \in Slots : IsDir(s) => \E q \in DirPaths : At(q, DIRECTORY_TYPE, s)

Fresh(rec) ==
    rec.cached_block = 0 /\ rec.cache = Zeros /\ rec.cache_status = CACHE_NOTREADY

\* The list has at most one cached file for a path, and it is what is seen.
Caches(V) ==
    /\ cached_files \in Seq(CachedRecs)
    /\ \A c, e \in DOMAIN cached_files : cached_files[c].path = cached_files[e].path => c = e
    /\ \A c \in DOMAIN cached_files :
          /\ cached_files[c].path \in DOMAIN files
          /\ cached_files[c] = V[cached_files[c].path]
    /\ \A p \in DOMAIN files : ~Cached(p) => Fresh(V[p])

\* The file that is being written to, whose entry is written at the end.
Writing(p) == op.type = "write" /\ handles[op.handle].path = p

Entries(V) ==
    \A p \in DOMAIN files :
        ~Writing(p) => /\ dir[V[p].entry].size = V[p].size
                       /\ dir[V[p].entry].payload = First(V[p].alloc_map)

HandleRecs ==
    [free : BOOLEAN, path : FilePaths \cup {<<>>}, ptr : Nat, begin : Nat, end : Nat,
     current : BOOLEAN]
OpRecs == [type : {"none", "read", "write"}, handle : Nat, left : Nat, loc : Nat]

HandlesInv(V) ==
    /\ handles \in [1 .. MaxHandles -> HandleRecs]
    /\ \A h \in DOMAIN handles : handles[h].current =>
          /\ handles[h].path \in DOMAIN files
          /\ Cached(handles[h].path)
          /\ handles[h].end <= V[handles[h].path].size
    /\ op \in OpRecs
    /\ op.type # "none" => op.handle \in DOMAIN handles /\ handles[op.handle].current

\* V is what the files are.
Are(V) ==
    /\ TreeInv
    /\ Placed(V) /\ Caches(V) /\ Entries(V) /\ HandlesInv(V)
    /\ ViewsInv(V, fat, data, files)
    /\ ~misread

\* The inductive invariant: until the kernel comes to a bad end there is one
\* record for each file that the directory, the allocation table, the list of
\* cached files, the handles and the history agree on.
EchfsInv ==
    /\ status \in Statuses
    /\ status = "ok" => \E V : Are(V)

(***************************************************************************)
(* Numbers.                                                                *)
(***************************************************************************)

\* Induction, for a set in place of a predicate.
LEMMA Induction ==
    ASSUME NEW n \in Nat, NEW S, 0 \in S, \A k \in 0 .. n - 1 : k \in S => k + 1 \in S
    PROVE  0 .. n \subseteq S
<1> DEFINE R == OpToRel(<, Nat)
           T == {k \in 0 .. n : k \notin S}
<1>1. IsWellFoundedOn(R, Nat)
  BY NatLessThanWellFounded, Zenon
<1> SUFFICES ASSUME T # {} PROVE FALSE
  OBVIOUS
<1>2. T \subseteq Nat
  OBVIOUS
<1>3. \E e \in T : \A y \in T : <<y, e>> \notin R
  <2> HIDE DEF R, T
  <2> QED
    BY <1>1, <1>2, WFMin
<1>4. PICK e \in T : \A y \in T : <<y, e>> \notin R
  BY <1>3
<1>5. \A y \in T : ~(y < e)
  BY <1>2, <1>4 DEF OpToRel
<1>6. e # 0 /\ e - 1 \in 0 .. n - 1 /\ e - 1 \notin T
  BY <1>5
<1> QED
  BY <1>6

\* A function given by its first value and each next one exists.
LEMMA Recursion ==
    ASSUME NEW n \in Nat, NEW a \in Int, NEW G \in [1 .. n -> [Int -> Int]]
    PROVE  \E f \in [0 .. n -> Int] : f[0] = a /\ \A k \in 1 .. n : f[k] = G[k][f[k - 1]]
<1> DEFINE Upto(m, f) == f[0] = a /\ \A k \in 1 .. m : f[k] = G[k][f[k - 1]]
           Some(m) == \E f \in [0 .. m -> Int] : Upto(m, f)
           T == {m \in 0 .. n : Some(m)}
<1>1. Some(0)
  <2>1. [k \in 0 .. 0 |-> a] \in [0 .. 0 -> Int] /\ Upto(0, [k \in 0 .. 0 |-> a])
    OBVIOUS
  <2> QED
    BY <2>1
<1>2. ASSUME NEW m \in 0 .. n - 1, Some(m) PROVE Some(m + 1)
  <2>1. PICK f \in [0 .. m -> Int] : Upto(m, f)
    BY <1>2
  <2> DEFINE x == G[m + 1][f[m]]
             g == [k \in 0 .. m + 1 |-> IF k = m + 1 THEN x ELSE f[k]]
  <2>3. x \in Int
    OBVIOUS
  <2>4. g \in [0 .. m + 1 -> Int]
    BY <2>3
  <2>5. g[0] = a
    BY <2>1
  <2>6. ASSUME NEW k \in 1 .. m + 1 PROVE g[k] = G[k][g[k - 1]]
    <3>1. g[k - 1] = f[k - 1]
      OBVIOUS
    <3>2. CASE k = m + 1
      BY <3>1, <3>2
    <3>3. CASE k \in 1 .. m
      BY <2>1, <3>1, <3>3
    <3> QED
      BY <3>2, <3>3
  <2> QED
    BY <2>4, <2>5, <2>6
<1>3. 0 .. n \subseteq T
  <2> HIDE DEF Some
  <2>1. 0 \in T /\ \A m \in 0 .. n - 1 : m \in T => m + 1 \in T
    BY <1>1, <1>2
  <2> HIDE DEF T
  <2> QED
    BY <2>1, Induction
<1>4. Some(n)
  <2> HIDE DEF Some
  <2> QED
    BY <1>3
<1> QED
  BY <1>4

\* Quotient and remainder.
LEMMA Divided ==
    ASSUME NEW a \in Nat, NEW b \in Nat, b > 0
    PROVE  a \div b \in Nat /\ a % b \in 0 .. b - 1 /\ a = (a \div b) * b + (a % b)
  OBVIOUS

\* The block and the offset of a byte.
LEMMA BlockFacts ==
    ASSUME NEW loc \in Nat
    PROVE  /\ loc \div BYTES_PER_BLOCK \in Nat /\ loc % BYTES_PER_BLOCK \in Offsets
           /\ loc = (loc \div BYTES_PER_BLOCK) * BYTES_PER_BLOCK + (loc % BYTES_PER_BLOCK)
<1>1. BYTES_PER_BLOCK \in Nat /\ BYTES_PER_BLOCK > 0
  BY EchfsAssumption
<1> QED
  BY <1>1, Divided DEF Offsets

\* A block and an offset are those of one byte.
LEMMA SameLoc ==
    ASSUME NEW x \in Nat, NEW y \in Nat, x \div BYTES_PER_BLOCK = y \div BYTES_PER_BLOCK,
           x % BYTES_PER_BLOCK = y % BYTES_PER_BLOCK
    PROVE  x = y
<1>1. x = (x \div BYTES_PER_BLOCK) * BYTES_PER_BLOCK + (x % BYTES_PER_BLOCK)
  BY BlockFacts, Zenon
<1>2. y = (y \div BYTES_PER_BLOCK) * BYTES_PER_BLOCK + (y % BYTES_PER_BLOCK)
  BY BlockFacts, Zenon
<1> QED
  BY <1>1, <1>2, Zenon

\* The blocks of a file that grows by a byte.
LEMMA CountFacts ==
    ASSUME NEW size \in Nat
    PROVE  /\ BlockCount(size) \in Nat
           /\ BlockCount(size + 1) = size \div BYTES_PER_BLOCK + 1
           /\ BlockCount(0) = 0
<1> DEFINE B == BYTES_PER_BLOCK
<1>1. B \in Nat /\ B > 0
  BY EchfsAssumption
<1> HIDE DEF B
<1>2. (size + B) \div B = size \div B + 1
  BY <1>1
<1>3. (size + B - 1) \div B \in Nat
  BY <1>1
<1>4. (B - 1) \div B = 0
  BY <1>1
<1> QED
  BY <1>1, <1>2, <1>3, <1>4 DEF BlockCount, B

\* More bytes take no fewer blocks.
LEMMA CountMonotone ==
    ASSUME NEW m \in Nat, NEW n \in Nat, m <= n
    PROVE  BlockCount(m) <= BlockCount(n)
<1> DEFINE B == BYTES_PER_BLOCK
<1>1. B \in Nat /\ B > 0
  BY EchfsAssumption
<1> HIDE DEF B
<1>2. (m + B - 1) \div B <= (n + B - 1) \div B
  BY <1>1
<1> QED
  BY <1>2 DEF BlockCount, B

(***************************************************************************)
(* Chains.                                                                 *)
(***************************************************************************)

\* What the assumption says of the numbers.
LEMMA Constants ==
    /\ NBlocks \in Nat /\ Reserved \in Nat /\ 1 <= Reserved /\ Reserved <= NBlocks
    /\ DirSize \in Nat /\ DirSize > 0 /\ BYTES_PER_BLOCK \in Nat /\ BYTES_PER_BLOCK > 0
    /\ 0 \in Bytes /\ Payloads \subseteq Bytes
    /\ Data \subseteq Blocks /\ Blocks \subseteq Nat /\ 0 \notin Data
  BY EchfsAssumption DEF Data, Blocks

\* Blocks that are all different are at most as many as there are.
LEMMA ChainFits ==
    ASSUME NEW m \in Seq(Data), \A i, j \in DOMAIN m : m[i] = m[j] => i = j
    PROVE  Len(m) \in Nat /\ Len(m) <= NBlocks
<1>1. Len(m) \in Nat /\ m \in [1 .. Len(m) -> Data] /\ DOMAIN m = 1 .. Len(m)
  BY LenProperties
<1>2. IsFiniteSet(Blocks) /\ Cardinality(Blocks) = NBlocks
  BY FS_Interval, Constants DEF Blocks
<1>3. IsFiniteSet(1 .. Len(m)) /\ Cardinality(1 .. Len(m)) = Len(m)
  BY <1>1, FS_Interval
<1>4. m \in [1 .. Len(m) -> Blocks]
  BY <1>1, Constants
<1>5. ~(NBlocks < Len(m))
  BY <1>1, <1>2, <1>3, <1>4, FS_PigeonHole
<1> QED
  BY <1>1, <1>5, Constants

\* What the loop over the table finds is the one sequence of blocks that are
\* linked.
LEMMA ChainOf ==
    ASSUME NEW f \in [Blocks -> Int], NEW L \in 0 .. NBlocks, NEW m \in [1 .. L -> Data],
           \A i \in 1 .. L : f[m[i]] = IF i = L THEN END_OF_CHAIN ELSE m[i + 1],
           NEW b \in Int, b = IF L = 0 THEN END_OF_CHAIN ELSE m[1]
    PROVE  Chain(f, b) = m
<1>1. L \in Nat /\ L <= NBlocks /\ NBlocks \in Nat
  BY Constants
<1>2. \A x \in Data : x \in Blocks
  BY Constants
<1> DEFINE Nth(x) == IF x \in Blocks THEN f[x] ELSE x
           P(h) == h = [k \in 0 .. NBlocks |-> IF k = 0 THEN b
                        ELSE IF h[k - 1] \in Blocks THEN f[h[k - 1]] ELSE h[k - 1]]
<1>3. \E h : P(h)
  <2> DEFINE G == [k \in 1 .. NBlocks |-> [x \in Int |-> Nth(x)]]
  <2>1. G \in [1 .. NBlocks -> [Int -> Int]]
    OBVIOUS
  <2>2. PICK h \in [0 .. NBlocks -> Int] :
           h[0] = b /\ \A k \in 1 .. NBlocks : h[k] = G[k][h[k - 1]]
    <3> HIDE DEF G
    <3> QED
      BY <2>1, <1>1, <1>2, Recursion
  <2>3. ASSUME NEW k \in 1 .. NBlocks PROVE h[k] = Nth(h[k - 1])
    <3>1. h[k - 1] \in Int /\ G[k] = [x \in Int |-> Nth(x)]
      BY <1>1
    <3>2. G[k][h[k - 1]] = Nth(h[k - 1])
      BY <3>1
    <3> QED
      BY <2>2, <3>2
  <2>4. P(h)
    BY <2>2, <2>3
  <2> QED
    BY <2>4
<1> DEFINE nth == CHOOSE h : P(h)
<1>4. P(nth)
  <2> HIDE DEF P
  <2> QED
    BY <1>3
<1> HIDE DEF nth
<1>5. /\ nth[0] = b
      /\ \A k \in 1 .. NBlocks : nth[k] = IF nth[k - 1] \in Blocks THEN f[nth[k - 1]] ELSE nth[k - 1]
  BY <1>4, <1>1, <1>2
<1>6. \A k \in 0 .. L : nth[k] = IF k < L THEN m[k + 1] ELSE END_OF_CHAIN
  <2> DEFINE S == {k \in 0 .. L : nth[k] = IF k < L THEN m[k + 1] ELSE END_OF_CHAIN}
  <2>1. 0 \in S
    BY <1>5
  <2>2. ASSUME NEW k \in 0 .. L - 1, k \in S PROVE k + 1 \in S
    <3>1. nth[k] = m[k + 1] /\ k + 1 \in DOMAIN m /\ m[k + 1] \in Blocks
      BY <2>2, <1>1, <1>2
    <3>2. nth[k + 1] = f[m[k + 1]]
      BY <1>1, <1>5, <3>1
    <3>3. f[m[k + 1]] = IF k + 1 = L THEN END_OF_CHAIN ELSE m[k + 2]
      BY <3>1
    <3> QED
      BY <3>2, <3>3
  <2>3. 0 .. L \subseteq S
    <3> HIDE DEF S
    <3> QED
      BY <1>1, <2>1, <2>2, Induction
  <2> QED
    BY <2>3
<1> DEFINE Q(k) == nth[k] \notin Blocks /\ \A j \in 0 .. k - 1 : nth[j] \in Blocks
           len == CHOOSE k \in 0 .. NBlocks : Q(k)
<1>7. Q(L) /\ L \in 0 .. NBlocks
  <2>1. nth[L] \notin Blocks
    BY <1>6 DEF END_OF_CHAIN, Blocks
  <2>2. ASSUME NEW j \in 0 .. L - 1 PROVE nth[j] \in Blocks
    BY <1>6, <1>1, <1>2
  <2> QED
    BY <2>1, <2>2
<1>8. len = L
  <2>1. Q(len) /\ len \in 0 .. NBlocks
    <3> HIDE DEF Q
    <3> QED
      BY <1>7
  <2> HIDE DEF len
  <2>2. ~(len < L) /\ ~(L < len)
    BY <1>7, <2>1
  <2> QED
    BY <2>1, <2>2
<1>9. Chain(f, b) = [k \in 1 .. len |-> nth[k - 1]]
  BY DEF Chain, nth
<1>10. [k \in 1 .. L |-> nth[k - 1]] = m
  BY <1>6
<1> QED
  BY <1>8, <1>9, <1>10

\* The chain that begins at the first of some linked blocks is they.
LEMMA ChainIs ==
    ASSUME NEW f \in [Blocks -> Int], NEW m \in Seq(Data), Chained(m, f)
    PROVE  Chain(f, First(m)) = m
<1>1. PICK L \in 0 .. NBlocks : L = Len(m) /\ m \in [1 .. L -> Data] /\ DOMAIN m = 1 .. L
  BY ChainFits, LenProperties, Constants DEF Chained
<1>2. PICK g \in [1 .. L -> Data] : g = m
  BY <1>1
<1>3. m = <<>> <=> L = 0
  BY <1>1, EmptySeq
<1>4. PICK b \in Int : b = First(m) /\ b = IF L = 0 THEN END_OF_CHAIN ELSE m[1]
  BY <1>1, <1>3, Constants DEF First, END_OF_CHAIN, Data
<1>5. \A i \in 1 .. L : f[g[i]] = IF i = L THEN END_OF_CHAIN ELSE g[i + 1]
  BY <1>1, <1>2 DEF Chained
<1>6. b = IF L = 0 THEN END_OF_CHAIN ELSE g[1]
  BY <1>2, <1>4
<1>7. Chain(f, b) = g
  BY <1>5, <1>6, ChainOf
<1> QED
  BY <1>2, <1>4, <1>7

(***************************************************************************)
(* The directory: searches and paths.                                      *)
(***************************************************************************)

\* A set of numbers that is not empty has a least one.
LEMMA Least ==
    ASSUME NEW S, S \subseteq Nat, S # {}
    PROVE  /\ (CHOOSE s \in S : \A t \in S : s <= t) \in S
           /\ \A t \in S : (CHOOSE s \in S : \A u \in S : s <= u) <= t
<1> DEFINE R == OpToRel(<, Nat)
<1>1. IsWellFoundedOn(R, Nat)
  BY NatLessThanWellFounded, Zenon
<1>2. \E e \in S : \A y \in S : <<y, e>> \notin R
  <2> HIDE DEF R
  <2> QED
    BY <1>1, WFMin
<1>3. PICK e \in S : \A y \in S : <<y, e>> \notin R
  BY <1>2
<1>4. \A y \in S : ~(y < e)
  BY <1>3 DEF OpToRel
<1>5. \A y \in S : e <= y
  BY <1>4
<1> QED
  BY <1>5

\* A path is a sequence of names.
LEMMA PathFacts ==
    ASSUME NEW p \in AllPaths
    PROVE  /\ Len(p) \in Nat /\ Len(p) > 0
           /\ p \in [1 .. Len(p) -> Names] /\ p \in Seq(Names)
           /\ Last(p) \in Names
<1>1. p \in Seq({p[k] : k \in DOMAIN p}) /\ p # <<>>
  BY EchfsAssumption DEF AllPaths
<1>2. {p[k] : k \in DOMAIN p} \subseteq Names
  BY DEF Names
<1>3. p \in Seq(Names)
  BY <1>1, <1>2, SeqMonotonic
<1>4. Len(p) \in Nat \ {0} /\ p \in [1 .. Len(p) -> Names]
  BY <1>1, <1>3, LenProperties, EmptySeq
<1> QED
  BY <1>3, <1>4 DEF Last

\* A failed search gives no entry.
LEMMA SlotFacts == Slots \subseteq Nat /\ 0 \in Slots /\ SEARCH_FAILURE \notin Slots
  BY Constants DEF Slots, SEARCH_FAILURE

\* The fields of an entry.
LEMMA EntryFacts ==
    ASSUME NEW parent \in Int, NEW type \in Types, NEW name \in Names, NEW payload \in Int,
           NEW size \in Nat
    PROVE  LET e == DirEntry(parent, type, name, payload, size)
           IN  /\ e \in EntryRecs
               /\ e.parent_id = parent /\ e.type = type /\ e.name = name
               /\ e.payload = payload /\ e.size = size
  BY DEF DirEntry, EntryRecs

\* Entries that are no file and no directory.
LEMMA EmptyFacts ==
    /\ Empty.parent_id = 0 /\ Empty.type = FILE_TYPE /\ Empty \in EntryRecs
    /\ Deleted.parent_id = DELETED_ENTRY /\ Deleted.type = FILE_TYPE /\ Deleted \in EntryRecs
<1>1. FILE_TYPE \in Types /\ DELETED_ENTRY \in Int
  BY DEF Types, DELETED_ENTRY
<1>2. PICK n \in Names : n = ""
  BY DEF Names
<1>3. /\ Empty = DirEntry(0, FILE_TYPE, n, 0, 0)
      /\ Deleted = DirEntry(DELETED_ENTRY, FILE_TYPE, n, 0, 0)
  BY <1>2 DEF Empty, Deleted
<1>4. Empty.parent_id = 0 /\ Empty.type = FILE_TYPE /\ Empty \in EntryRecs
  BY <1>1, <1>3, EntryFacts
<1>5. Deleted.parent_id = DELETED_ENTRY /\ Deleted.type = FILE_TYPE /\ Deleted \in EntryRecs
  BY <1>1, <1>3, EntryFacts
<1> QED
  BY <1>4, <1>5

\* Entries are used from the first on.
LEMMA SeenIs ==
    ASSUME TreeInv
    PROVE  Seen = {s \in Slots : dir[s].parent_id # 0}
<1>1. ASSUME NEW s \in Slots, dir[s].parent_id # 0, NEW t \in 0 .. s, dir[t].parent_id = 0
      PROVE  FALSE
  <2>1. t \in Slots /\ t <= s
    BY Constants DEF Slots
  <2>2. dir[s] = Empty
    BY <1>1, <2>1 DEF TreeInv
  <2> QED
    BY <1>1, <2>2, EmptyFacts
<1>2. ASSUME NEW s \in Seen PROVE s \in Slots /\ dir[s].parent_id # 0
  BY SlotFacts DEF Seen, Slots
<1> QED
  BY <1>1, <1>2 DEF Seen

Match(s, name, parent, type) ==
    dir[s].parent_id = parent /\ dir[s].type = type /\ dir[s].name = name

\* What a search finds has the name that was searched for.
LEMMA SearchIs ==
    ASSUME TreeInv, NEW name, NEW parent, parent # 0, NEW type
    PROVE  \/ /\ search(name, parent, type) \in Slots
              /\ Match(search(name, parent, type), name, parent, type)
           \/ /\ search(name, parent, type) = SEARCH_FAILURE
              /\ \A s \in Slots : ~Match(s, name, parent, type)
<1> DEFINE F == Matches(name, parent, type)
<1>1. F = {s \in Slots : Match(s, name, parent, type)}
  BY SeenIs DEF Matches, Match
<1>2. F \subseteq Nat
  BY <1>1, SlotFacts
<1> HIDE DEF F
<1>3. CASE F = {}
  BY <1>1, <1>3 DEF search, F
<1>4. CASE F # {}
  <2>1. search(name, parent, type) \in F
    BY <1>2, <1>4, Least DEF search, F
  <2> QED
    BY <1>1, <2>1
<1> QED
  BY <1>3, <1>4

\* An id a path may lead to.
LEMMA ParentIdStep ==
    ASSUME TreeInv, NEW p \in AllPaths
    PROVE  /\ ParentId(p, 0) = ROOT_ID
           /\ \A k \in 1 .. Len(p) :
                 ParentId(p, k) =
                    LET id == ParentId(p, k - 1)
                        s == search(p[k], id, DIRECTORY_TYPE)
                    IN  IF id = 0 \/ s = SEARCH_FAILURE THEN 0 ELSE dir[s].payload
<1> DEFINE n == Len(p)
           Up(k, id) == LET s == search(p[k], id, DIRECTORY_TYPE)
                        IN  IF id = 0 \/ s = SEARCH_FAILURE THEN 0 ELSE dir[s].payload
           P(h) == h = [j \in 0 .. Len(p) |->
                        IF j = 0 THEN ROOT_ID
                        ELSE LET s == search(p[j], h[j - 1], DIRECTORY_TYPE)
                             IN  IF h[j - 1] = 0 \/ s = SEARCH_FAILURE THEN 0
                                 ELSE dir[s].payload]
<1>1. n \in Nat
  BY PathFacts
<1>2. ASSUME NEW k \in 1 .. n, NEW id \in Int PROVE Up(k, id) \in Int
  <2>1. CASE id = 0
    BY <2>1
  <2>2. CASE id # 0
    <3>1. \/ search(p[k], id, DIRECTORY_TYPE) = SEARCH_FAILURE
          \/ search(p[k], id, DIRECTORY_TYPE) \in Slots
      BY <2>2, SearchIs
    <3>2. \A s \in Slots : dir[s].payload \in Int
      BY DEF TreeInv, EntryRecs
    <3> QED
      BY <3>1, <3>2
  <2> QED
    BY <2>1, <2>2
<1> HIDE DEF n
<1>3. \E h : P(h)
  <2> DEFINE G == [k \in 1 .. n |-> [id \in Int |-> Up(k, id)]]
  <2>1. G \in [1 .. n -> [Int -> Int]]
    <3> HIDE DEF Up
    <3> QED
      BY <1>2
  <2>2. PICK h \in [0 .. n -> Int] :
           h[0] = ROOT_ID /\ \A k \in 1 .. n : h[k] = G[k][h[k - 1]]
    <3> HIDE DEF G
    <3>1. ROOT_ID \in Int
      BY DEF ROOT_ID
    <3> QED
      BY <1>1, <2>1, <3>1, Recursion
  <2>3. ASSUME NEW k \in 1 .. n PROVE h[k] = Up(k, h[k - 1])
    <3> HIDE DEF Up
    <3>1. h[k - 1] \in Int /\ G[k] = [id \in Int |-> Up(k, id)]
      BY <1>1
    <3>2. G[k][h[k - 1]] = Up(k, h[k - 1])
      BY <3>1
    <3> QED
      BY <2>2, <3>2
  <2>4. P(h)
    BY <2>2, <2>3 DEF n
  <2> QED
    BY <2>4
<1> DEFINE ids == CHOOSE h : P(h)
<1>4. P(ids)
  <2> HIDE DEF P
  <2> QED
    BY <1>3
<1>5. \A k \in 0 .. n : ParentId(p, k) = ids[k]
  BY DEF ParentId
<1> HIDE DEF ids
<1>6. ids[0] = ROOT_ID /\ \A k \in 1 .. n : ids[k] = Up(k, ids[k - 1])
  BY <1>1, <1>4 DEF n
<1> QED
  BY <1>1, <1>5, <1>6 DEF n

\* A step of path_resolver: from a directory to one in it, or nowhere.
LEMMA ParentIdCases ==
    ASSUME TreeInv, NEW p \in AllPaths, NEW k \in 1 .. Len(p)
    PROVE  \/ /\ ParentId(p, k) = 0
              /\ \/ ParentId(p, k - 1) = 0
                 \/ \A u \in Slots : ~Match(u, p[k], ParentId(p, k - 1), DIRECTORY_TYPE)
           \/ /\ ParentId(p, k - 1) # 0
              /\ \E u \in Slots : /\ Match(u, p[k], ParentId(p, k - 1), DIRECTORY_TYPE)
                                  /\ ParentId(p, k) = dir[u].payload
<1> DEFINE id == ParentId(p, k - 1)
           s == search(p[k], id, DIRECTORY_TYPE)
<1>1. ParentId(p, k) = IF id = 0 \/ s = SEARCH_FAILURE THEN 0 ELSE dir[s].payload
  BY ParentIdStep
<1>2. CASE id = 0
  BY <1>1, <1>2
<1>3. CASE id # 0
  <2>1. \/ s \in Slots /\ Match(s, p[k], id, DIRECTORY_TYPE)
        \/ s = SEARCH_FAILURE /\ \A u \in Slots : ~Match(u, p[k], id, DIRECTORY_TYPE)
    BY <1>3, SearchIs
  <2>2. s \in Slots => s # SEARCH_FAILURE
    BY SlotFacts
  <2> HIDE DEF s, id
  <2> QED
    BY <1>1, <1>3, <2>1, <2>2 DEF id
<1> QED
  BY <1>2, <1>3

\* Ids are numbers, and only that of the root is negative.
LEMMA ParentIds ==
    ASSUME TreeInv, NEW p \in AllPaths, NEW k \in 0 .. Len(p)
    PROVE  /\ ParentId(p, k) \in Int
           /\ k = 0 => ParentId(p, k) = ROOT_ID
           /\ k # 0 => ParentId(p, k) >= 0
<1>1. CASE k = 0
  BY <1>1, ParentIdStep DEF ROOT_ID
<1>2. CASE k # 0
  <2>1. k \in 1 .. Len(p)
    BY <1>2, PathFacts
  <2>2. ParentId(p, k) = 0 \/ \E u \in Slots : IsDir(u) /\ ParentId(p, k) = dir[u].payload
    BY <2>1, ParentIdCases DEF Match, IsDir
  <2>3. \A u \in Slots : IsDir(u) => dir[u].payload \in Int /\ dir[u].payload >= 1
    BY DEF TreeInv, EntryRecs
  <2> QED
    BY <1>2, <2>2, <2>3
<1> QED
  BY <1>1, <1>2

\* No path leads into a deleted entry.
LEMMA Parents ==
    ASSUME TreeInv, NEW p \in AllPaths
    PROVE  Parent(p) \in Int /\ Parent(p) # DELETED_ENTRY
<1>1. Len(p) - 1 \in 0 .. Len(p)
  BY PathFacts
<1>2. ParentId(p, Len(p) - 1) \in Int /\ ParentId(p, Len(p) - 1) # DELETED_ENTRY
  BY <1>1, ParentIds DEF DELETED_ENTRY, ROOT_ID
<1> QED
  BY <1>2 DEF Parent

\* At most one entry is where a path leads, and it is what is found.
LEMMA TargetIs ==
    ASSUME TreeInv, NEW p \in AllPaths, NEW type \in Types
    PROVE  /\ Found(p, type) => At(p, type, Target(p, type))
           /\ \A s : At(p, type, s) => Found(p, type) /\ Target(p, type) = s
<1> DEFINE t == search(Last(p), Parent(p), type)
<1>1. CASE Parent(p) = 0
  BY <1>1 DEF Found, Target, Failure, At
<1>2. CASE Parent(p) # 0
  <2>1. Target(p, type) = t
    BY <1>2 DEF Target, Failure
  <2>2. \/ t \in Slots /\ Match(t, Last(p), Parent(p), type)
        \/ t = SEARCH_FAILURE /\ \A s \in Slots : ~Match(s, Last(p), Parent(p), type)
    BY <1>2, SearchIs
  <2> HIDE DEF t
  <2>3. ASSUME NEW s, At(p, type, s) PROVE t \in Slots /\ t = s
    <3>1. t \in Slots /\ Match(t, Last(p), Parent(p), type) /\ s \in Slots
      BY <2>2, <2>3 DEF At, Match
    <3>2. Live(s) /\ SameName(s, t)
      BY <1>2, <2>3, <3>1, Parents DEF At, Match, Live, SameName
    <3> QED
      BY <3>1, <3>2 DEF TreeInv
  <2> QED
    BY <1>2, <2>1, <2>2, <2>3, SlotFacts DEF Found, At, Match
<1> QED
  BY <1>1, <1>2

\* Paths that lead to the same directory are the same.
LEMMA SameParent ==
    ASSUME TreeInv, NEW p \in AllPaths, NEW q \in AllPaths
    PROVE  \A k \in 0 .. Len(p) : \A j \in 0 .. Len(q) :
              ParentId(p, k) = ParentId(q, j) /\ ParentId(p, k) # 0 =>
                  k = j /\ \A i \in 1 .. k : p[i] = q[i]
<1> DEFINE P(k) == \A j \in 0 .. Len(q) :
                      ParentId(p, k) = ParentId(q, j) /\ ParentId(p, k) # 0 =>
                          k = j /\ \A i \in 1 .. k : p[i] = q[i]
           S == {k \in 0 .. Len(p) : P(k)}
<1>0. Len(p) \in Nat /\ Len(q) \in Nat
  BY PathFacts
<1>1. P(0)
  <2> SUFFICES ASSUME NEW j \in 0 .. Len(q), ParentId(p, 0) = ParentId(q, j) PROVE j = 0
    BY <1>0
  <2> QED
    BY <1>0, ParentIds DEF ROOT_ID
<1>2. ASSUME NEW k \in 0 .. Len(p) - 1, P(k) PROVE P(k + 1)
  <2> SUFFICES ASSUME NEW j \in 0 .. Len(q), ParentId(p, k + 1) = ParentId(q, j),
                      ParentId(p, k + 1) # 0
               PROVE  k + 1 = j /\ \A i \in 1 .. k + 1 : p[i] = q[i]
    OBVIOUS
  <2>1. k + 1 \in 1 .. Len(p) /\ (k + 1) - 1 = k
    BY <1>0
  <2>2. j # 0
    BY <1>0, <2>1, ParentIds DEF ROOT_ID
  <2>3. j \in 1 .. Len(q) /\ j - 1 \in 0 .. Len(q)
    BY <1>0, <2>2
  <2>4. PICK u \in Slots : /\ Match(u, p[k + 1], ParentId(p, k), DIRECTORY_TYPE)
                           /\ ParentId(p, k + 1) = dir[u].payload /\ ParentId(p, k) # 0
    BY <2>1, ParentIdCases
  <2>5. PICK v \in Slots : /\ Match(v, q[j], ParentId(q, j - 1), DIRECTORY_TYPE)
                           /\ ParentId(q, j) = dir[v].payload
    BY <2>3, ParentIdCases
  <2>6. u = v
    BY <2>4, <2>5 DEF Match, IsDir, TreeInv
  <2>7. ParentId(p, k) = ParentId(q, j - 1) /\ p[k + 1] = q[j]
    BY <2>4, <2>5, <2>6 DEF Match
  <2>8. k = j - 1 /\ \A i \in 1 .. k : p[i] = q[i]
    BY <1>2, <2>3, <2>4, <2>7
  <2> QED
    BY <1>0, <2>3, <2>7, <2>8
<1>3. 0 .. Len(p) \subseteq S
  <2> HIDE DEF P
  <2>1. 0 \in S /\ \A k \in 0 .. Len(p) - 1 : k \in S => k + 1 \in S
    BY <1>0, <1>1, <1>2
  <2> HIDE DEF S
  <2> QED
    BY <1>0, <2>1, Induction
<1> QED
  BY <1>3

\* An entry has one path.
LEMMA SamePath ==
    ASSUME TreeInv, NEW p \in AllPaths, NEW q \in AllPaths, NEW type \in Types, NEW s,
           At(p, type, s), At(q, type, s)
    PROVE  p = q
<1>1. /\ Len(p) \in Nat /\ Len(p) > 0 /\ Len(q) \in Nat /\ Len(q) > 0
      /\ p \in Seq(Names) /\ q \in Seq(Names)
  BY PathFacts
<1>2. ParentId(p, Len(p) - 1) = ParentId(q, Len(q) - 1) /\ ParentId(p, Len(p) - 1) # 0
  BY DEF At, Parent
<1>3. Len(p) - 1 = Len(q) - 1 /\ \A i \in 1 .. Len(p) - 1 : p[i] = q[i]
  BY <1>1, <1>2, SameParent
<1>4. p[Len(p)] = q[Len(q)]
  BY DEF At, Last
<1>5. Len(p) = Len(q)
  BY <1>1, <1>3
<1>6. ASSUME NEW i \in 1 .. Len(p) PROVE p[i] = q[i]
  <2>1. i \in 1 .. Len(p) - 1 \/ i = Len(p)
    BY <1>1
  <2> QED
    BY <1>3, <1>4, <1>5, <2>1
<1> QED
  BY <1>1, <1>5, <1>6, SeqEqual

(***************************************************************************)
(* The directory: what changes of it.                                      *)
(***************************************************************************)

IdsOf(p, k) ==
    \/ /\ ParentId(p, k) = 0
       /\ \/ ParentId(p, k - 1) = 0
          \/ \A u \in Slots : ~Match(u, p[k], ParentId(p, k - 1), DIRECTORY_TYPE)
    \/ /\ ParentId(p, k - 1) # 0
       /\ \E u \in Slots : /\ Match(u, p[k], ParentId(p, k - 1), DIRECTORY_TYPE)
                           /\ ParentId(p, k) = dir[u].payload

\* The steps of path_resolver, for every path.
LEMMA IdsBefore ==
    TreeInv => \A p \in AllPaths : /\ ParentId(p, 0) = ROOT_ID
                                   /\ \A k \in 1 .. Len(p) : IdsOf(p, k)
<1> SUFFICES ASSUME TreeInv, NEW p \in AllPaths
             PROVE  ParentId(p, 0) = ROOT_ID /\ \A k \in 1 .. Len(p) : IdsOf(p, k)
  OBVIOUS
<1>1. ParentId(p, 0) = ROOT_ID
  BY ParentIdStep
<1>2. ASSUME NEW k \in 1 .. Len(p) PROVE IdsOf(p, k)
  BY ParentIdCases DEF IdsOf
<1> QED
  BY <1>1, <1>2

\* The same in the next state.
LEMMA IdsAfter ==
    TreeInv' => \A p \in AllPaths : /\ ParentId(p, 0)' = ROOT_ID
                                    /\ \A k \in 1 .. Len(p) : IdsOf(p, k)'
<1>1. (TreeInv => \A p \in AllPaths : /\ ParentId(p, 0) = ROOT_ID
                                      /\ \A k \in 1 .. Len(p) : IdsOf(p, k))'
  BY IdsBefore, PTL
<1> QED
  BY <1>1

TargetRight(p, type) ==
    /\ Found(p, type) => At(p, type, Target(p, type))
    /\ \A s : At(p, type, s) => Found(p, type) /\ Target(p, type) = s

\* What path_resolver finds, for every path.
LEMMA TargetBefore == TreeInv => \A p \in AllPaths : \A t \in Types : TargetRight(p, t)
  BY TargetIs DEF TargetRight

\* The same in the next state.
LEMMA TargetAfter == TreeInv' => \A p \in AllPaths : \A t \in Types : TargetRight(p, t)'
<1>1. (TreeInv => \A p \in AllPaths : \A t \in Types : TargetRight(p, t))'
  BY TargetBefore, PTL
<1> QED
  BY <1>1

\* Paths lead through directories, whatever becomes of files.
LEMMA SameDirs ==
    ASSUME TreeInv, TreeInv',
           \A s \in Slots : dir[s].type = DIRECTORY_TYPE \/ dir'[s].type = DIRECTORY_TYPE
                              => dir'[s] = dir[s],
           NEW p \in AllPaths
    PROVE  /\ \A k \in 0 .. Len(p) : ParentId(p, k)' = ParentId(p, k)
           /\ Parent(p)' = Parent(p)
<1> DEFINE S == {k \in 0 .. Len(p) : ParentId(p, k)' = ParentId(p, k)}
<1>0. Len(p) \in Nat /\ Len(p) > 0
  BY PathFacts
<1>1. 0 \in S
  BY <1>0, IdsBefore, IdsAfter
<1>2. ASSUME NEW k \in 0 .. Len(p) - 1, k \in S PROVE k + 1 \in S
  <2>1. k + 1 \in 1 .. Len(p) /\ (k + 1) - 1 = k /\ ParentId(p, k)' = ParentId(p, k)
    BY <1>0, <1>2
  <2>2. IdsOf(p, k + 1) /\ IdsOf(p, k + 1)'
    BY <2>1, IdsBefore, IdsAfter
  <2>3. \A u \in Slots : \A id :
           /\ Match(u, p[k + 1], id, DIRECTORY_TYPE)' <=> Match(u, p[k + 1], id, DIRECTORY_TYPE)
           /\ Match(u, p[k + 1], id, DIRECTORY_TYPE) => dir'[u].payload = dir[u].payload
    BY DEF Match
  <2>4. \A u, v \in Slots : \A id :
           /\ Match(u, p[k + 1], id, DIRECTORY_TYPE) /\ Match(v, p[k + 1], id, DIRECTORY_TYPE)
           => u = v
    BY DEF Match, TreeInv, SameName, IsDir
  <2>5. ParentId(p, k + 1)' = ParentId(p, k + 1)
    <3> DEFINE id == ParentId(p, k)
               M(u) == Match(u, p[k + 1], id, DIRECTORY_TYPE)
    <3>1. \/ ParentId(p, k + 1) = 0 /\ (id = 0 \/ \A u \in Slots : ~M(u))
          \/ id # 0 /\ \E u \in Slots : M(u) /\ ParentId(p, k + 1) = dir[u].payload
      BY <2>1, <2>2 DEF IdsOf
    <3>2. \/ ParentId(p, k + 1)' = 0 /\ (id = 0 \/ \A u \in Slots : ~M(u))
          \/ id # 0 /\ \E u \in Slots : M(u) /\ ParentId(p, k + 1)' = dir'[u].payload
      BY <2>1, <2>2, <2>3 DEF IdsOf
    <3>3. \A u, v \in Slots : M(u) /\ M(v) => u = v
      BY <2>4
    <3>4. \A u \in Slots : M(u) => dir'[u].payload = dir[u].payload
      BY <2>3
    <3> HIDE DEF M, id
    <3> QED
      BY <3>1, <3>2, <3>3, <3>4
  <2> QED
    BY <2>1, <2>5
<1>3. 0 .. Len(p) \subseteq S
  <2> HIDE DEF S
  <2> QED
    BY <1>0, <1>1, <1>2, Induction
<1>4. \A k \in 0 .. Len(p) : ParentId(p, k)' = ParentId(p, k)
  BY <1>3
<1>5. Len(p) - 1 \in 0 .. Len(p)
  BY <1>0
<1> QED
  BY <1>4, <1>5 DEF Parent

\* A path that leads somewhere leads into a directory.
LEMMA ParentIsDir ==
    ASSUME TreeInv, NEW p \in AllPaths, Parent(p) # 0
    PROVE  DirId(Parent(p))
<1>0. Len(p) \in Nat /\ Len(p) > 0
  BY PathFacts
<1>1. Len(p) - 1 \in Nat /\ (Len(p) - 1 = 0 \/ Len(p) - 1 \in 1 .. Len(p))
  <2>1. \A m \in Nat : m > 0 => m - 1 \in Nat /\ (m - 1 = 0 \/ m - 1 \in 1 .. m)
    OBVIOUS
  <2> QED
    BY <1>0, <2>1
<1>2. PICK n \in Nat : n = Len(p) - 1 /\ (n = 0 \/ n \in 1 .. Len(p))
  BY <1>1, Zenon
<1>3. CASE n = 0
  BY <1>2, <1>3, ParentIdStep DEF Parent, DirId
<1>4. CASE n # 0
  <2>1. \E u \in Slots : /\ Match(u, p[n], ParentId(p, n - 1), DIRECTORY_TYPE)
                         /\ ParentId(p, n) = dir[u].payload
    BY <1>2, <1>4, ParentIdCases DEF Parent
  <2> QED
    BY <1>2, <2>1 DEF Parent, DirId, Match, IsDir
<1> QED
  BY <1>3, <1>4

SameKey(s) ==
    /\ dir'[s].parent_id = dir[s].parent_id
    /\ dir'[s].type = dir[s].type
    /\ dir'[s].name = dir[s].name

\* Entry e, if it is one, becomes that of the file p, which no other is; files
\* are deleted, or keep their names.
FileChange(e, p) ==
    /\ dir' \in [Slots -> EntryRecs]
    /\ e \in Slots =>
          /\ Parent(p) # 0
          /\ dir'[e].parent_id = Parent(p) /\ dir'[e].type = FILE_TYPE
          /\ dir'[e].name = Last(p)
          /\ dir[e].type = FILE_TYPE
          /\ \A s \in Slots : dir[s].parent_id = 0 => e <= s
          /\ \A s \in Slots \ {e} : At(p, FILE_TYPE, s) => dir'[s] = Deleted
    /\ \A s \in Slots \ {e} :
          dir'[s] = dir[s] \/ (IsFile(s) /\ (dir'[s] = Deleted \/ SameKey(s)))

\* Changes of files keep the directory a tree, and lead no path elsewhere.
LEMMA FileTree ==
    ASSUME TreeInv, NEW p \in AllPaths, NEW e, FileChange(e, p)
    PROVE  /\ TreeInv'
           /\ \A q \in AllPaths : Parent(q)' = Parent(q)
<1>0. DELETED_ENTRY # 0 /\ FILE_TYPE # DIRECTORY_TYPE
  BY DEF DELETED_ENTRY, FILE_TYPE, DIRECTORY_TYPE
<1>1. \A s \in Slots : dir[s].type = DIRECTORY_TYPE \/ dir'[s].type = DIRECTORY_TYPE
                         => s # e /\ dir'[s] = dir[s]
  BY <1>0, EmptyFacts DEF FileChange, IsFile, SameKey
<1>2. \A s \in Slots \ {e} :
         \/ dir'[s] = Deleted
         \/ SameKey(s) /\ (Live(s) => Live(s)')
  BY DEF FileChange, SameKey, Live
<1>3. dir' \in [Slots -> EntryRecs]
  BY DEF FileChange
<1>4. ASSUME NEW s \in Slots, NEW t \in Slots, s <= t, dir'[s].parent_id = 0
      PROVE  dir'[t] = Empty
  <2>1. s # e /\ dir'[s] = dir[s]
    BY <1>0, <1>4, EmptyFacts DEF FileChange, IsFile, Live, SameKey
  <2>2. dir[t] = Empty
    BY <1>4, <2>1 DEF TreeInv
  <2>3. t # e
    <3> SUFFICES ASSUME t = e PROVE FALSE
      OBVIOUS
    <3>1. t <= s
      BY <1>4, <2>1 DEF FileChange
    <3> QED
      BY <1>4, <2>1, <3>1, SlotFacts
  <2> QED
    BY <2>2, <2>3, EmptyFacts DEF FileChange, IsFile, Live
<1>5. ASSUME NEW s \in Slots, IsDir(s)' PROVE Live(s)' /\ dir'[s].payload >= 1
  BY <1>1, <1>5 DEF TreeInv, IsDir, Live
<1>6. \A id : DirId(id) => DirId(id)'
  BY <1>1 DEF DirId, IsDir
<1>7. ASSUME NEW s \in Slots, Live(s)' PROVE DirId(dir[s].parent_id)'
  <2>1. CASE s = e
    <3>1. DirId(Parent(p)) /\ dir'[s].parent_id = Parent(p)
      BY <2>1, ParentIsDir DEF FileChange
    <3>2. PICK x : x = Parent(p)
      OBVIOUS
    <3>3. DirId(x)' /\ dir'[s].parent_id = x
      BY <1>6, <3>1, <3>2
    <3> QED
      BY <3>3 DEF DirId, IsDir
  <2>2. CASE s # e
    <3>1. dir'[s].parent_id = dir[s].parent_id /\ Live(s)
      BY <1>2, <1>7, <2>2, EmptyFacts DEF SameKey, Live
    <3>2. DirId(dir[s].parent_id)
      BY <3>1 DEF TreeInv
    <3>3. PICK x : x = dir[s].parent_id
      OBVIOUS
    <3>4. DirId(x)' /\ dir'[s].parent_id = x
      BY <1>6, <3>1, <3>2, <3>3
    <3> QED
      BY <3>4 DEF DirId, IsDir
  <2> QED
    BY <2>1, <2>2
<1>8. ASSUME NEW s \in Slots, NEW t \in Slots, Live(s)', SameName(s, t)' PROVE s = t
  <2>1. dir'[s].parent_id \notin {0, DELETED_ENTRY} /\ dir'[t].parent_id = dir'[s].parent_id
    BY <1>8 DEF Live, SameName
  <2>2. ASSUME NEW x \in Slots, x # e, e \in Slots, dir'[x].parent_id = dir'[e].parent_id,
               dir'[x].type = dir'[e].type, dir'[x].name = dir'[e].name,
               dir'[x].parent_id # DELETED_ENTRY
        PROVE  FALSE
    <3>1. SameKey(x) /\ dir'[x] # Deleted
      BY <1>2, <2>2, EmptyFacts
    <3>2. At(p, FILE_TYPE, x)
      BY <2>2, <3>1 DEF FileChange, At, SameKey
    <3> QED
      BY <2>2, <3>1, <3>2 DEF FileChange
  <2>3. CASE s = e \/ t = e
    BY <1>8, <2>1, <2>2, <2>3 DEF SameName
  <2>4. CASE s # e /\ t # e
    <3>1. SameKey(s) /\ SameKey(t)
      BY <1>2, <2>1, <2>4, EmptyFacts
    <3>2. Live(s) /\ SameName(s, t)
      BY <1>8, <3>1 DEF SameKey, Live, SameName
    <3> QED
      BY <3>2 DEF TreeInv
  <2> QED
    BY <2>3, <2>4
<1>9. ASSUME NEW s \in Slots, NEW t \in Slots, IsDir(s)', IsDir(t)',
             dir'[s].payload = dir'[t].payload
      PROVE  s = t
  BY <1>1, <1>9 DEF TreeInv, IsDir
<1>10. TreeInv'
  BY <1>3, <1>4, <1>5, <1>7, <1>8, <1>9 DEF TreeInv
<1> QED
  BY <1>1, <1>10, SameDirs

\* "find empty entry" gives an entry that is free, before all others.
LEMMA EmptySlotIs ==
    ASSUME TreeInv, EmptySlots(dir) # {}
    PROVE  /\ EmptySlot(dir) \in Slots
           /\ ~Live(EmptySlot(dir)) /\ dir[EmptySlot(dir)].type = FILE_TYPE
           /\ \A s \in Slots : ~Live(s) => EmptySlot(dir) <= s
<1>1. EmptySlots(dir) = {s \in Slots : ~Live(s)}
  BY DEF EmptySlots, Live
<1>2. /\ EmptySlot(dir) \in EmptySlots(dir)
      /\ \A s \in EmptySlots(dir) : EmptySlot(dir) <= s
  BY <1>1, SlotFacts, Least DEF EmptySlot
<1>3. dir[EmptySlot(dir)].type \in Types
  BY <1>1, <1>2 DEF TreeInv, EntryRecs
<1> QED
  BY <1>1, <1>2, <1>3 DEF TreeInv, IsDir, Types

\* Entry e becomes that of a directory, where no other is, with an id that no
\* other has.
DirChange(e, p) ==
    /\ dir' \in [Slots -> EntryRecs]
    /\ e \in Slots /\ ~Live(e)
    /\ \A s \in Slots : ~Live(s) => e <= s
    /\ Parent(p) # 0
    /\ dir'[e].parent_id = Parent(p) /\ dir'[e].type = DIRECTORY_TYPE
    /\ dir'[e].name = Last(p)
    /\ dir'[e].payload >= 1
    /\ \A s \in Slots : IsDir(s) => dir[s].payload # dir'[e].payload
    /\ \A s \in Slots : ~At(p, DIRECTORY_TYPE, s)
    /\ \A s \in Slots \ {e} : dir'[s] = dir[s]

\* A new directory with an id of its own keeps the directory a tree.
LEMMA DirTree ==
    ASSUME TreeInv, NEW p \in AllPaths, NEW e, DirChange(e, p)
    PROVE  TreeInv'
<1>1. Parent(p) \notin {0, DELETED_ENTRY} /\ DirId(Parent(p))
  BY Parents, ParentIsDir DEF DirChange
<1>2. \A s \in Slots : s # e => dir'[s] = dir[s]
  BY DEF DirChange
<1>3. \A s \in Slots : IsDir(s) => s # e
  BY DEF DirChange, TreeInv
<1>4. ASSUME NEW s \in Slots, NEW t \in Slots, s <= t, dir'[s].parent_id = 0
      PROVE  dir'[t] = Empty
  <2>1. s # e /\ dir[s].parent_id = 0
    BY <1>1, <1>2, <1>4 DEF DirChange
  <2>2. dir[t] = Empty
    BY <1>4, <2>1 DEF TreeInv
  <2>3. e <= s
    BY <2>1 DEF DirChange, Live
  <2>4. e \in Nat /\ s \in Nat /\ t \in Nat
    BY SlotFacts DEF DirChange
  <2>5. t # e
    BY <1>4, <2>1, <2>3, <2>4
  <2> QED
    BY <1>2, <2>2, <2>5
<1>5. ASSUME NEW s \in Slots, IsDir(s)' PROVE Live(s)' /\ dir'[s].payload >= 1
  BY <1>1, <1>2, <1>5 DEF TreeInv, IsDir, Live, DirChange
<1>6. \A id : DirId(id) => DirId(id)'
  BY <1>2, <1>3 DEF DirId, IsDir
<1>7. ASSUME NEW s \in Slots, Live(s)' PROVE DirId(dir[s].parent_id)'
  <2>1. PICK x : x = dir'[s].parent_id
    OBVIOUS
  <2>2. DirId(x)
    BY <1>1, <1>2, <1>7, <2>1 DEF DirChange, TreeInv, Live
  <2>3. DirId(x)'
    BY <1>6, <2>2
  <2> QED
    BY <2>1, <2>3 DEF DirId, IsDir
<1>8. ASSUME NEW s \in Slots, NEW t \in Slots, Live(s)', SameName(s, t)' PROVE s = t
  <2>1. ASSUME NEW x \in Slots, x # e, dir'[x].parent_id = dir'[e].parent_id,
               dir'[x].type = dir'[e].type, dir'[x].name = dir'[e].name
        PROVE  FALSE
    BY <1>2, <2>1 DEF DirChange, At
  <2>2. CASE s = e \/ t = e
    BY <1>8, <2>1, <2>2 DEF SameName
  <2>3. CASE s # e /\ t # e
    BY <1>2, <1>8, <2>3 DEF SameName, Live, TreeInv
  <2> QED
    BY <2>2, <2>3
<1>9. ASSUME NEW s \in Slots, NEW t \in Slots, IsDir(s)', IsDir(t)',
             dir'[s].payload = dir'[t].payload
      PROVE  s = t
  <2>1. CASE s = e \/ t = e
    BY <1>2, <1>9, <2>1 DEF DirChange, IsDir
  <2>2. CASE s # e /\ t # e
    BY <1>2, <1>9, <2>2 DEF TreeInv, IsDir
  <2> QED
    BY <2>1, <2>2
<1>10. dir' \in [Slots -> EntryRecs]
  BY DEF DirChange
<1> QED
  BY <1>4, <1>5, <1>7, <1>8, <1>9, <1>10 DEF TreeInv

\* A new directory leaves where the paths lead that led anywhere.
LEMMA NewDir ==
    ASSUME TreeInv, TreeInv', NEW p \in AllPaths, NEW e, DirChange(e, p), NEW q \in AllPaths
    PROVE  Parent(q) # 0 => Parent(q)' = Parent(q)
<1> DEFINE S == {k \in 0 .. Len(q) : ParentId(q, k) # 0 => ParentId(q, k)' = ParentId(q, k)}
<1>0. Len(q) \in Nat /\ Len(q) > 0
  BY PathFacts
<1>1. 0 \in S
  BY <1>0, IdsBefore, IdsAfter
<1>2. ASSUME NEW k \in 0 .. Len(q) - 1, k \in S PROVE k + 1 \in S
  <2>1. k + 1 \in 1 .. Len(q) /\ (k + 1) - 1 = k /\ k + 1 \in 0 .. Len(q)
    BY <1>0
  <2>2. IdsOf(q, k + 1) /\ IdsOf(q, k + 1)'
    BY <2>1, IdsBefore, IdsAfter
  <2> SUFFICES ASSUME ParentId(q, k + 1) # 0 PROVE ParentId(q, k + 1)' = ParentId(q, k + 1)
    BY <2>1
  <2>3. PICK u \in Slots : /\ Match(u, q[k + 1], ParentId(q, k), DIRECTORY_TYPE)
                           /\ ParentId(q, k + 1) = dir[u].payload /\ ParentId(q, k) # 0
    BY <2>1, <2>2 DEF IdsOf
  <2>4. PICK id : id = ParentId(q, k) /\ id = ParentId(q, k)' /\ id # 0
    BY <1>2, <2>3
  <2>5. u # e /\ dir'[u] = dir[u]
    BY <2>3 DEF DirChange, Match, IsDir, TreeInv
  <2>6. Match(u, q[k + 1], id, DIRECTORY_TYPE)'
    BY <2>3, <2>4, <2>5 DEF Match
  <2>7. \/ ParentId(q, k + 1)' = 0 /\ \A v \in Slots : ~Match(v, q[k + 1], id, DIRECTORY_TYPE)'
        \/ \E v \in Slots : /\ Match(v, q[k + 1], id, DIRECTORY_TYPE)'
                            /\ ParentId(q, k + 1)' = dir'[v].payload
    BY <2>1, <2>2, <2>4 DEF IdsOf, Match
  <2>8. PICK v \in Slots : /\ Match(v, q[k + 1], id, DIRECTORY_TYPE)'
                           /\ ParentId(q, k + 1)' = dir'[v].payload
    BY <2>6, <2>7
  <2>9. u = v
    BY <2>6, <2>8 DEF TreeInv, Match, SameName, IsDir
  <2> QED
    BY <2>3, <2>5, <2>8, <2>9
<1>3. 0 .. Len(q) \subseteq S
  <2> HIDE DEF S
  <2> QED
    BY <1>0, <1>1, <1>2, Induction
<1>4. Len(q) - 1 \in 0 .. Len(q)
  BY <1>0
<1> QED
  BY <1>3, <1>4 DEF Parent

\* The entries of files and of directories.
LEMMA SlotsAre ==
    ASSUME TreeInv
    PROVE  /\ FileSlots = {s \in Slots : IsFile(s)}
           /\ DirSlots = {s \in Slots : IsDir(s)}
           /\ \A s \in Slots : IsDir(s) => Live(s)
<1>1. Seen = {s \in Slots : dir[s].parent_id # 0}
  BY SeenIs
<1>2. \A s \in Slots : IsDir(s) => Live(s)
  BY DEF TreeInv
<1>3. FileSlots = {s \in Slots : IsFile(s)}
  BY <1>1 DEF FileSlots, IsFile, Live
<1>4. DirSlots = {s \in Slots : IsDir(s)}
  BY <1>1, <1>2 DEF DirSlots, IsDir, Live
<1> QED
  BY <1>2, <1>3, <1>4

\* What the pass of get_free_id makes of the entries before the i-th.
LEMMA FreeIds ==
    ASSUME TreeInv
    PROVE  \E id \in [0 .. DirSize -> Int] :
              /\ id[0] = 1
              /\ \A i \in 1 .. DirSize :
                    id[i] = IF IsDir(i - 1) /\ dir[i - 1].payload = id[i - 1]
                            THEN id[i - 1] + 1 ELSE id[i - 1]
              /\ GetFreeId = id[DirSize]
<1> DEFINE Up(i, x) == IF IsDir(i - 1) /\ dir[i - 1].payload = x THEN x + 1 ELSE x
           P(h) == h = [i \in 0 .. DirSize |->
                        IF i = 0 THEN 1
                        ELSE IF /\ i - 1 \in Seen /\ dir[i - 1].type = DIRECTORY_TYPE
                                /\ dir[i - 1].payload = h[i - 1]
                        THEN h[i - 1] + 1 ELSE h[i - 1]]
           G == [k \in 1 .. DirSize |-> [x \in Int |-> Up(k, x)]]
<1>1. DirSize \in Nat
  BY Constants
<1>2. \A i \in 1 .. DirSize : (i - 1 \in Seen /\ dir[i - 1].type = DIRECTORY_TYPE) <=> IsDir(i - 1)
  <2> SUFFICES ASSUME NEW i \in 1 .. DirSize
               PROVE  (i - 1 \in Seen /\ dir[i - 1].type = DIRECTORY_TYPE) <=> IsDir(i - 1)
    OBVIOUS
  <2>1. i - 1 \in Slots
    BY <1>1 DEF Slots
  <2> QED
    BY <2>1, SeenIs DEF IsDir, TreeInv, Live
<1>3. G \in [1 .. DirSize -> [Int -> Int]]
  OBVIOUS
<1>4. PICK h \in [0 .. DirSize -> Int] :
         h[0] = 1 /\ \A k \in 1 .. DirSize : h[k] = G[k][h[k - 1]]
  <2> HIDE DEF G
  <2>1. PICK one \in Int : one = 1
    OBVIOUS
  <2>2. \E h \in [0 .. DirSize -> Int] :
           h[0] = one /\ \A k \in 1 .. DirSize : h[k] = G[k][h[k - 1]]
    BY <1>1, <1>3, Recursion
  <2> QED
    BY <2>1, <2>2
<1>5. ASSUME NEW k \in 1 .. DirSize PROVE h[k] = Up(k, h[k - 1])
  <2> HIDE DEF Up
  <2>1. h[k - 1] \in Int /\ G[k] = [x \in Int |-> Up(k, x)]
    BY <1>1
  <2>2. G[k][h[k - 1]] = Up(k, h[k - 1])
    BY <2>1
  <2> QED
    BY <1>4, <2>2
<1>6. P(h)
  BY <1>2, <1>4, <1>5
<1> DEFINE id == CHOOSE g : P(g)
<1>7. P(id)
  <2> HIDE DEF P
  <2> QED
    BY <1>6
<1>8. GetFreeId = id[DirSize]
  BY DEF GetFreeId
<1> HIDE DEF id
<1>9. /\ id[0] = 1
      /\ \A i \in 1 .. DirSize : id[i] = Up(i, id[i - 1])
  BY <1>1, <1>2, <1>7
<1>10. \A i \in 0 .. DirSize : id[i] \in Int
  <2> DEFINE S == {i \in 0 .. DirSize : id[i] \in Int}
  <2>1. 0 \in S
    BY <1>1, <1>9
  <2>2. ASSUME NEW i \in 0 .. DirSize - 1, i \in S PROVE i + 1 \in S
    <3>1. i + 1 \in 1 .. DirSize /\ (i + 1) - 1 = i /\ id[i] \in Int
      BY <1>1, <2>2
    <3>2. id[i + 1] = Up(i + 1, id[i])
      BY <1>9, <3>1
    <3> QED
      BY <3>1, <3>2
  <2>3. 0 .. DirSize \subseteq S
    <3> HIDE DEF S
    <3> QED
      BY <1>1, <2>1, <2>2, Induction
  <2> QED
    BY <2>3
<1>11. id \in [0 .. DirSize -> Int]
  BY <1>7, <1>10
<1> QED
  BY <1>8, <1>9, <1>11

\* get_free_id gives no id of the root.
LEMMA FreeIdPositive ==
    ASSUME TreeInv
    PROVE  GetFreeId \in Int /\ GetFreeId >= 1
<1>1. DirSize \in Nat
  BY Constants
<1>2. PICK id \in [0 .. DirSize -> Int] :
              /\ id[0] = 1
              /\ \A i \in 1 .. DirSize :
                    id[i] = IF IsDir(i - 1) /\ dir[i - 1].payload = id[i - 1]
                            THEN id[i - 1] + 1 ELSE id[i - 1]
              /\ GetFreeId = id[DirSize]
  BY FreeIds
<1> DEFINE S == {i \in 0 .. DirSize : id[i] >= 1}
<1>3. 0 \in S
  BY <1>1, <1>2
<1>4. ASSUME NEW i \in 0 .. DirSize - 1, i \in S PROVE i + 1 \in S
  <2>1. i + 1 \in 1 .. DirSize /\ (i + 1) - 1 = i /\ id[i] \in Int /\ id[i] >= 1
    BY <1>1, <1>4
  <2>2. id[i + 1] = id[i] \/ id[i + 1] = id[i] + 1
    BY <1>2, <2>1
  <2> QED
    BY <2>1, <2>2
<1>5. 0 .. DirSize \subseteq S
  <2> HIDE DEF S
  <2> QED
    BY <1>1, <1>3, <1>4, Induction
<1> QED
  BY <1>1, <1>2, <1>5

\* Where ids grow from entry to entry, one pass is enough.
LEMMA OnePassEnough ==
    ASSUME TreeInv,
           \A s, t \in Slots : IsDir(s) /\ IsDir(t) /\ s < t => dir[s].payload < dir[t].payload
    PROVE  \A s \in Slots : IsDir(s) => dir[s].payload # GetFreeId
<1>1. DirSize \in Nat /\ \A s \in Slots : s \in Nat /\ s < DirSize /\ dir[s].payload \in Int
  BY Constants, SlotFacts DEF Slots, TreeInv, EntryRecs
<1>2. PICK id \in [0 .. DirSize -> Int] :
              /\ id[0] = 1
              /\ \A i \in 1 .. DirSize :
                    id[i] = IF IsDir(i - 1) /\ dir[i - 1].payload = id[i - 1]
                            THEN id[i - 1] + 1 ELSE id[i - 1]
              /\ GetFreeId = id[DirSize]
  BY FreeIds
<1> DEFINE S == {i \in 0 .. DirSize :
                    \A s \in Slots : IsDir(s) /\ s < i => dir[s].payload # id[i]}
<1>3. 0 \in S
  BY <1>1
<1>4. ASSUME NEW i \in 0 .. DirSize - 1, i \in S PROVE i + 1 \in S
  <2>1. i + 1 \in 1 .. DirSize /\ (i + 1) - 1 = i /\ i \in Slots /\ id[i] \in Int
    BY <1>1 DEF Slots
  <2>2. id[i + 1] = IF IsDir(i) /\ dir[i].payload = id[i] THEN id[i] + 1 ELSE id[i]
    BY <1>2, <2>1
  <2>3. ASSUME NEW s \in Slots, IsDir(s), s < i + 1 PROVE dir[s].payload # id[i + 1]
    <3>1. CASE s = i
      BY <1>1, <2>2, <2>3, <3>1
    <3>2. CASE s < i
      <4>1. dir[s].payload # id[i]
        BY <1>4, <2>3, <3>2
      <4>2. IsDir(i) => dir[s].payload < dir[i].payload
        BY <2>1, <2>3, <3>2
      <4> QED
        BY <1>1, <2>1, <2>2, <4>1, <4>2
    <3> QED
      BY <1>1, <2>1, <2>3, <3>1, <3>2
  <2> QED
    BY <2>1, <2>3
<1>5. 0 .. DirSize \subseteq S
  <2> HIDE DEF S
  <2> QED
    BY <1>1, <1>3, <1>4, Induction
<1> QED
  BY <1>1, <1>2, <1>5

(***************************************************************************)
(* Files and the blocks they have.                                         *)
(***************************************************************************)

\* The blocks of a file hold data.
LEMMA MapFacts ==
    ASSUME NEW rec \in CachedRecs
    PROVE  /\ Len(rec.alloc_map) \in Nat /\ DOMAIN rec.alloc_map = 1 .. Len(rec.alloc_map)
           /\ rec.alloc_map \in [1 .. Len(rec.alloc_map) -> Data]
           /\ \A i \in 1 .. Len(rec.alloc_map) :
                 rec.alloc_map[i] \in Data /\ rec.alloc_map[i] \in Blocks
<1>1. rec.alloc_map \in Seq(Data)
  BY DEF CachedRecs
<1>2. /\ Len(rec.alloc_map) \in Nat /\ DOMAIN rec.alloc_map = 1 .. Len(rec.alloc_map)
      /\ rec.alloc_map \in [1 .. Len(rec.alloc_map) -> Data]
  BY <1>1, LenProperties
<1>3. \A x \in Data : x \in Blocks
  BY Constants
<1> QED
  BY <1>2, <1>3

\* A block of a file is not free.
LEMMA HasFacts ==
    ASSUME NEW rec, NEW f, NEW d, Sound(rec, f, d), NEW b, Has(rec, b)
    PROVE  b \in Data /\ b \in Blocks /\ f[b] # 0
<1> DEFINE m == rec.alloc_map
<1>1. /\ Len(m) \in Nat /\ DOMAIN m = 1 .. Len(m)
      /\ \A i \in 1 .. Len(m) : m[i] \in Data /\ m[i] \in Blocks
  BY MapFacts DEF Sound
<1>2. PICK i \in 1 .. Len(m) : m[i] = b
  BY <1>1 DEF Has
<1>3. f[b] = IF i = Len(m) THEN END_OF_CHAIN ELSE m[i + 1]
  BY <1>1, <1>2 DEF Sound, Chained
<1>4. 0 \notin Data
  BY Constants
<1>5. CASE i = Len(m)
  BY <1>1, <1>2, <1>3, <1>5 DEF END_OF_CHAIN
<1>6. CASE i # Len(m)
  <2>1. i + 1 \in 1 .. Len(m)
    BY <1>1, <1>2, <1>6
  <2> QED
    BY <1>1, <1>2, <1>3, <1>4, <1>6, <2>1
<1> QED
  BY <1>5, <1>6

\* A file is as it was if its blocks are.
LEMMA Kept ==
    ASSUME NEW rec, NEW f, NEW d, NEW f2, NEW d2, NEW bytes,
           Sound(rec, f, d), Holds(rec, d, bytes),
           \A b \in Blocks : Has(rec, b) => f2[b] = f[b] /\ d2[b] = d[b]
    PROVE  Sound(rec, f2, d2) /\ Holds(rec, d2, bytes)
<1> DEFINE m == rec.alloc_map
           L == Len(rec.alloc_map)
<1>1. /\ L \in Nat /\ DOMAIN m = 1 .. L
      /\ \A i \in 1 .. L : m[i] \in Data /\ m[i] \in Blocks
  BY MapFacts DEF Sound
<1>2. \A i \in 1 .. L : f2[m[i]] = f[m[i]] /\ d2[m[i]] = d[m[i]]
  BY <1>1 DEF Has
<1>3. Chained(m, f2)
  BY <1>1, <1>2 DEF Chained, Sound
<1>4. rec.cached_block \in Nat
  BY DEF Sound, CachedRecs
<1>5. rec.cache_status = CACHE_READY => rec.cache = d2[m[rec.cached_block + 1]]
  <2> SUFFICES ASSUME rec.cache_status = CACHE_READY
               PROVE  rec.cache = d2[m[rec.cached_block + 1]]
    OBVIOUS
  <2>1. rec.cached_block + 1 \in 1 .. L
    BY <1>1, <1>4 DEF Sound, CACHE_READY, CACHE_NOTREADY
  <2> QED
    BY <1>2, <2>1 DEF Sound
<1>6. Sound(rec, f2, d2)
  BY <1>3, <1>5 DEF Sound
<1>7. ASSUME NEW loc \in Nat, loc \div BYTES_PER_BLOCK < L
      PROVE  Seen1(rec, d2, loc) = Seen1(rec, d, loc)
  <2>1. loc \div BYTES_PER_BLOCK + 1 \in 1 .. L
    BY <1>1, <1>7, BlockFacts
  <2> QED
    BY <1>2, <2>1 DEF Seen1
<1> QED
  BY <1>6, <1>7 DEF Holds

Put(V, p, x) == [q \in DOMAIN V \cup {p} |-> IF q = p THEN x ELSE V[q]]

\* A file may get free blocks and change its own.
Owns(rec, old, f, f2, d, d2) ==
    /\ f2 \in [Blocks -> Int] /\ d2 \in [Blocks -> [Offsets -> Bytes]]
    /\ \A b \in Blocks : ~Has(rec, b) => f2[b] = f[b] /\ d2[b] = d[b]
    /\ \A b \in Blocks : Has(old, b) => Has(rec, b)
    /\ \A b \in Blocks : Has(rec, b) => Has(old, b) \/ f[b] = 0

\* A file that changes its own blocks, and takes free ones, disturbs no other.
LEMMA PutView ==
    ASSUME NEW V, NEW f, NEW d, NEW fs, ViewsInv(V, f, d, fs), NEW p \in DOMAIN fs,
           NEW rec, NEW f2, NEW d2, NEW bytes, Owns(rec, V[p], f, f2, d, d2),
           Sound(rec, f2, d2), Holds(rec, d2, bytes)
    PROVE  ViewsInv(Put(V, p, rec), f2, d2, Put(fs, p, bytes))
<1> USE DEF Owns
<1> DEFINE W == Put(V, p, rec)
           fs2 == Put(fs, p, bytes)
<1>1. /\ DOMAIN W = DOMAIN fs /\ DOMAIN fs2 = DOMAIN fs
      /\ W[p] = rec /\ fs2[p] = bytes
      /\ \A q \in DOMAIN fs : q # p => W[q] = V[q] /\ fs2[q] = fs[q]
      /\ W = [q \in DOMAIN fs2 |-> W[q]] /\ fs2 = [q \in DOMAIN fs2 |-> fs2[q]]
  <2>1. V = [q \in DOMAIN fs |-> V[q]]
    BY DEF ViewsInv
  <2>2. DOMAIN V = DOMAIN fs
    BY <2>1
  <2> QED
    BY <2>2 DEF Put
<1> HIDE DEF W, fs2
<1>2. ASSUME NEW q \in DOMAIN fs, q # p, NEW b \in Blocks, Has(V[q], b) PROVE ~Has(rec, b)
  <2>1. Sound(V[q], f, d)
    BY DEF ViewsInv
  <2>2. f[b] # 0
    BY <1>2, <2>1, HasFacts
  <2>3. ~Has(V[p], b)
    BY <1>2 DEF ViewsInv
  <2> QED
    BY <2>2, <2>3
<1>3. ASSUME NEW q \in DOMAIN fs PROVE Sound(W[q], f2, d2) /\ Holds(W[q], d2, fs2[q])
  <2>1. CASE q = p
    BY <1>1, <2>1
  <2>2. CASE q # p
    <3>1. Sound(V[q], f, d) /\ Holds(V[q], d, fs[q])
      BY DEF ViewsInv
    <3>2. \A b \in Blocks : Has(V[q], b) => f2[b] = f[b] /\ d2[b] = d[b]
      BY <1>2, <2>2
    <3>3. Sound(V[q], f2, d2) /\ Holds(V[q], d2, fs[q])
      BY <3>1, <3>2, Kept
    <3> QED
      BY <1>1, <2>2, <3>3
  <2> QED
    BY <2>1, <2>2
<1>4. ASSUME NEW q \in DOMAIN fs, NEW r \in DOMAIN fs, q # r, NEW b \in Blocks,
             Has(W[q], b), Has(W[r], b)
      PROVE  FALSE
  <2>1. CASE q = p
    BY <1>1, <1>2, <1>4, <2>1
  <2>2. CASE r = p
    BY <1>1, <1>2, <1>4, <2>2
  <2>3. CASE q # p /\ r # p
    BY <1>1, <1>4, <2>3 DEF ViewsInv
  <2> QED
    BY <2>1, <2>2, <2>3
<1>5. ASSUME NEW b \in Blocks
      PROVE  IF b < Reserved THEN f2[b] = RESERVED_BLOCK
             ELSE f2[b] # 0 <=> \E q \in DOMAIN fs : Has(W[q], b)
  <2>1. CASE Has(rec, b)
    <3>1. f2[b] # 0 /\ b \in Data
      BY <2>1, HasFacts
    <3>2. ~(b < Reserved)
      BY <3>1, Constants DEF Data
    <3> QED
      BY <1>1, <2>1, <3>1, <3>2
  <2>2. CASE ~Has(rec, b)
    <3>1. f2[b] = f[b] /\ ~Has(V[p], b)
      BY <2>2
    <3>2. (\E q \in DOMAIN fs : Has(W[q], b)) <=> \E q \in DOMAIN fs : Has(V[q], b)
      BY <1>1, <2>2, <3>1
    <3> QED
      BY <3>1, <3>2 DEF ViewsInv
  <2> QED
    BY <2>1, <2>2
<1> QED
  BY <1>1, <1>3, <1>4, <1>5 DEF ViewsInv, W, fs2

\* A file that is created has no blocks.
LEMMA AddView ==
    ASSUME NEW V, NEW f, NEW d, NEW fs, ViewsInv(V, f, d, fs), NEW p, p \notin DOMAIN fs,
           NEW rec \in CachedRecs, rec.size = 0, rec.alloc_map = <<>>,
           rec.cache_status = CACHE_NOTREADY
    PROVE  ViewsInv(Put(V, p, rec), f, d, Put(fs, p, <<>>))
<1> DEFINE W == Put(V, p, rec)
           fs2 == Put(fs, p, <<>>)
<1>1. /\ DOMAIN fs2 = DOMAIN fs \cup {p}
      /\ W[p] = rec /\ fs2[p] = <<>>
      /\ \A q \in DOMAIN fs : q # p /\ W[q] = V[q] /\ fs2[q] = fs[q]
      /\ W = [q \in DOMAIN fs2 |-> W[q]] /\ fs2 = [q \in DOMAIN fs2 |-> fs2[q]]
  <2>1. V = [q \in DOMAIN fs |-> V[q]]
    BY DEF ViewsInv
  <2>2. DOMAIN V = DOMAIN fs
    BY <2>1
  <2> QED
    BY <2>2 DEF Put
<1> HIDE DEF W, fs2
<1>2. Len(rec.alloc_map) = 0 /\ DOMAIN rec.alloc_map = {}
  BY EmptySeq
<1>3. \A b : ~Has(rec, b)
  BY <1>2 DEF Has
<1>4. Sound(rec, f, d)
  <2>1. Chained(rec.alloc_map, f)
    BY <1>2 DEF Chained
  <2>2. BlockCount(rec.size) = 0
    BY CountFacts
  <2> QED
    BY <1>2, <2>1, <2>2 DEF Sound, CACHE_NOTREADY, CACHE_READY
<1>5. Holds(rec, d, <<>>)
  <2>1. \A loc \in Nat : ~(loc \div BYTES_PER_BLOCK < 0)
    BY BlockFacts
  <2>2. <<>> \in [1 .. rec.size -> Bytes]
    BY EmptySeq, LenProperties
  <2> QED
    BY <1>2, <2>1, <2>2 DEF Holds
<1>6. ASSUME NEW q \in DOMAIN fs2 PROVE Sound(W[q], f, d) /\ Holds(W[q], d, fs2[q])
  BY <1>1, <1>4, <1>5 DEF ViewsInv
<1>7. ASSUME NEW q \in DOMAIN fs2, NEW r \in DOMAIN fs2, q # r, NEW b \in Blocks,
             Has(W[q], b), Has(W[r], b)
      PROVE  FALSE
  BY <1>1, <1>3, <1>7 DEF ViewsInv
<1>8. ASSUME NEW b \in Blocks
      PROVE  IF b < Reserved THEN f[b] = RESERVED_BLOCK
             ELSE f[b] # 0 <=> \E q \in DOMAIN fs2 : Has(W[q], b)
  BY <1>1, <1>3 DEF ViewsInv
<1>9. f \in [Blocks -> Int] /\ d \in [Blocks -> [Offsets -> Bytes]]
  BY DEF ViewsInv
<1> QED
  BY <1>1, <1>6, <1>7, <1>8, <1>9 DEF ViewsInv, W, fs2

Drop(V, p) == [q \in DOMAIN V \ {p} |-> V[q]]
Release(f, m) == [b \in Blocks |-> IF \E k \in DOMAIN m : m[k] = b THEN 0 ELSE f[b]]

\* The blocks of a file that is removed are free.
LEMMA DropView ==
    ASSUME NEW V, NEW f, NEW d, NEW fs, ViewsInv(V, f, d, fs), NEW p \in DOMAIN fs
    PROVE  ViewsInv(Drop(V, p), Release(f, V[p].alloc_map), d, Drop(fs, p))
<1> DEFINE W == Drop(V, p)
           fs2 == Drop(fs, p)
           f2 == Release(f, V[p].alloc_map)
<1>1. /\ DOMAIN fs2 = DOMAIN fs \ {p}
      /\ \A q \in DOMAIN fs2 : q \in DOMAIN fs /\ q # p /\ W[q] = V[q] /\ fs2[q] = fs[q]
      /\ W = [q \in DOMAIN fs2 |-> W[q]] /\ fs2 = [q \in DOMAIN fs2 |-> fs2[q]]
  <2>1. V = [q \in DOMAIN fs |-> V[q]]
    BY DEF ViewsInv
  <2>2. DOMAIN V = DOMAIN fs
    BY <2>1
  <2> QED
    BY <2>2 DEF Drop
<1>2. f \in [Blocks -> Int] /\ d \in [Blocks -> [Offsets -> Bytes]]
  BY DEF ViewsInv
<1>3. \A b \in Blocks : f2[b] = IF Has(V[p], b) THEN 0 ELSE f[b]
  BY DEF Release, Has
<1>4. f2 \in [Blocks -> Int]
  BY <1>2 DEF Release
<1> HIDE DEF W, fs2, f2
<1>5. ASSUME NEW q \in DOMAIN fs2 PROVE Sound(W[q], f2, d) /\ Holds(W[q], d, fs2[q])
  <2>1. Sound(V[q], f, d) /\ Holds(V[q], d, fs[q])
    BY <1>1 DEF ViewsInv
  <2>2. \A b \in Blocks : Has(V[q], b) => f2[b] = f[b]
    BY <1>1, <1>3 DEF ViewsInv
  <2>3. Sound(V[q], f2, d) /\ Holds(V[q], d, fs[q])
    BY <2>1, <2>2, Kept
  <2> QED
    BY <1>1, <2>3
<1>6. ASSUME NEW q \in DOMAIN fs2, NEW r \in DOMAIN fs2, q # r, NEW b \in Blocks,
             Has(W[q], b), Has(W[r], b)
      PROVE  FALSE
  BY <1>1, <1>6 DEF ViewsInv
<1>7. ASSUME NEW b \in Blocks
      PROVE  IF b < Reserved THEN f2[b] = RESERVED_BLOCK
             ELSE f2[b] # 0 <=> \E q \in DOMAIN fs2 : Has(W[q], b)
  <2>1. CASE Has(V[p], b)
    <3>1. Sound(V[p], f, d)
      BY DEF ViewsInv
    <3>2. b \in Data
      BY <2>1, <3>1, HasFacts
    <3>3. ~(b < Reserved)
      BY <3>2, Constants DEF Data
    <3>4. \A q \in DOMAIN fs2 : ~Has(W[q], b)
      BY <1>1, <2>1 DEF ViewsInv
    <3> QED
      BY <1>3, <2>1, <3>3, <3>4
  <2>2. CASE ~Has(V[p], b)
    <3>1. (\E q \in DOMAIN fs2 : Has(W[q], b)) <=> \E q \in DOMAIN fs : Has(V[q], b)
      BY <1>1, <2>2
    <3> QED
      BY <1>3, <2>2, <3>1 DEF ViewsInv
  <2> QED
    BY <2>1, <2>2
<1> QED
  BY <1>1, <1>2, <1>4, <1>5, <1>6, <1>7 DEF ViewsInv, W, fs2, f2

SameFile(rec, old) ==
    /\ rec.path = old.path /\ rec.entry = old.entry
    /\ rec.size = old.size /\ rec.alloc_map = old.alloc_map

\* "write possible dirty cache", "copy block in cache": the bytes are the same.
LEMMA LoadKeeps ==
    ASSUME NEW rec, NEW f, NEW d \in [Blocks -> [Offsets -> Bytes]], NEW bytes,
           Sound(rec, f, d), Holds(rec, d, bytes),
           NEW blk \in Nat, blk < Len(rec.alloc_map), NEW st \in {CACHE_READY, CACHE_DIRTY}
    PROVE  LET r == Load(rec, blk, d, st)
           IN  /\ r.data \in [Blocks -> [Offsets -> Bytes]]
               /\ Sound(r.rec, f, r.data) /\ Holds(r.rec, r.data, bytes)
               /\ \A b \in Blocks : ~Has(rec, b) => r.data[b] = d[b]
               /\ SameFile(r.rec, rec)
               /\ r.rec.cached_block = blk /\ r.rec.cache_status = st
<1> DEFINE m == rec.alloc_map
           L == Len(rec.alloc_map)
           o == rec.cached_block
           d2 == IF rec.cache_status = CACHE_DIRTY THEN [d EXCEPT ![m[o + 1]] = rec.cache] ELSE d
           rec2 == [rec EXCEPT !.cache = d2[m[blk + 1]],
                               !.cached_block = blk, !.cache_status = st]
<1>1. Load(rec, blk, d, st) = [data |-> d2, rec |-> rec2]
  BY DEF Load
<1>2. rec \in CachedRecs /\ o \in Nat /\ rec.cache \in [Offsets -> Bytes]
  BY DEF Sound, CachedRecs
<1>3. /\ L \in Nat /\ DOMAIN m = 1 .. L
      /\ \A i \in 1 .. L : m[i] \in Data /\ m[i] \in Blocks
  BY <1>2, MapFacts
<1>4. CACHE_READY # CACHE_DIRTY /\ CACHE_NOTREADY # CACHE_DIRTY /\ CACHE_READY # CACHE_NOTREADY
  BY DEF CACHE_READY, CACHE_DIRTY, CACHE_NOTREADY
<1>5. rec.cache_status # CACHE_NOTREADY => o + 1 \in 1 .. L
  BY <1>2, <1>3 DEF Sound
<1>6. d2 \in [Blocks -> [Offsets -> Bytes]]
  BY <1>2, <1>3, <1>4, <1>5
<1>7. \A b \in Blocks : ~Has(rec, b) => d2[b] = d[b]
  BY <1>3, <1>4, <1>5 DEF Has
<1>8. blk + 1 \in 1 .. L
  BY <1>3
<1>9. /\ rec2 \in CachedRecs /\ SameFile(rec2, rec)
      /\ rec2.cached_block = blk /\ rec2.cache_status = st /\ rec2.cache = d2[m[blk + 1]]
  <2>1. d2[m[blk + 1]] \in [Offsets -> Bytes] /\ st \in Statuses3
    BY <1>3, <1>6, <1>8 DEF Statuses3
  <2> HIDE DEF d2
  <2> QED
    BY <1>2, <2>1 DEF CachedRecs, SameFile
\* A block as it is seen.
<1>10. \A i \in 1 .. L : d2[m[i]] = IF InCache(rec, i - 1) THEN rec.cache ELSE d[m[i]]
  <2> SUFFICES ASSUME NEW i \in 1 .. L
               PROVE  d2[m[i]] = IF InCache(rec, i - 1) THEN rec.cache ELSE d[m[i]]
    OBVIOUS
  <2>1. CASE rec.cache_status = CACHE_DIRTY
    <3>1. o + 1 \in 1 .. L /\ m[o + 1] \in Blocks /\ m[i] \in Blocks
      BY <1>3, <1>4, <1>5, <2>1
    <3>2. m[i] = m[o + 1] <=> i = o + 1
      BY <1>3, <3>1 DEF Sound, Chained
    <3>3. o + 1 = i <=> o = i - 1
      BY <1>2, <1>3
    <3> QED
      BY <1>4, <2>1, <3>1, <3>2, <3>3 DEF InCache
  <2>2. CASE rec.cache_status = CACHE_READY
    <3>1. rec.cache = d[m[o + 1]]
      BY <2>2 DEF Sound
    <3>2. o = i - 1 => o + 1 = i
      BY <1>2, <1>3
    <3> QED
      BY <1>4, <2>2, <3>1, <3>2 DEF InCache
  <2>3. CASE rec.cache_status = CACHE_NOTREADY
    BY <1>4, <2>3 DEF InCache
  <2> QED
    BY <1>2, <2>1, <2>2, <2>3 DEF CachedRecs, Statuses3
<1> HIDE DEF d2, rec2
<1>11. Sound(rec2, f, d2)
  BY <1>8, <1>9 DEF Sound, SameFile
<1>12. ASSUME NEW loc \in Nat, loc \div BYTES_PER_BLOCK < L
       PROVE  Seen1(rec2, d2, loc) = Seen1(rec, d, loc)
  <2>0. PICK j \in Nat : j = loc \div BYTES_PER_BLOCK
    BY BlockFacts, Zenon
  <2>1. j = loc \div BYTES_PER_BLOCK /\ j + 1 \in 1 .. L
    <3>1. j < L
      BY <1>12, <2>0
    <3> QED
      BY <1>3, <2>0, <3>1
  <2>2. d2[m[j + 1]] = IF InCache(rec, j) THEN rec.cache ELSE d[m[j + 1]]
    <3>1. (j + 1) - 1 = j
      OBVIOUS
    <3> QED
      BY <1>10, <2>1, <3>1
  <2>3. rec2.alloc_map = m
    BY <1>9 DEF SameFile
  <2>4. Seen1(rec2, d2, loc) = d2[m[j + 1]][loc % BYTES_PER_BLOCK]
    BY <1>9, <2>1, <2>3 DEF Seen1, InCache, Byte
  <2>5. Seen1(rec, d, loc) = d2[m[j + 1]][loc % BYTES_PER_BLOCK]
    BY <2>1, <2>2 DEF Seen1, Byte
  <2> QED
    BY <2>4, <2>5
<1>13. Holds(rec2, d2, bytes)
  BY <1>9, <1>12 DEF Holds, SameFile
<1> QED
  BY <1>1, <1>6, <1>7, <1>9, <1>11, <1>13

\* A byte of the block in the cache is written.
LEMMA ByteWritten ==
    ASSUME NEW rec, NEW rec2 \in CachedRecs, NEW f, NEW d, NEW bytes,
           Sound(rec, f, d), Holds(rec, d, bytes),
           NEW loc \in Nat, loc < rec.size, InCache(rec, loc \div BYTES_PER_BLOCK),
           NEW byte \in Bytes, SameFile(rec2, rec),
           rec2.cached_block = rec.cached_block, rec2.cache_status = CACHE_DIRTY,
           rec2.cache = [rec.cache EXCEPT ![loc % BYTES_PER_BLOCK] = byte]
    PROVE  Sound(rec2, f, d) /\ Holds(rec2, d, [bytes EXCEPT ![loc + 1] = byte])
<1> DEFINE B == BYTES_PER_BLOCK
           L == Len(rec.alloc_map)
<1>1. CACHE_READY # CACHE_DIRTY /\ CACHE_NOTREADY # CACHE_DIRTY
  BY DEF CACHE_READY, CACHE_DIRTY, CACHE_NOTREADY
<1>2. rec.cache_status # CACHE_NOTREADY /\ rec.cached_block = loc \div B
  BY DEF InCache
<1>3. Sound(rec2, f, d)
  BY <1>1, <1>2 DEF Sound, SameFile
<1>4. /\ rec.size \in Nat /\ rec.cache \in [Offsets -> Bytes]
      /\ bytes \in [1 .. rec.size -> Bytes]
  BY DEF Sound, CachedRecs, Holds
<1>5. [bytes EXCEPT ![loc + 1] = byte] \in [1 .. rec.size -> Bytes]
  BY <1>4
<1>6. ASSUME NEW x \in Nat, x \div B < L
      PROVE  Seen1(rec2, d, x) =
                IF x < rec.size THEN [bytes EXCEPT ![loc + 1] = byte][x + 1] ELSE 0
  <2>1. Seen1(rec, d, x) = IF x < rec.size THEN bytes[x + 1] ELSE 0
    BY <1>6 DEF Holds
  <2>2. CASE x = loc
    <3>1. Seen1(rec2, d, x) = rec2.cache[loc % B]
      BY <1>1, <1>2, <2>2 DEF Seen1, InCache, Byte
    <3>2. loc % B \in Offsets
      BY BlockFacts
    <3>3. rec2.cache[loc % B] = byte
      BY <1>4, <3>2
    <3>4. loc + 1 \in 1 .. rec.size
      BY <1>4
    <3> QED
      BY <1>4, <2>2, <3>1, <3>3, <3>4
  <2>3. CASE x # loc
    <3>1. Seen1(rec2, d, x) = Seen1(rec, d, x)
      <4>1. CASE x \div B = loc \div B
        <5>1. x % B # loc % B
          BY <2>3, <4>1, SameLoc
        <5>2. x % B \in Offsets /\ loc % B \in Offsets
          BY BlockFacts
        <5>3. rec2.cache[x % B] = rec.cache[x % B]
          BY <1>4, <5>1, <5>2
        <5> QED
          BY <1>1, <1>2, <4>1, <5>3 DEF Seen1, InCache, Byte
      <4>2. CASE x \div B # loc \div B
        BY <1>2, <4>2 DEF Seen1, InCache, SameFile
      <4> QED
        BY <4>1, <4>2
    <3>2. x + 1 # loc + 1
      BY <2>3
    <3>3. x < rec.size => x + 1 \in 1 .. rec.size
      BY <1>4
    <3> QED
      BY <1>4, <2>1, <3>1, <3>2, <3>3
  <2> QED
    BY <2>2, <2>3
<1>7. rec2.size = rec.size /\ rec2.alloc_map = rec.alloc_map
  BY DEF SameFile
<1> QED
  BY <1>3, <1>5, <1>6, <1>7 DEF Holds

\* The bytes of a file that has grown.
Lengthened(bytes, size) == [k \in 1 .. size |-> IF k \in DOMAIN bytes THEN bytes[k] ELSE 0]

\* What a longer file holds.
LEMMA LengthenedFacts ==
    ASSUME NEW old \in Nat, NEW bytes \in [1 .. old -> Bytes], NEW size \in Nat, old <= size
    PROVE  /\ Lengthened(bytes, size) \in [1 .. size -> Bytes]
           /\ \A loc \in Nat : loc < size =>
                 Lengthened(bytes, size)[loc + 1] = IF loc < old THEN bytes[loc + 1] ELSE 0
  BY Constants DEF Lengthened

\* A file grows within its last block, where there are zeros.
LEMMA GrownWithin ==
    ASSUME NEW rec, NEW rec2 \in CachedRecs, NEW f, NEW d, NEW bytes,
           Sound(rec, f, d), Holds(rec, d, bytes),
           rec.size <= rec2.size, BlockCount(rec2.size) = BlockCount(rec.size),
           rec2.alloc_map = rec.alloc_map, rec2.cached_block = rec.cached_block,
           rec2.cache = rec.cache, rec2.cache_status = rec.cache_status
    PROVE  Sound(rec2, f, d) /\ Holds(rec2, d, Lengthened(bytes, rec2.size))
<1>1. rec.size \in Nat /\ rec2.size \in Nat
  BY DEF Sound, CachedRecs
<1>2. Sound(rec2, f, d)
  BY DEF Sound
<1>3. bytes \in [1 .. rec.size -> Bytes]
  BY DEF Holds
<1>4. /\ Lengthened(bytes, rec2.size) \in [1 .. rec2.size -> Bytes]
      /\ \A loc \in Nat : loc < rec2.size =>
            Lengthened(bytes, rec2.size)[loc + 1] = IF loc < rec.size THEN bytes[loc + 1] ELSE 0
  BY <1>1, <1>3, LengthenedFacts
<1>5. ASSUME NEW loc \in Nat PROVE Seen1(rec2, d, loc) = Seen1(rec, d, loc)
  BY DEF Seen1, InCache, Byte
<1>6. ASSUME NEW loc \in Nat, loc \div BYTES_PER_BLOCK < Len(rec.alloc_map)
      PROVE  Seen1(rec2, d, loc) = IF loc < rec2.size THEN Lengthened(bytes, rec2.size)[loc + 1] ELSE 0
  <2>1. Seen1(rec2, d, loc) = IF loc < rec.size THEN bytes[loc + 1] ELSE 0
    BY <1>5, <1>6 DEF Holds
  <2> QED
    BY <1>1, <1>4, <2>1
<1> QED
  BY <1>2, <1>4, <1>6 DEF Holds

\* A file grows by a block that was free and has been zeroed.
GainsBlock(rec, rec2, f, f2, d, d2, b) ==
    /\ rec2 \in CachedRecs
    /\ b \in Data /\ f[b] = 0
    /\ \A x \in Blocks : f2[x] = IF x = b THEN END_OF_CHAIN
                                 ELSE IF /\ Len(rec.alloc_map) > 0
                                         /\ x = rec.alloc_map[Len(rec.alloc_map)]
                                      THEN b ELSE f[x]
    /\ \A x \in Blocks : d2[x] = IF x = b THEN Zeros ELSE d[x]
    /\ rec.size <= rec2.size /\ BlockCount(rec2.size) = BlockCount(rec.size) + 1
    /\ rec2.alloc_map = Append(rec.alloc_map, b)
    /\ rec2.cached_block = rec.cached_block
    /\ rec2.cache = rec.cache /\ rec2.cache_status = rec.cache_status

\* A file that gets a block, all zeros, holds what it held and zeros.
LEMMA GrownByBlock ==
    ASSUME NEW rec, NEW rec2, NEW f, NEW f2, NEW d, NEW d2, NEW b, NEW bytes,
           GainsBlock(rec, rec2, f, f2, d, d2, b), Sound(rec, f, d), Holds(rec, d, bytes)
    PROVE  /\ Sound(rec2, f2, d2) /\ Holds(rec2, d2, Lengthened(bytes, rec2.size))
           /\ \A x \in Blocks : ~Has(rec2, x) => f2[x] = f[x] /\ d2[x] = d[x]
           /\ \A x : Has(rec2, x) <=> Has(rec, x) \/ x = b
<1> USE DEF GainsBlock
<1> DEFINE m == rec.alloc_map
           L == Len(rec.alloc_map)
           m2 == rec2.alloc_map
<1>1. rec \in CachedRecs /\ rec.size \in Nat /\ rec2.size \in Nat /\ rec.cached_block \in Nat
  BY DEF Sound, CachedRecs
<1>2. /\ L \in Nat /\ DOMAIN m = 1 .. L
      /\ \A i \in 1 .. L : m[i] \in Data /\ m[i] \in Blocks
  BY <1>1, MapFacts
<1>3. /\ Len(m2) = L + 1 /\ DOMAIN m2 = 1 .. L + 1 /\ m2[L + 1] = b
      /\ \A i \in 1 .. L : m2[i] = m[i]
  <2>1. m \in Seq(Data)
    BY <1>1 DEF CachedRecs
  <2>2. m2 \in Seq(Data) /\ Len(m2) = L + 1 /\ m2[L + 1] = b /\ \A i \in 1 .. L : m2[i] = m[i]
    BY <2>1, AppendProperties
  <2> QED
    BY <2>2, LenProperties
<1>4. \A i \in 1 .. L : m[i] # b
  <2> SUFFICES ASSUME NEW i \in 1 .. L, m[i] = b PROVE FALSE
    OBVIOUS
  <2>1. Has(rec, b)
    BY <1>2 DEF Has
  <2> QED
    BY <2>1, HasFacts
<1>5. b \in Blocks
  BY Constants
<1>6. \A x : Has(rec2, x) <=> Has(rec, x) \/ x = b
  BY <1>2, <1>3 DEF Has
<1>7. \A x \in Blocks : ~Has(rec2, x) => f2[x] = f[x] /\ d2[x] = d[x]
  <2> SUFFICES ASSUME NEW x \in Blocks, ~Has(rec2, x) PROVE f2[x] = f[x] /\ d2[x] = d[x]
    OBVIOUS
  <2>1. x # b /\ ~Has(rec, x)
    BY <1>6
  <2>2. L > 0 => L \in 1 .. L
    BY <1>2
  <2>3. ~(L > 0 /\ x = m[L])
    BY <1>2, <2>1, <2>2 DEF Has
  <2> QED
    BY <2>1, <2>3
<1>8. \A i, j \in 1 .. L : m[i] = m[j] => i = j
  BY <1>2 DEF Sound, Chained
<1>9. Chained(m2, f2)
  <2>1. ASSUME NEW i \in 1 .. L + 1, NEW j \in 1 .. L + 1, m2[i] = m2[j] PROVE i = j
    <3>1. (i = L + 1 \/ i \in 1 .. L) /\ (j = L + 1 \/ j \in 1 .. L)
      BY <1>2
    <3> QED
      BY <1>3, <1>4, <1>8, <2>1, <3>1
  <2>2. ASSUME NEW i \in 1 .. L + 1
        PROVE  f2[m2[i]] = IF i = L + 1 THEN END_OF_CHAIN ELSE m2[i + 1]
    <3>1. CASE i = L + 1
      BY <1>3, <1>5, <3>1
    <3>2. CASE i = L /\ L > 0
      <4>1. i \in 1 .. L /\ i # L + 1 /\ m[i] \in Blocks /\ m[i] # b
        BY <1>2, <1>4, <3>2
      <4>2. f2[m[i]] = b
        BY <3>2, <4>1
      <4> QED
        BY <1>3, <3>2, <4>1, <4>2
    <3>3. CASE i < L
      <4>1. i \in 1 .. L /\ i + 1 \in 1 .. L /\ i # L /\ i # L + 1 /\ L \in 1 .. L
        BY <1>2, <3>3
      <4>2. m[i] \in Blocks /\ m[i] # b /\ m[i] # m[L]
        BY <1>2, <1>4, <1>8, <4>1
      <4>3. f2[m[i]] = f[m[i]] /\ f[m[i]] = m[i + 1]
        BY <1>2, <4>1, <4>2 DEF Sound, Chained
      <4> QED
        BY <1>3, <4>1, <4>3
    <3>4. i = L + 1 \/ (i = L /\ L > 0) \/ i < L
      BY <1>2
    <3> QED
      BY <3>1, <3>2, <3>3, <3>4
  <2> QED
    BY <1>3, <2>1, <2>2 DEF Chained
<1>10. rec.cache_status # CACHE_NOTREADY => rec.cached_block < L /\ rec.cached_block + 1 \in 1 .. L
  BY <1>1, <1>2 DEF Sound
<1>11. \A i \in 1 .. L : d2[m2[i]] = d[m[i]]
  BY <1>2, <1>3, <1>4
<1>12. Sound(rec2, f2, d2)
  <2>1. Len(m2) = BlockCount(rec2.size)
    BY <1>3 DEF Sound
  <2>2. rec2.cache_status # CACHE_NOTREADY => rec2.cached_block < Len(m2)
    BY <1>1, <1>2, <1>3, <1>10
  <2>3. rec2.cache_status = CACHE_READY => rec2.cache = d2[m2[rec2.cached_block + 1]]
    BY <1>10, <1>11 DEF Sound, CACHE_READY, CACHE_NOTREADY
  <2> QED
    BY <1>9, <2>1, <2>2, <2>3 DEF Sound
<1>13. bytes \in [1 .. rec.size -> Bytes]
  BY DEF Holds
<1>14. /\ Lengthened(bytes, rec2.size) \in [1 .. rec2.size -> Bytes]
       /\ \A loc \in Nat : loc < rec2.size =>
             Lengthened(bytes, rec2.size)[loc + 1] = IF loc < rec.size THEN bytes[loc + 1] ELSE 0
  <2>1. PICK o \in Nat, n \in Nat : o = rec.size /\ n = rec2.size
    BY <1>1, Zenon
  <2>2. bytes \in [1 .. o -> Bytes] /\ o <= n
    BY <1>13, <2>1
  <2> HIDE DEF m, L, m2
  <2>3. /\ Lengthened(bytes, n) \in [1 .. n -> Bytes]
        /\ \A loc \in Nat : loc < n =>
              Lengthened(bytes, n)[loc + 1] = IF loc < o THEN bytes[loc + 1] ELSE 0
    BY <2>2, LengthenedFacts
  <2> QED
    BY <2>1, <2>3
<1>15. ASSUME NEW loc \in Nat, loc \div BYTES_PER_BLOCK < L + 1
       PROVE  Seen1(rec2, d2, loc) = IF loc < rec.size THEN bytes[loc + 1] ELSE 0
  <2>1. PICK j \in Nat : j = loc \div BYTES_PER_BLOCK
    BY BlockFacts, Zenon
  <2>2. j < L + 1
    BY <1>15, <2>1
  <2>3. CASE j < L
    <3>1. j + 1 \in 1 .. L
      BY <1>2, <2>3
    <3>2. d2[m2[j + 1]] = d[m[j + 1]]
      BY <1>11, <3>1
    <3>3. Seen1(rec2, d2, loc) = Seen1(rec, d, loc)
      BY <2>1, <3>2 DEF Seen1, InCache, Byte
    <3> QED
      BY <2>1, <2>3, <3>3 DEF Holds
  <2>4. CASE j = L
    <3>1. ~InCache(rec2, j)
      BY <1>1, <1>2, <1>10, <2>4 DEF InCache
    <3>2. d2[m2[j + 1]] = Zeros
      BY <1>3, <1>5, <2>4
    <3>3. loc % BYTES_PER_BLOCK \in Offsets
      BY BlockFacts
    <3>4. Seen1(rec2, d2, loc) = 0
      BY <2>1, <3>1, <3>2, <3>3 DEF Seen1, Zeros
    <3>5. ~(loc < rec.size)
      <4> SUFFICES ASSUME loc < rec.size PROVE FALSE
        OBVIOUS
      <4>1. loc + 1 \in Nat /\ loc + 1 <= rec.size
        BY <1>1
      <4>2. BlockCount(loc + 1) <= BlockCount(rec.size)
        BY <1>1, <4>1, CountMonotone
      <4>3. BlockCount(loc + 1) = j + 1 /\ BlockCount(rec.size) = L
        BY <2>1, CountFacts DEF Sound
      <4> QED
        BY <1>2, <2>4, <4>2, <4>3
    <3> QED
      BY <3>4, <3>5
  <2> QED
    BY <1>2, <2>2, <2>3, <2>4
<1>16. ASSUME NEW loc \in Nat, loc \div BYTES_PER_BLOCK < Len(m2)
       PROVE  Seen1(rec2, d2, loc) = IF loc < rec2.size THEN Lengthened(bytes, rec2.size)[loc + 1] ELSE 0
  <2>1. Seen1(rec2, d2, loc) = IF loc < rec.size THEN bytes[loc + 1] ELSE 0
    BY <1>3, <1>15, <1>16
  <2> QED
    BY <1>1, <1>14, <2>1
<1>17. Holds(rec2, d2, Lengthened(bytes, rec2.size))
  BY <1>14, <1>16 DEF Holds
<1> QED
  BY <1>6, <1>7, <1>12, <1>17

\* The free block that is searched for, and how one is linked to a chain.
LEMMA ExtendedIs ==
    ASSUME NEW m \in Seq(Data), FreeBlock(fat) \in Data
    PROVE  LET k == Len(m)
               b == FreeBlock(fat)
               f == IF k = 0 THEN fat ELSE [fat EXCEPT ![m[k]] = b]
           IN  Extended(m, k, k + 1) = [fat |-> [f EXCEPT ![b] = END_OF_CHAIN], map |-> Append(m, b)]
<1> DEFINE b == FreeBlock(fat)
<1>1. PICK k \in Nat : k = Len(m)
  BY LenProperties
<1>2. SubSeq(m, 1, k) = m
  BY <1>1, SubSeqFull
<1> DEFINE first == [fat |-> fat, map |-> SubSeq(m, 1, k)]
           G(h, j) == IF j = k THEN first
                      ELSE LET c == FreeBlock(h[j - 1].fat)
                               n == h[j - 1].map
                           IN  [fat |-> IF j = 1 THEN h[0].fat
                                        ELSE [h[j - 1].fat EXCEPT ![n[j - 1]] = c],
                                map |-> Append(n, c)]
           P(h) == h = [j \in k .. k + 1 |-> G(h, j)]
           f == IF k = 0 THEN fat ELSE [fat EXCEPT ![m[k]] = b]
           h0 == [j \in k .. k + 1 |-> IF j = k THEN first ELSE [fat |-> f, map |-> Append(m, b)]]
<1>3. first.fat = fat /\ first.map = m
  BY <1>2
<1>4. P(h0)
  <2>1. h0[k] = first
    BY <1>1
  <2>2. h0[k + 1] = [fat |-> f, map |-> Append(m, b)]
    BY <1>1
  <2>3. G(h0, k + 1) = [fat |-> f, map |-> Append(m, b)]
    <3>1. k + 1 # k /\ (k + 1) - 1 = k /\ (k + 1 = 1 <=> k = 0)
      BY <1>1
    <3> HIDE DEF h0, first
    <3>2. FreeBlock(h0[k].fat) = b /\ h0[k].map = m /\ h0[k].fat = fat
      BY <1>3, <2>1
    <3> QED
      BY <3>1, <3>2
  <2>4. \A j \in k .. k + 1 : j = k \/ j = k + 1
    BY <1>1
  <2>5. \A j \in k .. k + 1 : h0[j] = G(h0, j)
    <3> HIDE DEF h0, f
    <3> QED
      BY <2>1, <2>2, <2>3, <2>4
  <2> HIDE DEF G
  <2> QED
    BY <2>5
<1> DEFINE ext == CHOOSE h : P(h)
<1>5. P(ext)
  <2> HIDE DEF P
  <2> QED
    BY <1>4
<1>6. Extended(m, k, k + 1) =
         [fat |-> [ext[k + 1].fat EXCEPT ![ext[k + 1].map[k + 1]] = END_OF_CHAIN],
          map |-> ext[k + 1].map]
  BY DEF Extended
<1> HIDE DEF ext
<1>7. ext[k] = first /\ ext[k + 1] = G(ext, k + 1)
  <2> HIDE DEF G
  <2>1. k \in k .. k + 1 /\ k + 1 \in k .. k + 1
    BY <1>1
  <2>2. ext[k] = G(ext, k) /\ ext[k + 1] = G(ext, k + 1)
    BY <1>5, <2>1
  <2> QED
    BY <2>2 DEF G
<1>8. ext[k + 1] = [fat |-> f, map |-> Append(m, b)]
  <2>1. k + 1 # k /\ (k + 1) - 1 = k /\ (k + 1 = 1 <=> k = 0)
    BY <1>1
  <2> HIDE DEF first
  <2>2. FreeBlock(ext[k].fat) = b /\ ext[k].map = m /\ ext[k].fat = fat
    BY <1>3, <1>7
  <2> QED
    BY <1>7, <2>1, <2>2
<1>9. Append(m, b)[k + 1] = b
  BY <1>1, AppendProperties
<1> HIDE DEF f, b
<1>10. ext[k + 1].fat = f /\ ext[k + 1].map = Append(m, b) /\ ext[k + 1].map[k + 1] = b
  <2>1. PICK g : g = Append(m, b)
    OBVIOUS
  <2>2. ext[k + 1] = [fat |-> f, map |-> g] /\ g[k + 1] = b
    BY <1>8, <1>9, <2>1, Zenon
  <2>3. \A x : [fat |-> f, map |-> x].fat = f /\ [fat |-> f, map |-> x].map = x
    OBVIOUS
  <2>4. ext[k + 1].fat = f /\ ext[k + 1].map = g
    BY <2>2, <2>3, Zenon
  <2> QED
    BY <2>1, <2>2, <2>4, Zenon
<1>11. Extended(m, k, k + 1) = [fat |-> [f EXCEPT ![b] = END_OF_CHAIN], map |-> Append(m, b)]
  BY <1>6, <1>10
<1> QED
  BY <1>1, <1>11 DEF f, b

\* "find empty block" gives a free block.
LEMMA FreeBlockIs ==
    ASSUME NEW f, FreeBlocks(f) # {}
    PROVE  FreeBlock(f) \in Blocks /\ f[FreeBlock(f)] = 0
<1>1. FreeBlocks(f) \subseteq Nat
  BY Constants DEF FreeBlocks
<1>2. FreeBlock(f) \in FreeBlocks(f)
  BY <1>1, Least DEF FreeBlock
<1> QED
  BY <1>2 DEF FreeBlocks

(***************************************************************************)
(* A write, step by step.                                                  *)
(***************************************************************************)

SizeAfter(rec, loc) == IF loc >= rec.size THEN loc + 1 ELSE rec.size
ExtAfter(rec, loc) ==
    IF BlockCount(loc + 1) > BlockCount(rec.size)
    THEN Extended(rec.alloc_map, BlockCount(rec.size), BlockCount(loc + 1))
    ELSE [fat |-> fat, map |-> rec.alloc_map]
ZeroedAfter(rec, loc) ==
    [b \in Blocks |->
        IF \E j \in BlockCount(rec.size) + 1 .. Len(ExtAfter(rec, loc).map) :
              ExtAfter(rec, loc).map[j] = b
        THEN Zeros ELSE data[b]]
GrownAfter(rec, loc) ==
    [rec EXCEPT !.size = SizeAfter(rec, loc), !.alloc_map = ExtAfter(rec, loc).map]
ThereAfter(rec, loc) ==
    IF InCache(GrownAfter(rec, loc), loc \div BYTES_PER_BLOCK)
    THEN [data |-> ZeroedAfter(rec, loc),
          rec |-> [GrownAfter(rec, loc) EXCEPT !.cache_status = CACHE_DIRTY]]
    ELSE Load(GrownAfter(rec, loc), loc \div BYTES_PER_BLOCK, ZeroedAfter(rec, loc), CACHE_DIRTY)

\* A write, in its parts.
LEMMA WrittenIs ==
    ASSUME NEW rec, NEW loc, NEW byte
    PROVE  Written(rec, loc, byte) =
              [fat |-> ExtAfter(rec, loc).fat, data |-> ThereAfter(rec, loc).data,
               rec |-> [ThereAfter(rec, loc).rec EXCEPT !.cache[loc % BYTES_PER_BLOCK] = byte]]
  BY DEF Written, SizeAfter, ExtAfter, ZeroedAfter, GrownAfter, ThereAfter

\* The size after a write, and the blocks it calls for.
LEMMA SizeFacts ==
    ASSUME NEW rec, rec.size \in Nat, NEW loc \in Nat
    PROVE  /\ SizeAfter(rec, loc) \in Nat /\ rec.size <= SizeAfter(rec, loc)
           /\ loc < SizeAfter(rec, loc)
           /\ loc \div BYTES_PER_BLOCK < BlockCount(SizeAfter(rec, loc))
           /\ BlockCount(loc + 1) > BlockCount(rec.size) =>
                 BlockCount(SizeAfter(rec, loc)) = BlockCount(loc + 1)
           /\ ~(BlockCount(loc + 1) > BlockCount(rec.size)) =>
                 BlockCount(SizeAfter(rec, loc)) = BlockCount(rec.size)
<1> DEFINE size == SizeAfter(rec, loc)
<1>1. size \in Nat /\ rec.size <= size /\ loc < size /\ loc + 1 <= size /\ loc + 1 \in Nat
  BY DEF SizeAfter
<1>2. BlockCount(rec.size) \in Nat /\ BlockCount(loc + 1) \in Nat /\ BlockCount(size) \in Nat
  BY <1>1, CountFacts
<1>3. BlockCount(loc + 1) <= BlockCount(size) /\ BlockCount(rec.size) <= BlockCount(size)
  BY <1>1, CountMonotone
<1>4. BlockCount(loc + 1) = loc \div BYTES_PER_BLOCK + 1
  BY CountFacts
<1>5. loc \div BYTES_PER_BLOCK < BlockCount(size)
  <2>1. loc \div BYTES_PER_BLOCK \in Nat
    BY BlockFacts
  <2> QED
    BY <1>2, <1>3, <1>4, <2>1
<1>6. CASE loc >= rec.size
  <2>1. size = loc + 1
    BY <1>6 DEF SizeAfter
  <2> HIDE DEF size
  <2> QED
    BY <1>1, <1>2, <1>3, <1>5, <2>1 DEF size
<1>7. CASE ~(loc >= rec.size)
  <2>1. size = rec.size
    BY <1>7 DEF SizeAfter
  <2> HIDE DEF size
  <2> QED
    BY <1>1, <1>2, <1>3, <1>5, <2>1 DEF size
<1> QED
  BY <1>6, <1>7

\* The file is as long as it has to be, and has the same bytes.
LEMMA Grown ==
    ASSUME NEW rec, NEW bytes, fat \in [Blocks -> Int], data \in [Blocks -> [Offsets -> Bytes]],
           \A b \in Blocks : b < Reserved => fat[b] = RESERVED_BLOCK,
           Sound(rec, fat, data), Holds(rec, data, bytes), NEW loc \in Nat,
           RoomFor(rec, loc), BlockCount(loc + 1) <= BlockCount(rec.size) + 1
    PROVE  LET g == GrownAfter(rec, loc)
               f2 == ExtAfter(rec, loc).fat
               d2 == ZeroedAfter(rec, loc)
           IN  /\ f2 \in [Blocks -> Int] /\ d2 \in [Blocks -> [Offsets -> Bytes]]
               /\ Sound(g, f2, d2) /\ Holds(g, d2, Lengthened(bytes, SizeAfter(rec, loc)))
               /\ \A b \in Blocks : ~Has(g, b) => f2[b] = fat[b] /\ d2[b] = data[b]
               /\ \A b \in Blocks : Has(rec, b) => Has(g, b)
               /\ \A b \in Blocks : Has(g, b) => Has(rec, b) \/ fat[b] = 0
               /\ g.path = rec.path /\ g.entry = rec.entry /\ g.size = SizeAfter(rec, loc)
               /\ loc \div BYTES_PER_BLOCK < Len(g.alloc_map)
<1> DEFINE size == SizeAfter(rec, loc)
           m == rec.alloc_map
           k == BlockCount(rec.size)
<1>0. PICK g : g = GrownAfter(rec, loc)
  OBVIOUS
<1>1. rec \in CachedRecs /\ rec.size \in Nat /\ m \in Seq(Data) /\ Len(m) = k
  BY DEF Sound, CachedRecs
<1>2. /\ size \in Nat /\ rec.size <= size
      /\ loc \div BYTES_PER_BLOCK < BlockCount(size)
      /\ BlockCount(loc + 1) > k => BlockCount(size) = BlockCount(loc + 1)
      /\ ~(BlockCount(loc + 1) > k) => BlockCount(size) = k
  BY <1>1, SizeFacts
<1>3. k \in Nat /\ BlockCount(loc + 1) \in Nat /\ BlockCount(size) \in Nat
  <2>1. loc + 1 \in Nat
    OBVIOUS
  <2> QED
    BY <1>1, <1>2, <2>1, CountFacts, Zenon
<1>4. CASE ~(BlockCount(loc + 1) > k)
  <2>1. ExtAfter(rec, loc) = [fat |-> fat, map |-> m]
    BY <1>4 DEF ExtAfter
  <2>2. ExtAfter(rec, loc).fat = fat /\ ExtAfter(rec, loc).map = m
    BY <2>1
  <2>3. ZeroedAfter(rec, loc) = data
    <3>1. \A j \in k + 1 .. Len(m) : FALSE
      BY <1>1, <1>3
    <3> QED
      BY <2>2, <3>1 DEF ZeroedAfter
  <2>4. g = [rec EXCEPT !.size = size, !.alloc_map = m]
    BY <1>0, <2>2 DEF GrownAfter
  <2>5. /\ g \in CachedRecs /\ g.size = size /\ g.alloc_map = m
        /\ g.path = rec.path /\ g.entry = rec.entry /\ g.cached_block = rec.cached_block
        /\ g.cache = rec.cache /\ g.cache_status = rec.cache_status
    <3> HIDE DEF size, m
    <3>1. size \in Nat /\ m \in Seq(Data) /\ rec \in CachedRecs
      BY <1>1, <1>2
    <3> QED
      BY <2>4, <3>1 DEF CachedRecs
  <2>6. Sound(g, fat, data) /\ Holds(g, data, Lengthened(bytes, g.size))
    BY <1>2, <1>4, <2>5, GrownWithin
  <2>7. \A b : Has(g, b) <=> Has(rec, b)
    BY <2>5 DEF Has
  <2>8. loc \div BYTES_PER_BLOCK < Len(g.alloc_map)
    BY <1>1, <1>2, <1>4, <2>5
  <2> QED
    BY <1>0, <2>2, <2>3, <2>5, <2>6, <2>7, <2>8
<1>5. CASE BlockCount(loc + 1) > k
  <2>1. BlockCount(loc + 1) = k + 1
    BY <1>3, <1>5
  <2> DEFINE b == FreeBlock(fat)
             f == IF k = 0 THEN fat ELSE [fat EXCEPT ![m[k]] = b]
             f2 == [f EXCEPT ![b] = END_OF_CHAIN]
  <2>2. FreeBlocks(fat) # {}
    <3> SUFFICES ASSUME FreeBlocks(fat) = {} PROVE FALSE
      OBVIOUS
    <3>1. Cardinality(FreeBlocks(fat)) = 0
      BY FS_EmptySet
    <3> QED
      BY <1>3, <1>5, <2>1, <3>1 DEF RoomFor
  <2>3. b \in Blocks /\ fat[b] = 0
    BY <2>2, FreeBlockIs
  <2>4. b \in Data
    <3>1. ~(b < Reserved)
      BY <2>3 DEF RESERVED_BLOCK
    <3> QED
      BY <2>3, <3>1, Constants DEF Data, Blocks
  <2>5. ExtAfter(rec, loc) = [fat |-> f2, map |-> Append(m, b)]
    <3>1. ExtAfter(rec, loc) = Extended(m, k, k + 1)
      BY <1>5, <2>1 DEF ExtAfter
    <3> QED
      BY <1>1, <2>4, <3>1, ExtendedIs
  <2>6. PICK m2 : m2 = Append(m, b)
    OBVIOUS
  <2>7. ExtAfter(rec, loc).fat = f2 /\ ExtAfter(rec, loc).map = m2
    <3>1. \A x : [fat |-> f2, map |-> x].fat = f2 /\ [fat |-> f2, map |-> x].map = x
      OBVIOUS
    <3> HIDE DEF f2, b
    <3> QED
      BY <2>5, <2>6, <3>1, Zenon
  <2>8. m2 \in Seq(Data) /\ Len(m2) = k + 1 /\ m2[k + 1] = b
    BY <1>1, <2>4, <2>6, AppendProperties
  <2>9. \A x \in Blocks : ZeroedAfter(rec, loc)[x] = IF x = b THEN Zeros ELSE data[x]
    <3>1. \A j \in k + 1 .. Len(m2) : j = k + 1
      BY <1>3, <2>8
    <3>2. k + 1 \in k + 1 .. Len(m2)
      BY <1>3, <2>8
    <3> HIDE DEF b
    <3>3. \A x : (\E j \in k + 1 .. Len(m2) : m2[j] = x) <=> x = b
      BY <2>8, <3>1, <3>2
    <3> QED
      BY <2>7, <3>3 DEF ZeroedAfter
  <2>10. ZeroedAfter(rec, loc) \in [Blocks -> [Offsets -> Bytes]]
    <3>1. Zeros \in [Offsets -> Bytes]
      BY Constants DEF Zeros
    <3> QED
      BY <3>1 DEF ZeroedAfter
  <2>11. g = [rec EXCEPT !.size = size, !.alloc_map = m2]
    BY <1>0, <2>7 DEF GrownAfter
  <2>12. /\ g \in CachedRecs /\ g.size = size /\ g.alloc_map = m2
        /\ g.path = rec.path /\ g.entry = rec.entry /\ g.cached_block = rec.cached_block
        /\ g.cache = rec.cache /\ g.cache_status = rec.cache_status
    <3> HIDE DEF size, m
    <3>1. size \in Nat /\ m2 \in Seq(Data) /\ rec \in CachedRecs
      BY <1>1, <1>2, <2>8
    <3> QED
      BY <2>11, <3>1 DEF CachedRecs
  <2>13. k > 0 => m[k] \in Blocks
    <3>1. k > 0 => k \in 1 .. k
      BY <1>3
    <3> QED
      BY <1>1, <3>1, MapFacts
  <2>14. \A x \in Blocks : f2[x] = IF x = b THEN END_OF_CHAIN
                                   ELSE IF k > 0 /\ x = m[k] THEN b ELSE fat[x]
    BY <1>3, <2>13
  <2>15. f2 \in [Blocks -> Int]
    <3>1. END_OF_CHAIN \in Int /\ b \in Int
      <4> HIDE DEF b
      <4> QED
        BY <2>3, Constants DEF END_OF_CHAIN
    <3> QED
      BY <2>3, <2>13, <3>1
  <2> HIDE DEF b, f, f2
  <2>16. /\ Sound(g, f2, ZeroedAfter(rec, loc))
         /\ Holds(g, ZeroedAfter(rec, loc), Lengthened(bytes, g.size))
         /\ \A x \in Blocks : ~Has(g, x) => f2[x] = fat[x] /\ ZeroedAfter(rec, loc)[x] = data[x]
         /\ \A x : Has(g, x) <=> Has(rec, x) \/ x = b
    <3>1. BlockCount(g.size) = BlockCount(rec.size) + 1 /\ rec.size <= g.size
      BY <1>2, <1>5, <2>1, <2>12
    <3>2. g.alloc_map = Append(rec.alloc_map, b)
      BY <2>6, <2>12
    <3>3. \A x \in Blocks : f2[x] = IF x = b THEN END_OF_CHAIN
                                   ELSE IF /\ Len(rec.alloc_map) > 0
                                           /\ x = rec.alloc_map[Len(rec.alloc_map)]
                                        THEN b ELSE fat[x]
      BY <1>1, <2>14
    <3>4. PICK d2 : d2 = ZeroedAfter(rec, loc)
      OBVIOUS
    <3>5. \A x \in Blocks : d2[x] = IF x = b THEN Zeros ELSE data[x]
      BY <2>9, <3>4
    <3> HIDE DEF k, m, size
    <3>6. /\ Sound(g, f2, d2) /\ Holds(g, d2, Lengthened(bytes, g.size))
          /\ \A x \in Blocks : ~Has(g, x) => f2[x] = fat[x] /\ d2[x] = data[x]
          /\ \A x : Has(g, x) <=> Has(rec, x) \/ x = b
      <4>1. GainsBlock(rec, g, fat, f2, data, d2, b)
        BY <2>3, <2>4, <2>12, <3>1, <3>2, <3>3, <3>5 DEF GainsBlock
      <4> QED
        BY <4>1, GrownByBlock
    <3> QED
      BY <3>4, <3>6
  <2>17. loc \div BYTES_PER_BLOCK < Len(g.alloc_map)
    BY <1>2, <1>5, <2>1, <2>8, <2>12
  <2> QED
    BY <1>0, <2>3, <2>7, <2>10, <2>12, <2>15, <2>16, <2>17
<1> QED
  BY <1>4, <1>5

\* A cached block that is marked as dirty is still what it was.
LEMMA Dirtied ==
    ASSUME NEW rec, NEW f, NEW d, NEW bytes, Sound(rec, f, d), Holds(rec, d, bytes),
           rec.cache_status # CACHE_NOTREADY, NEW rec2,
           rec2 = [rec EXCEPT !.cache_status = CACHE_DIRTY]
    PROVE  /\ Sound(rec2, f, d) /\ Holds(rec2, d, bytes) /\ SameFile(rec2, rec)
           /\ rec2.cached_block = rec.cached_block /\ rec2.cache_status = CACHE_DIRTY
<1>1. rec \in CachedRecs
  BY DEF Sound
<1>2. CACHE_READY # CACHE_DIRTY /\ CACHE_NOTREADY # CACHE_DIRTY
  BY DEF CACHE_READY, CACHE_DIRTY, CACHE_NOTREADY
<1>3. /\ rec2 \in CachedRecs /\ SameFile(rec2, rec) /\ rec2.cached_block = rec.cached_block
      /\ rec2.cache_status = CACHE_DIRTY /\ rec2.cache = rec.cache
  <2>1. CACHE_DIRTY \in Statuses3
    BY DEF Statuses3
  <2> QED
    BY <1>1, <2>1 DEF CachedRecs, SameFile
<1>4. Sound(rec2, f, d)
  BY <1>2, <1>3 DEF Sound, SameFile
<1>5. \A loc : Seen1(rec2, d, loc) = Seen1(rec, d, loc)
  BY <1>2, <1>3 DEF Seen1, InCache, Byte, SameFile
<1>6. Holds(rec2, d, bytes)
  BY <1>3, <1>5 DEF Holds, SameFile
<1> QED
  BY <1>3, <1>4, <1>6

\* The block that is written to is in the cache, and nothing is lost.
LEMMA ThereIs ==
    ASSUME NEW rec, NEW f, NEW bytes, NEW loc \in Nat,
           ZeroedAfter(rec, loc) \in [Blocks -> [Offsets -> Bytes]],
           Sound(GrownAfter(rec, loc), f, ZeroedAfter(rec, loc)),
           Holds(GrownAfter(rec, loc), ZeroedAfter(rec, loc), bytes),
           loc \div BYTES_PER_BLOCK < Len(GrownAfter(rec, loc).alloc_map)
    PROVE  LET t == ThereAfter(rec, loc)
           IN  /\ t.data \in [Blocks -> [Offsets -> Bytes]]
               /\ Sound(t.rec, f, t.data) /\ Holds(t.rec, t.data, bytes)
               /\ \A b \in Blocks : ~Has(GrownAfter(rec, loc), b) =>
                     t.data[b] = ZeroedAfter(rec, loc)[b]
               /\ SameFile(t.rec, GrownAfter(rec, loc))
               /\ t.rec.cached_block = loc \div BYTES_PER_BLOCK
               /\ t.rec.cache_status = CACHE_DIRTY
<1>0. PICK g, d : g = GrownAfter(rec, loc) /\ d = ZeroedAfter(rec, loc)
  OBVIOUS
<1>1. PICK blk \in Nat : /\ g = GrownAfter(rec, loc) /\ d = ZeroedAfter(rec, loc)
                        /\ blk = loc \div BYTES_PER_BLOCK
  BY <1>0, BlockFacts, Zenon
<1>2. /\ d \in [Blocks -> [Offsets -> Bytes]] /\ Sound(g, f, d) /\ Holds(g, d, bytes)
      /\ blk < Len(g.alloc_map)
  BY <1>1
<1>3. CASE InCache(g, blk)
  <2>1. PICK g2 : g2 = [g EXCEPT !.cache_status = CACHE_DIRTY]
    OBVIOUS
  <2>2. ThereAfter(rec, loc) = [data |-> d, rec |-> g2]
    BY <1>1, <1>3, <2>1 DEF ThereAfter
  <2>3. ThereAfter(rec, loc).data = d /\ ThereAfter(rec, loc).rec = g2
    BY <2>2
  <2>4. g.cache_status # CACHE_NOTREADY /\ g.cached_block = blk
    BY <1>3 DEF InCache
  <2>5. /\ Sound(g2, f, d) /\ Holds(g2, d, bytes) /\ SameFile(g2, g)
        /\ g2.cached_block = blk /\ g2.cache_status = CACHE_DIRTY
    BY <1>2, <2>1, <2>4, Dirtied
  <2> QED
    BY <1>1, <1>2, <2>3, <2>5
<1>4. CASE ~InCache(g, blk)
  <2>1. PICK t : t = ThereAfter(rec, loc) /\ t = Load(g, blk, d, CACHE_DIRTY)
    BY <1>1, <1>4 DEF ThereAfter
  <2>2. /\ t.data \in [Blocks -> [Offsets -> Bytes]]
        /\ Sound(t.rec, f, t.data) /\ Holds(t.rec, t.data, bytes)
        /\ \A b \in Blocks : ~Has(g, b) => t.data[b] = d[b]
        /\ SameFile(t.rec, g)
        /\ t.rec.cached_block = blk /\ t.rec.cache_status = CACHE_DIRTY
    BY <1>2, <2>1, LoadKeeps
  <2> QED
    BY <1>1, <2>1, <2>2
<1> QED
  BY <1>3, <1>4

\* The bytes of p after the write.
Bytes2(bytes, size, loc, byte) == [Lengthened(bytes, size) EXCEPT ![loc + 1] = byte]

\* The history of a write: the file is lengthened, then one byte changes.
LEMMA ChangedIs ==
    ASSUME NEW p \in DOMAIN files, NEW loc \in Nat, NEW byte, NEW rec, rec.size \in Nat,
           files[p] \in [1 .. rec.size -> Bytes], files = [q \in DOMAIN files |-> files[q]]
    PROVE  Changed(p, loc, byte) = Put(files, p, Bytes2(files[p], SizeAfter(rec, loc), loc, byte))
<1> DEFINE size == SizeAfter(rec, loc)
<1>1. DOMAIN files[p] = 1 .. rec.size
  OBVIOUS
<1>2. size \in Nat /\ DOMAIN files[p] \cup 1 .. loc + 1 = 1 .. size /\ loc + 1 \in 1 .. size
  BY <1>1 DEF SizeAfter
<1> HIDE DEF size
<1>3. [k \in DOMAIN files[p] \cup 1 .. loc + 1 |->
          IF k = loc + 1 THEN byte ELSE IF k \in DOMAIN files[p] THEN files[p][k] ELSE 0]
      = Bytes2(files[p], size, loc, byte)
  BY <1>2 DEF Bytes2, Lengthened
<1>4. Changed(p, loc, byte) = [files EXCEPT ![p] = Bytes2(files[p], size, loc, byte)]
  BY <1>3 DEF Changed
<1> QED
  BY <1>4 DEF Put, size

\* A write changes one byte of one file.
LEMMA WrittenKeeps ==
    ASSUME NEW V, ViewsInv(V, fat, data, files), NEW p \in DOMAIN files,
           NEW loc \in Nat, NEW byte \in Bytes, RoomFor(V[p], loc),
           BlockCount(loc + 1) <= BlockCount(V[p].size) + 1
    PROVE  LET w == Written(V[p], loc, byte)
           IN  /\ ViewsInv(Put(V, p, w.rec), w.fat, w.data, Changed(p, loc, byte))
               /\ w.rec \in CachedRecs
               /\ w.rec.path = V[p].path /\ w.rec.entry = V[p].entry
               /\ V[p].size <= w.rec.size
<1>1. PICK rec, bytes : rec = V[p] /\ bytes = files[p]
  OBVIOUS
<1>2. /\ fat \in [Blocks -> Int] /\ data \in [Blocks -> [Offsets -> Bytes]]
      /\ \A b \in Blocks : b < Reserved => fat[b] = RESERVED_BLOCK
      /\ Sound(rec, fat, data) /\ Holds(rec, data, bytes)
  BY <1>1 DEF ViewsInv
<1>3. PICK g, f2, d2, size : /\ g = GrownAfter(rec, loc) /\ f2 = ExtAfter(rec, loc).fat
                             /\ d2 = ZeroedAfter(rec, loc) /\ size = SizeAfter(rec, loc)
  OBVIOUS
<1>4. /\ f2 \in [Blocks -> Int] /\ d2 \in [Blocks -> [Offsets -> Bytes]]
      /\ Sound(g, f2, d2) /\ Holds(g, d2, Lengthened(bytes, size))
      /\ \A b \in Blocks : ~Has(g, b) => f2[b] = fat[b] /\ d2[b] = data[b]
      /\ \A b \in Blocks : Has(rec, b) => Has(g, b)
      /\ \A b \in Blocks : Has(g, b) => Has(rec, b) \/ fat[b] = 0
      /\ g.path = rec.path /\ g.entry = rec.entry /\ g.size = size
      /\ loc \div BYTES_PER_BLOCK < Len(g.alloc_map)
  BY <1>1, <1>2, <1>3, Grown
<1>5. rec.size \in Nat /\ bytes \in [1 .. rec.size -> Bytes]
  BY <1>2 DEF Sound, CachedRecs, Holds
<1>6. size \in Nat /\ rec.size <= size /\ loc < size
  BY <1>3, <1>5, SizeFacts
<1>7. PICK t, td : t = ThereAfter(rec, loc).rec /\ td = ThereAfter(rec, loc).data
  OBVIOUS
<1>8. /\ td \in [Blocks -> [Offsets -> Bytes]]
      /\ Sound(t, f2, td) /\ Holds(t, td, Lengthened(bytes, size))
      /\ \A b \in Blocks : ~Has(g, b) => td[b] = d2[b]
      /\ SameFile(t, g)
      /\ t.cached_block = loc \div BYTES_PER_BLOCK /\ t.cache_status = CACHE_DIRTY
  BY <1>3, <1>4, <1>7, ThereIs
<1>9. PICK r : r = [t EXCEPT !.cache[loc % BYTES_PER_BLOCK] = byte]
  OBVIOUS
<1>10. /\ Written(rec, loc, byte).fat = f2 /\ Written(rec, loc, byte).data = td
       /\ Written(rec, loc, byte).rec = r
  BY <1>3, <1>7, <1>9, WrittenIs
<1>11. /\ r \in CachedRecs /\ SameFile(r, t) /\ r.cached_block = t.cached_block
       /\ r.cache_status = CACHE_DIRTY
       /\ r.cache = [t.cache EXCEPT ![loc % BYTES_PER_BLOCK] = byte]
  <2>1. t \in CachedRecs
    BY <1>8 DEF Sound
  <2>2. loc % BYTES_PER_BLOCK \in Offsets
    BY BlockFacts
  <2>3. [t.cache EXCEPT ![loc % BYTES_PER_BLOCK] = byte] \in [Offsets -> Bytes]
    BY <2>1, <2>2 DEF CachedRecs
  <2>4. r = [t EXCEPT !.cache = [t.cache EXCEPT ![loc % BYTES_PER_BLOCK] = byte]]
    BY <1>9
  <2>5. PICK c \in [Offsets -> Bytes] : c = [t.cache EXCEPT ![loc % BYTES_PER_BLOCK] = byte]
    BY <2>3
  <2>6. r = [t EXCEPT !.cache = c]
    BY <2>4, <2>5
  <2> QED
    BY <1>8, <2>1, <2>5, <2>6 DEF CachedRecs, SameFile
<1>12. Sound(r, f2, td) /\ Holds(r, td, Bytes2(bytes, size, loc, byte))
  <2>1. InCache(t, loc \div BYTES_PER_BLOCK) /\ loc < t.size
    BY <1>4, <1>6, <1>8 DEF InCache, SameFile, CACHE_DIRTY, CACHE_NOTREADY
  <2> QED
    BY <1>8, <1>11, <2>1, ByteWritten DEF Bytes2
<1>13. \A b : Has(r, b) <=> Has(g, b)
  BY <1>8, <1>11 DEF Has, SameFile
<1>14. ViewsInv(Put(V, p, r), f2, td, Put(files, p, Bytes2(bytes, size, loc, byte)))
  <2>1. PICK b2 : b2 = Bytes2(bytes, size, loc, byte)
    OBVIOUS
  <2>2. ViewsInv(Put(V, p, r), f2, td, Put(files, p, b2))
    <3>1. Owns(r, V[p], fat, f2, data, td)
      BY <1>1, <1>4, <1>8, <1>13 DEF Owns
    <3>2. Sound(r, f2, td) /\ Holds(r, td, b2)
      BY <1>12, <2>1
    <3> QED
      BY <3>1, <3>2, PutView
  <2> QED
    BY <2>1, <2>2
<1>15. Changed(p, loc, byte) = Put(files, p, Bytes2(bytes, size, loc, byte))
  <2>1. files = [q \in DOMAIN files |-> files[q]]
    BY DEF ViewsInv
  <2> QED
    BY <1>1, <1>3, <1>5, <2>1, ChangedIs
<1>16. r.path = rec.path /\ r.entry = rec.entry /\ rec.size <= r.size
  BY <1>4, <1>6, <1>8, <1>11 DEF SameFile
<1> QED
  BY <1>1, <1>10, <1>11, <1>14, <1>15, <1>16

\* A read fetches the block, and the byte is the one that was written.
LEMMA FetchedKeeps ==
    ASSUME NEW V, ViewsInv(V, fat, data, files), NEW p \in DOMAIN files,
           NEW loc \in Nat, loc < V[p].size
    PROVE  LET f == Fetched(V[p], loc)
           IN  /\ ViewsInv(Put(V, p, f.rec), fat, f.data, files)
               /\ f.rec \in CachedRecs
               /\ SameFile(f.rec, V[p])
               /\ Byte(f.rec, loc) = files[p][loc + 1]
<1>1. PICK rec, bytes : rec = V[p] /\ bytes = files[p]
  OBVIOUS
<1>2. /\ fat \in [Blocks -> Int] /\ data \in [Blocks -> [Offsets -> Bytes]]
      /\ Sound(rec, fat, data) /\ Holds(rec, data, bytes)
  BY <1>1 DEF ViewsInv
<1>3. rec \in CachedRecs /\ rec.size \in Nat /\ Len(rec.alloc_map) = BlockCount(rec.size)
  BY <1>2 DEF Sound, CachedRecs
<1>4. PICK blk \in Nat : blk = loc \div BYTES_PER_BLOCK
  BY BlockFacts, Zenon
<1>5. blk < Len(rec.alloc_map)
  <2>1. loc + 1 \in Nat /\ loc + 1 <= rec.size
    BY <1>1, <1>3
  <2>2. BlockCount(loc + 1) <= BlockCount(rec.size)
    BY <1>3, <2>1, CountMonotone
  <2>3. BlockCount(loc + 1) = blk + 1 /\ BlockCount(rec.size) \in Nat
    BY <1>3, <1>4, CountFacts
  <2> QED
    BY <1>3, <2>2, <2>3
<1>6. \E t, td : /\ Fetched(rec, loc).rec = t /\ Fetched(rec, loc).data = td
                 /\ td \in [Blocks -> [Offsets -> Bytes]]
                 /\ Sound(t, fat, td) /\ Holds(t, td, bytes)
                 /\ \A b \in Blocks : ~Has(rec, b) => td[b] = data[b]
                 /\ SameFile(t, rec) /\ InCache(t, blk)
  <2>1. CASE InCache(rec, blk)
    <3>1. Fetched(rec, loc).rec = rec /\ Fetched(rec, loc).data = data
      BY <1>4, <2>1 DEF Fetched
    <3> QED
      BY <1>2, <2>1, <3>1 DEF SameFile
  <2>2. CASE ~InCache(rec, blk)
    <3>1. PICK l : l = Load(rec, blk, data, CACHE_READY) /\ l = Fetched(rec, loc)
      BY <1>4, <2>2 DEF Fetched
    <3>2. /\ l.data \in [Blocks -> [Offsets -> Bytes]]
          /\ Sound(l.rec, fat, l.data) /\ Holds(l.rec, l.data, bytes)
          /\ \A b \in Blocks : ~Has(rec, b) => l.data[b] = data[b]
          /\ SameFile(l.rec, rec)
          /\ l.rec.cached_block = blk /\ l.rec.cache_status = CACHE_READY
      <4>1. PICK d, f, st : d = data /\ f = fat /\ st = CACHE_READY
        OBVIOUS
      <4>2. /\ d \in [Blocks -> [Offsets -> Bytes]] /\ Sound(rec, f, d) /\ Holds(rec, d, bytes)
            /\ st \in {CACHE_READY, CACHE_DIRTY} /\ l = Load(rec, blk, d, st)
        BY <1>2, <3>1, <4>1
      <4>3. /\ l.data \in [Blocks -> [Offsets -> Bytes]]
            /\ Sound(l.rec, f, l.data) /\ Holds(l.rec, l.data, bytes)
            /\ \A b \in Blocks : ~Has(rec, b) => l.data[b] = d[b]
            /\ SameFile(l.rec, rec)
            /\ l.rec.cached_block = blk /\ l.rec.cache_status = st
        BY <1>5, <4>2, LoadKeeps
      <4> QED
        BY <4>1, <4>3
    <3>3. InCache(l.rec, blk)
      BY <3>2 DEF InCache, CACHE_READY, CACHE_NOTREADY
    <3> QED
      BY <3>1, <3>2, <3>3
  <2> QED
    BY <2>1, <2>2
<1>7. PICK t, td : /\ Fetched(rec, loc).rec = t /\ Fetched(rec, loc).data = td
                   /\ td \in [Blocks -> [Offsets -> Bytes]]
                   /\ Sound(t, fat, td) /\ Holds(t, td, bytes)
                   /\ \A b \in Blocks : ~Has(rec, b) => td[b] = data[b]
                   /\ SameFile(t, rec) /\ InCache(t, blk)
  BY <1>6
<1>8. t \in CachedRecs
  BY <1>7 DEF Sound
<1>9. \A b : Has(t, b) <=> Has(rec, b)
  BY <1>7 DEF Has, SameFile
<1>10. ViewsInv(Put(V, p, t), fat, td, Put(files, p, bytes))
  <2>1. Owns(t, V[p], fat, fat, data, td)
    BY <1>1, <1>2, <1>7, <1>9 DEF Owns
  <2> QED
    BY <1>7, <2>1, PutView
<1>11. Put(files, p, bytes) = files
  <2>1. files = [q \in DOMAIN files |-> files[q]]
    BY DEF ViewsInv
  <2> QED
    BY <1>1, <2>1 DEF Put
<1>12. Byte(t, loc) = bytes[loc + 1]
  <2>1. Seen1(t, td, loc) = bytes[loc + 1]
    BY <1>1, <1>4, <1>5, <1>7 DEF Holds, SameFile
  <2> QED
    BY <1>4, <1>7, <2>1 DEF Seen1
<1> QED
  BY <1>1, <1>7, <1>8, <1>10, <1>11, <1>12

(***************************************************************************)
(* What operations find.                                                   *)
(***************************************************************************)

\* What the invariant says of one file.
LEMMA FileFacts ==
    ASSUME NEW V, Are(V), NEW p \in DOMAIN files
    PROVE  /\ p \in FilePaths /\ p \in AllPaths
           /\ V[p].path = p /\ At(p, FILE_TYPE, V[p].entry) /\ V[p].entry \in Slots
           /\ IsFile(V[p].entry)
           /\ Found(p, FILE_TYPE) /\ Target(p, FILE_TYPE) = V[p].entry
           /\ V[p] \in CachedRecs /\ Sound(V[p], fat, data) /\ Chained(V[p].alloc_map, fat)
<1>1. TreeInv /\ Placed(V) /\ ViewsInv(V, fat, data, files)
  BY DEF Are
<1>2. p \in FilePaths /\ p \in AllPaths /\ V[p].path = p /\ At(p, FILE_TYPE, V[p].entry)
  BY <1>1 DEF Placed, AllPaths
<1>3. FILE_TYPE \in Types
  BY DEF Types
<1>4. Found(p, FILE_TYPE) /\ Target(p, FILE_TYPE) = V[p].entry
  BY <1>1, <1>2, <1>3, TargetIs
<1>5. IsFile(V[p].entry)
  BY <1>1, <1>2, Parents DEF IsFile, Live, At
<1>6. V[p] \in CachedRecs /\ Sound(V[p], fat, data) /\ Chained(V[p].alloc_map, fat)
  BY <1>1 DEF ViewsInv, Sound
<1> QED
  BY <1>2, <1>4, <1>5, <1>6 DEF At

\* Two files have two entries.
LEMMA EntryOne ==
    ASSUME NEW V, Are(V), NEW p \in DOMAIN files, NEW q \in DOMAIN files,
           V[p].entry = V[q].entry
    PROVE  p = q
<1>1. FILE_TYPE \in Types /\ TreeInv
  BY DEF Types, Are
<1>2. p \in AllPaths /\ q \in AllPaths
  BY FileFacts
<1>3. At(p, FILE_TYPE, V[p].entry) /\ At(q, FILE_TYPE, V[p].entry)
  BY FileFacts
<1> QED
  BY <1>1, <1>2, <1>3, SamePath

\* The files that are found are those that were made and not removed.
LEMMA FoundIs ==
    ASSUME NEW V, Are(V), NEW p \in FilePaths
    PROVE  Found(p, FILE_TYPE) <=> p \in DOMAIN files
<1>1. TreeInv /\ Placed(V) /\ FILE_TYPE \in Types /\ p \in AllPaths
  BY DEF Are, Types, AllPaths
<1>2. p \in DOMAIN files => Found(p, FILE_TYPE)
  BY FileFacts
<1>3. ASSUME Found(p, FILE_TYPE) PROVE p \in DOMAIN files
  <2>1. PICK s : s = Target(p, FILE_TYPE) /\ At(p, FILE_TYPE, s)
    BY <1>1, <1>3, TargetIs
  <2>2. s \in Slots /\ IsFile(s)
    BY <1>1, <2>1, Parents DEF IsFile, Live, At
  <2>3. PICK q \in DOMAIN files : V[q].entry = s
    BY <1>1, <2>2 DEF Placed
  <2>4. q \in AllPaths /\ At(q, FILE_TYPE, s)
    BY <2>3, FileFacts
  <2>5. p = q
    BY <1>1, <2>1, <2>4, SamePath
  <2> QED
    BY <2>3, <2>5
<1> QED
  BY <1>2, <1>3

\* The cached file of a path is what is seen of it.
LEMMA CachedFileIs ==
    ASSUME NEW V, Are(V), NEW p, Cached(p)
    PROVE  p \in DOMAIN files /\ CachedFile(p) = V[p]
<1>1. PICK c : c = (CHOOSE x \in CachedAt(p) : TRUE)
  OBVIOUS
<1>2. c \in CachedAt(p) /\ CachedFile(p) = cached_files[c]
  BY <1>1 DEF Cached, CachedFile
<1>3. c \in DOMAIN cached_files /\ cached_files[c].path = p
  BY <1>2 DEF CachedAt
<1> QED
  BY <1>2, <1>3 DEF Are, Caches

\* What is cached of a file that is on disk only.
LEMMA NewCachedIs ==
    ASSUME NEW rec \in CachedRecs, Fresh(rec), NEW f \in [Blocks -> Int],
           Chained(rec.alloc_map, f), NEW d,
           d[rec.entry].size = rec.size, d[rec.entry].payload = First(rec.alloc_map)
    PROVE  NewCached(d, f, rec.path, rec.entry) = rec
<1>1. rec.alloc_map \in Seq(Data)
  BY DEF CachedRecs
<1>2. Chain(f, First(rec.alloc_map)) = rec.alloc_map
  BY <1>1, ChainIs
<1>3. NewCached(d, f, rec.path, rec.entry) =
         [path |-> rec.path, entry |-> rec.entry, size |-> rec.size,
          alloc_map |-> rec.alloc_map, cached_block |-> rec.cached_block,
          cache |-> rec.cache, cache_status |-> rec.cache_status]
  BY <1>2 DEF NewCached, Fresh
<1> QED
  BY <1>3 DEF CachedRecs

\* Whoever looks a file up gets what is seen of it.
LEMMA LookedIs ==
    ASSUME NEW V, Are(V), NEW p \in DOMAIN files
    PROVE  Looked(p) = V[p]
<1>1. CASE Cached(p)
  BY <1>1, CachedFileIs DEF Looked
<1>2. CASE ~Cached(p)
  <2>1. PICK rec : rec = V[p]
    OBVIOUS
  <2>2. /\ rec \in CachedRecs /\ Chained(rec.alloc_map, fat) /\ rec.path = p
        /\ rec.entry = Target(p, FILE_TYPE)
    BY <2>1, FileFacts
  <2>3. Fresh(rec) /\ fat \in [Blocks -> Int]
    BY <1>2, <2>1 DEF Are, Caches, ViewsInv
  <2>4. dir[rec.entry].size = rec.size /\ dir[rec.entry].payload = First(rec.alloc_map)
    <3>1. ~Writing(p)
      BY <1>2 DEF Are, HandlesInv, Writing
    <3> QED
      BY <2>1, <3>1 DEF Are, Entries
  <2>5. NewCached(dir, fat, rec.path, rec.entry) = rec
    BY <2>2, <2>3, <2>4, NewCachedIs
  <2> QED
    BY <1>2, <2>1, <2>2, <2>5 DEF Looked
<1> QED
  BY <1>1, <1>2

(***************************************************************************)
(* The parts of the invariant, each after the changes that bear on it.     *)
(***************************************************************************)

\* Paths lead where they led if the directory does not change.
LEMMA SameDirectory ==
    ASSUME TreeInv, dir' = dir
    PROVE  TreeInv' /\ \A q \in AllPaths : Parent(q)' = Parent(q)
<1>1. TreeInv'
  BY DEF TreeInv, Live, IsDir, DirId, SameName
<1> QED
  BY <1>1, SameDirs

\* An entry is rewritten.
LEMMA SameNames ==
    ASSUME TreeInv, NEW p \in AllPaths, NEW s \in Slots, IsFile(s), NEW x \in EntryRecs,
           x.parent_id = dir[s].parent_id, x.type = dir[s].type, x.name = dir[s].name,
           dir' = [dir EXCEPT ![s] = x]
    PROVE  /\ TreeInv' /\ \A q \in AllPaths : Parent(q)' = Parent(q)
           /\ \A t \in Slots : SameKey(t)
<1>1. dir \in [Slots -> EntryRecs]
  BY DEF TreeInv
<1>2. dir' \in [Slots -> EntryRecs] /\ \A t \in Slots : dir'[t] = IF t = s THEN x ELSE dir[t]
  BY <1>1
<1>3. \A t \in Slots : SameKey(t) /\ (dir'[t] = dir[t] \/ IsFile(t))
  BY <1>2 DEF SameKey
<1>4. FileChange(SEARCH_FAILURE, p)
  BY <1>2, <1>3, SlotFacts DEF FileChange
<1> QED
  BY <1>3, <1>4, FileTree

\* Directories keep their paths when files change.
LEMMA DirsPlaced ==
    ASSUME NEW V, Placed(V), \A q \in AllPaths : Parent(q)' = Parent(q),
           \A s \in Slots : IsDir(s)' => SameKey(s)
    PROVE  \A s \in Slots : IsDir(s)' => \E q \in DirPaths : At(q, DIRECTORY_TYPE, s)'
<1> SUFFICES ASSUME NEW s \in Slots, IsDir(s)'
             PROVE  \E q \in DirPaths : At(q, DIRECTORY_TYPE, s)'
  OBVIOUS
<1>1. SameKey(s) /\ IsDir(s)
  BY DEF IsDir, SameKey
<1>2. PICK q \in DirPaths : At(q, DIRECTORY_TYPE, s)
  BY <1>1 DEF Placed
<1>3. Parent(q)' = Parent(q)
  BY DEF AllPaths
<1>4. At(q, DIRECTORY_TYPE, s)'
  BY <1>1, <1>2, <1>3 DEF At, SameKey
<1> QED
  BY <1>4

\* Files keep their paths when no entry changes its name.
LEMMA PlacedKept ==
    ASSUME NEW V, Placed(V), NEW W, DOMAIN files' = DOMAIN files,
           \A q \in AllPaths : Parent(q)' = Parent(q), \A s \in Slots : SameKey(s),
           \A q \in DOMAIN files : W[q].path = V[q].path /\ W[q].entry = V[q].entry
    PROVE  Placed(W)'
<1>1. \A q \in DOMAIN files : q \in AllPaths
  BY DEF Placed, AllPaths
<1>2. ASSUME NEW q \in DOMAIN files PROVE At(q, FILE_TYPE, W[q].entry)'
  BY <1>1, <1>2 DEF Placed, At, SameKey
<1>3. \A s \in Slots : IsFile(s)' => IsFile(s)
  BY DEF IsFile, Live, SameKey
<1>4. \A s \in Slots : IsDir(s)' => \E q \in DirPaths : At(q, DIRECTORY_TYPE, s)'
  BY DirsPlaced
<1> QED
  BY <1>2, <1>3, <1>4 DEF Placed

\* The list stays as it is.
LEMMA CachesSame ==
    ASSUME NEW V, Caches(V), NEW W, cached_files' = cached_files,
           \A q \in DOMAIN files' : (q \in DOMAIN files /\ W[q] = V[q]) \/ (~Cached(q) /\ Fresh(W[q])),
           \A q \in DOMAIN files : Cached(q) => q \in DOMAIN files' /\ W[q] = V[q]
    PROVE  Caches(W)' /\ \A q : Cached(q)' <=> Cached(q)
<1>1. \A q : Cached(q)' <=> Cached(q)
  BY DEF Cached, CachedAt
<1>2. \A c \in DOMAIN cached_files : Cached(cached_files[c].path)
  BY DEF Cached, CachedAt
<1>3. ASSUME NEW c \in DOMAIN cached_files
      PROVE  /\ cached_files[c].path \in DOMAIN files'
             /\ cached_files[c] = W[cached_files[c].path]
  BY <1>2 DEF Caches
<1>4. ASSUME NEW q \in DOMAIN files', ~Cached(q) PROVE Fresh(W[q])
  BY <1>4 DEF Caches
<1> QED
  BY <1>1, <1>3, <1>4 DEF Caches

\* A cached file is added to the list.
LEMMA CachesAppend ==
    ASSUME NEW V, Caches(V), NEW W, NEW p \in DOMAIN files', ~Cached(p),
           W[p] \in CachedRecs, W[p].path = p, cached_files' = Append(cached_files, W[p]),
           DOMAIN files \subseteq DOMAIN files',
           \A q \in DOMAIN files' \ {p} : q \in DOMAIN files /\ W[q] = V[q]
    PROVE  Caches(W)' /\ \A q : Cached(q)' <=> Cached(q) \/ q = p
<1>1. PICK L \in Nat : L = Len(cached_files) /\ DOMAIN cached_files = 1 .. L
  BY LenProperties DEF Caches
<1>2. /\ cached_files' \in Seq(CachedRecs) /\ Len(cached_files') = L + 1
      /\ \A c \in 1 .. L : cached_files'[c] = cached_files[c]
      /\ cached_files'[L + 1] = W[p]
  BY <1>1, AppendProperties DEF Caches
<1>3. DOMAIN cached_files' = 1 .. L + 1
  BY <1>2, LenProperties
<1>4. \A c \in 1 .. L + 1 : c \in 1 .. L \/ c = L + 1
  OBVIOUS
<1>5. \A c \in 1 .. L : c \in 1 .. L + 1
  OBVIOUS
<1>6. L + 1 \in 1 .. L + 1 /\ \A c \in 1 .. L : c # L + 1
  OBVIOUS
<1>7. \A c \in 1 .. L : cached_files[c].path # p
  BY <1>1 DEF Cached, CachedAt
<1>8. \A q : Cached(q)' <=> Cached(q) \/ q = p
  <2> SUFFICES ASSUME NEW q PROVE Cached(q)' <=> Cached(q) \/ q = p
    OBVIOUS
  <2>1. Cached(q) <=> \E c \in 1 .. L : cached_files[c].path = q
    BY <1>1 DEF Cached, CachedAt
  <2>2. Cached(q)' <=> \E c \in 1 .. L + 1 : cached_files'[c].path = q
    BY <1>3 DEF Cached, CachedAt
  <2> QED
    BY <1>2, <1>4, <1>5, <1>6, <2>1, <2>2
<1>9. ASSUME NEW c \in 1 .. L + 1, NEW e \in 1 .. L + 1,
             cached_files'[c].path = cached_files'[e].path
      PROVE  c = e
  BY <1>1, <1>2, <1>4, <1>7, <1>9 DEF Caches
<1>10. ASSUME NEW c \in 1 .. L + 1
       PROVE  /\ cached_files'[c].path \in DOMAIN files'
              /\ cached_files'[c] = W[cached_files'[c].path]
  <2>1. CASE c = L + 1
    BY <1>2, <2>1
  <2>2. CASE c \in 1 .. L
    BY <1>1, <1>2, <1>7, <2>2 DEF Caches
  <2> QED
    BY <1>4, <2>1, <2>2
<1>11. ASSUME NEW q \in DOMAIN files', ~Cached(q)' PROVE Fresh(W[q])
  BY <1>8, <1>11 DEF Caches
<1> QED
  BY <1>2, <1>3, <1>8, <1>9, <1>10, <1>11 DEF Caches

\* A cached file of the list changes.
LEMMA CachesUpdated ==
    ASSUME NEW V, Caches(V), NEW p \in DOMAIN files, NEW rec \in CachedRecs, rec.path = p,
           Cached(p), cached_files' = Updated(rec), DOMAIN files' = DOMAIN files, NEW W,
           W[p] = rec, \A q \in DOMAIN files : q # p => W[q] = V[q]
    PROVE  Caches(W)' /\ \A q : Cached(q)' <=> Cached(q)
<1>1. PICK L \in Nat : L = Len(cached_files) /\ DOMAIN cached_files = 1 .. L
  BY LenProperties DEF Caches
<1>2. \A c \in 1 .. L : cached_files[c] \in CachedRecs
  BY <1>1, ElementOfSeq DEF Caches
<1>3. cached_files' = [c \in 1 .. L |-> IF cached_files[c].path = p THEN rec ELSE cached_files[c]]
  BY <1>1 DEF Updated
<1>4. \A c \in 1 .. L : /\ cached_files'[c] \in CachedRecs
                        /\ cached_files'[c].path = cached_files[c].path
                        /\ cached_files'[c] = IF cached_files[c].path = p THEN rec ELSE cached_files[c]
  BY <1>2, <1>3
<1>5. DOMAIN cached_files' = 1 .. L
  BY <1>3
<1>6. cached_files' \in Seq(CachedRecs)
  <2>1. cached_files' \in [1 .. L -> CachedRecs]
    BY <1>3, <1>4
  <2> QED
    BY <2>1, SeqDef
<1>7. \A q : Cached(q)' <=> Cached(q)
  BY <1>1, <1>4, <1>5 DEF Cached, CachedAt
<1>8. ASSUME NEW c \in 1 .. L
      PROVE  /\ cached_files'[c].path \in DOMAIN files'
             /\ cached_files'[c] = W[cached_files'[c].path]
  BY <1>1, <1>4 DEF Caches
<1>9. ASSUME NEW q \in DOMAIN files', ~Cached(q)' PROVE Fresh(W[q])
  BY <1>7, <1>9 DEF Caches
<1>10. \A c, e \in 1 .. L : cached_files'[c].path = cached_files'[e].path => c = e
  BY <1>1, <1>4 DEF Caches
<1> QED
  BY <1>5, <1>6, <1>7, <1>8, <1>9, <1>10 DEF Caches

\* A cached file is taken out of the list.
LEMMA CachesShifted ==
    ASSUME NEW V, Caches(V), NEW p, Cached(p),
           cached_files' = Shifted(CHOOSE c \in CachedAt(p) : TRUE),
           DOMAIN files' = DOMAIN files \ {p}, NEW W, \A q \in DOMAIN files' : W[q] = V[q]
    PROVE  Caches(W)'
<1>1. PICK L \in Nat : L = Len(cached_files) /\ DOMAIN cached_files = 1 .. L
  BY LenProperties DEF Caches
<1>2. \A c \in 1 .. L : cached_files[c] \in CachedRecs
  BY <1>1, ElementOfSeq DEF Caches
<1>3. PICK c \in 1 .. L : /\ c = (CHOOSE x \in CachedAt(p) : TRUE)
                          /\ cached_files[c].path = p
  BY <1>1 DEF Cached, CachedAt
<1>4. L - 1 \in Nat
  OBVIOUS
<1> DEFINE to(i) == IF i < c THEN i ELSE i + 1
<1>5. \A i \in 1 .. L - 1 : to(i) \in 1 .. L /\ to(i) # c
  BY <1>4
<1>6. \A i, j \in 1 .. L - 1 : to(i) = to(j) => i = j
  BY <1>4
<1>7. \A x \in 1 .. L : x # c => \E i \in 1 .. L - 1 : to(i) = x
  <2> SUFFICES ASSUME NEW x \in 1 .. L, x # c PROVE \E i \in 1 .. L - 1 : to(i) = x
    OBVIOUS
  <2>1. CASE x < c
    <3>1. x \in 1 .. L - 1 /\ to(x) = x
      BY <2>1
    <3> QED
      BY <3>1
  <2>2. CASE c < x
    <3>1. x - 1 \in 1 .. L - 1 /\ to(x - 1) = x
      BY <2>2
    <3> QED
      BY <3>1
  <2> QED
    BY <2>1, <2>2
<1>8. cached_files' = [i \in 1 .. L - 1 |-> cached_files[to(i)]]
  BY <1>1, <1>3 DEF Shifted
<1> HIDE DEF to
<1>9. DOMAIN cached_files' = 1 .. L - 1 /\ \A i \in 1 .. L - 1 : cached_files'[i] = cached_files[to(i)]
  BY <1>8
<1>10. cached_files' \in Seq(CachedRecs)
  <2>1. cached_files' \in [1 .. L - 1 -> CachedRecs]
    BY <1>2, <1>5, <1>8
  <2> QED
    BY <1>4, <2>1, SeqDef
<1>11. \A x, y \in 1 .. L : cached_files[x].path = cached_files[y].path => x = y
  BY <1>1 DEF Caches
<1>12. ASSUME NEW i \in 1 .. L - 1, NEW j \in 1 .. L - 1,
              cached_files'[i].path = cached_files'[j].path
       PROVE  i = j
  BY <1>5, <1>6, <1>9, <1>11, <1>12
<1>13. ASSUME NEW i \in 1 .. L - 1
       PROVE  /\ cached_files'[i].path \in DOMAIN files'
              /\ cached_files'[i] = W[cached_files'[i].path]
  <2>1. cached_files[to(i)].path # p
    BY <1>3, <1>5, <1>11
  <2>2. /\ cached_files[to(i)].path \in DOMAIN files
        /\ cached_files[to(i)] = V[cached_files[to(i)].path]
    BY <1>1, <1>5 DEF Caches
  <2> QED
    BY <1>9, <2>1, <2>2
<1>14. ASSUME NEW q \in DOMAIN files', ~Cached(q)' PROVE Fresh(W[q])
  <2>1. ~Cached(q)
    <3> SUFFICES ASSUME Cached(q) PROVE FALSE
      OBVIOUS
    <3>1. PICK x \in 1 .. L : cached_files[x].path = q
      BY <1>1 DEF Cached, CachedAt
    <3>2. x # c
      BY <1>3, <3>1, <1>14
    <3>3. PICK i \in 1 .. L - 1 : to(i) = x
      BY <1>7, <3>2
    <3>4. i \in DOMAIN cached_files' /\ cached_files'[i].path = q
      BY <1>9, <3>1, <3>3
    <3> QED
      BY <1>14, <3>4 DEF Cached, CachedAt
  <2> QED
    BY <2>1, <1>14 DEF Caches
<1> QED
  BY <1>9, <1>10, <1>12, <1>13, <1>14 DEF Caches

(* Handles *)

Points(V, r) ==
    r.current => r.path \in DOMAIN files /\ Cached(r.path) /\ r.end <= V[r.path].size

\* Cached files stay, and do not shrink.
Grows(V, W) ==
    \A q \in DOMAIN files : Cached(q) =>
        /\ q \in DOMAIN files' /\ Cached(q)'
        /\ \A n \in Nat : n <= V[q].size => n <= W[q].size

\* A handle points to the same file, which has not shrunk.
LEMMA PointsKept ==
    ASSUME NEW V, HandlesInv(V), NEW W, Grows(V, W), NEW h \in 1 .. MaxHandles, NEW r,
           r = handles[h]
    PROVE  Points(W, r)'
<1> SUFFICES ASSUME r.current
             PROVE  r.path \in DOMAIN files' /\ Cached(r.path)' /\ r.end <= W[r.path].size
  BY DEF Points
<1>1. h \in DOMAIN handles /\ r \in HandleRecs
  BY DEF HandlesInv
<1>2. r.path \in DOMAIN files /\ Cached(r.path) /\ r.end <= V[r.path].size
  BY <1>1 DEF HandlesInv
<1>3. r.end \in Nat
  BY <1>1 DEF HandleRecs
<1> QED
  BY <1>2, <1>3 DEF Grows

\* The invariant of the handles, from each of them.
LEMMA HandlesFrom ==
    ASSUME NEW W, handles' \in [1 .. MaxHandles -> HandleRecs], op' \in OpRecs,
           op'.type # "none" => op'.handle \in DOMAIN handles' /\ handles'[op'.handle].current,
           \A h \in 1 .. MaxHandles : \E r : r = handles'[h] /\ Points(W, r)'
    PROVE  HandlesInv(W)'
<1>1. DOMAIN handles' = 1 .. MaxHandles
  OBVIOUS
<1>2. ASSUME NEW h \in 1 .. MaxHandles, handles'[h].current
      PROVE  (/\ handles[h].path \in DOMAIN files
              /\ Cached(handles[h].path)
              /\ handles[h].end <= W[handles[h].path].size)'
  <2>1. PICK r : r = handles'[h] /\ Points(W, r)'
    OBVIOUS
  <2>2. r.path \in DOMAIN files' /\ Cached(r.path)' /\ r.end <= W[r.path].size
    BY <1>2, <2>1 DEF Points
  <2> QED
    BY <2>1, <2>2 DEF Cached, CachedAt
<1> QED
  BY <1>1, <1>2 DEF HandlesInv

\* A handle that is free points nowhere.
LEMMA NoHandleFacts ==
    /\ NoHandle \in HandleRecs /\ ~NoHandle.current
    /\ \A b \in BOOLEAN : [NoHandle EXCEPT !.free = b] \in HandleRecs
                          /\ ~[NoHandle EXCEPT !.free = b].current
<1>1. PICK e \in FilePaths \cup {<<>>} : e = <<>>
  OBVIOUS
<1>2. NoHandle = [free |-> TRUE, path |-> e, ptr |-> 0, begin |-> 0, end |-> 0, current |-> FALSE]
  BY <1>1 DEF NoHandle
<1> QED
  BY <1>2 DEF HandleRecs

\* When the list has moved no handle points into it.
LEMMA MovedFacts ==
    ASSUME NEW V, HandlesInv(V)
    PROVE  Moved \in [1 .. MaxHandles -> HandleRecs] /\ \A h \in 1 .. MaxHandles : ~Moved[h].current
<1>1. handles \in [1 .. MaxHandles -> HandleRecs]
  BY DEF HandlesInv
<1>2. \A h \in 1 .. MaxHandles : handles[h].free \in BOOLEAN
  BY <1>1 DEF HandleRecs
<1>3. DOMAIN handles = 1 .. MaxHandles
  BY <1>1
<1> HIDE DEF NoHandle
<1>4. \A h \in 1 .. MaxHandles : /\ [NoHandle EXCEPT !.free = handles[h].free] \in HandleRecs
                                 /\ ~[NoHandle EXCEPT !.free = handles[h].free].current
  BY <1>2, NoHandleFacts
<1> QED
  BY <1>3, <1>4 DEF Moved

\* No read or write is under way.
LEMMA IdleFacts == Idle \in OpRecs /\ Idle.type = "none"
  BY DEF Idle, OpRecs

\* The list moves.
LEMMA HandlesMoved ==
    ASSUME NEW V, HandlesInv(V), NEW W, handles' = Moved, op' = Idle
    PROVE  HandlesInv(W)'
<1>1. Moved \in [1 .. MaxHandles -> HandleRecs] /\ \A h \in 1 .. MaxHandles : ~Moved[h].current
  BY MovedFacts
<1>2. \A h \in 1 .. MaxHandles : \E r : r = handles'[h] /\ Points(W, r)'
  BY <1>1 DEF Points
<1> QED
  BY <1>1, <1>2, IdleFacts, HandlesFrom

\* The handles stay as they are.
LEMMA HandlesSame ==
    ASSUME NEW V, HandlesInv(V), NEW W, Grows(V, W), handles' = handles, op' \in OpRecs,
           op'.type # "none" => op.type # "none" /\ op'.handle = op.handle
    PROVE  HandlesInv(W)'
<1>1. \A h \in 1 .. MaxHandles : \E r : r = handles'[h] /\ Points(W, r)'
  <2> SUFFICES ASSUME NEW h \in 1 .. MaxHandles PROVE \E r : r = handles'[h] /\ Points(W, r)'
    OBVIOUS
  <2>1. PICK r : r = handles[h]
    OBVIOUS
  <2>2. Points(W, r)'
    BY <2>1, PointsKept
  <2> QED
    BY <2>1, <2>2
<1>2. handles' \in [1 .. MaxHandles -> HandleRecs]
  BY DEF HandlesInv
<1>3. op'.type # "none" => op'.handle \in DOMAIN handles' /\ handles'[op'.handle].current
  BY DEF HandlesInv
<1> QED
  BY <1>1, <1>2, <1>3, HandlesFrom

\* One handle is replaced, or those that were are gone and one is new.
LEMMA HandlesOne ==
    ASSUME NEW V, HandlesInv(V), NEW W, NEW x \in 1 .. MaxHandles, NEW new \in HandleRecs,
           Points(W, new)', op' = Idle,
           \/ handles' = [handles EXCEPT ![x] = new] /\ Grows(V, W)
           \/ handles' = [Moved EXCEPT ![x] = new]
    PROVE  HandlesInv(W)'
<1>1. handles \in [1 .. MaxHandles -> HandleRecs]
  BY DEF HandlesInv
<1>2. Moved \in [1 .. MaxHandles -> HandleRecs] /\ \A h \in 1 .. MaxHandles : ~Moved[h].current
  BY MovedFacts
<1>3. CASE handles' = [handles EXCEPT ![x] = new] /\ Grows(V, W)
  <2>1. \A h \in 1 .. MaxHandles : \E r : r = handles'[h] /\ Points(W, r)'
    <3> SUFFICES ASSUME NEW h \in 1 .. MaxHandles PROVE \E r : r = handles'[h] /\ Points(W, r)'
      OBVIOUS
    <3>1. CASE h = x
      BY <1>1, <1>3, <3>1
    <3>2. CASE h # x
      <4>1. PICK r : r = handles[h]
        OBVIOUS
      <4>2. Points(W, r)'
        BY <1>3, <4>1, PointsKept
      <4> QED
        BY <1>1, <1>3, <3>2, <4>1, <4>2
    <3> QED
      BY <3>1, <3>2
  <2>2. handles' \in [1 .. MaxHandles -> HandleRecs]
    BY <1>1, <1>3
  <2> QED
    BY <2>1, <2>2, IdleFacts, HandlesFrom
<1>4. CASE handles' = [Moved EXCEPT ![x] = new]
  <2>1. handles' \in [1 .. MaxHandles -> HandleRecs]
    BY <1>2, <1>4
  <2>2. \A h \in 1 .. MaxHandles : handles'[h] = IF h = x THEN new ELSE Moved[h]
    BY <1>2, <1>4
  <2>3. \A h \in 1 .. MaxHandles : \E r : r = handles'[h] /\ Points(W, r)'
    <3> SUFFICES ASSUME NEW h \in 1 .. MaxHandles PROVE \E r : r = handles'[h] /\ Points(W, r)'
      OBVIOUS
    <3>1. CASE h = x
      BY <2>2, <3>1
    <3>2. CASE h # x
      <4>1. PICK r : r = handles'[h]
        OBVIOUS
      <4>2. ~r.current
        BY <1>2, <2>2, <3>2, <4>1
      <4> QED
        BY <4>1, <4>2 DEF Points
    <3> QED
      BY <3>1, <3>2
  <2> QED
    BY <2>1, <2>3, IdleFacts, HandlesFrom
<1> QED
  BY <1>3, <1>4

(***************************************************************************)
(* Steps on handles only.                                                  *)
(***************************************************************************)

\* Files that stay as they are do not shrink.
LEMMA GrowsSame ==
    ASSUME NEW V, cached_files' = cached_files, DOMAIN files' = DOMAIN files
    PROVE  Grows(V, V)
  BY DEF Grows, Cached, CachedAt

\* A step that leaves the disk and the list alone.
LEMMA QuietStep ==
    ASSUME NEW V, Are(V), UNCHANGED <<disk, cached_files, files, misread>>, op.type # "write",
           HandlesInv(V)'
    PROVE  Are(V)'
<1>1. dir' = dir /\ fat' = fat /\ data' = data
  BY DEF disk
<1>2. TreeInv' /\ \A q \in AllPaths : Parent(q)' = Parent(q)
  BY <1>1, SameDirectory DEF Are
<1>3. Placed(V)'
  <2>1. \A s \in Slots : SameKey(s)
    BY <1>1 DEF SameKey
  <2>2. Placed(V) /\ DOMAIN files' = DOMAIN files
    BY DEF Are
  <2> QED
    BY <1>2, <2>1, <2>2, PlacedKept
<1>4. Caches(V)'
  <2>1. Caches(V) /\ files' = files /\ cached_files' = cached_files
    BY DEF Are
  <2> QED
    BY <2>1, CachesSame
<1>5. Entries(V)'
  BY <1>1 DEF Are, Entries, Writing
<1>6. ViewsInv(V, fat, data, files)'
  BY <1>1 DEF Are
<1>7. ~misread'
  BY DEF Are
<1> QED
  BY <1>2, <1>3, <1>4, <1>5, <1>6, <1>7 DEF Are

\* A new handle gets the first free place.
LEMMA FreeHandleIs ==
    ASSUME NEW V, HandlesInv(V), FreeHandles # {}
    PROVE  FreeHandle \in 1 .. MaxHandles
<1>1. FreeHandles \subseteq 1 .. MaxHandles
  BY DEF FreeHandles, HandlesInv
<1>2. FreeHandles \subseteq Nat
  BY <1>1
<1>3. FreeHandle \in FreeHandles
  BY <1>2, Least DEF FreeHandle
<1> QED
  BY <1>1, <1>3

\* Operations begin when no read or write is under way.
LEMMA ReadyFacts ==
    ASSUME Ready
    PROVE  op = Idle /\ op.type = "none" /\ op.type # "write" /\ \A q : ~Writing(q)
  BY IdleFacts DEF Ready, Writing

\* A handle whose position changes.
LEMMA HandleRec ==
    ASSUME NEW r \in HandleRecs, NEW to \in Nat, NEW new, new = [r EXCEPT !.ptr = to]
    PROVE  /\ new \in HandleRecs
           /\ new.current = r.current /\ new.path = r.path /\ new.end = r.end
  BY DEF HandleRecs

\* The pointer of a handle is moved.
LEMMA HandleMoved ==
    ASSUME NEW V, HandlesInv(V), Grows(V, V), NEW h \in 1 .. MaxHandles, NEW to \in Nat,
           handles' = [handles EXCEPT ![h].ptr = to], op' = Idle
    PROVE  HandlesInv(V)'
<1>1. PICK r : r = handles[h]
  OBVIOUS
<1>2. r \in HandleRecs
  BY <1>1 DEF HandlesInv
<1>3. PICK new : new = [r EXCEPT !.ptr = to]
  OBVIOUS
<1>4. new \in HandleRecs /\ new.current = r.current /\ new.path = r.path /\ new.end = r.end
  BY <1>2, <1>3, HandleRec
<1>5. Points(V, r)'
  BY <1>1, PointsKept
<1>6. Points(V, new)'
  BY <1>4, <1>5 DEF Points
<1>7. handles' = [handles EXCEPT ![h] = new]
  BY <1>1, <1>3
<1> QED
  BY <1>4, <1>6, <1>7, HandlesOne

\* Close, fork, seek, and the beginning of a read or write.
LEMMA HandleStep ==
    ASSUME NEW V, Are(V), status = "ok", NEW h \in DOMAIN handles, ByHandle(h)
    PROVE  status' # "ok" \/ Are(V)'
<1>1. HandlesInv(V) /\ h \in 1 .. MaxHandles
  BY DEF Are, HandlesInv
<1>2. CASE Close(h)
  <2>1. UNCHANGED <<disk, cached_files, files, misread>> /\ op' = Idle /\ Grows(V, V) /\ op.type # "write"
    BY <1>2, ReadyFacts, GrowsSame DEF Close
  <2>2. HandlesInv(V)'
    <3>1. PICK n \in HandleRecs : n = NoHandle
      BY NoHandleFacts
    <3>2. Points(V, n)'
      BY <3>1, NoHandleFacts DEF Points
    <3>3. handles' = [handles EXCEPT ![h] = n]
      BY <1>2, <3>1 DEF Close
    <3> QED
      BY <1>1, <2>1, <3>2, <3>3, HandlesOne
  <2> QED
    BY <2>1, <2>2, QuietStep
<1>3. CASE Fork(h)
  <2>1. UNCHANGED <<disk, cached_files, files, misread>> /\ op' = Idle /\ Grows(V, V) /\ op.type # "write"
    BY <1>3, ReadyFacts, GrowsSame DEF Fork
  <2>2. PICK r : r = handles[h]
    OBVIOUS
  <2>3. r \in HandleRecs /\ Points(V, r)'
    BY <1>1, <2>1, <2>2, PointsKept DEF HandlesInv
  <2>4. FreeHandle \in 1 .. MaxHandles /\ handles' = [handles EXCEPT ![FreeHandle] = r]
    BY <1>1, <1>3, <2>2, FreeHandleIs DEF Fork
  <2>5. HandlesInv(V)'
    BY <1>1, <2>1, <2>3, <2>4, HandlesOne
  <2> QED
    BY <2>1, <2>5, QuietStep
<1>4. ASSUME NEW to \in 0 .. MaxSize, Seek(h, to) PROVE Are(V)'
  <2>1. UNCHANGED <<disk, cached_files, files, misread>> /\ op' = Idle /\ Grows(V, V) /\ op.type # "write"
    BY <1>4, ReadyFacts, GrowsSame DEF Seek
  <2>2. to \in Nat
    BY EchfsAssumption
  <2>3. HandlesInv(V)'
    BY <1>1, <1>4, <2>1, <2>2, HandleMoved DEF Seek
  <2> QED
    BY <2>1, <2>3, QuietStep
<1>5. ASSUME NEW type \in {"read", "write"}, NEW len \in Lens, Begin(type, h, len)
      PROVE  status' # "ok" \/ Are(V)'
  <2>1. op.type # "write"
    BY <1>5, ReadyFacts DEF Begin
  <2>2. CASE ~handles[h].current
    BY <1>5, <2>2 DEF Begin, Ends
  <2>3. CASE handles[h].current
    <3>1. /\ UNCHANGED <<disk, cached_files, files, misread>> /\ handles' = handles
          /\ op' = [type |-> type, handle |-> h, left |-> len, loc |-> handles[h].ptr]
      BY <1>5, <2>3 DEF Begin
    <3>2. handles[h] \in HandleRecs /\ handles[h].ptr \in Nat /\ len \in Nat /\ h \in Nat
      BY <1>1, EchfsAssumption DEF HandlesInv, HandleRecs
    <3>3. op' \in OpRecs /\ op'.handle = h
      BY <3>1, <3>2 DEF OpRecs
    <3>4. Grows(V, V)
      BY <3>1, GrowsSame
    <3>5. \A g \in 1 .. MaxHandles : \E r : r = handles'[g] /\ Points(V, r)'
      <4> SUFFICES ASSUME NEW g \in 1 .. MaxHandles PROVE \E r : r = handles'[g] /\ Points(V, r)'
        OBVIOUS
      <4>1. PICK r : r = handles[g]
        OBVIOUS
      <4>2. Points(V, r)'
        BY <1>1, <3>4, <4>1, PointsKept
      <4> QED
        BY <3>1, <4>1, <4>2
    <3>6. handles' \in [1 .. MaxHandles -> HandleRecs]
      BY <1>1, <3>1 DEF HandlesInv
    <3>7. HandlesInv(V)'
      BY <2>3, <3>1, <3>3, <3>5, <3>6, HandlesFrom
    <3> QED
      BY <2>1, <3>1, <3>7, QuietStep
  <2> QED
    BY <2>2, <2>3
<1> QED
  BY <1>2, <1>3, <1>4, <1>5 DEF ByHandle

\* The end of echfs_uread.
LEMMA UreadDoneStep ==
    ASSUME NEW V, Are(V), UreadDone
    PROVE  Are(V)'
<1>1. HandlesInv(V) /\ op.handle \in 1 .. MaxHandles /\ op.loc \in Nat
  <2>1. HandlesInv(V)
    BY DEF Are
  <2>2. op.type = "read"
    BY DEF UreadDone
  <2> QED
    BY <2>1, <2>2 DEF HandlesInv, OpRecs
<1>2. /\ UNCHANGED <<disk, cached_files, files, misread>> /\ op' = Idle /\ Grows(V, V)
      /\ op.type # "write"
  BY GrowsSame DEF UreadDone
<1>3. PICK h \in 1 .. MaxHandles, to \in Nat : h = op.handle /\ to = op.loc
  BY <1>1
<1>4. handles' = [handles EXCEPT ![h].ptr = to]
  BY <1>3 DEF UreadDone
<1>5. HandlesInv(V)'
  BY <1>1, <1>2, <1>3, <1>4, HandleMoved
<1> QED
  BY <1>2, <1>5, QuietStep

(***************************************************************************)
(* Steps on a file that stays where it is.                                 *)
(***************************************************************************)

\* The entry made of a cached file keeps its name.
LEMMA EntryOfFacts ==
    ASSUME TreeInv, NEW rec \in CachedRecs
    PROVE  /\ EntryOf(rec) \in EntryRecs
           /\ EntryOf(rec).parent_id = dir[rec.entry].parent_id
           /\ EntryOf(rec).type = dir[rec.entry].type /\ EntryOf(rec).name = dir[rec.entry].name
           /\ EntryOf(rec).size = rec.size /\ EntryOf(rec).payload = First(rec.alloc_map)
<1>1. PICK e : e = dir[rec.entry]
  OBVIOUS
<1>2. e \in EntryRecs /\ rec.size \in Nat
  BY <1>1 DEF TreeInv, CachedRecs
<1>3. First(rec.alloc_map) \in Int
  <2>1. rec.alloc_map = <<>> \/ 1 \in 1 .. Len(rec.alloc_map)
    <3>1. rec.alloc_map \in Seq(Data)
      BY DEF CachedRecs
    <3>2. Len(rec.alloc_map) \in Nat /\ (Len(rec.alloc_map) = 0 <=> rec.alloc_map = <<>>)
      BY <3>1, EmptySeq, LenProperties
    <3> QED
      BY <3>2
  <2>2. 1 \in 1 .. Len(rec.alloc_map) => rec.alloc_map[1] \in Blocks
    BY MapFacts
  <2>3. \A x \in Blocks : x \in Int
    BY Constants
  <2>4. END_OF_CHAIN \in Int
    BY DEF END_OF_CHAIN
  <2> QED
    BY <2>1, <2>2, <2>3, <2>4 DEF First
<1>4. EntryOf(rec) = [e EXCEPT !.size = rec.size, !.payload = First(rec.alloc_map)]
  BY <1>1 DEF EntryOf, First
<1>5. PICK x \in Int, n \in Nat : x = First(rec.alloc_map) /\ n = rec.size
  BY <1>2, <1>3
<1>6. EntryOf(rec) = [e EXCEPT !.size = n, !.payload = x]
  BY <1>4, <1>5
<1>7. PICK y : y = EntryOf(rec)
  OBVIOUS
<1>8. /\ y \in EntryRecs /\ y.parent_id = e.parent_id /\ y.type = e.type /\ y.name = e.name
      /\ y.size = n /\ y.payload = x
  BY <1>2, <1>6, <1>7 DEF EntryRecs
<1> QED
  BY <1>1, <1>5, <1>7, <1>8

\* The entry of a file is brought up to date.
LEMMA EntryWritten ==
    ASSUME NEW V, Are(V), NEW p \in DOMAIN files, NEW rec \in CachedRecs,
           rec.entry = V[p].entry, dir' = [dir EXCEPT ![rec.entry] = EntryOf(rec)],
           NEW W, W[p] = rec, \A q \in DOMAIN files : q # p => W[q] = V[q] /\ ~Writing(q),
           DOMAIN files' = DOMAIN files
    PROVE  /\ TreeInv' /\ \A q \in AllPaths : Parent(q)' = Parent(q)
           /\ \A s \in Slots : SameKey(s)
           /\ Entries(W)'
<1>1. TreeInv /\ Entries(V) /\ dir \in [Slots -> EntryRecs]
  BY DEF Are, TreeInv
<1>2. PICK s, x : s = rec.entry /\ x = EntryOf(rec)
  OBVIOUS
<1>3. s \in Slots /\ IsFile(s) /\ p \in AllPaths
  BY <1>2, FileFacts
<1>4. /\ x \in EntryRecs /\ x.parent_id = dir[s].parent_id
      /\ x.type = dir[s].type /\ x.name = dir[s].name
      /\ x.size = rec.size /\ x.payload = First(rec.alloc_map)
  BY <1>1, <1>2, EntryOfFacts
<1>5. dir' = [dir EXCEPT ![s] = x]
  BY <1>2
<1>6. /\ TreeInv' /\ \A q \in AllPaths : Parent(q)' = Parent(q)
      /\ \A t \in Slots : SameKey(t)
  BY <1>1, <1>3, <1>4, <1>5, SameNames
<1>7. ASSUME NEW q \in DOMAIN files
      PROVE  dir'[W[q].entry].size = W[q].size /\ dir'[W[q].entry].payload = First(W[q].alloc_map)
  <2>1. CASE q = p
    BY <1>1, <1>2, <1>3, <1>4, <1>5, <2>1
  <2>2. CASE q # p
    <3>1. W[q] = V[q] /\ V[q].entry # s /\ V[q].entry \in Slots
      BY <1>2, <2>2, EntryOne, FileFacts
    <3>2. dir'[V[q].entry] = dir[V[q].entry]
      BY <1>1, <1>3, <1>5, <3>1
    <3> QED
      BY <1>1, <2>2, <3>1, <3>2 DEF Entries
  <2> QED
    BY <2>1, <2>2
<1>8. Entries(W)'
  BY <1>7 DEF Entries
<1> QED
  BY <1>6, <1>8

\* The end of echfs_uwrite.
LEMMA UwriteDoneStep ==
    ASSUME NEW V, Are(V), UwriteDone
    PROVE  Are(V)'
<1>1. HandlesInv(V) /\ op.handle \in 1 .. MaxHandles /\ op.loc \in Nat /\ handles[op.handle].current
  <2>1. HandlesInv(V)
    BY DEF Are
  <2>2. op.type = "write"
    BY DEF UwriteDone
  <2> QED
    BY <2>1, <2>2 DEF HandlesInv, OpRecs
<1>2. PICK h \in 1 .. MaxHandles, to \in Nat : h = op.handle /\ to = op.loc
  BY <1>1
<1>3. PICK p : p = handles[h].path
  OBVIOUS
<1>4. p \in DOMAIN files /\ Cached(p)
  BY <1>1, <1>2, <1>3 DEF HandlesInv
<1>5. PICK rec : rec = V[p] /\ rec = CachedFile(handles[op.handle].path)
  BY <1>2, <1>3, <1>4, CachedFileIs
<1>6. rec \in CachedRecs
  BY <1>4, <1>5, FileFacts
<1>7. /\ dir' = [dir EXCEPT ![rec.entry] = EntryOf(rec)]
      /\ handles' = [handles EXCEPT ![h].ptr = to] /\ op' = Idle
      /\ fat' = fat /\ data' = data /\ cached_files' = cached_files /\ misread' = misread
      /\ files' = files
  BY <1>2, <1>5 DEF UwriteDone
<1>8. \A q \in DOMAIN files : q # p => ~Writing(q)
  BY <1>2, <1>3 DEF Writing
<1>9. /\ TreeInv' /\ \A q \in AllPaths : Parent(q)' = Parent(q)
      /\ \A s \in Slots : SameKey(s)
      /\ Entries(V)'
  BY <1>4, <1>5, <1>6, <1>7, <1>8, EntryWritten
<1>10. Placed(V)'
  BY <1>7, <1>9, PlacedKept DEF Are
<1>11. Caches(V)'
  <2>1. Caches(V)
    BY DEF Are
  <2> QED
    BY <1>7, <2>1, CachesSame
<1>12. HandlesInv(V)'
  BY <1>1, <1>7, GrowsSame, HandleMoved
<1>13. ViewsInv(V, fat, data, files)' /\ ~misread'
  BY <1>7 DEF Are
<1> QED
  BY <1>9, <1>10, <1>11, <1>12, <1>13 DEF Are

\* One file changes, the others stay.
LEMMA PutFacts ==
    ASSUME NEW V, NEW f, NEW d, NEW fs, ViewsInv(V, f, d, fs), NEW p \in DOMAIN fs, NEW x
    PROVE  Put(V, p, x)[p] = x /\ \A q \in DOMAIN fs : q # p => Put(V, p, x)[q] = V[q]
<1>1. V = [q \in DOMAIN fs |-> V[q]]
  BY DEF ViewsInv
<1>2. DOMAIN V = DOMAIN fs
  BY <1>1
<1> QED
  BY <1>2 DEF Put

\* A read changes what is cached, not what is seen.
LEMMA ReadKeeps ==
    ASSUME NEW V, Are(V), NEW p \in DOMAIN files, NEW rec \in CachedRecs, SameFile(rec, V[p]),
           NEW W, W = Put(V, p, rec), ViewsInv(W, fat, data', files),
           UNCHANGED <<fat, dir, files>>, ~misread',
           op.type # "write", op'.type # "write",
           Caches(W)', HandlesInv(W)'
    PROVE  Are(W)'
<1>1. W[p] = rec /\ \A q \in DOMAIN files : q # p => W[q] = V[q]
  BY PutFacts DEF Are
<1>2. \A q \in DOMAIN files : SameFile(W[q], V[q])
  BY <1>1 DEF SameFile
<1>3. TreeInv' /\ \A q \in AllPaths : Parent(q)' = Parent(q)
  BY SameDirectory DEF Are
<1>4. Placed(W)'
  <2>1. \A s \in Slots : SameKey(s)
    BY DEF SameKey
  <2>2. Placed(V) /\ DOMAIN files' = DOMAIN files
    BY DEF Are
  <2>3. \A q \in DOMAIN files : W[q].path = V[q].path /\ W[q].entry = V[q].entry
    BY <1>2 DEF SameFile
  <2> QED
    BY <1>3, <2>1, <2>2, <2>3, PlacedKept
<1>5. Entries(W)'
  <2>1. \A q \in DOMAIN files : ~Writing(q)
    BY DEF Writing
  <2> QED
    BY <1>2, <2>1 DEF Are, Entries, SameFile
<1>6. ViewsInv(W, fat, data, files)'
  OBVIOUS
<1> QED
  BY <1>3, <1>4, <1>5, <1>6 DEF Are

\* Files that are no shorter have grown.
LEMMA SameSize ==
    ASSUME NEW V, NEW W, \A q : Cached(q) => Cached(q)', DOMAIN files' = DOMAIN files,
           \A q \in DOMAIN files : V[q].size <= W[q].size /\ V[q].size \in Nat /\ W[q].size \in Nat
    PROVE  Grows(V, W)
  BY DEF Grows

\* The file's cached file is replaced, or there is one now.
LEMMA FileCached ==
    ASSUME NEW V, Are(V), NEW p \in DOMAIN files, NEW rec \in CachedRecs, rec.path = p,
           V[p].size <= rec.size, NEW W, W = Put(V, p, rec), DOMAIN files' = DOMAIN files,
           op' \in OpRecs, op'.type # "none" => op.type # "none" /\ op'.handle = op.handle,
           IF Cached(p) THEN cached_files' = Updated(rec) /\ handles' = handles
           ELSE cached_files' = Append(cached_files, rec) /\ handles' = Moved /\ op' = Idle
    PROVE  Caches(W)' /\ HandlesInv(W)'
<1>1. W[p] = rec /\ \A q \in DOMAIN files : q # p => W[q] = V[q]
  BY PutFacts DEF Are
<1>2. Caches(V) /\ HandlesInv(V)
  BY DEF Are
<1>3. CASE Cached(p)
  <2>1. Caches(W)' /\ \A q : Cached(q)' <=> Cached(q)
    BY <1>1, <1>2, <1>3, CachesUpdated
  <2>2. \A q \in DOMAIN files : V[q] \in CachedRecs /\ W[q] \in CachedRecs
    BY <1>1, FileFacts
  <2>3. \A q \in DOMAIN files : V[q].size \in Nat /\ W[q].size \in Nat
    BY <2>2 DEF CachedRecs
  <2>4. \A q \in DOMAIN files : V[q].size <= W[q].size
    BY <1>1, <2>3
  <2>5. Grows(V, W)
    BY <2>1, <2>3, <2>4, SameSize
  <2> QED
    BY <1>2, <1>3, <2>1, <2>5, HandlesSame
<1>4. CASE ~Cached(p)
  <2>1. Caches(W)'
    BY <1>1, <1>2, <1>4, CachesAppend
  <2> QED
    BY <1>2, <1>4, <2>1, HandlesMoved
<1> QED
  BY <1>3, <1>4

\* vfs_kread.
LEMMA ReadStep ==
    ASSUME NEW V, Are(V), Ready, NEW p \in DOMAIN files, NEW loc \in Nat, ReadFound(p, loc)
    PROVE  \E W : Are(W)'
<1>1. op = Idle /\ op.type # "write" /\ op' = Idle /\ op'.type # "write"
  BY ReadyFacts, IdleFacts DEF ReadFound
<1>2. PICK rec : rec = V[p] /\ rec = Looked(p)
  BY <1>1, LookedIs
<1>3. rec \in CachedRecs /\ rec.path = p /\ rec.size \in Nat
  <2>1. rec \in CachedRecs /\ rec.path = p
    BY <1>2, FileFacts
  <2> QED
    BY <2>1 DEF CachedRecs
<1>4. ViewsInv(V, fat, data, files) /\ UNCHANGED <<fat, dir, files>>
  BY DEF Are, ReadFound
<1> DEFINE f == IF loc < rec.size THEN Fetched(rec, loc) ELSE [data |-> data, rec |-> rec]
<1>5. /\ data' = f.data
      /\ misread' = (loc < rec.size /\ Byte(f.rec, loc) # files[p][loc + 1])
      /\ IF Cached(p) THEN cached_files' = Updated(f.rec) /\ handles' = handles
         ELSE cached_files' = Append(cached_files, f.rec) /\ handles' = Moved
  BY <1>2 DEF ReadFound
<1>6. PICK t, W : t = f.rec /\ W = Put(V, p, t)
  OBVIOUS
<1>7. /\ t \in CachedRecs /\ SameFile(t, V[p]) /\ ViewsInv(W, fat, data', files) /\ ~misread'
  <2>1. CASE loc < rec.size
    <3>1. f = Fetched(V[p], loc) /\ loc < V[p].size
      BY <1>2, <2>1
    <3> HIDE DEF f
    <3>2. /\ ViewsInv(Put(V, p, f.rec), fat, f.data, files) /\ f.rec \in CachedRecs
          /\ SameFile(f.rec, V[p]) /\ Byte(f.rec, loc) = files[p][loc + 1]
      BY <1>4, <3>1, FetchedKeeps
    <3> QED
      BY <1>5, <1>6, <3>2
  <2>2. CASE ~(loc < rec.size)
    <3>1. f.rec = rec /\ f.data = data
      BY <2>2
    <3>2. W = V
      <4>1. V = [q \in DOMAIN files |-> V[q]]
        BY <1>4 DEF ViewsInv
      <4>2. W = Put(V, p, V[p])
        BY <1>2, <1>6, <3>1
      <4> QED
        BY <4>1, <4>2 DEF Put
    <3> QED
      BY <1>2, <1>3, <1>4, <1>5, <1>6, <2>2, <3>1, <3>2 DEF SameFile
  <2> QED
    BY <2>1, <2>2
<1> HIDE DEF f
<1>8. t.path = p /\ V[p].size <= t.size
  <2>1. t.path = rec.path /\ t.size = rec.size
    BY <1>2, <1>7 DEF SameFile
  <2> QED
    BY <1>2, <1>3, <2>1
<1>9. Caches(W)' /\ HandlesInv(W)'
  <2>1. DOMAIN files' = DOMAIN files /\ op' \in OpRecs /\ op'.type = "none"
    BY <1>1, <1>4, IdleFacts
  <2>2. IF Cached(p) THEN cached_files' = Updated(t) /\ handles' = handles
        ELSE cached_files' = Append(cached_files, t) /\ handles' = Moved /\ op' = Idle
    BY <1>1, <1>5, <1>6
  <2> QED
    BY <1>6, <1>7, <1>8, <2>1, <2>2, FileCached
<1>10. Are(W)'
  BY <1>1, <1>4, <1>6, <1>7, <1>9, ReadKeeps
<1> QED
  BY <1>10

\* The file of the read or write under way is cached.
LEMMA OpFacts ==
    ASSUME NEW V, Are(V), op.type # "none"
    PROVE  LET p == handles[op.handle].path
           IN  /\ p \in DOMAIN files /\ Cached(p) /\ CachedFile(p) = V[p]
               /\ handles[op.handle].end \in Nat /\ handles[op.handle].end <= V[p].size
               /\ op.loc \in Nat
               /\ op.left > 0 => Next1 \in OpRecs /\ Next1.type = op.type /\ Next1.handle = op.handle
<1>1. HandlesInv(V)
  BY DEF Are
<1>2. /\ op \in OpRecs /\ op.handle \in DOMAIN handles /\ handles[op.handle].current
      /\ handles[op.handle] \in HandleRecs
  BY <1>1 DEF HandlesInv
<1>3. PICK h : h = handles[op.handle]
  OBVIOUS
<1>4. h.path \in DOMAIN files /\ Cached(h.path) /\ h.end <= V[h.path].size /\ h.end \in Nat
  BY <1>1, <1>2, <1>3 DEF HandlesInv, HandleRecs
<1>5. CachedFile(h.path) = V[h.path]
  BY <1>4, CachedFileIs
<1>6. op.loc \in Nat
  BY <1>2 DEF OpRecs
<1>7. op.left > 0 => Next1 \in OpRecs /\ Next1.type = op.type /\ Next1.handle = op.handle
  <2> SUFFICES ASSUME op.left > 0
               PROVE  Next1 \in OpRecs /\ Next1.type = op.type /\ Next1.handle = op.handle
    OBVIOUS
  <2>1. PICK n \in Nat, l \in Nat : n = op.left - 1 /\ l = op.loc + 1
    BY <1>2 DEF OpRecs
  <2>2. Next1 = [op EXCEPT !.left = n, !.loc = l]
    BY <2>1 DEF Next1
  <2> QED
    BY <1>2, <2>2 DEF OpRecs
<1> QED
  BY <1>3, <1>4, <1>5, <1>6, <1>7

\* A byte of echfs_uread.
LEMMA UreadByteStep ==
    ASSUME NEW V, Are(V), UreadByte
    PROVE  \E W : Are(W)'
<1>1. op.type = "read" /\ op.left > 0 /\ op.loc < handles[op.handle].end
  BY DEF UreadByte
<1>2. PICK p, loc : p = handles[op.handle].path /\ loc = op.loc
  OBVIOUS
<1>3. /\ p \in DOMAIN files /\ Cached(p) /\ CachedFile(p) = V[p]
      /\ handles[op.handle].end \in Nat /\ handles[op.handle].end <= V[p].size
      /\ loc \in Nat /\ Next1 \in OpRecs /\ Next1.type = op.type /\ Next1.handle = op.handle
  BY <1>1, <1>2, OpFacts
<1>4. V[p] \in CachedRecs /\ V[p].path = p /\ V[p].size \in Nat
  BY <1>3, FileFacts DEF CachedRecs
<1>5. loc < V[p].size
  BY <1>1, <1>2, <1>3, <1>4
<1>6. PICK f, t, W : f = Fetched(V[p], loc) /\ t = f.rec /\ W = Put(V, p, t)
  OBVIOUS
<1>7. /\ data' = f.data /\ cached_files' = Updated(t)
      /\ misread' = (Byte(t, loc) # files[p][loc + 1]) /\ op' = Next1
      /\ UNCHANGED <<fat, dir, freed, handles, files, status>>
  BY <1>2, <1>3, <1>6 DEF UreadByte
<1>8. /\ ViewsInv(W, fat, f.data, files) /\ t \in CachedRecs
      /\ SameFile(t, V[p]) /\ Byte(t, loc) = files[p][loc + 1]
  <2>1. ViewsInv(V, fat, data, files)
    BY DEF Are
  <2> QED
    BY <1>3, <1>5, <1>6, <2>1, FetchedKeeps
<1>9. t.path = p /\ V[p].size <= t.size
  BY <1>4, <1>8 DEF SameFile
<1>10. Caches(W)' /\ HandlesInv(W)'
  <2>1. DOMAIN files' = DOMAIN files
    BY <1>7
  <2>2. op' \in OpRecs /\ op.type # "none" /\ op'.handle = op.handle
    BY <1>1, <1>3, <1>7
  <2>3. handles' = handles
    BY <1>7
  <2> QED
    BY <1>3, <1>6, <1>7, <1>8, <1>9, <2>1, <2>2, <2>3, FileCached
<1>11. op.type # "write" /\ op'.type # "write"
  BY <1>1, <1>3, <1>7
<1>12. Are(W)'
  BY <1>3, <1>6, <1>7, <1>8, <1>10, <1>11, ReadKeeps
<1> QED
  BY <1>12

\* A write keeps the invariant, if the entry on disk is seen to.
LEMMA WriteKeeps ==
    ASSUME NEW V, Are(V), NEW p \in DOMAIN files, NEW loc \in Nat, NEW byte \in Payloads,
           ~Gaps, Allowed(V[p], loc), RoomFor(V[p], loc), NEW w, w = Written(V[p], loc, byte),
           fat' = w.fat, data' = w.data, files' = Changed(p, loc, byte), misread' = misread,
           op' \in OpRecs, op'.type # "none" => op.type # "none" /\ op'.handle = op.handle,
           IF Cached(p) THEN cached_files' = Updated(w.rec) /\ handles' = handles
           ELSE cached_files' = Append(cached_files, w.rec) /\ handles' = Moved /\ op' = Idle,
           NEW W, W = Put(V, p, w.rec),
           TreeInv', \A q \in AllPaths : Parent(q)' = Parent(q), \A s \in Slots : SameKey(s),
           Entries(W)'
    PROVE  Are(W)'
<1>1. ViewsInv(V, fat, data, files) /\ Placed(V) /\ ~misread
  BY DEF Are
<1>2. byte \in Bytes /\ BlockCount(loc + 1) <= BlockCount(V[p].size) + 1
  BY Constants DEF Allowed
<1>3. /\ ViewsInv(W, w.fat, w.data, Changed(p, loc, byte))
      /\ w.rec \in CachedRecs
      /\ w.rec.path = V[p].path /\ w.rec.entry = V[p].entry
      /\ V[p].size <= w.rec.size
  BY <1>1, <1>2, WrittenKeeps
<1>4. ViewsInv(W, fat, data, files)'
  BY <1>3
<1>5. DOMAIN files' = DOMAIN files
  BY DEF Changed
<1>6. W[p] = w.rec /\ \A q \in DOMAIN files : q # p => W[q] = V[q]
  BY <1>1, PutFacts
<1>7. w.rec.path = p
  BY <1>3, FileFacts
<1>8. Caches(W)' /\ HandlesInv(W)'
  BY <1>3, <1>5, <1>7, FileCached
<1>9. Placed(W)'
  <2>1. \A q \in DOMAIN files : W[q].path = V[q].path /\ W[q].entry = V[q].entry
    BY <1>3, <1>6
  <2> QED
    BY <1>1, <1>5, <2>1, PlacedKept
<1> QED
  BY <1>1, <1>4, <1>8, <1>9 DEF Are

\* vfs_kwrite.
LEMMA WriteStep ==
    ASSUME NEW V, Are(V), Ready, ~Gaps, NEW p \in DOMAIN files, NEW loc \in Nat,
           NEW byte \in Payloads, WriteFound(p, loc, byte)
    PROVE  status' # "ok" \/ \E W : Are(W)'
<1>1. op = Idle /\ op.type # "write" /\ \A q : ~Writing(q)
  BY ReadyFacts
<1>2. PICK rec : rec = V[p] /\ rec = Looked(p)
  BY <1>1, LookedIs
<1>3. Allowed(rec, loc)
  BY <1>2 DEF WriteFound
<1>4. CASE ~RoomFor(rec, loc)
  BY <1>2, <1>4 DEF WriteFound, Ends
<1>5. CASE RoomFor(rec, loc)
  <2>1. PICK w, W : w = Written(rec, loc, byte) /\ W = Put(V, p, w.rec)
    OBVIOUS
  <2>2. /\ fat' = w.fat /\ data' = w.data
        /\ dir' = [dir EXCEPT ![rec.entry] = EntryOf(w.rec)]
        /\ IF Cached(p) THEN cached_files' = Updated(w.rec) /\ handles' = handles
           ELSE cached_files' = Append(cached_files, w.rec) /\ handles' = Moved
        /\ files' = Changed(p, loc, byte)
        /\ op' = op /\ misread' = misread
    BY <1>2, <1>5, <2>1 DEF WriteFound
  <2>3. ViewsInv(V, fat, data, files)
    BY DEF Are
  <2>4. byte \in Bytes /\ BlockCount(loc + 1) <= BlockCount(V[p].size) + 1
    BY <1>2, <1>3, Constants DEF Allowed
  <2>5. w.rec \in CachedRecs /\ w.rec.entry = V[p].entry
    <3>1. w = Written(V[p], loc, byte) /\ RoomFor(V[p], loc)
      BY <1>2, <1>5, <2>1
    <3>2. /\ ViewsInv(Put(V, p, w.rec), w.fat, w.data, Changed(p, loc, byte))
          /\ w.rec \in CachedRecs
          /\ w.rec.path = V[p].path /\ w.rec.entry = V[p].entry
          /\ V[p].size <= w.rec.size
      BY <2>3, <2>4, <3>1, WrittenKeeps
    <3> QED
      BY <3>2
  <2>6. DOMAIN files' = DOMAIN files
    BY <2>2 DEF Changed
  <2>7. W[p] = w.rec /\ \A q \in DOMAIN files : q # p => W[q] = V[q] /\ ~Writing(q)
    BY <1>1, <2>1, <2>3, PutFacts
  <2>8. /\ TreeInv' /\ \A q \in AllPaths : Parent(q)' = Parent(q)
        /\ \A s \in Slots : SameKey(s)
        /\ Entries(W)'
    <3>1. PICK r : r = w.rec
      OBVIOUS
    <3>2. dir' = [dir EXCEPT ![r.entry] = EntryOf(r)]
      BY <1>2, <2>2, <2>5, <3>1
    <3> QED
      BY <2>5, <2>6, <2>7, <3>1, <3>2, EntryWritten
  <2>9. op' \in OpRecs /\ op' = Idle /\ op'.type = "none"
    BY <1>1, <2>2, IdleFacts
  <2>10. Are(W)'
    BY <1>2, <1>3, <1>5, <2>1, <2>2, <2>8, <2>9, WriteKeeps
  <2> QED
    BY <2>10
<1> QED
  BY <1>4, <1>5

\* A byte of echfs_uwrite.
LEMMA UwriteByteStep ==
    ASSUME NEW V, Are(V), ~Gaps, NEW byte \in Payloads, UwriteByte(byte)
    PROVE  status' # "ok" \/ \E W : Are(W)'
<1>1. op.type = "write" /\ op.left > 0
  BY DEF UwriteByte
<1>2. PICK p, loc : p = handles[op.handle].path /\ loc = op.loc
  OBVIOUS
<1>3. /\ p \in DOMAIN files /\ Cached(p) /\ CachedFile(p) = V[p]
      /\ loc \in Nat /\ Next1 \in OpRecs /\ Next1.type = op.type /\ Next1.handle = op.handle
  BY <1>1, <1>2, OpFacts
<1>4. PICK rec : rec = V[p]
  OBVIOUS
<1>5. Allowed(rec, loc) /\ rec.path = p
  BY <1>2, <1>3, <1>4, FileFacts DEF UwriteByte
<1>6. CASE ~RoomFor(rec, loc)
  BY <1>2, <1>3, <1>4, <1>6 DEF UwriteByte, Ends
<1>7. CASE RoomFor(rec, loc)
  <2>1. PICK w, W : w = Written(rec, loc, byte) /\ W = Put(V, p, w.rec)
    OBVIOUS
  <2>2. /\ fat' = w.fat /\ data' = w.data /\ cached_files' = Updated(w.rec)
        /\ op' = Next1 /\ files' = Changed(p, loc, byte)
        /\ UNCHANGED <<dir, freed, handles, misread, status>>
    BY <1>2, <1>3, <1>4, <1>5, <1>7, <2>1 DEF UwriteByte
  <2>3. ViewsInv(V, fat, data, files) /\ TreeInv /\ Entries(V)
    BY DEF Are
  <2>4. TreeInv' /\ \A q \in AllPaths : Parent(q)' = Parent(q)
    BY <2>2, <2>3, SameDirectory
  <2>5. \A s \in Slots : SameKey(s)
    BY <2>2 DEF SameKey
  <2>6. W[p] = w.rec /\ \A q \in DOMAIN files : q # p => W[q] = V[q]
    BY <1>3, <2>1, <2>3, PutFacts
  <2>7. DOMAIN files' = DOMAIN files
    BY <2>2 DEF Changed
  <2>8. \A q : Writing(q)' <=> q = p
    BY <1>1, <1>2, <1>3, <2>2 DEF Writing
  <2>9. \A q : Writing(q) <=> q = p
    BY <1>1, <1>2 DEF Writing
  <2>10. Entries(W)'
    BY <2>2, <2>3, <2>6, <2>7, <2>8, <2>9 DEF Entries
  <2>11. op' \in OpRecs /\ op.type # "none" /\ op'.handle = op.handle
    BY <1>1, <1>3, <2>2
  <2>12. misread' = misread /\ handles' = handles
    BY <2>2
  <2>13. Are(W)'
    BY <1>3, <1>4, <1>5, <1>7, <2>1, <2>2, <2>4, <2>5, <2>10, <2>11, <2>12, WriteKeeps
  <2> QED
    BY <2>13
<1> QED
  BY <1>6, <1>7

(* Files that are created *)

NewRec(p, e) ==
    [path |-> p, entry |-> e, size |-> 0, alloc_map |-> <<>>, cached_block |-> 0,
     cache |-> Zeros, cache_status |-> CACHE_NOTREADY]

\* The directory when the file p is created at entry e, and deleted elsewhere.
MadeAt(e, p) ==
    /\ Parent(p) # 0
    /\ e \in Slots
    /\ dir' \in [Slots -> EntryRecs]
    /\ dir'[e] = DirEntry(Parent(p), FILE_TYPE, Last(p), END_OF_CHAIN, 0)
    /\ dir[e].type = FILE_TYPE
    /\ ~Live(e) \/ At(p, FILE_TYPE, e)
    /\ \A s \in Slots : dir[s].parent_id = 0 => e <= s
    /\ \A s \in Slots \ {e} :
          dir'[s] = IF At(p, FILE_TYPE, s) THEN Deleted ELSE dir[s]

\* A new file is empty.
LEMMA NewRecFacts ==
    ASSUME NEW p \in FilePaths, NEW e \in Slots, NEW rec, rec = NewRec(p, e)
    PROVE  /\ rec \in CachedRecs /\ Fresh(rec)
           /\ rec.path = p /\ rec.entry = e /\ rec.size = 0 /\ rec.alloc_map = <<>>
           /\ rec.cache_status = CACHE_NOTREADY
<1>1. Zeros \in [Offsets -> Bytes]
  BY Constants DEF Zeros
<1>2. <<>> \in Seq(Data)
  BY EmptySeq
<1>3. CACHE_NOTREADY \in Statuses3
  BY DEF Statuses3
<1> QED
  BY <1>1, <1>2, <1>3 DEF NewRec, CachedRecs, Fresh

\* A new file keeps the directory a tree.
LEMMA MadeTree ==
    ASSUME TreeInv, NEW p \in AllPaths, NEW e, MadeAt(e, p)
    PROVE  /\ TreeInv' /\ \A q \in AllPaths : Parent(q)' = Parent(q)
           /\ dir'[e].parent_id = Parent(p) /\ dir'[e].type = FILE_TYPE
           /\ dir'[e].name = Last(p) /\ dir'[e].size = 0 /\ dir'[e].payload = END_OF_CHAIN
<1>1. /\ dir'[e].parent_id = Parent(p) /\ dir'[e].type = FILE_TYPE
      /\ dir'[e].name = Last(p) /\ dir'[e].size = 0 /\ dir'[e].payload = END_OF_CHAIN
  BY DEF MadeAt, DirEntry
<1>2. \A s \in Slots : At(p, FILE_TYPE, s) => IsFile(s)
  BY Parents DEF At, IsFile, Live
<1>3. FileChange(e, p)
  BY <1>1, <1>2 DEF MadeAt, FileChange
<1> QED
  BY <1>1, <1>3, FileTree

\* A new file keeps the invariant, if the list and the handles do.
LEMMA FileMade ==
    ASSUME NEW V, Are(V), NEW p \in FilePaths, NEW e, MadeAt(e, p),
           NEW U, U = Drop(V, p), ViewsInv(U, fat', data', Drop(files, p)),
           NEW W, W = Put(U, p, NewRec(p, e)), files' = Emptied(p),
           op = Idle, op' = Idle, ~misread', Caches(W)', HandlesInv(W)'
    PROVE  Are(W)'
<1>1. TreeInv /\ Placed(V) /\ Entries(V) /\ ViewsInv(V, fat, data, files) /\ p \in AllPaths
  BY DEF Are, AllPaths
<1>2. /\ TreeInv' /\ \A q \in AllPaths : Parent(q)' = Parent(q)
      /\ dir'[e].parent_id = Parent(p) /\ dir'[e].type = FILE_TYPE
      /\ dir'[e].name = Last(p) /\ dir'[e].size = 0 /\ dir'[e].payload = END_OF_CHAIN
  BY <1>1, MadeTree
<1>3. /\ Parent(p) # 0 /\ e \in Slots
      /\ ~Live(e) \/ At(p, FILE_TYPE, e)
      /\ \A s \in Slots \ {e} :
            dir'[s] = IF At(p, FILE_TYPE, s) THEN Deleted ELSE dir[s]
  BY DEF MadeAt
<1>4. PICK rec : rec = NewRec(p, e)
  OBVIOUS
<1>5. /\ rec \in CachedRecs /\ Fresh(rec)
      /\ rec.path = p /\ rec.entry = e /\ rec.size = 0 /\ rec.alloc_map = <<>>
      /\ rec.cache_status = CACHE_NOTREADY
  BY <1>3, <1>4, NewRecFacts
<1>6. DOMAIN files' = DOMAIN files \cup {p}
  BY DEF Emptied
<1>7. W[p] = rec /\ \A q \in DOMAIN files : q # p => W[q] = V[q]
  BY <1>1, <1>4 DEF Put, Drop, ViewsInv
<1>8. ViewsInv(W, fat, data, files)'
  <2>1. PICK g : g = Drop(files, p)
    OBVIOUS
  <2>2. p \notin DOMAIN g
    BY <2>1 DEF Drop
  <2>3. PICK f, d : f = fat' /\ d = data'
    OBVIOUS
  <2>4. ViewsInv(Put(U, p, rec), f, d, Put(g, p, <<>>))
    BY <1>5, <2>1, <2>2, <2>3, AddView
  <2>5. files' = Put(g, p, <<>>)
    BY <2>1 DEF Put, Drop, Emptied
  <2> QED
    BY <1>4, <2>3, <2>4, <2>5
<1>9. \A q \in DOMAIN files : q # p =>
         /\ q \in AllPaths /\ At(q, FILE_TYPE, V[q].entry) /\ V[q].entry \in Slots
         /\ dir'[V[q].entry] = dir[V[q].entry]
  <2> SUFFICES ASSUME NEW q \in DOMAIN files, q # p
               PROVE  /\ q \in AllPaths /\ At(q, FILE_TYPE, V[q].entry) /\ V[q].entry \in Slots
                      /\ dir'[V[q].entry] = dir[V[q].entry]
    OBVIOUS
  <2>1. q \in AllPaths /\ At(q, FILE_TYPE, V[q].entry) /\ V[q].entry \in Slots /\ IsFile(V[q].entry)
    BY FileFacts
  <2>2. ~At(p, FILE_TYPE, V[q].entry)
    BY <1>1, <2>1, SamePath DEF Types
  <2>3. V[q].entry # e
    BY <1>3, <2>1, <2>2 DEF IsFile
  <2> QED
    BY <1>3, <2>1, <2>2, <2>3
<1>10. Placed(W)'
  <2>1. DOMAIN files' \subseteq FilePaths
    BY <1>1, <1>6 DEF Placed
  <2>2. At(p, FILE_TYPE, e)'
    BY <1>1, <1>2, <1>3 DEF At
  <2>3. \A q \in DOMAIN files : q # p => At(q, FILE_TYPE, V[q].entry)'
    BY <1>2, <1>9 DEF At
  <2>4. \A q \in DOMAIN files' : W[q].path = q /\ At(q, FILE_TYPE, W[q].entry)'
    BY <1>1, <1>5, <1>6, <1>7, <2>2, <2>3 DEF Placed
  <2>5. ASSUME NEW s \in Slots, IsFile(s)' PROVE \E q \in DOMAIN files' : W[q].entry = s
    <3>1. CASE s = e
      BY <1>5, <1>6, <1>7, <3>1
    <3>2. CASE s # e
      <4>1. dir'[s].parent_id # DELETED_ENTRY
        BY <2>5 DEF IsFile, Live
      <4>2. dir'[s] = dir[s] /\ ~At(p, FILE_TYPE, s)
        BY <1>3, <3>2, <4>1, EmptyFacts
      <4>3. IsFile(s)
        BY <2>5, <4>2 DEF IsFile, Live
      <4>4. PICK q \in DOMAIN files : V[q].entry = s
        BY <1>1, <4>3 DEF Placed
      <4>5. q # p
        BY <1>1, <4>2, <4>4 DEF Placed
      <4> QED
        BY <1>6, <1>7, <4>4, <4>5
    <3> QED
      BY <3>1, <3>2
  <2>6. \A s \in Slots : IsDir(s)' => \E q \in DirPaths : At(q, DIRECTORY_TYPE, s)'
    <3>1. \A s \in Slots : IsDir(s)' => SameKey(s)
      BY <1>2, <1>3, EmptyFacts DEF IsDir, FILE_TYPE, DIRECTORY_TYPE, SameKey
    <3> QED
      BY <1>1, <1>2, <3>1, DirsPlaced
  <2> QED
    BY <2>1, <2>4, <2>5, <2>6 DEF Placed
<1>11. Entries(W)'
  <2>1. \A q : ~Writing(q)
    BY IdleFacts DEF Writing
  <2>2. dir'[W[p].entry].size = W[p].size /\ dir'[W[p].entry].payload = First(W[p].alloc_map)
    BY <1>2, <1>5, <1>7 DEF First
  <2>3. \A q \in DOMAIN files : q # p =>
           /\ dir'[W[q].entry].size = W[q].size
           /\ dir'[W[q].entry].payload = First(W[q].alloc_map)
    BY <1>1, <1>7, <1>9, <2>1 DEF Entries
  <2> QED
    BY <1>6, <2>2, <2>3 DEF Entries
<1> QED
  BY <1>2, <1>8, <1>10, <1>11 DEF Are

\* echfs_create of a path that is not found.
LEMMA MadeNew ==
    ASSUME NEW V, Are(V), NEW p \in FilePaths, ~Found(p, FILE_TYPE), ~Failure(p),
           EmptySlots(dir) # {}, dir' = WithFile(dir, p)
    PROVE  MadeAt(EmptySlot(dir), p)
<1>1. TreeInv /\ p \in AllPaths
  BY DEF Are, AllPaths
<1>2. PICK e : e = EmptySlot(dir)
  OBVIOUS
<1>3. /\ e \in Slots /\ ~Live(e) /\ dir[e].type = FILE_TYPE
      /\ \A s \in Slots : ~Live(s) => e <= s
  BY <1>1, <1>2, EmptySlotIs
<1>4. \A s : ~At(p, FILE_TYPE, s)
  BY <1>1, TargetIs DEF Types
<1>5. PICK x : x = DirEntry(Parent(p), FILE_TYPE, Last(p), END_OF_CHAIN, 0)
  OBVIOUS
<1>6. Parent(p) \in Int /\ Parent(p) # 0 /\ Last(p) \in Names
  BY <1>1, Parents, PathFacts DEF Failure
<1>7. x \in EntryRecs
  BY <1>5, <1>6 DEF DirEntry, EntryRecs, Types, END_OF_CHAIN
<1>8. dir' = [dir EXCEPT ![e] = x] /\ dir \in [Slots -> EntryRecs]
  BY <1>1, <1>2, <1>5 DEF WithFile, TreeInv
<1>9. dir' \in [Slots -> EntryRecs] /\ dir'[e] = x /\ \A s \in Slots \ {e} : dir'[s] = dir[s]
  BY <1>3, <1>7, <1>8
<1> QED
  BY <1>2, <1>3, <1>4, <1>5, <1>6, <1>9 DEF MadeAt, Live

\* echfs_create of a file that has just been deleted.
LEMMA MadeOver ==
    ASSUME NEW V, Are(V), NEW p \in DOMAIN files, NEW d,
           d = [dir EXCEPT ![V[p].entry] = Deleted], dir' = WithFile(d, p)
    PROVE  MadeAt(EmptySlot(d), p)
<1>1. TreeInv
  BY DEF Are
<1>2. PICK v : v = V[p].entry
  OBVIOUS
<1>3. p \in AllPaths /\ At(p, FILE_TYPE, v) /\ v \in Slots /\ IsFile(v)
  BY <1>2, FileFacts
<1>4. dir \in [Slots -> EntryRecs] /\ d \in [Slots -> EntryRecs]
      /\ d[v] = Deleted /\ \A s \in Slots \ {v} : d[s] = dir[s]
  BY <1>1, <1>2, <1>3, EmptyFacts DEF TreeInv
<1>5. PICK e : e = EmptySlot(d)
  OBVIOUS
<1>6. e \in Slots /\ d[e].parent_id \in {0, DELETED_ENTRY}
      /\ \A s \in Slots : d[s].parent_id \in {0, DELETED_ENTRY} => e <= s
  <2>1. v \in EmptySlots(d) /\ EmptySlots(d) \subseteq Nat
    BY <1>3, <1>4, EmptyFacts, SlotFacts DEF EmptySlots
  <2>2. e \in EmptySlots(d) /\ \A s \in EmptySlots(d) : e <= s
    BY <1>5, <2>1, Least DEF EmptySlot
  <2> QED
    BY <2>2 DEF EmptySlots
<1>7. e = v \/ (e # v /\ ~Live(e))
  BY <1>4, <1>6 DEF Live
<1>8. dir[e].type = FILE_TYPE
  BY <1>1, <1>3, <1>4, <1>6, <1>7 DEF IsFile, TreeInv, IsDir, EntryRecs, Types
<1>9. \A s : At(p, FILE_TYPE, s) <=> s = v
  BY <1>1, <1>3, TargetIs DEF Types
<1>10. PICK x : x = DirEntry(Parent(p), FILE_TYPE, Last(p), END_OF_CHAIN, 0)
  OBVIOUS
<1>11. Parent(p) \in Int /\ Parent(p) # 0 /\ Last(p) \in Names
  BY <1>1, <1>3, Parents, PathFacts DEF At
<1>12. x \in EntryRecs
  BY <1>10, <1>11 DEF DirEntry, EntryRecs, Types, END_OF_CHAIN
<1>13. dir' = [d EXCEPT ![e] = x]
  BY <1>5, <1>10 DEF WithFile
<1>14. dir' \in [Slots -> EntryRecs] /\ dir'[e] = x /\ \A s \in Slots \ {e} : dir'[s] = d[s]
  BY <1>4, <1>6, <1>12, <1>13
<1>15. \A s \in Slots : dir[s].parent_id = 0 => e <= s
  <2> SUFFICES ASSUME NEW s \in Slots, dir[s].parent_id = 0 PROVE e <= s
    OBVIOUS
  <2>1. s # v
    BY <1>3 DEF IsFile, Live
  <2> QED
    BY <1>4, <1>6, <2>1
<1>16. \A s \in Slots \ {e} : dir'[s] = IF At(p, FILE_TYPE, s) THEN Deleted ELSE dir[s]
  <2> SUFFICES ASSUME NEW s \in Slots \ {e}
               PROVE  dir'[s] = IF At(p, FILE_TYPE, s) THEN Deleted ELSE dir[s]
    OBVIOUS
  <2>1. dir'[s] = d[s] /\ (At(p, FILE_TYPE, s) <=> s = v)
    BY <1>9, <1>14
  <2>2. CASE s = v
    BY <1>4, <2>1, <2>2
  <2>3. CASE s # v
    BY <1>4, <2>1, <2>3
  <2> QED
    BY <2>2, <2>3
<1> QED
  BY <1>5, <1>6, <1>7, <1>8, <1>9, <1>10, <1>11, <1>14, <1>15, <1>16 DEF MadeAt

\* There is nothing to drop.
LEMMA DropNothing ==
    ASSUME NEW V, NEW f, NEW d, NEW fs, ViewsInv(V, f, d, fs), NEW p, p \notin DOMAIN fs
    PROVE  Drop(V, p) = V /\ Drop(fs, p) = fs
<1>1. V = [q \in DOMAIN fs |-> V[q]] /\ fs = [q \in DOMAIN fs |-> fs[q]]
  BY DEF ViewsInv
<1>2. DOMAIN V = DOMAIN fs /\ DOMAIN fs \ {p} = DOMAIN fs
  BY <1>1
<1> QED
  BY <1>1, <1>2 DEF Drop

\* A file is replaced.
LEMMA PutDropped ==
    ASSUME NEW V, NEW f, NEW d, NEW fs, ViewsInv(V, f, d, fs), NEW p, NEW x
    PROVE  /\ Put(Drop(V, p), p, x)[p] = x
           /\ \A q \in DOMAIN fs : q # p => Put(Drop(V, p), p, x)[q] = V[q]
<1>1. DOMAIN V = DOMAIN fs
  BY DEF ViewsInv
<1> QED
  BY <1>1 DEF Put, Drop

\* vfs_kcreate.
LEMMA CreateStep ==
    ASSUME NEW V, Are(V), NEW p \in FilePaths, Create(p)
    PROVE  status' # "ok" \/ \E W : Are(W)'
<1>1. CASE EmptySlots(dir) = {}
  BY <1>1 DEF Create, Ends
<1>2. CASE EmptySlots(dir) # {}
  <2>1. /\ ~Found(p, FILE_TYPE) /\ ~Failure(p) /\ dir' = WithFile(dir, p)
        /\ files' = Emptied(p)
        /\ UNCHANGED <<fat, data, cached_files, freed, handles, op, misread, status>>
    BY <1>2 DEF Create
  <2>2. op = Idle /\ op.type = "none" /\ Idle \in OpRecs
    BY ReadyFacts, IdleFacts DEF Create
  <2>3. PICK e : e = EmptySlot(dir)
    OBVIOUS
  <2>4. MadeAt(e, p)
    BY <1>2, <2>1, <2>3, MadeNew
  <2>5. p \notin DOMAIN files
    BY <2>1, FoundIs
  <2>6. ViewsInv(V, fat, data, files) /\ Caches(V) /\ HandlesInv(V) /\ ~misread
    BY DEF Are
  <2>7. Drop(V, p) = V /\ Drop(files, p) = files
    BY <2>5, <2>6, DropNothing
  <2>8. PICK rec, W : rec = NewRec(p, e) /\ W = Put(Drop(V, p), p, rec)
    OBVIOUS
  <2>9. Fresh(rec)
    BY <2>4, <2>8, NewRecFacts DEF MadeAt
  <2>10. W[p] = rec /\ \A q \in DOMAIN files : q # p => W[q] = V[q]
    BY <2>6, <2>8, PutDropped
  <2>11. DOMAIN files' = DOMAIN files \cup {p}
    BY <2>1 DEF Emptied
  <2>12. ~Cached(p)
    BY <2>5, CachedFileIs
  <2>13. Caches(W)' /\ \A q : Cached(q)' <=> Cached(q)
    <3>1. \A q \in DOMAIN files' : (q \in DOMAIN files /\ W[q] = V[q]) \/ (~Cached(q) /\ Fresh(W[q]))
      BY <2>5, <2>9, <2>10, <2>11, <2>12
    <3>2. \A q \in DOMAIN files : Cached(q) => q \in DOMAIN files' /\ W[q] = V[q]
      BY <2>5, <2>10, <2>11
    <3> QED
      BY <2>1, <2>6, <3>1, <3>2, CachesSame
  <2>14. Grows(V, W)
    BY <2>5, <2>10, <2>11, <2>13 DEF Grows
  <2>15. HandlesInv(W)'
    BY <2>1, <2>2, <2>6, <2>14, HandlesSame
  <2>16. ViewsInv(Drop(V, p), fat', data', Drop(files, p)) /\ op' = Idle /\ ~misread'
    BY <2>1, <2>2, <2>6, <2>7
  <2>17. PICK U : U = Drop(V, p)
    OBVIOUS
  <2>18. Are(W)'
    BY <2>1, <2>2, <2>4, <2>8, <2>13, <2>15, <2>16, <2>17, FileMade
  <2> QED
    BY <2>18
<1> QED
  BY <1>1, <1>2

(* Files that are opened *)

\* There is a free handle.
LEMMA HandleFree ==
    ASSUME NEW V, HandlesInv(V), MayOpen
    PROVE  FreeHandle \in 1 .. MaxHandles
<1>1. FreeHandles # {}
  <2> SUFFICES ASSUME FreeHandles = {} PROVE FALSE
    OBVIOUS
  <2>1. Cardinality(FreeHandles) = 0
    BY FS_EmptySet
  <2> QED
    BY <2>1, EchfsAssumption DEF MayOpen
<1> QED
  BY <1>1, FreeHandleIs

\* The list and the handles after echfs_open.
LEMMA OpenedKeeps ==
    ASSUME NEW V, Are(V), Ready, MayOpen, NEW p \in FilePaths, NEW d, NEW f, NEW s,
           NEW append \in BOOLEAN, Opened(d, f, p, s, append),
           NEW W, W[p] \in CachedRecs, W[p].path = p, d[s].size = W[p].size,
           ~Cached(p) => NewCached(d, f, p, s) = W[p],
           Cached(p) => p \in DOMAIN files /\ W[p] = V[p],
           DOMAIN files' = DOMAIN files \cup {p}, \A q \in DOMAIN files : q # p => W[q] = V[q]
    PROVE  Caches(W)' /\ HandlesInv(W)' /\ op = Idle /\ op' = Idle /\ ~misread'
<1>1. Caches(V) /\ HandlesInv(V) /\ ~misread
  BY DEF Are
<1>2. op = Idle
  BY DEF Ready
<1>3. PICK x : x = FreeHandle
  OBVIOUS
<1>4. x \in 1 .. MaxHandles
  BY <1>1, <1>3, HandleFree
<1>5. PICK size : size = d[s].size
  OBVIOUS
<1>6. size \in Nat /\ size = W[p].size
  BY <1>5 DEF CachedRecs
<1>7. PICK at : at = IF append THEN size ELSE 0
  OBVIOUS
<1>8. at \in Nat
  BY <1>6, <1>7
<1>9. PICK new : new = [free |-> FALSE, path |-> p, ptr |-> at, begin |-> at,
                        end |-> size, current |-> TRUE]
  OBVIOUS
<1>10. new \in HandleRecs /\ new.path = p /\ new.end = size
  BY <1>6, <1>8, <1>9 DEF HandleRecs
<1>11. /\ IF Cached(p)
          THEN handles' = [handles EXCEPT ![x] = new] /\ cached_files' = cached_files
          ELSE /\ handles' = [Moved EXCEPT ![x] = new]
               /\ cached_files' = Append(cached_files, NewCached(d, f, p, s))
       /\ op' = op /\ misread' = misread
  BY <1>3, <1>5, <1>7, <1>9 DEF Opened
<1>12. CASE Cached(p)
  <2>1. p \in DOMAIN files /\ W[p] = V[p] /\ DOMAIN files' = DOMAIN files
    BY <1>12
  <2>2. \A q \in DOMAIN files : W[q] = V[q]
    BY <2>1
  <2>3. Caches(W)' /\ \A q : Cached(q)' <=> Cached(q)
    BY <1>1, <1>11, <1>12, <2>1, <2>2, CachesSame
  <2>4. Grows(V, W)
    BY <2>1, <2>2, <2>3 DEF Grows
  <2>5. Points(W, new)'
    BY <1>6, <1>10, <1>12, <2>1, <2>3 DEF Points
  <2>6. HandlesInv(W)'
    BY <1>1, <1>2, <1>4, <1>10, <1>11, <1>12, <2>4, <2>5, HandlesOne
  <2> QED
    BY <1>1, <1>2, <1>11, <2>3, <2>6
<1>13. CASE ~Cached(p)
  <2>1. Caches(W)' /\ \A q : Cached(q)' <=> Cached(q) \/ q = p
    BY <1>1, <1>11, <1>13, CachesAppend
  <2>2. Points(W, new)'
    BY <1>6, <1>10, <2>1 DEF Points
  <2>3. HandlesInv(W)'
    BY <1>1, <1>2, <1>4, <1>10, <1>11, <1>13, <2>2, HandlesOne
  <2> QED
    BY <1>1, <1>2, <1>11, <2>1, <2>3
<1> QED
  BY <1>12, <1>13

\* echfs_open of a file that exists.
LEMMA OpenExistingStep ==
    ASSUME NEW V, Are(V), NEW p \in FilePaths, NEW append \in BOOLEAN, OpenExisting(p, append)
    PROVE  Are(V)'
<1>1. /\ Ready /\ MayOpen /\ Found(p, FILE_TYPE)
      /\ Opened(dir, fat, p, Target(p, FILE_TYPE), append) /\ files' = files
  BY DEF OpenExisting
<1>2. p \in DOMAIN files
  BY <1>1, FoundIs
<1>3. PICK s : s = V[p].entry
  OBVIOUS
<1>4. /\ V[p].path = p /\ V[p] \in CachedRecs /\ Target(p, FILE_TYPE) = s
  BY <1>2, <1>3, FileFacts
<1>5. op.type # "write" /\ ~Writing(p)
  BY <1>1, ReadyFacts
<1>6. dir[s].size = V[p].size
  BY <1>2, <1>3, <1>5 DEF Are, Entries
<1>7. ~Cached(p) => NewCached(dir, fat, p, s) = V[p]
  BY <1>2, <1>4, <1>5, LookedIs DEF Looked
<1>8. DOMAIN files' = DOMAIN files \cup {p}
  BY <1>1, <1>2
<1>9. PICK d, f : d = dir /\ f = fat
  OBVIOUS
<1>10. Caches(V)' /\ HandlesInv(V)' /\ op = Idle /\ op' = Idle /\ ~misread'
  BY <1>1, <1>2, <1>4, <1>6, <1>7, <1>8, <1>9, OpenedKeeps
<1>11. UNCHANGED <<disk, files>>
  BY <1>1 DEF Opened, disk
<1>12. TreeInv /\ Placed(V) /\ Entries(V) /\ ViewsInv(V, fat, data, files)
  BY DEF Are
<1>13. TreeInv' /\ \A q \in AllPaths : Parent(q)' = Parent(q)
  BY <1>11, <1>12, SameDirectory DEF disk
<1>14. Placed(V)'
  <2>1. \A t \in Slots : SameKey(t)
    BY <1>11 DEF SameKey, disk
  <2> QED
    BY <1>11, <1>12, <1>13, <2>1, PlacedKept
<1>15. Entries(V)'
  <2>1. \A q : ~Writing(q)
    BY <1>5 DEF Writing
  <2> QED
    BY <1>11, <1>12, <2>1 DEF Entries, disk
<1>16. ViewsInv(V, fat, data, files)'
  BY <1>11, <1>12 DEF disk
<1> QED
  BY <1>10, <1>13, <1>14, <1>15, <1>16 DEF Are

\* echfs_open of a file that has just been created.
LEMMA OpenedNew ==
    ASSUME NEW V, Are(V), Ready, MayOpen, NEW p \in FilePaths, NEW e,
           NEW d, NEW f \in [Blocks -> Int], Opened(d, f, p, e, FALSE), MadeAt(e, p), ~Cached(p),
           ViewsInv(Drop(V, p), f, data, Drop(files, p)), files' = Emptied(p)
    PROVE  \E W : Are(W)'
<1>1. dir' = d /\ fat' = f /\ data' = data
  BY DEF Opened
<1>2. ViewsInv(V, fat, data, files)
  BY DEF Are
<1>3. PICK rec, W : rec = NewRec(p, e) /\ W = Put(Drop(V, p), p, rec)
  OBVIOUS
<1>4. e \in Slots
  BY DEF MadeAt
<1>5. /\ rec \in CachedRecs /\ Fresh(rec)
      /\ rec.path = p /\ rec.entry = e /\ rec.size = 0 /\ rec.alloc_map = <<>>
  BY <1>3, <1>4, NewRecFacts
<1>6. d[e].size = 0 /\ d[e].payload = END_OF_CHAIN
  BY <1>1 DEF MadeAt, DirEntry
<1>7. W[p] = rec /\ \A q \in DOMAIN files : q # p => W[q] = V[q]
  BY <1>2, <1>3, PutDropped
<1>8. NewCached(d, f, p, e) = rec
  <2>1. Chained(rec.alloc_map, f)
    BY <1>5 DEF Chained
  <2>2. First(rec.alloc_map) = END_OF_CHAIN
    BY <1>5 DEF First
  <2> QED
    BY <1>5, <1>6, <2>1, <2>2, NewCachedIs
<1>9. DOMAIN files' = DOMAIN files \cup {p}
  BY DEF Emptied
<1>10. Caches(W)' /\ HandlesInv(W)' /\ op = Idle /\ op' = Idle /\ ~misread'
  <2>1. PICK append \in BOOLEAN : append = FALSE
    OBVIOUS
  <2>2. Opened(d, f, p, e, append)
    BY <2>1
  <2> QED
    BY <1>5, <1>6, <1>7, <1>8, <1>9, <2>2, OpenedKeeps
<1>11. PICK U : U = Drop(V, p)
  OBVIOUS
<1>12. Are(W)'
  BY <1>1, <1>3, <1>10, <1>11, FileMade
<1> QED
  BY <1>12

\* echfs_open, O_CREAT.
LEMMA OpenNewStep ==
    ASSUME NEW V, Are(V), NEW p \in FilePaths, OpenNew(p)
    PROVE  status' # "ok" \/ \E W : Are(W)'
<1>1. CASE EmptySlots(dir) = {}
  BY <1>1 DEF OpenNew, Ends
<1>2. CASE EmptySlots(dir) # {}
  <2>1. PICK d, e, f : d = WithFile(dir, p) /\ e = EmptySlot(dir) /\ f = fat
    OBVIOUS
  <2>2. /\ Ready /\ MayOpen /\ ~Found(p, FILE_TYPE) /\ ~Failure(p)
        /\ Opened(d, f, p, e, FALSE) /\ files' = Emptied(p)
    BY <1>2, <2>1 DEF OpenNew
  <2>3. p \notin DOMAIN files
    BY <2>2, FoundIs
  <2>4. ~Cached(p)
    BY <2>3, CachedFileIs
  <2>5. dir' = WithFile(dir, p)
    BY <2>1, <2>2 DEF Opened
  <2>6. MadeAt(e, p)
    BY <1>2, <2>1, <2>2, <2>5, MadeNew
  <2>7. ViewsInv(V, fat, data, files) /\ fat \in [Blocks -> Int]
    BY DEF Are, ViewsInv
  <2>8. ViewsInv(Drop(V, p), f, data, Drop(files, p)) /\ f \in [Blocks -> Int]
    BY <2>1, <2>3, <2>7, DropNothing
  <2> QED
    BY <2>2, <2>4, <2>6, <2>8, OpenedNew
<1> QED
  BY <1>1, <1>2

\* The blocks that are freed when the file p is removed.
LEMMA ChainSeen ==
    ASSUME NEW V, Are(V), NEW p \in DOMAIN files
    PROVE  Chain(fat, First(V[p].alloc_map)) = V[p].alloc_map
<1>1. fat \in [Blocks -> Int]
  BY DEF Are, ViewsInv
<1>2. PICK m : m = V[p].alloc_map
  OBVIOUS
<1>3. m \in Seq(Data) /\ Chained(m, fat)
  BY <1>2, FileFacts DEF CachedRecs
<1> QED
  BY <1>1, <1>2, <1>3, ChainIs

\* The tables without the file p.
LEMMA RemovedIs ==
    ASSUME NEW V, Are(V), NEW p \in DOMAIN files, NEW s
    PROVE  /\ Removed(s, V[p].alloc_map).dir = [dir EXCEPT ![s] = Deleted]
           /\ Removed(s, V[p].alloc_map).fat \in [Blocks -> Int]
           /\ ViewsInv(Drop(V, p), Removed(s, V[p].alloc_map).fat, data, Drop(files, p))
<1>1. ViewsInv(V, fat, data, files) /\ fat \in [Blocks -> Int]
  BY DEF Are, ViewsInv
<1>2. PICK m : m = V[p].alloc_map
  OBVIOUS
<1>3. Removed(s, m).fat = Release(fat, m) /\ Removed(s, m).dir = [dir EXCEPT ![s] = Deleted]
  BY DEF Removed, Release
<1>4. Release(fat, m) \in [Blocks -> Int]
  BY <1>1 DEF Release
<1>5. ViewsInv(Drop(V, p), Release(fat, m), data, Drop(files, p))
  BY <1>1, <1>2, DropView
<1> QED
  BY <1>2, <1>3, <1>4, <1>5

\* echfs_open, O_TRUNC.
LEMMA OpenTruncatedStep ==
    ASSUME NEW V, Are(V), NEW p \in FilePaths, OpenTruncated(p)
    PROVE  status' # "ok" \/ \E W : Are(W)'
<1>1. CASE Cached(p)
  BY <1>1 DEF OpenTruncated, Ends
<1>2. CASE ~Cached(p)
  <2>1. PICK s : s = Target(p, FILE_TYPE)
    OBVIOUS
  <2>2. PICK payload : payload = dir[s].payload
    OBVIOUS
  <2>3. PICK r : r = Removed(s, Chain(fat, payload))
    OBVIOUS
  <2>4. PICK d0, d, e, f : d0 = r.dir /\ d = WithFile(r.dir, p) /\ e = EmptySlot(r.dir) /\ f = r.fat
    OBVIOUS
  <2>5. /\ Ready /\ MayOpen /\ Found(p, FILE_TYPE)
        /\ Opened(d, f, p, e, FALSE) /\ files' = Emptied(p)
    BY <1>2, <2>1, <2>2, <2>3, <2>4 DEF OpenTruncated
  <2>6. p \in DOMAIN files
    BY <2>5, FoundIs
  <2>7. s = V[p].entry
    BY <2>1, <2>6, FileFacts
  <2>8. ~Writing(p)
    BY <2>5, ReadyFacts
  <2>9. payload = First(V[p].alloc_map)
    BY <2>2, <2>6, <2>7, <2>8 DEF Are, Entries
  <2>10. /\ d0 = [dir EXCEPT ![V[p].entry] = Deleted] /\ f \in [Blocks -> Int]
         /\ ViewsInv(Drop(V, p), f, data, Drop(files, p))
    <3>1. /\ r.dir = [dir EXCEPT ![s] = Deleted] /\ r.fat \in [Blocks -> Int]
          /\ ViewsInv(Drop(V, p), r.fat, data, Drop(files, p))
      <4>1. r = Removed(s, V[p].alloc_map)
        BY <2>3, <2>6, <2>9, ChainSeen
      <4>2. /\ Removed(s, V[p].alloc_map).dir = [dir EXCEPT ![s] = Deleted]
            /\ Removed(s, V[p].alloc_map).fat \in [Blocks -> Int]
            /\ ViewsInv(Drop(V, p), Removed(s, V[p].alloc_map).fat, data, Drop(files, p))
        BY <2>6, RemovedIs
      <4> QED
        BY <4>1, <4>2
    <3> QED
      BY <2>4, <2>7, <3>1
  <2>11. dir' = WithFile(d0, p) /\ e = EmptySlot(d0)
    BY <2>4, <2>5 DEF Opened
  <2>12. MadeAt(e, p)
    BY <2>6, <2>10, <2>11, MadeOver
  <2> QED
    BY <1>2, <2>5, <2>10, <2>12, OpenedNew
<1> QED
  BY <1>1, <1>2

(* Files that are removed *)

\* A file less keeps the invariant, if the list and the handles do.
LEMMA FileRemoved ==
    ASSUME NEW V, Are(V), NEW p \in DOMAIN files, NEW W, W = Drop(V, p),
           dir' = [dir EXCEPT ![V[p].entry] = Deleted],
           ViewsInv(W, fat', data', Drop(files, p)), files' = Without(p),
           op = Idle, op' = Idle, ~misread', Caches(W)', HandlesInv(W)'
    PROVE  Are(W)'
<1>1. TreeInv /\ Placed(V) /\ Entries(V) /\ ViewsInv(V, fat, data, files)
  BY DEF Are
<1>2. PICK v : v = V[p].entry
  OBVIOUS
<1>3. p \in AllPaths /\ At(p, FILE_TYPE, v) /\ v \in Slots /\ IsFile(v)
  BY <1>2, FileFacts
<1>4. dir' \in [Slots -> EntryRecs] /\ dir'[v] = Deleted /\ \A s \in Slots \ {v} : dir'[s] = dir[s]
  BY <1>1, <1>2, <1>3, EmptyFacts DEF TreeInv
<1>5. FileChange(SEARCH_FAILURE, p)
  BY <1>3, <1>4, SlotFacts DEF FileChange
<1>6. TreeInv' /\ \A q \in AllPaths : Parent(q)' = Parent(q)
  BY <1>1, <1>3, <1>5, FileTree
<1>7. DOMAIN files' = DOMAIN files \ {p} /\ files' = Drop(files, p)
  BY DEF Without, Drop
<1>8. \A q \in DOMAIN files' : W[q] = V[q]
  BY <1>1, <1>7 DEF Drop, ViewsInv
<1>9. ViewsInv(W, fat, data, files)'
  BY <1>7
<1>10. \A q \in DOMAIN files' :
         /\ q \in AllPaths /\ At(q, FILE_TYPE, V[q].entry) /\ V[q].entry \in Slots
         /\ dir'[V[q].entry] = dir[V[q].entry]
  <2> SUFFICES ASSUME NEW q \in DOMAIN files, q # p
               PROVE  /\ q \in AllPaths /\ At(q, FILE_TYPE, V[q].entry) /\ V[q].entry \in Slots
                      /\ dir'[V[q].entry] = dir[V[q].entry]
    BY <1>7
  <2>1. q \in AllPaths /\ At(q, FILE_TYPE, V[q].entry) /\ V[q].entry \in Slots
    BY FileFacts
  <2>2. V[q].entry # v
    BY <1>2, EntryOne
  <2> QED
    BY <1>4, <2>1, <2>2
<1>11. Placed(W)'
  <2>1. DOMAIN files' \subseteq FilePaths
    BY <1>1, <1>7 DEF Placed
  <2>2. \A q \in DOMAIN files' : At(q, FILE_TYPE, V[q].entry)'
    BY <1>6, <1>10 DEF At
  <2>3. \A q \in DOMAIN files' : W[q].path = q /\ At(q, FILE_TYPE, W[q].entry)'
    BY <1>1, <1>7, <1>8, <2>2 DEF Placed
  <2>4. ASSUME NEW s \in Slots, IsFile(s)' PROVE \E q \in DOMAIN files' : W[q].entry = s
    <3>1. s # v
      BY <1>4, <2>4, EmptyFacts DEF IsFile, Live
    <3>2. IsFile(s)
      BY <1>4, <2>4, <3>1 DEF IsFile, Live
    <3>3. PICK q \in DOMAIN files : V[q].entry = s
      BY <1>1, <3>2 DEF Placed
    <3> QED
      BY <1>2, <1>7, <1>8, <3>1, <3>3
  <2>5. \A s \in Slots : IsDir(s)' => \E q \in DirPaths : At(q, DIRECTORY_TYPE, s)'
    <3>1. \A s \in Slots : IsDir(s)' => SameKey(s)
      BY <1>4, EmptyFacts DEF IsDir, FILE_TYPE, DIRECTORY_TYPE, SameKey
    <3> QED
      BY <1>1, <1>6, <3>1, DirsPlaced
  <2> QED
    BY <2>1, <2>3, <2>4, <2>5 DEF Placed
<1>12. Entries(W)'
  <2>1. \A q : ~Writing(q)
    BY IdleFacts DEF Writing
  <2>2. \A q \in DOMAIN files' :
           /\ dir'[W[q].entry].size = W[q].size
           /\ dir'[W[q].entry].payload = First(W[q].alloc_map)
    BY <1>1, <1>7, <1>8, <1>10, <2>1 DEF Entries
  <2> QED
    BY <2>2 DEF Entries
<1> QED
  BY <1>6, <1>9, <1>11, <1>12 DEF Are

\* echfs_remove of a file that is not cached.
LEMMA RemoveUncachedStep ==
    ASSUME NEW V, Are(V), ~BadPaths, NEW p \in FilePaths, RemoveUncached(p)
    PROVE  \E W : Are(W)'
<1>1. PICK s : s = Target(p, FILE_TYPE)
  OBVIOUS
<1>2. PICK payload : payload = dir[s].payload
  OBVIOUS
<1>3. PICK r : r = Removed(s, Chain(fat, payload))
  OBVIOUS
<1>4. /\ Ready /\ ~Cached(p) /\ Found(p, FILE_TYPE) /\ fat' = r.fat /\ dir' = r.dir
      /\ files' = Without(p)
      /\ UNCHANGED <<data, cached_files, freed, handles, op, misread, status>>
  BY <1>1, <1>2, <1>3 DEF RemoveUncached
<1>5. p \in DOMAIN files
  BY <1>4, FoundIs
<1>6. s = V[p].entry
  BY <1>1, <1>5, FileFacts
<1>7. ~Writing(p) /\ op = Idle
  BY <1>4, ReadyFacts
<1>8. payload = First(V[p].alloc_map)
  BY <1>2, <1>5, <1>6, <1>7 DEF Are, Entries
<1>9. /\ dir' = [dir EXCEPT ![V[p].entry] = Deleted]
      /\ ViewsInv(Drop(V, p), fat', data', Drop(files, p))
  <2>1. /\ r.dir = [dir EXCEPT ![s] = Deleted] /\ r.fat \in [Blocks -> Int]
        /\ ViewsInv(Drop(V, p), r.fat, data, Drop(files, p))
    <3>1. r = Removed(s, V[p].alloc_map)
      BY <1>3, <1>5, <1>8, ChainSeen
    <3>2. /\ Removed(s, V[p].alloc_map).dir = [dir EXCEPT ![s] = Deleted]
          /\ Removed(s, V[p].alloc_map).fat \in [Blocks -> Int]
          /\ ViewsInv(Drop(V, p), Removed(s, V[p].alloc_map).fat, data, Drop(files, p))
      BY <1>5, RemovedIs
    <3> QED
      BY <3>1, <3>2
  <2> QED
    BY <1>4, <1>6, <2>1
<1>10. PICK W : W = Drop(V, p)
  OBVIOUS
<1>11. DOMAIN files' = DOMAIN files \ {p}
  BY <1>4 DEF Without
<1>12. ViewsInv(V, fat, data, files) /\ Caches(V) /\ HandlesInv(V) /\ ~misread
  BY DEF Are
<1>13. \A q \in DOMAIN files' : W[q] = V[q]
  BY <1>10, <1>11, <1>12 DEF Drop, ViewsInv
<1>14. Caches(W)' /\ \A q : Cached(q)' <=> Cached(q)
  BY <1>4, <1>11, <1>12, <1>13, CachesSame
<1>15. Grows(V, W)
  BY <1>4, <1>11, <1>13, <1>14 DEF Grows
<1>16. op' \in OpRecs /\ op' = Idle /\ op'.type = "none"
  BY <1>4, <1>7, IdleFacts
<1>17. HandlesInv(W)'
  BY <1>4, <1>12, <1>15, <1>16, HandlesSame
<1>18. Are(W)'
  BY <1>4, <1>5, <1>7, <1>9, <1>10, <1>12, <1>14, <1>16, <1>17, FileRemoved
<1> QED
  BY <1>18

\* echfs_remove of a cached file.
LEMMA RemoveCachedStep ==
    ASSUME NEW V, Are(V), NEW p \in FilePaths, RemoveCached(p)
    PROVE  \E W : Are(W)'
<1>1. PICK rec : rec = CachedFile(p)
  OBVIOUS
<1>2. PICK payload : payload = EntryOf(rec).payload
  OBVIOUS
<1>3. PICK r : r = Removed(rec.entry, Chain(fat, payload))
  OBVIOUS
<1>4. /\ Ready /\ Cached(p) /\ fat' = r.fat /\ dir' = r.dir
      /\ cached_files' = Shifted(CHOOSE c \in CachedAt(p) : TRUE)
      /\ files' = Without(p) /\ handles' = Moved
      /\ UNCHANGED <<data, op, misread, status>>
  BY <1>1, <1>2, <1>3 DEF RemoveCached
<1>5. p \in DOMAIN files /\ rec = V[p]
  BY <1>1, <1>4, CachedFileIs
<1>6. rec \in CachedRecs /\ TreeInv
  BY <1>5, FileFacts DEF Are
<1>7. payload = First(V[p].alloc_map)
  BY <1>2, <1>5, <1>6, EntryOfFacts
<1>8. op = Idle
  BY <1>4, ReadyFacts
<1>9. PICK s : s = rec.entry
  OBVIOUS
<1>10. /\ dir' = [dir EXCEPT ![V[p].entry] = Deleted]
       /\ ViewsInv(Drop(V, p), fat', data', Drop(files, p))
  <2>1. r = Removed(s, Chain(fat, payload))
    BY <1>3, <1>9
  <2>2. p \in DOMAIN files /\ payload = First(V[p].alloc_map)
    BY <1>5, <1>7
  <2>3. /\ r.dir = [dir EXCEPT ![s] = Deleted] /\ r.fat \in [Blocks -> Int]
        /\ ViewsInv(Drop(V, p), r.fat, data, Drop(files, p))
    <3>1. r = Removed(s, V[p].alloc_map)
      BY <2>1, <2>2, ChainSeen
    <3>2. /\ Removed(s, V[p].alloc_map).dir = [dir EXCEPT ![s] = Deleted]
          /\ Removed(s, V[p].alloc_map).fat \in [Blocks -> Int]
          /\ ViewsInv(Drop(V, p), Removed(s, V[p].alloc_map).fat, data, Drop(files, p))
      BY <2>2, RemovedIs
    <3> QED
      BY <3>1, <3>2
  <2> QED
    BY <1>4, <1>5, <1>9, <2>3
<1>11. PICK W : W = Drop(V, p)
  OBVIOUS
<1>12. DOMAIN files' = DOMAIN files \ {p}
  BY <1>4 DEF Without
<1>13. ViewsInv(V, fat, data, files) /\ Caches(V) /\ HandlesInv(V) /\ ~misread
  BY DEF Are
<1>14. \A q \in DOMAIN files' : W[q] = V[q]
  BY <1>11, <1>12, <1>13 DEF Drop, ViewsInv
<1>15. Caches(W)'
  BY <1>4, <1>12, <1>13, <1>14, CachesShifted
<1>16. HandlesInv(W)' /\ op' = Idle
  BY <1>4, <1>8, <1>13, HandlesMoved
<1>17. Are(W)'
  BY <1>4, <1>5, <1>8, <1>10, <1>11, <1>13, <1>15, <1>16, FileRemoved
<1> QED
  BY <1>17

(* Directories that are made *)

\* What vfs_kmkdir does to the directory.
LEMMA MkdirChange ==
    ASSUME TreeInv, ~BadPaths, NEW p \in DirPaths, Mkdir(p), Seen # Slots, NEW e,
           e = EmptySlot(dir)
    PROVE  /\ e \in Slots /\ ~Live(e) /\ \A s \in Slots \ {e} : dir'[s] = dir[s]
           /\ dir'[e].parent_id # 0
           /\ status' = "ok" => DirChange(e, p)
<1>1. p \in AllPaths
  BY DEF AllPaths
<1>2. EmptySlots(dir) # {}
  <2>1. PICK s \in Slots : dir[s].parent_id = 0
    BY SeenIs
  <2> QED
    BY <2>1 DEF EmptySlots
<1>3. /\ e \in Slots /\ ~Live(e)
      /\ \A s \in Slots : ~Live(s) => e <= s
  BY <1>2, EmptySlotIs
<1>4. Ready /\ ~Found(p, DIRECTORY_TYPE) /\ ~Failure(p)
  BY DEF Mkdir
<1>5. \A s : ~At(p, DIRECTORY_TYPE, s)
  BY <1>1, <1>4, TargetIs DEF Types
<1>6. PICK id : id = GetFreeId
  OBVIOUS
<1>7. id \in Int /\ id >= 1
  BY <1>6, FreeIdPositive
<1>8. status' = "ok" => \A s \in Slots : IsDir(s) => dir[s].payload # id
  BY <1>6, SlotsAre DEF Mkdir
<1>9. PICK x : x = DirEntry(Parent(p), DIRECTORY_TYPE, Last(p), id, 0)
  OBVIOUS
<1>10. Parent(p) \in Int /\ Parent(p) # 0 /\ Last(p) \in Names
  BY <1>1, <1>4, Parents, PathFacts DEF Failure
<1>11. x \in EntryRecs /\ x.parent_id = Parent(p) /\ x.type = DIRECTORY_TYPE
       /\ x.name = Last(p) /\ x.payload = id
  BY <1>7, <1>9, <1>10 DEF DirEntry, EntryRecs, Types
<1>12. dir' = [dir EXCEPT ![e] = x] /\ dir \in [Slots -> EntryRecs]
  BY <1>4, <1>6, <1>9 DEF Mkdir, TreeInv
<1>13. dir' \in [Slots -> EntryRecs] /\ dir'[e] = x /\ \A s \in Slots \ {e} : dir'[s] = dir[s]
  BY <1>3, <1>11, <1>12
<1> QED
  BY <1>3, <1>5, <1>7, <1>8, <1>10, <1>11, <1>13 DEF DirChange

\* vfs_kmkdir.
LEMMA MkdirStep ==
    ASSUME NEW V, Are(V), ~BadPaths, NEW p \in DirPaths, Mkdir(p)
    PROVE  status' # "ok" \/ Are(V)'
<1>1. CASE Seen = Slots
  BY <1>1 DEF Mkdir, Ends
<1>2. CASE Seen # Slots /\ status' = "ok"
  <2>1. PICK e : e = EmptySlot(dir)
    OBVIOUS
  <2>2. /\ Placed(V) /\ Caches(V) /\ Entries(V) /\ HandlesInv(V)
        /\ ViewsInv(V, fat, data, files) /\ TreeInv /\ ~misread /\ p \in AllPaths
    BY DEF Are, AllPaths
  <2>3. DirChange(e, p)
    BY <1>2, <2>1, <2>2, MkdirChange
  <2>4. TreeInv'
    BY <2>2, <2>3, DirTree
  <2>5. \A q \in AllPaths : Parent(q) # 0 => Parent(q)' = Parent(q)
    BY <2>2, <2>3, <2>4, NewDir
  <2>6. UNCHANGED <<fat, data, cached_files, freed, handles, op, misread, files>>
    BY <1>2 DEF Mkdir
  <2>7. /\ ~Live(e) /\ dir'[e].type = DIRECTORY_TYPE
        /\ \A s \in Slots \ {e} : dir'[s] = dir[s]
    BY <2>3 DEF DirChange
  <2>8. \A q \in DOMAIN files :
           /\ q \in AllPaths /\ At(q, FILE_TYPE, V[q].entry) /\ V[q].entry \in Slots
           /\ dir'[V[q].entry] = dir[V[q].entry]
    BY <2>7, FileFacts DEF IsFile
  <2>9. Placed(V)'
    <3>1. \A q \in DOMAIN files : At(q, FILE_TYPE, V[q].entry)'
      BY <2>5, <2>8 DEF At
    <3>2. \A s \in Slots : IsFile(s)' => IsFile(s)
      BY <2>7 DEF IsFile, Live, FILE_TYPE, DIRECTORY_TYPE
    <3>3. ASSUME NEW s \in Slots, IsDir(s)' PROVE \E q \in DirPaths : At(q, DIRECTORY_TYPE, s)'
      <4>1. CASE s = e
        <5>1. /\ Parent(p) # 0 /\ dir'[e].parent_id = Parent(p) /\ dir'[e].name = Last(p)
              /\ Parent(p)' = Parent(p)
          BY <2>2, <2>3, <2>5 DEF DirChange
        <5>2. At(p, DIRECTORY_TYPE, s)'
          BY <2>7, <4>1, <5>1 DEF At
        <5> QED
          BY <5>2
      <4>2. CASE s # e
        <5>1. dir'[s] = dir[s] /\ IsDir(s)
          BY <2>7, <3>3, <4>2 DEF IsDir
        <5>2. PICK q \in DirPaths : At(q, DIRECTORY_TYPE, s)
          BY <2>2, <5>1 DEF Placed
        <5>3. Parent(q)' = Parent(q)
          BY <2>5, <5>2 DEF At, AllPaths
        <5>4. At(q, DIRECTORY_TYPE, s)'
          BY <5>1, <5>2, <5>3 DEF At
        <5> QED
          BY <5>4
      <4> QED
        BY <4>1, <4>2
    <3> QED
      BY <2>2, <2>6, <3>1, <3>2, <3>3 DEF Placed
  <2>10. Entries(V)'
    BY <2>2, <2>6, <2>8 DEF Entries, Writing
  <2>11. Caches(V)' /\ Grows(V, V)
    BY <2>2, <2>6, CachesSame, GrowsSame
  <2>12. HandlesInv(V)'
    <3>1. op \in OpRecs
      BY <2>2 DEF HandlesInv
    <3> QED
      BY <2>2, <2>6, <2>11, <3>1, HandlesSame
  <2> QED
    BY <2>2, <2>4, <2>6, <2>9, <2>10, <2>11, <2>12 DEF Are
<1> QED
  BY <1>1, <1>2

(* All steps *)

\* An operation by path.
LEMMA ByPathStep ==
    ASSUME NEW V, Are(V), ~BadPaths, ~Gaps, NEW p \in FilePaths, ByPath(p)
    PROVE  status' # "ok" \/ \E W : Are(W)'
<1>1. CASE Create(p)
  BY <1>1, CreateStep
<1>2. CASE RemoveUncached(p)
  BY <1>2, RemoveUncachedStep
<1>3. CASE RemoveCached(p)
  BY <1>3, RemoveCachedStep
<1>4. CASE OpenNew(p)
  BY <1>4, OpenNewStep
<1>5. CASE OpenTruncated(p)
  BY <1>5, OpenTruncatedStep
<1>6. CASE \E append \in BOOLEAN : OpenExisting(p, append)
  BY <1>6, OpenExistingStep
<1>7. ASSUME ~Missing(p) PROVE p \in DOMAIN files
  BY <1>7, CachedFileIs, FoundIs DEF Missing
<1>8. ASSUME NEW loc \in 0 .. MaxSize - 1, ReadByPath(p, loc) PROVE \E W : Are(W)'
  <2>1. loc \in Nat /\ Ready /\ ~Missing(p) /\ ReadFound(p, loc)
    BY <1>8, EchfsAssumption DEF ReadByPath, Lost
  <2> QED
    BY <1>7, <2>1, ReadStep
<1>9. ASSUME NEW loc \in 0 .. MaxSize - 1, NEW byte \in Payloads, WriteByPath(p, loc, byte)
      PROVE  status' # "ok" \/ \E W : Are(W)'
  <2>1. loc \in Nat /\ Ready /\ ~Missing(p) /\ WriteFound(p, loc, byte)
    BY <1>9, EchfsAssumption DEF WriteByPath, Lost
  <2> QED
    BY <1>7, <2>1, WriteStep
<1> QED
  BY <1>1, <1>2, <1>3, <1>4, <1>5, <1>6, <1>8, <1>9 DEF ByPath

\* Steps leave a status.
LEMMA StatusStep ==
    ASSUME status \in Statuses, [Next]_vars
    PROVE  status' \in Statuses
<1>1. \A st : Ends(st) => status' = st
  BY DEF Ends
<1>2. CASE UNCHANGED vars
  BY <1>2 DEF vars
<1>3. ASSUME NEW p \in FilePaths, ByPath(p) PROVE status' \in Statuses
  <2>1. CASE Create(p) \/ RemoveUncached(p) \/ RemoveCached(p)
    BY <1>1, <2>1 DEF Create, RemoveUncached, RemoveCached, Statuses
  <2>2. CASE OpenNew(p) \/ OpenTruncated(p) \/ \E append \in BOOLEAN : OpenExisting(p, append)
    BY <1>1, <2>2 DEF OpenNew, OpenTruncated, OpenExisting, Opened, Statuses
  <2>3. CASE \E loc \in 0 .. MaxSize - 1 :
                ReadByPath(p, loc) \/ \E byte \in Payloads : WriteByPath(p, loc, byte)
    BY <1>1, <2>3 DEF ReadByPath, WriteByPath, ReadFound, WriteFound, Lost, Statuses
  <2> QED
    BY <1>3, <2>1, <2>2, <2>3 DEF ByPath
<1>4. ASSUME NEW p \in DirPaths, Mkdir(p) PROVE status' \in Statuses
  BY <1>1, <1>4 DEF Mkdir, Statuses
<1>5. ASSUME NEW h \in DOMAIN handles, ByHandle(h) PROVE status' \in Statuses
  BY <1>1, <1>5 DEF ByHandle, Close, Fork, Seek, Begin, Statuses
<1>6. CASE UreadByte \/ UreadDone \/ UwriteDone \/ \E byte \in Payloads : UwriteByte(byte)
  BY <1>1, <1>6 DEF UreadByte, UreadDone, UwriteDone, UwriteByte, Statuses
<1>7. CASE UsesFreed \/ Abandoned
  BY <1>1, <1>7 DEF UsesFreed, Abandoned, Statuses
<1> QED
  BY <1>2, <1>3, <1>4, <1>5, <1>6, <1>7 DEF Next

\* Every step keeps the invariant.
LEMMA Step ==
    ASSUME EchfsInv, ~BadPaths, ~Gaps, [Next]_vars
    PROVE  EchfsInv'
<1>1. status' \in Statuses
  BY StatusStep DEF EchfsInv
<1>2. ASSUME Next, status # "ok" PROVE FALSE
  BY <1>2 DEF Next, ByPath, ByHandle, Create, RemoveUncached, RemoveCached, OpenNew, OpenTruncated,
     OpenExisting, ReadByPath, WriteByPath, Mkdir, Close, Fork, Seek, Begin, UreadByte, UreadDone,
     UwriteDone, UwriteByte, UsesFreed, Abandoned, Ready
<1>3. ASSUME NEW V, Are(V), status = "ok", Next PROVE status' # "ok" \/ \E W : Are(W)'
  <2>1. ASSUME NEW p \in FilePaths, ByPath(p) PROVE status' # "ok" \/ \E W : Are(W)'
    BY <1>3, <2>1, ByPathStep
  <2>2. ASSUME NEW p \in DirPaths, Mkdir(p) PROVE status' # "ok" \/ \E W : Are(W)'
    BY <1>3, <2>2, MkdirStep
  <2>3. ASSUME NEW h \in DOMAIN handles, ByHandle(h) PROVE status' # "ok" \/ \E W : Are(W)'
    BY <1>3, <2>3, HandleStep
  <2>4. CASE UreadByte
    BY <1>3, <2>4, UreadByteStep
  <2>5. CASE UreadDone
    BY <1>3, <2>5, UreadDoneStep
  <2>6. CASE UwriteDone
    BY <1>3, <2>6, UwriteDoneStep
  <2>7. ASSUME NEW byte \in Payloads, UwriteByte(byte) PROVE status' # "ok" \/ \E W : Are(W)'
    BY <1>3, <2>7, UwriteByteStep
  <2>8. CASE UsesFreed \/ Abandoned
    BY <2>8 DEF UsesFreed, Abandoned, Ends
  <2> QED
    BY <1>3, <2>1, <2>2, <2>3, <2>4, <2>5, <2>6, <2>7, <2>8 DEF Next
<1>4. ASSUME NEW V, Are(V), UNCHANGED vars PROVE Are(V)'
  <2>1. UNCHANGED <<dir, fat, data, files, misread, cached_files, handles, op>>
    BY <1>4 DEF vars
  <2>2. /\ Placed(V) /\ Caches(V) /\ Entries(V) /\ HandlesInv(V)
        /\ ViewsInv(V, fat, data, files) /\ TreeInv /\ ~misread
    BY <1>4 DEF Are
  <2>3. TreeInv' /\ \A q \in AllPaths : Parent(q)' = Parent(q)
    BY <2>1, <2>2, SameDirectory
  <2>4. Placed(V)'
    <3>1. \A t \in Slots : SameKey(t)
      BY <2>1 DEF SameKey
    <3> QED
      BY <2>1, <2>2, <2>3, <3>1, PlacedKept
  <2>5. Entries(V)'
    BY <2>1, <2>2 DEF Entries, Writing
  <2>6. Caches(V)' /\ Grows(V, V)
    BY <2>1, <2>2, CachesSame, GrowsSame
  <2>7. HandlesInv(V)'
    <3>1. op \in OpRecs
      BY <2>2 DEF HandlesInv
    <3> QED
      BY <2>1, <2>2, <2>6, <3>1, HandlesSame
  <2> QED
    BY <2>1, <2>2, <2>3, <2>4, <2>5, <2>6, <2>7 DEF Are
<1>5. CASE status # "ok"
  <2>1. status' = status
    BY <1>2, <1>5 DEF vars
  <2> QED
    BY <1>1, <1>5, <2>1 DEF EchfsInv
<1>6. CASE status = "ok"
  <2>1. PICK V : Are(V)
    BY <1>6 DEF EchfsInv
  <2>2. status' # "ok" \/ \E W : Are(W)'
    BY <1>3, <1>4, <1>6, <2>1
  <2> QED
    BY <1>1, <2>2 DEF EchfsInv
<1> QED
  BY <1>5, <1>6

(* The disk at boot *)

\* The first file, in the first blocks after the tables.
FirstRec(p, size) ==
    [path |-> p, entry |-> 0, size |-> size,
     alloc_map |-> [k \in 1 .. BlockCount(size) |-> Reserved + k - 1],
     cached_block |-> 0, cache |-> Zeros, cache_status |-> CACHE_NOTREADY]

\* A file that fits on the device has blocks enough.
LEMMA CountFits ==
    ASSUME NEW x \in Nat, NEW size \in Nat, size <= x * BYTES_PER_BLOCK
    PROVE  BlockCount(size) <= x /\ (size > 0 => BlockCount(size) >= 1)
<1> DEFINE B == BYTES_PER_BLOCK
<1>1. B \in Nat /\ B > 0
  BY EchfsAssumption
<1>2. PICK a \in Nat : a = size + B - 1
  BY <1>1
<1>3. size <= x * B
  BY DEF B
<1>4. BlockCount(size) = a \div B
  BY <1>2 DEF BlockCount, B
<1> HIDE DEF B
<1>5. PICK n \in Nat, r \in 0 .. B - 1 : n = a \div B /\ a = n * B + r
  BY <1>1, Divided
<1>6. n <= x
  <2> SUFFICES ASSUME n >= x + 1 PROVE FALSE
    OBVIOUS
  <2>1. PICK y \in Nat : n = x + 1 + y
    OBVIOUS
  <2>2. n * B = x * B + B + y * B /\ y * B >= 0
    BY <1>1, <2>1
  <2> QED
    BY <1>1, <1>2, <1>3, <1>5, <2>2
<1>7. size > 0 => n >= 1
  BY <1>1, <1>2, <1>5
<1> QED
  BY <1>4, <1>5, <1>6, <1>7

\* The blocks of the first file.
LEMMA FirstRecFacts ==
    ASSUME NEW p \in FilePaths, NEW size \in InitSizes, NEW n, n = BlockCount(size),
           NEW rec, rec = FirstRec(p, size)
    PROVE  /\ size \in Nat /\ n \in Nat /\ Reserved + n <= NBlocks /\ (size = 0 <=> n = 0)
           /\ rec \in CachedRecs /\ Fresh(rec) /\ rec.cache_status = CACHE_NOTREADY
           /\ rec.path = p /\ rec.entry = 0 /\ rec.size = size
           /\ rec.alloc_map = [k \in 1 .. n |-> Reserved + k - 1]
           /\ Len(rec.alloc_map) = n /\ DOMAIN rec.alloc_map = 1 .. n
           /\ \A b \in Blocks : Has(rec, b) <=> b \in Reserved .. Reserved + n - 1
<1>1. PICK x \in Nat : x = NBlocks - Reserved
  BY Constants
<1>2. size \in Nat /\ size <= x * BYTES_PER_BLOCK
  BY <1>1, EchfsAssumption
<1>3. n \in Nat /\ n <= x /\ (size = 0 <=> n = 0)
  <2>1. BlockCount(size) \in Nat /\ BlockCount(0) = 0
    BY <1>2, CountFacts, Zenon
  <2>2. BlockCount(size) <= x /\ (size > 0 => BlockCount(size) >= 1)
    BY <1>2, CountFits, Zenon
  <2> QED
    BY <1>2, <2>1, <2>2
<1>4. PICK m : m = [k \in 1 .. n |-> Reserved + k - 1]
  OBVIOUS
<1>5. m \in [1 .. n -> Data]
  BY <1>1, <1>3, <1>4, Constants DEF Data
<1>6. m \in Seq(Data) /\ Len(m) = n /\ DOMAIN m = 1 .. n
  <2>1. m \in Seq(Data)
    BY <1>3, <1>5, SeqDef
  <2> QED
    BY <1>3, <1>5, <2>1, LenProperties
<1>7. Zeros \in [Offsets -> Bytes] /\ CACHE_NOTREADY \in Statuses3 /\ 0 \in Slots
  BY Constants, SlotFacts DEF Zeros, Statuses3
<1>8. rec = [path |-> p, entry |-> 0, size |-> size, alloc_map |-> m, cached_block |-> 0,
             cache |-> Zeros, cache_status |-> CACHE_NOTREADY]
  BY <1>4 DEF FirstRec
<1>9. /\ rec \in CachedRecs /\ Fresh(rec) /\ rec.cache_status = CACHE_NOTREADY
      /\ rec.path = p /\ rec.entry = 0 /\ rec.size = size /\ rec.alloc_map = m
  BY <1>2, <1>6, <1>7, <1>8 DEF CachedRecs, Fresh
<1>10. \A b \in Blocks : Has(rec, b) <=> b \in Reserved .. Reserved + n - 1
  <2> SUFFICES ASSUME NEW b \in Blocks
               PROVE  (\E k \in 1 .. n : m[k] = b) <=> b \in Reserved .. Reserved + n - 1
    BY <1>6, <1>9 DEF Has
  <2>1. \A k \in 1 .. n : m[k] = Reserved + k - 1
    BY <1>4
  <2>2. b \in Nat /\ Reserved \in Nat
    BY Constants
  <2>3. ASSUME b \in Reserved .. Reserved + n - 1 PROVE \E k \in 1 .. n : m[k] = b
    <3>1. b - Reserved + 1 \in 1 .. n
      BY <1>3, <2>2, <2>3
    <3>2. m[b - Reserved + 1] = b
      BY <2>1, <2>2, <3>1
    <3> QED
      BY <3>1, <3>2
  <2> QED
    BY <1>3, <2>1, <2>2, <2>3
<1> QED
  BY <1>1, <1>2, <1>3, <1>4, <1>6, <1>9, <1>10, Constants

\* The invariant holds at boot.
LEMMA InitInv == Init => EchfsInv
<1> SUFFICES ASSUME Init PROVE EchfsInv
  OBVIOUS
<1>1. PICK p \in FilePaths, size \in InitSizes, exists \in BOOLEAN :
         /\ Len(p) = 1
         /\ dir = [s \in Slots |-> IF s = 0 /\ exists
               THEN DirEntry(ROOT_ID, FILE_TYPE, Last(p),
                             IF size = 0 THEN END_OF_CHAIN ELSE Reserved, size)
               ELSE Empty]
         /\ fat = [b \in Blocks |->
               CASE b < Reserved -> RESERVED_BLOCK
                 [] b \in (IF exists THEN Reserved .. Reserved + BlockCount(size) - 1 ELSE {}) ->
                       IF b = Reserved + BlockCount(size) - 1 THEN END_OF_CHAIN ELSE b + 1
                 [] OTHER -> 0]
         /\ files = [q \in IF exists THEN {p} ELSE {} |-> [k \in 1 .. size |-> 0]]
  BY DEF Init
<1>2. /\ data = [b \in Blocks |-> Zeros] /\ cached_files = <<>>
      /\ handles = [h \in 1 .. MaxHandles |-> NoHandle] /\ op = Idle /\ misread = FALSE
      /\ status = "ok"
  BY DEF Init
<1>3. PICK n, rec : n = BlockCount(size) /\ rec = FirstRec(p, size)
  OBVIOUS
<1>4. /\ size \in Nat /\ n \in Nat /\ Reserved + n <= NBlocks /\ (size = 0 <=> n = 0)
      /\ rec \in CachedRecs /\ Fresh(rec) /\ rec.cache_status = CACHE_NOTREADY
      /\ rec.path = p /\ rec.entry = 0 /\ rec.size = size
      /\ rec.alloc_map = [k \in 1 .. n |-> Reserved + k - 1]
      /\ Len(rec.alloc_map) = n /\ DOMAIN rec.alloc_map = 1 .. n
      /\ \A b \in Blocks : Has(rec, b) <=> b \in Reserved .. Reserved + n - 1
  BY <1>3, FirstRecFacts
<1>5. PICK first \in Int : first = IF size = 0 THEN END_OF_CHAIN ELSE Reserved
  BY Constants DEF END_OF_CHAIN
<1>6. p \in AllPaths /\ Last(p) \in Names
  BY PathFacts DEF AllPaths
<1>7. PICK x : x = DirEntry(ROOT_ID, FILE_TYPE, Last(p), first, size)
  OBVIOUS
<1>8. /\ x \in EntryRecs /\ x.parent_id = ROOT_ID /\ x.type = FILE_TYPE /\ x.name = Last(p)
      /\ x.payload = first /\ x.size = size
  BY <1>4, <1>6, <1>7 DEF DirEntry, EntryRecs, Types, ROOT_ID
<1>9. dir = [s \in Slots |-> IF s = 0 /\ exists THEN x ELSE Empty]
  BY <1>1, <1>5, <1>7
<1>10. TreeInv
  <2>1. dir \in [Slots -> EntryRecs]
    BY <1>8, <1>9, EmptyFacts
  <2>2. \A s \in Slots : ~IsDir(s)
    BY <1>8, <1>9, EmptyFacts DEF IsDir, FILE_TYPE, DIRECTORY_TYPE
  <2>3. \A s \in Slots : Live(s) => s = 0 /\ exists /\ dir[s].parent_id = ROOT_ID
    BY <1>8, <1>9, EmptyFacts DEF Live
  <2>4. \A s, t \in Slots : s <= t /\ dir[s].parent_id = 0 => dir[t] = Empty
    BY <1>8, <1>9, SlotFacts DEF ROOT_ID
  <2>5. \A s, t \in Slots : Live(s) /\ SameName(s, t) => s = t
    BY <2>3 DEF SameName, Live
  <2> QED
    BY <2>1, <2>2, <2>3, <2>4, <2>5 DEF TreeInv, DirId
<1>11. Parent(p) = ROOT_ID
  BY <1>1, <1>6, <1>10, IdsBefore DEF Parent
<1>12. PICK V : V = [q \in DOMAIN files |-> rec]
  OBVIOUS
<1>13. DOMAIN files = IF exists THEN {p} ELSE {}
  BY <1>1
<1>14. \A q \in DOMAIN files : q = p /\ exists /\ V[q] = rec /\ files[q] = [k \in 1 .. size |-> 0]
  BY <1>1, <1>12, <1>13
<1>15. exists => /\ dir[0] = x /\ IsFile(0) /\ At(p, FILE_TYPE, 0)
  BY <1>8, <1>9, <1>11, SlotFacts DEF At, IsFile, Live, ROOT_ID, DELETED_ENTRY
<1>16. Placed(V)
  <2>1. \A s \in Slots : IsFile(s) => s = 0 /\ exists
    BY <1>9, EmptyFacts DEF IsFile, Live
  <2>2. exists => p \in DOMAIN files
    BY <1>13
  <2>3. \A s \in Slots : ~IsDir(s)
    BY <1>8, <1>9, EmptyFacts DEF IsDir, FILE_TYPE, DIRECTORY_TYPE
  <2> QED
    BY <1>4, <1>13, <1>14, <1>15, <2>1, <2>2, <2>3 DEF Placed
<1>17. Caches(V)
  <2>1. cached_files \in Seq(CachedRecs) /\ DOMAIN cached_files = {}
    BY <1>2, EmptySeq
  <2> QED
    BY <1>4, <1>14, <2>1 DEF Caches
<1>18. Entries(V)
  <2>1. first = First(rec.alloc_map)
    <3>1. CASE size = 0
      <4>1. rec.alloc_map = <<>>
        BY <1>4, <3>1, EmptySeq DEF CachedRecs
      <4> QED
        BY <1>5, <3>1, <4>1 DEF First
    <3>2. CASE size # 0
      <4>1. 1 \in 1 .. n
        BY <1>4, <3>2
      <4>2. rec.alloc_map[1] = Reserved
        BY <1>4, <4>1, Constants
      <4>3. rec.alloc_map # <<>>
        BY <1>4, <4>1
      <4> QED
        BY <1>5, <3>2, <4>2, <4>3 DEF First
    <3> QED
      BY <3>1, <3>2
  <2> QED
    BY <1>4, <1>8, <1>14, <1>15, <2>1 DEF Entries
<1>19. HandlesInv(V)
  <2>1. NoHandle \in HandleRecs /\ ~NoHandle.current /\ Idle \in OpRecs /\ Idle.type = "none"
    BY NoHandleFacts, IdleFacts
  <2> QED
    BY <1>2, <2>1 DEF HandlesInv
<1>20. fat \in [Blocks -> Int] /\ data \in [Blocks -> [Offsets -> Bytes]]
  <2>1. Zeros \in [Offsets -> Bytes]
    BY Constants DEF Zeros
  <2>2. \A b \in Blocks : b + 1 \in Int
    BY Constants
  <2> QED
    BY <1>1, <1>2, <2>1, <2>2 DEF RESERVED_BLOCK, END_OF_CHAIN
<1>21. \A b \in Blocks : fat[b] =
          IF b < Reserved THEN RESERVED_BLOCK
          ELSE IF exists /\ b \in Reserved .. Reserved + n - 1
               THEN IF b = Reserved + n - 1 THEN END_OF_CHAIN ELSE b + 1
               ELSE 0
  <2> SUFFICES ASSUME NEW b \in Blocks
               PROVE  fat[b] = IF b < Reserved THEN RESERVED_BLOCK
                      ELSE IF exists /\ b \in Reserved .. Reserved + n - 1
                           THEN IF b = Reserved + n - 1 THEN END_OF_CHAIN ELSE b + 1
                           ELSE 0
    OBVIOUS
  <2>1. PICK used : used = IF exists THEN Reserved .. Reserved + n - 1 ELSE {}
    OBVIOUS
  <2>2. b \in used => ~(b < Reserved)
    BY <1>4, <2>1, Constants
  <2>3. fat[b] = CASE b < Reserved -> RESERVED_BLOCK
                   [] b \in used -> IF b = Reserved + n - 1 THEN END_OF_CHAIN ELSE b + 1
                   [] OTHER -> 0
    BY <1>1, <1>3, <2>1
  <2>4. CASE b < Reserved
    BY <2>2, <2>3, <2>4
  <2>5. CASE ~(b < Reserved) /\ b \in used
    BY <2>1, <2>3, <2>5
  <2>6. CASE ~(b < Reserved) /\ b \notin used
    BY <2>1, <2>3, <2>6
  <2> QED
    BY <2>4, <2>5, <2>6
<1>22. exists => Sound(rec, fat, data)
  <2> SUFFICES ASSUME exists PROVE Chained(rec.alloc_map, fat)
    BY <1>3, <1>4 DEF Sound, CACHE_NOTREADY, CACHE_READY
  <2>1. PICK m : m = rec.alloc_map
    OBVIOUS
  <2>2. /\ DOMAIN m = 1 .. n /\ Len(m) = n
        /\ \A i \in 1 .. n : m[i] = Reserved + i - 1
    BY <1>4, <2>1
  <2>3. \A i, j \in 1 .. n : m[i] = m[j] => i = j
    BY <1>4, <2>2, Constants
  <2>4. ASSUME NEW i \in 1 .. n PROVE fat[m[i]] = IF i = n THEN END_OF_CHAIN ELSE m[i + 1]
    <3>1. PICK b : b = m[i]
      OBVIOUS
    <3>2. b = Reserved + i - 1 /\ b \in Blocks /\ b \in Reserved .. Reserved + n - 1 /\ ~(b < Reserved)
      BY <1>4, <2>2, <2>4, <3>1, Constants DEF Blocks
    <3>3. fat[b] = IF b = Reserved + n - 1 THEN END_OF_CHAIN ELSE b + 1
      BY <1>21, <3>2
    <3>4. i # n => i + 1 \in 1 .. n /\ m[i + 1] = b + 1
      BY <1>4, <2>2, <2>4, <3>2, Constants
    <3>5. i = n <=> b = Reserved + n - 1
      BY <1>4, <2>4, <3>2, Constants
    <3> QED
      BY <3>1, <3>3, <3>4, <3>5
  <2> QED
    BY <2>1, <2>2, <2>3, <2>4 DEF Chained
<1>23. \A q \in DOMAIN files : Holds(V[q], data, files[q])
  <2> SUFFICES ASSUME NEW bytes, bytes = [k \in 1 .. size |-> 0]
               PROVE  Holds(rec, data, bytes)
    BY <1>14
  <2>1. bytes \in [1 .. rec.size -> Bytes]
    BY <1>4, Constants
  <2>2. ASSUME NEW loc \in Nat, loc \div BYTES_PER_BLOCK < n
        PROVE  Seen1(rec, data, loc) = IF loc < rec.size THEN bytes[loc + 1] ELSE 0
    <3>1. PICK j \in Nat : j = loc \div BYTES_PER_BLOCK
      BY BlockFacts, Zenon
    <3>2. PICK o \in Offsets : o = loc % BYTES_PER_BLOCK
      BY BlockFacts, Zenon
    <3>3. rec.alloc_map[j + 1] \in Blocks
      <4>1. j + 1 \in 1 .. n
        BY <1>4, <2>2, <3>1
      <4>2. rec.alloc_map[j + 1] = Reserved + j
        BY <1>4, <4>1, Constants
      <4> QED
        BY <1>4, <4>1, <4>2, Constants DEF Blocks
    <3>4. data[rec.alloc_map[j + 1]][o] = 0
      BY <1>2, <3>2, <3>3 DEF Zeros
    <3>5. Seen1(rec, data, loc) = 0
      BY <1>4, <3>1, <3>2, <3>4 DEF Seen1, InCache
    <3>6. loc < size => bytes[loc + 1] = 0
      BY <1>4
    <3> QED
      BY <1>4, <3>5, <3>6
  <2> QED
    BY <1>4, <2>1, <2>2 DEF Holds
<1>24. ViewsInv(V, fat, data, files)
  <2>1. \A b \in Blocks :
           IF b < Reserved THEN fat[b] = RESERVED_BLOCK
           ELSE fat[b] # 0 <=> \E q \in DOMAIN files : Has(V[q], b)
    <3> SUFFICES ASSUME NEW b \in Blocks, ~(b < Reserved)
                 PROVE  fat[b] # 0 <=> \E q \in DOMAIN files : Has(V[q], b)
      BY <1>21
    <3>1. b + 1 # 0 /\ END_OF_CHAIN # 0
      BY Constants DEF END_OF_CHAIN
    <3>2. fat[b] # 0 <=> exists /\ b \in Reserved .. Reserved + n - 1
      BY <1>21, <3>1
    <3>3. (\E q \in DOMAIN files : Has(V[q], b)) <=> exists /\ Has(rec, b)
      BY <1>13, <1>14
    <3> QED
      BY <1>4, <3>2, <3>3
  <2>2. V = [q \in DOMAIN files |-> V[q]] /\ files = [q \in DOMAIN files |-> files[q]]
    BY <1>1, <1>12
  <2> QED
    BY <1>14, <1>20, <1>22, <1>23, <2>1, <2>2 DEF ViewsInv
<1> QED
  BY <1>2, <1>10, <1>16, <1>17, <1>18, <1>19, <1>24 DEF Are, EchfsInv, Statuses

(***************************************************************************)
(* What the invariant says of the disk.                                    *)
(***************************************************************************)

\* The invariant implies TreeShape.
LEMMA TreeHolds == EchfsInv => TreeShape
<1> SUFFICES ASSUME TreeInv PROVE TreeShape
  BY DEF EchfsInv, Are, TreeShape
<1>1. /\ FileSlots = {s \in Slots : IsFile(s)} /\ DirSlots = {s \in Slots : IsDir(s)}
      /\ \A s \in Slots : IsDir(s) => Live(s)
  BY SlotsAre
<1>2. \A s \in FileSlots \cup DirSlots : s \in Slots /\ Live(s)
  BY <1>1 DEF IsFile
<1>3. \A s \in FileSlots \cup DirSlots :
         dir[s].parent_id = ROOT_ID \/ \E u \in DirSlots : dir[u].payload = dir[s].parent_id
  BY <1>1, <1>2 DEF TreeInv, DirId
<1>4. ASSUME NEW s \in FileSlots \cup DirSlots, NEW t \in FileSlots \cup DirSlots, s # t
      PROVE  <<dir[s].parent_id, dir[s].type, dir[s].name>>
                # <<dir[t].parent_id, dir[t].type, dir[t].name>>
  <2>1. s \in Slots /\ t \in Slots /\ Live(s)
    BY <1>2
  <2>2. ~SameName(s, t)
    BY <1>4, <2>1 DEF TreeInv
  <2> QED
    BY <2>2 DEF SameName
<1>5. \A s \in Slots \ Seen : dir[s] = Empty
  BY SeenIs, SlotFacts DEF TreeInv
<1> QED
  BY <1>3, <1>4, <1>5 DEF TreeShape

\* The invariant implies CachedFilesTrue.
LEMMA CachedHolds == EchfsInv => CachedFilesTrue
<1> SUFFICES ASSUME NEW V, Are(V), NEW c \in DOMAIN cached_files, NEW rec, rec = cached_files[c]
             PROVE  /\ Target(rec.path, FILE_TYPE) = rec.entry
                    /\ rec.alloc_map = Chain(fat, EntryOf(rec).payload)
                    /\ op.type # "write" => EntryOf(rec) = dir[rec.entry]
  BY DEF EchfsInv, CachedFilesTrue
<1>1. PICK p : p = rec.path
  OBVIOUS
<1>2. p \in DOMAIN files /\ rec = V[p]
  BY <1>1 DEF Are, Caches
<1>3. /\ Target(p, FILE_TYPE) = rec.entry /\ rec \in CachedRecs /\ Chained(rec.alloc_map, fat)
      /\ rec.entry \in Slots
  BY <1>2, FileFacts
<1>4. TreeInv /\ fat \in [Blocks -> Int]
  BY DEF Are, ViewsInv
<1>5. /\ EntryOf(rec) \in EntryRecs
      /\ EntryOf(rec).parent_id = dir[rec.entry].parent_id
      /\ EntryOf(rec).type = dir[rec.entry].type /\ EntryOf(rec).name = dir[rec.entry].name
      /\ EntryOf(rec).size = rec.size /\ EntryOf(rec).payload = First(rec.alloc_map)
  BY <1>3, <1>4, EntryOfFacts
<1>6. rec.alloc_map = Chain(fat, EntryOf(rec).payload)
  <2>1. rec.alloc_map \in Seq(Data)
    BY <1>3 DEF CachedRecs
  <2> QED
    BY <1>3, <1>4, <1>5, <2>1, ChainIs
<1>7. op.type # "write" => EntryOf(rec) = dir[rec.entry]
  <2> SUFFICES ASSUME op.type # "write" PROVE EntryOf(rec) = dir[rec.entry]
    OBVIOUS
  <2>1. PICK x, y : x = EntryOf(rec) /\ y = dir[rec.entry]
    OBVIOUS
  <2>2. y.size = rec.size /\ y.payload = First(rec.alloc_map)
    BY <1>2, <2>1 DEF Are, Entries, Writing
  <2>3. x \in EntryRecs /\ y \in EntryRecs
    BY <1>3, <1>4, <1>5, <2>1 DEF TreeInv
  <2>4. /\ x.parent_id = y.parent_id /\ x.type = y.type /\ x.name = y.name
        /\ x.payload = y.payload /\ x.size = y.size
    BY <1>5, <2>1, <2>2
  <2> QED
    BY <2>1, <2>3, <2>4 DEF EntryRecs
<1> QED
  BY <1>1, <1>3, <1>6, <1>7

\* The invariant implies FilesReadBack.
LEMMA ReadsBack == EchfsInv => FilesReadBack
<1> SUFFICES ASSUME NEW V, Are(V)
             PROVE  /\ ~misread
                    /\ DOMAIN files = {p \in FilePaths : Found(p, FILE_TYPE)}
                    /\ \A p \in DOMAIN files : Contents(p) = files[p]
  BY DEF EchfsInv, FilesReadBack
<1>1. ~misread /\ ViewsInv(V, fat, data, files) /\ DOMAIN files \subseteq FilePaths
  BY DEF Are, Placed
<1>2. DOMAIN files = {p \in FilePaths : Found(p, FILE_TYPE)}
  BY <1>1, FoundIs
<1>3. ASSUME NEW p \in DOMAIN files PROVE Contents(p) = files[p]
  <2>1. PICK rec, bytes : rec = V[p] /\ bytes = files[p]
    OBVIOUS
  <2>2. rec = Looked(p)
    BY <2>1, LookedIs
  <2>3. Contents(p) = [k \in 1 .. rec.size |->
            LET blk == (k - 1) \div BYTES_PER_BLOCK
            IN  IF InCache(rec, blk) THEN Byte(rec, k - 1)
                ELSE data[rec.alloc_map[blk + 1]][(k - 1) % BYTES_PER_BLOCK]]
    BY <2>2 DEF Contents, Looked
  <2>4. Contents(p) = [k \in 1 .. rec.size |-> Seen1(rec, data, k - 1)]
    BY <2>3 DEF Seen1
  <2>5. Sound(rec, fat, data) /\ Holds(rec, data, bytes)
    BY <1>1, <2>1 DEF ViewsInv
  <2>6. /\ rec.size \in Nat /\ Len(rec.alloc_map) = BlockCount(rec.size)
        /\ bytes \in [1 .. rec.size -> Bytes]
    BY <2>5 DEF Sound, CachedRecs, Holds
  <2>7. ASSUME NEW k \in 1 .. rec.size PROVE Seen1(rec, data, k - 1) = bytes[k]
    <3>1. PICK loc \in Nat : loc = k - 1
      BY <2>6
    <3>2. loc < rec.size /\ loc + 1 = k
      BY <2>6, <3>1
    <3>3. loc \div BYTES_PER_BLOCK < Len(rec.alloc_map)
      <4>1. PICK j \in Nat : j = loc \div BYTES_PER_BLOCK
        BY BlockFacts, Zenon
      <4>2. BlockCount(loc + 1) = j + 1 /\ BlockCount(rec.size) \in Nat
        BY <2>6, <4>1, CountFacts
      <4>3. BlockCount(loc + 1) <= BlockCount(rec.size)
        BY <2>6, <3>2, CountMonotone
      <4>4. j < BlockCount(rec.size)
        BY <4>2, <4>3
      <4> QED
        BY <2>6, <4>1, <4>4
    <3>4. Seen1(rec, data, loc) = bytes[loc + 1]
      BY <2>5, <3>2, <3>3 DEF Holds
    <3> QED
      BY <3>1, <3>2, <3>4
  <2> QED
    BY <2>1, <2>4, <2>6, <2>7
<1> QED
  BY <1>1, <1>2, <1>3

\* What the entry of the file p says at present.
LEMMA PresentIs ==
    ASSUME NEW V, Are(V), NEW p \in DOMAIN files, NEW s, s = V[p].entry
    PROVE  Present(s).payload = First(V[p].alloc_map) /\ Present(s).size = V[p].size
<1>1. CASE CachedSlot(s) = {}
  <2>1. ~Cached(p)
    BY <1>1 DEF Cached, CachedAt, CachedSlot, Are, Caches
  <2>2. ~Writing(p)
    BY <2>1 DEF Are, HandlesInv, Writing
  <2> QED
    BY <1>1, <2>2 DEF Present, Are, Entries
<1>2. CASE CachedSlot(s) # {}
  <2>1. PICK c : c = CHOOSE x \in CachedSlot(s) : TRUE
    OBVIOUS
  <2>2. c \in CachedSlot(s)
    BY <1>2, <2>1
  <2>3. PICK rec : rec = cached_files[c]
    OBVIOUS
  <2>4. c \in DOMAIN cached_files /\ rec.entry = s
    BY <2>2, <2>3 DEF CachedSlot
  <2>5. rec.path \in DOMAIN files /\ rec = V[rec.path]
    BY <2>3, <2>4 DEF Are, Caches
  <2>6. rec.path = p
    BY <2>4, <2>5, EntryOne
  <2>7. rec = V[p] /\ rec \in CachedRecs /\ TreeInv
    BY <2>5, <2>6, FileFacts DEF Are
  <2>8. Present(s) = EntryOf(rec)
    BY <1>2, <2>1, <2>3 DEF Present
  <2> QED
    BY <2>7, <2>8, EntryOfFacts
<1> QED
  BY <1>1, <1>2

\* The blocks that the entry of a file leads to.
LEMMA UsedIs ==
    ASSUME NEW V, Are(V), NEW p \in DOMAIN files, NEW s, s = V[p].entry
    PROVE  /\ Chain(fat, Present(s).payload) = V[p].alloc_map
           /\ Used(s) = {b \in Blocks : Has(V[p], b)}
<1>1. PICK rec : rec = V[p]
  OBVIOUS
<1>2. rec \in CachedRecs /\ Chained(rec.alloc_map, fat) /\ fat \in [Blocks -> Int]
  BY <1>1, FileFacts DEF Are, ViewsInv
<1>3. Chain(fat, Present(s).payload) = rec.alloc_map
  <2>1. rec.alloc_map \in Seq(Data)
    BY <1>2 DEF CachedRecs
  <2>2. Chain(fat, First(rec.alloc_map)) = rec.alloc_map
    BY <1>2, <2>1, ChainIs
  <2> QED
    BY <1>1, <2>2, PresentIs
<1>4. \A i \in DOMAIN rec.alloc_map : rec.alloc_map[i] \in Blocks
  BY <1>2, MapFacts
<1>5. Used(s) = {rec.alloc_map[k] : k \in DOMAIN rec.alloc_map}
  BY <1>3 DEF Used
<1>6. Used(s) = {b \in Blocks : Has(rec, b)}
  BY <1>4, <1>5 DEF Has
<1> QED
  BY <1>1, <1>3, <1>6

\* A sequence of different blocks has as many as it is long.
LEMMA BlocksCounted ==
    ASSUME NEW m \in Seq(Data), \A i, j \in DOMAIN m : m[i] = m[j] => i = j
    PROVE  Cardinality({m[k] : k \in DOMAIN m}) = Len(m)
<1> DEFINE T == {m[k] : k \in DOMAIN m}
<1>1. Len(m) \in Nat /\ m \in [1 .. Len(m) -> Data] /\ DOMAIN m = 1 .. Len(m)
  BY LenProperties
<1>2. IsFiniteSet(1 .. Len(m)) /\ Cardinality(1 .. Len(m)) = Len(m)
  BY <1>1, FS_Interval
<1>3. m \in Surjection(1 .. Len(m), T) /\ m \in Injection(1 .. Len(m), T)
  <2>1. m \in [1 .. Len(m) -> T] /\ \A t \in T : \E k \in 1 .. Len(m) : m[k] = t
    BY <1>1
  <2>2. m \in Surjection(1 .. Len(m), T)
    BY <2>1 DEF Surjection
  <2>3. m \in Injection(1 .. Len(m), T)
    BY <1>1, <2>1 DEF Injection, IsInjective
  <2> QED
    BY <2>2, <2>3
<1>4. Cardinality(T) = Cardinality(1 .. Len(m))
  BY <1>2, <1>3, FS_Surjection
<1> QED
  BY <1>2, <1>4

\* The invariant implies ChainsSound.
LEMMA ChainsHold == EchfsInv => ChainsSound
<1> SUFFICES ASSUME NEW V, Are(V)
             PROVE  /\ \A s \in FileSlots :
                          /\ Len(Chain(fat, Present(s).payload)) = BlockCount(Present(s).size)
                          /\ Cardinality(Used(s)) = BlockCount(Present(s).size)
                          /\ \A t \in FileSlots \ {s} : Used(s) \cap Used(t) = {}
                    /\ UNION {Used(s) : s \in FileSlots} = {b \in Blocks : b >= Reserved /\ fat[b] # 0}
  BY DEF EchfsInv, ChainsSound
<1>1. TreeInv /\ Placed(V) /\ ViewsInv(V, fat, data, files)
  BY DEF Are
<1>2. FileSlots = {s \in Slots : IsFile(s)}
  BY <1>1, SlotsAre
<1>3. \A s \in FileSlots : \E p \in DOMAIN files : V[p].entry = s
  BY <1>1, <1>2 DEF Placed
<1>4. \A p \in DOMAIN files : V[p].entry \in FileSlots
  BY <1>2, FileFacts
<1>5. \A p \in DOMAIN files : Used(V[p].entry) = {b \in Blocks : Has(V[p], b)}
  BY UsedIs
<1>6. ASSUME NEW s \in FileSlots
      PROVE  /\ Len(Chain(fat, Present(s).payload)) = BlockCount(Present(s).size)
             /\ Cardinality(Used(s)) = BlockCount(Present(s).size)
             /\ \A t \in FileSlots \ {s} : Used(s) \cap Used(t) = {}
  <2>1. PICK p \in DOMAIN files : V[p].entry = s
    BY <1>3
  <2>2. PICK m : m = V[p].alloc_map
    OBVIOUS
  <2>3. m \in Seq(Data) /\ Len(m) = BlockCount(V[p].size) /\ Chained(m, fat)
    BY <2>2, FileFacts DEF Sound, CachedRecs
  <2>4. Chain(fat, Present(s).payload) = m /\ Present(s).size = V[p].size
    BY <2>1, <2>2, UsedIs, PresentIs
  <2>5. Used(s) = {m[k] : k \in DOMAIN m}
    BY <2>4 DEF Used
  <2>6. Cardinality(Used(s)) = Len(m)
    BY <2>3, <2>5, BlocksCounted DEF Chained
  <2>7. ASSUME NEW t \in FileSlots \ {s} PROVE Used(s) \cap Used(t) = {}
    <3>1. PICK q \in DOMAIN files : V[q].entry = t
      BY <1>3
    <3>2. p # q
      BY <2>1, <3>1
    <3>3. \A b \in Blocks : ~(Has(V[p], b) /\ Has(V[q], b))
      BY <1>1, <3>2 DEF ViewsInv
    <3> QED
      BY <1>5, <2>1, <3>1, <3>3
  <2> QED
    BY <2>3, <2>4, <2>6, <2>7
<1>7. UNION {Used(s) : s \in FileSlots} = {b \in Blocks : b >= Reserved /\ fat[b] # 0}
  <2>1. ASSUME NEW s \in FileSlots, NEW b \in Used(s) PROVE b \in Blocks /\ b >= Reserved /\ fat[b] # 0
    <3>1. PICK p \in DOMAIN files : V[p].entry = s
      BY <1>3
    <3>2. b \in Blocks /\ Has(V[p], b)
      BY <1>5, <2>1, <3>1
    <3>3. Sound(V[p], fat, data)
      BY <1>1 DEF ViewsInv
    <3>4. b \in Data /\ fat[b] # 0
      BY <3>2, <3>3, HasFacts
    <3> QED
      BY <3>2, <3>4, Constants DEF Data
  <2>2. ASSUME NEW b \in Blocks, b >= Reserved, fat[b] # 0 PROVE \E s \in FileSlots : b \in Used(s)
    <3>1. ~(b < Reserved)
      BY <2>2, Constants
    <3>2. PICK p \in DOMAIN files : Has(V[p], b)
      BY <1>1, <2>2, <3>1 DEF ViewsInv
    <3> QED
      BY <1>4, <1>5, <3>2
  <2> QED
    BY <2>1, <2>2
<1> QED
  BY <1>6, <1>7

(* The ids of directories *)

\* Ids that no two directories have are apart.
LEMMA UniqueApart == TreeInv => IdsApart
  BY SlotsAre DEF TreeInv, IdsApart

\* A step to a bad end leaves the directory alone, unless it gives a directory
\* the id of another.
LEMMA BadEnds ==
    ASSUME Next, status' # "ok"
    PROVE  dir' = dir \/ \E p \in DirPaths : Mkdir(p) /\ Seen # Slots /\ status' = "twins"
<1>1. \A st : Ends(st) => dir' = dir
  BY DEF Ends, disk
<1>2. ASSUME NEW p \in FilePaths, ByPath(p) PROVE dir' = dir
  <2>1. CASE Create(p) \/ RemoveUncached(p) \/ RemoveCached(p)
    BY <1>1, <2>1 DEF Create, RemoveUncached, RemoveCached, Ready
  <2>2. CASE OpenNew(p) \/ OpenTruncated(p) \/ \E append \in BOOLEAN : OpenExisting(p, append)
    BY <1>1, <2>2 DEF OpenNew, OpenTruncated, OpenExisting, Opened, Ready
  <2>3. CASE \E loc \in 0 .. MaxSize - 1 :
                ReadByPath(p, loc) \/ \E byte \in Payloads : WriteByPath(p, loc, byte)
    BY <1>1, <2>3 DEF ReadByPath, WriteByPath, ReadFound, WriteFound, Lost, Ready
  <2> QED
    BY <1>2, <2>1, <2>2, <2>3 DEF ByPath
<1>3. ASSUME NEW p \in DirPaths, Mkdir(p)
      PROVE  dir' = dir \/ (Mkdir(p) /\ Seen # Slots /\ status' = "twins")
  BY <1>1, <1>3 DEF Mkdir
<1>4. ASSUME NEW h \in DOMAIN handles, ByHandle(h) PROVE dir' = dir
  BY <1>1, <1>4 DEF ByHandle, Close, Fork, Seek, Begin, disk
<1>5. CASE UreadByte \/ UreadDone \/ UwriteDone \/ \E byte \in Payloads : UwriteByte(byte)
  BY <1>1, <1>5 DEF UreadByte, UreadDone, UwriteDone, UwriteByte, disk
<1>6. CASE UsesFreed \/ Abandoned
  BY <1>1, <1>6 DEF UsesFreed, Abandoned
<1> QED
  BY <1>2, <1>3, <1>4, <1>5, <1>6 DEF Next

\* A directory that is given the id of another finds ids out of order.
LEMMA TwinsOutOfOrder ==
    ASSUME TreeInv, ~BadPaths, NEW p \in DirPaths, Mkdir(p), Seen # Slots, status' = "twins"
    PROVE  IdsApart'
<1>1. PICK e : e = EmptySlot(dir)
  OBVIOUS
<1>2. /\ e \in Slots /\ ~Live(e) /\ \A s \in Slots \ {e} : dir'[s] = dir[s]
      /\ dir'[e].parent_id # 0
  BY <1>1, MkdirChange
<1>3. DirSlots = {s \in Slots : IsDir(s)} /\ \A s \in Slots : IsDir(s) => Live(s)
  BY SlotsAre
<1>4. \A s \in DirSlots : s \in DirSlots' /\ dir'[s] = dir[s]
  <2> SUFFICES ASSUME NEW s \in DirSlots PROVE s \in DirSlots' /\ dir'[s] = dir[s]
    OBVIOUS
  <2>1. s \in Slots /\ IsDir(s) /\ s # e /\ dir'[s] = dir[s]
    BY <1>2, <1>3
  <2>2. \A t \in 0 .. s : t \in Slots /\ dir[t].parent_id # 0
    BY <2>1, Constants DEF DirSlots, Seen, Slots
  <2>3. \A t \in 0 .. s : dir'[t].parent_id # 0
    BY <1>2, <2>2
  <2> QED
    BY <2>1, <2>3 DEF DirSlots, Seen, IsDir
<1>5. PICK s \in DirSlots : dir[s].payload = GetFreeId
  BY DEF Mkdir
<1>6. ASSUME \A u, v \in DirSlots' : u < v => dir'[u].payload <= dir'[v].payload PROVE FALSE
  <2>1. ASSUME NEW u \in Slots, NEW v \in Slots, IsDir(u), IsDir(v), u < v
        PROVE  dir[u].payload < dir[v].payload
    <3>1. dir[u].payload <= dir[v].payload
      BY <1>3, <1>4, <1>6, <2>1
    <3>2. dir[u].payload # dir[v].payload
      BY <2>1, SlotFacts DEF TreeInv
    <3>3. dir[u].payload \in Int /\ dir[v].payload \in Int
      BY DEF TreeInv, EntryRecs
    <3> QED
      BY <3>1, <3>2, <3>3
  <2>2. \A u \in Slots : IsDir(u) => dir[u].payload # GetFreeId
    BY <2>1, OnePassEnough
  <2> QED
    BY <1>3, <1>5, <2>2
<1> QED
  BY <1>6 DEF IdsApart

\* Every step keeps ids apart.
LEMMA ApartStep ==
    ASSUME EchfsInv, IdsApart, ~BadPaths, ~Gaps, [Next]_vars
    PROVE  IdsApart'
<1>1. ASSUME dir' = dir PROVE IdsApart'
  BY <1>1 DEF IdsApart, DirSlots, Seen
<1>2. CASE status' = "ok"
  <2>1. PICK V : Are(V)'
    BY <1>2, Step DEF EchfsInv
  <2>2. TreeInv'
    BY <2>1 DEF Are
  <2>3. DirSlots' \subseteq Slots /\ \A s \in DirSlots' : IsDir(s)'
    BY DEF DirSlots, Seen, IsDir
  <2> QED
    BY <2>2, <2>3 DEF TreeInv, IdsApart
<1>3. CASE status' # "ok" /\ Next
  <2>1. CASE dir' = dir
    BY <1>1, <2>1
  <2>2. ASSUME NEW p \in DirPaths, Mkdir(p), Seen # Slots, status' = "twins" PROVE IdsApart'
    <3>1. TreeInv
      BY <2>2 DEF EchfsInv, Mkdir, Ready, Are
    <3> QED
      BY <2>2, <3>1, TwinsOutOfOrder
  <2> QED
    BY <1>3, <2>1, <2>2, BadEnds
<1>4. CASE UNCHANGED vars
  BY <1>1, <1>4 DEF vars
<1> QED
  BY <1>2, <1>3, <1>4

(***************************************************************************)
(* The theorems.  They are about programs that name files which can be     *)
(* found and write no further than a block past the end of a file: without *)
(* either, the properties are false.                                       *)
(***************************************************************************)

\* Every file is what its entry, its chain, its cached file and its handles
\* say: EchfsInv is kept by every operation, by path and by handle, and by each
\* byte of a read or a write.
THEOREM EchfsSafe ==
    ASSUME ~BadPaths, ~Gaps
    PROVE  Spec => []EchfsInv
<1>1. EchfsInv /\ [Next]_vars => EchfsInv'
  BY Step
<1> QED
  BY <1>1, InitInv, PTL DEF Spec

\* "find empty block", "write end of chain" (echfs.c): however files grow, are
\* truncated and removed, each chain has as many blocks as the file's size
\* calls for, no block is in two chains and none is lost.
THEOREM EchfsChainsSound ==
    ASSUME ~BadPaths, ~Gaps
    PROVE  Spec => []ChainsSound
  BY EchfsSafe, ChainsHold, PTL

\* What is cached of a file (echfs.c, "cache the allocation map") stays true of
\* the tables on disk.
THEOREM EchfsCachedFilesTrue ==
    ASSUME ~BadPaths, ~Gaps
    PROVE  Spec => []CachedFilesTrue
  BY EchfsSafe, CachedHolds, PTL

\* The directory is a tree in which a path names one entry, and two directories
\* have one id only where ids are out of order, that is after a directory has
\* taken the place of a removed file in front of another: the one pass of
\* get_free_id (echfs.c) is enough until then, for any number of directories.
THEOREM EchfsTreeSound ==
    ASSUME ~BadPaths, ~Gaps
    PROVE  Spec => []TreeSound
<1>1. EchfsInv /\ status = "ok" => IdsApart
  BY UniqueApart DEF EchfsInv, Are
<1>2. Init => IdsApart
  BY <1>1, InitInv DEF Init
<1>3. EchfsInv /\ IdsApart /\ [Next]_vars => IdsApart'
  BY ApartStep
<1>4. EchfsInv /\ IdsApart => TreeSound
  BY TreeHolds DEF TreeSound
<1> QED
  BY <1>2, <1>3, <1>4, EchfsSafe, PTL DEF Spec

\* A file reads back as it was written, by path or through any handle, from the
\* cache or from the device (echfs.c, echfs_ureadbyte and echfs_read).
THEOREM EchfsFilesReadBack ==
    ASSUME ~BadPaths, ~Gaps
    PROVE  Spec => []FilesReadBack
  BY EchfsSafe, ReadsBack, PTL
=============================================================================
