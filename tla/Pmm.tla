-------------------------------- MODULE Pmm --------------------------------
(***************************************************************************)
(* The kernel's memory: kalloc, krealloc and kfree (kernel/src/klib.c) on  *)
(* the page allocator of kernel/src/mm/pmm.c.                              *)
(*                                                                         *)
(* kalloc puts the length of a block in a page of its own in front of it,  *)
(* in the same memory as everything else; kfree believes what it finds     *)
(* there.  A block is named by that page, one below the pointer the caller *)
(* gets.  Of a page the model keeps the first two words.                   *)
(***************************************************************************)
EXTENDS NextFit

CONSTANTS
    NPages,     \* highest_page / PAGE_SIZE
    Reserved,   \* pages init_pmm left marked as not free
    PageSize,   \* PAGE_SIZE
    MaxSize,    \* bound: no block is asked to be larger
    WordSize,   \* size_t counts modulo this
    Words       \* what the owner of a block stores in it

\* Page 0 holds the BIOS interrupt vectors, which the kernel still uses.  No
\* caller asks for so much that DIV_ROUNDUP overflows.
ASSUME PmmAssumption ==
    /\ NPages \in Nat \ {0} /\ PageSize \in Nat \ {0} /\ MaxSize \in Nat
    /\ WordSize \in Nat /\ MaxSize + PageSize <= WordSize
    /\ Words \subseteq Nat
    /\ 0 \in Reserved
    /\ Reserved \subseteq 0 .. NPages - 1

Pages == 0 .. NPages - 1
Sizes == 0 .. MaxSize

VARIABLES
    bitmap,
    last_used_index,
    mem,            \* page -> its first two words
    held            \* ghost: block -> the size its owner asked for, or None

vars == <<bitmap, last_used_index, mem, held>>

None == -1

\* The first two words of a page; in front of a block, struct alloc_metadata.
Page(a, b) == [pages |-> a, size |-> b]

DIV_ROUNDUP(size) == ((size + PageSize - 1) % WordSize) \div PageSize

Held == {b \in Pages : held[b] # None}

Init ==
    /\ bitmap = Reserved
    /\ last_used_index = 0
    /\ mem = [p \in Pages |-> Page(0, 0)]
    /\ held = [b \in Pages |-> None]

----------------------------------------------------------------------------

\* pmm_allocz: the pages of the run are zeroed.
Zeroed(run, p) == IF p \in run THEN Page(0, 0) ELSE mem[p]

\* kalloc(size) with the metadata page at b.
Allocated(size, b) ==
    LET count == DIV_ROUNDUP(size) + 1
    IN  [p \in Pages |-> IF p = b THEN Page(count - 1, size)
                                  ELSE Zeroed(Run(b, count), p)]

\* kalloc, also as krealloc(NULL, size).
Kalloc(size) ==
    LET r == PmmAlloc(bitmap, last_used_index, DIV_ROUNDUP(size) + 1, NPages)
    IN
    /\ bitmap' = r.bitmap
    /\ last_used_index' = r.next
    /\ IF r.page = 0
       THEN UNCHANGED <<mem, held>>
       ELSE /\ mem' = Allocated(size, r.page)
            /\ held' = [held EXCEPT ![r.page] = size]

\* Mutants: the metadata page is not freed with the block; one page too many
\* is.
FreedWithoutMetadata(b) == Run(b + 1, mem[b].pages)
FreedOneTooMany(b) == Run(b, mem[b].pages + 2)

\* The pages kfree gives back: as many as the metadata says, and its own.
Freed(b) == Run(b, mem[b].pages + 1)

\* kfree of a pointer that is held.
Kfree(b) ==
    /\ held[b] # None
    /\ bitmap' = bitmap \ Freed(b)
    /\ held' = [held EXCEPT ![b] = None]
    /\ UNCHANGED <<last_used_index, mem>>

\* Mutant: the metadata keeps the old size.
KreallocInPlaceKeepsSize(b, size) ==
    /\ held[b] # None
    /\ DIV_ROUNDUP(mem[b].size) = DIV_ROUNDUP(size)
    /\ held' = [held EXCEPT ![b] = size]
    /\ UNCHANGED <<mem, bitmap, last_used_index>>

\* krealloc to a size that takes as many pages.
KreallocInPlace(b, size) ==
    /\ held[b] # None
    /\ DIV_ROUNDUP(mem[b].size) = DIV_ROUNDUP(size)
    /\ mem' = [mem EXCEPT ![b].size = size]
    /\ held' = [held EXCEPT ![b] = size]
    /\ UNCHANGED <<bitmap, last_used_index>>

\* Mutant: the old length is copied even if the new block is shorter.
CopiedOldLength(b, size) == mem[b].size

\* How much of the old block krealloc copies.
Copied(b, size) == IF mem[b].size > size THEN size ELSE mem[b].size

\* krealloc to any other size: kalloc, memcpy, kfree.  If kalloc fails the
\* old block stays.
KreallocMoves(b, size) ==
    LET r == PmmAlloc(bitmap, last_used_index, DIV_ROUNDUP(size) + 1, NPages)
        c == r.page
        n == DIV_ROUNDUP(Copied(b, size))
    IN
    /\ held[b] # None
    /\ DIV_ROUNDUP(mem[b].size) # DIV_ROUNDUP(size)
    /\ last_used_index' = r.next
    /\ IF c = 0
       THEN bitmap' = r.bitmap /\ UNCHANGED <<mem, held>>
       ELSE /\ mem' = [p \in Pages |-> IF p \in Run(c + 1, n) THEN mem[b + p - c]
                                       ELSE Allocated(size, c)[p]]
            /\ bitmap' = r.bitmap \ Freed(b)
            /\ held' = [held EXCEPT ![b] = None, ![c] = size]

\* The owner of a block writes to a page of it.
Store(b, i, w) ==
    /\ held[b] # None
    /\ i \in 1 .. DIV_ROUNDUP(held[b])
    /\ mem' = [mem EXCEPT ![b + i] = Page(w, w)]
    /\ UNCHANGED <<bitmap, last_used_index, held>>

Next ==
    \/ \E size \in Sizes : Kalloc(size)
    \/ \E b \in Pages :
        \/ Kfree(b)
        \/ \E size \in Sizes : KreallocInPlace(b, size) \/ KreallocMoves(b, size)
        \/ \E i \in 1 .. DIV_ROUNDUP(MaxSize), w \in Words : Store(b, i, w)

Spec == Init /\ [][Next]_vars

----------------------------------------------------------------------------

\* Every variable has its type.
TypeOK ==
    /\ bitmap \subseteq Pages
    /\ last_used_index \in 0 .. NPages
    /\ mem \in [Pages -> [pages : Nat, size : Nat]]
    /\ held \in [Pages -> Sizes \cup {None}]

\* The pages of a block, by what its owner asked for.
Extent(b) == Run(b, DIV_ROUNDUP(held[b]) + 1)

\* The metadata of every block says what its owner asked for, however often
\* it was resized, in place or by moving.
MetadataIntact ==
    \A b \in Held : mem[b] = Page(DIV_ROUNDUP(held[b]), held[b])

\* Two blocks share no page, and none touches memory that is not the
\* allocator's.
BlocksDisjoint ==
    \A b \in Held :
        /\ Extent(b) \subseteq Pages \ Reserved
        /\ \A c \in Held \ {b} : Extent(b) \cap Extent(c) = {}

\* The bitmap marks exactly the pages that are in use: no page in use is ever
\* handed out again, and none is lost, whatever fails on the way.
BitmapExact ==
    bitmap = Reserved \cup UNION {Extent(b) : b \in Held}

\* The contents of the block at b, for the mapping to Heap.
BlockAt(b) ==
    [size |-> held[b],
     data |-> [i \in 1 .. IF held[b] = None THEN 0 ELSE DIV_ROUNDUP(held[b]) |->
                  mem[b + i]]]

H == INSTANCE Heap WITH Blocks <- Pages,
                        blocks <- [b \in Pages |-> BlockAt(b)]

\* The allocator keeps the promise of Heap: blocks start zeroed, keep their
\* contents while others come, go and are resized, and are carried over by
\* krealloc.
ImplementsHeap == H!Spec
=============================================================================
