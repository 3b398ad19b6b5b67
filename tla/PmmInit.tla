------------------------------ MODULE PmmInit ------------------------------
(***************************************************************************)
(* init_pmm (kernel/src/mm/pmm.c): the bitmap of free pages is sized after *)
(* the boot loader's memory map, put into the first usable region that has *)
(* room for it, and filled from the map.  Addresses are in bytes.          *)
(***************************************************************************)
EXTENDS Integers, Sequences, FiniteSetsExt

CONSTANTS
    PageSize,       \* PAGE_SIZE
    ByteBits,       \* bits in a byte: 8
    WordSize,       \* uintptr_t and size_t count modulo this: 2^32
    MaxEntries,     \* bound: entries of the memory map
    MaxPages        \* bound: pages the memory map speaks of

ASSUME PmmInitAssumption ==
    /\ PageSize \in Nat \ {0} /\ ByteBits \in Nat \ {0}
    /\ MaxEntries \in Nat /\ MaxPages \in Nat
    /\ WordSize \in Nat \ {0} /\ MaxPages <= WordSize
    /\ WordSize % PageSize = 0

Pages == 0 .. MaxPages - 1

\* struct stivale_mmap_entry; the loader's entries are made of whole pages.
Entries == {[base |-> f * PageSize, length |-> n * PageSize, usable |-> u] :
              f \in Pages, n \in 1 .. MaxPages, u \in BOOLEAN}

End(e) == e.base + e.length

\* The memory maps the loader gives: entries that follow one another.
IsMap(m) ==
    /\ \A k \in 1 .. Len(m) : End(m[k]) <= MaxPages * PageSize
    /\ \A k \in 1 .. Len(m) - 1 : End(m[k]) <= m[k + 1].base

VARIABLES
    memmap,
    highest_page,   \* an address, in spite of its name
    bitmap_size,    \* in bytes
    bitmap,         \* its address; 0 is the null pointer
    bits,           \* page -> "set", "clear", or "stale": whatever was there
    pc,             \* the loop of init_pmm that is next, or "done"
    i, j,           \* the variables of the third loop
    given           \* ghost: the memory map as the loader gave it

vars == <<memmap, highest_page, bitmap_size, bitmap, bits, pc, i, j, given>>

Init ==
    /\ \E n \in 0 .. MaxEntries : memmap \in {m \in [1 .. n -> Entries] : IsMap(m)}
    /\ given = memmap
    /\ highest_page = 0 /\ bitmap_size = 0 /\ bitmap = 0
    /\ bits = [p \in Pages |-> "stale"]
    /\ pc = "size"
    /\ i = 1 /\ j = 0

DIV_ROUNDUP(a) == ((a + PageSize - 1) % WordSize) \div PageSize

\* The first loop: the highest end of a usable entry, as a uintptr_t.
Size ==
    /\ pc = "size"
    /\ pc' = "place"
    /\ highest_page' =
          Max({0} \cup {End(memmap[k]) % WordSize :
                          k \in {k \in DOMAIN memmap : memmap[k].usable}})
    /\ bitmap_size' = DIV_ROUNDUP(highest_page') \div ByteBits
    /\ UNCHANGED <<memmap, bitmap, bits, i, j, given>>

\* The entries with room for the bitmap.
Hosts == {k \in DOMAIN memmap : memmap[k].usable /\ memmap[k].length >= bitmap_size}

\* Mutants: the entry gives up only its length, or only its base.
CutLength(e) == [e EXCEPT !.length = @ - bitmap_size]
CutBase(e) == [e EXCEPT !.base = @ + bitmap_size]

\* What is left of the entry the bitmap is put at the start of.
Cut(e) == [e EXCEPT !.base = @ + bitmap_size, !.length = @ - bitmap_size]

\* The second loop, with its memset.
Place ==
    /\ pc = "place"
    /\ pc' = "populate"
    /\ IF Hosts = {} THEN UNCHANGED <<bitmap, bits, memmap>>
       ELSE LET k == Min(Hosts)
            IN  /\ bitmap' = memmap[k].base % WordSize
                /\ bits' = [p \in Pages |-> IF p < bitmap_size * ByteBits
                                            THEN "set" ELSE bits[p]]
                /\ memmap' = [memmap EXCEPT ![k] = Cut(@)]
    /\ UNCHANGED <<highest_page, bitmap_size, i, j, given>>

\* Mutant: j is narrower than a region is long.
NextJNarrow == (j + PageSize) % (2 * PageSize)

NextJ == (j + PageSize) % WordSize

\* The third loop has a page of a usable entry to free.
ToUnset == memmap[i].usable /\ j < memmap[i].length

\* A turn of the inner loop of the third.
BitmapUnset ==
    /\ pc = "populate"
    /\ i \in DOMAIN memmap
    /\ ToUnset
    /\ bits' = [bits EXCEPT ![((memmap[i].base + j) \div PageSize) % WordSize] = "clear"]
    /\ j' = NextJ
    /\ UNCHANGED <<memmap, highest_page, bitmap_size, bitmap, pc, i, given>>

\* On to the next entry, or out of the loop.
NextEntry ==
    /\ pc = "populate"
    /\ i \in DOMAIN memmap => ~ToUnset
    /\ IF i \in DOMAIN memmap THEN i' = i + 1 /\ j' = 0 /\ UNCHANGED pc
                              ELSE pc' = "done" /\ UNCHANGED <<i, j>>
    /\ UNCHANGED <<memmap, highest_page, bitmap_size, bitmap, bits, given>>

Next == Size \/ Place \/ BitmapUnset \/ NextEntry

\* Boot code runs on.
Spec == Init /\ [][Next]_vars /\ WF_vars(Next)

----------------------------------------------------------------------------

\* Every variable has its type; no entry is left with less than no memory.
TypeOK ==
    /\ \A k \in DOMAIN memmap : memmap[k].base \in Nat /\ memmap[k].length \in Nat
    /\ highest_page \in 0 .. MaxPages * PageSize
    /\ bitmap_size \in 0 .. MaxPages
    /\ bitmap \in Nat
    /\ bits \in [Pages -> {"set", "clear", "stale"}]
    /\ pc \in {"size", "place", "populate", "done"}
    /\ i \in 1 .. MaxEntries + 1
    /\ j \in 0 .. WordSize - 1

\* The pages that are RAM for the kernel to use, by the loader's map.
UsablePages ==
    {p \in Pages : \E k \in DOMAIN given :
        given[k].usable /\ p * PageSize \in given[k].base .. End(given[k]) - 1}

\* The pages the bitmap lies on.
BitmapPages == {a \div PageSize : a \in bitmap .. bitmap + bitmap_size - 1}

\* init_pmm frees no page the loader did not call usable, although carving the
\* bitmap out of an entry leaves it with a base and a length that are no
\* multiples of the page size.
OnlyUsableFreed == \A p \in Pages : bits[p] = "clear" => p \in UsablePages

\* No memory is lost: every usable page but the bitmap's own is free at the
\* end, the last of the entry the bitmap was carved out of included.
NothingLost ==
    pc = "done" => \A p \in UsablePages \ BitmapPages : bits[p] = "clear"

\* The loops of init_pmm end.
Ends == <>(pc = "done")

\* "find a location with enough free pages to host the bitmap" (pmm.c): the
\* pages that host it are not given out as free.
BitmapHosted ==
    pc = "done" => \A p \in BitmapPages : p \in Pages => bits[p] # "clear"
=============================================================================
