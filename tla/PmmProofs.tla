----------------------------- MODULE PmmProofs -----------------------------
(***************************************************************************)
(* kalloc, krealloc and kfree implement Heap, for every amount of memory   *)
(* and every sequence of calls.                                            *)
(***************************************************************************)
EXTENDS Pmm, WellFoundedInduction, TLAPS

\* The inductive invariant.  None of its parts is inductive alone: kfree
\* believes the metadata, which stays intact because blocks are disjoint,
\* which they stay because the bitmap is exact.
IndInv ==
    /\ TypeOK
    /\ MetadataIntact
    /\ BlocksDisjoint
    /\ BitmapExact

(***************************************************************************)
(* Arithmetic and the page allocator.                                      *)
(***************************************************************************)

\* DIV_ROUNDUP does not overflow for the sizes the kernel asks for.
LEMMA Roundup ==
    ASSUME NEW size \in Sizes
    PROVE  /\ DIV_ROUNDUP(size) \in Nat
           /\ DIV_ROUNDUP(size) = H!PageCount(size)
<1>1. (size + PageSize - 1) % WordSize = size + PageSize - 1
  BY PmmAssumption DEF Sizes
<1>2. (size + PageSize - 1) \div PageSize \in Nat
  BY PmmAssumption DEF Sizes
<1> QED
  BY <1>1, <1>2 DEF DIV_ROUNDUP, H!PageCount

\* A larger size takes no fewer pages.
LEMMA RoundupMonotone ==
    ASSUME NEW a \in Sizes, NEW b \in Sizes, a <= b
    PROVE  DIV_ROUNDUP(a) <= DIV_ROUNDUP(b)
<1>1. H!PageCount(a) <= H!PageCount(b)
  BY PmmAssumption DEF Sizes, H!PageCount
<1> QED
  BY <1>1, Roundup

\* A set of natural numbers that is not empty has a lowest element.
LEMMA LowestExists ==
    ASSUME NEW S, S \subseteq Nat, S # {}
    PROVE  Lowest(S) \in S
<1> DEFINE R == OpToRel(<, Nat)
<1>1. IsWellFoundedOn(R, Nat)
  BY NatLessThanWellFounded, Zenon
<1>2. \E e \in S : \A y \in S : <<y, e>> \notin R
  <2> HIDE DEF R
  <2> QED
    BY <1>1, WFMin
<1>3. PICK e \in S : \A y \in S : <<y, e>> \notin R
  BY <1>2
<1>4. \A y \in S : ~(y < e)
  BY <1>3 DEF OpToRel
<1>5. \A y \in S : e <= y
  BY <1>4
<1> QED
  BY <1>5 DEF Lowest

\* What an allocation of n pages may do to a bitmap.
Gives(r, bm, n) ==
    /\ r.next \in 0 .. NPages
    /\ r.page \in Pages
    /\ r.page = 0 => r.bitmap = bm
    /\ r.page # 0 => /\ Run(r.page, n) \subseteq Pages \ bm
                     /\ r.bitmap = bm \cup Run(r.page, n)

\* inner_alloc marks a run of free pages, or nothing.
LEMMA InnerGives ==
    ASSUME NEW bm, bm \subseteq Pages, 0 \in bm, NEW n \in Nat \ {0},
           NEW start \in 0 .. NPages, NEW limit \in 0 .. NPages
    PROVE  Gives(InnerAlloc(bm, start, n, limit), bm, n)
<1> USE PmmAssumption
<1> DEFINE ends == RunEnds(bm, start, n, limit)
           e == Lowest(ends)
<1>1. CASE ends = {}
  <2>1. InnerAlloc(bm, start, n, limit)
          = [bitmap |-> bm, page |-> 0,
             next |-> IF start < limit THEN limit ELSE start]
    BY <1>1 DEF InnerAlloc
  <2> QED
    BY <2>1 DEF Pages, Gives
<1>2. CASE ends # {}
  <2>1. ends \subseteq Nat
    BY DEF RunEnds
  <2>2. e \in ends
    BY <1>2, <2>1, LowestExists
  <2>3. e \in start + n .. limit /\ FreeRun(bm, e, n)
    BY <2>2 DEF RunEnds
  <2>4. InnerAlloc(bm, start, n, limit)
          = [bitmap |-> bm \cup Run(e - n, n), page |-> e - n, next |-> e]
    BY <1>2 DEF InnerAlloc
  <2> HIDE DEF e
  <2>5. Run(e - n, n) \subseteq Pages \ bm
    BY <2>3 DEF Run, Pages, FreeRun
  <2>6. e - n \in Run(e - n, n)
    BY <2>3 DEF Run
  <2> QED
    BY <2>3, <2>4, <2>5, <2>6 DEF Gives
<1> QED
  BY <1>1, <1>2

\* pmm_alloc marks a run of free pages, or nothing.
LEMMA AllocGives ==
    ASSUME NEW bm, bm \subseteq Pages, 0 \in bm, NEW n \in Nat \ {0},
           NEW idx \in 0 .. NPages
    PROVE  Gives(PmmAlloc(bm, idx, n, NPages), bm, n)
<1> DEFINE first == InnerAlloc(bm, idx, n, NPages)
           second == InnerAlloc(bm, 0, n, idx)
<1>1. NPages \in 0 .. NPages /\ 0 \in 0 .. NPages
  BY PmmAssumption
<1>2. Gives(first, bm, n) /\ Gives(second, bm, n)
  BY <1>1, InnerGives
<1>3. PmmAlloc(bm, idx, n, NPages) = IF first.page # 0 THEN first ELSE second
  BY <1>2 DEF PmmAlloc, Gives
<1> HIDE DEF first, second
<1> QED
  BY <1>2, <1>3
(***************************************************************************)
(* Blocks.                                                                 *)
(***************************************************************************)

\* A block starts at its metadata page and lies in the pages of the bitmap.
LEMMA ExtentFacts ==
    ASSUME IndInv, NEW b \in Held
    PROVE  /\ held[b] \in Sizes
           /\ DIV_ROUNDUP(held[b]) \in Nat
           /\ b \in Extent(b)
           /\ \A i \in 1 .. DIV_ROUNDUP(held[b]) : b + i \in Extent(b)
           /\ Extent(b) \subseteq bitmap
           /\ Extent(b) \subseteq Pages
<1>1. held[b] \in Sizes /\ b \in Int
  BY PmmAssumption DEF IndInv, TypeOK, Held, Pages
<1>2. DIV_ROUNDUP(held[b]) \in Nat
  BY <1>1, Roundup
<1>3. b \in Extent(b) /\ \A i \in 1 .. DIV_ROUNDUP(held[b]) : b + i \in Extent(b)
  BY <1>1, <1>2 DEF Extent, Run
<1> QED
  BY <1>1, <1>2, <1>3 DEF IndInv, BitmapExact, BlocksDisjoint

\* A new block c takes free pages, and the blocks in gone are given up.
LEMMA Replaced ==
    ASSUME IndInv, NEW gone \in SUBSET Held, NEW c \in Pages, NEW size \in Sizes,
           Run(c, DIV_ROUNDUP(size) + 1) \subseteq Pages \ bitmap,
           held' = [x \in Pages |-> IF x = c THEN size
                                    ELSE IF x \in gone THEN None ELSE held[x]],
           bitmap' = (bitmap \cup Run(c, DIV_ROUNDUP(size) + 1))
                        \ UNION {Extent(b) : b \in gone},
           mem' \in [Pages -> [pages : Nat, size : Nat]],
           mem'[c] = Page(DIV_ROUNDUP(size), size),
           \A p \in Pages : p \notin Run(c, DIV_ROUNDUP(size) + 1) => mem'[p] = mem[p],
           last_used_index' \in 0 .. NPages
    PROVE  IndInv'
<1> DEFINE new == Run(c, DIV_ROUNDUP(size) + 1)
<1>0. DIV_ROUNDUP(size) \in Nat /\ c \in new /\ size # None /\ c \in Int
  BY Roundup DEF Run, Pages, Sizes, None
<1>1. c \notin Held
  BY <1>0, ExtentFacts
<1>2. Held' = (Held \ gone) \cup {c}
  BY <1>0, <1>1 DEF Held
<1>3. ASSUME NEW x \in Held \ gone
      PROVE  /\ held'[x] = held[x] /\ Extent(x)' = Extent(x) /\ x \in Held
             /\ Extent(x) \cap new = {} /\ Extent(x) \subseteq bitmap
             /\ x \notin new /\ x \in Pages
  <2>1. x # c /\ x \in Pages /\ held'[x] = held[x]
    BY <1>1 DEF Held
  <2>2. Extent(x) \subseteq bitmap /\ x \in Extent(x)
    BY ExtentFacts
  <2>3. Extent(x)' = Extent(x)
    BY <2>1 DEF Extent
  <2> QED
    BY <2>1, <2>2, <2>3
<1>4. Extent(c)' = new /\ held'[c] = size
  BY DEF Extent
<1>5. TypeOK'
  BY DEF IndInv, TypeOK
<1>6. MetadataIntact'
  <2> SUFFICES ASSUME NEW x \in Held'
               PROVE  mem'[x] = Page(DIV_ROUNDUP(held'[x]), held'[x])
    BY DEF MetadataIntact
  <2>1. CASE x = c
    BY <2>1, <1>4
  <2>2. CASE x \in Held \ gone
    BY <2>2, <1>3 DEF IndInv, MetadataIntact
  <2> QED
    BY <1>2, <2>1, <2>2
<1> HIDE DEF new
<1>7. BlocksDisjoint'
  <2>1. new \subseteq Pages \ Reserved
    BY DEF new, IndInv, BitmapExact
  <2>2. ASSUME NEW x \in Held', NEW y \in Held', x # y
        PROVE  Extent(x)' \cap Extent(y)' = {}
    <3>1. CASE x = c
      BY <3>1, <1>2, <1>3, <1>4, <2>2
    <3>2. CASE y = c
      BY <3>2, <1>2, <1>3, <1>4, <2>2
    <3>3. CASE x \in Held \ gone /\ y \in Held \ gone
      BY <3>3, <1>3, <2>2 DEF IndInv, BlocksDisjoint
    <3> QED
      BY <1>2, <3>1, <3>2, <3>3
  <2>3. ASSUME NEW x \in Held' PROVE Extent(x)' \subseteq Pages \ Reserved
    <3>1. CASE x = c
      BY <3>1, <1>4, <2>1
    <3>2. CASE x \in Held \ gone
      BY <3>2, <1>3 DEF IndInv, BlocksDisjoint
    <3> QED
      BY <1>2, <3>1, <3>2
  <2> QED
    BY <2>2, <2>3 DEF BlocksDisjoint
<1>8. BitmapExact'
  <2>1. ASSUME NEW p
        PROVE  p \in bitmap' <=> p \in Reserved \/ \E x \in Held' : p \in Extent(x)'
    <3>1. p \in bitmap' <=> (p \in bitmap \/ p \in new) /\ ~ \E b \in gone : p \in Extent(b)
      BY DEF new
    <3>2. p \in bitmap <=> p \in Reserved \/ \E b \in Held : p \in Extent(b)
      BY DEF IndInv, BitmapExact
    <3>3. p \in new => ~ \E b \in Held : p \in Extent(b)
      BY <3>2 DEF new
    <3>4. \A b \in gone : p \in Extent(b) =>
              p \notin Reserved /\ \A x \in Held \ gone : p \notin Extent(x)
      BY DEF IndInv, BlocksDisjoint
    <3>5. (\E x \in Held' : p \in Extent(x)')
            <=> p \in new \/ \E x \in Held \ gone : p \in Extent(x)
      BY <1>2, <1>3, <1>4
    <3> QED
      BY <3>1, <3>2, <3>3, <3>4, <3>5
  <2> QED
    BY <2>1 DEF BitmapExact
<1> QED
  BY <1>5, <1>6, <1>7, <1>8 DEF IndInv

\* What the next step finds: page 0 is used, so the null pointer is no page.
LEMMA AllocFacts ==
    ASSUME IndInv, NEW size \in Sizes
    PROVE  Gives(PmmAlloc(bitmap, last_used_index, DIV_ROUNDUP(size) + 1, NPages),
                 bitmap, DIV_ROUNDUP(size) + 1)
<1>1. DIV_ROUNDUP(size) + 1 \in Nat \ {0}
  BY Roundup
<1>2. 0 \in bitmap
  BY PmmAssumption DEF IndInv, BitmapExact
<1> QED
  BY <1>1, <1>2, AllocGives DEF IndInv, TypeOK

\* kalloc.
LEMMA KallocKeeps ==
    ASSUME IndInv, NEW size \in Sizes, Kalloc(size)
    PROVE  IndInv'
<1> DEFINE n == DIV_ROUNDUP(size) + 1
           r == PmmAlloc(bitmap, last_used_index, n, NPages)
           c == r.page
<1>1. Gives(r, bitmap, n)
  BY AllocFacts
<1>2. /\ bitmap' = r.bitmap /\ last_used_index' = r.next
      /\ c = 0 => UNCHANGED <<mem, held>>
      /\ c # 0 => /\ mem' = Allocated(size, c)
                  /\ held' = [held EXCEPT ![c] = size]
  BY DEF Kalloc
<1> HIDE DEF r
<1>3. CASE c = 0
  <2>1. UNCHANGED <<bitmap, mem, held>> /\ last_used_index' \in 0 .. NPages
    BY <1>1, <1>2, <1>3 DEF Gives
  <2> QED
    BY <2>1 DEF IndInv, TypeOK, MetadataIntact, BlocksDisjoint, BitmapExact,
       Held, Extent
<1>4. CASE c # 0
  <2>0. c \in Pages /\ Run(c, n) \subseteq Pages \ bitmap
        /\ bitmap' = bitmap \cup Run(c, n) /\ last_used_index' \in 0 .. NPages
    BY <1>1, <1>2, <1>4 DEF Gives
  <2>1. held' = [x \in Pages |-> IF x = c THEN size
                                 ELSE IF x \in {} THEN None ELSE held[x]]
    BY <1>2, <1>4, <2>0 DEF IndInv, TypeOK
  <2>2. bitmap' = (bitmap \cup Run(c, n)) \ UNION {Extent(b) : b \in {}}
    BY <2>0
  <2>3. mem' \in [Pages -> [pages : Nat, size : Nat]]
    BY <1>2, <1>4, <2>0, Roundup DEF Allocated, Zeroed, Page, IndInv, TypeOK, Sizes
  <2>4. /\ mem'[c] = Page(DIV_ROUNDUP(size), size)
        /\ \A p \in Pages : p \notin Run(c, n) => mem'[p] = mem[p]
    <3>1. c \in Run(c, n)
      BY <2>0, Roundup DEF Run, Pages
    <3> QED
      BY <1>2, <1>4, <2>0, <3>1, Roundup DEF Allocated, Zeroed
  <2>5. {} \in SUBSET Held
    OBVIOUS
  <2> HIDE DEF c
  <2> QED
    BY <2>0, <2>1, <2>2, <2>3, <2>4, <2>5, Replaced
<1> QED
  BY <1>3, <1>4

\* What the metadata of a block says.
LEMMA MetadataSays ==
    ASSUME IndInv, NEW b \in Held
    PROVE  mem[b].pages = DIV_ROUNDUP(held[b]) /\ mem[b].size = held[b]
<1>1. mem[b] = Page(DIV_ROUNDUP(held[b]), held[b])
  BY DEF IndInv, MetadataIntact
<1> QED
  BY <1>1 DEF Page

\* kfree gives back exactly the pages of the block.
LEMMA FreedIsExtent ==
    ASSUME IndInv, NEW b \in Held
    PROVE  Freed(b) = Extent(b)
  BY MetadataSays DEF Freed, Extent

\* kfree.
LEMMA KfreeKeeps ==
    ASSUME IndInv, NEW b \in Pages, Kfree(b)
    PROVE  IndInv'
<1>0. b \in Held /\ bitmap' = bitmap \ Extent(b)
      /\ held' = [held EXCEPT ![b] = None] /\ UNCHANGED <<last_used_index, mem>>
  BY FreedIsExtent DEF Kfree, Held
<1>1. Held' = Held \ {b}
  BY <1>0 DEF Held, IndInv, TypeOK
<1>2. ASSUME NEW x \in Held \ {b}
      PROVE  held'[x] = held[x] /\ Extent(x)' = Extent(x)
  BY <1>0 DEF Extent, Held, IndInv, TypeOK
<1>3. TypeOK'
  BY <1>0 DEF IndInv, TypeOK
<1>4. MetadataIntact' /\ BlocksDisjoint'
  BY <1>0, <1>1, <1>2 DEF IndInv, MetadataIntact, BlocksDisjoint
<1>5. BitmapExact'
  <2>1. ASSUME NEW p
        PROVE  p \in bitmap' <=> p \in Reserved \/ \E x \in Held' : p \in Extent(x)'
    <3>1. p \in bitmap <=> p \in Reserved \/ \E x \in Held : p \in Extent(x)
      BY DEF IndInv, BitmapExact
    <3>2. p \in Extent(b) => p \notin Reserved /\ \A x \in Held \ {b} : p \notin Extent(x)
      BY <1>0 DEF IndInv, BlocksDisjoint
    <3>3. (\E x \in Held' : p \in Extent(x)') <=> \E x \in Held \ {b} : p \in Extent(x)
      BY <1>1, <1>2
    <3> QED
      BY <1>0, <3>1, <3>2, <3>3
  <2> QED
    BY <2>1 DEF BitmapExact
<1> QED
  BY <1>3, <1>4, <1>5 DEF IndInv

\* krealloc in place: the block keeps its pages.
LEMMA KreallocInPlaceKeeps ==
    ASSUME IndInv, NEW b \in Pages, NEW size \in Sizes, KreallocInPlace(b, size)
    PROVE  IndInv'
<1>0. /\ b \in Held /\ DIV_ROUNDUP(held[b]) = DIV_ROUNDUP(size)
      /\ mem' = [mem EXCEPT ![b].size = size] /\ held' = [held EXCEPT ![b] = size]
      /\ UNCHANGED <<bitmap, last_used_index>> /\ size # None /\ size \in Nat
  <2>1. b \in Held
    BY DEF KreallocInPlace, Held
  <2>2. mem[b].size = held[b]
    BY <2>1, MetadataSays
  <2> QED
    BY <2>1, <2>2, PmmAssumption DEF KreallocInPlace, Sizes, None
<1>1. Held' = Held
  BY <1>0 DEF Held, IndInv, TypeOK
<1>2. ASSUME NEW x \in Held
      PROVE  DIV_ROUNDUP(held'[x]) = DIV_ROUNDUP(held[x]) /\ Extent(x)' = Extent(x)
  BY <1>0 DEF Extent, Held, IndInv, TypeOK
<1>3. TypeOK'
  BY <1>0 DEF IndInv, TypeOK
<1>4. MetadataIntact'
  <2> SUFFICES ASSUME NEW x \in Held
               PROVE  mem'[x] = Page(DIV_ROUNDUP(held'[x]), held'[x])
    BY <1>1 DEF MetadataIntact
  <2>1. CASE x = b
    <3>1. mem[b] = Page(DIV_ROUNDUP(held[b]), held[b]) /\ held'[b] = size
      BY <1>0 DEF IndInv, TypeOK, MetadataIntact
    <3>2. mem'[b] = [mem[b] EXCEPT !.size = size]
      BY <1>0 DEF IndInv, TypeOK
    <3>3. mem'[b] = Page(DIV_ROUNDUP(held[b]), size)
      BY <3>1, <3>2 DEF Page
    <3> QED
      BY <2>1, <1>0, <3>1, <3>3
  <2>2. CASE x # b
    BY <2>2, <1>0 DEF IndInv, TypeOK, MetadataIntact, Held
  <2> QED
    BY <2>1, <2>2
<1>5. BlocksDisjoint'
  BY <1>1, <1>2 DEF IndInv, BlocksDisjoint
<1>6. BitmapExact'
  <2>1. ASSUME NEW p
        PROVE  (\E x \in Held' : p \in Extent(x)') <=> \E x \in Held : p \in Extent(x)
    BY <1>1, <1>2
  <2> QED
    BY <1>0, <2>1 DEF IndInv, BitmapExact
<1> QED
  BY <1>3, <1>4, <1>5, <1>6 DEF IndInv

\* What krealloc copies fits in both blocks.
LEMMA CopyFits ==
    ASSUME IndInv, NEW b \in Held, NEW size \in Sizes
    PROVE  /\ DIV_ROUNDUP(Copied(b, size)) \in Nat
           /\ DIV_ROUNDUP(Copied(b, size)) <= DIV_ROUNDUP(size)
           /\ DIV_ROUNDUP(Copied(b, size)) <= DIV_ROUNDUP(held[b])
           /\ DIV_ROUNDUP(Copied(b, size)) \in {DIV_ROUNDUP(size), DIV_ROUNDUP(held[b])}
<1>1. held[b] \in Sizes /\ mem[b].size = held[b]
  BY ExtentFacts, MetadataSays
<1>2. CASE held[b] > size
  <2>1. Copied(b, size) = size
    BY <1>1, <1>2 DEF Copied
  <2> QED
    BY <1>1, <1>2, <2>1, Roundup, RoundupMonotone DEF Sizes
<1>3. CASE ~(held[b] > size)
  <2>1. Copied(b, size) = held[b]
    BY <1>1, <1>3 DEF Copied
  <2> QED
    BY <1>1, <1>3, <2>1, Roundup, RoundupMonotone DEF Sizes
<1> QED
  BY <1>2, <1>3

\* krealloc to another place.
LEMMA KreallocMovesKeeps ==
    ASSUME IndInv, NEW b \in Pages, NEW size \in Sizes, KreallocMoves(b, size)
    PROVE  IndInv'
<1> DEFINE n == DIV_ROUNDUP(size) + 1
           r == PmmAlloc(bitmap, last_used_index, n, NPages)
           c == r.page
           k == DIV_ROUNDUP(Copied(b, size))
<1>1. Gives(r, bitmap, n)
  BY AllocFacts
<1>2. /\ b \in Held /\ last_used_index' = r.next
      /\ c = 0 => bitmap' = r.bitmap /\ UNCHANGED <<mem, held>>
      /\ c # 0 => /\ mem' = [p \in Pages |-> IF p \in Run(c + 1, k) THEN mem[b + p - c]
                                             ELSE Allocated(size, c)[p]]
                  /\ bitmap' = r.bitmap \ Freed(b)
                  /\ held' = [held EXCEPT ![b] = None, ![c] = size]
  BY DEF KreallocMoves, Held
<1> HIDE DEF r
<1>3. CASE c = 0
  <2>1. UNCHANGED <<bitmap, mem, held>> /\ last_used_index' \in 0 .. NPages
    BY <1>1, <1>2, <1>3 DEF Gives
  <2> QED
    BY <2>1 DEF IndInv, TypeOK, MetadataIntact, BlocksDisjoint, BitmapExact,
       Held, Extent
<1>4. CASE c # 0
  <2>0. c \in Pages /\ Run(c, n) \subseteq Pages \ bitmap
        /\ bitmap' = (bitmap \cup Run(c, n)) \ Extent(b)
        /\ last_used_index' \in 0 .. NPages
    BY <1>1, <1>2, <1>4, FreedIsExtent DEF Gives
  <2>1. held' = [x \in Pages |-> IF x = c THEN size
                                 ELSE IF x \in {b} THEN None ELSE held[x]]
    BY <1>2, <1>4, <2>0 DEF IndInv, TypeOK
  <2>2. bitmap' = (bitmap \cup Run(c, n)) \ UNION {Extent(x) : x \in {b}}
    BY <2>0
  <2>3. /\ n - 1 \in Nat /\ k \in Nat /\ k <= n - 1 /\ k <= DIV_ROUNDUP(held[b])
        /\ b \in Int /\ c \in Int
    BY <1>2, <2>0, CopyFits, Roundup DEF Pages
  <2>4. \A p \in Run(c + 1, k) : p \in Run(c, n) /\ p # c /\ b + p - c \in Pages
    <3>1. ASSUME NEW p \in Run(c + 1, k)
          PROVE  p \in Run(c, n) /\ p # c /\ b + p - c \in Extent(b)
      <4> HIDE DEF c, k
      <4>1. p \in c + 1 .. c + k /\ p \in Int
        BY <2>3 DEF Run
      <4>2. p \in Run(c, n) /\ p # c
        BY <2>3, <4>1 DEF Run
      <4>3. b + p - c \in b .. b + DIV_ROUNDUP(held[b])
        BY <2>3, <4>1, <1>2, ExtentFacts
      <4>4. b + p - c \in Extent(b)
        BY <2>3, <4>3, <1>2, ExtentFacts DEF Extent, Run
      <4> QED
        BY <4>2, <4>4
    <3> QED
      BY <1>2, <3>1, ExtentFacts
  <2>5. \A p \in Pages : Allocated(size, c)[p] \in [pages : Nat, size : Nat]
    BY <2>0, <2>3 DEF Allocated, Zeroed, Page, IndInv, TypeOK, Sizes
  <2>6. c \in Run(c, n)
    BY <2>3 DEF Run
  <2> HIDE DEF c, k
  <2>7. mem' \in [Pages -> [pages : Nat, size : Nat]]
    BY <1>2, <1>4, <2>4, <2>5 DEF IndInv, TypeOK
  <2>8. mem'[c] = Page(DIV_ROUNDUP(size), size)
    <3>1. c \notin Run(c + 1, k)
      BY <2>4
    <3>2. mem'[c] = Allocated(size, c)[c]
      BY <1>2, <1>4, <2>0, <3>1
    <3>3. Allocated(size, c)[c] = Page(DIV_ROUNDUP(size), size)
      BY <2>0, Roundup DEF Allocated
    <3> QED
      BY <3>2, <3>3
  <2>9. \A p \in Pages : p \notin Run(c, n) => mem'[p] = mem[p]
    BY <1>2, <1>4, <2>4, <2>6 DEF Allocated, Zeroed
  <2>10. {b} \in SUBSET Held
    BY <1>2
  <2> QED
    BY <2>0, <2>1, <2>2, <2>7, <2>8, <2>9, <2>10, Replaced
<1> QED
  BY <1>3, <1>4

\* A store to a block is a store to no other block and to no metadata.
LEMMA StoreKeeps ==
    ASSUME IndInv, NEW b \in Pages, NEW i \in Nat, NEW w \in Words, Store(b, i, w)
    PROVE  /\ IndInv'
           /\ b + i \in Extent(b) /\ b \in Held
<1>1. /\ b \in Held /\ i \in 1 .. DIV_ROUNDUP(held[b]) /\ w \in Nat
      /\ mem' = [mem EXCEPT ![b + i] = Page(w, w)]
      /\ UNCHANGED <<bitmap, last_used_index, held>>
  BY PmmAssumption DEF Store, Held
<1>2. b + i \in Extent(b) /\ b + i \in Pages /\ b + i # b
  BY <1>1, ExtentFacts DEF Pages
<1>3. Held' = Held /\ \A x \in Held : Extent(x)' = Extent(x) /\ held'[x] = held[x]
  BY <1>1 DEF Held, Extent
<1>4. TypeOK'
  BY <1>1, <1>2 DEF IndInv, TypeOK, Page
<1>5. MetadataIntact'
  <2> SUFFICES ASSUME NEW x \in Held PROVE mem'[x] = mem[x]
    BY <1>3 DEF MetadataIntact, IndInv
  <2>1. x # b + i
    BY <1>1, <1>2, ExtentFacts DEF IndInv, BlocksDisjoint
  <2> QED
    BY <1>1, <1>2, <2>1 DEF IndInv, TypeOK, Held
<1>6. BlocksDisjoint'
  BY <1>3 DEF IndInv, BlocksDisjoint
<1>7. BitmapExact'
  <2>1. ASSUME NEW p
        PROVE  (\E x \in Held' : p \in Extent(x)') <=> \E x \in Held : p \in Extent(x)
    BY <1>3
  <2> QED
    BY <1>1, <2>1 DEF IndInv, BitmapExact
<1> QED
  BY <1>1, <1>2, <1>4, <1>5, <1>6, <1>7 DEF IndInv

\* The invariant holds throughout.
THEOREM HeapInvariance == Spec => []IndInv
<1>1. Init => IndInv
  BY PmmAssumption DEF Init, IndInv, TypeOK, MetadataIntact, BlocksDisjoint,
     BitmapExact, Held, Page, Pages, None
<1>2. IndInv /\ [Next]_vars => IndInv'
  <2> SUFFICES ASSUME IndInv, [Next]_vars PROVE IndInv'
    OBVIOUS
  <2>1. ASSUME NEW b \in Pages, NEW i \in 1 .. DIV_ROUNDUP(MaxSize),
               NEW w \in Words, Store(b, i, w)
        PROVE  IndInv'
    BY <2>1, StoreKeeps
  <2>2. CASE UNCHANGED vars
    BY <2>2 DEF vars, IndInv, TypeOK, MetadataIntact, BlocksDisjoint, BitmapExact,
       Held, Extent
  <2> QED
    BY <2>1, <2>2, KallocKeeps, KfreeKeeps, KreallocInPlaceKeeps,
       KreallocMovesKeeps DEF Next
<1> QED
  BY <1>1, <1>2, PTL DEF Spec

(***************************************************************************)
(* The steps are steps of Heap.                                            *)
(***************************************************************************)

\* The blocks of Heap in this state.
Abs == [b \in Pages |-> BlockAt(b)]

\* A block whose size and pages stay the same is the same block.
LEMMA SameBlock ==
    ASSUME IndInv, NEW x \in Pages, held'[x] = held[x],
           x \in Held => \A p \in Extent(x) : mem'[p] = mem[p]
    PROVE  BlockAt(x)' = BlockAt(x)
<1>1. CASE x \in Held
  <2>1. held[x] # None
    BY <1>1 DEF Held
  <2>2. \A i \in 1 .. DIV_ROUNDUP(held[x]) : mem'[x + i] = mem[x + i]
    BY <1>1, ExtentFacts
  <2> QED
    BY <2>1, <2>2 DEF BlockAt
<1>2. CASE x \notin Held
  <2>1. held[x] = None
    BY <1>2 DEF Held
  <2> QED
    BY <2>1 DEF BlockAt
<1> QED
  BY <1>1, <1>2

\* Block names that stand for no block.
LEMMA NoBlockAt ==
    ASSUME NEW x \in Pages, held[x] = None
    PROVE  BlockAt(x) = H!NoBlock
  BY DEF BlockAt, None, H!NoBlock, H!ZeroPages

\* The pages of a block and of a run of free pages are apart.
LEMMA FreeRunApart ==
    ASSUME IndInv, NEW run, run \subseteq Pages \ bitmap, NEW x \in Held
    PROVE  Extent(x) \cap run = {} /\ x \notin run
  BY ExtentFacts

\* kalloc is Heap's Kalloc, or fails.
LEMMA KallocRefines ==
    ASSUME IndInv, NEW size \in Sizes, Kalloc(size)
    PROVE  Abs' = Abs \/ \E c \in Pages : H!Kalloc(c, size)
<1> DEFINE n == DIV_ROUNDUP(size) + 1
           r == PmmAlloc(bitmap, last_used_index, n, NPages)
<1>1. Gives(r, bitmap, n)
  BY AllocFacts
<1>0. PICK c \in Pages : c = r.page
  BY <1>1 DEF Gives
<1>2. /\ c = 0 => UNCHANGED <<mem, held>>
      /\ c # 0 => /\ mem' = Allocated(size, c)
                  /\ held' = [held EXCEPT ![c] = size]
  BY <1>0 DEF Kalloc
<1> HIDE DEF r
<1>3. CASE c = 0
  BY <1>2, <1>3 DEF Abs, BlockAt
<1>4. CASE c # 0
  <2>0. c \in Pages /\ Run(c, n) \subseteq Pages \ bitmap
    BY <1>0, <1>1, <1>4 DEF Gives
  <2>1. DIV_ROUNDUP(size) \in Nat /\ DIV_ROUNDUP(size) = H!PageCount(size)
        /\ c \in Int /\ size # None /\ c \in Run(c, n)
    BY <2>0, Roundup DEF Pages, Sizes, None, Run
  <2>2. c \notin Held /\ held[c] = None
    BY <2>0, <2>1, ExtentFacts DEF Held
  <2>3. held'[c] = size /\ \A x \in Pages : x # c => held'[x] = held[x]
    BY <1>2, <1>4, <2>0 DEF IndInv, TypeOK
  <2>4. \A p \in Pages : p \notin Run(c, n) => mem'[p] = mem[p]
    BY <1>2, <1>4, <2>1 DEF Allocated, Zeroed
  <2>5. ASSUME NEW x \in Pages, x # c PROVE BlockAt(x)' = BlockAt(x)
    <3>1. x \in Held => \A p \in Extent(x) : mem'[p] = mem[p]
      BY <2>0, <2>4, FreeRunApart, ExtentFacts
    <3> QED
      BY <2>3, <2>5, <3>1, SameBlock
  <2>6. \A i \in 1 .. DIV_ROUNDUP(size) : mem'[c + i] = Page(0, 0)
    <3>1. ASSUME NEW i \in 1 .. DIV_ROUNDUP(size)
          PROVE  c + i \in Run(c, n) /\ c + i # c
      BY <2>1 DEF Run
    <3>2. ASSUME NEW i \in 1 .. DIV_ROUNDUP(size)
          PROVE  c + i \in Pages
      BY <2>0, <3>1
    <3> QED
      BY <1>2, <1>4, <3>1, <3>2 DEF Allocated, Zeroed
  <2>7. BlockAt(c)' = [size |-> size, data |-> H!ZeroPages(H!PageCount(size))]
    <3>1. [i \in 1 .. DIV_ROUNDUP(size) |-> mem'[c + i]]
            = H!ZeroPages(DIV_ROUNDUP(size))
      BY <2>6 DEF H!ZeroPages, Page, H!Page
    <3>2. BlockAt(c)' = [size |-> size,
                         data |-> [i \in 1 .. DIV_ROUNDUP(size) |-> mem'[c + i]]]
      BY <2>1, <2>3 DEF BlockAt
    <3> QED
      BY <2>1, <3>1, <3>2
  <2>8. BlockAt(c).size = -1
    BY <2>2 DEF BlockAt, None
  <2>9. Abs' = [Abs EXCEPT ![c] =
                  [size |-> size, data |-> H!ZeroPages(H!PageCount(size))]]
    <3> DEFINE blk == [size |-> size, data |-> H!ZeroPages(H!PageCount(size))]
    <3>1. BlockAt(c)' = blk
      BY <2>7
    <3> HIDE DEF blk
    <3>2. Abs' = [Abs EXCEPT ![c] = blk]
      BY <2>0, <2>5, <3>1 DEF Abs
    <3> QED
      BY <3>2 DEF blk
  <2> QED
    BY <2>0, <2>8, <2>9 DEF H!Kalloc, H!Live, Abs
<1> QED
  BY <1>3, <1>4

\* kfree is Heap's Kfree.
LEMMA KfreeRefines ==
    ASSUME IndInv, NEW b \in Pages, Kfree(b)
    PROVE  H!Kfree(b)
<1>1. held[b] # None /\ held' = [held EXCEPT ![b] = None] /\ UNCHANGED mem
  BY DEF Kfree
<1>2. ASSUME NEW x \in Pages, x # b PROVE BlockAt(x)' = BlockAt(x)
  BY <1>1, <1>2, SameBlock DEF IndInv, TypeOK
<1>3. BlockAt(b)' = H!NoBlock
  BY <1>1 DEF BlockAt, None, H!NoBlock, H!ZeroPages, IndInv, TypeOK
<1>4. BlockAt(b).size # -1
  BY <1>1 DEF BlockAt, None
<1>5. Abs' = [Abs EXCEPT ![b] = H!NoBlock]
  BY <1>2, <1>3 DEF Abs
<1> QED
  BY <1>4, <1>5 DEF H!Kfree, H!Live, Abs

\* A store is Heap's Store.
LEMMA StoreRefines ==
    ASSUME IndInv, NEW b \in Pages, NEW i \in 1 .. DIV_ROUNDUP(MaxSize),
           NEW w \in Words, Store(b, i, w)
    PROVE  H!Store(b, i, w)
<1>1. /\ b \in Held /\ b + i \in Extent(b) /\ b + i \in Pages
      /\ i \in 1 .. DIV_ROUNDUP(held[b]) /\ held[b] # None
      /\ mem' = [mem EXCEPT ![b + i] = Page(w, w)] /\ UNCHANGED held
  <2>1. i \in Nat
    BY PmmAssumption, Roundup DEF Sizes
  <2>2. b \in Held /\ b + i \in Extent(b)
    BY <2>1, StoreKeeps
  <2> QED
    BY <2>2, ExtentFacts DEF Store
<1>2. DIV_ROUNDUP(held[b]) = H!PageCount(held[b])
  BY <1>1, ExtentFacts, Roundup
<1>3. ASSUME NEW x \in Pages, x # b PROVE BlockAt(x)' = BlockAt(x)
  <2>1. x \in Held => \A p \in Extent(x) : p # b + i /\ p \in Pages
    BY <1>1, <1>3, ExtentFacts DEF IndInv, BlocksDisjoint
  <2>2. x \in Held => \A p \in Extent(x) : mem'[p] = mem[p]
    BY <1>1, <2>1 DEF IndInv, TypeOK
  <2> QED
    BY <1>1, <2>2, SameBlock
<1>4. BlockAt(b) = [size |-> held[b],
                    data |-> [j \in 1 .. DIV_ROUNDUP(held[b]) |-> mem[b + j]]]
  BY <1>1 DEF BlockAt
<1>5. BlockAt(b)' = [size |-> held[b],
                     data |-> [j \in 1 .. DIV_ROUNDUP(held[b]) |-> mem'[b + j]]]
  BY <1>1 DEF BlockAt
<1>6. ASSUME NEW j \in 1 .. DIV_ROUNDUP(held[b])
      PROVE  mem'[b + j] = IF j = i THEN Page(w, w) ELSE mem[b + j]
  <2>1. b + j \in Pages /\ (b + j = b + i <=> j = i)
    BY <1>1, <1>6, ExtentFacts DEF Pages
  <2> QED
    BY <1>1, <2>1 DEF IndInv, TypeOK
<1>7. BlockAt(b)' = [BlockAt(b) EXCEPT !.data[i] = Page(w, w)]
  <2> DEFINE d == [j \in 1 .. DIV_ROUNDUP(held[b]) |-> mem[b + j]]
             e == [j \in 1 .. DIV_ROUNDUP(held[b]) |-> mem'[b + j]]
  <2>1. e = [d EXCEPT ![i] = Page(w, w)]
    BY <1>1, <1>6
  <2>2. BlockAt(b) = [size |-> held[b], data |-> d]
        /\ BlockAt(b)' = [size |-> held[b], data |-> e]
    BY <1>4, <1>5
  <2> HIDE DEF d, e
  <2> QED
    BY <2>1, <2>2
<1>8. BlockAt(b).size = held[b] /\ held[b] # -1
  BY <1>1, <1>4 DEF None
<1>9. Abs' = [Abs EXCEPT ![b].data[i] = Page(w, w)]
  BY <1>3, <1>7 DEF Abs
<1> QED
  BY <1>1, <1>2, <1>8, <1>9 DEF H!Store, H!Live, Abs, Page, H!Page

\* krealloc in place is Heap's.
LEMMA InPlaceRefines ==
    ASSUME IndInv, NEW b \in Pages, NEW size \in Sizes, KreallocInPlace(b, size)
    PROVE  H!KreallocInPlace(b, size)
<1>1. b \in Held /\ held[b] # None /\ mem[b].size = held[b] /\ held[b] \in Sizes
      /\ b \in Int
  BY MetadataSays, ExtentFacts DEF KreallocInPlace, Held, Pages
<1>2. /\ DIV_ROUNDUP(held[b]) = DIV_ROUNDUP(size)
      /\ mem' = [mem EXCEPT ![b].size = size] /\ held' = [held EXCEPT ![b] = size]
      /\ size # None
  BY <1>1 DEF KreallocInPlace, Sizes, None
<1>3. ASSUME NEW x \in Pages, x # b PROVE BlockAt(x)' = BlockAt(x)
  <2>1. x \in Held => \A p \in Extent(x) : p # b /\ p \in Pages
    BY <1>1, <1>3, ExtentFacts DEF IndInv, BlocksDisjoint
  <2>2. x \in Held => \A p \in Extent(x) : mem'[p] = mem[p]
    BY <1>2, <2>1 DEF IndInv, TypeOK
  <2>3. held'[x] = held[x]
    BY <1>2, <1>3 DEF IndInv, TypeOK
  <2> QED
    BY <2>2, <2>3, SameBlock
<1>4. \A j \in 1 .. DIV_ROUNDUP(held[b]) : mem'[b + j] = mem[b + j]
  <2>1. ASSUME NEW j \in 1 .. DIV_ROUNDUP(held[b]) PROVE b + j \in Pages /\ b + j # b
    BY <1>1, ExtentFacts
  <2> QED
    BY <1>2, <2>1 DEF IndInv, TypeOK
<1>5. BlockAt(b) = [size |-> held[b],
                    data |-> [j \in 1 .. DIV_ROUNDUP(held[b]) |-> mem[b + j]]]
  BY <1>1 DEF BlockAt
<1>6. BlockAt(b)' = [size |-> size,
                     data |-> [j \in 1 .. DIV_ROUNDUP(held[b]) |-> mem'[b + j]]]
  BY <1>2 DEF BlockAt, IndInv, TypeOK
<1>7. BlockAt(b)' = [BlockAt(b) EXCEPT !.size = size]
  <2> DEFINE d == [j \in 1 .. DIV_ROUNDUP(held[b]) |-> mem[b + j]]
  <2>1. d = [j \in 1 .. DIV_ROUNDUP(held[b]) |-> mem'[b + j]]
    BY <1>4
  <2>2. BlockAt(b) = [size |-> held[b], data |-> d]
        /\ BlockAt(b)' = [size |-> size, data |-> d]
    BY <1>5, <1>6, <2>1
  <2> HIDE DEF d
  <2> QED
    BY <2>2
<1>8. BlockAt(b).size = held[b] /\ held[b] # -1
  BY <1>1, <1>5 DEF None
<1>9. Abs' = [Abs EXCEPT ![b].size = size]
  BY <1>3, <1>7 DEF Abs
<1>10. H!PageCount(size) = H!PageCount(held[b])
  BY <1>1, <1>2, Roundup
<1> QED
  BY <1>8, <1>9, <1>10 DEF H!KreallocInPlace, H!Live, Abs

\* krealloc to another place is Heap's, or fails.
LEMMA MovesRefines ==
    ASSUME IndInv, NEW b \in Pages, NEW size \in Sizes, KreallocMoves(b, size)
    PROVE  Abs' = Abs \/ \E c \in Pages : H!KreallocMoves(b, c, size)
<1> DEFINE n == DIV_ROUNDUP(size) + 1
           r == PmmAlloc(bitmap, last_used_index, n, NPages)
<1>1. Gives(r, bitmap, n)
  BY AllocFacts
<1>0. PICK c \in Pages : c = r.page
  BY <1>1 DEF Gives
<1>a. PICK k \in Nat : k = DIV_ROUNDUP(Copied(b, size))
  BY CopyFits DEF KreallocMoves, Held
<1>2. /\ b \in Held /\ held[b] # None
      /\ c = 0 => UNCHANGED <<mem, held>>
      /\ c # 0 => /\ mem' = [p \in Pages |-> IF p \in Run(c + 1, k) THEN mem[b + p - c]
                                             ELSE Allocated(size, c)[p]]
                  /\ held' = [held EXCEPT ![b] = None, ![c] = size]
  BY <1>0, <1>a DEF KreallocMoves, Held
<1>3. CASE c = 0
  BY <1>2, <1>3 DEF Abs, BlockAt
<1>4. CASE c # 0
  <2>0. Run(c, n) \subseteq Pages \ bitmap
    BY <1>0, <1>1, <1>4 DEF Gives
  <2>1. /\ DIV_ROUNDUP(size) \in Nat /\ DIV_ROUNDUP(size) = H!PageCount(size)
        /\ c \in Int /\ b \in Int /\ size # None /\ c \in Run(c, n)
    BY Roundup DEF Pages, Sizes, None, Run
  <2>2. c \notin Held /\ held[c] = None /\ b # c
    BY <1>2, <2>0, <2>1, ExtentFacts DEF Held
  <2>3. /\ held[b] \in Sizes /\ DIV_ROUNDUP(held[b]) = H!PageCount(held[b])
        /\ DIV_ROUNDUP(held[b]) \in Nat
        /\ k \in {DIV_ROUNDUP(size), DIV_ROUNDUP(held[b])}
        /\ k <= DIV_ROUNDUP(size) /\ k <= DIV_ROUNDUP(held[b])
    BY <1>2, <1>a, ExtentFacts, Roundup, CopyFits
  <2>4. /\ held'[c] = size /\ held'[b] = None
        /\ \A x \in Pages : x # c /\ x # b => held'[x] = held[x]
    BY <1>2, <1>4, <2>2 DEF IndInv, TypeOK
  <2>5. \A p \in Pages : p \notin Run(c, n) => mem'[p] = mem[p]
    <3>1. ASSUME NEW p \in Pages, p \notin Run(c, n)
          PROVE  p \notin Run(c + 1, k) /\ p # c
      BY <2>1, <2>3, <3>1 DEF Run
    <3> QED
      BY <1>2, <1>4, <3>1 DEF Allocated, Zeroed
  <2>6. ASSUME NEW x \in Pages, x # c, x # b PROVE BlockAt(x)' = BlockAt(x)
    <3>1. x \in Held => \A p \in Extent(x) : mem'[p] = mem[p]
      BY <2>0, <2>5, FreeRunApart, ExtentFacts
    <3> QED
      BY <2>4, <2>6, <3>1, SameBlock
  <2>7. BlockAt(b)' = H!NoBlock
    BY <2>4 DEF BlockAt, None, H!NoBlock, H!ZeroPages
  <2>8. ASSUME NEW i \in 1 .. DIV_ROUNDUP(size)
        PROVE  mem'[c + i] = IF i <= DIV_ROUNDUP(held[b]) THEN mem[b + i] ELSE Page(0, 0)
    <3>1. c + i \in Run(c, n) /\ c + i # c /\ b + (c + i) - c = b + i
      BY <2>1, <2>8 DEF Run
    <3>2. c + i \in Pages
      BY <2>0, <3>1
    <3>3. c + i \in Run(c + 1, k) <=> i <= k
      BY <2>1, <2>8 DEF Run
    <3>4. i <= k <=> i <= DIV_ROUNDUP(held[b])
      BY <2>1, <2>3, <2>8
    <3>5. CASE i <= k
      BY <1>2, <1>4, <3>1, <3>2, <3>3, <3>4, <3>5
    <3>6. CASE ~(i <= k)
      <4>1. mem'[c + i] = Allocated(size, c)[c + i]
        BY <1>2, <1>4, <3>2, <3>3, <3>6
      <4>2. Allocated(size, c)[c + i] = Page(0, 0)
        BY <3>1, <3>2 DEF Allocated, Zeroed
      <4> QED
        BY <3>4, <3>6, <4>1, <4>2
    <3> QED
      BY <3>5, <3>6
  <2> DEFINE d == [i \in 1 .. DIV_ROUNDUP(held[b]) |-> mem[b + i]]
             e == [i \in 1 .. H!PageCount(size) |->
                      IF i <= H!PageCount(held[b]) THEN d[i] ELSE H!Page(0, 0)]
             blk == [size |-> size, data |-> e]
  <2>9. BlockAt(b) = [size |-> held[b], data |-> d]
    BY <1>2 DEF BlockAt
  <2>10. e = [i \in 1 .. DIV_ROUNDUP(size) |-> mem'[c + i]]
    <3>1. ASSUME NEW i \in 1 .. DIV_ROUNDUP(size)
          PROVE  e[i] = mem'[c + i]
      <4>1. e[i] = IF i <= DIV_ROUNDUP(held[b]) THEN d[i] ELSE Page(0, 0)
        BY <2>1, <2>3 DEF Page, H!Page
      <4>2. i <= DIV_ROUNDUP(held[b]) => d[i] = mem[b + i]
        BY <2>1, <2>3
      <4> QED
        BY <4>1, <4>2, <2>8
    <3>2. DOMAIN e = 1 .. DIV_ROUNDUP(size)
      BY <2>1
    <3> QED
      BY <3>1, <3>2
  <2>11. BlockAt(c)' = [size |-> size,
                        data |-> [i \in 1 .. DIV_ROUNDUP(size) |-> mem'[c + i]]]
    BY <2>1, <2>4 DEF BlockAt
  <2>12. BlockAt(c)' = blk
    BY <2>10, <2>11
  <2> HIDE DEF d, e
  <2>13. BlockAt(c).size = -1 /\ BlockAt(b).size = held[b] /\ held[b] # -1
         /\ BlockAt(b).data = d
    BY <1>2, <2>2, <2>9 DEF BlockAt, None
  <2> HIDE DEF blk
  <2>14. Abs' = [Abs EXCEPT ![b] = H!NoBlock, ![c] = blk]
    BY <2>2, <2>6, <2>7, <2>12 DEF Abs
  <2>15. blk = [size |-> size,
                data |-> [i \in 1 .. H!PageCount(size) |->
                    IF i <= H!PageCount(Abs[b].size) THEN Abs[b].data[i]
                                                     ELSE H!Page(0, 0)]]
    BY <2>13 DEF blk, e, Abs
  <2>16. Abs[b].size # -1 /\ Abs[c].size = -1
    BY <2>13 DEF Abs
  <2> QED
    BY <2>14, <2>15, <2>16 DEF H!KreallocMoves, H!Live, Abs
<1> QED
  BY <1>3, <1>4

\* The allocator implements Heap: blocks belong to their owners alone and
\* keep their contents through every sequence of allocations, resizings and
\* frees, for every amount of memory.
THEOREM PmmImplementsHeap == Spec => ImplementsHeap
<1>1. Init => H!Init
  BY NoBlockAt DEF Init, H!Init
<1>2. IndInv /\ [Next]_vars => [H!Next]_Abs
  <2> SUFFICES ASSUME IndInv, Next PROVE H!Next \/ Abs' = Abs
    BY DEF vars, Abs, BlockAt
  <2> USE DEF Sizes
  <2>1. ASSUME NEW size \in Sizes, Kalloc(size) PROVE H!Next \/ Abs' = Abs
    BY <2>1, KallocRefines DEF H!Next
  <2>2. ASSUME NEW b \in Pages, Kfree(b) PROVE H!Next
    BY <2>2, KfreeRefines DEF H!Next
  <2>3. ASSUME NEW b \in Pages, NEW size \in Sizes, KreallocInPlace(b, size)
        PROVE  H!Next
    BY <2>3, InPlaceRefines DEF H!Next
  <2>4. ASSUME NEW b \in Pages, NEW size \in Sizes, KreallocMoves(b, size)
        PROVE  H!Next \/ Abs' = Abs
    BY <2>4, MovesRefines DEF H!Next
  <2>5. ASSUME NEW b \in Pages, NEW i \in 1 .. DIV_ROUNDUP(MaxSize), NEW w \in Words,
               Store(b, i, w)
        PROVE  H!Next
    <3>1. DIV_ROUNDUP(MaxSize) = H!PageCount(MaxSize)
      BY PmmAssumption, Roundup
    <3> QED
      BY <2>5, <3>1, StoreRefines DEF H!Next
  <2> QED
    BY <2>1, <2>2, <2>3, <2>4, <2>5 DEF Next
<1> QED
  BY <1>1, <1>2, HeapInvariance, PTL DEF Spec, ImplementsHeap, H!Spec, Abs

\* The bitmap marks exactly the pages in use: none is handed out twice and none
\* is lost, whatever kalloc, krealloc and kfree did.
THEOREM BitmapRight == Spec => []BitmapExact
<1>1. IndInv => BitmapExact
  BY DEF IndInv
<1> QED
  BY <1>1, HeapInvariance, PTL

\* Blocks share no page, nor does the metadata page of one lie in another.
THEOREM BlocksApart == Spec => []BlocksDisjoint
<1>1. IndInv => BlocksDisjoint
  BY DEF IndInv
<1> QED
  BY <1>1, HeapInvariance, PTL

\* No store through a block reaches the metadata kfree and krealloc rely on.
THEOREM MetadataSafe == Spec => []MetadataIntact
<1>1. IndInv => MetadataIntact
  BY DEF IndInv
<1> QED
  BY <1>1, HeapInvariance, PTL
=============================================================================
