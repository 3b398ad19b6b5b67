--------------------------- MODULE PmmInitProofs ---------------------------
(***************************************************************************)
(* init_pmm frees what the loader calls usable, and all of it but the      *)
(* bitmap's own pages, for every memory map and every page and word size.  *)
(***************************************************************************)
EXTENDS PmmInit, WellFoundedInduction, SequenceTheorems, TLAPS

(***************************************************************************)
(* Arithmetic of pages.                                                    *)
(***************************************************************************)

\* What the assumption says of the numbers.
LEMMA Sizes ==
    /\ PageSize \in Nat /\ PageSize > 0 /\ ByteBits \in Nat /\ ByteBits > 0
    /\ MaxEntries \in Nat /\ MaxPages \in Nat /\ WordSize \in Nat /\ WordSize > 0
    /\ MaxPages <= WordSize /\ WordSize % PageSize = 0
  BY PmmInitAssumption

\* An address is on its page.
LEMMA OnPage ==
    ASSUME NEW a \in Nat, NEW b \in Nat, b > 0
    PROVE  /\ a \div b \in Nat
           /\ (a \div b) * b <= a /\ a < (a \div b) * b + b
<1>1. a = (a \div b) * b + (a % b) /\ a % b \in 0 .. b - 1 /\ a \div b \in Nat
  OBVIOUS
<1> QED
  BY <1>1

\* Multiples are ordered as what they are multiples of.
LEMMA Multiples ==
    ASSUME NEW x \in Nat, NEW y \in Nat, NEW b \in Nat, b > 0
    PROVE  /\ x * b \in Nat
           /\ x * b < y * b <=> x < y
           /\ x * b <= y * b <=> x <= y
           /\ x * b < y * b + b => x <= y
  OBVIOUS

\* A page has an address iff the address lies between two multiples.
LEMMA PageOf ==
    ASSUME NEW a \in Nat, NEW p \in Nat, NEW b \in Nat, b > 0,
           p * b <= a, a < p * b + b
    PROVE  a \div b = p
<1>1. PICK q \in Nat : q = a \div b
  BY OnPage
<1>2. q * b <= a /\ a < q * b + b
  BY <1>1, OnPage
<1>3. p * b < q * b + b /\ q * b < p * b + b /\ p * b \in Nat /\ q * b \in Nat
  BY <1>2, Multiples
<1> QED
  BY <1>1, <1>3, Multiples

\* A number of pages later.
LEMMA PagesLater ==
    ASSUME NEW a \in Nat, NEW q \in Nat, NEW b \in Nat, b > 0
    PROVE  (a + q * b) \div b = (a \div b) + q
<1>1. PICK d \in Nat : d = a \div b
  BY OnPage
<1>2. d * b <= a /\ a < d * b + b /\ d * b \in Nat /\ q * b \in Nat
  BY <1>1, OnPage, Multiples
<1>3. (d + q) * b = d * b + q * b
  OBVIOUS
<1>4. (d + q) * b <= a + q * b /\ a + q * b < (d + q) * b + b
  BY <1>2, <1>3
<1> QED
  BY <1>1, <1>2, <1>4, PageOf

\* The next turn of the inner loop: a page further, or, should the size of an
\* entry reach that of the address space, at its start again.
LEMMA NextTurn ==
    ASSUME NEW q \in Nat, NEW b \in Nat, b > 0, NEW w \in Nat, w % b = 0, q * b < w
    PROVE  (q * b + b) % w \in {(q + 1) * b, 0}
<1>1. PICK m \in Nat : m = w \div b
  BY OnPage
<1>2. w = m * b
  <2>1. w = (w \div b) * b + (w % b)
    OBVIOUS
  <2> QED
    BY <1>1, <2>1
<1>3. q + 1 <= m
  BY <1>2, Multiples
<1>4. (q + 1) * b <= m * b /\ (q + 1) * b = q * b + b /\ (q + 1) * b \in Nat
  BY <1>3, Multiples
<1>5. CASE (q + 1) * b = w
  BY <1>4, <1>5
<1>6. CASE (q + 1) * b < w
  BY <1>4, <1>6
<1> QED
  BY <1>2, <1>4, <1>5, <1>6

(***************************************************************************)
(* Minima and maxima.                                                      *)
(***************************************************************************)

\* A set of numbers that is not empty has a least.
LEMMA LeastNumber ==
    ASSUME NEW S, S \subseteq Nat, S # {}
    PROVE  \E x \in S : \A y \in S : x <= y
<1> DEFINE R == OpToRel(<, Nat)
<1>1. IsWellFoundedOn(R, Nat)
  BY NatLessThanWellFounded, Zenon
<1> HIDE DEF R
<1>2. PICK x \in S : \A y \in S : ~(<<y, x>> \in R)
  BY <1>1, WFMin
<1> USE DEF R
<1>3. \A y \in S : ~(y < x)
  BY <1>2 DEF OpToRel
<1> QED
  BY <1>3

LEMMA MinIn ==
    ASSUME NEW S, S \subseteq Nat, S # {}
    PROVE  Min(S) \in S
  BY LeastNumber DEF Min

\* A bounded one has a greatest.
LEMMA MaxIn ==
    ASSUME NEW S, S \subseteq Nat, S # {}, NEW u \in Nat, \A y \in S : y <= u
    PROVE  Max(S) \in S
<1> DEFINE B == {v \in Nat : \A y \in S : y <= v}
<1>1. PICK v \in B : \A w \in B : v <= w
  <2>1. B \subseteq Nat /\ u \in B
    OBVIOUS
  <2> HIDE DEF B
  <2> QED
    BY <2>1, LeastNumber
<1>2. v \in S
  <2> SUFFICES ASSUME v \notin S PROVE FALSE
    OBVIOUS
  <2>1. \A y \in S : y < v
    OBVIOUS
  <2>2. v - 1 \in B
    <3>1. PICK y \in S : y < v
      BY <2>1
    <3>2. v \in Nat /\ v - 1 \in Nat
      BY <3>1
    <3>3. \A z \in S : z <= v - 1
      BY <2>1, <3>2
    <3> QED
      BY <3>2, <3>3
  <2> QED
    BY <1>1, <2>2
<1>3. \E x \in S : \A y \in S : x >= y
  BY <1>2
<1> QED
  BY <1>3 DEF Max

(***************************************************************************)
(* The invariant.                                                          *)
(***************************************************************************)

EntryStates == [base : Nat, length : Nat, usable : BOOLEAN]

\* An entry of the loader begins at page f and ends before page e.
Spans(k, f, e) ==
    /\ f < e /\ e <= MaxPages
    /\ given[k].base = f * PageSize /\ End(given[k]) = e * PageSize

\* The map is the loader's, but for the entry that hosts the bitmap, which
\* begins that much later and ends where it did.
EntryInv(k) ==
    /\ \E f, e \in Nat : Spans(k, f, e)
    /\ memmap[k].usable = given[k].usable
    /\ End(memmap[k]) = End(given[k])
    /\ memmap[k].base # given[k].base =>
          /\ pc \in {"populate", "done"}
          /\ memmap[k].base = given[k].base + bitmap_size
          /\ bitmap = given[k].base % WordSize

MapInv ==
    /\ \E N \in Nat : DOMAIN given = 1 .. N
    /\ memmap \in [DOMAIN given -> EntryStates]
    /\ bitmap_size \in Nat
    /\ \A k \in DOMAIN given : EntryInv(k)

\* The page the third loop begins with.
FirstPage(k) == memmap[k].base \div PageSize

\* The loop is through with an entry: it is free from that page to its end.
Covered(k) ==
    \A p \in Pages : FirstPage(k) <= p /\ p * PageSize < End(memmap[k]) => bits[p] = "clear"

\* It has freed the first q pages of the entry it is at.
Reached(q) ==
    /\ j = q * PageSize
    /\ i \in DOMAIN given =>
          \A p \in Pages : FirstPage(i) <= p /\ p < FirstPage(i) + q => bits[p] = "clear"

LoopInv ==
    /\ pc \in {"size", "place", "populate", "done"}
    /\ bits \in [Pages -> {"set", "clear", "stale"}]
    /\ i \in Nat /\ i > 0
    /\ j \in Nat /\ j < WordSize
    /\ \E q \in Nat : Reached(q)
    /\ pc \in {"size", "place"} => i = 1 /\ j = 0
    /\ \A k \in DOMAIN given : k < i /\ given[k].usable => Covered(k)
    /\ pc = "done" => \A k \in DOMAIN given : k < i

InitInv == MapInv /\ LoopInv /\ OnlyUsableFreed

\* The maps of the loader are made of whole pages.
LEMMA InitKeeps == Init => InitInv
<1> SUFFICES ASSUME Init PROVE InitInv
  OBVIOUS
<1>1. PICK N \in 0 .. MaxEntries : memmap \in {m \in [1 .. N -> Entries] : IsMap(m)}
  BY DEF Init
<1>2. N \in Nat /\ memmap \in [1 .. N -> Entries] /\ IsMap(memmap)
  BY <1>1, Sizes
<1>3. memmap \in Seq(Entries) /\ Len(memmap) = N
  BY <1>2, SeqDef, LenProperties
<1>4. given = memmap /\ DOMAIN given = 1 .. N
  BY <1>2 DEF Init
<1>5. ASSUME NEW k \in DOMAIN given
      PROVE  memmap[k] \in EntryStates /\ EntryInv(k)
  <2>1. PICK f \in Pages, m \in 1 .. MaxPages, u \in BOOLEAN :
           memmap[k] = [base |-> f * PageSize, length |-> m * PageSize, usable |-> u]
    BY <1>2, <1>4 DEF Entries
  <2>2. f \in Nat /\ m \in Nat /\ m > 0
    BY Sizes DEF Pages
  <2>3. f * PageSize \in Nat /\ m * PageSize \in Nat
    BY <2>2, Sizes, Multiples
  <2>4. memmap[k] \in EntryStates
    BY <2>1, <2>3 DEF EntryStates
  <2>5. End(memmap[k]) = f * PageSize + m * PageSize
    BY <2>1 DEF End
  <2>6. f * PageSize + m * PageSize = (f + m) * PageSize
    BY <2>2, Sizes
  <2>7. End(memmap[k]) <= MaxPages * PageSize
    BY <1>2, <1>3, <1>4 DEF IsMap
  <2>8. f + m <= MaxPages
    BY <2>2, <2>5, <2>6, <2>7, Sizes, Multiples
  <2>9. Spans(k, f, f + m) /\ f + m \in Nat
    BY <1>4, <2>1, <2>2, <2>5, <2>6, <2>8 DEF Spans
  <2> QED
    BY <1>4, <2>2, <2>4, <2>9 DEF EntryInv
<1>6. MapInv
  <2>1. bitmap_size \in Nat
    BY DEF Init
  <2>2. memmap \in [DOMAIN given -> EntryStates]
    BY <1>2, <1>4, <1>5
  <2> QED
    BY <1>2, <1>4, <1>5, <2>1, <2>2 DEF MapInv
<1>7. LoopInv
  <2>1. i = 1 /\ j = 0 /\ pc = "size" /\ bits = [p \in Pages |-> "stale"]
    BY DEF Init
  <2>2. Reached(0)
    <3>1. 0 = 0 * PageSize
      BY Sizes
    <3>2. \A p \in Pages : ~(FirstPage(i) <= p /\ p < FirstPage(i) + 0) \/ i \notin DOMAIN given
      <4> SUFFICES ASSUME NEW p \in Pages, i \in DOMAIN given
                   PROVE  ~(FirstPage(i) <= p /\ p < FirstPage(i) + 0)
        OBVIOUS
      <4>1. memmap[i].base \in Nat
        BY <1>5 DEF EntryStates
      <4>2. FirstPage(i) \in Nat /\ p \in Nat
        BY <4>1, Sizes, OnPage DEF FirstPage, Pages
      <4> QED
        BY <4>2
    <3> QED
      BY <2>1, <3>1, <3>2 DEF Reached
  <2>3. \A k \in DOMAIN given : ~(k < i)
    BY <1>4, <2>1
  <2> QED
    BY <2>1, <2>2, <2>3, Sizes DEF LoopInv
<1>8. OnlyUsableFreed
  BY DEF Init, OnlyUsableFreed
<1> QED
  BY <1>6, <1>7, <1>8 DEF InitInv

\* At the start of an entry the loop has freed none of its pages.
LEMMA StartsAnew ==
    ASSUME memmap' \in [DOMAIN given' -> EntryStates], j' = 0
    PROVE  Reached(0)'
<1>1. 0 = 0 * PageSize
  BY Sizes
<1>2. ASSUME i' \in DOMAIN given', NEW p \in Pages
      PROVE  ~(FirstPage(i)' <= p /\ p < FirstPage(i)' + 0)
  <2>1. memmap'[i'].base \in Nat
    BY <1>2 DEF EntryStates
  <2>2. FirstPage(i)' \in Nat /\ p \in Nat
    BY <2>1, Sizes, OnPage DEF FirstPage, Pages
  <2> QED
    BY <2>2
<1> QED
  BY <1>1, <1>2 DEF Reached

\* The first loop only sizes the bitmap.
LEMMA SizeKeeps ==
    ASSUME InitInv, Size
    PROVE  InitInv'
<1>0. /\ pc = "size" /\ pc' = "place" /\ UNCHANGED <<memmap, bitmap, bits, i, j, given>>
      /\ bitmap_size' = DIV_ROUNDUP(highest_page') \div ByteBits
  BY DEF Size
<1>1. highest_page' \in Nat
  <2> DEFINE S == {0} \cup {End(memmap[k]) % WordSize :
                          k \in {k \in DOMAIN memmap : memmap[k].usable}}
  <2>1. ASSUME NEW k \in DOMAIN memmap PROVE End(memmap[k]) % WordSize \in 0 .. WordSize - 1
    <3>1. memmap[k].base \in Nat /\ memmap[k].length \in Nat
      BY DEF InitInv, MapInv, EntryStates
    <3> QED
      BY <3>1, Sizes DEF End
  <2>2. S \subseteq Nat /\ S # {} /\ \A y \in S : y <= WordSize
    BY <2>1, Sizes
  <2>3. highest_page' = Max(S)
    BY DEF Size
  <2> HIDE DEF S
  <2> QED
    BY <2>2, <2>3, MaxIn, Sizes
<1>2. bitmap_size' \in Nat
  <2>1. PICK a \in Nat : a = highest_page' + PageSize - 1
    <3>1. ASSUME NEW h \in Nat PROVE h + PageSize - 1 \in Nat
      BY Sizes
    <3> QED
      BY <1>1, <3>1, Zenon
  <2>2. a % WordSize \in Nat
    BY Sizes
  <2>3. DIV_ROUNDUP(highest_page') \in Nat
    BY <2>1, <2>2, Sizes, OnPage DEF DIV_ROUNDUP
  <2> QED
    BY <1>0, <2>3, Sizes, OnPage
<1>3. MapInv'
  <2>1. ASSUME NEW k \in DOMAIN given PROVE EntryInv(k)'
    BY <1>0 DEF InitInv, MapInv, EntryInv, Spans
  <2> QED
    BY <1>0, <1>2, <2>1 DEF InitInv, MapInv
<1>4. LoopInv' /\ OnlyUsableFreed'
  BY <1>0 DEF InitInv, LoopInv, Reached, Covered, FirstPage, OnlyUsableFreed, UsablePages
<1> QED
  BY <1>3, <1>4 DEF InitInv

\* An entry that is cut ends where it did.
LEMMA CutEntry ==
    ASSUME NEW e \in EntryStates, bitmap_size \in Nat, e.length >= bitmap_size
    PROVE  /\ Cut(e) \in EntryStates
           /\ Cut(e).base = e.base + bitmap_size /\ Cut(e).usable = e.usable
           /\ End(Cut(e)) = End(e)
<1>1. /\ DOMAIN e = {"base", "length", "usable"}
      /\ e.base \in Nat /\ e.length \in Nat /\ e.usable \in BOOLEAN
  BY DEF EntryStates
<1>2. /\ Cut(e).base = e.base + bitmap_size /\ Cut(e).length = e.length - bitmap_size
      /\ Cut(e).usable = e.usable
  BY DEF Cut, EntryStates
<1>3. Cut(e) \in EntryStates
  <2>1. PICK b \in Nat, l \in Nat : b = e.base + bitmap_size /\ l = e.length - bitmap_size
    BY <1>1
  <2>2. Cut(e) = [e EXCEPT !.base = b, !.length = l]
    BY <2>1 DEF Cut
  <2> QED
    BY <2>2 DEF EntryStates
<1>4. End(Cut(e)) = End(e)
  BY <1>1, <1>2 DEF End
<1> QED
  BY <1>2, <1>3, <1>4

\* The second takes the bitmap's bytes from the start of one entry.
LEMMA PlaceKeeps ==
    ASSUME InitInv, Place
    PROVE  InitInv'
<1>0. /\ pc = "place" /\ pc' = "populate"
      /\ UNCHANGED <<highest_page, bitmap_size, i, j, given>>
      /\ bitmap_size \in Nat /\ i = 1 /\ j = 0
      /\ memmap \in [DOMAIN given -> EntryStates]
      /\ bits \in [Pages -> {"set", "clear", "stale"}]
  BY DEF Place, InitInv, MapInv, LoopInv
<1>1. PICK N \in Nat : DOMAIN given = 1 .. N
  BY DEF InitInv, MapInv
<1>2. ASSUME NEW k \in DOMAIN given
      PROVE  EntryInv(k) /\ memmap[k].base = given[k].base
  BY <1>0 DEF InitInv, MapInv, EntryInv
<1>3. /\ memmap' \in [DOMAIN given -> EntryStates]
      /\ \A k \in DOMAIN given : EntryInv(k)'
      /\ bits' \in [Pages -> {"set", "clear", "stale"}]
      /\ \A p \in Pages : bits'[p] = "clear" => bits[p] = "clear"
  <2>1. CASE Hosts = {}
    BY <1>0, <1>2, <2>1 DEF Place, EntryInv, Spans
  <2>2. CASE Hosts # {}
    <3>1. PICK h : h = Min(Hosts)
      OBVIOUS
    <3>2. Hosts \subseteq Nat
      BY <1>0, <1>1 DEF Hosts
    <3>3. h \in Hosts
      BY <2>2, <3>1, <3>2, MinIn
    <3>4. h \in DOMAIN given /\ memmap[h].length >= bitmap_size
      BY <1>0, <3>3 DEF Hosts
    <3>5. /\ bitmap' = memmap[h].base % WordSize
          /\ bits' = [p \in Pages |-> IF p < bitmap_size * ByteBits THEN "set" ELSE bits[p]]
          /\ memmap' = [memmap EXCEPT ![h] = Cut(@)]
      BY <2>2, <3>1 DEF Place
    <3>6. memmap[h] \in EntryStates
      BY <1>0, <3>4
    <3>7. /\ Cut(memmap[h]) \in EntryStates
          /\ Cut(memmap[h]).base = memmap[h].base + bitmap_size
          /\ Cut(memmap[h]).usable = memmap[h].usable
          /\ End(Cut(memmap[h])) = End(memmap[h])
      BY <1>0, <3>4, <3>6, CutEntry
    <3>8. /\ memmap' \in [DOMAIN given -> EntryStates]
           /\ memmap'[h] = Cut(memmap[h])
           /\ \A k \in DOMAIN given : k # h => memmap'[k] = memmap[k]
      BY <1>0, <3>4, <3>5, <3>7
    <3>9. ASSUME NEW k \in DOMAIN given PROVE EntryInv(k)'
      <4>1. CASE k = h
        <5>1. memmap'[k] = Cut(memmap[k]) /\ bitmap' = given[k].base % WordSize
          BY <1>2, <3>5, <3>8, <4>1
        <5>2. /\ memmap'[k].base = given[k].base + bitmap_size
              /\ memmap'[k].usable = given[k].usable
              /\ End(memmap[k])' = End(given[k])
          BY <1>2, <3>7, <4>1, <5>1 DEF EntryInv, End
        <5> QED
          BY <1>0, <1>2, <5>1, <5>2 DEF EntryInv, Spans, End
      <4>2. CASE k # h
        BY <1>0, <1>2, <3>8, <4>2 DEF EntryInv, Spans, End
      <4> QED
        BY <4>1, <4>2
    <3>10. /\ bits' \in [Pages -> {"set", "clear", "stale"}]
           /\ \A p \in Pages : bits'[p] = "clear" => bits[p] = "clear"
      BY <1>0, <3>5
    <3> QED
      BY <3>8, <3>9, <3>10
  <2> QED
    BY <2>1, <2>2
<1>4. MapInv'
  BY <1>0, <1>3 DEF InitInv, MapInv
<1>5. LoopInv'
  <2>1. Reached(0)'
    BY <1>0, <1>3, StartsAnew
  <2>2. \A k \in DOMAIN given : ~(k < i)
    BY <1>0, <1>1
  <2> QED
    BY <1>0, <1>3, <2>1, <2>2, Sizes DEF LoopInv
<1>6. OnlyUsableFreed'
  BY <1>0, <1>3 DEF InitInv, OnlyUsableFreed, UsablePages
<1> QED
  BY <1>4, <1>5, <1>6 DEF InitInv

\* Which page a turn of the inner loop frees: the one that follows those it
\* has freed, a page of the entry as the loader gave it.
LEMMA UnsetFacts ==
    ASSUME InitInv, BitmapUnset, NEW q \in Nat, Reached(q)
    PROVE  \E p \in Pages :
              /\ p = FirstPage(i) + q /\ p \in UsablePages
              /\ bits' = [bits EXCEPT ![p] = "clear"]
<1>0. i \in DOMAIN given /\ memmap[i] \in EntryStates /\ EntryInv(i) /\ bitmap_size \in Nat
  BY DEF InitInv, MapInv, BitmapUnset
<1>1. PICK f \in Nat, e \in Nat : Spans(i, f, e)
  BY <1>0 DEF EntryInv
<1>2. PICK b \in Nat, l \in Nat : b = memmap[i].base /\ l = memmap[i].length
  BY <1>0 DEF EntryStates
<1>3. /\ given[i].usable /\ j < l /\ j = q * PageSize /\ j \in Nat
      /\ b + l = e * PageSize /\ e <= MaxPages /\ f < e
      /\ given[i].base = f * PageSize /\ End(given[i]) = e * PageSize
  BY <1>0, <1>1, <1>2 DEF BitmapUnset, ToUnset, EntryInv, Spans, Reached, End, InitInv, LoopInv
<1>4. f * PageSize \in Nat /\ e * PageSize \in Nat /\ f * PageSize <= b
  BY <1>0, <1>1, <1>2, <1>3, Sizes, Multiples DEF EntryInv
<1>5. PICK a \in Nat : a = b + j
  BY <1>3
<1>6. a < e * PageSize /\ f * PageSize <= a
  BY <1>3, <1>4, <1>5
<1>7. PICK p \in Nat : p = a \div PageSize
  BY Sizes, OnPage
<1>8. p * PageSize <= a /\ a < p * PageSize + PageSize /\ p * PageSize \in Nat
  BY <1>7, Sizes, OnPage, Multiples
<1>9. p < e /\ f <= p
  <2>1. p * PageSize < e * PageSize /\ f * PageSize < p * PageSize + PageSize
    BY <1>4, <1>6, <1>8, Sizes
  <2> QED
    BY <2>1, Sizes, Multiples
<1>10. p \in Pages /\ p < WordSize
  BY <1>3, <1>9, Sizes DEF Pages
<1>11. p % WordSize = p
  BY <1>10, Sizes
<1>12. p = FirstPage(i) + q
  <2>1. (b + q * PageSize) \div PageSize = (b \div PageSize) + q
    BY Sizes, PagesLater, Zenon
  <2> QED
    BY <1>2, <1>3, <1>5, <1>7, <2>1 DEF FirstPage
<1>13. p \in UsablePages
  <2>1. p * PageSize \in given[i].base .. End(given[i]) - 1
    <3>1. f * PageSize <= p * PageSize
      BY <1>9, Sizes, Multiples
    <3>2. p * PageSize < e * PageSize
      BY <1>9, Sizes, Multiples
    <3> QED
      BY <1>3, <1>4, <1>8, <3>1, <3>2
  <2> QED
    BY <1>0, <1>3, <1>10, <2>1 DEF UsablePages
<1>14. bits' = [bits EXCEPT ![p] = "clear"]
  BY <1>2, <1>5, <1>7, <1>11 DEF BitmapUnset
<1> QED
  BY <1>10, <1>12, <1>13, <1>14

\* A turn of the inner loop.
LEMMA BitmapUnsetKeeps ==
    ASSUME InitInv, BitmapUnset
    PROVE  InitInv'
<1>0. /\ pc = "populate" /\ i \in DOMAIN given /\ j' = NextJ
      /\ UNCHANGED <<memmap, highest_page, bitmap_size, bitmap, pc, i, given>>
      /\ bits \in [Pages -> {"set", "clear", "stale"}]
      /\ memmap \in [DOMAIN given -> EntryStates] /\ j \in Nat /\ j < WordSize
  BY DEF InitInv, LoopInv, MapInv, BitmapUnset
<1>1. PICK q \in Nat : Reached(q)
  BY DEF InitInv, LoopInv
<1>2. PICK p \in Pages :
              /\ p = FirstPage(i) + q /\ p \in UsablePages
              /\ bits' = [bits EXCEPT ![p] = "clear"]
  BY <1>1, UnsetFacts
<1>3. /\ bits' \in [Pages -> {"set", "clear", "stale"}]
      /\ \A x \in Pages : bits'[x] = "clear" <=> (bits[x] = "clear" \/ x = p)
  BY <1>0, <1>2
<1>4. MapInv'
  <2>1. \A k \in DOMAIN given : EntryInv(k)'
    BY <1>0 DEF InitInv, MapInv, EntryInv, Spans
  <2> QED
    BY <1>0, <2>1 DEF InitInv, MapInv
<1>5. \E r \in Nat : Reached(r)'
  <2>1. q * PageSize = j /\ q * PageSize < WordSize
    BY <1>0, <1>1 DEF Reached
  <2>2. j' \in {(q + 1) * PageSize, 0}
    <3>1. (q * PageSize + PageSize) % WordSize \in {(q + 1) * PageSize, 0}
      BY <2>1, Sizes, NextTurn
    <3> QED
      BY <1>0, <2>1, <3>1 DEF NextJ
  <2>3. CASE j' = 0
    BY <1>0, <2>3, StartsAnew
  <2>4. CASE j' = (q + 1) * PageSize
    <3>1. FirstPage(i) \in Nat
      <4>1. memmap[i].base \in Nat
        BY <1>0 DEF EntryStates
      <4> QED
        BY <4>1, Sizes, OnPage DEF FirstPage
    <3>2. ASSUME NEW x \in Pages, FirstPage(i) <= x, x < FirstPage(i) + (q + 1)
          PROVE  bits'[x] = "clear"
      <4>1. x \in Nat
        BY Sizes DEF Pages
      <4>2. x < FirstPage(i) + q \/ x = FirstPage(i) + q
        BY <3>1, <3>2, <4>1
      <4> QED
        BY <1>0, <1>1, <1>2, <1>3, <3>2, <4>2 DEF Reached
    <3>3. Reached(q + 1)'
      BY <1>0, <2>4, <3>2 DEF Reached, FirstPage
    <3> QED
      BY <3>3
  <2> QED
    BY <2>2, <2>3, <2>4
<1>6. \A k \in DOMAIN given : Covered(k) => Covered(k)'
  BY <1>0, <1>3 DEF Covered, FirstPage, End
<1>7. j' \in Nat /\ j' < WordSize
  BY <1>0, Sizes DEF NextJ
<1>8. LoopInv'
  BY <1>0, <1>3, <1>5, <1>6, <1>7 DEF InitInv, LoopInv
<1>9. OnlyUsableFreed'
  BY <1>0, <1>2, <1>3 DEF InitInv, OnlyUsableFreed, UsablePages
<1> QED
  BY <1>4, <1>8, <1>9 DEF InitInv

\* When the inner loop ends, the entry is free to its end, the page that a
\* bitmap of less than a page cut included.
LEMMA EntryDone ==
    ASSUME InitInv, i \in DOMAIN given, memmap[i].usable, ~ToUnset
    PROVE  Covered(i)
<1>0. memmap[i] \in EntryStates /\ EntryInv(i)
  BY DEF InitInv, MapInv
<1>1. PICK f \in Nat, e \in Nat : Spans(i, f, e)
  BY <1>0 DEF EntryInv
<1>2. PICK b \in Nat, l \in Nat : b = memmap[i].base /\ l = memmap[i].length
  BY <1>0 DEF EntryStates
<1>3. PICK q \in Nat : Reached(q)
  BY DEF InitInv, LoopInv
<1>4. /\ ~(j < l) /\ j = q * PageSize /\ j \in Nat
      /\ b + l = e * PageSize /\ End(memmap[i]) = e * PageSize
  BY <1>0, <1>1, <1>2, <1>3 DEF ToUnset, EntryInv, Spans, Reached, End, InitInv, LoopInv
<1>5. PICK d \in Nat : d = FirstPage(i)
  BY <1>2, Sizes, OnPage DEF FirstPage
<1>6. (b + q * PageSize) \div PageSize = d + q
  <2>1. (b + q * PageSize) \div PageSize = (b \div PageSize) + q
    BY Sizes, PagesLater, Zenon
  <2> QED
    BY <1>2, <1>5, <2>1 DEF FirstPage
<1>7. e <= d + q
  <2>1. PICK a \in Nat : a = b + q * PageSize
    BY <1>4
  <2>2. a < (d + q) * PageSize + PageSize
    BY <1>6, <2>1, Sizes, OnPage
  <2>3. e * PageSize <= a /\ e * PageSize \in Nat /\ (d + q) * PageSize \in Nat
    BY <1>4, <2>1, Sizes, Multiples
  <2>4. e * PageSize < (d + q) * PageSize + PageSize
    BY <2>2, <2>3, Sizes
  <2> QED
    BY <2>4, Sizes, Multiples
<1>8. ASSUME NEW p \in Pages, d <= p, p * PageSize < e * PageSize PROVE bits[p] = "clear"
  <2>1. p \in Nat /\ p < e
    BY <1>8, Sizes, Multiples DEF Pages
  <2>2. p < d + q
    BY <1>7, <2>1
  <2> QED
    BY <1>3, <1>5, <1>8, <2>2 DEF Reached
<1> QED
  BY <1>4, <1>5, <1>8 DEF Covered

\* On to the next entry.
LEMMA NextEntryKeeps ==
    ASSUME InitInv, NextEntry
    PROVE  InitInv'
<1>0. /\ pc = "populate" /\ UNCHANGED <<memmap, highest_page, bitmap_size, bitmap, bits, given>>
      /\ DOMAIN memmap = DOMAIN given /\ i \in Nat /\ i > 0
      /\ memmap \in [DOMAIN given -> EntryStates]
      /\ pc' \in {"populate", "done"}
  BY DEF NextEntry, InitInv, MapInv, LoopInv
<1>1. PICK N \in Nat : DOMAIN given = 1 .. N
  BY DEF InitInv, MapInv
<1>2. MapInv'
  <2>1. \A k \in DOMAIN given : EntryInv(k)'
    BY <1>0 DEF InitInv, MapInv, EntryInv, Spans
  <2> QED
    BY <1>0, <2>1 DEF InitInv, MapInv
<1>3. \A k \in DOMAIN given : Covered(k) => Covered(k)'
  BY <1>0 DEF Covered, FirstPage, End
<1>4. LoopInv'
  <2>1. CASE i \in DOMAIN given
    <3>1. i' = i + 1 /\ j' = 0 /\ pc' = pc /\ ~ToUnset
      BY <1>0, <2>1 DEF NextEntry
    <3>2. Reached(0)'
      BY <1>0, <3>1, StartsAnew
    <3>3. given[i].usable => Covered(i)
      BY <1>0, <2>1, <3>1, EntryDone DEF InitInv, MapInv, EntryInv
    <3>4. ASSUME NEW k \in DOMAIN given, k < i', given[k].usable PROVE Covered(k)'
      <4>1. k < i \/ k = i
        BY <1>0, <1>1, <3>1, <3>4
      <4> QED
        BY <1>3, <3>3, <3>4, <4>1 DEF InitInv, LoopInv
    <3> QED
      BY <1>0, <3>1, <3>2, <3>4, Sizes DEF InitInv, LoopInv
  <2>2. CASE i \notin DOMAIN given
    <3>1. pc' = "done" /\ UNCHANGED <<i, j>>
      BY <1>0, <2>2 DEF NextEntry
    <3>2. \A k \in DOMAIN given : k < i
      BY <1>0, <1>1, <2>2
    <3>3. \E q \in Nat : Reached(q)'
      BY <1>0, <3>1 DEF InitInv, LoopInv, Reached, FirstPage
    <3> QED
      BY <1>0, <1>3, <3>1, <3>2, <3>3 DEF InitInv, LoopInv
  <2> QED
    BY <2>1, <2>2
<1>5. OnlyUsableFreed'
  BY <1>0 DEF InitInv, OnlyUsableFreed, UsablePages
<1> QED
  BY <1>2, <1>4, <1>5 DEF InitInv

\* The invariant holds throughout init_pmm.
THEOREM InitInvariance == Spec => []InitInv
<1>1. InitInv /\ [Next]_vars => InitInv'
  <2> SUFFICES ASSUME InitInv, [Next]_vars PROVE InitInv'
    OBVIOUS
  <2>1. CASE UNCHANGED vars
    <3>1. UNCHANGED <<memmap, bitmap_size, bitmap, bits, pc, i, j, given>>
      BY <2>1 DEF vars
    <3>2. MapInv'
      BY <3>1 DEF InitInv, MapInv, EntryInv, Spans
    <3>3. LoopInv' /\ OnlyUsableFreed'
      BY <3>1 DEF InitInv, LoopInv, Reached, Covered, FirstPage, End, OnlyUsableFreed, UsablePages
    <3> QED
      BY <3>2, <3>3 DEF InitInv
  <2> QED
    BY <2>1, SizeKeeps, PlaceKeeps, BitmapUnsetKeeps, NextEntryKeeps DEF Next
<1> QED
  BY <1>1, InitKeeps, PTL DEF Spec

\* init_pmm frees no page that the loader did not call usable, for every map
\* of whole pages, whatever the bitmap is carved out of.
THEOREM FreesOnlyUsable == Spec => []OnlyUsableFreed
<1>1. InitInv => OnlyUsableFreed
  BY DEF InitInv
<1> QED
  BY <1>1, InitInvariance, PTL

\* When init_pmm is done, every usable page is free but those that the bitmap
\* covers whole, if addresses fit a word.
THEOREM LosesNothing ==
    ASSUME MaxPages * PageSize <= WordSize
    PROVE  Spec => []NothingLost
<1>1. InitInv => NothingLost
  <2> SUFFICES ASSUME InitInv, pc = "done", NEW p \in UsablePages, bits[p] # "clear"
               PROVE  p \in BitmapPages
    BY DEF NothingLost
  <2>0. p \in Pages /\ p \in Nat
    BY Sizes DEF UsablePages, Pages
  <2>1. PICK k \in DOMAIN given :
           given[k].usable /\ p * PageSize \in given[k].base .. End(given[k]) - 1
    BY DEF UsablePages
  <2>2. EntryInv(k) /\ memmap[k] \in EntryStates /\ Covered(k) /\ bitmap_size \in Nat
    BY <2>1 DEF InitInv, MapInv, LoopInv
  <2>3. PICK f \in Nat, e \in Nat : Spans(k, f, e)
    BY <2>2 DEF EntryInv
  <2>4. /\ given[k].base = f * PageSize /\ End(given[k]) = e * PageSize
        /\ End(memmap[k]) = e * PageSize /\ f < e /\ e <= MaxPages
    BY <2>2, <2>3 DEF Spans, EntryInv
  <2>5. /\ p * PageSize \in Nat /\ f * PageSize \in Nat /\ e * PageSize \in Nat
        /\ f * PageSize <= p * PageSize /\ p * PageSize < e * PageSize
    BY <2>0, <2>1, <2>4, Sizes, Multiples
  <2>6. f <= p /\ p < e
    BY <2>0, <2>5, Sizes, Multiples
  <2>7. PICK b \in Nat, z \in Nat : b = memmap[k].base /\ z = bitmap_size
    BY <2>2 DEF EntryStates
  <2>8. PICK d \in Nat : d = b \div PageSize
    BY Sizes, OnPage
  <2>9. p < d
    BY <2>0, <2>2, <2>4, <2>5, <2>7, <2>8 DEF Covered, FirstPage
  <2>10. b # f * PageSize
    <3> SUFFICES ASSUME b = f * PageSize PROVE FALSE
      OBVIOUS
    <3>1. d = f
      BY <2>8, Sizes, PageOf
    <3> QED
      BY <2>0, <2>6, <2>9, <3>1
  <2>11. b = f * PageSize + z /\ bitmap = (f * PageSize) % WordSize
    BY <2>2, <2>4, <2>7, <2>10 DEF EntryInv
  <2>12. bitmap = f * PageSize
    <3>1. e * PageSize <= MaxPages * PageSize
      BY <2>4, Sizes, Multiples
    <3>2. f * PageSize < WordSize
      <4>1. MaxPages * PageSize \in Nat
        BY Sizes, Multiples
      <4> QED
        BY <2>5, <3>1, <4>1, Sizes
    <3> QED
      BY <2>5, <2>11, <3>2, Sizes
  <2>13. p * PageSize < b
    <3>1. d * PageSize <= b /\ d * PageSize \in Nat
      BY <2>8, Sizes, OnPage, Multiples
    <3>2. p * PageSize < d * PageSize
      BY <2>0, <2>9, Sizes, Multiples
    <3> QED
      BY <2>5, <3>1, <3>2
  <2>14. p * PageSize \in bitmap .. bitmap + bitmap_size - 1
    BY <2>5, <2>7, <2>11, <2>12, <2>13
  <2>15. (p * PageSize) \div PageSize = p
    BY <2>0, <2>5, Sizes, PageOf
  <2> QED
    BY <2>14, <2>15 DEF BitmapPages
<1> QED
  BY <1>1, InitInvariance, PTL
=============================================================================
