--------------------------- MODULE PmmScanProofs ---------------------------
(***************************************************************************)
(* The loops of pmm_alloc arrive at the loop-free definition of NextFit    *)
(* for every number of pages and every state of the bitmap.                *)
(***************************************************************************)
EXTENDS PmmScan, TLAPS

\* Where the call of inner_alloc under way started.
Start == IF pc = "first" THEN l ELSE 0

\* The loop invariant: p counts the free pages just below last_used_index,
\* the page before them is not free or is before the start, and no run that
\* is long enough has been passed.
LoopInv ==
    pc \in {"first", "second"} =>
        /\ bitmap = before
        /\ page = 0
        /\ limit = (IF pc = "first" THEN NPages ELSE l)
        /\ last_used_index <= limit
        /\ p < count
        /\ last_used_index - p >= Start
        /\ \A i \in last_used_index - p .. last_used_index - 1 : i \notin bitmap
        /\ last_used_index - p = Start \/ last_used_index - p - 1 \in bitmap
        /\ \A e \in Start + count .. last_used_index : ~FreeRun(before, e, count)
        /\ pc = "second" => RunEnds(before, l, count, NPages) = {}

\* Page 0 is never free, so a run never starts there and is never taken for
\* the null pointer.
PageZeroUsed == 0 \in bitmap /\ 0 \in before

IndInv ==
    /\ TypeOK
    /\ PageZeroUsed
    /\ LoopInv
    /\ LoopIsNextFit
    /\ TakesOnlyFreePages

\* The first element of a run that ends at e is the lowest one if none ends
\* below it.
LEMMA LowestEnd ==
    ASSUME NEW S, S \subseteq Int, NEW e \in S, \A x \in S : e <= x
    PROVE  Lowest(S) = e
<1>1. Lowest(S) \in S /\ \A x \in S : Lowest(S) <= x
  BY DEF Lowest
<1>2. Lowest(S) \in Int /\ e \in Int /\ Lowest(S) <= e /\ e <= Lowest(S)
  BY <1>1
<1> HIDE DEF Lowest
<1> QED
  BY <1>2

\* A turn of the loop at a page that is not free.
LEMMA NotFreeKeeps == ASSUME IndInv, NotFree PROVE IndInv'
<1> USE PmmScanAssumption
<1>1. TypeOK' /\ PageZeroUsed'
  BY DEF IndInv, TypeOK, PageZeroUsed, NotFree
<1>2. Start' = Start /\ Start \in Nat
  BY DEF IndInv, TypeOK, NotFree, Start
<1>3. ASSUME NEW e \in Start + count .. last_used_index + 1
      PROVE  ~FreeRun(before, e, count)
  <2>1. CASE e = last_used_index + 1
    <3>1. last_used_index \in e - count .. e - 1 /\ last_used_index \in before
      BY <2>1 DEF IndInv, TypeOK, LoopInv, NotFree
    <3> QED
      BY <3>1 DEF FreeRun
  <2>2. CASE e # last_used_index + 1
    BY <1>2, <1>3, <2>2 DEF IndInv, TypeOK, LoopInv, NotFree
  <2> QED
    BY <2>1, <2>2
<1>4. LoopInv'
  BY <1>1, <1>2, <1>3 DEF IndInv, TypeOK, LoopInv, NotFree
<1>5. (LoopIsNextFit /\ TakesOnlyFreePages)'
  BY DEF NotFree, LoopIsNextFit, TakesOnlyFreePages
<1> QED
  BY <1>1, <1>4, <1>5 DEF IndInv

\* A turn of the loop at a free page that does not complete the run.
LEMMA OneMoreKeeps == ASSUME IndInv, OneMore PROVE IndInv'
<1> USE PmmScanAssumption
<1>1. TypeOK' /\ PageZeroUsed'
  BY DEF IndInv, TypeOK, PageZeroUsed, LoopInv, OneMore
<1>2. Start' = Start /\ Start \in Nat
  BY DEF IndInv, TypeOK, OneMore, Start
<1>3. ASSUME NEW e \in Start + count .. last_used_index + 1
      PROVE  ~FreeRun(before, e, count)
  <2>1. CASE e = last_used_index + 1
    <3>1. last_used_index - p > Start
      BY <1>2, <1>3, <2>1 DEF IndInv, TypeOK, LoopInv, OneMore
    <3>2. last_used_index - p - 1 \in before
      BY <3>1, <1>2 DEF IndInv, TypeOK, LoopInv, OneMore
    <3>3. last_used_index - p - 1 \in e - count .. e - 1
      BY <2>1 DEF IndInv, TypeOK, LoopInv, OneMore
    <3> QED
      BY <3>2, <3>3 DEF FreeRun
  <2>2. CASE e # last_used_index + 1
    BY <1>2, <1>3, <2>2 DEF IndInv, TypeOK, LoopInv, OneMore
  <2> QED
    BY <2>1, <2>2
<1>4. LoopInv'
  BY <1>1, <1>2, <1>3 DEF IndInv, TypeOK, LoopInv, OneMore
<1>5. (LoopIsNextFit /\ TakesOnlyFreePages)'
  BY DEF OneMore, LoopIsNextFit, TakesOnlyFreePages
<1> QED
  BY <1>1, <1>4, <1>5 DEF IndInv

\* The run is complete: it is the first one, and it does not start at page 0.
LEMMA FoundKeeps == ASSUME IndInv, Found PROVE IndInv'
<1> USE PmmScanAssumption
<1> DEFINE e == last_used_index + 1
           first == e - count
           ends == RunEnds(before, Start, count, limit)
<1>0. /\ last_used_index \in Nat /\ count \in Nat \ {0} /\ Start \in Nat
      /\ limit \in 0 .. NPages /\ p = count - 1 /\ e <= limit /\ bitmap = before
      /\ first >= Start /\ first + count = e /\ first \in Int /\ e \in Int
      /\ before \subseteq Pages
  BY DEF IndInv, TypeOK, LoopInv, Found, Start
<1>1. FreeRun(before, e, count)
  BY <1>0 DEF IndInv, LoopInv, FreeRun, Found
<1>2. first # 0
  BY <1>0, <1>1 DEF FreeRun, IndInv, PageZeroUsed
<1>3. e \in ends /\ \A x \in ends : e <= x
  BY <1>0, <1>1 DEF RunEnds, IndInv, LoopInv, Found
<1>4. Lowest(ends) = e
  <2>1. ends \subseteq Int
    BY DEF RunEnds
  <2> QED
    BY <1>3, <2>1, LowestEnd
<1>5. InnerAlloc(before, Start, count, limit)
        = [bitmap |-> before \cup Run(first, count), page |-> first, next |-> e]
  BY <1>3, <1>4 DEF InnerAlloc
<1>6. PmmAlloc(before, l, count, NPages)
        = [bitmap |-> before \cup Run(first, count), page |-> first, next |-> e]
  <2>1. CASE pc = "first"
    <3>1. Start = l /\ limit = NPages
      BY <2>1 DEF Start, IndInv, LoopInv
    <3> HIDE DEF first, e
    <3> QED
      BY <3>1, <1>2, <1>5 DEF PmmAlloc
  <2>2. CASE pc = "second"
    <3>1. RunEnds(before, l, count, NPages) = {}
      BY <2>2 DEF IndInv, LoopInv
    <3>2. /\ InnerAlloc(before, l, count, NPages).page = 0
          /\ InnerAlloc(before, l, count, NPages).bitmap = before
      BY <3>1 DEF InnerAlloc
    <3> QED
      BY <2>2, <3>2, <1>5 DEF PmmAlloc, Start, IndInv, LoopInv
  <2> QED
    BY <2>1, <2>2 DEF Found
<1>7. /\ bitmap' = before \cup Run(first, count) /\ page' = first
      /\ last_used_index' = e
      /\ UNCHANGED <<before, l, count, limit>> /\ pc' = "done"
  BY <1>0 DEF Found
<1>9. first \in 1 .. NPages - 1
  BY <1>0, <1>2
<1>10. TypeOK'
  <2>1. Run(first, count) \subseteq Pages
    BY <1>0, <1>9 DEF Run, Pages
  <2> QED
    BY <1>0, <1>7, <1>9, <2>1 DEF IndInv, TypeOK, Found
<1>11. LoopIsNextFit'
  BY <1>6, <1>7 DEF LoopIsNextFit
<1>12. TakesOnlyFreePages'
  <2>1. Run(first, count) \cap before = {}
    BY <1>0, <1>1 DEF FreeRun, Run
  <2> QED
    BY <1>2, <1>7, <2>1 DEF TakesOnlyFreePages
<1>13. PageZeroUsed'
  BY <1>7 DEF IndInv, PageZeroUsed
<1>14. LoopInv'
  BY <1>7 DEF LoopInv
<1> QED
  BY <1>10, <1>11, <1>12, <1>13, <1>14 DEF IndInv

\* The first call of inner_alloc has passed every run there is above its
\* start; the second starts at page 0.
LEMMA AgainKeeps == ASSUME IndInv, Again PROVE IndInv'
<1> USE PmmScanAssumption
<1>1. TypeOK' /\ PageZeroUsed'
  BY DEF IndInv, TypeOK, PageZeroUsed, Again
<1>2. RunEnds(before, l, count, NPages) = {}
  BY DEF RunEnds, IndInv, TypeOK, LoopInv, Again, Start
<1>3. LoopInv'
  BY <1>1, <1>2 DEF LoopInv, Start, IndInv, TypeOK, Again, FreeRun
<1>4. (LoopIsNextFit /\ TakesOnlyFreePages)'
  BY DEF Again, LoopIsNextFit, TakesOnlyFreePages
<1> QED
  BY <1>1, <1>3, <1>4 DEF IndInv

\* Neither call found a run.
LEMMA GiveUpKeeps == ASSUME IndInv, GiveUp PROVE IndInv'
<1> USE PmmScanAssumption
<1>0. /\ pc = "second" /\ bitmap = before /\ page = 0 /\ limit = l
      /\ last_used_index = l /\ l \in Nat /\ pc' = "done"
      /\ UNCHANGED <<bitmap, last_used_index, count, limit, p, l, page, before>>
  BY DEF IndInv, TypeOK, LoopInv, GiveUp
<1>1. TypeOK' /\ PageZeroUsed' /\ LoopInv' /\ TakesOnlyFreePages'
  BY <1>0 DEF IndInv, TypeOK, PageZeroUsed, LoopInv, TakesOnlyFreePages
<1>2. RunEnds(before, l, count, NPages) = {}
  BY <1>0 DEF IndInv, LoopInv
<1>3. RunEnds(before, 0, count, l) = {}
  BY <1>0 DEF RunEnds, IndInv, LoopInv, Start
<1>4. PmmAlloc(before, l, count, NPages)
        = [bitmap |-> before, page |-> 0, next |-> l]
  BY <1>0, <1>2, <1>3 DEF PmmAlloc, InnerAlloc
<1>5. LoopIsNextFit'
  BY <1>0, <1>4 DEF LoopIsNextFit
<1> QED
  BY <1>1, <1>5 DEF IndInv

\* A call of pmm_alloc, and a page that is freed.
LEMMA CallKeeps == ASSUME IndInv, NEW n \in 1 .. NPages, Call(n) PROVE IndInv'
<1> USE PmmScanAssumption
<1>1. TypeOK' /\ PageZeroUsed'
  BY DEF IndInv, TypeOK, PageZeroUsed, Call
<1>2. LoopInv'
  BY <1>1 DEF LoopInv, Start, IndInv, TypeOK, Call
<1>3. (LoopIsNextFit /\ TakesOnlyFreePages)'
  BY DEF Call, LoopIsNextFit, TakesOnlyFreePages
<1> QED
  BY <1>1, <1>2, <1>3 DEF IndInv

\* pmm_free.
LEMMA FreePageKeeps == ASSUME IndInv, NEW i \in Pages, FreePage(i) PROVE IndInv'
<1> USE PmmScanAssumption
<1>1. bitmap' \subseteq Pages /\ 0 \in bitmap'
  BY DEF IndInv, TypeOK, PageZeroUsed, FreePage, Run, Pages
<1>2. TypeOK' /\ PageZeroUsed'
  BY <1>1 DEF IndInv, TypeOK, PageZeroUsed, FreePage
<1>3. (LoopInv /\ LoopIsNextFit /\ TakesOnlyFreePages)'
  BY DEF FreePage, LoopInv, LoopIsNextFit, TakesOnlyFreePages
<1> QED
  BY <1>2, <1>3 DEF IndInv

\* The loop invariant holds throughout.
THEOREM ScanInvariance == Spec => []IndInv
<1>1. Init => IndInv
  <2> SUFFICES ASSUME Init PROVE IndInv
    OBVIOUS
  <2>1. Reserved \subseteq Pages
    BY PmmScanAssumption DEF Pages
  <2>2. TypeOK /\ PageZeroUsed
    BY <2>1, PmmScanAssumption DEF Init, TypeOK, PageZeroUsed
  <2> QED
    BY <2>2 DEF Init, IndInv, LoopInv, LoopIsNextFit, TakesOnlyFreePages
<1>2. IndInv /\ [Next]_vars => IndInv'
  <2> SUFFICES ASSUME IndInv, [Next]_vars PROVE IndInv'
    OBVIOUS
  <2>1. CASE UNCHANGED vars
    BY <2>1 DEF vars, IndInv, TypeOK, PageZeroUsed, LoopInv, Start,
       LoopIsNextFit, TakesOnlyFreePages
  <2> QED
    BY <2>1, NotFreeKeeps, OneMoreKeeps, FoundKeeps, AgainKeeps, GiveUpKeeps,
       CallKeeps, FreePageKeeps DEF Next, Loop
<1> QED
  BY <1>1, <1>2, PTL DEF Spec

\* pmm_alloc computes the next fit, for every bitmap and every request.
THEOREM ScanCorrect == Spec => []LoopIsNextFit
<1>1. IndInv => LoopIsNextFit
  BY DEF IndInv
<1> QED
  BY <1>1, ScanInvariance, PTL

\* pmm_alloc returns only pages that were free, and touches no other bit.
THEOREM ScanTakesOnlyFree == Spec => []TakesOnlyFreePages
<1>1. IndInv => TakesOnlyFreePages
  BY DEF IndInv
<1> QED
  BY <1>1, ScanInvariance, PTL
=============================================================================
