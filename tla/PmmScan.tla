------------------------------ MODULE PmmScan ------------------------------
(***************************************************************************)
(* pmm_alloc and inner_alloc (kernel/src/mm/pmm.c), one step per turn of   *)
(* the loop, with pmm_free between the calls.                              *)
(***************************************************************************)
EXTENDS NextFit

CONSTANTS
    NPages,     \* highest_page / PAGE_SIZE
    Reserved    \* pages init_pmm left marked as not free

\* Page 0 is not usable memory: it holds the interrupt vectors of the BIOS,
\* which the kernel calls.
ASSUME PmmScanAssumption ==
    /\ NPages \in Nat \ {0}
    /\ 0 \in Reserved
    /\ Reserved \subseteq 0 .. NPages - 1

Pages == 0 .. NPages - 1

VARIABLES
    bitmap,
    last_used_index,
    pc,         \* "ready", "first" or "second" call of inner_alloc, "done"
    count,      \* arguments and locals of pmm_alloc and inner_alloc
    limit,
    p,
    l,
    page,       \* what pmm_alloc returned
    before      \* ghost: the bitmap pmm_alloc was called on

vars == <<bitmap, last_used_index, pc, count, limit, p, l, page, before>>

Init ==
    /\ bitmap = Reserved
    /\ last_used_index = 0
    /\ pc = "ready"
    /\ count = 1 /\ limit = 0 /\ p = 0 /\ l = 0 /\ page = 0
    /\ before = bitmap

\* pmm_alloc(n) is entered and calls inner_alloc.  n is at least 1: kalloc
\* always asks for the page of its metadata.
Call(n) ==
    /\ pc \in {"ready", "done"}
    /\ pc' = "first"
    /\ count' = n
    /\ limit' = NPages
    /\ p' = 0
    /\ l' = last_used_index
    /\ page' = 0
    /\ before' = bitmap
    /\ UNCHANGED <<bitmap, last_used_index>>

\* Mutant: the count of free pages is not reset.
NotFreeKeepsCount ==
    /\ pc \in {"first", "second"}
    /\ last_used_index < limit
    /\ last_used_index \in bitmap
    /\ last_used_index' = last_used_index + 1
    /\ UNCHANGED <<bitmap, pc, count, limit, p, l, page, before>>

\* A turn of the loop at a page that is not free.
NotFree ==
    /\ pc \in {"first", "second"}
    /\ last_used_index < limit
    /\ last_used_index \in bitmap
    /\ last_used_index' = last_used_index + 1
    /\ p' = 0
    /\ UNCHANGED <<bitmap, pc, count, limit, l, page, before>>

\* A turn of the loop at a free page that does not complete the run.
OneMore ==
    /\ pc \in {"first", "second"}
    /\ last_used_index < limit
    /\ last_used_index \notin bitmap
    /\ p + 1 # count
    /\ last_used_index' = last_used_index + 1
    /\ p' = p + 1
    /\ UNCHANGED <<bitmap, pc, count, limit, l, page, before>>

\* The run is complete: set its bits and return.
Found ==
    /\ pc \in {"first", "second"}
    /\ last_used_index < limit
    /\ last_used_index \notin bitmap
    /\ p + 1 = count
    /\ last_used_index' = last_used_index + 1
    /\ page' = last_used_index' - count
    /\ bitmap' = bitmap \cup Run(page', count)
    /\ pc' = "done"
    /\ p' = p + 1
    /\ UNCHANGED <<count, limit, l, before>>

\* The first call returns NULL: the second looks below where it started.
Again ==
    /\ pc = "first"
    /\ last_used_index >= limit
    /\ pc' = "second"
    /\ last_used_index' = 0
    /\ limit' = l
    /\ p' = 0
    /\ UNCHANGED <<bitmap, count, l, page, before>>

\* The second call returns NULL too.
GiveUp ==
    /\ pc = "second"
    /\ last_used_index >= limit
    /\ pc' = "done"
    /\ UNCHANGED <<bitmap, last_used_index, count, limit, p, l, page, before>>

\* pmm_free of a page that was allocated.
FreePage(i) ==
    /\ pc \in {"ready", "done"}
    /\ i \in bitmap
    /\ i \notin Reserved
    /\ pc' = "ready"
    /\ bitmap' = bitmap \ Run(i, 1)
    /\ UNCHANGED <<last_used_index, count, limit, p, l, page, before>>

Loop == NotFree \/ OneMore \/ Found \/ Again \/ GiveUp

Next ==
    \/ Loop
    \/ \E n \in 1 .. NPages : Call(n)
    \/ \E i \in Pages : FreePage(i)

Spec == Init /\ [][Next]_vars

----------------------------------------------------------------------------

\* Every variable has its type.
TypeOK ==
    /\ bitmap \subseteq Pages
    /\ last_used_index \in 0 .. NPages
    /\ pc \in {"ready", "first", "second", "done"}
    /\ count \in 1 .. NPages
    /\ limit \in 0 .. NPages
    /\ p \in 0 .. NPages
    /\ l \in 0 .. NPages
    /\ page \in 0 .. NPages - 1
    /\ before \subseteq Pages

\* When pmm_alloc returns, the two loops with their running count have
\* arrived at the first run of free pages above last_used_index or, failing
\* that, below it: the page, the bits and the new index are the ones of the
\* loop-free definition.
LoopIsNextFit ==
    pc = "done" =>
        [bitmap |-> bitmap, page |-> page, next |-> last_used_index]
            = PmmAlloc(before, l, count, NPages)

\* pmm_alloc never gives away a page that is in use: the pages of the run it
\* returns were free at the call and are not any more, and no other bit of
\* the bitmap has changed.
TakesOnlyFreePages ==
    pc = "done" =>
        IF page = 0 THEN bitmap = before
        ELSE /\ Run(page, count) \cap before = {}
             /\ bitmap = before \cup Run(page, count)
=============================================================================
