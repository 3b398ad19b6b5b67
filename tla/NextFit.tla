------------------------------ MODULE NextFit ------------------------------
(***************************************************************************)
(* What the two loops of the physical memory manager (kernel/src/mm/pmm.c) *)
(* compute, without the loops.  PmmScan has the loops and is shown to      *)
(* arrive at these results; Pmm builds kalloc and kfree on them.           *)
(*                                                                         *)
(* A bitmap is the set of the pages whose bit is set, the ones that are    *)
(* not free.  Page 0 stands for the null pointer.                          *)
(***************************************************************************)
EXTENDS Integers

\* The count pages that end just below page e are free.
FreeRun(bitmap, e, count) == \A i \in e - count .. e - 1 : i \notin bitmap

\* Where inner_alloc can stop: the run has to start at or after the index the
\* call starts at, for the count of pages seen so far is local to the call.
RunEnds(bitmap, start, count, limit) ==
    {e \in start + count .. limit : FreeRun(bitmap, e, count)}

Lowest(S) == CHOOSE e \in S : \A x \in S : e <= x

\* The pages bitmap_set and bitmap_unset are called for.
Run(page, count) == page .. page + count - 1

\* inner_alloc(count, limit) with last_used_index = start: the first run.
InnerAlloc(bitmap, start, count, limit) ==
    LET ends == RunEnds(bitmap, start, count, limit)
        e == Lowest(ends)
    IN
    IF ends = {}
    THEN [bitmap |-> bitmap, page |-> 0,
          next |-> IF start < limit THEN limit ELSE start]
    ELSE [bitmap |-> bitmap \cup Run(e - count, count), page |-> e - count,
          next |-> e]

\* pmm_alloc(count): from last_used_index = l to the top, then from 0 to l.
PmmAlloc(bitmap, l, count, top) ==
    LET first == InnerAlloc(bitmap, l, count, top)
    IN  IF first.page # 0 THEN first
                          ELSE InnerAlloc(first.bitmap, 0, count, l)
=============================================================================
