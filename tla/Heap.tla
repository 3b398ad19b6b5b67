-------------------------------- MODULE Heap --------------------------------
(***************************************************************************)
(* What kalloc, krealloc and kfree promise the rest of the kernel: every   *)
(* block is its owner's alone, it starts out zeroed, its contents change   *)
(* only when the owner stores to it, and krealloc carries them over.       *)
(*                                                                         *)
(* Contents are kept per page, by the first two words of the page; a block *)
(* of n bytes has as many pages as n bytes need.                           *)
(***************************************************************************)
EXTENDS Integers

CONSTANTS
    Blocks,     \* names for blocks
    PageSize,   \* PAGE_SIZE
    MaxSize,    \* bound: no block is asked to be larger
    Words       \* what an owner stores

VARIABLE blocks

\* The first two words of a page.
Page(a, b) == [pages |-> a, size |-> b]

PageCount(size) == (size + PageSize - 1) \div PageSize

ZeroPages(n) == [i \in 1 .. n |-> Page(0, 0)]

\* A name that stands for no block.
NoBlock == [size |-> -1, data |-> ZeroPages(0)]

Live(b) == blocks[b].size # -1

Init == blocks = [b \in Blocks |-> NoBlock]

Kalloc(b, size) ==
    /\ ~Live(b)
    /\ blocks' = [blocks EXCEPT
          ![b] = [size |-> size, data |-> ZeroPages(PageCount(size))]]

Kfree(b) ==
    /\ Live(b)
    /\ blocks' = [blocks EXCEPT ![b] = NoBlock]

\* The block stays where it is.
KreallocInPlace(b, size) ==
    /\ Live(b)
    /\ PageCount(size) = PageCount(blocks[b].size)
    /\ blocks' = [blocks EXCEPT ![b].size = size]

\* The block moves to c; what both sizes have room for moves with it.
KreallocMoves(b, c, size) ==
    /\ Live(b)
    /\ ~Live(c)
    /\ blocks' = [blocks EXCEPT
          ![b] = NoBlock,
          ![c] = [size |-> size,
                  data |-> [i \in 1 .. PageCount(size) |->
                      IF i <= PageCount(blocks[b].size) THEN blocks[b].data[i]
                                                        ELSE Page(0, 0)]]]

\* The owner writes to page i of the block.
Store(b, i, w) ==
    /\ Live(b)
    /\ i \in 1 .. PageCount(blocks[b].size)
    /\ blocks' = [blocks EXCEPT ![b].data[i] = Page(w, w)]

Next ==
    \E b \in Blocks :
        \/ Kfree(b)
        \/ \E size \in 0 .. MaxSize :
              \/ Kalloc(b, size)
              \/ KreallocInPlace(b, size)
              \/ \E c \in Blocks : KreallocMoves(b, c, size)
        \/ \E i \in 1 .. PageCount(MaxSize), w \in Words : Store(b, i, w)

Spec == Init /\ [][Next]_blocks
=============================================================================
