------------------------ MODULE MCFreeListAllocator ------------------------
(***************************************************************************)
(* An instance of FreeListAllocator for TLC, and compact() as the loops of *)
(* the source, against the declarative Compacted that FreeListAllocator    *)
(* uses for it.                                                            *)
(***************************************************************************)
EXTENDS FreeListAllocator, FiniteSets, Functions

Req(sz, align) == [sz |-> sz, align |-> align]

\* A small request, one that leaves a hole too small for another block, one
\* whose alignment forces padding and front splits, and a large one.
SmallRequests == {Req(16, 8), Req(40, 8), Req(16, 32), Req(112, 8)}
-----------------------------------------------------------------------------
\* A free block takes the free block behind it: both are unlinked, the first
\* is linked again under its new size.
Merged(h, block, next) ==
  [pages |-> h.pages,
   size  |-> [a \in Blocks(h) \ {next} |->
                IF a = block THEN h.size[block] + h.size[next] ELSE h.size[a]],
   used  |-> h.used,
   tree  |-> (h.tree \ {block, next}) \cup {block}]

\* Mutant: the scan moves on after one merge instead of trying again.
TurnMovesOn(s, dat) ==
  LET block == dat + s.i
      next  == End(s.heap, block)
      h     == IF block \notin s.heap.used /\ next \notin s.heap.used
               THEN Merged(s.heap, block, next) ELSE s.heap
  IN IF s.i >= PageSize \/ s.i + s.heap.size[block] >= PageSize THEN s
     ELSE [heap |-> h, i |-> s.i + h.size[block]]
\* One turn of the inner loop at offset i of page dat, none after the break.
Turn(s, dat) ==
  LET block == dat + s.i
      next  == End(s.heap, block)
  IN IF s.i >= PageSize \/ s.i + s.heap.size[block] >= PageSize THEN s
     ELSE IF block \notin s.heap.used /\ next \notin s.heap.used
     THEN [heap |-> Merged(s.heap, block, next), i |-> s.i]
     ELSE [heap |-> s.heap, i |-> s.i + s.heap.size[block]]

\* Each turn passes another block, and a page holds no more than this.
MaxTurns == PageSize \div MIN_BLOCK_SIZE
ScanPage(h, dat) ==
  LET turn[n \in 0 .. MaxTurns] ==
        IF n = 0 THEN [heap |-> h, i |-> 0] ELSE Turn(turn[n - 1], dat)
  IN turn[MaxTurns].heap

\* The outer loop over page_list.
Scan(h, page_list) ==
  LET page[n \in 0 .. Cardinality(h.pages)] ==
        IF n = 0 THEN h ELSE ScanPage(page[n - 1], page_list[n])
  IN page[Cardinality(h.pages)]

\* In whatever order page_list names the pages, the loops of compact()
\* (freelist_allocator.cpp:440-476), which unlink and merge headers while they
\* walk over them, leave the heap that Compacted describes.
CompactIsTheScan ==
  \A page_list \in Bijection(1 .. Cardinality(heap.pages), heap.pages) :
    Scan(heap, page_list) = Compacted(heap)
=============================================================================
