-------------------------- MODULE FreeListAllocator --------------------------
(***************************************************************************)
(* tca::free_list_allocator (freelist_allocator.hpp / .cpp) with the page  *)
(* helpers of memory.cpp.  Pages obtained from the parent allocator are    *)
(* tiled by blocks; a free block is linked in a search tree keyed by its   *)
(* size, a used block is found again from the user pointer through the     *)
(* 16-bit `fallback' written just below it.  Requests near the page size   *)
(* go to the parent directly ("large" blocks).                             *)
(*                                                                         *)
(* Addresses are integers with the real layout constants, so that padding, *)
(* splits and alignment are the code's.  The tree is abstracted to the set *)
(* of linked blocks: ceil_entry may return any linked block of the least   *)
(* sufficient size (RawBinaryTree refines this choice).                    *)
(***************************************************************************)
EXTENDS Integers

CONSTANTS
  PageSize,      \* page_size passed to the constructor
  Requests,      \* the [sz, align] pairs the client asks for
  ParentAddrs,   \* addresses the parent allocator may return
  FALLBACK_MOD,  \* 2^16 in the code: fallback_t is an unsigned short
  MEMSIZE_MOD    \* 2^32 in the code: memsize_t is an unsigned int

MIN_ALIGN      == 8      \* alignof(memblock)
HDR_SIZE       == 8      \* offsetof(memblock, left)
HDR_DIFF       == 16     \* NODE_SIZE - HDR_SIZE
MIN_BLOCK_SIZE == 24     \* align_up(NODE_SIZE, MIN_ALIGN)
LARGE_BLOCK_HEADER_SIZE == 40   \* sizeof(large_memblock)
PAGE_HEADER    == 32     \* align_up(sizeof(page_header), MIN_ALIGN)

\* A page holds at least one block and ends on a block boundary.  The code
\* wants a power of two for align; a multiple of 8, or a smaller power that
\* max(align, MIN_ALIGN) replaces, is all that is used of it here.
ASSUME LayoutAssumption ==
  /\ PageSize \in Nat /\ PageSize >= MIN_BLOCK_SIZE /\ PageSize % MIN_ALIGN = 0
  /\ FALLBACK_MOD \in Nat \ {0} /\ MEMSIZE_MOD \in Nat \ {0}
  /\ ParentAddrs \subseteq Nat
  /\ \A r \in Requests : /\ r.sz \in Nat
                         /\ \/ r.align \in {1, 2, 4}
                            \/ r.align \in Nat \ {0} /\ r.align % MIN_ALIGN = 0

VARIABLES
  heap,     \* [pages, size, used, tree]: the pages and the headers in them
  large,    \* large_memblock address -> its large_size
  fb,       \* user pointer -> the fallback stored at user_ptr - 2
  live,     \* user pointer -> [sz, align]: the pointers the client holds
  parent,   \* chunk -> size: what this object holds from m_parent (external)
  denied,   \* min_need_size of the call that just returned nullptr, else 0
  state     \* "alive", "destroyed", or the undefined behaviour that stopped it

vars == << heap, large, fb, live, parent, denied, state >>
-----------------------------------------------------------------------------
(* Arithmetic and partial functions *)

Greater(a, b) == IF a >= b THEN a ELSE b
AlignUp(x, a) == ((x + a - 1) \div a) * a
Put(f, k, v)  == [x \in DOMAIN f \cup {k} |-> IF x = k THEN v ELSE f[x]]
Drop(f, k)    == [x \in DOMAIN f \ {k} |-> f[x]]

\* allocate_align's normalisation of its arguments and its pessimistic size.
EffAlign(r) == Greater(r.align, MIN_ALIGN)
EffSize(r)  == AlignUp(Greater(r.sz, HDR_DIFF), MIN_ALIGN)
Slack(r)    == IF EffAlign(r) > MIN_ALIGN THEN EffAlign(r) - 1 ELSE 0
\* Mutant: the pessimistic size forgets the room alignment may take.
MinNeedNoSlack(r) == (HDR_SIZE + EffSize(r)) % MEMSIZE_MOD
MinNeed(r)  == (HDR_SIZE + EffSize(r) + Slack(r)) % MEMSIZE_MOD

mmap_threshold == PageSize - HDR_SIZE
IsLarge(r)     == MinNeed(r) >= mmap_threshold
-----------------------------------------------------------------------------
(* The heap: pages, and the headers that tile them *)

EmptyHeap == [pages |-> {}, size |-> << >>, used |-> {}, tree |-> {}]

Blocks(h) == DOMAIN h.size
Free(h)   == Blocks(h) \ h.used
End(h, a) == a + h.size[a]

\* tree.ceil_entry(need): a linked block of the least size that is >= need.
CeilEntry(h, need) ==
  {b \in h.tree : /\ h.size[b] >= need
                  /\ \A c \in h.tree : h.size[c] >= need => h.size[b] <= h.size[c]}

\* allocate_page: the page's bytes after its header are one linked free block.
AddPage(h, chunk) ==
  LET dat == chunk + PAGE_HEADER
  IN [pages |-> h.pages \cup {dat}, size |-> Put(h.size, dat, PageSize),
      used  |-> h.used,             tree |-> h.tree \cup {dat}]

\* Mutant: the scan moves on after one merge instead of trying again.
SurvivorsOneMerge(h) ==
  {a \in Blocks(h) : \/ a \in h.pages \cup h.used
                     \/ \E c \in h.used \cup h.pages : End(h, c) = a}
\* compact(): scanning each page from its start, a free block absorbs every
\* free block that follows it, so a header survives if it is used, starts a
\* page, or follows a used block; a surviving free block then reaches to the
\* next survivor.  (MCFreeListAllocator has the loops themselves.)
Survivors(h) ==
  {a \in Blocks(h) : \/ a \in h.pages
                     \/ a \in h.used
                     \/ \E c \in h.used : End(h, c) = a}
Boundaries(h) == Survivors(h) \cup {d + PageSize : d \in h.pages}
NextBoundary(h, a) ==
  CHOOSE e \in Boundaries(h) :
    e > a /\ \A f \in Boundaries(h) : f > a => e <= f
Compacted(h) ==
  [pages |-> h.pages,
   size  |-> [a \in Survivors(h) |-> NextBoundary(h, a) - a],
   used  |-> h.used,
   tree  |-> h.tree \cap Survivors(h)]

\* Mutant: the user pointer is aligned to MIN_ALIGN only.
UserPtrMinAlign(b, r) == AlignUp(b + HDR_SIZE, MIN_ALIGN)
\* Where allocate_align puts request r in the linked block b, and what it
\* splits off: `padding' bytes before the header when they can hold a block,
\* the bytes past `target' when they can.
UserPtr(b, r)  == AlignUp(b + HDR_SIZE, EffAlign(r))
Padding(b, r)  == UserPtr(b, r) - b - HDR_SIZE
SplitsFront(b, r) == Padding(b, r) >= MIN_BLOCK_SIZE
Start(b, r)    == IF SplitsFront(b, r) THEN b + Padding(b, r) ELSE b
BlockSize(h, b, r) == h.size[b] - (Start(b, r) - b)
Used(b, r)     == (UserPtr(b, r) + EffSize(r) - Start(b, r)) % MEMSIZE_MOD
Target(b, r)   == AlignUp(Greater(Used(b, r), MinNeed(r)), MIN_ALIGN)
\* Mutant: the remainder forgets its own header.
RemLessHeader(h, b, r) == IF BlockSize(h, b, r) > Target(b, r)
                          THEN BlockSize(h, b, r) - Target(b, r) - HDR_SIZE ELSE 0
Rem(h, b, r)   == IF BlockSize(h, b, r) > Target(b, r)
                  THEN BlockSize(h, b, r) - Target(b, r) ELSE 0
SplitsBack(h, b, r) == Rem(h, b, r) >= MIN_BLOCK_SIZE
Split(b, r)    == Start(b, r) + Target(b, r)

\* The heap after unlink(b), the front and back splits with their link()s,
\* and memblock_setuse on the block that is returned.
Carved(h, b, r) ==
  LET start == Start(b, r)
      back  == IF SplitsBack(h, b, r) THEN {Split(b, r)} ELSE {}
      front == IF SplitsFront(b, r) THEN {b} ELSE {}
  IN [pages |-> h.pages,
      size  |-> [a \in Blocks(h) \cup {start} \cup back |->
                   CASE a = start   -> BlockSize(h, b, r) -
                                         (IF back # {} THEN Rem(h, b, r) ELSE 0)
                     [] a \in back  -> Rem(h, b, r)
                     [] a \in front -> Padding(b, r)
                     [] OTHER       -> h.size[a]],
      used  |-> h.used \cup {start},
      tree  |-> (h.tree \ {b}) \cup front \cup back]
-----------------------------------------------------------------------------
(* The parent allocator (external): it grants chunks that overlap none this *)
(* object holds, aligned as asked, or refuses.                             *)

Grants(n) ==
  {c \in ParentAddrs : /\ c > 0 /\ c % MIN_ALIGN = 0
                       /\ \A d \in DOMAIN parent :
                            c + n <= d \/ d + parent[d] <= c}

\* m_parent->deallocate(c, n): the contract wants a chunk it granted and the
\* size it granted.
GiveBack(c, n) ==
  IF c \in DOMAIN parent /\ parent[c] = n
  THEN parent' = Drop(parent, c) /\ UNCHANGED state
  ELSE state' = "bad_parent_free" /\ UNCHANGED parent
-----------------------------------------------------------------------------
(* The operations *)

Init ==
  /\ heap = EmptyHeap /\ large = << >> /\ fb = << >> /\ live = << >>
  /\ parent = << >> /\ denied = 0 /\ state = "alive"

\* Mutant: the fallback ignores the padding between header and user pointer.
ReturnNoPadding(user, header, r) ==
  /\ fb' = Put(fb, user, HDR_SIZE)
  /\ live' = Put(live, user, r)
  /\ denied' = 0
\* The end of a successful call: the fallback is stored below the user
\* pointer in 16 bits, and the pointer goes to the client.
Return(user, header, r) ==
  /\ fb' = Put(fb, user, (user - header) % FALLBACK_MOD)
  /\ live' = Put(live, user, r)
  /\ denied' = 0

\* allocate_align from block b of heap h.
Serve(h, b, r) ==
  /\ heap' = Carved(h, b, r)
  /\ Return(UserPtr(b, r), Start(b, r), r)
  /\ UNCHANGED << large, state >>

\* First attempt of the loop: a linked block fits.
AllocFromTree(r) ==
  /\ ~IsLarge(r)
  /\ \E b \in CeilEntry(heap, MinNeed(r)) : Serve(heap, b, r)
  /\ UNCHANGED parent

\* Second attempt: nothing fits until compact() has merged the free runs.
AllocCompacted(r) ==
  /\ ~IsLarge(r)
  /\ CeilEntry(heap, MinNeed(r)) = {}
  /\ \E b \in CeilEntry(Compacted(heap), MinNeed(r)) : Serve(Compacted(heap), b, r)
  /\ UNCHANGED parent

NeedsPage(r) ==
  /\ ~IsLarge(r)
  /\ CeilEntry(heap, MinNeed(r)) = {}
  /\ CeilEntry(Compacted(heap), MinNeed(r)) = {}

\* Third attempt: allocate_page() asked the parent, and the new page serves.
AllocNewPage(r) ==
  /\ NeedsPage(r)
  /\ \E c \in Grants(PAGE_HEADER + PageSize) :
       LET h == AddPage(Compacted(heap), c)
       IN /\ \E b \in CeilEntry(h, MinNeed(r)) : Serve(h, b, r)
          /\ parent' = Put(parent, c, PAGE_HEADER + PageSize)

\* The parent refused the page: nullptr, with the heap left compacted.
AllocDenied(r) ==
  /\ NeedsPage(r)
  /\ heap' = Compacted(heap)
  /\ denied' = MinNeed(r)
  /\ UNCHANGED << large, fb, live, parent, state >>

LargeSize(r) == LARGE_BLOCK_HEADER_SIZE + (EffAlign(r) - 1) + EffSize(r)

\* alloc_from_parent: a whole chunk with a large_memblock at its start.
AllocLarge(r) ==
  /\ IsLarge(r)
  /\ \E c \in Grants(LargeSize(r)) :
       /\ large'  = Put(large, c, LargeSize(r))
       /\ parent' = Put(parent, c, LargeSize(r))
       /\ Return(AlignUp(c + LARGE_BLOCK_HEADER_SIZE, EffAlign(r)), c, r)
  /\ UNCHANGED << heap, state >>

\* The parent refused: alloc_from_parent does not test the pointer it got
\* and writes the fallback and the header through it.
AllocLargeRefused(r) ==
  /\ IsLarge(r)
  /\ state' = "null_write"
  /\ UNCHANGED << heap, large, fb, live, parent, denied >>

allocate_align(r) ==
  /\ state = "alive"
  /\ \/ AllocFromTree(r) \/ AllocCompacted(r) \/ AllocNewPage(r)
     \/ AllocDenied(r)   \/ AllocLarge(r)     \/ AllocLargeRefused(r)

Header(p) == p - fb[p]

\* Mutant: the block is not linked again.
FreeBlockNoLink(p) ==
  /\ Header(p) \in heap.used
  /\ heap' = [heap EXCEPT !.used = @ \ {Header(p)}]
  /\ UNCHANGED << large, parent, state >>
\* deallocate(p) where the fallback leads to a used block of a page.
FreeBlock(p) ==
  /\ Header(p) \in heap.used
  /\ heap' = [pages |-> heap.pages, size |-> heap.size,
              used  |-> heap.used \ {Header(p)},
              tree  |-> heap.tree \cup {Header(p)}]
  /\ UNCHANGED << large, parent, state >>

\* Mutant: the chunk is given back with the client's size.
FreeLargeUserSize(p) ==
  /\ Header(p) \in DOMAIN large
  /\ GiveBack(Header(p), large[Header(p)] - LARGE_BLOCK_HEADER_SIZE)
  /\ large' = Drop(large, Header(p))
  /\ UNCHANGED heap
\* deallocate(p) where it leads to a large_memblock: free_from_parent.
FreeLarge(p) ==
  /\ Header(p) \in DOMAIN large
  /\ GiveBack(Header(p), large[Header(p)])
  /\ large' = Drop(large, Header(p))
  /\ UNCHANGED heap

\* ... and where it leads to bytes that are no header of this allocator.
FreeWild(p) ==
  /\ Header(p) \notin heap.used \cup DOMAIN large
  /\ state' = "wild_free"
  /\ UNCHANGED << heap, large, parent >>

deallocate(p) ==
  /\ state = "alive"
  /\ FreeBlock(p) \/ FreeLarge(p) \/ FreeWild(p)
  /\ fb' = Drop(fb, p) /\ live' = Drop(live, p) /\ denied' = 0

\* The public compact().
compact ==
  /\ state = "alive"
  /\ heap' = Compacted(heap)
  /\ denied' = 0
  /\ UNCHANGED << large, fb, live, parent, state >>

\* The address at which a page's header, and so its chunk, begins.
Chunk(dat) == dat - PAGE_HEADER

\* ~free_list_allocator: page_delete of every page with the size its header
\* records.  Large blocks the client still holds are not tracked and stay.
destroy ==
  /\ state = "alive"
  /\ state' = IF \A d \in heap.pages :
                   /\ Chunk(d) \in DOMAIN parent
                   /\ parent[Chunk(d)] = PAGE_HEADER + PageSize
              THEN "destroyed" ELSE "bad_parent_free"
  /\ parent' = [c \in DOMAIN parent \ {Chunk(d) : d \in heap.pages} |-> parent[c]]
  /\ heap' = EmptyHeap
  /\ fb' = << >> /\ live' = << >> /\ denied' = 0
  /\ UNCHANGED large

Next ==
  \/ \E r \in Requests : allocate_align(r)
  \/ \E p \in DOMAIN live : deallocate(p)
  \/ compact
  \/ destroy

Spec == Init /\ [][Next]_vars
-----------------------------------------------------------------------------
(* Properties *)

States == {"alive", "destroyed", "null_write", "bad_parent_free", "wild_free"}

\* The shape of a heap; the pages, the use bits and the tree only name
\* headers that exist.
HeapTyped(h) ==
  /\ h.pages \subseteq Blocks(h) /\ Blocks(h) \subseteq Nat
  /\ h.size \in [Blocks(h) -> Nat]
  /\ h.used \subseteq Blocks(h) /\ h.tree \subseteq Blocks(h)

TypeOK ==
  /\ HeapTyped(heap)
  /\ DOMAIN large \subseteq ParentAddrs /\ large \in [DOMAIN large -> Nat]
  /\ DOMAIN parent \subseteq ParentAddrs /\ parent \in [DOMAIN parent -> Nat]
  /\ DOMAIN live \subseteq Nat /\ live \in [DOMAIN live -> Requests]
  /\ fb \in [DOMAIN live -> 0 .. FALLBACK_MOD - 1]
  /\ denied \in Nat
  /\ state \in States

\* Every block ends at its page's end or where the next block starts.
BlockInPage(h, a, d) ==
  /\ d <= a /\ End(h, a) <= d + PageSize
  /\ End(h, a) = d + PageSize \/ End(h, a) \in Blocks(h)

HeapTiled(h) ==
  /\ \A a \in Blocks(h) :
       /\ a % MIN_ALIGN = 0 /\ h.size[a] % MIN_ALIGN = 0
       /\ h.size[a] >= MIN_BLOCK_SIZE
       /\ \E d \in h.pages : BlockInPage(h, a, d)
  /\ \A a, b \in Blocks(h) : a < b => End(h, a) <= b

\* The blocks tile the pages: each lies in one page, ends where the next one
\* starts or at the page's end, overlaps none, and can hold a free block's
\* links (print_log asserts that the sizes add up to the page).
Tiling == HeapTiled(heap)

\* Exactly the unused blocks are linked, so unlink() (assert, line 218) finds
\* what compact() and allocate_align hand it, and no free block is lost.
TreeIsFree == heap.tree = Free(heap)

\* Where the block or chunk of a header ends, and how long its header is.
Extent(h, chunks, x)  == IF x \in DOMAIN chunks THEN x + chunks[x] ELSE End(h, x)
HeaderSize(chunks, x) == IF x \in DOMAIN chunks THEN LARGE_BLOCK_HEADER_SIZE
                                                ELSE HDR_SIZE

\* The region asked for lies inside the block or chunk the fallback names,
\* after its header, and no two pointers name the same one: deallocate will
\* find the header it has to, and no client can write over another's block.
FallbackFindsHeader ==
  \A p \in DOMAIN live :
    /\ p % live[p].align = 0
    /\ Header(p) \in heap.used \cup DOMAIN large
    /\ Header(p) + HeaderSize(large, Header(p)) <= p
    /\ p + live[p].sz <= Extent(heap, large, Header(p))
    /\ \A q \in DOMAIN live : Header(p) = Header(q) => p = q

\* No two clients hold a common byte.
RegionsDisjoint ==
  \A p, q \in DOMAIN live : p < q => p + live[p].sz <= q

\* The chunks held are the pages' and the large blocks', apart from each
\* other, and each will be given back with the size it was granted with.
Balanced(held, pages, chunks) ==
  /\ DOMAIN held = {Chunk(d) : d \in pages} \cup DOMAIN chunks
  /\ \A d \in pages : Chunk(d) \notin DOMAIN chunks
  /\ \A d \in pages : held[Chunk(d)] = PAGE_HEADER + PageSize
  /\ \A c \in DOMAIN chunks : held[c] = chunks[c] /\ held[c] > LARGE_BLOCK_HEADER_SIZE
  /\ \A c, d \in DOMAIN held : c < d => c + held[c] <= d

\* Nothing obtained from the parent is lost or given back wrongly; after the
\* destructor only large blocks the client never freed are still held.
ParentBalance == state # "bad_parent_free" /\ Balanced(parent, heap.pages, large)

\* nullptr is an honest answer: no page has a run of free bytes, however it
\* is cut into blocks, that could have held the request.
NullMeansExhausted ==
  denied > 0 =>
    \A d \in heap.pages : \A a, b \in Blocks(heap) \cap (d .. d + PageSize - 1) :
      (a <= b /\ Blocks(heap) \cap (a .. b) \subseteq Free(heap))
        => End(heap, b) - a < denied

\* The assertion of line 356: a block that ceil_entry may return is never too
\* short for the bytes used of it.
BlockSizeCoversUsed ==
  \A r \in Requests, b \in heap.tree :
    (~IsLarge(r) /\ heap.size[b] >= MinNeed(r)) =>
      BlockSize(heap, b, r) >= UserPtr(b, r) + EffSize(r) - Start(b, r)

\* No size or offset is cut by the width of memsize_t or fallback_t.  The
\* theorems assume it; the code nowhere tests it.
RequestsFit ==
  \A r \in Requests :
    /\ HDR_SIZE + EffSize(r) + EffAlign(r) < MEMSIZE_MOD
    /\ LARGE_BLOCK_HEADER_SIZE + EffAlign(r) < FALLBACK_MOD

\* The allocator keeps the promise of tca::allocator (module AllocatorContract).
Contract == INSTANCE AllocatorContract
ImplementsContract == Contract!Spec
==============================================================================
