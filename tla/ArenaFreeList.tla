--------------------------- MODULE ArenaFreeList ---------------------------
(***************************************************************************)
(* tca::arena_free_list_allocator: one buffer tiled by blocks of which the *)
(* free ones are linked in a raw_binary_tree keyed by their size.  The key *)
(* is the m_size field itself, so a split or a merge changes it while the  *)
(* block is linked.  Offsets are relative to m_start, which is aligned.    *)
(*                                                                         *)
(* The model is the build with assertions: a failed one ends the program.  *)
(***************************************************************************)
EXTENDS BinaryTree, FiniteSets

CONSTANTS
  m_free_size,  \* length of the buffer after m_start
  m_alignas,    \* the alignment the constructor was given
  Requests      \* the [sz, align] pairs the client asks for

MEMBLOCK == 32   \* sizeof(memblock)
AlignUp(x, a) == ((x + a - 1) \div a) * a
m_header_size == AlignUp(MEMBLOCK, m_alignas)

ArenaAssumption ==
  /\ m_alignas \in Nat \ {0} /\ m_free_size \in Nat
  /\ m_free_size >= m_header_size
  /\ \A r \in Requests : r.sz \in Nat /\ r.align \in Nat \ {0}

VARIABLES
  arena,    \* [size, free, tree]: m_size and m_free of every header, and m_tree
  live,     \* offset of a pointer the client holds -> its request
  m_min_block_size,
  state     \* "alive", "no_data", "assert_failed", "div_by_zero", "destroyed"

vars == << arena, live, m_min_block_size, state >>

Put(f, k, v) == [x \in DOMAIN f \cup {k} |-> IF x = k THEN v ELSE f[x]]

\* link: the block's key is its size at this moment.
Link(a, b) == [a EXCEPT !.free = @ \cup {b}, !.tree = insert_entry0(@, b, a.size)]
Emptied == [size |-> << >>, free |-> {}, tree |-> Nil]

\* init links one block over the whole buffer.  The constructor that takes the
\* buffer from a parent computes m_min_block_size before m_alignas is set.
Init ==
  /\ live = << >>
  /\ \/ /\ state = "alive"
        /\ m_min_block_size \in {m_header_size, m_header_size + m_alignas}
        /\ arena = Link([Emptied EXCEPT !.size = Put(@, 0, m_free_size - m_header_size)], 0)
     \/ /\ state = "no_data"    \* the parent returned nullptr
        /\ m_min_block_size = 0 /\ arena = Emptied
-----------------------------------------------------------------------------
After(a, b) == b + m_header_size + a.size[b]

\* merge_all: a free block swallows every free block after it.  The swallowed
\* block is taken out of the tree, the block that grows stays linked.
Grown(a, b, n) == a.size[b] + m_header_size + a.size[n]
Swallow(a, b, n) ==
  [size |-> [x \in DOMAIN a.size \ {n} |-> IF x = b THEN Grown(a, b, n) ELSE a.size[x]],
   free |-> a.free \ {n},
   tree |-> remove_entry0(a.tree, n, a.size).tree]
Finds(a, b) == remove_entry0(a.tree, b, a.size).deleted = << b >>

RECURSIVE MergeFrom(_, _)
MergeFrom(a, off) ==
  IF off >= m_free_size THEN [arena |-> a, ok |-> TRUE]
  ELSE LET n == After(a, off)
       IN IF off \in a.free /\ n < m_free_size /\ n \in a.free
          THEN IF Finds(a, n) THEN MergeFrom(Swallow(a, off, n), off)
               ELSE [arena |-> a, ok |-> FALSE]     \* assert, line 200
          ELSE MergeFrom(a, n)
merge_all(a) == MergeFrom(a, 0)

can_split(a, b, piece) == a.size[b] > piece /\ a.size[b] - piece >= m_min_block_size

\* Mutants: the rest is not linked; its header lies over the client's bytes.
SplitNoLink(a, b, piece) ==
  LET n == b + m_header_size + piece
  IN [a EXCEPT !.size = Put(Put(a.size, n, a.size[b] - piece - m_header_size), b, piece)]
SplitOverlaps(a, b, piece) ==
  LET n == b + piece
      sizes == Put(Put(a.size, n, a.size[b] - piece), b, piece)
  IN Link([a EXCEPT !.size = sizes], n)
\* split: the rest becomes a block of its own and is linked after block's key
\* was changed in place.
split(a, b, piece) ==
  LET n == b + m_header_size + piece
      sizes == Put(Put(a.size, n, a.size[b] - piece - m_header_size), b, piece)
  IN Link([a EXCEPT !.size = sizes], n)

\* Mutant: the block is handed out and stays in the tree.
ServeStaysLinked(a, b, r) ==
  LET piece == AlignUp(r.sz, m_alignas)
      s == IF can_split(a, b, piece) THEN split(a, b, piece) ELSE a
  IN /\ arena' = [s EXCEPT !.free = @ \ {b}]
     /\ live' = Put(live, b + m_header_size, r)
     /\ UNCHANGED << m_min_block_size, state >>

\* unlink, and the pointer behind the header goes to the client.
Serve(a, b, r) ==
  LET piece == AlignUp(r.sz, m_alignas)
      s == IF can_split(a, b, piece) THEN split(a, b, piece) ELSE a
  IN IF Finds(s, b)
     THEN /\ arena' = [s EXCEPT !.free = @ \ {b},
                                !.tree = remove_entry0(@, b, s.size).tree]
          /\ live' = Put(live, b + m_header_size, r)
          /\ UNCHANGED << m_min_block_size, state >>
     ELSE /\ state' = "assert_failed"                \* assert, line 138
          /\ UNCHANGED << arena, live, m_min_block_size >>

Fitting(a, r) == ceil_entry(a.tree, AlignUp(r.sz, m_alignas), a.size)

AllocFound(r) ==
  \E b \in DOMAIN arena.size : Fitting(arena, r) = << b >> /\ Serve(arena, b, r)

AllocMerged(r) ==
  LET m == merge_all(arena)
  IN /\ Fitting(arena, r) = Nil /\ m.ok
     /\ \E b \in DOMAIN m.arena.size : Fitting(m.arena, r) = << b >> /\ Serve(m.arena, b, r)

AllocNull(r) ==
  LET m == merge_all(arena)
  IN /\ Fitting(arena, r) = Nil /\ m.ok /\ Fitting(m.arena, r) = Nil
     /\ arena' = m.arena
     /\ UNCHANGED << live, m_min_block_size, state >>

MergeAsserts(r) ==
  /\ Fitting(arena, r) = Nil /\ ~merge_all(arena).ok
  /\ state' = "assert_failed"
  /\ UNCHANGED << arena, live, m_min_block_size >>

\* The alignment asked for is not looked at.
allocate_align(r) ==
  /\ state = "alive"
  /\ AllocFound(r) \/ AllocMerged(r) \/ AllocNull(r) \/ MergeAsserts(r)

\* allocate of an allocator whose parent refused the buffer: m_alignas is
\* still 0 when allocate asserts p % m_alignas == 0.
AllocNoData ==
  /\ state = "no_data" /\ state' = "div_by_zero"
  /\ UNCHANGED << arena, live, m_min_block_size >>

deallocate(p) ==
  /\ state = "alive"
  /\ arena' = Link(arena, p - m_header_size)
  /\ live' = [q \in DOMAIN live \ {p} |-> live[q]]
  /\ UNCHANGED << m_min_block_size, state >>

destroy ==
  /\ state \in {"alive", "no_data"}
  /\ state' = "destroyed" /\ arena' = Emptied /\ live' = << >>
  /\ UNCHANGED m_min_block_size

Next ==
  \/ \E r \in Requests : allocate_align(r)
  \/ AllocNoData
  \/ \E p \in DOMAIN live : deallocate(p)
  \/ destroy

Spec == Init /\ [][Next]_vars
-----------------------------------------------------------------------------
(* Properties *)

\* Walking from header to header, as merge_all and print_log do, meets every
\* header once and ends exactly at the end of the buffer.
RECURSIVE Walk(_, _)
Walk(a, off) ==
  IF off >= m_free_size THEN {off}
  ELSE IF off \in DOMAIN a.size THEN {off} \cup Walk(a, After(a, off)) ELSE {off}
HeadersChain ==
  DOMAIN arena.size # {} => Walk(arena, 0) = DOMAIN arena.size \cup {m_free_size}

\* Every block is either linked once or owned by one pointer of the client.
LinkedOrOwned ==
  /\ Entries(arena.tree) = arena.free
  /\ Cardinality(Subtrees(arena.tree)) = Cardinality(arena.free)
  /\ {p - m_header_size : p \in DOMAIN live} = DOMAIN arena.size \ arena.free

\* The assertions of unlink and merge_all: the tree finds the block it holds.
NoAssertFails == state # "assert_failed"

\* The allocator keeps the promise of tca::allocator (as long as no request
\* wants more than the alignment the allocator was made with).
Contract == INSTANCE AllocatorContract
ImplementsContract == Contract!Spec
=============================================================================
