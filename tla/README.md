# Verification of the Towncat C++ library

TLA+ models, model-checking runs and machine-checked proofs about the C++11
library in `src/` (namespaces `tc` and `tca`).  The library has no test suite.
Its contract is `src/docs/core/memory.md`, `src/docs/core/array.md` and the
comments of its headers; the properties are taken from those and from the
assertions of the code, the models from the code alone.

## 1. Inventory

The library is a set of classes without a main program.  Everything that holds
memory takes a `tca::allocator*`, so allocators are below all the rest; smart
pointers and containers use them; streams use buffers and containers.  Threads
appear in three places: the counts of `control_block`, `tc::thread`, and
`synchronized_allocator`.

| Part | State it keeps | Operations | Interacts with | What is hard, and what makes it correct |
|---|---|---|---|---|
| allocator interface (`allocator`, `base_allocator`, `scope_allocator`) | parent pointer; default allocator; scoped allocator per thread | allocate, allocate_align, deallocate, set_default_allocator, scopes | every class | regions disjoint, aligned and large enough, or nullptr; scopes restore what they replaced |
| `free_list_allocator` | page list, tree of free blocks, headers and fallbacks inside the pages | allocate_align, deallocate, compact, destructor, moves | parent allocator (pages, large blocks), `raw_binary_tree` | long sequences of splits and merges keep the pages tiled; a header is found through a 16-bit offset; the parent may refuse; nullptr only when nothing could serve |
| `arena_free_list_allocator` | one buffer, headers, intrusive tree | allocate, deallocate, merge_all, moves | parent (the buffer), `raw_binary_tree` | block sizes are tree keys and change in place |
| `linear_allocator`, `pool_allocator` | buffer and offset; free list of buckets | allocate, deallocate, reset, moves | a pool's page comes from its parent | no bucket in two lists, across moves of pools; regions of all clients apart |
| `synchronized_allocator` | wrapped allocator, mutex | forwarding under the lock, moves | `mutex`, any allocator, threads | no torn update of the wrapped allocator; every lock released |
| `thread`, `mutex`, `cond_var`, `unique_lock` | thread state, handles | start, join, detach, get_state | the OS | state written by one thread and read by another; object moved while it runs |
| `raw_binary_tree` (`raw_avl_tree` unused) | linked nodes with heights | insert, remove by entry or key, ceil, floor, search, first, last | used by two allocators | equal keys, rotations |
| smart pointers (`shared_ptr`, `weak_ptr`, `control_block`; `unique_ptr`) | strong and weak count, handles | copy, move, assign, lock, release | threads | last release racing a lock; object and block freed exactly once |
| `hash_map`, `linked_hash_map` (`hash_set`, `properties` on top) | table of chains, size, load factor; the second also a doubly linked chain through the entries | put, insert, replace, remove, get, put_all, copies, moves, iterators, eviction | `array`, two allocators in a move | an allocation that fails between two steps; rehash; table and chain agree; nothing leaked |
| `array_list`, `linked_list` (`array` below them) | a buffer of slots and a size; a chain of nodes and a size | add, insert, set, remove, reserve, copies, moves | allocators | growth, an element copy that throws in the middle, moves between allocators |
| streams (`i/obstream` over `i/ofstream`, `imstream`, `omstream`; `i/odstream`; `rafstream`) | a buffer with its fill, position, the store below | read, write, skip, flush, reset, close | files, memory | partly done writes, short reads, a failure after part of the work |
| `basebuf` (`bytebuf`, `channel`) | position, limit, capacity, mark | put, get, flip, compact, clear | sockets, files | nothing lost or doubled over partial transfers |
| sockets | flags, descriptor, blocking mode | connect, bind, listen, accept, read, write, shutdown, close | the OS, `basebuf` | flags never say more than the descriptor is, after any failure; bytes in order |
| `tstring`, `cstr` | a text in the object or on the heap, its length | append, insert, remove, replace, trim, search, compare | allocators | the terminator, and the length at which a text changes its place |
| UTF conversions, `inet_address`, `ip_parser` | none | encode, decode, convert, parse, print | strings, sockets | boundaries of the ranges; every spelling of an address |
| `image_packer`, `image_tree` | a tree of rectangles, the images | add, pack | images | images apart and inside the atlas, whatever restarts |
| compressor, decompressor (LZ4) | block buffers, end flag | write, finish, read | streams | block framing |
| images, audio, logger, properties, files, system, maths, date, noise | mostly none | | | little state of their own |

`PROJECT.json` lists each part with its status, and the hazards at their lines.

## 2. Modules

| Module | What it models | State, and what it stands for |
|---|---|---|
| `AllocatorContract` | the promise of `tca::allocator` | `live`: pointer -> request |
| `FreeListAllocator` | `free_list_allocator` and the page helpers | `heap.pages/size/used/tree`: page list, `m_size`, use bit, linked blocks; `large`: large chunks; `fb`: the fallback below each pointer; `parent`: what the parent has granted |
| `BinaryTree`, `RawBinaryTree` | `raw_binary_tree`; the second gives it a client | `m_root`: nodes as nested tuples with the stored heights; `key` |
| `ArenaFreeList` | `arena_free_list_allocator` over `BinaryTree` | `arena.size/free/tree`: `m_size`, `m_free`, `m_tree` |
| `LinearAllocator`, `PoolAllocator` | `linear_allocator`; pools whose parent it is, next to direct clients | `linear.offset`, `granted`; per pool its life and fields; `clients`: buckets in use |
| `Thread`, `SynchronizedAllocator` | `tc::thread`; threads in a `synchronized_allocator` over a pool | `thr`: `m_state` and the OS thread; `wrapper`: life and mutex; `free_list`, `next`: the pool's links; `call`: place and locals in a call |
| `SharedPtr` | `shared_ptr`, `weak_ptr`, `control_block` | `held`: `m_control` of each handle; `strong`, `weak`; `phase` of object and block; `todo`: the steps left of each thread's call |
| `MapContract`, `OrderedMapContract` | what the comments of `hash_map.hpp` and `linked_hash_map.hpp` promise | `contents`: map -> finite function, or sequence of entries, eldest first; `ret` |
| `MapUtils`, `HashMap` | `map_utils.hpp`, and `hash_map` on it | per map the table (a sequence of chains), `m_size`, load factor, allocator; `out`: blocks each allocator has out |
| `Chains`, `LinkedHashMap` | the doubly linked chain that `linked_hash_map` and `linked_list` each spell out; `linked_hash_map` | the map's fields, `nodes` with `prev` and `next`, `head`, `tail`, `access_order` |
| `ListContract` | what the comments of both lists promise | `contents`: list -> sequence |
| `ArrayList`, `LinkedList` | `array_list`, `linked_list` | `slots` (raw, an element, or a moved-from element) and `_size`; nodes and `_size` |
| `DataFormat`, `OutputStreams`, `InputStreams` | what `odstream` and `idstream` make of a value; `obstream` over `ofstream` or `omstream`; `ibstream` over `ifstream` or `imstream` | `store`, `source`: file or memory; `out`, `in`: buffers with their fields; `faults`: calls of the environment that failed |
| `BaseBuf`, `Sockets` | `basebuf`; `tsocket` over `socket_impl` | `socks`: flags, descriptor, mode; `descriptors` (external): what the system knows of each |
| `TextContract`, `Strings` | what `string.hpp` promises of a text; `tstring` | `contents`; `cap`, `size`, `chars` with the terminator where the code stores it |
| `Unicode`, `Addresses` | `coder.hpp` with its namespaces `utf8` and `utf16`; `ip_parser.cpp` and `inetaddr.cpp` | none: operators |
| `Atlas` | `image_packer` and `image_tree` | `packer`: images, size, tree, place in the loop of `create_tree` |

`MC...` modules give the constants and compose parts for TLC:
`MCFreeListAllocator`, `MCRawBinaryTree` (both trees of the library),
`MCAllocators` (arena, pools, threads), `MCArenaFreeList`, `MCMaps`, `MCLists`,
`MCStreams` (a client that writes and reads back), `MCSockets` (clients that
exchange numbers through buffers), `MCText`.  Where a run holds several
components without common state, an execution is about one of them and the
others keep their initial state, so that nothing is multiplied.
The theorems are in `FreeListAllocatorProofs`, `PoolAllocatorProofs`,
`SynchronizedAllocatorProofs`, `SharedPtrProofs`, `ArrayListProofs`,
`LinkedListProofs` (both over `ListLemmas`: least numbers, and what the operators on
sequences return) and `SocketsProofs`.

**Free list.**  Addresses and layout constants are the code's, so padding,
splits and alignment are computed as there.  One action is one public call:
`allocate_align` includes its three attempts (tree, after `compact`, new page)
and the large path.  The tree is abstracted to the set of linked blocks;
`CeilEntry` allows any block of the least sufficient size, and `LookupsAreExact`
in `RawBinaryTree` shows that the tree's own answer is one of these.  The merge
of `compact()` is declarative (`Compacted`); `MCFreeListAllocator` has the two loops of
the source, and `CompactIsTheScan` says that they leave this heap, in whatever order
`page_list` names the pages.

**Shared pointers.**  A call is a queue of steps, one per atomic operation, per
destruction and per freeing, in the order of the code; threads interleave
between steps.  Two threads never use the *same handle* at once, as for any C++
object; they share control blocks.  `compare_exchange_weak` may fail spuriously.
The managed object owns one `shared_ptr`, so destroying one object may destroy
the next.

**Pool under a lock.**  In `SynchronizedAllocator` the pool's head and links are
read and written in separate steps, so only the mutex keeps callers apart;
without it (the mutant) both main properties fail.

**Maps, lists, strings.**  A call is a function from a call state (object,
allocations that still succeed, blocks taken, has it thrown) to another, so
`insert_all` is a fold of `insert` over what the iterator meets.  The quota is
chosen by the environment: each allocation, and in lists each copy of an
element, fails in some behaviour of each call.  A first table has 16 buckets in
the code (`MinCapacity`) and the buffer inside a string 16 bytes; the runs take
2, to reach every growth with few values.  The slots of an `array_list` tell raw
memory, an element and a moved-from element apart, so an element that is destroyed
twice, never, or built over is noticed (`ElementsInPlace`).

**Streams.**  Bytes are numbers below `Base` and a number takes `Width` of them, so
that a record crosses the borders of buffers.  One call of the environment
(`fwrite`, `fread`, `fflush`, `fclose`, an allocation) may fail before, after or in
the middle of its work.  `client` is auxiliary: what the client knows it has
written, whether a failure has been reported, and how far it has read.

**Sockets.**  The system is external: descriptors, connections, bytes on the
way.  A call takes or gives any part of a buffer, fails or times out.  A `connect` that
throws may have connected the descriptor all the same, without the flag; a later
`connect` may find the connection and succeed, or throw again.  `refused` is auxiliary:
the sockets whose last connect threw.  A client chooses the mode once it is connected,
since only `write` and `read` depend on it, and gives up its buffers with its socket.

**Text.**  `typed` grows one code point or word at a time, so TLC enumerates all
texts within the bounds.

## 3. Abstract specifications

Each mapping is from the detailed state to the value a client would see.

* `AllocatorContract`: a grant adds one aligned region apart from all others, a
  deallocation removes one, a destructor all.  `FreeListAllocator` (run and proof)
  and `ArenaFreeList` implement it; the mapping is the identity on `live`.
* `MapContract`, `OrderedMapContract`: maps are finite functions, or sequences of
  entries by age; a call changes them as its comment says or throws and changes
  nothing; `put_all` and `insert_all` may throw part way.  `HashMap` implements
  the first with *key -> what `find_entry` finds*, `LinkedHashMap` the second with
  *what the iterator visits* (`ImplementsMaps`).
* `ListContract`: lists are sequences.  Both lists implement it
  (`ImplementsLists`), so they also implement each other's behaviour.
* `TextContract`: texts are sequences of characters (`ImplementsText`).

## 4. Runs

| Run | Instance | What it shows |
|---|---|---|
| `free_list` | pages of 112 bytes, two chunk addresses, four requests | tiling, headers found, regions apart, parent paid back, honest nullptr, the contract |
| `shared_ptr` | 2 threads, 2 objects, 2 + 2 handles and the objects' own members | counts exact, no use after free, no revival, honest `lock`, every unreferenced block freed |
| `binary_tree` | 6 entries, 4 keys; up to 3 images of 6 shapes, 4 atlases, 5 allocations | sorted, removals and lookups exact, nearly balanced; images apart, atlas doubled only when no free part has room for the next image, with no cell lost |
| `allocators` | arena of 304 bytes with requests of 16 and 70; 2 pools of two kinds in 272 bytes; 3 threads, 2 wrappers, 3 buckets | headers tile the arena, each block linked or owned, the contract; buckets once, regions apart; no bucket doubled or lost, locks released |
| `maps` | 2 maps, 2 allocators, 3 keys (of which one has two values in `hash_map`), up to 5 allocations per call, eviction beyond 2 | both contracts, no leak, exact iteration |
| `lists` | 2 lists, 2 allocators, 2 values, up to 3 elements, up to 4 fallible steps per call | the contract, whole buffers and chains, no leak |
| `streams` | 2 buffered streams per side, buffers of 1 and 3 bytes, 3 records of 4 kinds, 1 fault | read back whole and in place; nothing skipped |
| `sockets` | 3 sockets, 3 descriptors, backlog 1, 2 bytes on the way, 3 bytes sent | flags match, whatever throws, but for a connection whose connect threw; bytes in order, also over such a connection once a second connect has flagged it |
| `text` | 2 strings of up to 3 characters, 1 of which fits into the object; 3 code points of 11; 4 octets, 8 groups, 8 words, one of them with a zero in front | the contract, the terminator, both encodings, addresses |
| `shared_ptr_array`, `arena_assert`, `linked_list_size` | see section 6 | |

*Why the bounds are enough.*  Two pages are the least number in which a block
could be merged across a page border or a page given back with another's size;
112 bytes hold up to four blocks, so front split, back split, both and neither
occur, and the requests are one small, one that leaves a remainder too small
for a block, one aligned beyond `MIN_ALIGN` and one at the large threshold.
The arena's buffer holds up to six headers.  Six tree entries give every
rotation, double ones included, and repeated keys on both sides.  Two handles and
two members over two objects give a last release in one thread while the other
copies or locks, and cascading destruction.  Three buckets and three threads let
two threads meet while a third holds a bucket.  Three keys that collide in two
buckets and part in three make chains that a rehash splits and reverses, and a
limit of two entries makes a put evict.  Three elements have a first, a middle
and a last, and take two growths; two lists with equal or different allocators
take both paths of a move.  A buffer of one byte is passed by at every write, one
of three splits a record of two numbers.  Three sockets are a listener, its client
and the accepted end.  Strings of up to three characters cross the border of the
object in both directions.  The code points are both ends of every range of both
encodings, but for those the code refuses (section 7).  Three images need up to
two restarts.

`CHECK_DEADLOCK FALSE` stands where the program really stops: after a destructor,
a failed assertion or undefined behaviour, when every descriptor was used
(`sockets`), or when a text is complete (`text`).  The trees, the shared
pointers, the maps, the lists and the streams cannot stop and are checked for
deadlock.  Symmetry is used for handles, threads, entries, maps, lists, values and
allocators, which are interchangeable in all definitions, and never in a run with
a liveness property.

*Fairness.*  `SharedPtr`: weak fairness of each thread's `Step`, the next
instruction of a call that has begun.  `SynchronizedAllocator`: weak fairness of
`InCall(t)`, the same for a thread inside a call of the wrapper.  Both say only
that the operating system keeps running a thread that can run; nothing is
assumed of clients making calls, nor of the order in which the mutex is granted.
`LocksAreReleased` needs no more: a thread that holds the lock is never blocked.

## 5. What is proved

**`FreeListAllocatorProofs`**, for every page size, request set, parent address set
and word width: the specification satisfies `TypeOK`, `Tiling`, `TreeIsFree`,
`FallbackFindsHeader`, `RegionsDisjoint`, `ParentBalance`, `BlockSizeCoversUsed` and
`NullMeansExhausted` and `CompactIsTheScan`, and implements `AllocatorContract`
(`KeepsContract`).

*Assumptions.*  `LayoutAssumption` (page size a multiple of 8 that holds a block,
alignments 1, 2, 4 or multiples of 8) and `RequestsFit` (no size cut to
32 bits, no offset to 16).  The code checks neither; section 7 says what
happens without them.

*Argument.*  The inductive invariant is
`Inv == TypeOK /\ Tiling /\ TreeIsFree /\ FallbackFindsHeader /\ ParentBalance`.
`RegionsDisjoint` is not inductive: that a new region avoids the old ones follows
only because each region lies within its own block (`FallbackFindsHeader`) and
blocks lie apart (`Tiling`, and `ParentBalance` for chunks).  In turn `deallocate`
frees the right block only because of `FallbackFindsHeader`, and a block may
be carved only if the tree holds no used block (`TreeIsFree`).  The lemmas
follow the code: `AlignUpIsAligned`, `RequestArithmetic` and `CarveArithmetic` for
the sizes, `CompactedOK`, `AddPageOK` and `CarvedOK` for what happens to a tiled
heap, then one lemma per call.  `NullIsHonest` rests on `CompactedRunsAreBlocks`:
after merging, a run of free bytes is one block, so `ceil_entry` would find it.
The refinement needs one fact more, that a granted pointer is not one the client
holds (`NewPointer`): the two would name two headers whose blocks overlap.

`CompactScans` closes the gap between `Compacted` and the code.  A turn of the inner
loop either merges or moves on, so its invariant `Midway` describes the heap in which
the page is merged up to the offset reached and untouched behind it: the heap that
`Compacted` gives if it merged only below that offset.  Every turn takes one more of the
old blocks, each of at least `MIN_BLOCK_SIZE`, so `MaxTurns` are enough and the loop
stops inside the page.  The outer loop merges one page after the other and disturbs
none of the others; the proof needs only that there are finitely many pages
(`IsHeap`), not their order.

**`PoolAllocatorProofs`**, for any number of pools, any constructor arguments and any
requests of pools and of direct clients: `BucketsOnce` and `PoolClientsApart`.

*Assumptions.*  `LinearAssumption` (the buffer is aligned, sizes are numbers, no
alignment is 0) and `PoolAssumption`: a bucket has at least one byte, and of two
alignments, which are powers of two, the smaller divides the larger.  The code
checks none of it; buckets of no bytes would all lie at one address.

*Argument.*  Neither property is inductive: that a new page's buckets touch nobody
follows only because whatever exists lies below `linear.offset`, and that a free
bucket can be given to a client only because free buckets are apart too.  So `Inv` speaks
of the *cells* of a pool, its free buckets and those its clients hold: any two of
them, of one pool or of two, lie apart by their pools' bucket sizes (`Apart`); they are
aligned, below the offset, and clear of direct clients (`Placed`); regions of the
linear allocator lie apart (`Given`); a list names no bucket twice or one in use
(`Stacked`); and a bucket in use fits its request (`Served`).  `BucketsOnce` follows
since cells of two pools that lie apart differ.  A call that touches no page only
renames the owners of cells: `BucketsInherited` asks from which pool each pool has
its buckets, which for a move is the other one (`Moves`).  For a new page,
`PageOfBuckets` computes where its buckets lie and `LinearGives` that this is above
all else.  A page of the wrong alignment stops the program at the assertion of
`page_new`, so the proof needs no alignment of the offset, which section 7 says
the code does not keep.

**`SynchronizedAllocatorProofs`**, for any number of threads, wrappers and
buckets: `HandedOutOnce` and `NoneLost`, from `SharedPoolAssumption` (a page has a
bucket, and no thread is the absent one).

*Argument.*  The inductive invariant has four parts.  `Locked`: all calls go
through the one wrapper in use and whoever is inside holds its mutex, so at most
one thread is inside (`OneInside`).  `AtHead`: what a thread inside has read of the
head, or stored in a link, still stands.  `Stock`: the free list is a chain
`s[n], ..., s[1]` of different buckets, and every bucket is in the chain, with a
client or in the hand of one call, and nowhere twice.  `NoneLost` is stated with
the least set that the links stay in; `ListedIsChain` shows that this is the
chain.  A step needs only what happens to a chain when a bucket is pushed, popped
or written elsewhere (`ChainPushed`, `ChainPopped`, `ChainFramed`).

**`SharedPtrProofs`**, for any number of threads, blocks, `shared_ptr`s and
`weak_ptr`s, from `HandlesAssumption` alone (finite sets, and a handle is of one
kind): `CountsExact`, `NoFault`, `NoRevival`, `LockFailsOnlyWhenExpired`, and
`AtRest`, the safety half of `Released`: when every thread is outside a call, a
block that nobody holds has been freed.

*Argument.*  The counts alone are not inductive: a copy in flight has taken the
pointer and not counted it yet, and only what it relies on says that the block is
still there.  The invariant `Inv` has three parts besides the types.  `CallsOK`:
a call is releases followed by at most one *job* (`take`, `inc`, `load`, `cas`), which
writes no handle that another call uses; a job that goes through a member has the
variable that owns the member's object in its `path`, and a block about to be
counted is one its source still holds (`Guarded`).  `Counted`: the counts are
`CountsExact`, of every block and not only of those in use.  `Lives`: the object is
alive exactly while somebody owns it or one call, and no second, is about to destroy
it; the block exists exactly while it is referenced or one call is about to
free it.  So the source of a job holds its block (`Owned`, `Watched`) and what it
uses is not freed; and the step that brings a count to zero is the only one that goes
on to destroy or free.  A step is described by what it takes off a call and puts
before it (`Turns`), from which the number of releases on their way follows
(`NumbersTurn`), and by the handles that change, from which the number of holders
follows; one lemma per action does the rest.

**`ArrayListProofs`**, for any finite set of lists, any values, allocators, initial
lists and capacities, and any allocation or copy that fails: `ElementsInPlace`, and
that `array_list` implements `ListContract` (`ListsKeepContract`).

*Assumptions.*  `ArrayListAssumption` (finitely many lists; the marks for raw memory
and for a moved-from element are no values) and `~AddToFullOfOne`: clients do not add
to a full list of capacity 1, for which `grow` makes no room.

*Argument.*  A call is a fold of element operations (construct, destroy, shift) over
slots, some of which fail, so what matters is what each *loop* leaves.  Folds are
recursive functions over sets of numbers; `FoldsAlong` shows, by induction on the
numbers, that a fold ends where a sequence of call states ends whose neighbours are one
operation apart.  For each loop of the code a lemma gives that sequence in closed
form: for `add_at`, the elements behind the hole shifted from the last down, and in
its catch block back again from the first up, which is the only order that overwrites
none still needed.  `Holds(l, s)` says that the buffer of `l` holds exactly `s` and raw
memory behind it; each call is a lemma from `Holds` to `Holds`, with the contents that
the contract gives or, after a throw, the old ones.

**`LinkedListProofs`**, for any set of lists, any values, allocators and initial
lists, and any node that is refused: `LinksAgree` for clients that do not call
`add(idx)` and `remove_at` in the middle (`~Middles`), since those miscount (section 6);
for those that do call them `ChainsStaySound`, which is the same with a size between 0
and the number of nodes (left out is only the call after which `_size` would wrap: a
`remove(v)` that finds a node in a list miscounted as empty, section 7); and for the
same clients that `linked_list` implements `ListContract` (`LinkedListsKeepContract`),
whose index is any position: after a miscount it may be another one than the client
means. From `LinkedListAssumption` (the bounds are numbers, the initial lists
sequences of values).

*Argument.*  The two chains of a list are one sequence of nodes, read from either
end: `Strung(l, s, n)` names it, and `Holds` adds the values.  The walks that the model
and `node_at` make along `next` or `prev` give that sequence and its reverse
(`WalkIs`, `StrungWalks`).  Each operation on the links (`LinkFirst`, `LinkLast`, the
insertion before a node, `Unlink`) is a lemma that says what becomes of `s`, whatever
the place, and so covers the cases of the code: no neighbour, one, or both.  `AddAll`
is a fold as above.  That nothing is leaked is not a matter of one list:
an allocator is owed the nodes of every list that uses it, so the accounts are
compared as sets of (list, node) pairs (`Owned`), of which a call changes the part of
its own lists (`Part`, `Rest`).

**`SocketsProofs`**, for any number of sockets, descriptors and bytes: `FlagsMatch`,
from `SocketsAssumption` (the bounds are numbers); and for buffers of any size
`InOrder`, from `BufferAssumption` (the bounds of the clients are numbers) besides.
Both hold for connects that throw before or after the connection is made.

*Argument for `FlagsMatch`.*  A call that throws half way has changed the flags, the descriptor or
neither, and every outcome must agree.  The invariant `Good` is stated of any
sockets and descriptors, so that a call that first creates the descriptor and
then goes on (`connect`, `bind`) takes two steps of the proof (`Opening`, then
`Connecting` or `Marking`).  Besides the flags (`Agree`) it needs who has a
descriptor (`Lives`: two objects never the same one), that the ends of a
connection name each other (`Ends`), and `Queues`: what waits for an `accept` is
a connection that no object has, not shut down, and waits once.  Without the
last an `accept` could give a socket a descriptor that another one holds.  What the flags
may leave out is `Told`: a socket whose descriptor is an end of a connection without the
flag (`Losses`) is in `refused`.  For it a call does one of three things, and each is a
frame that the argument for `InOrder` uses again: it connects nothing (`Calm`), it makes
a connection, with the flag or without (`Joined`), or it gives the flag to a connection
that is there, out of a queue or since a connect that threw (`Taken`).

*Argument for `InOrder`.*  It is not inductive.  It speaks of two objects, and an `accept`
gives an object a descriptor that has received bytes before, since the client may write
as soon as it is connected; and a second connect flags one whose peer may have written
since the first.  So `OrderInv` adds to `Good` what must hold of the descriptors alone.
An end of a connection is `Mute` while nobody sends from it or receives at it: it waits
in a queue, or its owner's connect threw.  `Early`: what a mute end
holds and what its peer's buffer holds is all that the peer has put, and that peer has
received nothing.  `Hushed`:
nothing is on the way from a mute end; both ends may be mute, and then neither holds
anything.  `Silent`: what is no connection has nothing in its inbox.  `Still`: an object that was never
connected has put and received nothing, so the counters of a client start with its
connection.  `Streamed` is `InOrder` itself, stated of sockets and descriptors as `Good`
is.  The buffers need `Apps`: the position never passes the limit and the limit never
the area.  The lemmas follow `basebuf` (`Putting`, `Flipping`, `Taking`, `Compacting`,
`Receiving`: which bytes are unread after each operation, for any position and limit),
then one per call; `Growing` is the step in which a byte is put, and `Splitting` the one
in which the system takes some of what is unread.

*Only model-checked.*  Liveness (`Released`, `LocksAreReleased`), which is out of
the prover's reach; the refinements of the maps and of the texts; everything about the
other modules.  Induction is done on the natural numbers, through a least
counterexample (`LeastNat`), and reaches recursive functions and folds over sequences.
What it does not reach is recursion over data: `BinaryTree`, `ArenaFreeList` and `Atlas`
compute on trees with `RECURSIVE` operators, which no module with a theorem may use, and
the maps fold over tables of chains with operators that the provers see as opaque
(`SelectSeq`).

## 6. Where code and documentation differ: the violation runs

1. `shared_ptr_array`: the copy assignment of `shared_ptr<T[]>` cleans up the
   array it has just been given (`shared_ptr_array_specialization.hpp:342`).
2. `arena_assert`: `merge_all` changes the key of a linked block
   (`arena_free_list_allocator.cpp:202`).
3. `linked_list_size`: an insertion in the middle of a `linked_list` is not
   counted, and a removal there is counted twice (`linked_list.hpp:1112`, `1247`).

## 7. Other disagreements, without a run of their own

Seen while modelling.  Where a model would be stopped by one of these, its
client keeps out of it, and the component's note in `PROJECT.json` says so.

*Allocators.*
* `free_list_allocator`: `alloc_from_parent` writes through the null pointer of a
  parent that refused (`freelist_allocator.cpp:242`; `memory.md:78` allows nullptr).
  The model has the step (`AllocLargeRefused`).  Sizes near 2^32 and alignments near
  2^16 are cut; a page size that is 1 or 2 modulo 4 is read back as a flag (182).
* The arena: a refused buffer leaves the fields zero, so an assertion of
  `allocate` divides by zero (64); a buffer shorter than a header wraps (49);
  `allocate_align` ignores the alignment asked for.
* `linear_allocator::allocate_align` adds the aligned offset to the old one
  (`linear_allocator.cpp:77`): 8 + align_up(8, 16) = 24 is not a multiple of 16.
* `pool_allocator`: `pages` is never assigned, so no page is given back (55), and
  the move constructor swaps unwritten members into its source
  (`pool_allocator.cpp:31`, against `pool_allocator.hpp:135`), whose destructor then
  uses them.
* The source of a moved `synchronized_allocator` keeps its pointer and a mutex of
  its own, so both wrappers can be inside one allocator at once.
* `scope_allocator(nullptr)` does not restore the enclosing scope's allocator.
* `unique_ptr`'s `alloc_deleter` frees with the default allocator
  (`unique_ptr.hpp:44`).

*Threads and smart pointers.*
* A `tc::thread` moved while it runs leaves the OS thread writing to the source.
* Pointer casts of a `shared_ptr` do not count; `p = p->next` reads the source
  after its owner was released; `shared_ptr<T[]>::use_count` always returns 0; a
  moved-from `shared_ptr` keeps what the target held before.
* `expected`: the copy constructor of an error copies the value member
  (`expected.hpp:499`), the move constructor swaps inactive members (512).

*Trees.*
* `raw_binary_tree` gives a leaf the height of a missing child, so it is not an
  AVL tree; `NearlyBalanced` states what does hold.
* `raw_avl_tree`: removal by key does not compile (550), `remove_min` uses the
  wrong side (503), `remove_ceil_entry` asserts false (556).

*Maps.*
* `hash_map::insert` and `linked_hash_map::put` compute the bucket from what a
  forwarded key left (`map_utils.hpp:130`, `linked_hash_map.hpp:1046`).  With any
  `HashAfterMove` other than `Hash`, `IterationMeetsAll` fails after one insertion.
* `hash_map::replace` always returns false (its comment: true if modified), and
  `equals` compares in iteration order, so maps with equal contents may differ.
* `linked_hash_map`'s copy constructor takes the default allocator, whatever the
  source's (318); a put of a key that is there moves it to the end in a map
  without access order too.
* `hash_set::clone` and `remove_all` do not compile.

*Lists and arrays.*
* `array_list`: a list of capacity 1 does not grow (`array_list.hpp:1097`, constant
  `AddToFullOfOne`); `equals` of two empty lists depends on their buffers; adding an
  element of the list itself reads it after the reallocation; the copy assignment
  from a list that never allocated throws in a debug build.
* `linked_list::remove(v)` does not test the size, so after miscounts (section 6) that
  left 0 for nodes that are there `_size` wraps.
* `quick_sort` keeps a reference to its pivot while it swaps (`arrays.hpp:712`):
  (1,2,0,0) becomes (0,1,0,2).  `binary_search` wraps below index 0 (678).

*Streams and buffers.*
* `obstream::free` tests `!m_allocator` (`obstream.cpp:75`) and the move assignment
  `!m_out` (51); `ibstream`'s constructor does not test its allocation, and its
  read of no bytes is the end of the stream (`ibstream.cpp:105`), so `idstream`
  throws for an empty text.
* An `omstream` closed before its first write stays writable.
* `rafstream`: mode "rw" truncates (56), `read` tests for 0 where the end is
  `eof_value` (241), `skip_bytes` wraps (189).
* `basebuf`: `limit()` returns the position (85), `position(n)` drops the mark wrongly
  (74) and refuses `n == capacity` in a debug build (71), `compact` of an empty buffer
  does nothing (259), `flip` keeps the mark.  `bytebuf`'s move constructor nulls its
  own data (77).
* `lz4_decompressor::set_input` keeps the old read position (65);
  `compressor::finished` is not initialised (15).

*Sockets.*
* `close` leaves the descriptor open (`bsd_socket_class.cpp:132`, against
  `socket.hpp:15`); `read(basebuf)` stores at the start of the buffer and not at its
  position (1157); `accept` into a used socket keeps its flags and loses its
  descriptor; `sock_handle`'s move constructor swaps an unset handle (21).
* `connect` may throw with the descriptor connected, in either mode: `get_sock_name` fails
  after `::connect` (`bsd_socket_class.cpp:88`), or `::connect` was interrupted, timed out
  or did not block while the handshake goes on (`bsd_socket.cpp:363`).  `CONNECTED` stays
  unset (`socket.hpp:1071` is not reached), so `write` and `read` refuse a connection
  that is there; a second `connect` may find it or be refused.  `FlagsMatch` states how
  far the flags can be off.  In the model a handshake that goes on ends at once.

*Text.*
* `tstring::contains(s, len)` passes its length as the index to start from
  (`string.cpp:309`), so it is always false; `reserve` below the inline size on a heap
  string leaves no terminator at its end (173); `replace_all` wraps when the
  text gets shorter than the matcher (436) and never ends for an empty matcher (351);
  `append` of the string's own characters reads a freed buffer; `trim` removes
  characters beyond ASCII where `TCHAR` is signed (556).
* UTF-8: 0x7f, 0x7ff, 0xffff and 0x10ffff are refused (`coder.hpp:83-107`, `<` for
  `<=`); a bounded conversion into no space stores the terminator outside it.
* `parse_v4` takes zeroes in front of an octet: `00.0.0.0`, and `010.0.0.1` as 10.0.0.1,
  since `strtol` is called with base 10 (`ip_parser.cpp:83`).
* `parse_v6` ignores unknown words, dots and a single colon at the end, and cuts
  groups above 0xffff.

*Images and logging.*
* The atlas can double although the images would fit: splits are never taken back, so
  an atlas of 4x3 with images of 2x1 and then 2x3 becomes 8x6, against the note of the
  constructor, by which it grows only when it is too small, and to the least size
  (`image_packer.hpp:87`).  `DoublesOnlyWhenShort` states what does hold.
* An image that fills the whole atlas is neither drawn nor given a uv
  (`image_tree.hpp:195`); `pack` after one that threw draws a part
  (`image_packer.cpp:103`); width 0 doubles for ever; moves do not copy `m_cnt_imgs`.
* Move assignment of `logger` calls itself (`logger.cpp:30`).

## 8. Not modelled

*In the modelled parts*: moves of `free_list_allocator`, the arena, the
`linear_allocator` and threads; constructors of managed objects that throw, custom
deleters; the initializer_list constructors of the maps; sizes near 2^64; the mark of
`basebuf`; buffers of the caller's in `obstream`; malformed UTF; pixels.  The notes of `PROJECT.json` name the rest.

*Other parts*, each with its reason there: platform calls (`os_allocator`, files,
system, name resolution), where the state is not the program's; floating-point code
(maths, noise, random); vendored code (the stb headers, LZ4); values of two
alternatives (`expected`, `optional`, `unique_ptr`); formatting; dead code
(`linear_compact_allocator`, `raw_avl_tree`).

*Share of the source.*  Of 56 366 lines, 13 300 are vendored and 22 400 are blank or
comments, mostly the Russian documentation of the headers.  The definitions stand
for some 6 000 of the 20 700 that remain, which are all classes that keep state of
their own and are built from others of this library; what is left is the list
above and thin overloads of the operations modelled (iterators, accessors,
`emplace` forms, conversions), which change nothing the models do not.

## 9. Plan

What is left, the most important first:

1. *Theorems*: `NothingSkipped` of the streams; the contract of `linked_hash_map`,
   whose chain the lemmas about `Chains` already describe.
2. *Moves and scopes*: `free_list_allocator` moves, which swap all but the parent;
   threads moved while they run; two wrappers of one allocator after a move;
   `scope_allocator` stacks.
3. *Compressor and decompressor* over the streams: what is written is read back,
   however the blocks fall.
4. *Random access files* and the remaining constructors of the maps.

Runs stay one per question: new components are composed into runs with those
they interact with, and a run of section 6 gives way when its question is
settled.
