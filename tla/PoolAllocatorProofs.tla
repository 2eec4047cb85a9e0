------------------------ MODULE PoolAllocatorProofs ------------------------
(***************************************************************************)
(* pool_allocator over a linear_allocator, for any number of pools and any *)
(* parameters: whatever is moved where, a bucket has one owner, and the    *)
(* regions of all clients lie apart with the alignment asked for.          *)
(***************************************************************************)
EXTENDS PoolAllocator, TLAPS

PoolAligns == {GreaterOf(c.align, BUCKET_ALIGN) : c \in Params}

\* Fields that no bucket comes from (of a default constructed pool, or swapped
\* with those of an object that nothing had written), and all others.
Blank(f) == f.align = 0 /\ f.bucket_size = 0 /\ f.cnt = 0 /\ f.free_list = << >>
Cut(f)   == f.align \in PoolAligns /\ f.bucket_size > 0 /\ f.bucket_size % f.align = 0

Fields == [set : BOOLEAN, pages : {<< >>}, free_list : Seq(Nat), align : Nat, bucket_size : Nat,
           cnt : Nat]
TypeOK ==
  /\ linear \in [buffer : BOOLEAN, offset : Nat]
  /\ pool \in [Pools -> [st : {"none", "usable", "moved"}, parent : BOOLEAN, f : Fields]]
  /\ \A a \in DOMAIN granted : a \in Nat /\ granted[a].sz \in Nat
  /\ \A b \in DOMAIN clients : b \in Nat /\ clients[b] \in [sz : Nat, align : Alignments, by : Pools]
  /\ \A p \in Pools : Blank(pool[p].f) \/ Cut(pool[p].f)
  /\ \A p \in Pools : pool[p].st = "none" => pool[p].f.free_list = << >>

\* A bucket with a client is of a pool in use that accepted the request.
Served == \A b \in DOMAIN clients :
  pool[clients[b].by].st = "usable" /\ Accepts(pool[clients[b].by].f, clients[b])

\* A free list names no bucket twice and none that its pool's clients hold.
Stacked == \A p \in Pools : IsInjective(pool[p].f.free_list) /\ FreeOf(p) \cap By(p) = {}

\* The buckets of a pool, free or not, and the bytes of each.
Cells(p)  == FreeOf(p) \cup By(p)
Size(p)   == pool[p].f.bucket_size
Clear(x, n, y, m) == x + n <= y \/ y + m <= x

\* Any two buckets lie apart, of one pool or of two.
Apart == \A p, q \in Pools : \A b \in Cells(p), c \in Cells(q) :
  (p = q /\ b = c) \/ Clear(b, Size(p), c, Size(q))

\* A bucket lies in what the linear allocator has given, aligned, and clear of
\* its direct clients.
Placed == \A p \in Pools : \A b \in Cells(p) :
  /\ b + Size(p) <= Buffer + linear.offset
  /\ b % pool[p].f.align = 0
  /\ \A a \in DOMAIN granted \ Pages : Clear(b, Size(p), a, granted[a].sz)

\* What the linear allocator has given lies apart and below its offset.
Given == \A a \in DOMAIN granted :
  /\ a + granted[a].sz <= Buffer + linear.offset
  /\ \A c \in DOMAIN granted : a < c => a + granted[a].sz <= c

Inv == TypeOK /\ Served /\ Stacked /\ Apart /\ Placed /\ Given
-----------------------------------------------------------------------------
(* Arithmetic *)

LEMMA DivMod ==
  ASSUME NEW x \in Nat, NEW a \in Nat \ {0}
  PROVE  /\ x \div a \in Nat /\ (x % a) \in 0 .. (a - 1)
         /\ x = (a * (x \div a)) + (x % a)
BY Z3

LEMMA Factor ==
  ASSUME NEW x \in Nat, NEW a \in Nat \ {0}
  PROVE  x % a = 0 <=> \E k \in Nat : x = a * k
<1>1. ASSUME x % a = 0 PROVE \E k \in Nat : x = a * k
  <2> DEFINE k == x \div a
  <2>1. x = (a * k) + 0 /\ k \in Nat BY <1>1, DivMod
  <2> HIDE DEF k
  <2>2. a * k \in Nat BY <2>1, Z3
  <2>3. x = a * k BY <2>1, <2>2
  <2> QED BY <2>1, <2>3
<1>2. \A k \in Nat : (a * k) % a = 0 BY Z3
<1> QED BY <1>1, <1>2

\* Sums and multiples of what is aligned are aligned, to what divides it too.
LEMMA Multiples ==
  ASSUME NEW x \in Nat, NEW y \in Nat, NEW n \in Nat, NEW a \in Nat \ {0},
         x % a = 0, y % a = 0
  PROVE  (x + n * y) % a = 0
<1>1. PICK k \in Nat : x = a * k BY Factor
<1>2. PICK m \in Nat : y = a * m BY Factor
<1>3. n * (a * m) = a * (n * m) /\ n * m \in Nat BY Z3
<1>4. a * k + a * (n * m) = a * (k + n * m) BY <1>3, Z3
<1>5. x + n * y = a * (k + n * m) /\ k + n * m \in Nat /\ x + n * y \in Nat
  BY <1>1, <1>2, <1>3, <1>4
<1> QED BY <1>5, Factor

LEMMA Divides ==
  ASSUME NEW x \in Nat, NEW a \in Nat \ {0}, NEW d \in Nat \ {0}, x % a = 0, a % d = 0
  PROVE  x % d = 0
<1>1. PICK k \in Nat : x = a * k BY Factor
<1>2. PICK m \in Nat : a = d * m BY Factor
<1>3. (d * m) * k = d * (m * k) /\ m * k \in Nat BY Z3
<1> QED BY <1>1, <1>2, <1>3, Factor

LEMMA AlignUpIsAligned ==
  ASSUME NEW x \in Nat, NEW a \in Nat \ {0}
  PROVE  AlignUp(x, a) \in Nat /\ AlignUp(x, a) >= x /\ AlignUp(x, a) % a = 0
<1> DEFINE q == (x + a - 1) \div a
<1> DEFINE k == (x + a - 1) % a
<1>1. x + a - 1 \in Nat OBVIOUS
<1>2. q \in Nat /\ k \in 0 .. (a - 1) /\ x + a - 1 = (a * q) + k BY <1>1, DivMod
<1>3. AlignUp(x, a) = q * a BY DEF AlignUp
<1> HIDE DEF q, k
<1>4. q * a = a * q /\ a * q \in Nat BY <1>2, Z3
<1>5. (a * q) % a = 0 BY <1>2, <1>4, Factor
<1> QED BY <1>2, <1>3, <1>4, <1>5

\* The buckets i and j of a page, counted from its end.
LEMMA Spaced ==
  ASSUME NEW n \in Nat, NEW size \in Nat, NEW i \in 1 .. n, NEW j \in 1 .. n
  PROVE  /\ (n - i) * size \in Nat /\ (n - i) * size + size <= n * size
         /\ i > j => (n - i) * size + size <= (n - j) * size
<1>1. (n - i) * size \in Nat /\ (n - j) * size \in Nat BY Z3
<1>2. n * size = (n - i) * size + i * size BY Z3
<1>3. i * size = size + (i - 1) * size /\ (i - 1) * size >= 0 BY Z3
<1>4. ASSUME i > j PROVE (n - i) * size + size <= (n - j) * size
  <2>1. (n - j) * size = (n - i) * size + (i - j) * size BY Z3
  <2>2. (i - j) * size = size + (i - j - 1) * size /\ (i - j - 1) * size >= 0 BY <1>4, Z3
  <2> QED BY <1>1, <2>1, <2>2
<1> QED BY <1>1, <1>2, <1>3, <1>4
-----------------------------------------------------------------------------
(* Free lists *)

LEMMA PopsOne ==
  ASSUME NEW s \in Seq(Nat), s # << >>
  PROVE  /\ Tail(s) \in Seq(Nat) /\ Head(s) \in Nat /\ Head(s) \in ToSet(s)
         /\ ToSet(Tail(s)) \subseteq ToSet(s)
         /\ IsInjective(s) => IsInjective(Tail(s)) /\ Head(s) \notin ToSet(Tail(s))
<1>1. /\ Tail(s) \in Seq(Nat) /\ Len(Tail(s)) = Len(s) - 1 /\ Head(s) = s[1] /\ 1 \in DOMAIN s
      /\ \A i \in DOMAIN Tail(s) : i + 1 \in DOMAIN s /\ Tail(s)[i] = s[i + 1] /\ i \in Nat /\ i > 0
      /\ s[1] \in Nat
  <2>1. Tail(s) \in Seq(Nat) /\ Len(Tail(s)) = Len(s) - 1 /\ Head(s) = s[1] OBVIOUS
  <2>2. DOMAIN s = 1 .. Len(s) /\ 1 \in DOMAIN s /\ s[1] \in Nat OBVIOUS
  <2>3. \A i \in 1 .. Len(s) - 1 : Tail(s)[i] = s[i + 1] OBVIOUS
  <2>4. DOMAIN Tail(s) = 1 .. Len(s) - 1 BY <2>1
  <2>5. \A i \in 1 .. Len(s) - 1 : i + 1 \in 1 .. Len(s) /\ i \in Nat /\ i > 0 OBVIOUS
  <2> QED BY <2>1, <2>2, <2>3, <2>4, <2>5
<1> DEFINE q == Tail(s)
<1> HIDE DEF q
<1>2. /\ q \in Seq(Nat) /\ Head(s) \in Nat /\ Head(s) = s[1] /\ 1 \in DOMAIN s
      /\ \A i \in DOMAIN q : i + 1 \in DOMAIN s /\ q[i] = s[i + 1] /\ i + 1 # 1
      /\ \A i, j \in DOMAIN q : i + 1 = j + 1 => i = j
  BY <1>1 DEF q
<1>3. Head(s) \in ToSet(s) BY <1>2 DEF ToSet
<1>4. ToSet(q) \subseteq ToSet(s)
  <2>1. \A i \in DOMAIN q : q[i] \in ToSet(s) BY <1>2 DEF ToSet
  <2> QED BY <2>1 DEF ToSet
<1>5. ASSUME IsInjective(s) PROVE IsInjective(q)
  <2>1. ASSUME NEW i \in DOMAIN q, NEW j \in DOMAIN q, q[i] = q[j] PROVE i = j
    <3>1. s[i + 1] = s[j + 1] /\ i + 1 \in DOMAIN s /\ j + 1 \in DOMAIN s BY <1>2, <2>1
    <3>2. i + 1 = j + 1 BY <3>1, <1>5 DEF IsInjective
    <3> QED BY <3>2, <1>2
  <2> QED BY <2>1 DEF IsInjective
<1>6. ASSUME IsInjective(s) PROVE Head(s) \notin ToSet(q)
  <2>1. ASSUME NEW i \in DOMAIN q, q[i] = s[1] PROVE FALSE
    <3>1. s[i + 1] = s[1] /\ i + 1 \in DOMAIN s BY <1>2, <2>1
    <3>2. i + 1 = 1 BY <3>1, <1>2, <1>6 DEF IsInjective
    <3> QED BY <3>2, <1>2
  <2> QED BY <2>1, <1>2 DEF ToSet
<1> QED BY <1>2, <1>3, <1>4, <1>5, <1>6 DEF q

LEMMA PushesOne ==
  ASSUME NEW s \in Seq(Nat), NEW b \in Nat
  PROVE  /\ << b >> \o s \in Seq(Nat) /\ ToSet(<< b >> \o s) = ToSet(s) \cup {b}
         /\ IsInjective(s) /\ b \notin ToSet(s) => IsInjective(<< b >> \o s)
<1> DEFINE q == << b >> \o s
<1>1. /\ q \in Seq(Nat) /\ q[1] = b /\ DOMAIN q = 1 .. Len(s) + 1 /\ DOMAIN s = 1 .. Len(s)
      /\ Len(s) \in Nat /\ \A i \in 1 .. Len(s) : q[i + 1] = s[i]
  OBVIOUS
<1> HIDE DEF q
<1>2. ASSUME NEW i \in DOMAIN q, i # 1
      PROVE  i - 1 \in DOMAIN s /\ q[i] = s[i - 1] /\ i \in Nat
  <2> DEFINE n == Len(s)
  <2>0. n \in Nat /\ i \in 1 .. n + 1 BY <1>1
  <2> HIDE DEF n
  <2>1. i - 1 \in 1 .. Len(s) /\ (i - 1) + 1 = i
    <3>1. i - 1 \in 1 .. n /\ (i - 1) + 1 = i BY <2>0, <1>2
    <3> QED BY <3>1 DEF n
  <2>2. q[(i - 1) + 1] = s[i - 1] BY <1>1, <2>1
  <2> QED BY <1>1, <2>1, <2>2
<1>3. ToSet(q) = ToSet(s) \cup {b}
  <2>1. \A i \in DOMAIN s : s[i] \in ToSet(q)
    <3> TAKE i \in DOMAIN s
    <3>1. i + 1 \in DOMAIN q /\ q[i + 1] = s[i] BY <1>1
    <3> QED BY <3>1 DEF ToSet
  <2>2. \A i \in DOMAIN q : q[i] \in ToSet(s) \cup {b} BY <1>1, <1>2 DEF ToSet
  <2>3. b \in ToSet(q)
    <3>1. 1 \in DOMAIN q BY <1>1
    <3> QED BY <1>1, <3>1 DEF ToSet
  <2> QED BY <2>1, <2>2, <2>3 DEF ToSet
<1>4. ASSUME IsInjective(s), b \notin ToSet(s) PROVE IsInjective(q)
  <2>1. ASSUME NEW i \in DOMAIN q, NEW j \in DOMAIN q, q[i] = q[j] PROVE i = j
    <3>1. CASE i = 1 /\ j # 1 BY <1>1, <1>2, <1>4, <2>1, <3>1 DEF ToSet
    <3>2. CASE i # 1 /\ j = 1 BY <1>1, <1>2, <1>4, <2>1, <3>2 DEF ToSet
    <3>3. CASE i # 1 /\ j # 1
      <4>1. s[i - 1] = s[j - 1] /\ i - 1 \in DOMAIN s /\ j - 1 \in DOMAIN s /\ i \in Nat /\ j \in Nat
        BY <1>2, <2>1, <3>3
      <4>2. i - 1 = j - 1 BY <4>1, <1>4 DEF IsInjective
      <4> QED BY <4>1, <4>2
    <3> QED BY <3>1, <3>2, <3>3
  <2> QED BY <2>1 DEF IsInjective
<1> QED BY <1>1, <1>3, <1>4 DEF q
-----------------------------------------------------------------------------
(* The buckets of a page *)

LEMMA AlignmentsAre == Alignments \subseteq Nat \ {0}
BY PoolAssumption DEF Alignments, BUCKET_ALIGN

LEMMA CutFields ==
  ASSUME NEW f \in Fields, Cut(f)
  PROVE  /\ f.align \in Alignments /\ f.align \in Nat \ {0}
         /\ GreaterOf(f.align, BUCKET_ALIGN) = f.align
         /\ header_size(f) \in Nat /\ header_size(f) >= PAGE_HEADER /\ header_size(f) % f.align = 0
<1>1. PICK c \in Params : f.align = GreaterOf(c.align, BUCKET_ALIGN) BY DEF Cut, PoolAligns
<1>2. c.align \in Nat /\ c.align \in Alignments /\ BUCKET_ALIGN \in Alignments
  BY PoolAssumption DEF Alignments
<1>3. /\ f.align \in Alignments /\ f.align \in Nat \ {0}
      /\ GreaterOf(f.align, BUCKET_ALIGN) = f.align
  BY <1>1, <1>2 DEF GreaterOf, BUCKET_ALIGN
<1>4. header_size(f) = AlignUp(PAGE_HEADER, f.align) BY <1>3 DEF header_size
<1>5. PAGE_HEADER \in Nat BY DEF PAGE_HEADER
<1> QED BY <1>3, <1>4, <1>5, AlignUpIsAligned

LEMMA PageOfBuckets ==
  ASSUME NEW f \in Fields, Cut(f), f.cnt > 0, NEW page \in Nat, page % f.align = 0
  PROVE  /\ BucketsOf(f, page) \in Seq(Nat) /\ BucketsOf(f, page) # << >>
         /\ IsInjective(BucketsOf(f, page))
         /\ \A b \in ToSet(BucketsOf(f, page)) :
              /\ b > page /\ b + f.bucket_size <= page + PageRequest(f).sz
              /\ b % f.align = 0
              /\ \A c \in ToSet(BucketsOf(f, page)) :
                   b = c \/ Clear(b, f.bucket_size, c, f.bucket_size)
<1> DEFINE n == f.cnt
<1> DEFINE size == f.bucket_size
<1> DEFINE first == page + header_size(f)
<1> DEFINE at == [i \in 1 .. n |-> first + (n - i) * size]
<1>1. n \in Nat /\ n > 0 /\ size \in Nat /\ size > 0 /\ size % f.align = 0 /\ f.align \in Nat \ {0}
  BY CutFields DEF Fields, Cut
<1>2. first \in Nat /\ first > page /\ first % f.align = 0
  <2>1. header_size(f) \in Nat /\ header_size(f) > 0 /\ header_size(f) % f.align = 0
    BY CutFields DEF PAGE_HEADER
  <2> DEFINE h == header_size(f)
  <2> DEFINE al == f.align
  <2> HIDE DEF h, al, first
  <2>2. h \in Nat /\ h % al = 0 /\ page % al = 0 /\ al \in Nat \ {0} BY <1>1, <2>1 DEF h, al
  <2>3. (page + 1 * h) % al = 0 BY <2>2, Multiples
  <2>4. 1 * h = h BY <2>2
  <2> QED BY <2>1, <2>3, <2>4 DEF first, h, al
<1>3. first + n * size = page + PageRequest(f).sz
  <2>1. n * size \in Nat BY <1>1, Z3
  <2>2. header_size(f) \in Nat BY CutFields
  <2>3. PageRequest(f).sz = header_size(f) + n * size BY DEF PageRequest
  <2> QED BY <2>1, <2>2, <2>3
<1>4. BucketsOf(f, page) = at BY DEF BucketsOf
<1> HIDE DEF first, size, n
<1>5. ASSUME NEW i \in 1 .. n
      PROVE  /\ at[i] \in Nat /\ at[i] >= first /\ at[i] + size <= first + n * size
             /\ at[i] % f.align = 0
  <2>1. (n - i) * size \in Nat /\ (n - i) * size + size <= n * size BY <1>1, Spaced
  <2>2. (first + (n - i) * size) % f.align = 0
    <3> DEFINE m == n - i
    <3>1. m \in Nat BY <1>1
    <3> HIDE DEF m
    <3>2. (first + m * size) % f.align = 0 BY <1>1, <1>2, <3>1, Multiples
    <3> QED BY <3>2 DEF m
  <2>3. n * size \in Nat BY <1>1, Z3
  <2> QED BY <1>1, <1>2, <2>1, <2>2, <2>3
<1>6. ASSUME NEW i \in 1 .. n, NEW j \in 1 .. n, i > j PROVE at[i] + size <= at[j]
  <2>1. (n - i) * size \in Nat /\ (n - j) * size \in Nat /\ (n - i) * size + size <= (n - j) * size
    BY <1>1, <1>6, Spaced
  <2> QED BY <1>1, <1>2, <2>1
<1> HIDE DEF at
<1>7. DOMAIN at = 1 .. n BY DEF at
<1>8. at \in Seq(Nat) /\ at # << >>
  <2>1. at \in [1 .. n -> Nat] BY <1>5, <1>7 DEF at
  <2>2. 1 \in DOMAIN at BY <1>1, <1>7
  <2> QED BY <1>1, <2>1, <2>2
<1>9. ASSUME NEW i \in 1 .. n, NEW j \in 1 .. n
      PROVE  /\ i # j => Clear(at[i], size, at[j], size)
             /\ at[i] = at[j] => i = j
  <2>1. i > j => at[i] + size <= at[j] BY <1>6
  <2>2. j > i => at[j] + size <= at[i] BY <1>6
  <2>3. i \in Nat /\ j \in Nat /\ at[i] \in Nat /\ at[j] \in Nat BY <1>1, <1>5
  <2>4. i # j => i > j \/ j > i BY <2>3
  <2> QED BY <1>1, <2>1, <2>2, <2>3, <2>4 DEF Clear
<1>10. IsInjective(at) BY <1>7, <1>9 DEF IsInjective
<1>11. ASSUME NEW b \in ToSet(at)
       PROVE  /\ b > page /\ b + size <= page + PageRequest(f).sz /\ b % f.align = 0
              /\ \A c \in ToSet(at) : b = c \/ Clear(b, size, c, size)
  <2>1. PICK i \in 1 .. n : b = at[i] BY <1>7, <1>11 DEF ToSet
  <2>2. \A c \in ToSet(at) : \E j \in 1 .. n : c = at[j] BY <1>7 DEF ToSet
  <2>3. at[i] >= first /\ at[i] + size <= first + n * size /\ at[i] % f.align = 0 /\ at[i] \in Nat
    BY <1>5
  <2>4. \A c \in ToSet(at) : b = c \/ Clear(b, size, c, size) BY <2>1, <2>2, <1>9
  <2> QED BY <1>2, <1>3, <2>1, <2>3, <2>4
<1> QED BY <1>4, <1>8, <1>10, <1>11 DEF size
-----------------------------------------------------------------------------
(* Buckets that keep their place *)

LEMMA CellsAre ==
  ASSUME Inv, NEW p \in Pools, NEW b \in Cells(p)
  PROVE  b \in Nat /\ Size(p) \in Nat /\ Size(p) > 0
<1>1. pool[p].f.bucket_size \in Nat /\ pool[p].f.free_list \in Seq(Nat)
  BY DEF Inv, TypeOK, Fields
<1>2. CASE b \in FreeOf(p)
  <2>1. pool[p].f.free_list # << >> /\ b \in Nat BY <1>1, <1>2 DEF FreeOf, ToSet
  <2>2. Cut(pool[p].f) BY <2>1 DEF Inv, TypeOK, Blank
  <2> QED BY <1>1, <2>1, <2>2 DEF Cut, Size
<1>3. CASE b \in By(p)
  <2>1. b \in DOMAIN clients /\ clients[b].by = p BY <1>3 DEF By
  <2>2. b \in Nat /\ clients[b].align \in Nat \ {0} /\ clients[b].align <= pool[p].f.align
    BY <2>1, AlignmentsAre DEF Inv, TypeOK, Served, Accepts
  <2>3. Cut(pool[p].f) BY <2>2 DEF Inv, TypeOK, Blank
  <2> QED BY <1>1, <2>2, <2>3 DEF Cut, Size
<1> QED BY <1>2, <1>3 DEF Cells

LEMMA InvBucketsOnce == Inv => BucketsOnce
<1> SUFFICES ASSUME Inv PROVE BucketsOnce OBVIOUS
<1>1. ASSUME NEW p \in Pools, NEW q \in Pools, NEW b \in Cells(p), b \in Cells(q) PROVE p = q
  BY <1>1, CellsAre DEF Inv, Apart, Clear
<1>2. \A b \in DOMAIN clients : clients[b].by \in Pools /\ b \in By(clients[b].by)
  BY DEF Inv, TypeOK, By
<1>3. \A p \in Pools : FreeOf(p) \cap DOMAIN clients = {}
  <2>1. ASSUME NEW p \in Pools, NEW b \in FreeOf(p), b \in DOMAIN clients PROVE FALSE
    <3>1. clients[b].by = p BY <1>1, <1>2, <2>1 DEF Cells
    <3> QED BY <3>1, <1>2, <2>1 DEF Inv, Stacked
  <2> QED BY <2>1
<1>4. \A p, q \in Pools : p # q => FreeOf(p) \cap FreeOf(q) = {} BY <1>1 DEF Cells
<1> QED BY <1>3, <1>4 DEF BucketsOnce, Inv, Stacked

LEMMA InvPoolClientsApart == Inv => PoolClientsApart
<1> SUFFICES ASSUME Inv PROVE PoolClientsApart OBVIOUS
<1>1. ASSUME NEW b \in DOMAIN clients
      PROVE  /\ clients[b].by \in Pools /\ b \in Cells(clients[b].by) /\ b \in Nat
             /\ clients[b].sz \in Nat /\ Size(clients[b].by) \in Nat
             /\ clients[b].sz <= Size(clients[b].by) /\ b % clients[b].align = 0
  <2> DEFINE p == clients[b].by
  <2> DEFINE f == pool[p].f
  <2>1. /\ p \in Pools /\ b \in Nat /\ clients[b].sz \in Nat /\ clients[b].align \in Nat \ {0}
        /\ f \in Fields
    BY <1>1, AlignmentsAre DEF Inv, TypeOK
  <2>2. b \in Cells(p) BY <1>1 DEF Cells, By
  <2>3. clients[b].sz <= f.bucket_size /\ clients[b].align <= f.align
    BY <1>1 DEF Inv, Served, Accepts
  <2>4. Cut(f) BY <2>1, <2>3 DEF Inv, TypeOK, Blank
  <2>5. f.align \in Alignments /\ f.align \in Nat \ {0} BY <2>1, <2>4, CutFields
  <2>6. clients[b].align \in Alignments BY <1>1 DEF Inv, TypeOK
  <2>7. f.align % clients[b].align = 0 BY <2>3, <2>5, <2>6, PoolAssumption
  <2>8. b % f.align = 0 BY <2>1, <2>2 DEF Inv, Placed
  <2>9. b % clients[b].align = 0 BY <2>1, <2>5, <2>7, <2>8, Divides
  <2> QED BY <2>1, <2>2, <2>3, <2>9 DEF Size, Fields
<1>2. ASSUME NEW b \in DOMAIN clients, NEW c \in DOMAIN clients, b < c
      PROVE  b + clients[b].sz <= c
  <2>1. Clear(b, Size(clients[b].by), c, Size(clients[c].by)) BY <1>1, <1>2 DEF Inv, Apart
  <2> QED BY <1>1, <1>2, <2>1 DEF Clear
<1>3. ASSUME NEW b \in DOMAIN clients, NEW a \in DOMAIN granted \ Pages
      PROVE  b + clients[b].sz <= a \/ a + granted[a].sz <= b
  <2>1. Clear(b, Size(clients[b].by), a, granted[a].sz) BY <1>1 DEF Inv, Placed
  <2>2. a \in Nat /\ granted[a].sz \in Nat BY DEF Inv, TypeOK
  <2> QED BY <1>1, <2>1, <2>2 DEF Clear
<1> QED BY <1>1, <1>2, <1>3 DEF PoolClientsApart, Size, Inv, Given

\* Where a step leaves the pages alone, it is enough to say from which pool
\* each pool has its buckets.
LEMMA BucketsInherited ==
  ASSUME Inv, linear' = linear,
         \A a \in DOMAIN granted' : a \in DOMAIN granted /\ granted'[a] = granted[a],
         NEW from \in [Pools -> Pools],
         \A p, q \in Pools : from[p] = from[q] => p = q,
         \A p \in Pools : \/ Cells(p)' = {}
                         \/ /\ Cells(p)' \subseteq Cells(from[p])
                            /\ pool'[p].f.bucket_size = pool[from[p]].f.bucket_size
                            /\ pool'[p].f.align = pool[from[p]].f.align
  PROVE  Apart' /\ Placed' /\ Given'
<1>1. Given' BY DEF Inv, Given
<1>2. ASSUME NEW p \in Pools, NEW b \in Cells(p)'
      PROVE  /\ from[p] \in Pools /\ b \in Cells(from[p]) /\ Size(p)' = Size(from[p])
             /\ pool'[p].f.align = pool[from[p]].f.align
  BY <1>2 DEF Size
<1>3. Apart'
  <2>1. ASSUME NEW p \in Pools, NEW q \in Pools, NEW b \in Cells(p)', NEW c \in Cells(q)'
        PROVE  (p = q /\ b = c) \/ Clear(b, Size(p)', c, Size(q)')
    BY <1>2, <2>1 DEF Inv, Apart
  <2> QED BY <2>1 DEF Apart, Clear
<1>4. Placed'
  <2>1. ASSUME NEW p \in Pools, NEW b \in Cells(p)'
        PROVE  /\ b + Size(p)' <= Buffer + linear.offset
               /\ b % pool'[p].f.align = 0
               /\ \A a \in DOMAIN granted \ Pages : Clear(b, Size(p)', a, granted[a].sz)
    BY <1>2, <2>1 DEF Inv, Placed
  <2>2. \A a \in DOMAIN granted' \ Pages' : a \in DOMAIN granted \ Pages /\ granted'[a] = granted[a]
    BY DEF Pages
  <2>3. ASSUME NEW p \in Pools, NEW b \in Cells(p)', NEW a \in DOMAIN granted' \ Pages'
        PROVE  Clear(b, Size(p)', a, granted'[a].sz)
    BY <2>1, <2>2
  <2> QED BY <2>1, <2>3 DEF Placed, Clear
<1> QED BY <1>1, <1>3, <1>4
-----------------------------------------------------------------------------
(* One lemma for each kind of call *)

\* A pool that is not in use has nothing with a client.
LEMMA NothingHeld == Inv => \A p \in Pools : pool[p].st # "usable" => By(p) = {}
BY DEF Inv, Served, By

LEMMA Begins ==
  ASSUME Inv, NEW p \in Pools, pool[p].st = "none", NEW f \in Fields, NEW parent \in BOOLEAN,
         f.free_list = << >>, Blank(f) \/ Cut(f),
         pool' = [pool EXCEPT ![p] = [st |-> "usable", parent |-> parent, f |-> f]],
         UNCHANGED << linear, granted, clients >>
  PROVE  Inv'
<1>1. /\ pool'[p].f = f /\ pool'[p].st = "usable"
      /\ \A q \in Pools \ {p} : pool'[q] = pool[q]
  BY DEF Inv, TypeOK
<1>2. By(p) = {} /\ \A q \in Pools : By(q)' = By(q) BY NothingHeld DEF By
<1>3. FreeOf(p)' = {} /\ \A q \in Pools \ {p} : FreeOf(q)' = FreeOf(q)
  BY <1>1 DEF FreeOf, ToSet
<1>4. TypeOK'
  <2>1. pool' \in [Pools -> [st : {"none", "usable", "moved"}, parent : BOOLEAN, f : Fields]]
    BY DEF Inv, TypeOK
  <2> QED BY <1>1, <2>1 DEF Inv, TypeOK
<1>5. Served'
  <2>1. \A b \in DOMAIN clients : clients[b].by # p /\ clients[b].by \in Pools
    BY <1>2 DEF By, Inv, TypeOK
  <2> QED BY <1>1, <2>1 DEF Inv, Served
<1>6. Stacked' BY <1>1, <1>2, <1>3 DEF Inv, Stacked, IsInjective
<1>7. Apart' /\ Placed' /\ Given'
  <2> DEFINE from == [q \in Pools |-> q]
  <2>1. \A q \in Pools : \/ Cells(q)' = {}
                         \/ /\ Cells(q)' \subseteq Cells(from[q])
                            /\ pool'[q].f.bucket_size = pool[from[q]].f.bucket_size
                            /\ pool'[q].f.align = pool[from[q]].f.align
    BY <1>1, <1>2, <1>3 DEF Cells
  <2>2. from \in [Pools -> Pools] /\ \A q, r \in Pools : from[q] = from[r] => q = r OBVIOUS
  <2> HIDE DEF from
  <2> QED BY <2>1, <2>2, BucketsInherited
<1> QED BY <1>4, <1>5, <1>6, <1>7 DEF Inv

LEMMA DefaultIs ==
  Default \in Fields /\ Default.free_list = << >> /\ Blank(Default)
<1>1. Unset \in Fields BY DEF Unset, Fields
<1>2. Unset.free_list = << >> /\ Blank(Unset) BY DEF Unset, Blank
<1>3. Default = [Unset EXCEPT !.set = TRUE] BY DEF Default
<1>4. Default \in Fields BY <1>1, <1>3 DEF Fields
<1>5. /\ Default.free_list = Unset.free_list /\ Default.align = Unset.align
      /\ Default.bucket_size = Unset.bucket_size /\ Default.cnt = Unset.cnt
  BY <1>1, <1>3 DEF Fields
<1> QED BY <1>2, <1>4, <1>5 DEF Blank

LEMMA ConstructKeeps ==
  ASSUME Inv, NEW p \in Pools, NEW c \in Params, construct(p, c)
  PROVE  Inv'
<1> DEFINE align == GreaterOf(c.align, BUCKET_ALIGN)
<1>1. c.bucket_size \in Nat \ {0} /\ c.count \in Nat /\ c.align \in Nat \ {0} BY PoolAssumption
<1>2. align \in Nat \ {0} /\ align \in PoolAligns BY <1>1 DEF GreaterOf, BUCKET_ALIGN, PoolAligns
<1>3. /\ AlignUp(c.bucket_size, align) \in Nat /\ AlignUp(c.bucket_size, align) >= c.bucket_size
      /\ AlignUp(c.bucket_size, align) % align = 0
  BY <1>1, <1>2, AlignUpIsAligned
<1> DEFINE size == AlignUp(c.bucket_size, align)
<1>4. Made(c) = [Default EXCEPT !.align = align, !.bucket_size = size, !.cnt = c.count]
  BY DEF Made
<1> HIDE DEF align, size
<1>5. /\ Made(c) \in Fields /\ Made(c).free_list = << >>
      /\ Made(c).align = align /\ Made(c).bucket_size = size
  BY <1>1, <1>2, <1>3, <1>4, DefaultIs DEF Fields, size
<1>6. Cut(Made(c)) BY <1>1, <1>2, <1>3, <1>5 DEF Cut, size
<1> QED BY <1>5, <1>6, Begins DEF construct

LEMMA DefaultConstructKeeps ==
  ASSUME Inv, NEW p \in Pools, default_construct(p)
  PROVE  Inv'
BY DefaultIs, Begins DEF default_construct

LEMMA DestroyKeeps ==
  ASSUME Inv, NEW p \in Pools, destroy(p)
  PROVE  Inv'
<1>1. /\ pool' = [pool EXCEPT ![p] = None] /\ clients' = Drop(clients, By(p)) /\ linear' = linear
      /\ \A a \in DOMAIN granted' : a \in DOMAIN granted /\ granted'[a] = granted[a]
  BY DEF destroy, DestroySet, DestroyUnset, Drop
<1>2. /\ None.st = "none" /\ None.f.free_list = << >> /\ Blank(None.f)
      /\ None \in [st : {"none", "usable", "moved"}, parent : BOOLEAN, f : Fields]
  BY DEF None, Unset, Fields, Blank
<1>3. pool'[p] = None /\ \A q \in Pools \ {p} : pool'[q] = pool[q] BY <1>1 DEF Inv, TypeOK
<1>4. /\ DOMAIN clients' = DOMAIN clients \ By(p)
      /\ \A b \in DOMAIN clients' : clients'[b] = clients[b] /\ clients[b].by # p
  BY <1>1 DEF Drop, By
<1>5. By(p)' = {} /\ \A q \in Pools : By(q)' \subseteq By(q) BY <1>4 DEF By
<1>6. FreeOf(p)' = {} /\ \A q \in Pools \ {p} : FreeOf(q)' = FreeOf(q)
  BY <1>2, <1>3 DEF FreeOf, ToSet
<1>7. TypeOK'
  <2>1. pool' \in [Pools -> [st : {"none", "usable", "moved"}, parent : BOOLEAN, f : Fields]]
    BY <1>1, <1>2 DEF Inv, TypeOK
  <2>2. \A a \in DOMAIN granted' : a \in Nat /\ granted'[a].sz \in Nat BY <1>1 DEF Inv, TypeOK
  <2>3. \A q \in Pools : Blank(pool'[q].f) \/ Cut(pool'[q].f) BY <1>2, <1>3 DEF Inv, TypeOK
  <2> QED BY <1>1, <1>2, <1>3, <1>4, <2>1, <2>2, <2>3 DEF Inv, TypeOK
<1>8. Served' BY <1>3, <1>4 DEF Inv, Served, TypeOK
<1>9. Stacked'
  <2>1. ASSUME NEW q \in Pools
        PROVE  IsInjective(pool'[q].f.free_list) /\ FreeOf(q)' \cap By(q)' = {}
    <3>1. CASE q = p BY <1>2, <1>3, <1>5, <3>1 DEF IsInjective
    <3>2. CASE q # p BY <1>3, <1>5, <1>6, <3>2 DEF Inv, Stacked
    <3> QED BY <3>1, <3>2
  <2> QED BY <2>1 DEF Stacked
<1>10. Apart' /\ Placed' /\ Given'
  <2> DEFINE from == [q \in Pools |-> q]
  <2>1. \A q \in Pools : \/ Cells(q)' = {}
                         \/ /\ Cells(q)' \subseteq Cells(from[q])
                            /\ pool'[q].f.bucket_size = pool[from[q]].f.bucket_size
                            /\ pool'[q].f.align = pool[from[q]].f.align
    BY <1>3, <1>5, <1>6 DEF Cells
  <2>2. from \in [Pools -> Pools] /\ \A q, r \in Pools : from[q] = from[r] => q = r OBVIOUS
  <2> HIDE DEF from
  <2> QED BY <1>1, <2>1, <2>2, BucketsInherited
<1> QED BY <1>7, <1>8, <1>9, <1>10 DEF Inv

\* Both moves: what s had is d's, and d's buckets, if it had any, are with s
\* and with no client.
MovedInto(d, s, f) ==
  /\ pool' = [pool EXCEPT ![d] = pool[s], ![s] = [st |-> "moved", parent |-> FALSE, f |-> f]]
  /\ DOMAIN clients' = DOMAIN clients \ By(d)
  /\ \A b \in DOMAIN clients' : clients'[b] = [clients[b] EXCEPT !.by = IF @ = s THEN d ELSE @]
  /\ UNCHANGED << linear, granted >>

LEMMA Moves ==
  ASSUME Inv, NEW d \in Pools, NEW s \in Pools, d # s, pool[s].st = "usable",
         NEW f \in Fields, f = pool[d].f \/ (Blank(f) /\ pool[d].st = "none"),
         MovedInto(d, s, f)
  PROVE  Inv'
<1>1. /\ pool'[d] = pool[s] /\ pool'[s].st = "moved" /\ pool'[s].f = f
      /\ \A p \in Pools \ {d, s} : pool'[p] = pool[p]
  BY DEF Inv, TypeOK, MovedInto
<1>2. ASSUME NEW b \in DOMAIN clients'
      PROVE  /\ b \in DOMAIN clients /\ clients[b].by # d /\ b \in Nat
             /\ clients'[b] \in [sz : Nat, align : Alignments, by : Pools]
             /\ clients'[b].by = IF clients[b].by = s THEN d ELSE clients[b].by
             /\ clients'[b].sz = clients[b].sz /\ clients'[b].align = clients[b].align
             /\ clients[b].by \in Pools
  <2>1. b \in DOMAIN clients /\ clients[b].by # d /\ b \in Nat
        /\ clients[b] \in [sz : Nat, align : Alignments, by : Pools]
    BY <1>2 DEF By, Inv, TypeOK, MovedInto
  <2>2. clients'[b] = [clients[b] EXCEPT !.by = IF clients[b].by = s THEN d ELSE clients[b].by]
    BY <1>2 DEF MovedInto
  <2> QED BY <2>1, <2>2
<1>3. By(d)' \subseteq By(s) /\ By(s)' = {} /\ \A p \in Pools \ {d, s} : By(p)' \subseteq By(p)
  BY <1>2 DEF By
<1>4. f.free_list = << >> \/ f = pool[d].f BY DEF Blank
<1>5. /\ FreeOf(d)' = FreeOf(s) /\ (FreeOf(s)' = {} \/ FreeOf(s)' = FreeOf(d))
      /\ \A p \in Pools \ {d, s} : FreeOf(p)' = FreeOf(p)
  BY <1>1, <1>4 DEF FreeOf, ToSet
<1>6. TypeOK'
  <2>1. pool' \in [Pools -> [st : {"none", "usable", "moved"}, parent : BOOLEAN, f : Fields]]
    BY DEF Inv, TypeOK, MovedInto
  <2>2. \A p \in Pools : Blank(pool'[p].f) \/ Cut(pool'[p].f) BY <1>1 DEF Inv, TypeOK
  <2>3. \A p \in Pools : pool'[p].st = "none" => pool'[p].f.free_list = << >>
    BY <1>1 DEF Inv, TypeOK
  <2>4. \A b \in DOMAIN clients' :
          b \in Nat /\ clients'[b] \in [sz : Nat, align : Alignments, by : Pools]
    BY <1>2
  <2>5. linear' \in [buffer : BOOLEAN, offset : Nat]
        /\ \A a \in DOMAIN granted' : a \in Nat /\ granted'[a].sz \in Nat
    BY DEF Inv, TypeOK, MovedInto
  <2> QED BY <2>1, <2>2, <2>3, <2>4, <2>5 DEF TypeOK
<1>7. Served'
  <2>1. ASSUME NEW b \in DOMAIN clients'
        PROVE  pool'[clients'[b].by].st = "usable" /\ Accepts(pool'[clients'[b].by].f, clients'[b])
    <3>1. pool[clients[b].by].st = "usable" /\ Accepts(pool[clients[b].by].f, clients[b])
      BY <1>2 DEF Inv, Served
    <3>2. pool'[clients'[b].by] = pool[clients[b].by] BY <1>1, <1>2
    <3> QED BY <3>1, <3>2, <1>2 DEF Accepts
  <2> QED BY <2>1 DEF Served, Accepts
<1>8. Stacked'
  <2>1. ASSUME NEW p \in Pools
        PROVE  IsInjective(pool'[p].f.free_list) /\ FreeOf(p)' \cap By(p)' = {}
    <3>1. CASE p = d BY <1>1, <1>3, <1>5, <3>1 DEF Inv, Stacked
    <3>2. CASE p = s
      <4>1. IsInjective(f.free_list) BY <1>4 DEF Inv, Stacked, IsInjective
      <4> QED BY <4>1, <1>1, <1>3, <3>2
    <3>3. CASE p \notin {d, s} BY <1>1, <1>3, <1>5, <3>3 DEF Inv, Stacked
    <3> QED BY <3>1, <3>2, <3>3
  <2> QED BY <2>1 DEF Stacked
<1>9. Apart' /\ Placed' /\ Given'
  <2> DEFINE from == [p \in Pools |-> IF p = d THEN s ELSE IF p = s THEN d ELSE p]
  <2>1. ASSUME NEW p \in Pools
        PROVE  \/ Cells(p)' = {}
               \/ /\ Cells(p)' \subseteq Cells(from[p])
                  /\ pool'[p].f.bucket_size = pool[from[p]].f.bucket_size
                  /\ pool'[p].f.align = pool[from[p]].f.align
    <3>1. CASE p = d BY <1>1, <1>3, <1>5, <3>1 DEF Cells
    <3>2. CASE p = s
      <4>1. from[p] = d BY <3>2
      <4>2. CASE f.free_list = << >>
        <5>1. FreeOf(s)' = {} BY <1>1, <4>2 DEF FreeOf, ToSet
        <5> QED BY <5>1, <1>3, <3>2 DEF Cells
      <4>3. CASE f = pool[d].f
        <5>1. FreeOf(s)' = FreeOf(d) BY <1>1, <4>3 DEF FreeOf
        <5> QED BY <5>1, <1>1, <1>3, <3>2, <4>1, <4>3 DEF Cells
      <4> QED BY <1>4, <4>2, <4>3
    <3>3. CASE p \notin {d, s} BY <1>1, <1>3, <1>5, <3>3 DEF Cells
    <3> QED BY <3>1, <3>2, <3>3
  <2>2. from \in [Pools -> Pools] /\ \A q, r \in Pools : from[q] = from[r] => q = r OBVIOUS
  <2>3. \A a \in DOMAIN granted' : a \in DOMAIN granted /\ granted'[a] = granted[a] BY DEF MovedInto
  <2>4. linear' = linear BY DEF MovedInto
  <2> HIDE DEF from
  <2> QED BY <2>1, <2>2, <2>3, <2>4, BucketsInherited
<1> QED BY <1>6, <1>7, <1>8, <1>9 DEF Inv

LEMMA MoveConstructKeeps ==
  ASSUME Inv, NEW d \in Pools, NEW s \in Pools, pool_move_construct(d, s)
  PROVE  Inv'
<1>1. d # s /\ pool[s].st = "usable" /\ pool[d].st = "none"
  BY DEF pool_move_construct, Usable
<1>2. Unset \in Fields /\ Blank(Unset) BY DEF Unset, Fields, Blank
<1>3. By(d) = {} BY <1>1, NothingHeld
<1>4. /\ DOMAIN clients' = DOMAIN clients \ By(d)
      /\ \A b \in DOMAIN clients' :
           clients'[b] = [clients[b] EXCEPT !.by = IF @ = s THEN d ELSE @]
  <2>1. clients' = HandOver(s, d) BY DEF pool_move_construct
  <2>2. ASSUME NEW b \in DOMAIN clients
        PROVE  clients'[b] = [clients[b] EXCEPT !.by = IF @ = s THEN d ELSE @]
    <3>1. clients[b] \in [sz : Nat, align : Alignments, by : Pools] BY DEF Inv, TypeOK
    <3>2. clients[b].by # s => [clients[b] EXCEPT !.by = clients[b].by] = clients[b] BY <3>1
    <3> QED BY <2>1, <3>1, <3>2 DEF HandOver
  <2> QED BY <1>3, <2>1, <2>2 DEF HandOver
<1>5. MovedInto(d, s, Unset) BY <1>4 DEF MovedInto, pool_move_construct
<1> QED BY <1>1, <1>2, <1>5, Moves

LEMMA MoveAssignKeeps ==
  ASSUME Inv, NEW d \in Pools, NEW s \in Pools, move_assign(d, s)
  PROVE  Inv'
<1>1. d # s /\ pool[s].st = "usable" /\ pool[d].f \in Fields
  BY DEF move_assign, Usable, Inv, TypeOK
<1>2. /\ DOMAIN clients' = DOMAIN clients \ By(d)
      /\ \A b \in DOMAIN clients' :
           clients'[b] = [clients[b] EXCEPT !.by = IF @ = s THEN d ELSE @]
  BY DEF move_assign, Drop
<1>3. MovedInto(d, s, pool[d].f) BY <1>2 DEF MovedInto, move_assign
<1> QED BY <1>1, <1>3, Moves

\* A bucket is taken from a free list f.free_list of p, which may be longer
\* than it was by the buckets of a new page.
LEMMA Gives ==
  ASSUME Inv, NEW p \in Pools, NEW r \in PoolRequests, NEW f \in Fields,
         pool[p].st = "usable", Accepts(f, r), Cut(f),
         f.align = pool[p].f.align, f.bucket_size = pool[p].f.bucket_size,
         f.free_list # << >>, IsInjective(f.free_list), ToSet(f.free_list) \cap DOMAIN clients = {},
         Give(p, f, r)
  PROVE  /\ pool' \in [Pools -> [st : {"none", "usable", "moved"}, parent : BOOLEAN, f : Fields]]
         /\ \A b \in DOMAIN clients' :
              b \in Nat /\ clients'[b] \in [sz : Nat, align : Alignments, by : Pools]
         /\ \A q \in Pools : Blank(pool'[q].f) \/ Cut(pool'[q].f)
         /\ \A q \in Pools : pool'[q].st = "none" => pool'[q].f.free_list = << >>
         /\ Served' /\ Stacked'
         /\ Cells(p)' \subseteq ToSet(f.free_list) \cup By(p)
         /\ \A q \in Pools \ {p} : Cells(q)' \subseteq Cells(q)
         /\ \A q \in Pools : /\ pool'[q].f.bucket_size = pool[q].f.bucket_size
                            /\ pool'[q].f.align = pool[q].f.align
<1> DEFINE s == f.free_list
<1> DEFINE b == Head(s)
<1> DEFINE g == Popped(f)
<1>1. s \in Seq(Nat) BY DEF Fields
<1>2. /\ Tail(s) \in Seq(Nat) /\ b \in Nat /\ b \in ToSet(s) /\ ToSet(Tail(s)) \subseteq ToSet(s)
      /\ IsInjective(Tail(s)) /\ b \notin ToSet(Tail(s))
  BY <1>1, PopsOne
<1>3. /\ g \in Fields /\ g.free_list = Tail(s) /\ g.align = f.align /\ g.bucket_size = f.bucket_size
  BY <1>2 DEF Popped, Fields
<1>4. Cut(g) BY <1>3 DEF Cut
<1>5. /\ pool' \in [Pools -> [st : {"none", "usable", "moved"}, parent : BOOLEAN, f : Fields]]
      /\ pool'[p].f = g /\ pool'[p].st = "usable" /\ \A q \in Pools \ {p} : pool'[q] = pool[q]
  <2>1. pool' = [pool EXCEPT ![p].f = g] BY DEF Give
  <2> HIDE DEF g
  <2> QED BY <1>3, <2>1 DEF Inv, TypeOK
<1> HIDE DEF g
<1>6. /\ DOMAIN clients' = DOMAIN clients \cup {b} /\ b \notin DOMAIN clients
      /\ clients'[b] = [sz |-> r.sz, align |-> r.align, by |-> p]
      /\ \A c \in DOMAIN clients : clients'[c] = clients[c]
  <2>1. clients' = Put(clients, b, [sz |-> r.sz, align |-> r.align, by |-> p]) BY DEF Give
  <2>2. b \notin DOMAIN clients BY <1>2
  <2> HIDE DEF b
  <2> QED BY <2>1, <2>2 DEF Put
<1> HIDE DEF b
<1>7. /\ \A c \in DOMAIN clients' :
           c \in Nat /\ clients'[c] \in [sz : Nat, align : Alignments, by : Pools]
  <2>1. r.sz \in Nat /\ r.align \in Alignments BY PoolAssumption DEF Alignments
  <2>2. clients'[b] \in [sz : Nat, align : Alignments, by : Pools] BY <1>6, <2>1
  <2> QED BY <1>2, <1>6, <2>2 DEF Inv, TypeOK
<1>8. By(p)' = By(p) \cup {b} /\ \A q \in Pools \ {p} : By(q)' = By(q) BY <1>6 DEF By
<1>9. FreeOf(p)' = ToSet(Tail(s)) /\ \A q \in Pools \ {p} : FreeOf(q)' = FreeOf(q)
  BY <1>3, <1>5 DEF FreeOf
<1>10. Served'
  <2>1. ASSUME NEW c \in DOMAIN clients'
        PROVE  pool'[clients'[c].by].st = "usable" /\ Accepts(pool'[clients'[c].by].f, clients'[c])
    <3>1. CASE c = b BY <1>3, <1>5, <1>6, <3>1 DEF Accepts
    <3>2. CASE c # b
      <4>1. clients'[c] = clients[c] /\ clients[c].by \in Pools BY <1>6, <3>2, <2>1 DEF Inv, TypeOK
      <4>2. /\ pool[clients[c].by].st = "usable" /\ Accepts(pool[clients[c].by].f, clients[c])
        BY <1>6, <3>2, <2>1 DEF Inv, Served
      <4>3. CASE clients[c].by = p BY <1>3, <1>5, <4>1, <4>2, <4>3 DEF Accepts
      <4>4. CASE clients[c].by # p BY <1>5, <4>1, <4>2, <4>4
      <4> QED BY <4>3, <4>4
    <3> QED BY <3>1, <3>2
  <2> QED BY <2>1 DEF Served, Accepts
<1>11. Stacked'
  <2>1. ASSUME NEW q \in Pools
        PROVE  IsInjective(pool'[q].f.free_list) /\ FreeOf(q)' \cap By(q)' = {}
    <3>1. CASE q = p
      <4>1. By(p) \subseteq DOMAIN clients BY DEF By
      <4> QED BY <1>2, <1>3, <1>5, <1>8, <1>9, <3>1, <4>1
    <3>2. CASE q # p BY <1>5, <1>8, <1>9, <3>2 DEF Inv, Stacked
    <3> QED BY <3>1, <3>2
  <2> QED BY <2>1 DEF Stacked
<1>12. /\ Cells(p)' \subseteq ToSet(s) \cup By(p)
       /\ \A q \in Pools \ {p} : Cells(q)' \subseteq Cells(q)
  BY <1>2, <1>8, <1>9 DEF Cells
<1>13. \A q \in Pools : Blank(pool'[q].f) \/ Cut(pool'[q].f)
  BY <1>4, <1>5 DEF Inv, TypeOK
<1>14. \A q \in Pools : pool'[q].st = "none" => pool'[q].f.free_list = << >>
  BY <1>5 DEF Inv, TypeOK
<1>15. \A q \in Pools : /\ pool'[q].f.bucket_size = pool[q].f.bucket_size
                       /\ pool'[q].f.align = pool[q].f.align
  BY <1>3, <1>5
<1> QED BY <1>5, <1>7, <1>10, <1>11, <1>12, <1>13, <1>14, <1>15

LEMMA AllocPopKeeps ==
  ASSUME Inv, NEW p \in Pools, NEW r \in PoolRequests, Usable(p), Accepts(pool[p].f, r),
         AllocPop(p, r)
  PROVE  Inv'
<1> DEFINE f == pool[p].f
<1>1. f \in Fields /\ f.free_list # << >> /\ Cut(f) /\ pool[p].st = "usable" /\ Give(p, f, r)
  BY DEF Inv, TypeOK, AllocPop, Usable, Blank
<1>2. IsInjective(f.free_list) /\ ToSet(f.free_list) \cap DOMAIN clients = {}
  BY InvBucketsOnce DEF BucketsOnce, FreeOf
<1>3. linear' = linear /\ granted' = granted BY DEF AllocPop
<1>4. /\ pool' \in [Pools -> [st : {"none", "usable", "moved"}, parent : BOOLEAN, f : Fields]]
      /\ \A b \in DOMAIN clients' :
           b \in Nat /\ clients'[b] \in [sz : Nat, align : Alignments, by : Pools]
      /\ \A q \in Pools : Blank(pool'[q].f) \/ Cut(pool'[q].f)
      /\ \A q \in Pools : pool'[q].st = "none" => pool'[q].f.free_list = << >>
      /\ Served' /\ Stacked'
      /\ Cells(p)' \subseteq ToSet(f.free_list) \cup By(p)
      /\ \A q \in Pools \ {p} : Cells(q)' \subseteq Cells(q)
      /\ \A q \in Pools : /\ pool'[q].f.bucket_size = pool[q].f.bucket_size
                         /\ pool'[q].f.align = pool[q].f.align
  BY <1>1, <1>2, Gives
<1>5. Apart' /\ Placed' /\ Given'
  <2> DEFINE from == [q \in Pools |-> q]
  <2>1. \A q \in Pools : Cells(q)' \subseteq Cells(q) BY <1>4 DEF Cells, FreeOf
  <2>2. from \in [Pools -> Pools] /\ (\A q, u \in Pools : from[q] = from[u] => q = u)
        /\ \A q \in Pools : from[q] = q
    OBVIOUS
  <2> HIDE DEF from
  <2>3. \A a \in DOMAIN granted' : a \in DOMAIN granted /\ granted'[a] = granted[a] BY <1>3
  <2> QED BY <1>3, <1>4, <2>1, <2>2, <2>3, BucketsInherited
<1> QED BY <1>3, <1>4, <1>5 DEF Inv, TypeOK

LEMMA DeallocateKeeps ==
  ASSUME Inv, NEW b \in DOMAIN clients, deallocate(b)
  PROVE  Inv'
<1>0. PICK p \in Pools : p = clients[b].by BY DEF Inv, TypeOK
<1> DEFINE f == pool[p].f
<1> DEFINE g == Pushed(f, b)
<1>1. /\ p \in Pools /\ b \in Nat /\ f \in Fields /\ f.free_list \in Seq(Nat)
      /\ pool[p].st = "usable" /\ Cut(f) /\ Running
  <2>1. p \in Pools /\ b \in Nat BY DEF Inv, TypeOK
  <2>2. f \in Fields /\ pool[p].st = "usable" /\ Running
    BY <1>0, <2>1 DEF Inv, TypeOK, deallocate, Usable
  <2>3. clients[b].align \in Nat \ {0} /\ clients[b].align <= f.align
    BY <1>0, AlignmentsAre DEF Inv, TypeOK, Served, Accepts
  <2>4. Cut(f) BY <2>1, <2>3 DEF Inv, TypeOK, Blank
  <2> QED BY <2>1, <2>2, <2>4 DEF Fields
<1>2. IsInjective(f.free_list) /\ b \notin ToSet(f.free_list)
  BY <1>1, InvBucketsOnce DEF BucketsOnce, FreeOf
<1>3. /\ g.free_list \in Seq(Nat) /\ ToSet(g.free_list) = ToSet(f.free_list) \cup {b}
      /\ IsInjective(g.free_list) /\ g \in Fields
      /\ g.align = f.align /\ g.bucket_size = f.bucket_size
  <2>1. g.free_list = << b >> \o f.free_list BY <1>1 DEF Pushed, Fields
  <2>2. g.free_list \in Seq(Nat) /\ ToSet(g.free_list) = ToSet(f.free_list) \cup {b}
        /\ IsInjective(g.free_list)
    BY <1>1, <1>2, <2>1, PushesOne
  <2>3. g \in Fields /\ g.align = f.align /\ g.bucket_size = f.bucket_size
    BY <1>1, <2>1, <2>2 DEF Pushed, Fields
  <2> QED BY <2>2, <2>3
<1>4. Cut(g) BY <1>1, <1>3 DEF Cut
<1>5. /\ pool' = [pool EXCEPT ![p].f = g] /\ clients' = Drop(clients, {b})
      /\ linear' = linear /\ granted' = granted
  BY <1>0 DEF deallocate
<1> HIDE DEF g
<1>6. /\ pool' \in [Pools -> [st : {"none", "usable", "moved"}, parent : BOOLEAN, f : Fields]]
      /\ pool'[p].f = g /\ pool'[p].st = "usable" /\ \A q \in Pools \ {p} : pool'[q] = pool[q]
  BY <1>1, <1>3, <1>5 DEF Inv, TypeOK
<1>7. /\ DOMAIN clients' = DOMAIN clients \ {b}
      /\ \A c \in DOMAIN clients' : c \in DOMAIN clients /\ clients'[c] = clients[c]
  BY <1>5 DEF Drop
<1>8. By(p)' = By(p) \ {b} /\ b \in By(p) /\ \A q \in Pools \ {p} : By(q)' = By(q)
  BY <1>0, <1>7 DEF By
<1>9. FreeOf(p)' = FreeOf(p) \cup {b} /\ \A q \in Pools \ {p} : FreeOf(q)' = FreeOf(q)
  BY <1>3, <1>6 DEF FreeOf
<1>10. TypeOK'
  <2>1. \A c \in DOMAIN clients' :
          c \in Nat /\ clients'[c] \in [sz : Nat, align : Alignments, by : Pools]
    BY <1>7 DEF Inv, TypeOK
  <2>2. \A q \in Pools : Blank(pool'[q].f) \/ Cut(pool'[q].f) BY <1>4, <1>6 DEF Inv, TypeOK
  <2>3. \A q \in Pools : pool'[q].st = "none" => pool'[q].f.free_list = << >>
    BY <1>6 DEF Inv, TypeOK
  <2> QED BY <1>5, <1>6, <2>1, <2>2, <2>3 DEF Inv, TypeOK
<1>11. Served'
  <2>1. ASSUME NEW c \in DOMAIN clients'
        PROVE  pool'[clients'[c].by].st = "usable" /\ Accepts(pool'[clients'[c].by].f, clients'[c])
    <3>1. clients'[c] = clients[c] /\ clients[c].by \in Pools BY <1>7, <2>1 DEF Inv, TypeOK
    <3>2. pool[clients[c].by].st = "usable" /\ Accepts(pool[clients[c].by].f, clients[c])
      BY <1>7, <2>1 DEF Inv, Served
    <3>3. CASE clients[c].by = p BY <1>3, <1>6, <3>1, <3>2, <3>3 DEF Accepts
    <3>4. CASE clients[c].by # p BY <1>6, <3>1, <3>2, <3>4
    <3> QED BY <3>3, <3>4
  <2> QED BY <2>1 DEF Served, Accepts
<1>12. Stacked'
  <2>1. ASSUME NEW q \in Pools
        PROVE  IsInjective(pool'[q].f.free_list) /\ FreeOf(q)' \cap By(q)' = {}
    <3>1. CASE q = p BY <1>3, <1>6, <1>8, <1>9, <3>1 DEF Inv, Stacked
    <3>2. CASE q # p BY <1>6, <1>8, <1>9, <3>2 DEF Inv, Stacked
    <3> QED BY <3>1, <3>2
  <2> QED BY <2>1 DEF Stacked
<1>13. Apart' /\ Placed' /\ Given'
  <2> DEFINE from == [q \in Pools |-> q]
  <2>1. \A q \in Pools : /\ Cells(q)' \subseteq Cells(q)
                         /\ pool'[q].f.bucket_size = pool[q].f.bucket_size
                         /\ pool'[q].f.align = pool[q].f.align
    BY <1>3, <1>6, <1>8, <1>9 DEF Cells
  <2>2. from \in [Pools -> Pools] /\ (\A q, u \in Pools : from[q] = from[u] => q = u)
        /\ \A q \in Pools : from[q] = q
    OBVIOUS
  <2> HIDE DEF from
  <2>3. \A a \in DOMAIN granted' : a \in DOMAIN granted /\ granted'[a] = granted[a] BY <1>5
  <2> QED BY <1>5, <2>1, <2>2, <2>3, BucketsInherited
<1> QED BY <1>10, <1>11, <1>12, <1>13 DEF Inv

\* A new region begins where the last one ended, or above.
LEMMA LinearGives ==
  ASSUME Inv, NEW r, r.sz \in Nat, r.align \in Nat \ {0}, NEW place, place = Place(linear, r),
         LinearAllocate(r)
  PROVE  /\ place \in Nat /\ place >= Buffer + linear.offset
         /\ linear' \in [buffer : BOOLEAN, offset : Nat]
         /\ Buffer + linear'.offset = place + r.sz
         /\ DOMAIN granted' = DOMAIN granted \cup {place} /\ granted'[place] = r
         /\ \A a \in DOMAIN granted \ {place} : granted'[a] = granted[a]
         /\ \A a \in DOMAIN granted' : a \in Nat /\ granted'[a].sz \in Nat
         /\ Given'
<1> DEFINE skip == Skip(linear, r)
<1>1. /\ linear \in [buffer : BOOLEAN, offset : Nat] /\ linear.offset \in Nat /\ Buffer \in Nat
  BY LinearAssumption DEF Inv, TypeOK
<1>2. skip \in Nat BY <1>1, AlignUpIsAligned DEF Skip
<1>3. place = Buffer + linear.offset + skip BY DEF Place
<1>4. linear' = [linear EXCEPT !.offset = @ + skip + r.sz] BY DEF LinearAllocate, Bumped
<1> HIDE DEF skip
<1>5. linear' \in [buffer : BOOLEAN, offset : Nat] /\ linear'.offset = linear.offset + skip + r.sz
  BY <1>1, <1>2, <1>4
<1>6. place \in Nat /\ place >= Buffer + linear.offset /\ Buffer + linear'.offset = place + r.sz
  BY <1>1, <1>2, <1>3, <1>5
<1>7. /\ DOMAIN granted' = DOMAIN granted \cup {place} /\ granted'[place] = r
      /\ \A a \in DOMAIN granted \ {place} : granted'[a] = granted[a]
  BY DEF LinearAllocate, Put
<1>8. \A a \in DOMAIN granted :
        /\ a \in Nat /\ granted[a].sz \in Nat /\ a + granted[a].sz <= Buffer + linear.offset
  BY DEF Inv, TypeOK, Given
<1>9. ASSUME NEW a \in DOMAIN granted'
      PROVE  /\ a \in Nat /\ granted'[a].sz \in Nat /\ a + granted'[a].sz <= Buffer + linear'.offset
             /\ \A c \in DOMAIN granted' : a < c => a + granted'[a].sz <= c
  <2>1. CASE a = place
    <3>1. \A c \in DOMAIN granted' : c \in Nat /\ c <= place BY <1>1, <1>6, <1>7, <1>8
    <3> QED BY <1>6, <1>7, <2>1, <3>1
  <2>2. CASE a # place
    <3>1. a \in DOMAIN granted /\ granted'[a] = granted[a] BY <1>7, <1>9, <2>2
    <3>2. a \in Nat /\ granted[a].sz \in Nat /\ a + granted[a].sz <= place
          /\ a + granted[a].sz <= Buffer + linear'.offset
      BY <1>1, <1>5, <1>6, <1>8, <3>1
    <3>3. \A c \in DOMAIN granted : a < c => a + granted[a].sz <= c BY <3>1 DEF Inv, Given
    <3> QED BY <1>7, <3>1, <3>2, <3>3
  <2> QED BY <2>1, <2>2
<1>10. Given' BY <1>9 DEF Given
<1> QED BY <1>5, <1>6, <1>7, <1>9, <1>10

\* A region is given and the buckets are as they were.
LEMMA RegionGiven ==
  ASSUME Inv, NEW r, r.sz \in Nat, r.align \in Nat \ {0}, LinearAllocate(r),
         UNCHANGED << pool, clients >>
  PROVE  Inv'
<1> DEFINE place == Place(linear, r)
<1>1. /\ place \in Nat /\ place >= Buffer + linear.offset
      /\ linear' \in [buffer : BOOLEAN, offset : Nat]
      /\ Buffer + linear'.offset = place + r.sz
      /\ DOMAIN granted' = DOMAIN granted \cup {place} /\ granted'[place] = r
      /\ \A a \in DOMAIN granted \ {place} : granted'[a] = granted[a]
      /\ \A a \in DOMAIN granted' : a \in Nat /\ granted'[a].sz \in Nat
      /\ Given'
  BY LinearGives
<1>2. PICK at : at = place OBVIOUS
<1> HIDE DEF place
<1>3. \A p \in Pools : FreeOf(p)' = FreeOf(p) /\ By(p)' = By(p) /\ Cells(p)' = Cells(p)
                      /\ Size(p)' = Size(p)
  BY DEF FreeOf, By, Cells, Size
<1>4. TypeOK' BY <1>1 DEF Inv, TypeOK
<1>5. Served' BY DEF Inv, Served
<1>6. Stacked' BY <1>3 DEF Inv, Stacked
<1>7. Apart' BY <1>3 DEF Inv, Apart
<1>8. Placed'
  <2>1. ASSUME NEW p \in Pools, NEW b \in Cells(p)
        PROVE  /\ b + Size(p) <= Buffer + linear'.offset /\ b % pool[p].f.align = 0
               /\ \A a \in DOMAIN granted' \ Pages' : Clear(b, Size(p), a, granted'[a].sz)
    <3>1. /\ b \in Nat /\ Size(p) \in Nat /\ b + Size(p) <= Buffer + linear.offset
          /\ b % pool[p].f.align = 0
          /\ \A a \in DOMAIN granted \ Pages : Clear(b, Size(p), a, granted[a].sz)
      <4>1. pool[p].f \in Fields /\ pool[p].f.free_list \in Seq(Nat) BY DEF Inv, TypeOK, Fields
      <4>2. b \in Nat BY <4>1, <2>1 DEF Cells, FreeOf, By, ToSet, Inv, TypeOK
      <4> QED BY <4>1, <4>2, <2>1 DEF Inv, Placed, Size, Fields
    <3>2. ASSUME NEW a \in DOMAIN granted' \ Pages' PROVE Clear(b, Size(p), a, granted'[a].sz)
      <4>1. CASE a = at BY <1>1, <1>2, <3>1, <4>1, LinearAssumption DEF Clear, Inv, TypeOK
      <4>2. CASE a # at
        <5>1. a \in DOMAIN granted /\ granted'[a] = granted[a] BY <1>1, <1>2, <3>2, <4>2
        <5>2. a \notin Pages BY <3>2, <5>1 DEF Pages
        <5> QED BY <3>1, <5>1, <5>2
      <4> QED BY <4>1, <4>2
    <3>3. linear.offset \in Nat /\ Buffer \in Nat BY LinearAssumption DEF Inv, TypeOK
    <3>4. Buffer + linear.offset <= Buffer + linear'.offset BY <1>1, <3>3
    <3>5. linear'.offset \in Nat BY <1>1
    <3> QED BY <3>1, <3>2, <3>3, <3>4, <3>5
  <2> QED BY <2>1, <1>3 DEF Placed, Clear
<1> QED BY <1>1, <1>4, <1>5, <1>6, <1>7, <1>8 DEF Inv

LEMMA DirectAllocateKeeps ==
  ASSUME Inv, NEW r \in Requests, DirectAllocate(r)
  PROVE  Inv'
<1>1. r.sz \in Nat /\ r.align \in Nat \ {0} BY LinearAssumption
<1> QED BY <1>1, RegionGiven DEF DirectAllocate

LEMMA DirectDeallocateKeeps ==
  ASSUME Inv, NEW a \in DOMAIN granted, DirectDeallocate(a)
  PROVE  Inv'
<1>1. /\ UNCHANGED << linear, pool, clients >>
      /\ \A c \in DOMAIN granted' : c \in DOMAIN granted /\ granted'[c] = granted[c]
  BY DEF DirectDeallocate, LinearDeallocate, Drop
<1>2. \A p \in Pools : FreeOf(p)' = FreeOf(p) /\ By(p)' = By(p) /\ Cells(p)' = Cells(p)
  BY <1>1 DEF FreeOf, By, Cells
<1>3. TypeOK' /\ Served' BY <1>1 DEF Inv, TypeOK, Served
<1>4. Stacked' BY <1>1, <1>2 DEF Inv, Stacked
<1>5. Apart' /\ Placed' /\ Given'
  <2> DEFINE from == [q \in Pools |-> q]
  <2>1. from \in [Pools -> Pools] /\ (\A q, u \in Pools : from[q] = from[u] => q = u)
        /\ \A q \in Pools : from[q] = q
    OBVIOUS
  <2> HIDE DEF from
  <2>2. \A q \in Pools : /\ Cells(q)' \subseteq Cells(from[q])
                         /\ pool'[q].f.bucket_size = pool[from[q]].f.bucket_size
                         /\ pool'[q].f.align = pool[from[q]].f.align
    BY <1>1, <1>2, <2>1
  <2> QED BY <1>1, <2>1, <2>2, BucketsInherited
<1> QED BY <1>3, <1>4, <1>5 DEF Inv

LEMMA NothingCut ==
  ASSUME TypeOK, clients = << >>, \A p \in Pools : pool[p].f.free_list = << >>
  PROVE  Served /\ Stacked /\ Apart /\ Placed
<1>1. DOMAIN clients = {} OBVIOUS
<1>2. \A p \in Pools : By(p) = {} /\ FreeOf(p) = {} /\ Cells(p) = {}
  BY <1>1 DEF By, FreeOf, Cells, ToSet
<1> QED BY <1>1, <1>2 DEF Served, Stacked, Apart, Placed, IsInjective

LEMMA ResetKeeps ==
  ASSUME Inv, Reset
  PROVE  Inv'
<1>1. /\ \A p \in Pools : pool[p].st = "none"
      /\ linear' = [linear EXCEPT !.offset = 0] /\ granted' = << >> /\ UNCHANGED << pool, clients >>
  BY DEF Reset, LinearReset
<1>2. DOMAIN granted' = {} BY <1>1
<1>3. \A p \in Pools : By(p) = {} /\ pool[p].f.free_list = << >>
  BY <1>1, NothingHeld DEF Inv, TypeOK
<1>4. \A p \in Pools : By(p)' = {} /\ FreeOf(p)' = {} /\ Cells(p)' = {}
  BY <1>1, <1>3 DEF By, FreeOf, Cells, ToSet
<1>5. TypeOK' BY <1>1, <1>2 DEF Inv, TypeOK
<1>6. Served' BY <1>1 DEF Inv, Served
<1>7. Stacked' BY <1>1, <1>4 DEF Inv, Stacked
<1>8. Apart' /\ Placed' BY <1>4 DEF Apart, Placed
<1>9. Given' BY <1>2 DEF Given
<1> QED BY <1>5, <1>6, <1>7, <1>8, <1>9 DEF Inv

\* allocate_page: the new buckets lie above all that was given before.
LEMMA AllocPageKeeps ==
  ASSUME Inv, NEW p \in Pools, NEW r \in PoolRequests, Usable(p), Accepts(pool[p].f, r),
         AllocPage(p, r)
  PROVE  Inv'
<1>1. PICK f \in Fields : f = pool[p].f BY DEF Inv, TypeOK
<1>2. PICK page : page = Place(linear, PageRequest(f)) OBVIOUS
<1>3. PICK req : req = PageRequest(f) OBVIOUS
<1>4. /\ f.free_list = << >> /\ f.cnt > 0 /\ LinearAllocate(req) /\ pool[p].st = "usable"
      /\ Accepts(f, r) /\ Running
  BY <1>1, <1>3 DEF AllocPage, Usable
<1>5. Cut(f) BY <1>1, <1>4 DEF Inv, TypeOK, Blank
<1>6. req.sz \in Nat /\ req.align \in Nat \ {0}
  <2>1. header_size(f) \in Nat /\ GreaterOf(f.align, BUCKET_ALIGN) \in Nat \ {0} BY <1>5, CutFields
  <2>2. f.cnt \in Nat /\ f.bucket_size \in Nat BY DEF Fields
  <2>3. f.cnt * f.bucket_size \in Nat BY <2>2, Z3
  <2> QED BY <1>3, <2>1, <2>3 DEF PageRequest
<1>7. req \notin Requests
  <2>1. "for" \in DOMAIN req BY <1>3 DEF PageRequest
  <2>2. \A x \in [sz : Nat, align : Nat \ {0}] : DOMAIN x = {"sz", "align"} OBVIOUS
  <2> QED BY <2>1, <2>2, LinearAssumption
<1>8. /\ page \in Nat /\ page >= Buffer + linear.offset
      /\ linear' \in [buffer : BOOLEAN, offset : Nat]
      /\ Buffer + linear'.offset = page + req.sz
      /\ DOMAIN granted' = DOMAIN granted \cup {page} /\ granted'[page] = req
      /\ \A a \in DOMAIN granted \ {page} : granted'[a] = granted[a]
      /\ \A a \in DOMAIN granted' : a \in Nat /\ granted'[a].sz \in Nat
      /\ Given'
  BY <1>2, <1>3, <1>4, <1>6, LinearGives
<1>9. CASE page % f.align # 0
  <2>1. UNCHANGED << pool, clients >> BY <1>1, <1>2, <1>9 DEF AllocPage
  <2> QED BY <1>4, <1>6, <2>1, RegionGiven
<1>10. CASE page % f.align = 0
  <2>1. PICK new : new = BucketsOf(f, page) OBVIOUS
  <2>2. PICK g : g = WithPage(f, page) OBVIOUS
  <2>3. Give(p, g, r) BY <1>1, <1>2, <1>10, <2>2 DEF AllocPage
  <2>4. /\ new \in Seq(Nat) /\ new # << >> /\ IsInjective(new)
        /\ \A b \in ToSet(new) :
             /\ b > page /\ b + f.bucket_size <= page + req.sz /\ b % f.align = 0
             /\ \A c \in ToSet(new) : b = c \/ Clear(b, f.bucket_size, c, f.bucket_size)
    BY <1>3, <1>4, <1>5, <1>8, <1>10, <2>1, PageOfBuckets
  <2>5. \A b \in ToSet(new) : b \in Nat BY <2>4 DEF ToSet
  <2>6. /\ g \in Fields /\ g.free_list = new /\ g.align = f.align /\ g.bucket_size = f.bucket_size
    <3>1. new \o << >> = new BY <2>4
    <3>2. g = [f EXCEPT !.free_list = new] BY <1>4, <2>1, <2>2, <3>1 DEF WithPage, Fields
    <3> QED BY <2>4, <3>2 DEF Fields
  <2>7. Cut(g) /\ Accepts(g, r) BY <1>4, <1>5, <2>6 DEF Cut, Accepts
  <2>8. linear.offset \in Nat /\ Buffer \in Nat BY LinearAssumption DEF Inv, TypeOK
  <2>9. ASSUME NEW q \in Pools, NEW b \in Cells(q)
        PROVE  /\ b \in Nat /\ Size(q) \in Nat /\ Size(q) > 0
               /\ b + Size(q) <= Buffer + linear.offset /\ b + Size(q) <= page
               /\ b % pool[q].f.align = 0
               /\ \A a \in DOMAIN granted \ Pages : Clear(b, Size(q), a, granted[a].sz)
    <3>1. /\ b + Size(q) <= Buffer + linear.offset /\ b % pool[q].f.align = 0
          /\ \A a \in DOMAIN granted \ Pages : Clear(b, Size(q), a, granted[a].sz)
      BY <2>9 DEF Inv, Placed
    <3>2. b \in Nat /\ Size(q) \in Nat /\ Size(q) > 0 BY <2>9, CellsAre
    <3> QED BY <1>8, <2>8, <3>1, <3>2
  <2>10. ToSet(g.free_list) \cap DOMAIN clients = {}
    <3>1. ASSUME NEW b \in ToSet(new), b \in DOMAIN clients PROVE FALSE
      <4>1. clients[b].by \in Pools /\ b \in Cells(clients[b].by)
        BY <3>1 DEF Inv, TypeOK, Cells, By
      <4>2. PICK q \in Pools : b \in Cells(q) BY <4>1
      <4>3. b \in Nat /\ Size(q) \in Nat /\ Size(q) > 0 /\ b + Size(q) <= page BY <2>9, <4>2
      <4>4. b > page BY <2>4
      <4> QED BY <1>8, <4>3, <4>4
    <3> QED BY <2>6, <3>1
  <2>11. /\ pool' \in [Pools -> [st : {"none", "usable", "moved"}, parent : BOOLEAN, f : Fields]]
         /\ \A b \in DOMAIN clients' :
              b \in Nat /\ clients'[b] \in [sz : Nat, align : Alignments, by : Pools]
         /\ \A q \in Pools : Blank(pool'[q].f) \/ Cut(pool'[q].f)
         /\ \A q \in Pools : pool'[q].st = "none" => pool'[q].f.free_list = << >>
         /\ Served' /\ Stacked'
         /\ Cells(p)' \subseteq ToSet(g.free_list) \cup By(p)
         /\ \A q \in Pools \ {p} : Cells(q)' \subseteq Cells(q)
         /\ \A q \in Pools : /\ pool'[q].f.bucket_size = pool[q].f.bucket_size
                            /\ pool'[q].f.align = pool[q].f.align
    BY <1>1, <1>4, <2>3, <2>4, <2>6, <2>7, <2>10, Gives
  <2>12. TypeOK' BY <1>8, <2>11 DEF TypeOK
  <2>13. ASSUME NEW q \in Pools, NEW b \in Cells(q)'
         PROVE  /\ Size(q)' = Size(q)
                /\ b \in Cells(q) \/ (q = p /\ b \in ToSet(new) /\ Size(q) = f.bucket_size)
    BY <1>1, <2>6, <2>11, <2>13 DEF Cells, Size
  <2>14. \A q \in Pools : \A b \in Cells(q), c \in ToSet(new) :
           /\ Clear(b, Size(q), c, f.bucket_size) /\ Clear(c, f.bucket_size, b, Size(q))
    <3>1. ASSUME NEW q \in Pools, NEW b \in Cells(q), NEW c \in ToSet(new)
          PROVE  b + Size(q) <= c
      <4>1. b \in Nat /\ Size(q) \in Nat /\ b + Size(q) <= page BY <2>9
      <4>2. c > page /\ c \in Nat BY <2>4, <2>5
      <4> QED BY <1>8, <4>1, <4>2
    <3> QED BY <3>1 DEF Clear
  <2>15. Apart'
    <3>1. ASSUME NEW q \in Pools, NEW u \in Pools, NEW b \in Cells(q)', NEW c \in Cells(u)'
          PROVE  (q = u /\ b = c) \/ Clear(b, Size(q), c, Size(u))
      <4>1. b \in Cells(q) \/ (q = p /\ b \in ToSet(new) /\ Size(q) = f.bucket_size)
        BY <2>13, <3>1
      <4>2. c \in Cells(u) \/ (u = p /\ c \in ToSet(new) /\ Size(u) = f.bucket_size)
        BY <2>13, <3>1
      <4>3. CASE b \in Cells(q) /\ c \in Cells(u) BY <4>3 DEF Inv, Apart
      <4>4. CASE b \in Cells(q) /\ (u = p /\ c \in ToSet(new) /\ Size(u) = f.bucket_size)
        BY <2>14, <4>4
      <4>5. CASE c \in Cells(u) /\ (q = p /\ b \in ToSet(new) /\ Size(q) = f.bucket_size)
        BY <2>14, <4>5
      <4>6. CASE /\ q = p /\ b \in ToSet(new) /\ Size(q) = f.bucket_size
                 /\ u = p /\ c \in ToSet(new) /\ Size(u) = f.bucket_size
        BY <2>4, <4>6
      <4> QED BY <4>1, <4>2, <4>3, <4>4, <4>5, <4>6
    <3>2. \A q \in Pools : \A b \in Cells(q)' : Size(q)' = Size(q) BY <2>13
    <3> QED BY <3>1, <3>2 DEF Apart, Clear
  <2>16. Placed'
    <3>1. ASSUME NEW a \in DOMAIN granted' \ Pages'
          PROVE  /\ a \in DOMAIN granted \ Pages /\ granted'[a] = granted[a] /\ a \in Nat
                 /\ granted[a].sz \in Nat /\ a + granted[a].sz <= page
      <4>1. a # page BY <1>7, <1>8, <3>1 DEF Pages
      <4>2. a \in DOMAIN granted /\ granted'[a] = granted[a] BY <1>8, <3>1, <4>1
      <4>3. a \notin Pages BY <3>1, <4>2 DEF Pages
      <4>4. a \in Nat /\ granted[a].sz \in Nat /\ a + granted[a].sz <= Buffer + linear.offset
        BY <4>2 DEF Inv, TypeOK, Given
      <4> QED BY <1>8, <2>8, <4>2, <4>3, <4>4
    <3>2. ASSUME NEW q \in Pools, NEW b \in Cells(q)'
          PROVE  /\ b + Size(q) <= Buffer + linear'.offset /\ b % pool[q].f.align = 0
                 /\ \A a \in DOMAIN granted' \ Pages' : Clear(b, Size(q), a, granted'[a].sz)
      <4>1. CASE b \in Cells(q)
        <5>1. linear'.offset \in Nat /\ req.sz \in Nat BY <1>6, <1>8
        <5>2. b + Size(q) <= Buffer + linear'.offset BY <1>8, <2>8, <2>9, <4>1, <5>1
        <5>3. ASSUME NEW a \in DOMAIN granted' \ Pages' PROVE Clear(b, Size(q), a, granted'[a].sz)
          BY <2>9, <3>1, <4>1
        <5> QED BY <2>9, <4>1, <5>2, <5>3
      <4>2. CASE q = p /\ b \in ToSet(new) /\ Size(q) = f.bucket_size
        <5>1. b \in Nat /\ b > page /\ b + f.bucket_size <= page + req.sz /\ b % f.align = 0
          BY <2>4, <2>5, <4>2
        <5>2. ASSUME NEW a \in DOMAIN granted' \ Pages' PROVE Clear(b, Size(q), a, granted'[a].sz)
          <6>1. granted'[a] = granted[a] /\ a \in Nat /\ granted[a].sz \in Nat
                /\ a + granted[a].sz <= page
            BY <3>1
          <6>2. a + granted[a].sz <= b BY <1>8, <5>1, <6>1
          <6> QED BY <6>1, <6>2 DEF Clear
        <5> QED BY <1>1, <1>8, <4>2, <5>1, <5>2
      <4> QED BY <2>13, <3>2, <4>1, <4>2
    <3>3. \A q \in Pools : \A b \in Cells(q)' : Size(q)' = Size(q) /\ pool'[q].f.align = pool[q].f.align
      BY <2>11, <2>13
    <3> QED BY <3>2, <3>3 DEF Placed, Clear
  <2> QED BY <1>8, <2>11, <2>12, <2>15, <2>16 DEF Inv
<1> QED BY <1>9, <1>10
-----------------------------------------------------------------------------
(* The theorems *)

LEMMA InitInv == PoolInit => Inv
<1> SUFFICES ASSUME PoolInit PROVE Inv OBVIOUS
<1>1. /\ linear \in [buffer : BOOLEAN, offset : {0}] /\ granted = << >> /\ clients = << >>
      /\ pool = [p \in Pools |-> None]
  BY DEF PoolInit, LinearInit
<1>2. /\ None.st = "none" /\ None.f.free_list = << >> /\ Blank(None.f)
      /\ None \in [st : {"none", "usable", "moved"}, parent : BOOLEAN, f : Fields]
  BY DEF None, Unset, Fields, Blank
<1>3. DOMAIN granted = {} /\ DOMAIN clients = {} BY <1>1
<1>4. TypeOK BY <1>1, <1>2, <1>3 DEF TypeOK
<1>5. \A p \in Pools : pool[p].f.free_list = << >> BY <1>1, <1>2
<1>6. Served /\ Stacked /\ Apart /\ Placed BY <1>1, <1>4, <1>5, NothingCut
<1>7. Given BY <1>3 DEF Given
<1> QED BY <1>4, <1>6, <1>7 DEF Inv

LEMMA NextInv == Inv /\ [PoolNext]_pool_vars => Inv'
<1> SUFFICES ASSUME Inv, [PoolNext]_pool_vars PROVE Inv' OBVIOUS
<1>1. CASE UNCHANGED pool_vars
  <2>1. UNCHANGED << linear, granted, pool, clients >> BY <1>1 DEF pool_vars
  <2>2. \A p \in Pools : FreeOf(p)' = FreeOf(p) /\ By(p)' = By(p) /\ Cells(p)' = Cells(p)
                        /\ Size(p)' = Size(p)
    BY <2>1 DEF FreeOf, By, Cells, Size
  <2>3. TypeOK' /\ Served' /\ Given' BY <2>1 DEF Inv, TypeOK, Served, Given
  <2>4. Stacked' /\ Apart' BY <2>1, <2>2 DEF Inv, Stacked, Apart
  <2>5. Pages' = Pages BY <2>1 DEF Pages
  <2>6. Placed' BY <2>1, <2>2, <2>5 DEF Inv, Placed
  <2> QED BY <2>3, <2>4, <2>6 DEF Inv
<1>2. ASSUME NEW p \in Pools, NEW c \in Params, construct(p, c) PROVE Inv'
  BY <1>2, ConstructKeeps
<1>3. ASSUME NEW p \in Pools, default_construct(p) PROVE Inv' BY <1>3, DefaultConstructKeeps
<1>4. ASSUME NEW p \in Pools, NEW s \in Pools, pool_move_construct(p, s) PROVE Inv'
  BY <1>4, MoveConstructKeeps
<1>5. ASSUME NEW p \in Pools, NEW s \in Pools, move_assign(p, s) PROVE Inv'
  BY <1>5, MoveAssignKeeps
<1>6. ASSUME NEW p \in Pools, NEW r \in PoolRequests, allocate(p, r) PROVE Inv'
  <2>1. Usable(p) /\ Accepts(pool[p].f, r) /\ (AllocPop(p, r) \/ AllocPage(p, r))
    BY <1>6 DEF allocate
  <2>2. CASE AllocPop(p, r) BY <2>1, <2>2, AllocPopKeeps
  <2>3. CASE AllocPage(p, r) BY <2>1, <2>3, AllocPageKeeps
  <2> QED BY <2>1, <2>2, <2>3
<1>7. ASSUME NEW p \in Pools, destroy(p) PROVE Inv' BY <1>7, DestroyKeeps
<1>8. ASSUME NEW b \in DOMAIN clients, deallocate(b) PROVE Inv' BY <1>8, DeallocateKeeps
<1>9. ASSUME NEW r \in Requests, DirectAllocate(r) PROVE Inv' BY <1>9, DirectAllocateKeeps
<1>10. ASSUME NEW a \in DOMAIN granted, DirectDeallocate(a) PROVE Inv'
  BY <1>10, DirectDeallocateKeeps
<1>11. CASE Reset BY <1>11, ResetKeeps
<1> QED BY <1>1, <1>2, <1>3, <1>4, <1>5, <1>6, <1>7, <1>8, <1>9, <1>10, <1>11 DEF PoolNext

\* The invariant of the pools and of the linear allocator below them.
THEOREM SpecInv == PoolSpec => []Inv
<1>1. PoolInit => Inv BY InitInv
<1>2. Inv /\ [PoolNext]_pool_vars => Inv' BY NextInv
<1> QED BY <1>1, <1>2, PTL DEF PoolSpec

\* For any number of pools and any parameters: through moves in every order, a
\* bucket is in one free list, at one place, or with one client
\* (pool_allocator.cpp:30-49, 75-117).
THEOREM BucketsHaveOneOwner == PoolSpec => []BucketsOnce
<1>1. PoolSpec => []Inv BY SpecInv
<1>2. Inv => BucketsOnce BY InvBucketsOnce
<1> QED BY <1>1, <1>2, PTL

\* No two regions of clients, of a pool or of the linear allocator below it,
\* touch, and a bucket has the room and the alignment asked of its pool
\* (pool_allocator.cpp:51-73, linear_allocator.cpp:67-84).
THEOREM ClientsLieApart == PoolSpec => []PoolClientsApart
<1>1. PoolSpec => []Inv BY SpecInv
<1>2. Inv => PoolClientsApart BY InvPoolClientsApart
<1> QED BY <1>1, <1>2, PTL
=============================================================================
