-------------------------- MODULE SharedPtrProofs --------------------------
(***************************************************************************)
(* shared_ptr and weak_ptr for any number of threads, blocks and handles:  *)
(* the counts are exact, nothing freed is used, nobody becomes an owner    *)
(* again, lock fails only when nobody owns the object, and nothing that    *)
(* nobody holds outlives the calls.                                        *)
(***************************************************************************)
EXTENDS SharedPtr, FiniteSetTheorems, SequenceTheorems, TLAPS

Owners == Shared \cup Ctrls
JobOps == {"take", "inc_strong", "inc_weak", "load", "cas"}

\* What a call may have to do: release a block, or a job, which gives a
\* handle a new value and is the last step of its call.
Releases == [op : {"dec_strong", "destroy_object", "dec_weak", "destroy_control_block"},
             ctrl : Ctrls]
Jobs ==
  [op : {"take"}, dst : Handles, src : Handles, path : SUBSET Shared,
   inc : {"strong", "weak", "none"}]
  \cup [op : {"inc_strong", "inc_weak"}, dst : Handles, src : Handles, path : SUBSET Shared,
        ctrl : Ctrls]
  \cup [op : {"load"}, dst : Handles, src : Handles, path : SUBSET Shared]
  \cup [op : {"cas"}, dst : Handles, src : Handles, path : SUBSET Shared, val : Nat]

TypeOK ==
  /\ held \in [Handles -> Ctrls \cup {Null}]
  /\ strong \in [Ctrls -> Nat] /\ weak \in [Ctrls -> Nat]
  /\ phase \in [Ctrls -> {"unused", "live", "destroyed", "freed"}]
  /\ todo \in [Threads -> Seq(Releases \cup Jobs)]

\* A call ends with its job, if it has one.  The destruction of an object and
\* of a block are next as soon as they are due, and the first of them has the
\* common weak reference behind it.
WellShaped(q) == \A i \in 1 .. Len(q) :
  /\ q[i].op \in JobOps => i = Len(q)
  /\ q[i].op = "destroy_object" => i = 1 /\ Len(q) > 1 /\ q[2] = DecWeak(q[1].ctrl)
  /\ q[i].op = "destroy_control_block" => i = 1

\* The handles of a job, and those that it changes.
Footprint(f) == {f.dst, f.src} \cup f.path
Writes(f)    == {f.dst} \cup {s \in {f.src} : f.op = "take" /\ f.inc = "none"}

\* What a job may rely on: a member that it uses is the member of an object
\* that one of its variables owns; a counted block is the one its source holds.
Guarded(f) ==
  /\ f.dst # f.src /\ f.dst \notin f.path
  /\ f.dst \in Ctrls => \E p \in f.path : held[p] = f.dst
  /\ f.src \in Ctrls => \E p \in f.path : held[p] = f.src
  /\ f.op = "inc_strong" \/ (f.op = "take" /\ f.inc = "strong") => {f.dst, f.src} \subseteq Owners
  /\ f.op = "inc_weak" \/ (f.op = "take" /\ f.inc = "weak")
       => f.dst \in Weak /\ f.src \in Shared \cup Weak
  /\ f.op = "take" /\ f.inc = "none" => {f.dst, f.src} \subseteq Shared /\ f.path = {}
  /\ f.op \in {"inc_strong", "inc_weak"} => held[f.dst] = f.ctrl /\ held[f.src] = f.ctrl
  /\ f.op \in {"load", "cas"} =>
       f.dst \in Shared /\ f.src \in Weak /\ held[f.dst] = Null /\ held[f.src] # Null
  /\ f.op = "cas" => f.val > 0

JobsOf(t) == {f \in Steps(t) : f.op \in JobOps}

CallsOK ==
  /\ \A t \in Threads : WellShaped(todo[t])
  /\ \A t \in Threads : \A f \in JobsOf(t) : Guarded(f)
  /\ \A t, u \in Threads : t # u =>
       \A f \in JobsOf(t), g \in JobsOf(u) : Writes(f) \cap Footprint(g) = {}

Places(td, f) == UNION {{t} \X {n \in 1 .. Len(td[t]) : td[t][Len(td[t]) + 1 - n] = f} : t \in Threads}

\* CountsExact, of every block.
Counted(c) ==
  /\ IsFiniteSet(Places(todo, DecStrong(c))) /\ IsFiniteSet(Places(todo, DecWeak(c)))
  /\ strong[c] = Cardinality(HoldersOf(Owners, c)) + Cardinality(Places(todo, DecStrong(c)))
  /\ weak[c] = Cardinality(HoldersOf(Weak, c)) + Cardinality(Places(todo, DecWeak(c)))
               + IF strong[c] > 0 THEN 1 ELSE 0

\* The object lives until the call that let go last destroys it, and the block
\* until the call that gave the last weak reference back frees it.
Dying(c)   == \E t \in Threads : todo[t] # << >> /\ Head(todo[t]) = Destroy(c)
Closing(c) == \E t \in Threads : todo[t] # << >> /\ Head(todo[t]) = Dealloc(c)
Alone(f)   == \A t, u \in Threads :
  todo[t] # << >> /\ Head(todo[t]) = f /\ todo[u] # << >> /\ Head(todo[u]) = f => t = u
Lives(c) ==
  /\ phase[c] = "live" <=> strong[c] > 0 \/ Dying(c)
  /\ phase[c] = "destroyed" <=> phase[c] # "live" /\ (weak[c] > 0 \/ Closing(c))
  /\ Dying(c) => strong[c] = 0 /\ ~Closing(c)
  /\ Closing(c) => strong[c] = 0 /\ weak[c] = 0
  /\ Alone(Destroy(c)) /\ Alone(Dealloc(c))

Inv ==
  /\ TypeOK /\ ~fault
  /\ CallsOK
  /\ \A c \in Ctrls : Counted(c) /\ Lives(c)
-----------------------------------------------------------------------------
(* Cardinalities *)

\* Two finite sets that differ at most in x and y.
LEMMA DifferInOne ==
  ASSUME NEW S, IsFiniteSet(S), NEW T, NEW x, S \ {x} = T \ {x}
  PROVE  /\ IsFiniteSet(T) /\ Cardinality(S) \in Nat /\ Cardinality(T) \in Nat
         /\ x \in S /\ x \in T => Cardinality(T) = Cardinality(S)
         /\ x \notin S /\ x \notin T => Cardinality(T) = Cardinality(S)
         /\ x \in S /\ x \notin T => Cardinality(S) = Cardinality(T) + 1
         /\ x \notin S /\ x \in T => Cardinality(T) = Cardinality(S) + 1
<1>1. IsFiniteSet(S \ {x}) BY FS_RemoveElement
<1>2. (S \ {x}) \cup {x} = S \cup {x} /\ (S \ {x}) \cup {x} = T \cup {x} OBVIOUS
<1>3. IsFiniteSet(T \cup {x}) BY <1>1, <1>2, FS_AddElement
<1>4. IsFiniteSet(T) BY <1>3, FS_Subset
<1>5. CASE x \in S /\ x \in T
  <2>1. S = T BY <1>5
  <2> QED BY <2>1, <1>4, <1>5, FS_CardinalityType
<1>6. CASE x \notin S /\ x \notin T
  <2>1. S = T BY <1>6
  <2> QED BY <2>1, <1>4, <1>6, FS_CardinalityType
<1>7. CASE x \in S /\ x \notin T
  <2>1. T \cup {x} = S BY <1>7
  <2>2. Cardinality(T \cup {x}) = Cardinality(T) + 1 BY <1>4, <1>7, FS_AddElement
  <2> QED BY <2>1, <2>2, <1>4, <1>7, FS_CardinalityType
<1>8. CASE x \notin S /\ x \in T
  <2>1. S \cup {x} = T BY <1>8
  <2>2. Cardinality(S \cup {x}) = Cardinality(S) + 1 BY <1>8, FS_AddElement
  <2> QED BY <2>1, <2>2, <1>4, <1>8, FS_CardinalityType
<1> QED BY <1>5, <1>6, <1>7, <1>8

\* A finite set with two elements has more than one.
LEMMA TwoElements ==
  ASSUME NEW S, IsFiniteSet(S), NEW x \in S, NEW y \in S, x # y
  PROVE  Cardinality(S) > 1
<1>1. Cardinality(S) \in Nat /\ Cardinality(S) # 0 BY FS_CardinalityType, FS_EmptySet
<1>2. Cardinality(S) # 1 BY FS_Singleton
<1> QED BY <1>1, <1>2
-----------------------------------------------------------------------------
(* Sequences of steps *)

LEMMA Put ==
  ASSUME NEW S, NEW q \in Seq(S), NEW a \in S
  PROVE  /\ << a >> \o q \in Seq(S) /\ Len(<< a >> \o q) = Len(q) + 1
         /\ << a >> \o q # << >> /\ Head(<< a >> \o q) = a
         /\ (<< a >> \o q)[1] = a
         /\ \A i \in 1 .. Len(q) : (<< a >> \o q)[i + 1] = q[i]
         /\ \A i \in 2 .. Len(q) + 1 : (<< a >> \o q)[i] = q[i - 1]
OBVIOUS

LEMMA Popped ==
  ASSUME NEW S, NEW q \in Seq(S), q # << >>
  PROVE  /\ Tail(q) \in Seq(S) /\ Len(Tail(q)) = Len(q) - 1 /\ Len(q) \in Nat \ {0}
         /\ Head(q) = q[1] /\ Head(q) \in S
         /\ \A i \in 1 .. Len(q) - 1 : Tail(q)[i] = q[i + 1]
OBVIOUS

LEMMA PutTwo ==
  ASSUME NEW S, NEW q \in Seq(S), NEW a \in S, NEW b \in S
  PROVE  /\ << a, b >> \o q = << a >> \o (<< b >> \o q) /\ << >> \o q = q
         /\ << a >> \o << b >> = << a, b >> /\ << a, b >> \in Seq(S)
         /\ << a >> \o << >> = << a >> /\ << a >> \in Seq(S) /\ << >> \in Seq(S)
<1>1. << a >> \in Seq(S) /\ << b >> \in Seq(S) /\ << a, b >> \in Seq(S) /\ << >> \in Seq(S)
  OBVIOUS
<1>2. << a >> \o << b >> = << a, b >>
  <2> DEFINE x == << a >> \o << b >>
  <2> DEFINE y == << a, b >>
  <2>1. x \in Seq(S) /\ Len(x) = 2 /\ x[1] = a /\ x[2] = b BY <1>1
  <2>2. y \in Seq(S) /\ Len(y) = 2 /\ y[1] = a /\ y[2] = b BY <1>1
  <2> HIDE DEF x, y
  <2>3. \A i \in 1 .. Len(x) : x[i] = y[i] BY <2>1, <2>2
  <2>4. x = y BY <2>1, <2>2, <2>3, SeqEqual
  <2> QED BY <2>4 DEF x, y
<1>3. << a, b >> \o q = << a >> \o (<< b >> \o q)
  <2>1. (<< a >> \o << b >>) \o q = << a >> \o (<< b >> \o q) BY <1>1, ConcatAssociative
  <2> QED BY <2>1, <1>2
<1>4. << >> \o q = q BY ConcatEmptySeq
<1>5. << a >> \o << >> = << a >> BY <1>1, ConcatEmptySeq
<1> QED BY <1>1, <1>2, <1>3, <1>4, <1>5

LEMMA Fields ==
  /\ \A f \in Releases :
       /\ f.op \notin JobOps /\ "dst" \notin DOMAIN f /\ "src" \notin DOMAIN f /\ f.ctrl \in Ctrls
       /\ f.op = "dec_strong" => f = DecStrong(f.ctrl)
       /\ f.op = "destroy_object" => f = Destroy(f.ctrl)
       /\ f.op = "dec_weak" => f = DecWeak(f.ctrl)
       /\ f.op = "destroy_control_block" => f = Dealloc(f.ctrl)
       /\ f.op \in {"dec_strong", "destroy_object", "dec_weak", "destroy_control_block"}
  /\ \A c \in Ctrls : {DecStrong(c), Destroy(c), DecWeak(c), Dealloc(c)} \subseteq Releases
  /\ \A c : /\ DecStrong(c).op = "dec_strong" /\ DecStrong(c).ctrl = c
            /\ Destroy(c).op = "destroy_object" /\ Destroy(c).ctrl = c
            /\ DecWeak(c).op = "dec_weak" /\ DecWeak(c).ctrl = c
            /\ Dealloc(c).op = "destroy_control_block" /\ Dealloc(c).ctrl = c
BY DEF Releases, JobOps, DecStrong, Destroy, DecWeak, Dealloc

LEMMA JobFields == \A f \in Jobs :
  /\ f.op \in JobOps /\ "dst" \in DOMAIN f /\ "src" \in DOMAIN f
  /\ f.dst \in Handles /\ f.src \in Handles /\ f.path \subseteq Shared
  /\ f.op = "take" => f.inc \in {"strong", "weak", "none"}
  /\ f.op \in {"inc_strong", "inc_weak"} => f.ctrl \in Ctrls
  /\ f.op = "cas" => f.val \in Nat
BY DEF Jobs, JobOps
-----------------------------------------------------------------------------
(* How a call goes on: its first step is taken off, or steps are put before *)
(* those that are left.                                                     *)

Known == Releases \cup Jobs
JobsIn(q) == {f \in {q[i] : i \in DOMAIN q} : f.op \in JobOps}
Calm(q) == WellShaped(q)
  /\ \A i \in 1 .. Len(q) : q[i].op \notin {"destroy_object", "destroy_control_block"}

LEMMA TakeOff ==
  ASSUME NEW q \in Seq(Known), q # << >>, WellShaped(q)
  PROVE  /\ Calm(Tail(q)) /\ Tail(q) \in Seq(Known)
         /\ Head(q) \in Known
         /\ Head(q).op \in JobOps => Tail(q) = << >> /\ JobsIn(q) = {Head(q)}
         /\ Head(q).op \notin JobOps => JobsIn(Tail(q)) = JobsIn(q)
         /\ Head(q).op = "destroy_object" =>
              Tail(q) # << >> /\ Head(Tail(q)) = DecWeak(Head(q).ctrl)
<1> DEFINE r == Tail(q)
<1>1. /\ r \in Seq(Known) /\ Len(r) = Len(q) - 1 /\ Len(q) \in Nat \ {0}
      /\ Head(q) = q[1] /\ Head(q) \in Known /\ DOMAIN q = 1 .. Len(q) /\ DOMAIN r = 1 .. Len(r)
      /\ \A i \in 1 .. Len(q) - 1 : r[i] = q[i + 1]
  BY Popped
<1> HIDE DEF r
<1>2. Calm(r) BY <1>1 DEF Calm, WellShaped
<1>3. ASSUME q[1].op \in JobOps PROVE r = << >> /\ JobsIn(q) = {q[1]}
  <2>1. Len(q) = 1 BY <1>1, <1>3 DEF WellShaped
  <2>2. r = << >> BY <2>1, <1>1
  <2> QED BY <2>1, <2>2, <1>1, <1>3 DEF JobsIn
<1>4. ASSUME q[1].op \notin JobOps PROVE JobsIn(r) = JobsIn(q)
  <2>1. ASSUME NEW i \in DOMAIN q, q[i].op \in JobOps PROVE \E j \in DOMAIN r : r[j] = q[i]
    <3>1. i # 1 /\ i - 1 \in DOMAIN r BY <2>1, <1>1, <1>4
    <3>2. r[i - 1] = q[i] BY <3>1, <1>1
    <3> QED BY <3>1, <3>2
  <2>2. ASSUME NEW i \in DOMAIN r PROVE \E j \in DOMAIN q : r[i] = q[j]
    <3>1. i + 1 \in DOMAIN q /\ r[i] = q[i + 1] BY <1>1
    <3> QED BY <3>1
  <2> QED BY <2>1, <2>2 DEF JobsIn
<1>5. ASSUME q[1].op = "destroy_object" PROVE r # << >> /\ Head(r) = DecWeak(q[1].ctrl)
  <2>1. Len(q) > 1 /\ q[2] = DecWeak(q[1].ctrl) BY <1>1, <1>5 DEF WellShaped
  <2>2. r[1] = q[2] /\ r # << >> BY <2>1, <1>1
  <2> QED BY <2>1, <2>2, <1>1, Popped
<1> QED BY <1>1, <1>2, <1>3, <1>4, <1>5 DEF r

LEMMA Longer ==
  ASSUME NEW q \in Seq(Known), Calm(q), NEW a \in Releases, NEW r,
         r \in Seq(Known), Len(r) = Len(q) + 1, r # << >>, Head(r) = a, r[1] = a,
         \A i \in 1 .. Len(q) : r[i + 1] = q[i], \A i \in 2 .. Len(q) + 1 : r[i] = q[i - 1],
         DOMAIN q = 1 .. Len(q), DOMAIN r = 1 .. Len(r), Len(q) \in Nat
  PROVE  /\ JobsIn(r) = JobsIn(q)
         /\ a.op \in {"dec_strong", "dec_weak"} => Calm(r)
         /\ a.op = "destroy_control_block" => WellShaped(r)
         /\ a.op = "destroy_object" /\ q # << >> /\ Head(q) = DecWeak(a.ctrl) => WellShaped(r)
<1>1. /\ r \in Seq(Known) /\ Len(r) = Len(q) + 1 /\ r # << >> /\ Head(r) = a /\ r[1] = a
      /\ \A i \in 1 .. Len(q) : r[i + 1] = q[i]
      /\ \A i \in 2 .. Len(q) + 1 : r[i] = q[i - 1]
      /\ DOMAIN q = 1 .. Len(q) /\ DOMAIN r = 1 .. Len(r) /\ Len(q) \in Nat
  OBVIOUS
<1>2. a.op \notin JobOps BY Fields
<1>3. JobsIn(r) = JobsIn(q)
  <2>1. ASSUME NEW i \in DOMAIN r, r[i].op \in JobOps PROVE \E j \in DOMAIN q : q[j] = r[i]
    <3>1. i # 1 /\ i - 1 \in DOMAIN q BY <2>1, <1>1, <1>2
    <3>2. q[i - 1] = r[i] BY <3>1, <1>1
    <3> QED BY <3>1, <3>2
  <2>2. ASSUME NEW i \in DOMAIN q PROVE \E j \in DOMAIN r : q[i] = r[j]
    <3>1. i + 1 \in DOMAIN r /\ q[i] = r[i + 1] BY <1>1
    <3> QED BY <3>1
  <2> QED BY <2>1, <2>2 DEF JobsIn
<1>4. \A i \in 2 .. Len(r) : /\ r[i].op \in JobOps => i = Len(r)
                             /\ r[i].op \notin {"destroy_object", "destroy_control_block"}
  <2> SUFFICES ASSUME NEW i \in 2 .. Len(r)
               PROVE  /\ r[i].op \in JobOps => i = Len(r)
                      /\ r[i].op \notin {"destroy_object", "destroy_control_block"}
    OBVIOUS
  <2>1. i - 1 \in 1 .. Len(q) /\ r[i] = q[i - 1] BY <1>1
  <2>2. /\ q[i - 1].op \in JobOps => i - 1 = Len(q)
        /\ q[i - 1].op \notin {"destroy_object", "destroy_control_block"}
    BY <2>1 DEF Calm, WellShaped
  <2> QED BY <2>1, <2>2, <1>1
<1>5. \A i \in 1 .. Len(r) : i # 1 => i \in 2 .. Len(r) BY <1>1
<1>6. ASSUME a.op \in {"dec_strong", "dec_weak"} PROVE Calm(r)
  BY <1>1, <1>2, <1>4, <1>5, <1>6 DEF Calm, WellShaped
<1>7. ASSUME a.op = "destroy_control_block" PROVE WellShaped(r)
  BY <1>1, <1>2, <1>4, <1>5, <1>7 DEF WellShaped
<1>8. ASSUME a.op = "destroy_object", q # << >>, Head(q) = DecWeak(a.ctrl) PROVE WellShaped(r)
  <2>1. Len(r) > 1 /\ r[2] = DecWeak(a.ctrl)
    <3>1. Len(q) > 0 /\ Head(q) = q[1] BY <1>8, Popped
    <3> QED BY <3>1, <1>1, <1>8
  <2> QED BY <2>1, <1>1, <1>2, <1>4, <1>5, <1>8 DEF WellShaped
<1> QED BY <1>3, <1>6, <1>7, <1>8

LEMMA PutBefore ==
  ASSUME NEW q \in Seq(Known), Calm(q), NEW a \in Releases, NEW r, r = << a >> \o q
  PROVE  /\ r \in Seq(Known) /\ r # << >> /\ Head(r) = a /\ JobsIn(r) = JobsIn(q)
         /\ a.op \in {"dec_strong", "dec_weak"} => Calm(r)
         /\ a.op = "destroy_control_block" => WellShaped(r)
         /\ a.op = "destroy_object" /\ q # << >> /\ Head(q) = DecWeak(a.ctrl) => WellShaped(r)
<1>1. /\ r \in Seq(Known) /\ Len(r) = Len(q) + 1 /\ r # << >> /\ Head(r) = a /\ r[1] = a
      /\ \A i \in 1 .. Len(q) : r[i + 1] = q[i]
      /\ \A i \in 2 .. Len(q) + 1 : r[i] = q[i - 1]
      /\ DOMAIN q = 1 .. Len(q) /\ DOMAIN r = 1 .. Len(r) /\ Len(q) \in Nat
  BY Put DEF Known
<1> QED BY <1>1, Longer

\* A call that has nothing or one job left.
LEMMA JustOne ==
  /\ << >> \in Seq(Known) /\ Calm(<< >>) /\ JobsIn(<< >>) = {}
  /\ \A f \in Jobs : /\ << f >> \in Seq(Known) /\ Calm(<< f >>) /\ JobsIn(<< f >>) = {f}
                     /\ << f >> # << >> /\ Head(<< f >>) = f
<1>1. << >> \in Seq(Known) /\ Calm(<< >>) /\ JobsIn(<< >>) = {}
  BY DEF Calm, WellShaped, JobsIn
<1>2. ASSUME NEW f \in Jobs
      PROVE  /\ << f >> \in Seq(Known) /\ Calm(<< f >>) /\ JobsIn(<< f >>) = {f}
             /\ << f >> # << >> /\ Head(<< f >>) = f
  <2>1. f \in Known /\ f.op \in JobOps BY JobFields DEF Known
  <2>2. f.op \notin {"destroy_object", "destroy_control_block"} BY <2>1 DEF JobOps
  <2> QED BY <2>1, <2>2 DEF Calm, WellShaped, JobsIn
<1> QED BY <1>1, <1>2
-----------------------------------------------------------------------------
(* How often a step occurs in the calls *)

Number(td, f) == Cardinality(Places(td, f))
Is(a, f)      == IF a = f THEN 1 ELSE 0
Stacks        == [Threads -> Seq(Known)]

LEMMA PlaceOf ==
  ASSUME NEW td, NEW f, NEW p
  PROVE  p \in Places(td, f) <=>
           \E u \in Threads, n \in Nat :
             p = << u, n >> /\ n \in 1 .. Len(td[u]) /\ td[u][Len(td[u]) + 1 - n] = f
BY DEF Places

\* One step more at the front of a call is one place more.
Grows(td, td2, t, k) ==
  /\ k \in Nat /\ Len(td[t]) = k /\ Len(td2[t]) = k + 1
  /\ \A i \in 1 .. k : td2[t][i + 1] = td[t][i]
  /\ \A u \in Threads \ {t} : td2[u] = td[u]

LEMMA OnePlace ==
  ASSUME NEW td, NEW td2, NEW t \in Threads, NEW f, NEW k, Grows(td, td2, t, k)
  PROVE  /\ << t, k + 1 >> \notin Places(td, f)
         /\ << t, k + 1 >> \in Places(td2, f) <=> td2[t][1] = f
         /\ Places(td, f) \ {<< t, k + 1 >>} = Places(td2, f) \ {<< t, k + 1 >>}
<1> DEFINE q == td[t]
<1> DEFINE r == td2[t]
<1> DEFINE x == << t, k + 1 >>
<1>0. /\ k \in Nat /\ Len(q) = k /\ Len(r) = k + 1
      /\ \A i \in 1 .. k : r[i + 1] = q[i]
      /\ \A u \in Threads \ {t} : td2[u] = td[u]
  BY DEF Grows
<1>1. \A n \in 1 .. k : r[k + 2 - n] = q[k + 1 - n]
  <2> SUFFICES ASSUME NEW n \in 1 .. k PROVE r[k + 2 - n] = q[k + 1 - n]
    OBVIOUS
  <2>1. k + 1 - n \in 1 .. k /\ k + 1 - n + 1 = k + 2 - n BY <1>0
  <2> QED BY <2>1, <1>0
<1>2. x \notin Places(td, f)
  <2> SUFFICES ASSUME x \in Places(td, f) PROVE FALSE OBVIOUS
  <2>1. PICK u \in Threads, n \in Nat : x = << u, n >> /\ n \in 1 .. Len(td[u]) BY PlaceOf
  <2>2. u = t /\ n = k + 1 BY <2>1
  <2> QED BY <2>1, <2>2, <1>0
<1>3. x \in Places(td2, f) <=> r[1] = f
  <2>1. ASSUME r[1] = f PROVE x \in Places(td2, f)
    <3>1. k + 1 \in 1 .. Len(td2[t]) /\ td2[t][Len(td2[t]) + 1 - (k + 1)] = f BY <2>1, <1>0
    <3> QED BY <3>1, <1>0, PlaceOf
  <2>2. ASSUME x \in Places(td2, f) PROVE r[1] = f
    <3>1. PICK u \in Threads, n \in Nat : x = << u, n >> /\ td2[u][Len(td2[u]) + 1 - n] = f
      BY <2>2, PlaceOf
    <3>2. u = t /\ n = k + 1 BY <3>1
    <3>3. Len(td2[u]) + 1 - n = 1 BY <3>2, <1>0
    <3> QED BY <3>1, <3>2, <3>3
  <2> QED BY <2>1, <2>2
<1>4. ASSUME NEW p \in Places(td, f), p # x PROVE p \in Places(td2, f)
  <2>1. PICK u \in Threads, n \in Nat :
          p = << u, n >> /\ n \in 1 .. Len(td[u]) /\ td[u][Len(td[u]) + 1 - n] = f
    BY <1>4, PlaceOf
  <2>2. n \in 1 .. Len(td2[u]) /\ td2[u][Len(td2[u]) + 1 - n] = f
    <3>1. CASE u = t
      <4>1. n \in 1 .. k /\ q[k + 1 - n] = f BY <2>1, <3>1, <1>0
      <4>2. r[k + 2 - n] = f /\ n \in 1 .. k + 1 BY <4>1, <1>1, <1>0
      <4> QED BY <4>2, <3>1, <1>0
    <3>2. CASE u # t BY <2>1, <3>2, <1>0
    <3> QED BY <3>1, <3>2
  <2> QED BY <2>1, <2>2, PlaceOf
<1>5. ASSUME NEW p \in Places(td2, f), p # x PROVE p \in Places(td, f)
  <2>1. PICK u \in Threads, n \in Nat :
          p = << u, n >> /\ n \in 1 .. Len(td2[u]) /\ td2[u][Len(td2[u]) + 1 - n] = f
    BY <1>5, PlaceOf
  <2>2. n \in 1 .. Len(td[u]) /\ td[u][Len(td[u]) + 1 - n] = f
    <3>1. CASE u = t
      <4>1. n \in 1 .. k + 1 /\ r[k + 2 - n] = f BY <2>1, <3>1, <1>0
      <4>2. n # k + 1 BY <1>5, <2>1, <3>1
      <4>3. n \in 1 .. k BY <4>1, <4>2, <1>0
      <4> QED BY <4>1, <4>3, <1>1, <3>1, <1>0
    <3>2. CASE u # t BY <2>1, <3>2, <1>0
    <3> QED BY <3>1, <3>2
  <2> QED BY <2>1, <2>2, PlaceOf
<1> QED BY <1>2, <1>3, <1>4, <1>5

LEMMA NumberGrows ==
  ASSUME NEW td, NEW td2, NEW t \in Threads, NEW f, NEW k, Grows(td, td2, t, k),
         IsFiniteSet(Places(td, f)) \/ IsFiniteSet(Places(td2, f))
  PROVE  /\ IsFiniteSet(Places(td, f)) /\ IsFiniteSet(Places(td2, f))
         /\ Number(td, f) \in Nat /\ Number(td2, f) \in Nat
         /\ Number(td2, f) = Number(td, f) + Is(td2[t][1], f)
<1> DEFINE x == << t, k + 1 >>
<1>1. /\ x \notin Places(td, f) /\ (x \in Places(td2, f) <=> td2[t][1] = f)
      /\ Places(td, f) \ {x} = Places(td2, f) \ {x}
  BY OnePlace
<1> HIDE DEF x
<1>2. IsFiniteSet(Places(td, f)) /\ IsFiniteSet(Places(td2, f))
  BY <1>1, DifferInOne
<1> QED BY <1>1, <1>2, DifferInOne DEF Number, Is

\* todo with the front of one call changed.
Puts(td, td2, t, a) ==
  /\ td2[t] = << a >> \o td[t]
  /\ \A u \in Threads \ {t} : td2[u] = td[u]

LEMMA NumberPut ==
  ASSUME NEW td \in Stacks, NEW t \in Threads, NEW a \in Known, NEW td2, Puts(td, td2, t, a),
         NEW f, IsFiniteSet(Places(td, f))
  PROVE  /\ IsFiniteSet(Places(td2, f)) /\ Number(td2, f) \in Nat /\ Number(td, f) \in Nat
         /\ Number(td2, f) = Number(td, f) + Is(a, f)
<1>1. td[t] \in Seq(Known) BY DEF Stacks
<1>2. Grows(td, td2, t, Len(td[t])) /\ td2[t][1] = a
  BY <1>1, Put DEF Grows, Puts
<1> QED BY <1>2, NumberGrows

LEMMA NumberTakenOff ==
  ASSUME NEW td \in Stacks, NEW t \in Threads, td[t] # << >>,
         NEW td2, td2[t] = Tail(td[t]), \A u \in Threads \ {t} : td2[u] = td[u],
         NEW f, IsFiniteSet(Places(td, f))
  PROVE  /\ IsFiniteSet(Places(td2, f)) /\ Number(td2, f) \in Nat /\ Number(td, f) \in Nat
         /\ Number(td2, f) + Is(Head(td[t]), f) = Number(td, f)
<1>1. td[t] \in Seq(Known) BY DEF Stacks
<1>2. /\ Tail(td[t]) \in Seq(Known) /\ Len(Tail(td[t])) = Len(td[t]) - 1 /\ Len(td[t]) \in Nat \ {0}
      /\ Head(td[t]) = td[t][1]
      /\ \A i \in 1 .. Len(td[t]) - 1 : Tail(td[t])[i] = td[t][i + 1]
  BY <1>1, Popped
<1>3. Grows(td2, td, t, Len(td[t]) - 1) BY <1>2 DEF Grows
<1> QED BY <1>2, <1>3, NumberGrows
-----------------------------------------------------------------------------
(* What a call does to the steps: `gone' and `come' are the releases that    *)
(* leave and join, `old' and `new' the jobs of the thread.                   *)

In(g, s)   == IF g \in s THEN 1 ELSE 0
Counters   == {DecStrong(c) : c \in Ctrls} \cup {DecWeak(c) : c \in Ctrls}
Turns(t, gone, come, old, new) ==
  /\ todo' \in Stacks /\ \A u \in Threads \ {t} : todo'[u] = todo[u]
  /\ WellShaped(todo'[t])
  /\ JobsOf(t) = old /\ JobsOf(t)' = new
  /\ \A g \in Counters :
       /\ IsFiniteSet(Places(todo', g)) /\ Number(todo, g) \in Nat /\ Number(todo', g) \in Nat
       /\ Number(todo', g) + In(g, gone) = Number(todo, g) + In(g, come)
Finite == \A g \in Counters : IsFiniteSet(Places(todo, g))

LEMMA JobsAre ==
  ASSUME NEW t \in Threads
  PROVE  JobsOf(t) = JobsIn(todo[t]) /\ JobsOf(t)' = JobsIn(todo'[t])
BY DEF JobsOf, Steps, JobsIn

LEMMA CountersAreReleases == Counters \subseteq Releases /\ Releases \cap Jobs = {}
BY Fields, JobFields DEF Counters

\* One call: nothing but a job.
LEMMA StartJob ==
  ASSUME todo \in Stacks, Finite, NEW t \in Threads, todo[t] = << >>,
         NEW f \in Jobs, Call(t, << f >>)
  PROVE  Turns(t, {}, {}, {}, {f}) /\ Calm(todo'[t])
<1>1. /\ << f >> \in Seq(Known) /\ Calm(<< f >>) /\ JobsIn(<< f >>) = {f} /\ JobsIn(<< >>) = {}
  BY JustOne
<1>2. todo' \in Stacks /\ todo'[t] = << f >> /\ \A u \in Threads \ {t} : todo'[u] = todo[u]
  BY <1>1 DEF Stacks, Call
<1>3. << f >> = << f >> \o << >> /\ f \in Known BY JobFields, PutTwo DEF Known
<1>4. Puts(todo, todo', t, f) BY <1>2, <1>3 DEF Puts
<1>5. ASSUME NEW g \in Counters
      PROVE  /\ IsFiniteSet(Places(todo', g)) /\ Number(todo, g) \in Nat /\ Number(todo', g) \in Nat
             /\ Number(todo', g) = Number(todo, g)
  <2>1. f # g BY CountersAreReleases
  <2>2. IsFiniteSet(Places(todo, g)) BY DEF Finite
  <2> QED BY <1>3, <1>4, <2>1, <2>2, NumberPut DEF Is
<1>6. \A g : In(g, {}) = 0 BY DEF In
<1> QED BY <1>1, <1>2, <1>5, <1>6, JobsAre DEF Turns, Calm

\* One call: nothing but a release.
LEMMA StartRelease ==
  ASSUME todo \in Stacks, Finite, NEW t \in Threads, todo[t] = << >>,
         NEW r \in Counters, Call(t, << r >>)
  PROVE  Turns(t, {}, {r}, {}, {}) /\ Calm(todo'[t])
<1>1. r \in Releases /\ r.op \in {"dec_strong", "dec_weak"} /\ r \in Known
  BY Fields DEF Counters, Known
<1>2. << r >> = << r >> \o << >> /\ << >> \in Seq(Known) /\ Calm(<< >>) /\ JobsIn(<< >>) = {}
  BY <1>1, PutTwo, JustOne
<1>3. << r >> \in Seq(Known) /\ Calm(<< r >>) /\ JobsIn(<< r >>) = {}
  BY <1>1, <1>2, PutBefore
<1>4. todo' \in Stacks /\ todo'[t] = << r >> /\ \A u \in Threads \ {t} : todo'[u] = todo[u]
  BY <1>3 DEF Stacks, Call
<1>5. Puts(todo, todo', t, r) BY <1>2, <1>4 DEF Puts
<1>6. ASSUME NEW g \in Counters
      PROVE  /\ IsFiniteSet(Places(todo', g)) /\ Number(todo, g) \in Nat /\ Number(todo', g) \in Nat
             /\ Number(todo', g) = Number(todo, g) + Is(r, g)
  <2>2. IsFiniteSet(Places(todo, g)) BY DEF Finite
  <2> QED BY <1>1, <1>5, <2>2, NumberPut
<1>7. ASSUME NEW g \in Counters
      PROVE  /\ IsFiniteSet(Places(todo', g)) /\ Number(todo, g) \in Nat /\ Number(todo', g) \in Nat
             /\ Number(todo', g) + In(g, {}) = Number(todo, g) + In(g, {r})
  <2>1. In(g, {}) = 0 /\ In(g, {r}) = Is(r, g) /\ Is(r, g) \in Nat BY DEF In, Is
  <2> QED BY <1>6, <2>1
<1> QED BY <1>2, <1>3, <1>4, <1>7, JobsAre DEF Turns, Calm

\* One call: a release, then a job.
LEMMA StartBoth ==
  ASSUME todo \in Stacks, Finite, NEW t \in Threads, todo[t] = << >>,
         NEW r \in Counters, NEW f \in Jobs, Call(t, << r >> \o << f >>)
  PROVE  Turns(t, {}, {r}, {}, {f}) /\ Calm(todo'[t])
<1> DEFINE q == << r >> \o << f >>
<1> DEFINE td == [todo EXCEPT ![t] = << f >>]
<1>1. r \in Releases /\ r.op \in {"dec_strong", "dec_weak"} /\ r \in Known /\ f \in Known
  BY Fields DEF Counters, Known
<1>2. /\ << f >> \in Seq(Known) /\ Calm(<< f >>) /\ JobsIn(<< f >>) = {f} /\ JobsIn(<< >>) = {}
      /\ << f >> = << f >> \o << >>
  BY <1>1, JustOne, PutTwo
<1>3. q \in Seq(Known) /\ Calm(q) /\ JobsIn(q) = {f}
  BY <1>1, <1>2, PutBefore
<1>4. td \in Stacks /\ td[t] = << f >> /\ \A u \in Threads \ {t} : td[u] = todo[u]
  BY <1>2 DEF Stacks
<1>5. Puts(todo, td, t, f) BY <1>2, <1>4 DEF Puts
<1> HIDE DEF td
<1>6. todo' \in Stacks /\ todo'[t] = q /\ \A u \in Threads \ {t} : todo'[u] = todo[u]
  BY <1>3 DEF Stacks, Call
<1>7. Puts(td, todo', t, r) BY <1>4, <1>6 DEF Puts
<1> HIDE DEF q
<1>8. ASSUME NEW g \in Counters
      PROVE  /\ IsFiniteSet(Places(todo', g)) /\ Number(todo, g) \in Nat /\ Number(todo', g) \in Nat
             /\ Number(todo', g) = Number(todo, g) + Is(r, g)
  <2>1. f # g BY CountersAreReleases
  <2>2. IsFiniteSet(Places(todo, g)) BY DEF Finite
  <2>3. /\ IsFiniteSet(Places(td, g)) /\ Number(todo, g) \in Nat /\ Number(td, g) = Number(todo, g)
    BY <1>1, <1>5, <2>1, <2>2, NumberPut DEF Is
  <2> QED BY <1>1, <1>4, <1>7, <2>3, NumberPut
<1>9. ASSUME NEW g \in Counters
      PROVE  /\ IsFiniteSet(Places(todo', g)) /\ Number(todo, g) \in Nat /\ Number(todo', g) \in Nat
             /\ Number(todo', g) + In(g, {}) = Number(todo, g) + In(g, {r})
  <2>1. In(g, {}) = 0 /\ In(g, {r}) = Is(r, g) /\ Is(r, g) \in Nat BY DEF In, Is
  <2> QED BY <1>8, <2>1
<1> QED BY <1>2, <1>3, <1>6, <1>9, JobsAre DEF Turns, Calm

\* The steps without the first one of t.
Rest(t) == [todo EXCEPT ![t] = Tail(@)]

LEMMA RestIs ==
  ASSUME todo \in Stacks, Finite, NEW t \in Threads, todo[t] # << >>, WellShaped(todo[t])
  PROVE  /\ Rest(t) \in Stacks /\ \A u \in Threads \ {t} : Rest(t)[u] = todo[u]
         /\ Rest(t)[t] = Tail(todo[t]) /\ Calm(Rest(t)[t]) /\ Head(todo[t]) \in Known
         /\ Head(todo[t]) \in Jobs => Rest(t)[t] = << >> /\ JobsOf(t) = {Head(todo[t])}
         /\ Head(todo[t]) \in Releases => JobsIn(Rest(t)[t]) = JobsOf(t)
         /\ \A g \in Counters :
              /\ IsFiniteSet(Places(Rest(t), g)) /\ Number(todo, g) \in Nat /\ Number(Rest(t), g) \in Nat
              /\ Number(Rest(t), g) + Is(Head(todo[t]), g) = Number(todo, g)
<1>1. todo[t] \in Seq(Known) BY DEF Stacks
<1>2. Tail(todo[t]) \in Seq(Known) BY <1>1, TakeOff
<1>3. /\ Rest(t) \in Stacks /\ Rest(t)[t] = Tail(todo[t])
      /\ \A u \in Threads \ {t} : Rest(t)[u] = todo[u]
  BY <1>2 DEF Stacks, Rest
<1>4. \A f \in Known : /\ f \in Jobs => f.op \in JobOps
                       /\ f \in Releases => f.op \notin JobOps
  BY Fields, JobFields
<1>5. /\ Calm(Rest(t)[t]) /\ Head(todo[t]) \in Known
      /\ Head(todo[t]) \in Jobs => Rest(t)[t] = << >> /\ JobsOf(t) = {Head(todo[t])}
      /\ Head(todo[t]) \in Releases => JobsIn(Rest(t)[t]) = JobsOf(t)
  BY <1>1, <1>3, <1>4, TakeOff, JobsAre
<1>6. ASSUME NEW g \in Counters
      PROVE  /\ IsFiniteSet(Places(Rest(t), g)) /\ Number(todo, g) \in Nat /\ Number(Rest(t), g) \in Nat
             /\ Number(Rest(t), g) + Is(Head(todo[t]), g) = Number(todo, g)
  <2>1. IsFiniteSet(Places(todo, g)) BY DEF Finite
  <2> QED BY <1>3, <2>1, NumberTakenOff
<1> QED BY <1>3, <1>5, <1>6

\* One step of a call that leaves nothing new to do.
LEMMA GoOn ==
  ASSUME todo \in Stacks, Finite, NEW t \in Threads, todo[t] # << >>, WellShaped(todo[t]),
         Continue(t, << >>)
  PROVE  /\ Calm(todo'[t])
         /\ Head(todo[t]) \in Releases => Turns(t, {Head(todo[t])}, {}, JobsOf(t), JobsOf(t))
         /\ Head(todo[t]) \in Jobs => Turns(t, {}, {}, {Head(todo[t])}, {}) /\ todo'[t] = << >>
<1> DEFINE f == Head(todo[t])
<1>1. todo' = Rest(t)
  <2>1. Tail(todo[t]) \in Seq(Known) BY Popped DEF Stacks
  <2>2. << >> \o Tail(todo[t]) = Tail(todo[t]) BY <2>1, ConcatEmptySeq
  <2> QED BY <2>2 DEF Continue, Rest
<1>2. /\ Rest(t) \in Stacks /\ \A u \in Threads \ {t} : Rest(t)[u] = todo[u]
      /\ Rest(t)[t] = Tail(todo[t]) /\ Calm(Rest(t)[t]) /\ f \in Known
      /\ f \in Jobs => Rest(t)[t] = << >> /\ JobsOf(t) = {f}
      /\ f \in Releases => JobsIn(Rest(t)[t]) = JobsOf(t)
      /\ \A g \in Counters :
           /\ IsFiniteSet(Places(Rest(t), g)) /\ Number(todo, g) \in Nat /\ Number(Rest(t), g) \in Nat
           /\ Number(Rest(t), g) + Is(f, g) = Number(todo, g)
  BY RestIs
<1>3. JobsOf(t)' = JobsIn(Rest(t)[t]) /\ JobsIn(<< >>) = {} BY <1>1, JobsAre, JustOne
<1>4. \A g : In(g, {}) = 0 /\ In(g, {f}) = Is(f, g) /\ Is(f, g) \in Nat BY DEF In, Is
<1>5. ASSUME NEW g \in Counters, f \in Jobs PROVE Is(f, g) = 0
  BY <1>5, CountersAreReleases DEF Is
<1> HIDE DEF f
<1>6. ASSUME f \in Releases PROVE Turns(t, {f}, {}, JobsOf(t), JobsOf(t))
  <2>1. ASSUME NEW g \in Counters
        PROVE  /\ IsFiniteSet(Places(todo', g)) /\ Number(todo, g) \in Nat /\ Number(todo', g) \in Nat
               /\ Number(todo', g) + In(g, {f}) = Number(todo, g) + In(g, {})
    <3>1. Number(todo', g) + Is(f, g) = Number(todo, g) BY <1>1, <1>2
    <3>2. IsFiniteSet(Places(todo', g)) /\ Number(todo, g) \in Nat /\ Number(todo', g) \in Nat
      BY <1>1, <1>2
    <3>3. In(g, {}) = 0 /\ In(g, {f}) = Is(f, g) BY DEF In, Is
    <3> QED BY <3>1, <3>2, <3>3
  <2> QED BY <2>1, <1>1, <1>2, <1>3, <1>6 DEF Turns, Calm
<1>7. ASSUME f \in Jobs PROVE Turns(t, {}, {}, {f}, {}) /\ todo'[t] = << >>
  <2>1. ASSUME NEW g \in Counters
        PROVE  /\ IsFiniteSet(Places(todo', g)) /\ Number(todo, g) \in Nat /\ Number(todo', g) \in Nat
               /\ Number(todo', g) + In(g, {}) = Number(todo, g) + In(g, {})
    <3>1. Number(todo', g) = Number(todo, g) BY <1>1, <1>2, <1>5, <1>7
    <3>2. IsFiniteSet(Places(todo', g)) /\ Number(todo, g) \in Nat /\ Number(todo', g) \in Nat
      BY <1>1, <1>2
    <3> QED BY <3>1, <3>2, <1>4
  <2> QED BY <2>1, <1>1, <1>2, <1>3, <1>7 DEF Turns, Calm
<1> QED BY <1>1, <1>2, <1>6, <1>7 DEF f

\* A job is followed by another.
LEMMA GoOnWithJob ==
  ASSUME todo \in Stacks, Finite, NEW t \in Threads, todo[t] # << >>, WellShaped(todo[t]),
         Head(todo[t]) \in Jobs, NEW g \in Jobs, Continue(t, << g >>)
  PROVE  /\ Calm(todo'[t]) /\ todo'[t] # << >>
         /\ Turns(t, {}, {}, {Head(todo[t])}, {g})
<1> DEFINE f == Head(todo[t])
<1>1. /\ Rest(t) \in Stacks /\ \A u \in Threads \ {t} : Rest(t)[u] = todo[u]
      /\ Rest(t)[t] = Tail(todo[t])
      /\ Rest(t)[t] = << >> /\ JobsOf(t) = {f}
      /\ \A h \in Counters :
           /\ IsFiniteSet(Places(Rest(t), h)) /\ Number(todo, h) \in Nat /\ Number(Rest(t), h) \in Nat
           /\ Number(Rest(t), h) + Is(f, h) = Number(todo, h)
  BY RestIs
<1>2. /\ << g >> \in Seq(Known) /\ Calm(<< g >>) /\ JobsIn(<< g >>) = {g} /\ g \in Known
      /\ << g >> = << g >> \o << >> /\ << g >> # << >>
  BY JustOne, PutTwo DEF Known
<1>3. todo' \in Stacks /\ todo'[t] = << g >> /\ \A u \in Threads \ {t} : todo'[u] = todo[u]
  BY <1>1, <1>2 DEF Continue, Stacks
<1>4. Puts(Rest(t), todo', t, g) BY <1>1, <1>2, <1>3 DEF Puts
<1> HIDE DEF f
<1>5. ASSUME NEW h \in Counters
      PROVE  /\ IsFiniteSet(Places(todo', h)) /\ Number(todo, h) \in Nat /\ Number(todo', h) \in Nat
             /\ Number(todo', h) + In(h, {}) = Number(todo, h) + In(h, {})
  <2>1. f # h /\ g # h BY CountersAreReleases DEF f
  <2>2. Is(f, h) = 0 /\ Is(g, h) = 0 /\ In(h, {}) = 0 BY <2>1 DEF Is, In
  <2>3. Number(todo', h) = Number(Rest(t), h) + Is(g, h) /\ IsFiniteSet(Places(todo', h))
    BY <1>1, <1>2, <1>4, NumberPut
  <2> QED BY <1>1, <2>2, <2>3
<1>6. JobsOf(t)' = {g} BY <1>2, <1>3, JobsAre
<1>7. Turns(t, {}, {}, {f}, {g})
  BY <1>1, <1>2, <1>3, <1>5, <1>6 DEF Turns, Calm
<1> QED BY <1>2, <1>3, <1>7 DEF f

\* A release leads to another.
LEMMA GoOnWith ==
  ASSUME todo \in Stacks, Finite, NEW t \in Threads, todo[t] # << >>, WellShaped(todo[t]),
         Head(todo[t]) \in Releases, NEW r \in Releases, Continue(t, << r >>),
         r.op # "destroy_object"
  PROVE  /\ Turns(t, {Head(todo[t])}, {r}, JobsOf(t), JobsOf(t))
         /\ todo'[t] # << >> /\ Head(todo'[t]) = r
         /\ r \in Counters => Calm(todo'[t])
<1> DEFINE f == Head(todo[t])
<1>1. /\ Rest(t) \in Stacks /\ \A u \in Threads \ {t} : Rest(t)[u] = todo[u]
      /\ Rest(t)[t] = Tail(todo[t]) /\ Calm(Rest(t)[t]) /\ Rest(t)[t] \in Seq(Known)
      /\ JobsIn(Rest(t)[t]) = JobsOf(t)
      /\ \A h \in Counters :
           /\ IsFiniteSet(Places(Rest(t), h)) /\ Number(todo, h) \in Nat /\ Number(Rest(t), h) \in Nat
           /\ Number(Rest(t), h) + Is(f, h) = Number(todo, h)
  BY RestIs DEF Stacks
<1> DEFINE q == << r >> \o Rest(t)[t]
<1>2. /\ q \in Seq(Known) /\ q # << >> /\ Head(q) = r /\ JobsIn(q) = JobsOf(t)
      /\ r.op \in {"dec_strong", "dec_weak"} => Calm(q)
      /\ r.op = "destroy_control_block" => WellShaped(q)
  <2>1. Rest(t)[t] \in Seq(Known) /\ Calm(Rest(t)[t]) /\ JobsIn(Rest(t)[t]) = JobsOf(t) BY <1>1
  <2> DEFINE p == Rest(t)[t]
  <2>2. q = << r >> \o p OBVIOUS
  <2> HIDE DEF p, q
  <2>3. /\ q \in Seq(Known) /\ q # << >> /\ Head(q) = r /\ JobsIn(q) = JobsIn(p)
        /\ r.op \in {"dec_strong", "dec_weak"} => Calm(q)
        /\ r.op = "destroy_control_block" => WellShaped(q)
    <3>1. p \in Seq(Known) /\ Calm(p) BY <2>1 DEF p
    <3> QED BY <3>1, <2>2, PutBefore
  <2> QED BY <2>1, <2>3 DEF p
<1>3. todo' \in Stacks /\ todo'[t] = q /\ \A u \in Threads \ {t} : todo'[u] = todo[u]
  BY <1>1, <1>2 DEF Continue, Stacks
<1>4. Puts(Rest(t), todo', t, r) BY <1>1, <1>3 DEF Puts
<1> HIDE DEF f, q
<1>5. ASSUME NEW h \in Counters
      PROVE  /\ IsFiniteSet(Places(todo', h)) /\ Number(todo, h) \in Nat /\ Number(todo', h) \in Nat
             /\ Number(todo', h) + In(h, {f}) = Number(todo, h) + In(h, {r})
  <2>1. In(h, {f}) = Is(f, h) /\ In(h, {r}) = Is(r, h) /\ Is(f, h) \in Nat /\ Is(r, h) \in Nat
    BY DEF Is, In
  <2>2. Number(todo', h) = Number(Rest(t), h) + Is(r, h) /\ IsFiniteSet(Places(todo', h))
    BY <1>1, <1>4, NumberPut DEF Known
  <2> QED BY <1>1, <2>1, <2>2
<1>6. JobsOf(t)' = JobsOf(t) BY <1>2, <1>3, JobsAre
<1>7. WellShaped(q) /\ (r \in Counters => Calm(q)) BY <1>2, Fields DEF Calm, Counters
<1>8. Turns(t, {f}, {r}, JobsOf(t), JobsOf(t))
  BY <1>3, <1>5, <1>6, <1>7 DEF Turns
<1> QED BY <1>2, <1>3, <1>7, <1>8 DEF f

\* The last release of an object leads to its destruction.
LEMMA GoOnToDestroy ==
  ASSUME todo \in Stacks, Finite, NEW t \in Threads, todo[t] # << >>, WellShaped(todo[t]),
         Head(todo[t]) \in Releases, NEW c \in Ctrls, Continue(t, << Destroy(c), DecWeak(c) >>)
  PROVE  /\ Turns(t, {Head(todo[t])}, {DecWeak(c)}, JobsOf(t), JobsOf(t))
         /\ todo'[t] # << >> /\ Head(todo'[t]) = Destroy(c)
<1> DEFINE f == Head(todo[t])
<1> DEFINE a == Destroy(c)
<1> DEFINE r == DecWeak(c)
<1>0. a \in Releases /\ r \in Releases /\ a.op = "destroy_object" /\ r.op = "dec_weak" /\ a.ctrl = c
      /\ a \in Known /\ r \in Known /\ a \notin Counters
  BY Fields DEF Counters, Known
<1>1. /\ Rest(t) \in Stacks /\ \A u \in Threads \ {t} : Rest(t)[u] = todo[u]
      /\ Rest(t)[t] = Tail(todo[t]) /\ Calm(Rest(t)[t]) /\ Rest(t)[t] \in Seq(Known)
      /\ JobsIn(Rest(t)[t]) = JobsOf(t)
      /\ \A h \in Counters :
           /\ IsFiniteSet(Places(Rest(t), h)) /\ Number(todo, h) \in Nat /\ Number(Rest(t), h) \in Nat
           /\ Number(Rest(t), h) + Is(f, h) = Number(todo, h)
  BY RestIs DEF Stacks
<1> DEFINE p == << r >> \o Rest(t)[t]
<1> DEFINE q == << a >> \o p
<1> DEFINE td == [todo EXCEPT ![t] = p]
<1>2. /\ p \in Seq(Known) /\ p # << >> /\ Head(p) = r /\ JobsIn(p) = JobsOf(t) /\ Calm(p)
  BY <1>0, <1>1, PutBefore
<1>3. /\ q \in Seq(Known) /\ q # << >> /\ Head(q) = a /\ JobsIn(q) = JobsOf(t) /\ WellShaped(q)
  <2> HIDE DEF p, a, r
  <2>1. Head(p) = DecWeak(a.ctrl) BY <1>0, <1>2 DEF r
  <2> QED BY <1>0, <1>2, <2>1, PutBefore
<1>4. td \in Stacks /\ td[t] = p /\ \A u \in Threads \ {t} : td[u] = todo[u]
  BY <1>2 DEF Stacks
<1>5. << a, r >> \o Rest(t)[t] = q
  BY <1>0, <1>1, PutTwo
<1>6. todo' \in Stacks /\ todo'[t] = q /\ \A u \in Threads \ {t} : todo'[u] = todo[u]
  BY <1>1, <1>3, <1>5 DEF Continue, Stacks
<1>7. Puts(Rest(t), td, t, r) /\ Puts(td, todo', t, a) BY <1>1, <1>4, <1>6 DEF Puts
<1> HIDE DEF f, p, q, td, a, r
<1>8. ASSUME NEW h \in Counters
      PROVE  /\ IsFiniteSet(Places(todo', h)) /\ Number(todo, h) \in Nat /\ Number(todo', h) \in Nat
             /\ Number(todo', h) + In(h, {f}) = Number(todo, h) + In(h, {r})
  <2>1. In(h, {f}) = Is(f, h) /\ In(h, {r}) = Is(r, h) /\ Is(f, h) \in Nat /\ Is(r, h) \in Nat
    BY DEF Is, In
  <2>2. Number(td, h) = Number(Rest(t), h) + Is(r, h) /\ IsFiniteSet(Places(td, h))
    BY <1>0, <1>1, <1>7, NumberPut
  <2>3. Is(a, h) = 0 BY <1>0 DEF Is
  <2>4. /\ Number(todo', h) = Number(td, h) + Is(a, h) /\ IsFiniteSet(Places(todo', h))
        /\ Number(todo', h) \in Nat
    BY <1>0, <1>4, <1>7, <2>2, NumberPut
  <2> QED BY <1>1, <2>1, <2>2, <2>3, <2>4
<1>9. JobsOf(t)' = JobsOf(t) BY <1>3, <1>6, JobsAre
<1>10. Turns(t, {f}, {r}, JobsOf(t), JobsOf(t))
  BY <1>3, <1>6, <1>8, <1>9 DEF Turns
<1> QED BY <1>3, <1>6, <1>10 DEF f, a, r
-----------------------------------------------------------------------------
(* Handles *)

LEMMA JobsTyped ==
  ASSUME todo \in Stacks, NEW t \in Threads
  PROVE  Steps(t) \subseteq Known /\ JobsOf(t) \subseteq Jobs /\ JobsOf(t) = Steps(t) \cap Jobs
<1>1. todo[t] \in Seq(Known) BY DEF Stacks
<1>2. Steps(t) \subseteq Known BY <1>1 DEF Steps
<1> QED BY <1>2, Fields, JobFields DEF JobsOf, Known

\* The client's discipline and who is settled, in terms of the jobs.
AsUsed ==
  \A h : /\ MayWrite(h) <=> \A u \in Threads : \A f \in JobsOf(u) : h \notin Footprint(f)
         /\ MayRead(h) <=> \A u \in Threads : \A f \in JobsOf(u) : h \notin Writes(f)
         /\ Settled(h) <=> \A u \in Threads : \A f \in JobsOf(u) : h # f.dst

LEMMA Uses == todo \in Stacks => AsUsed
<1> SUFFICES ASSUME todo \in Stacks PROVE AsUsed OBVIOUS
<1>1. Pending \subseteq Known /\ \A f : f \in Pending /\ f \in Jobs <=> \E u \in Threads : f \in JobsOf(u)
  BY JobsTyped DEF Pending
<1>2. \A f \in Known : /\ "dst" \in DOMAIN f <=> f \in Jobs
                       /\ "src" \in DOMAIN f <=> f \in Jobs
                       /\ f.op = "take" => f \in Jobs
  BY Fields, JobFields DEF Known, JobOps
<1>3. \A h : h \in Assigned <=> \E u \in Threads : \E f \in JobsOf(u) : h = f.dst
  BY <1>1, <1>2 DEF Assigned
<1>4. \A h : h \in Written <=> \E u \in Threads : \E f \in JobsOf(u) : h \in Writes(f)
  <2>1. \A h : h \in {f.src : f \in {g \in Pending : g.op = "take" /\ g.inc = "none"}}
               <=> \E u \in Threads : \E f \in JobsOf(u) : f.op = "take" /\ f.inc = "none" /\ h = f.src
    BY <1>1, <1>2
  <2> QED BY <2>1, <1>3 DEF Written, Writes
<1>5. \A h : h \in BeingRead <=> \E u \in Threads : \E f \in JobsOf(u) : h \in {f.src} \cup f.path
  BY <1>1, <1>2 DEF BeingRead
<1>6. \A f : Footprint(f) = Writes(f) \cup {f.src} \cup f.path BY DEF Footprint, Writes
<1>7. \A h : MayRead(h) <=> \A u \in Threads : \A f \in JobsOf(u) : h \notin Writes(f)
  BY <1>4 DEF MayRead
<1>8. \A h : MayWrite(h) <=> \A u \in Threads : \A f \in JobsOf(u) : h \notin Footprint(f)
  <2> SUFFICES ASSUME NEW h
               PROVE  MayWrite(h) <=> \A u \in Threads : \A f \in JobsOf(u) : h \notin Footprint(f)
    OBVIOUS
  <2>1. MayWrite(h) <=> h \notin Written /\ h \notin BeingRead BY DEF MayWrite
  <2> QED BY <2>1, <1>4, <1>5, <1>6
<1>9. \A h : Settled(h) <=> \A u \in Threads : \A f \in JobsOf(u) : h # f.dst
  BY <1>3 DEF Settled
<1> QED BY <1>7, <1>8, <1>9 DEF AsUsed

\* Who is settled, before and after a step of t.
Clear(t, h) == \A u \in Threads \ {t} : \A f \in JobsOf(u) : h # f.dst

LEMMA SettledIs ==
  ASSUME todo \in Stacks, NEW t \in Threads, NEW gone, NEW come, NEW old, NEW new,
         Turns(t, gone, come, old, new)
  PROVE  \A h : /\ Settled(h) <=> Clear(t, h) /\ \A f \in old : h # f.dst
                /\ Settled(h)' <=> Clear(t, h) /\ \A f \in new : h # f.dst
<1>1. \A h : Settled(h) <=> \A u \in Threads : \A f \in JobsOf(u) : h # f.dst
  BY Uses DEF AsUsed
<1>2. /\ todo' \in Stacks /\ \A u \in Threads \ {t} : todo'[u] = todo[u]
      /\ JobsOf(t) = old /\ JobsOf(t)' = new
  BY DEF Turns
<1>3. \A u \in Threads \ {t} : JobsOf(u)' = JobsOf(u) BY <1>2, JobsAre
<1>4. \A u \in Threads : /\ \A i \in DOMAIN todo'[u] : todo'[u][i] \in Known
                         /\ JobsOf(u)' = {todo'[u][i] : i \in DOMAIN todo'[u]} \cap Jobs
  <2> SUFFICES ASSUME NEW u \in Threads
               PROVE  /\ \A i \in DOMAIN todo'[u] : todo'[u][i] \in Known
                      /\ JobsOf(u)' = {todo'[u][i] : i \in DOMAIN todo'[u]} \cap Jobs
    OBVIOUS
  <2>1. todo'[u] \in Seq(Known) BY <1>2 DEF Stacks
  <2>2. \A i \in DOMAIN todo'[u] : todo'[u][i] \in Known BY <2>1
  <2>3. JobsOf(u)' = JobsIn(todo'[u]) BY JobsAre
  <2> QED BY <2>2, <2>3, Fields, JobFields DEF JobsIn, Known
<1>5. \A f : f \in Pending' /\ f \in Jobs <=> \E u \in Threads : f \in JobsOf(u)'
  BY <1>4 DEF Pending, Steps
<1>6. Pending' \subseteq Known BY <1>4 DEF Pending, Steps
<1>7. \A f \in Known : "dst" \in DOMAIN f <=> f \in Jobs
  BY Fields, JobFields DEF Known
<1>8. \A h : h \in Assigned' <=> \E u \in Threads : \E f \in JobsOf(u)' : h = f.dst
  BY <1>5, <1>6, <1>7 DEF Assigned
<1>9. \A h : Settled(h)' <=> h \notin Assigned' BY DEF Settled
<1>10. \A h : Settled(h)' <=> \A u \in Threads : \A f \in JobsOf(u)' : h # f.dst
  BY <1>8, <1>9
<1> QED BY <1>1, <1>2, <1>3, <1>10 DEF Clear

\* The jobs of the other threads keep what they rely on when a step of t writes
\* only the handles in X, none of which they use.
Changes(X)    == \A h \in Handles \ X : held'[h] = held[h]
Outside(t, X) == \A u \in Threads \ {t} : \A g \in JobsOf(u) : X \cap Footprint(g) = {}
Apart(t, f)   == \A u \in Threads \ {t} : \A g \in JobsOf(u) :
  Writes(f) \cap Footprint(g) = {} /\ Writes(g) \cap Footprint(f) = {}

LEMMA GuardKept ==
  ASSUME NEW g \in Jobs, Guarded(g), NEW X, Changes(X), X \cap Footprint(g) = {}
  PROVE  Guarded(g)'
<1>1. \A h \in Footprint(g) : h \in Handles
  BY JobFields DEF Footprint, Handles
<1>2. \A h \in Footprint(g) : held'[h] = held[h] BY <1>1 DEF Changes
<1>3. /\ g.dst \in Footprint(g) /\ g.src \in Footprint(g) /\ \A p \in g.path : p \in Footprint(g)
  BY DEF Footprint
<1> QED BY <1>2, <1>3 DEF Guarded

LEMMA CallsKept ==
  ASSUME todo \in Stacks, CallsOK, NEW t \in Threads,
         NEW gone, NEW come, NEW old, NEW new, Turns(t, gone, come, old, new),
         NEW X, Changes(X), Outside(t, X),
         \A f \in new : Guarded(f)' /\ Apart(t, f)
  PROVE  CallsOK'
<1>1. /\ todo' \in Stacks /\ \A u \in Threads \ {t} : todo'[u] = todo[u]
      /\ JobsOf(t)' = new /\ WellShaped(todo'[t])
  BY DEF Turns
<1>2. \A u \in Threads \ {t} : JobsOf(u)' = JobsOf(u) /\ JobsOf(u) \subseteq Jobs
  BY <1>1, JobsAre, JobsTyped
<1>3. \A u \in Threads : WellShaped(todo'[u]) BY <1>1 DEF CallsOK
<1>4. ASSUME NEW u \in Threads, NEW g \in JobsOf(u)' PROVE Guarded(g)'
  <2>1. CASE u = t BY <2>1, <1>1
  <2>2. CASE u # t
    <3>1. g \in JobsOf(u) /\ g \in Jobs BY <2>2, <1>2
    <3>2. Guarded(g) BY <3>1 DEF CallsOK
    <3>3. X \cap Footprint(g) = {} BY <2>2, <3>1 DEF Outside
    <3> QED BY <3>1, <3>2, <3>3, GuardKept
  <2> QED BY <2>1, <2>2
<1>5. ASSUME NEW u \in Threads, NEW v \in Threads, u # v, NEW f \in JobsOf(u)', NEW g \in JobsOf(v)'
      PROVE  Writes(f) \cap Footprint(g) = {}
  <2>1. CASE u = t BY <2>1, <1>1, <1>2, <1>5 DEF Apart
  <2>2. CASE v = t BY <2>2, <1>1, <1>2, <1>5 DEF Apart
  <2>3. CASE u # t /\ v # t BY <2>3, <1>2, <1>5 DEF CallsOK
  <2> QED BY <2>1, <2>2, <2>3
<1> QED BY <1>3, <1>4, <1>5 DEF CallsOK

\* A job that goes on with the same handles stays apart from the others.
LEMMA StillApart ==
  ASSUME CallsOK, NEW t \in Threads, NEW f \in JobsOf(t)
  PROVE  /\ Apart(t, f) /\ Outside(t, Writes(f))
         /\ \A h \in Writes(f) : Clear(t, h)
<1>1. Apart(t, f) BY DEF CallsOK, Apart
<1>2. \A g : g.dst \in Footprint(g) BY DEF Footprint
<1> QED BY <1>1, <1>2 DEF Apart, Outside, Clear

LEMMA ApartAs ==
  ASSUME NEW t \in Threads, NEW f, NEW g, Apart(t, f), Footprint(g) \subseteq Footprint(f),
         Writes(g) \subseteq Writes(f)
  PROVE  Apart(t, g)
BY DEF Apart

\* The client's discipline keeps a new job apart from the others.
LEMMA NewApart ==
  ASSUME todo \in Stacks, NEW t \in Threads, NEW f \in Jobs,
         \A h \in Writes(f) : MayWrite(h), \A h \in Footprint(f) : MayRead(h)
  PROVE  Apart(t, f)
BY Uses DEF AsUsed, Apart

LEMMA WrittenOutside ==
  ASSUME todo \in Stacks, NEW t \in Threads, NEW h, MayWrite(h)
  PROVE  Outside(t, {h}) /\ Clear(t, h) /\ Settled(h) /\ MayRead(h)
<1>1. \A u \in Threads : \A f \in JobsOf(u) : h \notin Footprint(f) BY Uses DEF AsUsed
<1>2. \A f : f.dst \in Footprint(f) /\ Writes(f) \subseteq Footprint(f) BY DEF Footprint, Writes
<1> QED BY <1>1, <1>2, Uses DEF AsUsed, Outside, Clear

LEMMA ReadSettled ==
  ASSUME todo \in Stacks, NEW h, MayRead(h)
  PROVE  Settled(h)
<1>1. \A u \in Threads : \A f \in JobsOf(u) : h \notin Writes(f) BY Uses DEF AsUsed
<1>2. \A f : f.dst \in Writes(f) BY DEF Writes
<1> QED BY <1>1, <1>2, Uses DEF AsUsed

\* The holders of a block: how many there are, when one or two handles change.
Holds(H, h, c)  == h \in H /\ Settled(h) /\ held[h] = c
Unchanged(h)    == held'[h] = held[h] /\ (Settled(h)' <=> Settled(h))
Holders(H, c)   == Cardinality(HoldersOf(H, c))

LEMMA HoldersFinite ==
  ASSUME NEW H \in {Owners, Weak}, NEW c
  PROVE  IsFiniteSet(HoldersOf(H, c)) /\ Holders(H, c) \in Nat
<1>1. IsFiniteSet(H)
  <2>1. IsFiniteSet(Owners) BY HandlesAssumption, FS_Union DEF Owners
  <2> QED BY <2>1, HandlesAssumption
<1>2. IsFiniteSet(HoldersOf(H, c)) BY <1>1, FS_Subset DEF HoldersOf
<1> QED BY <1>2, FS_CardinalityType DEF Holders

LEMMA OneHandle ==
  ASSUME NEW H \in {Owners, Weak}, NEW c, NEW x, \A h \in H \ {x} : Unchanged(h)
  PROVE  /\ Holders(H, c) \in Nat /\ Holders(H, c)' \in Nat
         /\ (Holds(H, x, c) <=> Holds(H, x, c)') => Holders(H, c)' = Holders(H, c)
         /\ Holds(H, x, c) /\ ~Holds(H, x, c)' => Holders(H, c) = Holders(H, c)' + 1
         /\ ~Holds(H, x, c) /\ Holds(H, x, c)' => Holders(H, c)' = Holders(H, c) + 1
<1> DEFINE S == {h \in H : Settled(h) /\ held[h] = c}
<1> DEFINE T == {h \in H : Settled(h)' /\ held'[h] = c}
<1>1. S = HoldersOf(H, c) /\ T = HoldersOf(H, c)' BY DEF HoldersOf
<1>2. S \ {x} = T \ {x} BY DEF Unchanged
<1>3. (x \in S <=> Holds(H, x, c)) /\ (x \in T <=> Holds(H, x, c)') BY DEF Holds
<1>4. IsFiniteSet(S) BY <1>1, HoldersFinite
<1>5. Holders(H, c) = Cardinality(S) /\ Holders(H, c)' = Cardinality(T) BY <1>1 DEF Holders
<1> HIDE DEF S, T
<1> QED BY <1>2, <1>3, <1>4, <1>5, DifferInOne

\* What one handle gets the other loses.
LEMMA TwoHandles ==
  ASSUME NEW H \in {Owners, Weak}, NEW c, NEW x, NEW y, x # y, x \in H <=> y \in H,
         \A h \in H \ {x, y} : Unchanged(h),
         Holds(H, x, c) <=> Holds(H, y, c)', Holds(H, y, c) <=> Holds(H, x, c)'
  PROVE  /\ Holders(H, c) \in Nat /\ Holders(H, c)' = Holders(H, c)
<1> DEFINE S == {h \in H : Settled(h) /\ held[h] = c}
<1> DEFINE T == {h \in H : Settled(h)' /\ held'[h] = c}
<1> DEFINE M == (S \ {x}) \cup (T \cap {x})
<1>1. S = HoldersOf(H, c) /\ T = HoldersOf(H, c)' BY DEF HoldersOf
<1>2. S \ {x} = M \ {x} /\ M \ {y} = T \ {y} BY DEF Unchanged
<1>3. (x \in S <=> y \in T) /\ (y \in S <=> x \in T) BY DEF Holds
<1>4. (x \in M <=> x \in T) /\ (y \in M <=> y \in S) OBVIOUS
<1>5. IsFiniteSet(S) BY <1>1, HoldersFinite
<1>6. Holders(H, c) = Cardinality(S) /\ Holders(H, c)' = Cardinality(T) BY <1>1 DEF Holders
<1> HIDE DEF S, T, M
<1>7. IsFiniteSet(M) /\ Cardinality(S) \in Nat /\ Cardinality(M) \in Nat BY <1>2, <1>5, DifferInOne
<1>8. Cardinality(T) \in Nat BY <1>2, <1>7, DifferInOne
<1>9. CASE x \in S <=> x \in M
  <2>1. Cardinality(S) = Cardinality(M) BY <1>2, <1>5, <1>9, DifferInOne
  <2>2. Cardinality(M) = Cardinality(T) BY <1>2, <1>3, <1>4, <1>7, <1>9, DifferInOne
  <2> QED BY <2>1, <2>2, <1>6, <1>7
<1>10. CASE x \in S /\ x \notin M
  <2>1. Cardinality(S) = Cardinality(M) + 1 BY <1>2, <1>5, <1>10, DifferInOne
  <2>2. Cardinality(T) = Cardinality(M) + 1 BY <1>2, <1>3, <1>4, <1>7, <1>10, DifferInOne
  <2> QED BY <2>1, <2>2, <1>6, <1>7
<1>11. CASE x \notin S /\ x \in M
  <2>1. Cardinality(M) = Cardinality(S) + 1 BY <1>2, <1>5, <1>11, DifferInOne
  <2>2. Cardinality(M) = Cardinality(T) + 1 BY <1>2, <1>3, <1>4, <1>7, <1>11, DifferInOne
  <2> QED BY <2>1, <2>2, <1>6, <1>7, <1>8
<1> QED BY <1>9, <1>10, <1>11
-----------------------------------------------------------------------------
(* What the invariant says of a block *)

Common(n) == IF n > 0 THEN 1 ELSE 0

LEMMA Sums ==
  ASSUME Inv
  PROVE  /\ todo \in Stacks /\ Finite
         /\ \A c \in Ctrls :
              /\ DecStrong(c) \in Counters /\ DecWeak(c) \in Counters
              /\ strong[c] \in Nat /\ weak[c] \in Nat
              /\ Holders(Owners, c) \in Nat /\ Holders(Weak, c) \in Nat
              /\ Number(todo, DecStrong(c)) \in Nat /\ Number(todo, DecWeak(c)) \in Nat
              /\ strong[c] = Holders(Owners, c) + Number(todo, DecStrong(c))
              /\ weak[c] = Holders(Weak, c) + Number(todo, DecWeak(c)) + Common(strong[c])
<1>1. todo \in Stacks BY DEF Inv, TypeOK, Stacks, Known
<1>2. Finite BY DEF Inv, Finite, Counted, Counters
<1>3. ASSUME NEW c \in Ctrls
      PROVE  /\ DecStrong(c) \in Counters /\ DecWeak(c) \in Counters
             /\ strong[c] \in Nat /\ weak[c] \in Nat
             /\ Holders(Owners, c) \in Nat /\ Holders(Weak, c) \in Nat
             /\ Number(todo, DecStrong(c)) \in Nat /\ Number(todo, DecWeak(c)) \in Nat
             /\ strong[c] = Holders(Owners, c) + Number(todo, DecStrong(c))
             /\ weak[c] = Holders(Weak, c) + Number(todo, DecWeak(c)) + Common(strong[c])
  <2>1. strong[c] \in Nat /\ weak[c] \in Nat BY DEF Inv, TypeOK
  <2>2. DecStrong(c) \in Counters /\ DecWeak(c) \in Counters BY DEF Counters
  <2>3. Number(todo, DecStrong(c)) \in Nat /\ Number(todo, DecWeak(c)) \in Nat
    BY <1>2, <2>2, FS_CardinalityType DEF Finite, Number
  <2>4. Counted(c) BY DEF Inv
  <2>5. /\ strong[c] = Holders(Owners, c) + Number(todo, DecStrong(c))
        /\ weak[c] = Holders(Weak, c) + Number(todo, DecWeak(c)) + Common(strong[c])
    BY <2>4 DEF Counted, Holders, Number, Common
  <2> QED BY <2>1, <2>2, <2>3, <2>5, HoldersFinite
<1> QED BY <1>1, <1>2, <1>3

LEMMA CountedNext ==
  ASSUME NEW c \in Ctrls, IsFiniteSet(Places(todo', DecStrong(c))), IsFiniteSet(Places(todo', DecWeak(c))),
         strong'[c] = Holders(Owners, c)' + Number(todo', DecStrong(c)),
         weak'[c] = Holders(Weak, c)' + Number(todo', DecWeak(c)) + Common(strong'[c])
  PROVE  Counted(c)'
BY DEF Counted, Holders, Number, Common

\* A step that is due, or that follows the one that is due, is counted.
LEMMA FrontCounts ==
  ASSUME NEW td \in Stacks, NEW t \in Threads, td[t] # << >>,
         NEW g, IsFiniteSet(Places(td, g)), Head(td[t]) = g
  PROVE  Number(td, g) \in Nat /\ Number(td, g) > 0
<1> DEFINE td2 == [td EXCEPT ![t] = Tail(@)]
<1>1. td2[t] = Tail(td[t]) /\ \A u \in Threads \ {t} : td2[u] = td[u] BY DEF Stacks
<1> HIDE DEF td2
<1>2. /\ Number(td2, g) \in Nat /\ Number(td, g) \in Nat
      /\ Number(td2, g) + Is(Head(td[t]), g) = Number(td, g)
  BY <1>1, NumberTakenOff
<1>3. Is(Head(td[t]), g) = 1 BY DEF Is
<1> QED BY <1>2, <1>3

LEMMA SecondCounts ==
  ASSUME NEW td \in Stacks, NEW t \in Threads, td[t] # << >>, Tail(td[t]) # << >>,
         NEW g, IsFiniteSet(Places(td, g)), Head(Tail(td[t])) = g
  PROVE  Number(td, g) \in Nat /\ Number(td, g) > 0
<1> DEFINE td2 == [td EXCEPT ![t] = Tail(@)]
<1>1. td2[t] = Tail(td[t]) /\ \A u \in Threads \ {t} : td2[u] = td[u] BY DEF Stacks
<1>2. td2 \in Stacks
  <2>1. Tail(td[t]) \in Seq(Known) BY Popped DEF Stacks
  <2> QED BY <2>1 DEF Stacks
<1> HIDE DEF td2
<1>3. /\ Number(td2, g) \in Nat /\ Number(td, g) \in Nat /\ IsFiniteSet(Places(td2, g))
      /\ Number(td2, g) + Is(Head(td[t]), g) = Number(td, g)
  BY <1>1, NumberTakenOff
<1>4. Number(td2, g) > 0 BY <1>1, <1>2, <1>3, FrontCounts
<1>5. Is(Head(td[t]), g) \in Nat BY DEF Is
<1> QED BY <1>3, <1>4, <1>5

\* Whoever holds a block is counted in it.
LEMMA HeldIsCounted ==
  ASSUME NEW H \in {Owners, Weak}, NEW h \in H, NEW c, Settled(h), held[h] = c
  PROVE  Holders(H, c) \in Nat /\ Holders(H, c) > 0
<1>1. h \in HoldersOf(H, c) BY DEF HoldersOf
<1>2. IsFiniteSet(HoldersOf(H, c)) /\ Holders(H, c) \in Nat BY HoldersFinite
<1>3. Holders(H, c) # 0 BY <1>1, <1>2, FS_EmptySet DEF Holders
<1> QED BY <1>2, <1>3

LEMMA Owned ==
  ASSUME Inv, NEW h \in Owners, NEW c \in Ctrls, Settled(h), held[h] = c
  PROVE  strong[c] > 0 /\ weak[c] > 0 /\ phase[c] = "live"
<1>1. Holders(Owners, c) > 0 BY HeldIsCounted
<1>2. strong[c] > 0 /\ weak[c] > 0 BY <1>1, Sums DEF Common
<1> QED BY <1>2 DEF Inv, Lives

LEMMA Watched ==
  ASSUME Inv, NEW h \in Weak, NEW c \in Ctrls, Settled(h), held[h] = c
  PROVE  weak[c] > 0 /\ phase[c] \in {"live", "destroyed"}
<1>1. Holders(Weak, c) > 0 BY HeldIsCounted
<1>2. weak[c] > 0 BY <1>1, Sums DEF Common
<1> QED BY <1>2 DEF Inv, Lives

\* A call whose next step neither destroys the object of c nor frees c.
Quiet(q, c) == q # << >> => Head(q) \notin {Destroy(c), Dealloc(c)}

LEMMA CalmQuiet ==
  ASSUME NEW q \in Seq(Known), Calm(q), NEW c
  PROVE  Quiet(q, c)
<1>1. q # << >> => Len(q) > 0 /\ Head(q) = q[1] /\ Len(q) \in Nat BY Popped
<1>2. q # << >> => q[1].op \notin {"destroy_object", "destroy_control_block"} BY <1>1 DEF Calm
<1> QED BY <1>1, <1>2, Fields DEF Quiet

LEMMA OtherQuiet ==
  ASSUME NEW q, NEW c, Head(q).op \in {"destroy_object", "destroy_control_block"} => Head(q).ctrl # c
  PROVE  Quiet(q, c)
BY Fields DEF Quiet

\* A block's life goes on while its counts stay on the same side of zero and
\* nothing is about to happen to it in the call that takes a step.
LEMMA LivesKept ==
  ASSUME NEW c \in Ctrls, Lives(c), phase'[c] = phase[c],
         strong[c] \in Nat, strong'[c] \in Nat, weak[c] \in Nat, weak'[c] \in Nat,
         strong'[c] > 0 <=> strong[c] > 0, weak'[c] > 0 <=> weak[c] > 0,
         NEW t \in Threads, \A u \in Threads \ {t} : todo'[u] = todo[u],
         Quiet(todo[t], c), Quiet(todo'[t], c)
  PROVE  Lives(c)'
<1>1. \A u \in Threads, f \in {Destroy(c), Dealloc(c)} :
        todo'[u] # << >> /\ Head(todo'[u]) = f <=> todo[u] # << >> /\ Head(todo[u]) = f
  BY DEF Quiet
<1>2. (Dying(c)' <=> Dying(c)) /\ (Closing(c)' <=> Closing(c))
  BY <1>1 DEF Dying, Closing
<1>3. (Alone(Destroy(c)) => Alone(Destroy(c))') /\ (Alone(Dealloc(c)) => Alone(Dealloc(c))')
  BY <1>1 DEF Alone
<1>4. (strong'[c] = 0 <=> strong[c] = 0) /\ (weak'[c] = 0 <=> weak[c] = 0)
  OBVIOUS
<1> QED BY <1>2, <1>3, <1>4 DEF Lives
-----------------------------------------------------------------------------
(* The calls of the client *)

LEMMA Together ==
  ASSUME NEW t \in Threads, NEW gone, NEW come, NEW old, NEW new, Turns(t, gone, come, old, new),
         held' \in [Handles -> Ctrls \cup {Null}],
         strong' \in [Ctrls -> Nat], weak' \in [Ctrls -> Nat],
         phase' \in [Ctrls -> {"unused", "live", "destroyed", "freed"}],
         ~fault', CallsOK', \A c \in Ctrls : Counted(c)' /\ Lives(c)'
  PROVE  Inv'
BY DEF Inv, TypeOK, Turns, Stacks, Known

\* The release that a handle which is given up still owes.
Cleanup(h) == IF held[h] = Null THEN {}
              ELSE IF h \in Weak THEN {DecWeak(held[h])} ELSE {DecStrong(held[h])}

LEMMA CleanupCounts ==
  ASSUME NEW h \in Handles, NEW c \in Ctrls
  PROVE  /\ DecStrong(c) \in Cleanup(h) <=> h \in Owners /\ held[h] = c
         /\ DecWeak(c) \in Cleanup(h) <=> h \in Weak /\ held[h] = c
<1>1. \A x : /\ DecStrong(x) # DecWeak(c) /\ DecWeak(x) # DecStrong(c)
             /\ DecStrong(x) = DecStrong(c) => x = c
             /\ DecWeak(x) = DecWeak(c) => x = c
  BY Fields
<1>2. c # Null /\ (h \in Owners <=> h \notin Weak) BY HandlesAssumption DEF Handles, Owners
<1> QED BY <1>1, <1>2 DEF Cleanup

LEMMA CleanupCalls ==
  ASSUME Inv, NEW t \in Threads, Idle(t)
  PROVE  /\ \A f \in Jobs : held[f.dst] = Null /\ Call(t, << f >>)
              => Turns(t, {}, Cleanup(f.dst), {}, {f}) /\ Calm(todo'[t])
         /\ \A f \in Jobs : f.dst \in Owners /\ Call(t, StrongCleanup(held[f.dst]) \o << f >>)
              => Turns(t, {}, Cleanup(f.dst), {}, {f}) /\ Calm(todo'[t])
         /\ \A f \in Jobs : f.dst \in Weak /\ Call(t, WeakCleanup(held[f.dst]) \o << f >>)
              => Turns(t, {}, Cleanup(f.dst), {}, {f}) /\ Calm(todo'[t])
         /\ \A d \in Owners : held[d] # Null /\ Call(t, StrongCleanup(held[d]))
              => Turns(t, {}, Cleanup(d), {}, {}) /\ Calm(todo'[t])
         /\ \A d \in Weak : held[d] # Null /\ Call(t, WeakCleanup(held[d]))
              => Turns(t, {}, Cleanup(d), {}, {}) /\ Calm(todo'[t])
<1>1. todo \in Stacks /\ Finite /\ todo[t] = << >> BY Sums DEF Idle
<1>2. \A d \in Handles : held[d] # Null =>
        /\ held[d] \in Ctrls
        /\ DecStrong(held[d]) \in Counters /\ DecWeak(held[d]) \in Counters
        /\ StrongCleanup(held[d]) = << DecStrong(held[d]) >>
        /\ WeakCleanup(held[d]) = << DecWeak(held[d]) >>
        /\ d \in Owners => Cleanup(d) = {DecStrong(held[d])}
        /\ d \in Weak => Cleanup(d) = {DecWeak(held[d])}
  BY HandlesAssumption
  DEF Inv, TypeOK, Counters, StrongCleanup, WeakCleanup, Cleanup, Owners, Handles
<1>3. \A d : held[d] = Null => /\ StrongCleanup(held[d]) = << >> /\ WeakCleanup(held[d]) = << >>
                               /\ Cleanup(d) = {}
  BY DEF StrongCleanup, WeakCleanup, Cleanup
<1>4. \A f \in Jobs : << >> \o << f >> = << f >> /\ f.dst \in Handles
  BY JobFields, PutTwo DEF Known
<1>5. \A f \in Jobs : Call(t, << f >>) => Turns(t, {}, {}, {}, {f}) /\ Calm(todo'[t])
  BY <1>1, StartJob
<1>6. \A r \in Counters : Call(t, << r >>) => Turns(t, {}, {r}, {}, {}) /\ Calm(todo'[t])
  BY <1>1, StartRelease
<1>7. \A r \in Counters, f \in Jobs :
        Call(t, << r >> \o << f >>) => Turns(t, {}, {r}, {}, {f}) /\ Calm(todo'[t])
  BY <1>1, StartBoth
<1>8. Owners \subseteq Handles /\ Weak \subseteq Handles BY DEF Owners, Handles
<1>9. ASSUME NEW f \in Jobs, held[f.dst] = Null, Call(t, << f >>)
      PROVE  Turns(t, {}, Cleanup(f.dst), {}, {f}) /\ Calm(todo'[t])
  BY <1>3, <1>5, <1>9
<1>10. ASSUME NEW f \in Jobs, f.dst \in Owners, Call(t, StrongCleanup(held[f.dst]) \o << f >>)
       PROVE  Turns(t, {}, Cleanup(f.dst), {}, {f}) /\ Calm(todo'[t])
  <2>1. CASE held[f.dst] = Null BY <2>1, <1>3, <1>4, <1>5, <1>10
  <2>2. CASE held[f.dst] # Null BY <2>2, <1>2, <1>7, <1>8, <1>10
  <2> QED BY <2>1, <2>2
<1>11. ASSUME NEW f \in Jobs, f.dst \in Weak, Call(t, WeakCleanup(held[f.dst]) \o << f >>)
       PROVE  Turns(t, {}, Cleanup(f.dst), {}, {f}) /\ Calm(todo'[t])
  <2>1. CASE held[f.dst] = Null BY <2>1, <1>3, <1>4, <1>5, <1>11
  <2>2. CASE held[f.dst] # Null BY <2>2, <1>2, <1>7, <1>8, <1>11
  <2> QED BY <2>1, <2>2
<1>12. ASSUME NEW d \in Owners, held[d] # Null, Call(t, StrongCleanup(held[d]))
       PROVE  Turns(t, {}, Cleanup(d), {}, {}) /\ Calm(todo'[t])
  BY <1>2, <1>6, <1>8, <1>12
<1>13. ASSUME NEW d \in Weak, held[d] # Null, Call(t, WeakCleanup(held[d]))
       PROVE  Turns(t, {}, Cleanup(d), {}, {}) /\ Calm(todo'[t])
  BY <1>2, <1>6, <1>8, <1>13
<1> QED BY <1>9, <1>10, <1>11, <1>12, <1>13

\* A handle that lets go of its block, with the release on its way.
LEMMA LetGo ==
  ASSUME Inv, NEW t \in Threads, NEW x \in Handles, NEW gone, NEW old, NEW new,
         Turns(t, gone, Cleanup(x), old, new), gone \cap Counters = {}, Settled(x),
         \A h \in Handles \ {x} : Unchanged(h), ~(Settled(x)' /\ held'[x] \in Ctrls),
         strong' = strong, weak' = weak
  PROVE  \A c \in Ctrls : Counted(c)'
<1> SUFFICES ASSUME NEW c \in Ctrls PROVE Counted(c)' OBVIOUS
<1> DEFINE ds == DecStrong(c)
<1> DEFINE dw == DecWeak(c)
<1>1. /\ strong[c] = Holders(Owners, c) + Number(todo, ds)
      /\ weak[c] = Holders(Weak, c) + Number(todo, dw) + Common(strong[c])
      /\ Common(strong[c]) \in Nat
      /\ ds \in Counters /\ dw \in Counters
  BY Sums DEF Common
<1>2. /\ IsFiniteSet(Places(todo', ds)) /\ Number(todo, ds) \in Nat /\ Number(todo', ds) \in Nat
      /\ Number(todo', ds) + In(ds, gone) = Number(todo, ds) + In(ds, Cleanup(x))
      /\ IsFiniteSet(Places(todo', dw)) /\ Number(todo, dw) \in Nat /\ Number(todo', dw) \in Nat
      /\ Number(todo', dw) + In(dw, gone) = Number(todo, dw) + In(dw, Cleanup(x))
  BY <1>1 DEF Turns
<1>3. /\ ds \in Cleanup(x) <=> x \in Owners /\ held[x] = c
      /\ dw \in Cleanup(x) <=> x \in Weak /\ held[x] = c
  BY CleanupCounts
<1>4. \A H \in {Owners, Weak} : (Holds(H, x, c) <=> x \in H /\ held[x] = c) /\ ~Holds(H, x, c)'
  BY DEF Holds
<1>5. \A H \in {Owners, Weak} :
        /\ Holders(H, c) \in Nat /\ Holders(H, c)' \in Nat
        /\ Holds(H, x, c) => Holders(H, c) = Holders(H, c)' + 1
        /\ ~Holds(H, x, c) => Holders(H, c)' = Holders(H, c)
  <2>1. \A H \in {Owners, Weak} : \A h \in H \ {x} : Unchanged(h) BY DEF Owners, Handles
  <2> QED BY <2>1, <1>4, OneHandle
<1>6. /\ In(ds, gone) = 0 /\ In(dw, gone) = 0
      /\ In(ds, Cleanup(x)) = IF x \in Owners /\ held[x] = c THEN 1 ELSE 0
      /\ In(dw, Cleanup(x)) = IF x \in Weak /\ held[x] = c THEN 1 ELSE 0
  BY <1>1, <1>3 DEF In
<1> HIDE DEF ds, dw
<1>7. strong'[c] = Holders(Owners, c)' + Number(todo', ds)
  <2>1. CASE x \in Owners /\ held[x] = c BY <2>1, <1>1, <1>2, <1>4, <1>5, <1>6
  <2>2. CASE ~(x \in Owners /\ held[x] = c) BY <2>2, <1>1, <1>2, <1>4, <1>5, <1>6
  <2> QED BY <2>1, <2>2
<1>8. weak'[c] = Holders(Weak, c)' + Number(todo', dw) + Common(strong'[c])
  <2>1. CASE x \in Weak /\ held[x] = c BY <2>1, <1>1, <1>2, <1>4, <1>5, <1>6
  <2>2. CASE ~(x \in Weak /\ held[x] = c) BY <2>2, <1>1, <1>2, <1>4, <1>5, <1>6
  <2> QED BY <2>1, <2>2
<1> QED BY <1>2, <1>7, <1>8, CountedNext DEF ds, dw

\* A call that changes neither a count nor the life of a block.
LEMMA AllLive ==
  ASSUME Inv, NEW t \in Threads, NEW gone, NEW come, NEW old, NEW new,
         Turns(t, gone, come, old, new), Calm(todo'[t]), \A c \in Ctrls : Quiet(todo[t], c),
         strong' = strong, weak' = weak, phase' = phase
  PROVE  \A c \in Ctrls : Lives(c)'
<1> SUFFICES ASSUME NEW c \in Ctrls PROVE Lives(c)' OBVIOUS
<1>1. todo'[t] \in Seq(Known) /\ \A u \in Threads \ {t} : todo'[u] = todo[u]
  BY DEF Turns, Stacks
<1>2. Quiet(todo'[t], c) BY <1>1, CalmQuiet
<1>3. Lives(c) /\ strong[c] \in Nat /\ weak[c] \in Nat BY DEF Inv, TypeOK
<1> QED BY <1>1, <1>2, <1>3, LivesKept

\* A call that starts a job, after the cleanup of the handle it will write.
LEMMA JobStarts ==
  ASSUME Inv, NEW t \in Threads, Idle(t), NEW f \in Jobs,
         Turns(t, {}, Cleanup(f.dst), {}, {f}), Calm(todo'[t]), Guarded(f),
         \A h \in Writes(f) : MayWrite(h), \A h \in Footprint(f) : MayRead(h),
         UNCHANGED << held, strong, weak, phase, fault >>
  PROVE  Inv'
<1> DEFINE d == f.dst
<1>1. /\ todo \in Stacks /\ d \in Handles /\ d \in Writes(f) /\ MayWrite(d)
  BY Sums, JobFields DEF Writes
<1>2. held' = held /\ strong' = strong /\ weak' = weak /\ phase' = phase /\ fault' = fault
  OBVIOUS
<1>3. Settled(d) /\ ~Settled(d)' /\ \A h \in Handles \ {d} : Unchanged(h)
  <2>1. \A h : /\ Settled(h) <=> Clear(t, h)
               /\ Settled(h)' <=> Clear(t, h) /\ h # f.dst
    BY <1>1, SettledIs
  <2> QED BY <2>1, <1>1, <1>2, WrittenOutside DEF Unchanged
<1>4. CallsOK'
  <2>1. Apart(t, f) BY <1>1, NewApart
  <2>2. Guarded(f)' BY <1>2 DEF Guarded
  <2>3. Changes({}) /\ Outside(t, {}) /\ CallsOK BY <1>2 DEF Changes, Outside, Inv
  <2>4. \A g \in {f} : Guarded(g)' /\ Apart(t, g) BY <2>1, <2>2
  <2> QED BY <1>1, <2>3, <2>4, CallsKept
<1> HIDE DEF d
<1>5. \A c \in Ctrls : Counted(c)' BY <1>1, <1>2, <1>3, LetGo DEF d
<1>6. \A c \in Ctrls : Quiet(todo[t], c) BY DEF Idle, Quiet
<1>7. \A c \in Ctrls : Lives(c)' BY <1>2, <1>6, AllLive
<1>8. /\ held' \in [Handles -> Ctrls \cup {Null}]
      /\ strong' \in [Ctrls -> Nat] /\ weak' \in [Ctrls -> Nat]
      /\ phase' \in [Ctrls -> {"unused", "live", "destroyed", "freed"}] /\ ~fault'
  BY <1>2 DEF Inv, TypeOK
<1> QED BY <1>4, <1>5, <1>7, <1>8, Together

\* The destructor of a variable.
LEMMA ReleaseStarts ==
  ASSUME Inv, NEW t \in Threads, Idle(t), NEW d \in Handles, MayWrite(d),
         Turns(t, {}, Cleanup(d), {}, {}), Calm(todo'[t]),
         held' = [held EXCEPT ![d] = Null],
         UNCHANGED << strong, weak, phase, fault >>
  PROVE  Inv'
<1>1. todo \in Stacks BY Sums
<1>2. strong' = strong /\ weak' = weak /\ phase' = phase /\ fault' = fault
  OBVIOUS
<1>3. /\ held' \in [Handles -> Ctrls \cup {Null}] /\ held'[d] = Null /\ Null \notin Ctrls
      /\ \A h \in Handles \ {d} : held'[h] = held[h]
  BY HandlesAssumption DEF Inv, TypeOK
<1>4. Settled(d) /\ \A h \in Handles \ {d} : Unchanged(h)
  <2>1. \A h : (Settled(h) <=> Clear(t, h)) /\ (Settled(h)' <=> Clear(t, h))
    BY <1>1, SettledIs
  <2> QED BY <2>1, <1>1, <1>3, WrittenOutside DEF Unchanged
<1>5. CallsOK'
  <2>1. Outside(t, {d}) BY <1>1, WrittenOutside
  <2>2. Changes({d}) /\ CallsOK BY <1>3 DEF Changes, Inv
  <2> QED BY <1>1, <2>1, <2>2, CallsKept
<1>6. \A c \in Ctrls : Counted(c)' BY <1>1, <1>2, <1>3, <1>4, LetGo
<1>7. \A c \in Ctrls : Quiet(todo[t], c) BY DEF Idle, Quiet
<1>8. \A c \in Ctrls : Lives(c)' BY <1>2, <1>7, AllLive
<1>9. /\ strong' \in [Ctrls -> Nat] /\ weak' \in [Ctrls -> Nat]
      /\ phase' \in [Ctrls -> {"unused", "live", "destroyed", "freed"}] /\ ~fault'
  BY <1>2 DEF Inv, TypeOK
<1> QED BY <1>3, <1>5, <1>6, <1>8, <1>9, Together

\* A shared_ptr that a client can name, and the variables that lead to it.
LEMMA Named ==
  ASSUME Inv, NEW s \in Shared, NEW m \in BOOLEAN, Reaches(s, m)
  PROVE  /\ Place(s, m) \in Owners /\ MayRead(s) /\ s \in Owners
         /\ Place(s, m) \in Ctrls => held[s] = Place(s, m)
         /\ ~m => Place(s, m) = s
         /\ m => Place(s, m) \in Ctrls /\ Place(s, m) # s
BY HandlesAssumption DEF Reaches, Place, Inv, TypeOK, Handles, Owners

LEMMA TakeFields ==
  \A d, s \in Handles, p \in SUBSET Shared, k \in {"strong", "weak", "none"} :
    /\ Take(d, s, p, k) \in Jobs
    /\ Take(d, s, p, k).op = "take" /\ Take(d, s, p, k).dst = d /\ Take(d, s, p, k).src = s
    /\ Take(d, s, p, k).path = p /\ Take(d, s, p, k).inc = k
    /\ Footprint(Take(d, s, p, k)) = {d, s} \cup p
    /\ Writes(Take(d, s, p, k)) = IF k = "none" THEN {d, s} ELSE {d}
BY DEF Take, Jobs, Footprint, Writes

LEMMA LoadFields ==
  \A d, w \in Handles : /\ Load(d, w) \in Jobs
                        /\ Load(d, w).op = "load" /\ Load(d, w).dst = d /\ Load(d, w).src = w
                        /\ Load(d, w).path = {}
                        /\ Footprint(Load(d, w)) = {d, w} /\ Writes(Load(d, w)) = {d}
BY DEF Load, Jobs, Footprint, Writes

LEMMA Kinds ==
  Shared \subseteq Owners /\ Ctrls \subseteq Owners /\ Owners \subseteq Handles
  /\ Weak \subseteq Handles /\ Owners \cap Weak = {} /\ Shared \cap Ctrls = {}
BY HandlesAssumption DEF Owners, Handles

LEMMA CopyConstructKeeps ==
  ASSUME Inv, NEW t \in Threads, NEW d \in Shared, NEW s \in Shared, NEW m \in BOOLEAN,
         copy_construct(t, d, s, m)
  PROVE  Inv'
<1> DEFINE p == Place(s, m)
<1> DEFINE f == Take(d, p, {s}, "strong")
<1>1. /\ Idle(t) /\ MayWrite(d) /\ held[d] = Null /\ d # s /\ Reaches(s, m) /\ MayRead(p)
      /\ Call(t, << f >>) /\ UNCHANGED << held, strong, weak, phase, fault >>
  BY DEF copy_construct
<1>2. /\ p \in Owners /\ MayRead(s) /\ (p \in Ctrls => held[s] = p)
      /\ (~m => p = s) /\ (m => p \in Ctrls)
  BY <1>1, Named
<1> HIDE DEF p
<1>3. /\ f \in Jobs /\ f.op = "take" /\ f.dst = d /\ f.src = p /\ f.path = {s} /\ f.inc = "strong"
      /\ Footprint(f) = {d, p, s} /\ Writes(f) = {d}
  BY <1>2, Kinds, TakeFields
<1> HIDE DEF f
<1>4. Guarded(f) BY <1>1, <1>2, <1>3, Kinds DEF Guarded
<1>5. Turns(t, {}, Cleanup(f.dst), {}, {f}) /\ Calm(todo'[t]) BY <1>1, <1>3, CleanupCalls
<1>6. MayRead(d) BY <1>1, WrittenOutside, Sums
<1> QED BY <1>1, <1>2, <1>3, <1>4, <1>5, <1>6, JobStarts

LEMMA CopyAssignKeeps ==
  ASSUME Inv, NEW t \in Threads, NEW d \in Shared, NEW s \in Shared,
         NEW dm \in BOOLEAN, NEW sm \in BOOLEAN, copy_assign(t, d, dm, s, sm)
  PROVE  Inv'
<1> DEFINE x == Place(d, dm)
<1> DEFINE p == Place(s, sm)
<1> DEFINE f == Take(x, p, {d, s} \ {x}, "strong")
<1>1. /\ Idle(t) /\ Reaches(d, dm) /\ Reaches(s, sm) /\ MayWrite(x) /\ MayRead(p) /\ x # p
      /\ sm => d # s
      /\ Call(t, StrongCleanup(held[x]) \o << f >>)
      /\ UNCHANGED << held, strong, weak, phase, fault >>
  BY DEF copy_assign
<1>2. /\ x \in Owners /\ MayRead(d) /\ (x \in Ctrls => held[d] = x) /\ (~dm => x = d)
      /\ dm => x \in Ctrls /\ x # d
      /\ p \in Owners /\ MayRead(s) /\ (p \in Ctrls => held[s] = p) /\ (~sm => p = s)
      /\ sm => p \in Ctrls /\ p # s
  BY <1>1, Named
<1> HIDE DEF x, p
<1>3. /\ f \in Jobs /\ f.op = "take" /\ f.dst = x /\ f.src = p /\ f.path = {d, s} \ {x}
      /\ f.inc = "strong"
      /\ Footprint(f) = {x, p} \cup ({d, s} \ {x}) /\ Writes(f) = {x}
  BY <1>2, Kinds, TakeFields
<1> HIDE DEF f
<1>4. (x \in Ctrls => d \in f.path) /\ (p \in Ctrls => s \in f.path)
  BY <1>1, <1>2, <1>3, Kinds
<1>5. Guarded(f) BY <1>1, <1>2, <1>3, <1>4, Kinds DEF Guarded
<1>6. Turns(t, {}, Cleanup(f.dst), {}, {f}) /\ Calm(todo'[t]) BY <1>1, <1>2, <1>3, CleanupCalls
<1>7. MayRead(x) BY <1>1, WrittenOutside, Sums
<1> QED BY <1>1, <1>2, <1>3, <1>5, <1>6, <1>7, JobStarts

LEMMA MoveAssignRelatedKeeps ==
  ASSUME Inv, NEW t \in Threads, NEW d \in Shared, NEW s \in Shared, move_assign_related(t, d, s)
  PROVE  Inv'
<1> DEFINE f == Take(d, s, {}, "none")
<1>1. /\ Idle(t) /\ MayWrite(d) /\ MayWrite(s) /\ d # s
      /\ Call(t, StrongCleanup(held[d]) \o << f >>)
      /\ UNCHANGED << held, strong, weak, phase, fault >>
  BY DEF move_assign_related
<1>2. /\ f \in Jobs /\ f.op = "take" /\ f.dst = d /\ f.src = s /\ f.path = {} /\ f.inc = "none"
      /\ Footprint(f) = {d, s} /\ Writes(f) = {d, s}
  BY Kinds, TakeFields
<1> HIDE DEF f
<1>3. Guarded(f) BY <1>1, <1>2, Kinds DEF Guarded
<1>4. Turns(t, {}, Cleanup(f.dst), {}, {f}) /\ Calm(todo'[t]) BY <1>1, <1>2, Kinds, CleanupCalls
<1>5. MayRead(d) /\ MayRead(s) BY <1>1, WrittenOutside, Sums
<1> QED BY <1>1, <1>2, <1>3, <1>4, <1>5, JobStarts

LEMMA GetWeakKeeps ==
  ASSUME Inv, NEW t \in Threads, NEW w \in Weak, NEW s \in Shared, get_weak(t, w, s)
  PROVE  Inv'
<1> DEFINE f == Take(w, s, {}, "weak")
<1>1. /\ Idle(t) /\ MayWrite(w) /\ held[w] = Null /\ MayRead(s)
      /\ Call(t, << f >>) /\ UNCHANGED << held, strong, weak, phase, fault >>
  BY DEF get_weak
<1>2. /\ f \in Jobs /\ f.op = "take" /\ f.dst = w /\ f.src = s /\ f.path = {} /\ f.inc = "weak"
      /\ Footprint(f) = {w, s} /\ Writes(f) = {w}
  BY Kinds, TakeFields
<1> HIDE DEF f
<1>3. Guarded(f) BY <1>1, <1>2, Kinds DEF Guarded
<1>4. Turns(t, {}, Cleanup(f.dst), {}, {f}) /\ Calm(todo'[t]) BY <1>1, <1>2, CleanupCalls
<1>5. MayRead(w) BY <1>1, WrittenOutside, Sums
<1> QED BY <1>1, <1>2, <1>3, <1>4, <1>5, JobStarts

LEMMA WeakCopyAssignKeeps ==
  ASSUME Inv, NEW t \in Threads, NEW w \in Weak, NEW v \in Weak, weak_copy_assign(t, w, v)
  PROVE  Inv'
<1> DEFINE f == Take(w, v, {}, "weak")
<1>1. /\ Idle(t) /\ MayWrite(w) /\ MayRead(v) /\ w # v
      /\ Call(t, WeakCleanup(held[w]) \o << f >>)
      /\ UNCHANGED << held, strong, weak, phase, fault >>
  BY DEF weak_copy_assign
<1>2. /\ f \in Jobs /\ f.op = "take" /\ f.dst = w /\ f.src = v /\ f.path = {} /\ f.inc = "weak"
      /\ Footprint(f) = {w, v} /\ Writes(f) = {w}
  BY Kinds, TakeFields
<1> HIDE DEF f
<1>3. Guarded(f) BY <1>1, <1>2, Kinds DEF Guarded
<1>4. Turns(t, {}, Cleanup(f.dst), {}, {f}) /\ Calm(todo'[t]) BY <1>1, <1>2, CleanupCalls
<1>5. MayRead(w) BY <1>1, WrittenOutside, Sums
<1> QED BY <1>1, <1>2, <1>3, <1>4, <1>5, JobStarts

LEMMA LockKeeps ==
  ASSUME Inv, NEW t \in Threads, NEW d \in Shared, NEW w \in Weak, lock(t, d, w)
  PROVE  Inv'
<1> DEFINE f == Load(d, w)
<1>1. /\ Idle(t) /\ MayWrite(d) /\ held[d] = Null /\ MayRead(w) /\ held[w] # Null
      /\ Call(t, << f >>) /\ UNCHANGED << held, strong, weak, phase, fault >>
  BY DEF lock
<1>2. /\ f \in Jobs /\ f.op = "load" /\ f.dst = d /\ f.src = w /\ f.path = {}
      /\ Footprint(f) = {d, w} /\ Writes(f) = {d}
  BY Kinds, LoadFields
<1> HIDE DEF f
<1>3. Guarded(f) BY <1>1, <1>2, Kinds DEF Guarded
<1>4. Turns(t, {}, Cleanup(f.dst), {}, {f}) /\ Calm(todo'[t]) BY <1>1, <1>2, CleanupCalls
<1>5. MayRead(d) BY <1>1, WrittenOutside, Sums
<1> QED BY <1>1, <1>2, <1>3, <1>4, <1>5, JobStarts

LEMMA DestroyKeeps ==
  ASSUME Inv, NEW t \in Threads, NEW d \in Shared \cup Weak,
         (d \in Shared /\ destroy_shared(t, d)) \/ (d \in Weak /\ destroy_weak(t, d))
  PROVE  Inv'
<1>1. /\ Idle(t) /\ MayWrite(d) /\ held[d] # Null /\ held' = [held EXCEPT ![d] = Null]
      /\ \/ d \in Owners /\ Call(t, StrongCleanup(held[d]))
         \/ d \in Weak /\ Call(t, WeakCleanup(held[d]))
      /\ UNCHANGED << strong, weak, phase, fault >> /\ d \in Handles
  BY Kinds DEF destroy_shared, destroy_weak
<1>2. Turns(t, {}, Cleanup(d), {}, {}) /\ Calm(todo'[t]) BY <1>1, CleanupCalls
<1> QED BY <1>1, <1>2, ReleaseStarts

LEMMA NoTurn ==
  ASSUME Inv, NEW t \in Threads, todo' = todo
  PROVE  Turns(t, {}, {}, JobsOf(t), JobsOf(t))
<1>1. todo \in Stacks /\ Finite BY Sums
<1>2. JobsOf(t)' = JobsOf(t) BY JobsAre
<1>3. WellShaped(todo[t]) BY DEF Inv, CallsOK
<1>4. \A g \in Counters : /\ IsFiniteSet(Places(todo, g)) /\ Number(todo, g) \in Nat
                          /\ Number(todo, g) + In(g, {}) = Number(todo, g) + In(g, {})
  BY <1>1, FS_CardinalityType DEF Finite, Number
<1> QED BY <1>1, <1>2, <1>3, <1>4 DEF Turns

LEMMA AllocateKeeps ==
  ASSUME Inv, NEW t \in Threads, NEW d \in Shared, allocate_shared(t, d)
  PROVE  Inv'
<1>1. PICK c \in Ctrls :
        /\ phase[c] = "unused"
        /\ held' = [held EXCEPT ![d] = c] /\ strong' = [strong EXCEPT ![c] = 1]
        /\ weak' = [weak EXCEPT ![c] = 1] /\ phase' = [phase EXCEPT ![c] = "live"]
  BY DEF allocate_shared
<1>2. Idle(t) /\ MayWrite(d) /\ held[d] = Null /\ todo' = todo /\ fault' = fault
  BY DEF allocate_shared
<1>3. /\ held' \in [Handles -> Ctrls \cup {Null}] /\ held'[d] = c /\ Null \notin Ctrls
      /\ \A h \in Handles \ {d} : held'[h] = held[h]
      /\ strong' \in [Ctrls -> Nat] /\ weak' \in [Ctrls -> Nat]
      /\ phase' \in [Ctrls -> {"unused", "live", "destroyed", "freed"}] /\ ~fault'
      /\ strong'[c] = 1 /\ weak'[c] = 1 /\ phase'[c] = "live"
      /\ \A x \in Ctrls \ {c} : strong'[x] = strong[x] /\ weak'[x] = weak[x] /\ phase'[x] = phase[x]
  BY <1>1, <1>2, HandlesAssumption DEF Inv, TypeOK, Handles
<1>4. todo \in Stacks /\ Turns(t, {}, {}, JobsOf(t), JobsOf(t)) BY <1>2, Sums, NoTurn
<1>5. Settled(d) /\ Settled(d)' /\ \A h \in Handles \ {d} : Unchanged(h)
  <2>1. \A h : Settled(h)' <=> Settled(h) BY <1>4, SettledIs
  <2> QED BY <2>1, <1>2, <1>3, <1>4, WrittenOutside DEF Unchanged
<1>6. CallsOK'
  <2>1. Outside(t, {d}) /\ Changes({d}) /\ CallsOK
    BY <1>2, <1>3, <1>4, WrittenOutside DEF Changes, Inv
  <2>2. JobsOf(t) = {} BY <1>2, JobsAre, JustOne DEF Idle
  <2> QED BY <1>4, <2>1, <2>2, CallsKept
<1>7. \A x \in Ctrls :
        /\ strong[x] = Holders(Owners, x) + Number(todo, DecStrong(x))
        /\ weak[x] = Holders(Weak, x) + Number(todo, DecWeak(x)) + Common(strong[x])
        /\ Number(todo, DecStrong(x)) \in Nat /\ Number(todo, DecWeak(x)) \in Nat
        /\ strong[x] \in Nat /\ weak[x] \in Nat
        /\ IsFiniteSet(Places(todo, DecStrong(x))) /\ IsFiniteSet(Places(todo, DecWeak(x)))
        /\ Lives(x)
  BY Sums DEF Finite, Inv
<1>8. \A x \in Ctrls :
        /\ Holders(Owners, x) \in Nat /\ Holders(Weak, x) \in Nat
        /\ Holders(Weak, x)' = Holders(Weak, x)
        /\ Holders(Owners, x)' = Holders(Owners, x) + IF x = c THEN 1 ELSE 0
  <2> SUFFICES ASSUME NEW x \in Ctrls
               PROVE  /\ Holders(Owners, x) \in Nat /\ Holders(Weak, x) \in Nat
                      /\ Holders(Weak, x)' = Holders(Weak, x)
                      /\ Holders(Owners, x)' = Holders(Owners, x) + IF x = c THEN 1 ELSE 0
    OBVIOUS
  <2>1. \A H \in {Owners, Weak} : \A h \in H \ {d} : Unchanged(h) BY <1>5, Kinds
  <2>2. ~Holds(Owners, d, x) /\ ~Holds(Weak, d, x) /\ ~Holds(Weak, d, x)'
        /\ (Holds(Owners, d, x)' <=> x = c)
    BY <1>2, <1>3, <1>5, Kinds DEF Holds
  <2>3. Holders(Weak, x)' = Holders(Weak, x) BY <2>1, <2>2, OneHandle
  <2>4. Holders(Owners, x)' = Holders(Owners, x) + IF x = c THEN 1 ELSE 0
    <3>1. CASE x = c BY <2>1, <2>2, <3>1, OneHandle
    <3>2. CASE x # c BY <2>1, <2>2, <3>2, OneHandle
    <3> QED BY <3>1, <3>2
  <2> QED BY <2>3, <2>4, HoldersFinite
<1>9. strong[c] = 0 /\ weak[c] = 0 /\ ~Dying(c) /\ ~Closing(c)
  BY <1>1, <1>7 DEF Lives
<1>10. ASSUME NEW x \in Ctrls PROVE Counted(x)'
  <2>1. CASE x = c
    <3>1. /\ Holders(Owners, c) = 0 /\ Number(todo, DecStrong(c)) = 0
          /\ Holders(Weak, c) = 0 /\ Number(todo, DecWeak(c)) = 0
      BY <1>7, <1>8, <1>9 DEF Common
    <3>2. /\ strong'[c] = Holders(Owners, c)' + Number(todo', DecStrong(c))
          /\ weak'[c] = Holders(Weak, c)' + Number(todo', DecWeak(c)) + Common(strong'[c])
      BY <3>1, <1>2, <1>3, <1>8 DEF Common
    <3> QED BY <2>1, <3>2, <1>2, <1>7, CountedNext
  <2>2. CASE x # c
    <3>1. /\ strong'[x] = Holders(Owners, x)' + Number(todo', DecStrong(x))
          /\ weak'[x] = Holders(Weak, x)' + Number(todo', DecWeak(x)) + Common(strong'[x])
      BY <2>2, <1>2, <1>3, <1>7, <1>8
    <3> QED BY <3>1, <1>2, <1>7, CountedNext
  <2> QED BY <2>1, <2>2
<1>11. ASSUME NEW x \in Ctrls PROVE Lives(x)'
  <2>1. /\ Dying(x)' <=> Dying(x)
        /\ Closing(x)' <=> Closing(x)
        /\ Alone(Destroy(x)) => Alone(Destroy(x))'
        /\ Alone(Dealloc(x)) => Alone(Dealloc(x))'
    BY <1>2 DEF Dying, Closing, Alone
  <2>2. CASE x = c BY <2>1, <2>2, <1>3, <1>7, <1>9 DEF Lives
  <2>3. CASE x # c BY <2>1, <2>3, <1>3, <1>7 DEF Lives
  <2> QED BY <2>2, <2>3
<1> QED BY <1>3, <1>4, <1>6, <1>10, <1>11, Together

LEMMA MoveAssignKeeps ==
  ASSUME Inv, NEW t \in Threads, NEW d, NEW s,
         {d, s} \subseteq Shared \/ {d, s} \subseteq Weak, move_assign(t, d, s)
  PROVE  Inv'
<1>1. /\ Idle(t) /\ MayWrite(d) /\ MayWrite(s) /\ d # s
      /\ held' = [held EXCEPT ![d] = held[s], ![s] = held[d]]
      /\ todo' = todo /\ strong' = strong /\ weak' = weak /\ phase' = phase /\ fault' = fault
  BY DEF move_assign
<1>2. d \in Handles /\ s \in Handles /\ \A H \in {Owners, Weak} : d \in H <=> s \in H
  BY Kinds
<1>3. /\ held' \in [Handles -> Ctrls \cup {Null}] /\ held'[d] = held[s] /\ held'[s] = held[d]
      /\ \A h \in Handles \ {d, s} : held'[h] = held[h]
  BY <1>1, <1>2 DEF Inv, TypeOK
<1>4. todo \in Stacks /\ Turns(t, {}, {}, JobsOf(t), JobsOf(t)) BY <1>1, Sums, NoTurn
<1>5. /\ Settled(d) /\ Settled(d)' /\ Settled(s) /\ Settled(s)'
      /\ \A h \in Handles \ {d, s} : Unchanged(h)
  <2>1. \A h : Settled(h)' <=> Settled(h) BY <1>4, SettledIs
  <2> QED BY <2>1, <1>1, <1>3, <1>4, WrittenOutside DEF Unchanged
<1>6. CallsOK'
  <2>1. Outside(t, {d}) /\ Outside(t, {s}) BY <1>1, <1>4, WrittenOutside
  <2>2. Outside(t, {d, s}) /\ Changes({d, s}) /\ CallsOK
    BY <2>1, <1>3 DEF Outside, Changes, Inv
  <2>3. JobsOf(t) = {} BY <1>1, JobsAre, JustOne DEF Idle
  <2> QED BY <1>4, <2>2, <2>3, CallsKept
<1>7. ASSUME NEW c \in Ctrls PROVE Counted(c)'
  <2>1. /\ strong[c] = Holders(Owners, c) + Number(todo, DecStrong(c))
        /\ weak[c] = Holders(Weak, c) + Number(todo, DecWeak(c)) + Common(strong[c])
        /\ IsFiniteSet(Places(todo, DecStrong(c))) /\ IsFiniteSet(Places(todo, DecWeak(c)))
    BY Sums DEF Finite
  <2>2. ASSUME NEW H \in {Owners, Weak} PROVE Holders(H, c)' = Holders(H, c)
    <3>1. \A h \in H \ {d, s} : Unchanged(h) BY <1>5, Kinds
    <3>2. (Holds(H, d, c) <=> Holds(H, s, c)') /\ (Holds(H, s, c) <=> Holds(H, d, c)')
      BY <1>2, <1>3, <1>5 DEF Holds
    <3> QED BY <3>1, <3>2, <1>1, <1>2, TwoHandles
  <2>3. /\ strong'[c] = Holders(Owners, c)' + Number(todo', DecStrong(c))
        /\ weak'[c] = Holders(Weak, c)' + Number(todo', DecWeak(c)) + Common(strong'[c])
    BY <2>1, <2>2, <1>1
  <2> QED BY <2>1, <2>3, <1>1, CountedNext
<1>8. ASSUME NEW c \in Ctrls PROVE Lives(c)'
  BY <1>1 DEF Inv, Lives, Dying, Closing, Alone
<1>9. /\ strong' \in [Ctrls -> Nat] /\ weak' \in [Ctrls -> Nat]
      /\ phase' \in [Ctrls -> {"unused", "live", "destroyed", "freed"}] /\ ~fault'
  BY <1>1 DEF Inv, TypeOK
<1> QED BY <1>3, <1>4, <1>6, <1>7, <1>8, <1>9, Together
-----------------------------------------------------------------------------
(* The steps that release *)

LEMMA InCounters ==
  /\ \A g : In(g, {}) = 0
  /\ \A x, c : /\ In(DecStrong(x), {DecStrong(c)}) = IF x = c THEN 1 ELSE 0
               /\ In(DecWeak(x), {DecWeak(c)}) = IF x = c THEN 1 ELSE 0
               /\ In(DecStrong(x), {DecWeak(c)}) = 0 /\ In(DecWeak(x), {DecStrong(c)}) = 0
               /\ In(DecStrong(x), {Destroy(c)}) = 0 /\ In(DecWeak(x), {Destroy(c)}) = 0
               /\ In(DecStrong(x), {Dealloc(c)}) = 0 /\ In(DecWeak(x), {Dealloc(c)}) = 0
<1>1. \A x, c : /\ DecStrong(x) = DecStrong(c) <=> x = c
                /\ DecWeak(x) = DecWeak(c) <=> x = c
                /\ DecStrong(x) # DecWeak(c) /\ DecStrong(x) # Destroy(c) /\ DecStrong(x) # Dealloc(c)
                /\ DecWeak(x) # Destroy(c) /\ DecWeak(x) # Dealloc(c)
  BY Fields
<1> QED BY <1>1 DEF In

\* The step that is due.
LEMMA Due ==
  ASSUME Inv, NEW t \in Threads, todo[t] # << >>
  PROVE  /\ todo \in Stacks /\ Finite /\ WellShaped(todo[t]) /\ Head(todo[t]) \in Known
         /\ Head(todo[t]).op = "dec_strong" =>
              /\ Head(todo[t]) \in Releases /\ Head(todo[t]).ctrl \in Ctrls
              /\ Head(todo[t]) = DecStrong(Head(todo[t]).ctrl)
         /\ Head(todo[t]).op = "destroy_object" =>
              /\ Head(todo[t]) \in Releases /\ Head(todo[t]).ctrl \in Ctrls
              /\ Head(todo[t]) = Destroy(Head(todo[t]).ctrl)
         /\ Head(todo[t]).op = "dec_weak" =>
              /\ Head(todo[t]) \in Releases /\ Head(todo[t]).ctrl \in Ctrls
              /\ Head(todo[t]) = DecWeak(Head(todo[t]).ctrl)
         /\ Head(todo[t]).op = "destroy_control_block" =>
              /\ Head(todo[t]) \in Releases /\ Head(todo[t]).ctrl \in Ctrls
              /\ Head(todo[t]) = Dealloc(Head(todo[t]).ctrl)
         /\ Head(todo[t]).op \in JobOps => Head(todo[t]) \in Jobs
<1>1. todo \in Stacks /\ Finite /\ WellShaped(todo[t]) BY Sums DEF Inv, CallsOK
<1>2. Head(todo[t]) \in Known BY <1>1, RestIs
<1> QED BY <1>1, <1>2, Fields, JobFields DEF Known, JobOps

\* A step that leaves the handles and the jobs alone.
LEMMA HandlesKept ==
  ASSUME Inv, NEW t \in Threads, NEW gone, NEW come,
         Turns(t, gone, come, JobsOf(t), JobsOf(t)), held' = held
  PROVE  CallsOK' /\ \A H \in {Owners, Weak}, c \in Ctrls : Holders(H, c)' = Holders(H, c)
<1>1. todo \in Stacks /\ CallsOK BY Sums DEF Inv
<1>2. \A h : Settled(h)' <=> Settled(h) BY <1>1, SettledIs
<1>3. Changes({}) /\ Outside(t, {}) BY DEF Changes, Outside
<1>4. \A f \in JobsOf(t) : Guarded(f)' /\ Apart(t, f)
  BY <1>1, StillApart DEF CallsOK, Guarded
<1>5. CallsOK' BY <1>1, <1>3, <1>4, CallsKept
<1>6. \A H \in {Owners, Weak}, c \in Ctrls : Holders(H, c)' = Holders(H, c)
  BY <1>2 DEF Holders, HoldersOf
<1> QED BY <1>5, <1>6

\* What the steps of a release do to the numbers of steps.
LEMMA NumbersTurn ==
  ASSUME Inv, NEW t \in Threads, NEW gone, NEW come, NEW old, NEW new,
         Turns(t, gone, come, old, new)
  PROVE  \A x \in Ctrls :
           /\ IsFiniteSet(Places(todo', DecStrong(x))) /\ IsFiniteSet(Places(todo', DecWeak(x)))
           /\ Number(todo', DecStrong(x)) \in Nat /\ Number(todo', DecWeak(x)) \in Nat
           /\ Number(todo', DecStrong(x)) + In(DecStrong(x), gone)
                = Number(todo, DecStrong(x)) + In(DecStrong(x), come)
           /\ Number(todo', DecWeak(x)) + In(DecWeak(x), gone)
                = Number(todo, DecWeak(x)) + In(DecWeak(x), come)
BY Sums DEF Turns

LEMMA OthersQuiet ==
  ASSUME Inv, NEW t \in Threads, todo[t] # << >>, Head(todo[t]) \in Releases,
         NEW x, x # Head(todo[t]).ctrl
  PROVE  Quiet(todo[t], x)
BY Fields DEF Quiet

\* The one call that is about to destroy an object, or to free a block.
Faces(td, t, f) == td[t] # << >> /\ Head(td[t]) = f

LEMMA LastSteps ==
  ASSUME NEW c \in Ctrls, ~Dying(c), ~Closing(c), NEW t \in Threads,
         \A u \in Threads \ {t} : todo'[u] = todo[u]
  PROVE  /\ todo'[t] # << >> /\ Head(todo'[t]) = Destroy(c) =>
              Dying(c)' /\ ~Closing(c)' /\ Alone(Destroy(c))' /\ Alone(Dealloc(c))'
         /\ todo'[t] # << >> /\ Head(todo'[t]) = Dealloc(c) =>
              Closing(c)' /\ ~Dying(c)' /\ Alone(Destroy(c))' /\ Alone(Dealloc(c))'
<1>1. Destroy(c) # Dealloc(c) BY Fields
<1>2. \A u \in Threads \ {t}, f \in {Destroy(c), Dealloc(c)} : ~Faces(todo', u, f)
  BY DEF Dying, Closing, Faces
<1>3. \A f : (\E u \in Threads : Faces(todo', u, f)) =>
        (f = Destroy(c) => Dying(c)') /\ (f = Dealloc(c) => Closing(c)')
  BY DEF Dying, Closing, Faces
<1>4. (Dying(c)' => \E u \in Threads : Faces(todo', u, Destroy(c)))
      /\ (Closing(c)' => \E u \in Threads : Faces(todo', u, Dealloc(c)))
  BY DEF Dying, Closing, Faces
<1>5. Alone(Destroy(c))' /\ Alone(Dealloc(c))' BY <1>2 DEF Alone, Faces
<1>6. Faces(todo', t, Destroy(c)) => ~Faces(todo', t, Dealloc(c)) BY <1>1 DEF Faces
<1>7. Faces(todo', t, Destroy(c)) => Dying(c)' /\ ~Closing(c)' BY <1>2, <1>3, <1>4, <1>6
<1>8. Faces(todo', t, Dealloc(c)) => Closing(c)' /\ ~Dying(c)' BY <1>2, <1>3, <1>4, <1>6
<1> QED BY <1>5, <1>7, <1>8 DEF Faces

LEMMA DecStrongKeeps ==
  ASSUME Inv, NEW t \in Threads, ~Idle(t), Head(todo[t]).op = "dec_strong",
         dec_strong(t, Head(todo[t]))
  PROVE  Inv'
<1> DEFINE f == Head(todo[t])
<1>0. PICK c \in Ctrls : f = DecStrong(c) BY Due DEF Idle
<1>1. /\ todo[t] # << >> /\ todo \in Stacks /\ Finite /\ WellShaped(todo[t])
      /\ f \in Releases /\ f.op = "dec_strong" /\ f.ctrl = c
  BY <1>0, Due, Fields DEF Idle
<1>2. /\ strong' = [strong EXCEPT ![c] = Dec(@)]
      /\ Continue(t, IF strong[c] = 1 THEN << Destroy(c), DecWeak(c) >> ELSE << >>)
      /\ fault' = (fault \/ phase[c] \in {"unused", "freed"})
      /\ held' = held /\ weak' = weak /\ phase' = phase
  BY <1>1 DEF dec_strong, Use
<1>3. ~fault /\ \A x \in Ctrls : Lives(x) /\ strong[x] \in Nat /\ weak[x] \in Nat
  BY DEF Inv, TypeOK
<1>4. Number(todo, DecStrong(c)) \in Nat /\ Number(todo, DecStrong(c)) > 0
  <2>1. IsFiniteSet(Places(todo, DecStrong(c))) BY <1>1, Sums DEF Finite
  <2> QED BY <1>0, <1>1, <2>1, FrontCounts
<1>5. strong[c] > 0 BY <1>1, <1>4, Sums
<1>6. phase[c] = "live" /\ ~Dying(c) /\ ~Closing(c) /\ ~fault'
  <2>1. phase[c] = "live" /\ ~Dying(c) /\ ~Closing(c) BY <1>1, <1>3, <1>5 DEF Lives
  <2> QED BY <2>1, <1>2, <1>3
<1> HIDE DEF f
<1>7. /\ strong'[c] = strong[c] - 1 /\ \A x \in Ctrls \ {c} : strong'[x] = strong[x]
      /\ strong' \in [Ctrls -> Nat]
  BY <1>1, <1>2, <1>3, <1>5 DEF Dec, Inv, TypeOK
<1> DEFINE come == IF strong[c] = 1 THEN {DecWeak(c)} ELSE {}
<1>8. /\ Turns(t, {DecStrong(c)}, come, JobsOf(t), JobsOf(t))
      /\ strong[c] = 1 => todo'[t] # << >> /\ Head(todo'[t]) = Destroy(c)
      /\ strong[c] # 1 => Calm(todo'[t])
  <2>1. CASE strong[c] = 1
    <3>1. Continue(t, << Destroy(c), DecWeak(c) >>) BY <1>2, <2>1
    <3> QED BY <3>1, <2>1, <1>0, <1>1, GoOnToDestroy DEF f
  <2>2. CASE strong[c] # 1
    <3>1. Continue(t, << >>) BY <1>2, <2>2
    <3> QED BY <3>1, <2>2, <1>0, <1>1, GoOn DEF f
  <2> QED BY <2>1, <2>2
<1>9. CallsOK' /\ \A H \in {Owners, Weak}, x \in Ctrls : Holders(H, x)' = Holders(H, x)
  BY <1>2, <1>8, HandlesKept
<1>10. \A x \in Ctrls :
        /\ IsFiniteSet(Places(todo', DecStrong(x))) /\ IsFiniteSet(Places(todo', DecWeak(x)))
        /\ Number(todo', DecStrong(x)) \in Nat /\ Number(todo', DecWeak(x)) \in Nat
        /\ Number(todo', DecStrong(x)) + In(DecStrong(x), {DecStrong(c)})
             = Number(todo, DecStrong(x)) + In(DecStrong(x), come)
        /\ Number(todo', DecWeak(x)) + In(DecWeak(x), {DecStrong(c)})
             = Number(todo, DecWeak(x)) + In(DecWeak(x), come)
  BY <1>8, NumbersTurn
<1>11. \A x \in Ctrls :
        /\ In(DecStrong(x), {DecStrong(c)}) = IF x = c THEN 1 ELSE 0
        /\ In(DecStrong(x), come) = 0 /\ In(DecWeak(x), {DecStrong(c)}) = 0
        /\ In(DecWeak(x), come) = IF x = c /\ strong[c] = 1 THEN 1 ELSE 0
  BY InCounters
<1>12. ASSUME NEW x \in Ctrls PROVE Counted(x)'
  <2>1. /\ strong[x] = Holders(Owners, x) + Number(todo, DecStrong(x))
        /\ weak[x] = Holders(Weak, x) + Number(todo, DecWeak(x)) + Common(strong[x])
        /\ Holders(Owners, x) \in Nat /\ Holders(Weak, x) \in Nat
        /\ Number(todo, DecStrong(x)) \in Nat /\ Number(todo, DecWeak(x)) \in Nat
        /\ strong[x] \in Nat
    BY Sums
  <2>2. /\ Holders(Owners, x)' = Holders(Owners, x) /\ Holders(Weak, x)' = Holders(Weak, x)
        /\ strong'[x] = IF x = c THEN strong[x] - 1 ELSE strong[x]
        /\ weak'[x] = weak[x]
    BY <1>2, <1>7, <1>9
  <2>3. /\ Number(todo', DecStrong(x)) \in Nat /\ Number(todo', DecWeak(x)) \in Nat
        /\ Number(todo', DecStrong(x)) + (IF x = c THEN 1 ELSE 0) = Number(todo, DecStrong(x))
        /\ Number(todo', DecWeak(x))
             = Number(todo, DecWeak(x)) + IF x = c /\ strong[c] = 1 THEN 1 ELSE 0
    <3>1. /\ In(DecStrong(x), {DecStrong(c)}) = IF x = c THEN 1 ELSE 0
          /\ In(DecStrong(x), come) = 0 /\ In(DecWeak(x), {DecStrong(c)}) = 0
          /\ In(DecWeak(x), come) = IF x = c /\ strong[c] = 1 THEN 1 ELSE 0
      BY <1>11
    <3>2. /\ Number(todo', DecStrong(x)) \in Nat /\ Number(todo', DecWeak(x)) \in Nat
          /\ Number(todo', DecStrong(x)) + In(DecStrong(x), {DecStrong(c)})
               = Number(todo, DecStrong(x)) + In(DecStrong(x), come)
          /\ Number(todo', DecWeak(x)) + In(DecWeak(x), {DecStrong(c)})
               = Number(todo, DecWeak(x)) + In(DecWeak(x), come)
      BY <1>10
    <3> QED BY <2>1, <3>1, <3>2
  <2>4. x = c => strong[x] > 0 BY <1>5
  <2>5. /\ strong'[x] = Holders(Owners, x)' + Number(todo', DecStrong(x))
        /\ weak'[x] = Holders(Weak, x)' + Number(todo', DecWeak(x)) + Common(strong'[x])
    BY <2>1, <2>2, <2>3, <2>4 DEF Common
  <2> QED BY <2>5, <1>10, CountedNext
<1>13. todo'[t] \in Seq(Known) /\ \A u \in Threads \ {t} : todo'[u] = todo[u]
  BY <1>8 DEF Turns, Stacks
<1>14. \A x \in Ctrls : Quiet(todo[t], x) BY <1>0, Fields DEF Quiet, f
<1>15. ASSUME NEW x \in Ctrls PROVE Lives(x)'
  <2>1. CASE x # c
    <3>1. Quiet(todo'[t], x)
      <4>1. CASE strong[c] = 1 BY <4>1, <2>1, <1>8, Fields DEF Quiet
      <4>2. CASE strong[c] # 1 BY <4>2, <1>8, <1>13, CalmQuiet
      <4> QED BY <4>1, <4>2
    <3>2. /\ phase'[x] = phase[x] /\ strong[x] \in Nat /\ strong'[x] \in Nat
          /\ weak[x] \in Nat /\ weak'[x] \in Nat
          /\ (strong'[x] > 0 <=> strong[x] > 0)
          /\ (weak'[x] > 0 <=> weak[x] > 0)
          /\ Lives(x)
      BY <2>1, <1>2, <1>3, <1>7
    <3> QED BY <3>1, <3>2, <1>13, <1>14, LivesKept
  <2>2. CASE x = c /\ strong[c] # 1
    <3>1. Quiet(todo'[t], x) BY <2>2, <1>8, <1>13, CalmQuiet
    <3>2. /\ phase'[x] = phase[x] /\ strong[x] \in Nat /\ strong'[x] \in Nat
          /\ weak[x] \in Nat /\ weak'[x] \in Nat
          /\ (strong'[x] > 0 <=> strong[x] > 0)
          /\ (weak'[x] > 0 <=> weak[x] > 0)
          /\ Lives(x)
      BY <2>2, <1>2, <1>3, <1>5, <1>7
    <3> QED BY <3>1, <3>2, <1>13, <1>14, LivesKept
  <2>3. CASE x = c /\ strong[c] = 1
    <3>1. strong'[c] = 0 /\ phase'[c] = "live" BY <2>3, <1>2, <1>6, <1>7
    <3>2. Dying(c)' /\ ~Closing(c)' /\ Alone(Destroy(c))' /\ Alone(Dealloc(c))'
      BY <2>3, <1>1, <1>6, <1>8, <1>13, LastSteps
    <3> QED BY <2>3, <3>1, <3>2 DEF Lives
  <2> QED BY <2>1, <2>2, <2>3
<1>16. /\ held' \in [Handles -> Ctrls \cup {Null}] /\ weak' \in [Ctrls -> Nat]
       /\ phase' \in [Ctrls -> {"unused", "live", "destroyed", "freed"}]
  BY <1>2 DEF Inv, TypeOK
<1> QED BY <1>6, <1>7, <1>8, <1>9, <1>12, <1>15, <1>16, Together

\* A call has one job at most; what it reads is settled, and a member that it
\* uses belongs to an object that somebody owns.
LEMMA OneJob ==
  ASSUME Inv, NEW t \in Threads, NEW f \in JobsOf(t), NEW g \in JobsOf(t)
  PROVE  f = g
<1>1. WellShaped(todo[t]) /\ todo[t] \in Seq(Known) BY Sums DEF Inv, CallsOK, Stacks
<1>2. PICK i \in 1 .. Len(todo[t]) : todo[t][i] = f BY <1>1 DEF JobsOf, Steps
<1>3. PICK j \in 1 .. Len(todo[t]) : todo[t][j] = g BY <1>1 DEF JobsOf, Steps
<1>4. f.op \in JobOps /\ g.op \in JobOps BY DEF JobsOf
<1> QED BY <1>1, <1>2, <1>3, <1>4 DEF WellShaped

LEMMA ReadsSettled ==
  ASSUME Inv, NEW t \in Threads, NEW f \in JobsOf(t)
  PROVE  \A p \in f.path \cup {f.src} : Settled(p)
<1> SUFFICES ASSUME NEW p \in f.path \cup {f.src} PROVE Settled(p) OBVIOUS
<1>1. Guarded(f) BY DEF Inv, CallsOK
<1>2. p \in Footprint(f) /\ p # f.dst BY <1>1 DEF Footprint, Guarded
<1>3. ASSUME NEW u \in Threads, NEW g \in JobsOf(u) PROVE p # g.dst
  <2>1. CASE u = t BY <2>1, <1>2, OneJob
  <2>2. CASE u # t BY <2>2, <1>2 DEF Inv, CallsOK, Writes
  <2> QED BY <2>1, <2>2
<1> QED BY <1>3, Sums, Uses DEF AsUsed

LEMMA MemberAlive ==
  ASSUME Inv, NEW t \in Threads, NEW f \in JobsOf(t), NEW c \in Ctrls, c \in Footprint(f)
  PROVE  strong[c] > 0 /\ weak[c] > 0 /\ phase[c] = "live"
<1>1. f \in Jobs /\ f.path \subseteq Shared /\ Guarded(f)
  BY Sums, JobsTyped, JobFields DEF Inv, CallsOK
<1>2. c \in {f.dst, f.src} BY <1>1, Kinds DEF Footprint
<1>3. PICK p \in f.path : held[p] = c BY <1>1, <1>2 DEF Guarded
<1>4. Settled(p) BY ReadsSettled
<1> QED BY <1>1, <1>3, <1>4, Kinds, Owned

LEMMA NobodyUses ==
  ASSUME Inv, NEW c \in Ctrls, strong[c] = 0
  PROVE  /\ \A u \in Threads : \A g \in JobsOf(u) : c \notin Footprint(g)
         /\ Settled(c)
<1>1. \A u \in Threads : \A g \in JobsOf(u) : c \notin Footprint(g)
  BY MemberAlive
<1>2. \A g : g.dst \in Footprint(g) BY DEF Footprint
<1> QED BY <1>1, <1>2, Sums, Uses DEF AsUsed

\* Once the step is taken the block's last step is behind it.
LEMMA LastStepTaken ==
  ASSUME NEW c \in Ctrls, Lives(c), NEW t \in Threads,
         \A u \in Threads \ {t} : todo'[u] = todo[u], Quiet(todo'[t], c),
         Faces(todo, t, Destroy(c)) \/ Faces(todo, t, Dealloc(c))
  PROVE  ~Dying(c)' /\ ~Closing(c)' /\ Alone(Destroy(c))' /\ Alone(Dealloc(c))'
<1>1. Destroy(c) # Dealloc(c) BY Fields
<1>2. /\ Dying(c) <=> \E u \in Threads : Faces(todo, u, Destroy(c))
      /\ Closing(c) <=> \E u \in Threads : Faces(todo, u, Dealloc(c))
      /\ Dying(c)' <=> \E u \in Threads : Faces(todo', u, Destroy(c))
      /\ Closing(c)' <=> \E u \in Threads : Faces(todo', u, Dealloc(c))
  BY DEF Dying, Closing, Faces
<1>3. \A f \in {Destroy(c), Dealloc(c)} : Alone(f) /\ ~Faces(todo', t, f)
  BY DEF Lives, Quiet, Faces
<1>4. \A f \in {Destroy(c), Dealloc(c)}, u, v \in Threads : Faces(todo, u, f) /\ Faces(todo, v, f) => u = v
  BY <1>3 DEF Alone, Faces
<1>5. ~(Dying(c) /\ Closing(c)) BY DEF Lives
<1>6. \A u \in Threads, f \in {Destroy(c), Dealloc(c)} : ~Faces(todo', u, f)
  <2> SUFFICES ASSUME NEW u \in Threads, NEW f \in {Destroy(c), Dealloc(c)}, Faces(todo', u, f)
               PROVE  FALSE
    OBVIOUS
  <2>1. u # t BY <1>3
  <2>2. Faces(todo, u, f) BY <2>1 DEF Faces
  <2>3. CASE Faces(todo, t, f) BY <2>1, <2>2, <2>3, <1>4
  <2>4. CASE ~Faces(todo, t, f) BY <2>2, <2>4, <1>2, <1>5
  <2> QED BY <2>3, <2>4
<1> QED BY <1>2, <1>6 DEF Alone, Faces

LEMMA DestroyObjectKeeps ==
  ASSUME Inv, NEW t \in Threads, ~Idle(t), Head(todo[t]).op = "destroy_object",
         destroy_object(t, Head(todo[t]))
  PROVE  Inv'
<1> DEFINE f == Head(todo[t])
<1>0. PICK c \in Ctrls : f = Destroy(c) BY Due DEF Idle
<1>1. /\ todo[t] # << >> /\ todo \in Stacks /\ Finite /\ WellShaped(todo[t])
      /\ f \in Releases /\ f.op = "destroy_object" /\ f.ctrl = c
  BY <1>0, Due, Fields DEF Idle
<1>2. /\ phase' = [phase EXCEPT ![c] = "destroyed"]
      /\ held' = [held EXCEPT ![c] = Null]
      /\ Continue(t, StrongCleanup(held[c]))
      /\ fault' = (fault \/ phase[c] # "live")
      /\ strong' = strong /\ weak' = weak
  BY <1>1 DEF destroy_object
<1>3. ~fault /\ \A x \in Ctrls : Lives(x) /\ strong[x] \in Nat /\ weak[x] \in Nat
  BY DEF Inv, TypeOK
<1>4. Faces(todo, t, Destroy(c)) /\ Dying(c) BY <1>0, <1>1 DEF Faces, Dying
<1>5. phase[c] = "live" /\ strong[c] = 0 BY <1>3, <1>4 DEF Lives
<1>6. ~fault' BY <1>2, <1>3, <1>5
<1>7. /\ held' \in [Handles -> Ctrls \cup {Null}] /\ held'[c] = Null /\ Null \notin Ctrls
      /\ \A h \in Handles \ {c} : held'[h] = held[h]
      /\ phase' \in [Ctrls -> {"unused", "live", "destroyed", "freed"}]
      /\ phase'[c] = "destroyed" /\ \A x \in Ctrls \ {c} : phase'[x] = phase[x]
      /\ c \in Owners /\ c \in Handles
  BY <1>2, HandlesAssumption, Kinds DEF Inv, TypeOK
<1>8. /\ Settled(c) /\ Outside(t, {c}) /\ \A u \in Threads : \A g \in JobsOf(u) : c \notin Footprint(g)
  BY <1>5, NobodyUses DEF Outside
<1> HIDE DEF f
<1>9. Turns(t, {Destroy(c)}, Cleanup(c), JobsOf(t), JobsOf(t)) /\ Calm(todo'[t])
  <2>1. CASE held[c] = Null
    <3>1. Continue(t, << >>) /\ Cleanup(c) = {} BY <2>1, <1>2 DEF StrongCleanup, Cleanup
    <3> QED BY <3>1, <1>0, <1>1, GoOn DEF f
  <2>2. CASE held[c] # Null
    <3>1. held[c] \in Ctrls /\ c \notin Weak BY <2>2, <1>7, Kinds DEF Inv, TypeOK
    <3>2. Continue(t, << DecStrong(held[c]) >>) /\ Cleanup(c) = {DecStrong(held[c])}
      BY <2>2, <3>1, <1>2 DEF StrongCleanup, Cleanup
    <3>3. /\ DecStrong(held[c]) \in Releases /\ DecStrong(held[c]).op # "destroy_object"
          /\ DecStrong(held[c]) \in Counters
      BY <3>1, Fields DEF Counters
    <3> QED BY <3>2, <3>3, <1>0, <1>1, GoOnWith DEF f
  <2> QED BY <2>1, <2>2
<1>10. {Destroy(c)} \cap Counters = {} BY Fields DEF Counters
<1>11. \A h \in Handles \ {c} : Unchanged(h)
  <2>1. \A h : Settled(h)' <=> Settled(h) BY <1>1, <1>9, SettledIs
  <2> QED BY <2>1, <1>7 DEF Unchanged
<1>12. CallsOK'
  <2>1. \A g \in JobsOf(t) : Guarded(g)' /\ Apart(t, g)
    <3> SUFFICES ASSUME NEW g \in JobsOf(t) PROVE Guarded(g)' /\ Apart(t, g) OBVIOUS
    <3>1. g \in Jobs /\ Guarded(g) /\ CallsOK BY <1>1, JobsTyped DEF Inv, CallsOK
    <3>2. Changes({c}) /\ {c} \cap Footprint(g) = {} BY <1>7, <1>8 DEF Changes
    <3> QED BY <3>1, <3>2, GuardKept, StillApart
  <2>2. Changes({c}) /\ CallsOK BY <1>7 DEF Changes, Inv
  <2> QED BY <2>1, <2>2, <1>1, <1>8, <1>9, CallsKept
<1>13. \A x \in Ctrls : Counted(x)'
  BY <1>2, <1>7, <1>8, <1>9, <1>10, <1>11, LetGo
<1>14. todo'[t] \in Seq(Known) /\ \A u \in Threads \ {t} : todo'[u] = todo[u]
  BY <1>9 DEF Turns, Stacks
<1>15. weak[c] > 0
  <2>1. Tail(todo[t]) # << >> /\ Head(Tail(todo[t])) = DecWeak(c) /\ todo[t] \in Seq(Known)
    BY <1>0, <1>1, TakeOff DEF f, Stacks
  <2>2. IsFiniteSet(Places(todo, DecWeak(c))) BY <1>1, Sums DEF Finite
  <2>3. Number(todo, DecWeak(c)) > 0 BY <2>1, <2>2, <1>1, SecondCounts
  <2> QED BY <2>3, Sums DEF Common
<1>16. ASSUME NEW x \in Ctrls PROVE Lives(x)'
  <2>0. Quiet(todo'[t], x) BY <1>9, <1>14, CalmQuiet
  <2>1. CASE x # c
    <3>1. Quiet(todo[t], x) BY <2>1, <1>0, <1>1, OthersQuiet DEF f
    <3>2. /\ phase'[x] = phase[x] /\ strong[x] \in Nat /\ strong'[x] \in Nat
          /\ weak[x] \in Nat /\ weak'[x] \in Nat
          /\ (strong'[x] > 0 <=> strong[x] > 0)
          /\ (weak'[x] > 0 <=> weak[x] > 0)
          /\ Lives(x)
      BY <2>1, <1>2, <1>3, <1>7
    <3> QED BY <2>0, <3>1, <3>2, <1>14, LivesKept
  <2>2. CASE x = c
    <3>1. Quiet(todo'[t], c) BY <2>0, <2>2
    <3>2. ~Dying(c)' /\ ~Closing(c)' /\ Alone(Destroy(c))' /\ Alone(Dealloc(c))'
      BY <3>1, <1>3, <1>4, <1>14, LastStepTaken
    <3>3. strong'[c] = 0 /\ weak'[c] > 0 /\ phase'[c] = "destroyed" BY <1>2, <1>5, <1>7, <1>15
    <3> QED BY <2>2, <3>2, <3>3 DEF Lives
  <2> QED BY <2>1, <2>2
<1>17. strong' \in [Ctrls -> Nat] /\ weak' \in [Ctrls -> Nat] BY <1>2 DEF Inv, TypeOK
<1> QED BY <1>6, <1>7, <1>9, <1>12, <1>13, <1>16, <1>17, Together

\* While an object is being destroyed its common weak reference is still to
\* be released, besides any other release that is due.
LEMMA DyingKeepsWeak ==
  ASSUME Inv, NEW t \in Threads, NEW c \in Ctrls, todo[t] # << >>, Head(todo[t]) = DecWeak(c),
         Dying(c)
  PROVE  Number(todo, DecWeak(c)) > 1
<1>1. todo \in Stacks /\ Finite /\ \A v \in Threads : WellShaped(todo[v])
  BY Sums DEF Inv, CallsOK
<1>2. PICK u \in Threads : todo[u] # << >> /\ Head(todo[u]) = Destroy(c) BY DEF Dying
<1>3. u # t BY <1>2, Fields
<1>4. /\ todo[u] \in Seq(Known) /\ Tail(todo[u]) # << >> /\ Head(Tail(todo[u])) = DecWeak(c)
  BY <1>1, <1>2, TakeOff, Fields DEF Stacks
<1>5. DecWeak(c) \in Counters BY DEF Counters
<1>6. /\ Rest(t) \in Stacks /\ Rest(t)[u] = todo[u]
      /\ IsFiniteSet(Places(Rest(t), DecWeak(c)))
      /\ Number(Rest(t), DecWeak(c)) \in Nat
      /\ Number(Rest(t), DecWeak(c)) + Is(Head(todo[t]), DecWeak(c)) = Number(todo, DecWeak(c))
  BY <1>1, <1>3, <1>5, RestIs
<1>7. Number(Rest(t), DecWeak(c)) > 0 BY <1>2, <1>4, <1>6, SecondCounts
<1>8. Is(Head(todo[t]), DecWeak(c)) = 1 BY DEF Is
<1> QED BY <1>6, <1>7, <1>8

LEMMA DecWeakKeeps ==
  ASSUME Inv, NEW t \in Threads, ~Idle(t), Head(todo[t]).op = "dec_weak",
         dec_weak(t, Head(todo[t]))
  PROVE  Inv'
<1> DEFINE f == Head(todo[t])
<1>0. PICK c \in Ctrls : f = DecWeak(c) BY Due DEF Idle
<1>1. /\ todo[t] # << >> /\ todo \in Stacks /\ Finite /\ WellShaped(todo[t])
      /\ f \in Releases /\ f.op = "dec_weak" /\ f.ctrl = c
  BY <1>0, Due, Fields DEF Idle
<1>2. /\ weak' = [weak EXCEPT ![c] = Dec(@)]
      /\ Continue(t, IF weak[c] = 1 THEN << Dealloc(c) >> ELSE << >>)
      /\ fault' = (fault \/ phase[c] \in {"unused", "freed"})
      /\ held' = held /\ strong' = strong /\ phase' = phase
  BY <1>1 DEF dec_weak, Use
<1>3. ~fault /\ \A x \in Ctrls : Lives(x) /\ strong[x] \in Nat /\ weak[x] \in Nat
  BY DEF Inv, TypeOK
<1>4. Number(todo, DecWeak(c)) \in Nat /\ Number(todo, DecWeak(c)) > 0
  <2>1. IsFiniteSet(Places(todo, DecWeak(c))) BY <1>1, Sums DEF Finite
  <2> QED BY <1>0, <1>1, <2>1, FrontCounts
<1>5. /\ weak[c] > 0 /\ weak[c] = Holders(Weak, c) + Number(todo, DecWeak(c)) + Common(strong[c])
      /\ Holders(Weak, c) \in Nat /\ Common(strong[c]) \in Nat
  BY <1>4, Sums DEF Common
<1>6. phase[c] \in {"live", "destroyed"} /\ ~Closing(c) /\ ~fault'
  <2>1. phase[c] \in {"live", "destroyed"} /\ ~Closing(c) BY <1>3, <1>5 DEF Lives
  <2> QED BY <2>1, <1>2, <1>3
<1>7. ASSUME weak[c] = 1
      PROVE  strong[c] = 0 /\ ~Dying(c) /\ phase[c] = "destroyed"
  <2>1. Common(strong[c]) = 0 /\ ~(Number(todo, DecWeak(c)) > 1) BY <1>4, <1>5, <1>7
  <2>2. strong[c] = 0 BY <2>1, <1>3 DEF Common
  <2>3. ~Dying(c) BY <2>1, <1>0, <1>1, DyingKeepsWeak
  <2> QED BY <2>2, <2>3, <1>3, <1>5 DEF Lives
<1> HIDE DEF f
<1>8. /\ weak'[c] = weak[c] - 1 /\ \A x \in Ctrls \ {c} : weak'[x] = weak[x]
      /\ weak' \in [Ctrls -> Nat]
  BY <1>1, <1>2, <1>3, <1>5 DEF Dec, Inv, TypeOK
<1> DEFINE come == IF weak[c] = 1 THEN {Dealloc(c)} ELSE {}
<1>9. /\ Turns(t, {DecWeak(c)}, come, JobsOf(t), JobsOf(t))
      /\ weak[c] = 1 => todo'[t] # << >> /\ Head(todo'[t]) = Dealloc(c)
      /\ weak[c] # 1 => Calm(todo'[t])
  <2>1. CASE weak[c] = 1
    <3>1. Continue(t, << Dealloc(c) >>) BY <1>2, <2>1
    <3>2. Dealloc(c) \in Releases /\ Dealloc(c).op # "destroy_object" BY Fields
    <3> QED BY <3>1, <3>2, <2>1, <1>0, <1>1, GoOnWith DEF f
  <2>2. CASE weak[c] # 1
    <3>1. Continue(t, << >>) BY <1>2, <2>2
    <3> QED BY <3>1, <2>2, <1>0, <1>1, GoOn DEF f
  <2> QED BY <2>1, <2>2
<1>10. CallsOK' /\ \A H \in {Owners, Weak}, x \in Ctrls : Holders(H, x)' = Holders(H, x)
  BY <1>2, <1>9, HandlesKept
<1>11. \A x \in Ctrls :
        /\ IsFiniteSet(Places(todo', DecStrong(x))) /\ IsFiniteSet(Places(todo', DecWeak(x)))
        /\ Number(todo', DecStrong(x)) \in Nat /\ Number(todo', DecWeak(x)) \in Nat
        /\ Number(todo', DecStrong(x)) + In(DecStrong(x), {DecWeak(c)})
             = Number(todo, DecStrong(x)) + In(DecStrong(x), come)
        /\ Number(todo', DecWeak(x)) + In(DecWeak(x), {DecWeak(c)})
             = Number(todo, DecWeak(x)) + In(DecWeak(x), come)
  BY <1>9, NumbersTurn
<1>12. \A x \in Ctrls :
        /\ In(DecStrong(x), {DecWeak(c)}) = 0
        /\ In(DecWeak(x), {DecWeak(c)}) = IF x = c THEN 1 ELSE 0
        /\ In(DecStrong(x), come) = 0 /\ In(DecWeak(x), come) = 0
  BY InCounters
<1>13. ASSUME NEW x \in Ctrls PROVE Counted(x)'
  <2>1. /\ strong[x] = Holders(Owners, x) + Number(todo, DecStrong(x))
        /\ weak[x] = Holders(Weak, x) + Number(todo, DecWeak(x)) + Common(strong[x])
        /\ Holders(Owners, x) \in Nat /\ Holders(Weak, x) \in Nat
        /\ Number(todo, DecStrong(x)) \in Nat /\ Number(todo, DecWeak(x)) \in Nat
        /\ Common(strong[x]) \in Nat
    BY Sums DEF Common
  <2>2. /\ Holders(Owners, x)' = Holders(Owners, x) /\ Holders(Weak, x)' = Holders(Weak, x)
        /\ weak'[x] = IF x = c THEN weak[x] - 1 ELSE weak[x]
        /\ strong'[x] = strong[x]
    BY <1>2, <1>8, <1>10
  <2>3. /\ Number(todo', DecStrong(x)) \in Nat /\ Number(todo', DecWeak(x)) \in Nat
        /\ Number(todo', DecStrong(x)) = Number(todo, DecStrong(x))
        /\ Number(todo', DecWeak(x)) + (IF x = c THEN 1 ELSE 0) = Number(todo, DecWeak(x))
    <3>1. /\ Number(todo', DecStrong(x)) \in Nat /\ Number(todo', DecWeak(x)) \in Nat
          /\ Number(todo', DecStrong(x)) + In(DecStrong(x), {DecWeak(c)})
               = Number(todo, DecStrong(x)) + In(DecStrong(x), come)
          /\ Number(todo', DecWeak(x)) + In(DecWeak(x), {DecWeak(c)})
               = Number(todo, DecWeak(x)) + In(DecWeak(x), come)
      BY <1>11
    <3>2. /\ In(DecStrong(x), {DecWeak(c)}) = 0
          /\ In(DecWeak(x), {DecWeak(c)}) = IF x = c THEN 1 ELSE 0
          /\ In(DecStrong(x), come) = 0 /\ In(DecWeak(x), come) = 0
      BY <1>12
    <3> HIDE DEF come
    <3> QED BY <2>1, <3>1, <3>2
  <2>4. /\ strong'[x] = Holders(Owners, x)' + Number(todo', DecStrong(x))
        /\ weak'[x] = Holders(Weak, x)' + Number(todo', DecWeak(x)) + Common(strong'[x])
    BY <2>1, <2>2, <2>3
  <2> QED BY <2>4, <1>11, CountedNext
<1>14. todo'[t] \in Seq(Known) /\ \A u \in Threads \ {t} : todo'[u] = todo[u]
  BY <1>9 DEF Turns, Stacks
<1>15. \A x \in Ctrls : Quiet(todo[t], x) BY <1>0, Fields DEF Quiet, f
<1>16. ASSUME NEW x \in Ctrls PROVE Lives(x)'
  <2>1. CASE x # c
    <3>1. Quiet(todo'[t], x)
      <4>1. CASE weak[c] = 1 BY <4>1, <2>1, <1>9, Fields DEF Quiet
      <4>2. CASE weak[c] # 1 BY <4>2, <1>9, <1>14, CalmQuiet
      <4> QED BY <4>1, <4>2
    <3>2. /\ phase'[x] = phase[x] /\ strong[x] \in Nat /\ strong'[x] \in Nat
          /\ weak[x] \in Nat /\ weak'[x] \in Nat
          /\ (strong'[x] > 0 <=> strong[x] > 0)
          /\ (weak'[x] > 0 <=> weak[x] > 0)
          /\ Lives(x)
      BY <2>1, <1>2, <1>3, <1>8
    <3> QED BY <3>1, <3>2, <1>14, <1>15, LivesKept
  <2>2. CASE x = c /\ weak[c] # 1
    <3>1. Quiet(todo'[t], x) BY <2>2, <1>9, <1>14, CalmQuiet
    <3>2. /\ phase'[x] = phase[x] /\ strong[x] \in Nat /\ strong'[x] \in Nat
          /\ weak[x] \in Nat /\ weak'[x] \in Nat
          /\ (strong'[x] > 0 <=> strong[x] > 0)
          /\ (weak'[x] > 0 <=> weak[x] > 0)
          /\ Lives(x)
      BY <2>2, <1>2, <1>3, <1>5, <1>8
    <3> QED BY <3>1, <3>2, <1>14, <1>15, LivesKept
  <2>3. CASE x = c /\ weak[c] = 1
    <3>1. strong'[c] = 0 /\ weak'[c] = 0 /\ phase'[c] = "destroyed"
      BY <2>3, <1>2, <1>7, <1>8
    <3>2. Closing(c)' /\ ~Dying(c)' /\ Alone(Destroy(c))' /\ Alone(Dealloc(c))'
      BY <2>3, <1>6, <1>7, <1>9, <1>14, LastSteps
    <3> QED BY <2>3, <3>1, <3>2 DEF Lives
  <2> QED BY <2>1, <2>2, <2>3
<1>17. /\ held' \in [Handles -> Ctrls \cup {Null}] /\ strong' \in [Ctrls -> Nat]
       /\ phase' \in [Ctrls -> {"unused", "live", "destroyed", "freed"}]
  BY <1>2 DEF Inv, TypeOK
<1> QED BY <1>6, <1>8, <1>9, <1>10, <1>13, <1>16, <1>17, Together

LEMMA DestroyControlBlockKeeps ==
  ASSUME Inv, NEW t \in Threads, ~Idle(t), Head(todo[t]).op = "destroy_control_block",
         destroy_control_block(t, Head(todo[t]))
  PROVE  Inv'
<1> DEFINE f == Head(todo[t])
<1>0. PICK c \in Ctrls : f = Dealloc(c) BY Due DEF Idle
<1>1. /\ todo[t] # << >> /\ todo \in Stacks /\ Finite /\ WellShaped(todo[t])
      /\ f \in Releases /\ f.op = "destroy_control_block" /\ f.ctrl = c
  BY <1>0, Due, Fields DEF Idle
<1>2. /\ phase' = [phase EXCEPT ![c] = "freed"]
      /\ Continue(t, << >>)
      /\ fault' = (fault \/ phase[c] \in {"unused", "freed"})
      /\ held' = held /\ strong' = strong /\ weak' = weak
  BY <1>1 DEF destroy_control_block, Use
<1>3. ~fault /\ \A x \in Ctrls : Lives(x) /\ strong[x] \in Nat /\ weak[x] \in Nat
  BY DEF Inv, TypeOK
<1>4. Faces(todo, t, Dealloc(c)) /\ Closing(c) BY <1>0, <1>1 DEF Faces, Closing
<1>5. strong[c] = 0 /\ weak[c] = 0 /\ phase[c] = "destroyed" BY <1>3, <1>4 DEF Lives
<1>6. ~fault' BY <1>2, <1>3, <1>5
<1>7. /\ phase' \in [Ctrls -> {"unused", "live", "destroyed", "freed"}]
      /\ phase'[c] = "freed" /\ \A x \in Ctrls \ {c} : phase'[x] = phase[x]
  BY <1>2 DEF Inv, TypeOK
<1> HIDE DEF f
<1>8. Turns(t, {Dealloc(c)}, {}, JobsOf(t), JobsOf(t)) /\ Calm(todo'[t])
  BY <1>0, <1>1, <1>2, GoOn DEF f
<1>9. CallsOK' /\ \A H \in {Owners, Weak}, x \in Ctrls : Holders(H, x)' = Holders(H, x)
  BY <1>2, <1>8, HandlesKept
<1>10. ASSUME NEW x \in Ctrls PROVE Counted(x)'
  <2>1. /\ strong[x] = Holders(Owners, x) + Number(todo, DecStrong(x))
        /\ weak[x] = Holders(Weak, x) + Number(todo, DecWeak(x)) + Common(strong[x])
        /\ Number(todo, DecStrong(x)) \in Nat /\ Number(todo, DecWeak(x)) \in Nat
    BY Sums
  <2>2. /\ Holders(Owners, x)' = Holders(Owners, x) /\ Holders(Weak, x)' = Holders(Weak, x)
        /\ strong'[x] = strong[x] /\ weak'[x] = weak[x]
    BY <1>2, <1>9
  <2>3. /\ IsFiniteSet(Places(todo', DecStrong(x))) /\ IsFiniteSet(Places(todo', DecWeak(x)))
        /\ Number(todo', DecStrong(x)) = Number(todo, DecStrong(x))
        /\ Number(todo', DecWeak(x)) = Number(todo, DecWeak(x))
    BY <2>1, <1>8, NumbersTurn, InCounters
  <2>4. /\ strong'[x] = Holders(Owners, x)' + Number(todo', DecStrong(x))
        /\ weak'[x] = Holders(Weak, x)' + Number(todo', DecWeak(x)) + Common(strong'[x])
    BY <2>1, <2>2, <2>3
  <2> QED BY <2>3, <2>4, CountedNext
<1>11. todo'[t] \in Seq(Known) /\ \A u \in Threads \ {t} : todo'[u] = todo[u]
  BY <1>8 DEF Turns, Stacks
<1>12. ASSUME NEW x \in Ctrls PROVE Lives(x)'
  <2>0. Quiet(todo'[t], x) BY <1>8, <1>11, CalmQuiet
  <2>1. CASE x # c
    <3>1. Quiet(todo[t], x) BY <2>1, <1>0, <1>1, OthersQuiet DEF f
    <3>2. /\ phase'[x] = phase[x] /\ strong[x] \in Nat /\ strong'[x] \in Nat
          /\ weak[x] \in Nat /\ weak'[x] \in Nat
          /\ (strong'[x] > 0 <=> strong[x] > 0)
          /\ (weak'[x] > 0 <=> weak[x] > 0)
          /\ Lives(x)
      BY <2>1, <1>2, <1>3, <1>7
    <3> QED BY <2>0, <3>1, <3>2, <1>11, LivesKept
  <2>2. CASE x = c
    <3>1. Quiet(todo'[t], c) BY <2>0, <2>2
    <3>2. ~Dying(c)' /\ ~Closing(c)' /\ Alone(Destroy(c))' /\ Alone(Dealloc(c))'
      BY <3>1, <1>3, <1>4, <1>11, LastStepTaken
    <3>3. strong'[c] = 0 /\ weak'[c] = 0 /\ phase'[c] = "freed" BY <1>2, <1>5, <1>7
    <3> QED BY <2>2, <3>2, <3>3 DEF Lives
  <2> QED BY <2>1, <2>2
<1>13. /\ held' \in [Handles -> Ctrls \cup {Null}]
       /\ strong' \in [Ctrls -> Nat] /\ weak' \in [Ctrls -> Nat]
  BY <1>2 DEF Inv, TypeOK
<1> QED BY <1>6, <1>7, <1>8, <1>9, <1>10, <1>12, <1>13, Together
-----------------------------------------------------------------------------
(* The steps of a job *)

LEMMA JobDue ==
  ASSUME Inv, NEW t \in Threads, NEW f \in Jobs, Faces(todo, t, f)
  PROVE  /\ todo \in Stacks /\ Finite /\ todo[t] # << >> /\ WellShaped(todo[t])
         /\ JobsOf(t) = {f} /\ Guarded(f) /\ Apart(t, f) /\ Outside(t, Writes(f))
         /\ f.dst \in Handles /\ f.src \in Handles /\ f.path \subseteq Shared /\ f.dst # f.src
         /\ Settled(f.src) /\ \A p \in f.path : Settled(p)
         /\ \A h : Settled(h) <=> Clear(t, h) /\ h # f.dst
         /\ Clear(t, f.dst)
         /\ \A x : Quiet(todo[t], x)
         /\ held[f.src] \in Ctrls \cup {Null} /\ held[f.dst] \in Ctrls \cup {Null}
<1>1. /\ todo \in Stacks /\ Finite /\ todo[t] # << >> /\ WellShaped(todo[t]) /\ Head(todo[t]) = f
      /\ CallsOK /\ held \in [Handles -> Ctrls \cup {Null}]
  BY Sums DEF Faces, Inv, CallsOK, TypeOK
<1>2. JobsOf(t) = {f} BY <1>1, RestIs
<1>3. Guarded(f) /\ Apart(t, f) /\ Outside(t, Writes(f)) /\ f.dst \in Writes(f)
  BY <1>1, <1>2, StillApart DEF CallsOK, Writes
<1>4. f.dst \in Handles /\ f.src \in Handles /\ f.path \subseteq Shared /\ f.dst # f.src
  BY <1>3, JobFields DEF Guarded
<1>5. Settled(f.src) /\ \A p \in f.path : Settled(p) BY <1>2, ReadsSettled
<1>6. \A h : Settled(h) <=> Clear(t, h) /\ h # f.dst
  <2>1. \A h : Settled(h) <=> \A u \in Threads : \A g \in JobsOf(u) : h # g.dst
    BY <1>1, Uses DEF AsUsed
  <2> QED BY <2>1, <1>2 DEF Clear
<1>7. Clear(t, f.dst) BY <1>1, <1>2, <1>3, StillApart
<1>8. f.op \notin {"destroy_object", "destroy_control_block"} BY JobFields DEF JobOps
<1>9. \A x : Quiet(todo[t], x) BY <1>1, <1>8, Fields DEF Quiet
<1> QED BY <1>1, <1>2, <1>3, <1>4, <1>5, <1>6, <1>7, <1>9

SameNumbers == \A x \in Ctrls :
  /\ IsFiniteSet(Places(todo', DecStrong(x))) /\ IsFiniteSet(Places(todo', DecWeak(x)))
  /\ Number(todo', DecStrong(x)) = Number(todo, DecStrong(x))
  /\ Number(todo', DecWeak(x)) = Number(todo, DecWeak(x))

LEMMA NumbersSame ==
  ASSUME Inv, NEW t \in Threads, NEW old, NEW new, Turns(t, {}, {}, old, new)
  PROVE  SameNumbers
<1>1. \A x \in Ctrls :
        /\ IsFiniteSet(Places(todo', DecStrong(x))) /\ IsFiniteSet(Places(todo', DecWeak(x)))
        /\ Number(todo', DecStrong(x)) \in Nat /\ Number(todo', DecWeak(x)) \in Nat
        /\ Number(todo', DecStrong(x)) + In(DecStrong(x), {})
             = Number(todo, DecStrong(x)) + In(DecStrong(x), {})
        /\ Number(todo', DecWeak(x)) + In(DecWeak(x), {})
             = Number(todo, DecWeak(x)) + In(DecWeak(x), {})
  BY NumbersTurn
<1>2. \A x \in Ctrls : Number(todo, DecStrong(x)) \in Nat /\ Number(todo, DecWeak(x)) \in Nat
  BY Sums
<1>3. \A g : In(g, {}) = 0 BY DEF In
<1> QED BY <1>1, <1>2, <1>3 DEF SameNumbers

\* The last step of a job settles its handle.
LEMMA JobEnds ==
  ASSUME Inv, NEW t \in Threads, NEW f \in Jobs, Faces(todo, t, f),
         Continue(t, << >>), Changes(Writes(f))
  PROVE  /\ Turns(t, {}, {}, {f}, {}) /\ Calm(todo'[t]) /\ CallsOK' /\ SameNumbers
         /\ Settled(f.dst)' /\ ~Settled(f.dst)
         /\ \A h : h # f.dst => (Settled(h)' <=> Settled(h))
<1>1. /\ todo \in Stacks /\ Finite /\ todo[t] # << >> /\ WellShaped(todo[t]) /\ Head(todo[t]) = f
      /\ Outside(t, Writes(f)) /\ CallsOK /\ Clear(t, f.dst)
      /\ \A h : Settled(h) <=> Clear(t, h) /\ h # f.dst
  BY JobDue DEF Inv, Faces
<1>2. Turns(t, {}, {}, {f}, {}) /\ Calm(todo'[t]) BY <1>1, GoOn
<1>3. CallsOK' BY <1>1, <1>2, CallsKept
<1>4. \A h : Settled(h)' <=> Clear(t, h) BY <1>1, <1>2, SettledIs
<1> QED BY <1>1, <1>2, <1>3, <1>4, NumbersSame

LEMMA JobGoesOn ==
  ASSUME Inv, NEW t \in Threads, NEW f \in Jobs, Faces(todo, t, f), NEW g \in Jobs,
         Continue(t, << g >>), Changes(Writes(f)),
         g.dst = f.dst, Footprint(g) \subseteq Footprint(f), Writes(g) \subseteq Writes(f), Guarded(g)'
  PROVE  /\ Turns(t, {}, {}, {f}, {g}) /\ Calm(todo'[t]) /\ CallsOK' /\ SameNumbers
         /\ ~Settled(f.dst)' /\ ~Settled(f.dst)
         /\ \A h : Settled(h)' <=> Settled(h)
<1>1. /\ todo \in Stacks /\ Finite /\ todo[t] # << >> /\ WellShaped(todo[t]) /\ Head(todo[t]) = f
      /\ Outside(t, Writes(f)) /\ CallsOK /\ Clear(t, f.dst) /\ Apart(t, f)
      /\ \A h : Settled(h) <=> Clear(t, h) /\ h # f.dst
  BY JobDue DEF Inv, Faces
<1>2. Turns(t, {}, {}, {f}, {g}) /\ Calm(todo'[t]) BY <1>1, GoOnWithJob
<1>3. Apart(t, g) BY <1>1, ApartAs
<1>4. \A k \in {g} : Guarded(k)' /\ Apart(t, k) BY <1>3
<1>5. CallsOK' BY <1>1, <1>2, <1>4, CallsKept
<1>6. \A h : Settled(h)' <=> Clear(t, h) /\ h # g.dst BY <1>1, <1>2, SettledIs
<1> QED BY <1>1, <1>2, <1>5, <1>6, NumbersSame

\* A step that leaves the counts and the number of holders alone.
LEMMA CountsSame ==
  ASSUME Inv, SameNumbers, strong' = strong, weak' = weak,
         \A H \in {Owners, Weak}, x \in Ctrls : Holders(H, x)' = Holders(H, x)
  PROVE  \A x \in Ctrls : Counted(x)'
<1> SUFFICES ASSUME NEW x \in Ctrls PROVE Counted(x)' OBVIOUS
<1>1. /\ strong[x] = Holders(Owners, x) + Number(todo, DecStrong(x))
      /\ weak[x] = Holders(Weak, x) + Number(todo, DecWeak(x)) + Common(strong[x])
  BY Sums
<1>2. /\ strong'[x] = strong[x] /\ weak'[x] = weak[x]
      /\ Holders(Owners, x)' = Holders(Owners, x) /\ Holders(Weak, x)' = Holders(Weak, x)
      /\ IsFiniteSet(Places(todo', DecStrong(x))) /\ IsFiniteSet(Places(todo', DecWeak(x)))
      /\ Number(todo', DecStrong(x)) = Number(todo, DecStrong(x))
      /\ Number(todo', DecWeak(x)) = Number(todo, DecWeak(x))
  BY DEF SameNumbers
<1>3. /\ strong'[x] = Holders(Owners, x)' + Number(todo', DecStrong(x))
      /\ weak'[x] = Holders(Weak, x)' + Number(todo', DecWeak(x)) + Common(strong'[x])
  BY <1>1, <1>2
<1> QED BY <1>2, <1>3, CountedNext

Raised(H, c) == \A x \in Ctrls :
  /\ strong'[x] = strong[x] + IF H = Owners /\ x = c THEN 1 ELSE 0
  /\ weak'[x] = weak[x] + IF H = Weak /\ x = c THEN 1 ELSE 0

\* A handle that had not been settled takes up the block that its source holds.
LEMMA OneMore ==
  ASSUME Inv, SameNumbers, NEW H \in {Owners, Weak}, NEW d \in H, NEW c \in Ctrls,
         ~Settled(d), Settled(d)', held'[d] = c,
         \A h \in Handles \ {d} : Unchanged(h), strong[c] > 0 \/ H = Weak, Raised(H, c)
  PROVE  \A x \in Ctrls : Counted(x)'
<1> SUFFICES ASSUME NEW x \in Ctrls PROVE Counted(x)' OBVIOUS
<1>1. /\ strong[x] = Holders(Owners, x) + Number(todo, DecStrong(x))
      /\ weak[x] = Holders(Weak, x) + Number(todo, DecWeak(x)) + Common(strong[x])
      /\ strong[x] \in Nat /\ weak[x] \in Nat /\ Common(strong[x]) \in Nat
      /\ Number(todo, DecStrong(x)) \in Nat /\ Number(todo, DecWeak(x)) \in Nat
  BY Sums DEF Common
<1>2. /\ IsFiniteSet(Places(todo', DecStrong(x))) /\ IsFiniteSet(Places(todo', DecWeak(x)))
      /\ Number(todo', DecStrong(x)) = Number(todo, DecStrong(x))
      /\ Number(todo', DecWeak(x)) = Number(todo, DecWeak(x))
  BY DEF SameNumbers
<1>3. Owners \cap Weak = {} /\ Owners # Weak BY Kinds
<1>4. \A G \in {Owners, Weak} :
        /\ Holders(G, x) \in Nat
        /\ Holders(G, x)' = Holders(G, x) + IF G = H /\ x = c THEN 1 ELSE 0
  <2> SUFFICES ASSUME NEW G \in {Owners, Weak}
               PROVE  /\ Holders(G, x) \in Nat
                      /\ Holders(G, x)' = Holders(G, x) + IF G = H /\ x = c THEN 1 ELSE 0
    OBVIOUS
  <2>1. \A h \in G \ {d} : Unchanged(h) BY Kinds
  <2>2. ~Holds(G, d, x) /\ (Holds(G, d, x)' <=> G = H /\ x = c) BY <1>3 DEF Holds
  <2>3. CASE G = H /\ x = c BY <2>1, <2>2, <2>3, OneHandle
  <2>4. CASE ~(G = H /\ x = c) BY <2>1, <2>2, <2>4, OneHandle
  <2> QED BY <2>3, <2>4
<1>5. /\ strong'[x] = strong[x] + IF H = Owners /\ x = c THEN 1 ELSE 0
      /\ weak'[x] = weak[x] + IF H = Weak /\ x = c THEN 1 ELSE 0
  BY DEF Raised
<1>6. Common(strong'[x]) = Common(strong[x]) BY <1>1, <1>3, <1>5 DEF Common
<1>7. /\ Holders(Owners, x)' = Holders(Owners, x) + IF H = Owners /\ x = c THEN 1 ELSE 0
      /\ Holders(Weak, x)' = Holders(Weak, x) + IF H = Weak /\ x = c THEN 1 ELSE 0
      /\ Holders(Owners, x) \in Nat /\ Holders(Weak, x) \in Nat
  BY <1>4
<1>8. /\ strong'[x] = Holders(Owners, x)' + Number(todo', DecStrong(x))
      /\ weak'[x] = Holders(Weak, x)' + Number(todo', DecWeak(x)) + Common(strong'[x])
  BY <1>1, <1>2, <1>5, <1>6, <1>7
<1> QED BY <1>2, <1>8, CountedNext

\* The counts of blocks that are in use go up.
LEMMA RaisedLives ==
  ASSUME Inv, NEW H, NEW c \in Ctrls, Raised(H, c),
         weak[c] > 0, H = Owners => strong[c] > 0, phase' = phase,
         NEW t \in Threads, NEW old, NEW new, Turns(t, {}, {}, old, new), Calm(todo'[t]),
         \A x \in Ctrls : Quiet(todo[t], x)
  PROVE  \A x \in Ctrls : strong'[x] \in Nat /\ weak'[x] \in Nat /\ Lives(x)'
<1> SUFFICES ASSUME NEW x \in Ctrls PROVE strong'[x] \in Nat /\ weak'[x] \in Nat /\ Lives(x)'
  OBVIOUS
<1>1. Lives(x) /\ strong[x] \in Nat /\ weak[x] \in Nat BY DEF Inv, TypeOK
<1>2. PICK a \in {0, 1} : strong'[x] = strong[x] + a /\ (a = 1 => strong[x] > 0)
  <2>1. strong'[x] = strong[x] + IF H = Owners /\ x = c THEN 1 ELSE 0 BY DEF Raised
  <2> QED BY <2>1
<1>3. PICK b \in {0, 1} : weak'[x] = weak[x] + b /\ (b = 1 => weak[x] > 0)
  <2>1. weak'[x] = weak[x] + IF H = Weak /\ x = c THEN 1 ELSE 0 BY DEF Raised
  <2> QED BY <2>1
<1>4. /\ strong'[x] \in Nat /\ weak'[x] \in Nat
      /\ (strong'[x] > 0 <=> strong[x] > 0)
      /\ (weak'[x] > 0 <=> weak[x] > 0)
  BY <1>1, <1>2, <1>3
<1>5. todo'[t] \in Seq(Known) /\ \A u \in Threads \ {t} : todo'[u] = todo[u]
  BY DEF Turns, Stacks
<1>6. Quiet(todo'[t], x) BY <1>5, CalmQuiet
<1>7. phase'[x] = phase[x] OBVIOUS
<1> QED BY <1>1, <1>4, <1>5, <1>6, <1>7, LivesKept

LEMMA IncKeeps ==
  ASSUME Inv, NEW t \in Threads, NEW f \in Jobs, Faces(todo, t, f),
         \/ f.op = "inc_strong" /\ inc_strong(t, f)
         \/ f.op = "inc_weak" /\ inc_weak(t, f)
  PROVE  Inv'
<1> DEFINE H == IF f.op = "inc_strong" THEN Owners ELSE Weak
<1>1. PICK c \in Ctrls : f.ctrl = c BY JobFields
<1>2. /\ Guarded(f) /\ Settled(f.src) /\ f.dst # f.src /\ f.dst \in Handles
      /\ \A x \in Ctrls : Quiet(todo[t], x)
  BY JobDue
<1>3. /\ held[f.dst] = c /\ held[f.src] = c /\ f.dst \in H /\ H \in {Owners, Weak}
      /\ f.src \in Owners \/ (H = Weak /\ f.src \in Weak)
  BY <1>1, <1>2, Kinds DEF Guarded
<1>4. /\ Continue(t, << >>) /\ fault' = (fault \/ phase[c] \in {"unused", "freed"})
      /\ held' = held /\ phase' = phase
      /\ strong' = (IF f.op = "inc_strong" THEN [strong EXCEPT ![c] = @ + 1] ELSE strong)
      /\ weak' = (IF f.op = "inc_strong" THEN weak ELSE [weak EXCEPT ![c] = @ + 1])
  BY <1>1 DEF inc_strong, inc_weak, Use
<1>5. weak[c] > 0 /\ phase[c] \in {"live", "destroyed"} /\ (f.src \in Owners => strong[c] > 0)
  BY <1>2, <1>3, Owned, Watched
<1>6. Owners # Weak BY <1>3, Kinds
<1>7. Raised(H, c)
  BY <1>4, <1>6 DEF Raised, Inv, TypeOK
<1>8. H = Owners => strong[c] > 0 BY <1>3, <1>5, <1>6
<1>9. Changes(Writes(f)) BY <1>4 DEF Changes
<1>10. /\ Turns(t, {}, {}, {f}, {}) /\ Calm(todo'[t]) /\ CallsOK' /\ SameNumbers
       /\ Settled(f.dst)' /\ ~Settled(f.dst)
       /\ \A h : h # f.dst => (Settled(h)' <=> Settled(h))
  BY <1>4, <1>9, JobEnds
<1>11. \A h \in Handles \ {f.dst} : Unchanged(h) BY <1>4, <1>10 DEF Unchanged
<1>12. held'[f.dst] = c BY <1>3, <1>4
<1> HIDE DEF H
<1>13. strong[c] > 0 \/ H = Weak BY <1>3, <1>8
<1>14. \A x \in Ctrls : Counted(x)'
  BY <1>3, <1>7, <1>10, <1>11, <1>12, <1>13, OneMore
<1>15. \A x \in Ctrls : strong'[x] \in Nat /\ weak'[x] \in Nat /\ Lives(x)'
  BY <1>2, <1>4, <1>5, <1>7, <1>8, <1>10, RaisedLives
<1>16. /\ held' \in [Handles -> Ctrls \cup {Null}]
       /\ strong' \in [Ctrls -> Nat] /\ weak' \in [Ctrls -> Nat]
       /\ phase' \in [Ctrls -> {"unused", "live", "destroyed", "freed"}] /\ ~fault'
  <2>1. /\ held' \in [Handles -> Ctrls \cup {Null}]
        /\ phase' \in [Ctrls -> {"unused", "live", "destroyed", "freed"}]
    BY <1>4 DEF Inv, TypeOK
  <2>2. ~fault' BY <1>4, <1>5 DEF Inv
  <2>3. strong' \in [Ctrls -> Nat] BY <1>4 DEF Inv, TypeOK
  <2>4. weak' \in [Ctrls -> Nat] BY <1>4 DEF Inv, TypeOK
  <2> QED BY <2>1, <2>2, <2>3, <2>4
<1> QED BY <1>10, <1>14, <1>15, <1>16, Together

LEMMA CasSucceedsKeeps ==
  ASSUME Inv, NEW t \in Threads, NEW f \in Jobs, Faces(todo, t, f), f.op = "cas",
         cas_succeeds(t, f)
  PROVE  Inv'
<1>1. /\ Guarded(f) /\ Settled(f.src) /\ f.dst # f.src /\ f.dst \in Handles /\ f.src \in Handles
      /\ \A x \in Ctrls : Quiet(todo[t], x)
      /\ held[f.src] \in Ctrls \cup {Null}
  BY JobDue
<1>2. /\ f.dst \in Owners /\ f.src \in Weak /\ held[f.src] # Null /\ f.val > 0
  BY <1>1, Kinds DEF Guarded
<1>3. PICK c \in Ctrls : held[f.src] = c BY <1>1, <1>2
<1>4. /\ strong[c] = f.val
      /\ strong' = [strong EXCEPT ![c] = @ + 1] /\ held' = [held EXCEPT ![f.dst] = c]
      /\ Continue(t, << >>) /\ fault' = (fault \/ phase[c] \in {"unused", "freed"})
      /\ weak' = weak /\ phase' = phase
  BY <1>3 DEF cas_succeeds, Use
<1>5. weak[c] > 0 /\ phase[c] \in {"live", "destroyed"} /\ strong[c] > 0
  BY <1>1, <1>2, <1>3, <1>4, Watched
<1>6. Owners # Weak BY <1>2, Kinds
<1>7. Raised(Owners, c)
  BY <1>4, <1>6 DEF Raised, Inv, TypeOK
<1>8. /\ held' \in [Handles -> Ctrls \cup {Null}] /\ held'[f.dst] = c
      /\ \A h \in Handles \ {f.dst} : held'[h] = held[h]
  BY <1>1, <1>4 DEF Inv, TypeOK
<1>9. Changes(Writes(f)) BY <1>8 DEF Changes, Writes
<1>10. /\ Turns(t, {}, {}, {f}, {}) /\ Calm(todo'[t]) /\ CallsOK' /\ SameNumbers
       /\ Settled(f.dst)' /\ ~Settled(f.dst)
       /\ \A h : h # f.dst => (Settled(h)' <=> Settled(h))
  BY <1>4, <1>9, JobEnds
<1>11. \A h \in Handles \ {f.dst} : Unchanged(h) BY <1>8, <1>10 DEF Unchanged
<1>12. \A x \in Ctrls : Counted(x)'
  BY <1>2, <1>5, <1>7, <1>8, <1>10, <1>11, OneMore
<1>13. \A x \in Ctrls : strong'[x] \in Nat /\ weak'[x] \in Nat /\ Lives(x)'
  BY <1>1, <1>4, <1>5, <1>7, <1>10, RaisedLives
<1>14. /\ strong' \in [Ctrls -> Nat] /\ weak' \in [Ctrls -> Nat]
       /\ phase' \in [Ctrls -> {"unused", "live", "destroyed", "freed"}] /\ ~fault'
  <2>1. /\ weak' \in [Ctrls -> Nat]
        /\ phase' \in [Ctrls -> {"unused", "live", "destroyed", "freed"}]
    BY <1>4 DEF Inv, TypeOK
  <2>2. ~fault' BY <1>4, <1>5 DEF Inv
  <2>3. strong' \in [Ctrls -> Nat] BY <1>4 DEF Inv, TypeOK
  <2> QED BY <2>1, <2>2, <2>3
<1> QED BY <1>8, <1>10, <1>12, <1>13, <1>14, Together

\* A handle that was not settled, and is not or holds nothing afterwards.
LEMMA NotOneMore ==
  ASSUME NEW d \in Handles, ~Settled(d), ~(Settled(d)' /\ held'[d] \in Ctrls),
         \A h \in Handles \ {d} : Unchanged(h)
  PROVE  \A H \in {Owners, Weak}, x \in Ctrls : Holders(H, x)' = Holders(H, x)
<1> SUFFICES ASSUME NEW H \in {Owners, Weak}, NEW x \in Ctrls
             PROVE  Holders(H, x)' = Holders(H, x)
  OBVIOUS
<1>1. \A h \in H \ {d} : Unchanged(h) BY Kinds
<1>2. ~Holds(H, d, x) /\ ~Holds(H, d, x)' BY DEF Holds
<1> QED BY <1>1, <1>2, OneHandle

\* try_inc_strong loads the count, for the first time or again.
LEMMA TryAgainKeeps ==
  ASSUME Inv, NEW t \in Threads, NEW f \in Jobs, Faces(todo, t, f),
         \/ f.op = "load" /\ load(t, f)
         \/ f.op = "cas" /\ cas_fails(t, f)
  PROVE  Inv'
<1>1. /\ Guarded(f) /\ Settled(f.src) /\ f.dst # f.src /\ f.dst \in Handles /\ f.src \in Handles
      /\ f.path \subseteq Shared /\ \A x \in Ctrls : Quiet(todo[t], x)
      /\ held[f.src] \in Ctrls \cup {Null}
  BY JobDue
<1>2. /\ f.dst \in Shared /\ f.src \in Weak /\ held[f.src] # Null /\ held[f.dst] = Null
  BY <1>1 DEF Guarded
<1>3. PICK c \in Ctrls : held[f.src] = c BY <1>1, <1>2
<1>4. /\ TryAgain(t, f, strong[c]) /\ fault' = (fault \/ phase[c] \in {"unused", "freed"})
      /\ held' = held /\ strong' = strong /\ weak' = weak /\ phase' = phase
  BY <1>3 DEF load, cas_fails, Use
<1>5. phase[c] \in {"live", "destroyed"} BY <1>1, <1>2, <1>3, Watched
<1>6. ~fault' BY <1>4, <1>5 DEF Inv
<1>7. Changes(Writes(f)) BY <1>4 DEF Changes
<1>8. \E new : /\ Turns(t, {}, {}, {f}, new) /\ Calm(todo'[t]) /\ CallsOK' /\ SameNumbers
               /\ ~Settled(f.dst) /\ \A h : h # f.dst => (Settled(h)' <=> Settled(h))
  <2>1. CASE strong[c] = 0
    <3>1. Continue(t, << >>) BY <2>1, <1>4 DEF TryAgain
    <3> QED BY <3>1, <1>7, JobEnds
  <2>2. CASE strong[c] # 0
    <3>1. PICK n \in Nat : n = strong[c] /\ n > 0 BY <2>2 DEF Inv, TypeOK
    <3>2. PICK k \in Jobs : k = Cas(f.dst, f.src, n) BY <1>1 DEF Cas, Jobs
    <3>3. /\ k.op = "cas" /\ k.dst = f.dst /\ k.src = f.src /\ k.path = {} /\ k.val = n
      BY <3>2 DEF Cas
    <3>4. Continue(t, << k >>)
      <4>1. Continue(t, << Cas(f.dst, f.src, strong[c]) >>) BY <2>2, <1>4 DEF TryAgain
      <4> QED BY <4>1, <3>1, <3>2
    <3>5. Footprint(k) \subseteq Footprint(f) /\ Writes(k) \subseteq Writes(f)
      BY <3>3 DEF Footprint, Writes
    <3>6. Guarded(k)' BY <1>1, <1>2, <1>4, <3>1, <3>3, Kinds DEF Guarded
    <3> QED BY <3>3, <3>4, <3>5, <3>6, <1>7, JobGoesOn
  <2> QED BY <2>1, <2>2
<1>9. PICK new : /\ Turns(t, {}, {}, {f}, new) /\ Calm(todo'[t]) /\ CallsOK' /\ SameNumbers
                 /\ ~Settled(f.dst) /\ \A h : h # f.dst => (Settled(h)' <=> Settled(h))
  BY <1>8
<1>10. \A h \in Handles \ {f.dst} : Unchanged(h) BY <1>4, <1>9 DEF Unchanged
<1>11. held'[f.dst] \notin Ctrls BY <1>2, <1>4, HandlesAssumption
<1>12. \A H \in {Owners, Weak}, x \in Ctrls : Holders(H, x)' = Holders(H, x)
  BY <1>1, <1>9, <1>10, <1>11, NotOneMore
<1>13. \A x \in Ctrls : Counted(x)' BY <1>4, <1>9, <1>12, CountsSame
<1>14. \A x \in Ctrls : Lives(x)' BY <1>1, <1>4, <1>9, AllLive
<1>15. /\ held' \in [Handles -> Ctrls \cup {Null}]
       /\ strong' \in [Ctrls -> Nat] /\ weak' \in [Ctrls -> Nat]
       /\ phase' \in [Ctrls -> {"unused", "live", "destroyed", "freed"}]
  BY <1>4 DEF Inv, TypeOK
<1> QED BY <1>6, <1>9, <1>13, <1>14, <1>15, Together

\* m_control is copied: the source of the copy still holds its block, so that
\* the count that follows finds the block in use.
LEMMA TakeKeeps ==
  ASSUME Inv, NEW t \in Threads, NEW f \in Jobs, Faces(todo, t, f), f.op = "take", take(t, f)
  PROVE  Inv'
<1>1. /\ Guarded(f) /\ Settled(f.src) /\ f.dst # f.src /\ f.dst \in Handles /\ f.src \in Handles
      /\ f.path \subseteq Shared /\ \A x \in Ctrls : Quiet(todo[t], x)
      /\ held[f.src] \in Ctrls \cup {Null} /\ f.inc \in {"strong", "weak", "none"}
      /\ f \in JobsOf(t) /\ ~Settled(f.dst)
  BY JobDue, JobFields
<1>2. PICK c \in Ctrls \cup {Null} : c = held[f.src] BY <1>1
<1>3. /\ held' = (IF f.inc = "none" THEN [held EXCEPT ![f.dst] = c, ![f.src] = Null]
                  ELSE [held EXCEPT ![f.dst] = c])
      /\ Continue(t, IF c = Null \/ f.inc = "none" THEN << >> ELSE << Inc(f, c) >>)
      /\ fault' = (fault \/ (f.src \in Ctrls /\ phase[f.src] # "live"))
      /\ strong' = strong /\ weak' = weak /\ phase' = phase
  BY <1>2 DEF take
<1>4. /\ held' \in [Handles -> Ctrls \cup {Null}] /\ held'[f.dst] = c
      /\ held'[f.src] = IF f.inc = "none" THEN Null ELSE c
      /\ \A h \in Handles \ {f.dst, f.src} : held'[h] = held[h]
  BY <1>1, <1>2, <1>3 DEF Inv, TypeOK
<1>5. ~fault'
  <2>1. f.src \in Ctrls => phase[f.src] = "live" BY <1>1, MemberAlive DEF Footprint
  <2> QED BY <2>1, <1>3 DEF Inv
<1>6. Changes(Writes(f)) BY <1>1, <1>2, <1>4 DEF Changes, Writes
<1>7. /\ strong' \in [Ctrls -> Nat] /\ weak' \in [Ctrls -> Nat]
      /\ phase' \in [Ctrls -> {"unused", "live", "destroyed", "freed"}]
  BY <1>3 DEF Inv, TypeOK
<1>8. CASE c = Null \/ f.inc = "none"
  <2>1. /\ Turns(t, {}, {}, {f}, {}) /\ Calm(todo'[t]) /\ CallsOK' /\ SameNumbers
        /\ Settled(f.dst)' /\ ~Settled(f.dst)
        /\ \A h : h # f.dst => (Settled(h)' <=> Settled(h))
    <3>1. Continue(t, << >>) BY <1>3, <1>8
    <3> QED BY <3>1, <1>6, JobEnds
  <2>2. \A H \in {Owners, Weak}, x \in Ctrls : Holders(H, x)' = Holders(H, x)
    <3>1. CASE f.inc = "none"
      <4> SUFFICES ASSUME NEW H \in {Owners, Weak}, NEW x \in Ctrls
                   PROVE  Holders(H, x)' = Holders(H, x)
        OBVIOUS
      <4>1. f.dst \in Shared /\ f.src \in Shared BY <1>1, <3>1 DEF Guarded
      <4>2. f.dst \in H <=> f.src \in H BY <4>1, Kinds
      <4>3. \A h \in H \ {f.dst, f.src} : Unchanged(h) BY <1>4, <2>1, Kinds DEF Unchanged
      <4>4. x # Null BY HandlesAssumption
      <4>5. /\ ~Holds(H, f.dst, x) /\ ~Holds(H, f.src, x)'
            /\ Holds(H, f.src, x) <=> Holds(H, f.dst, x)'
        BY <1>1, <1>2, <1>4, <2>1, <3>1, <4>2, <4>4 DEF Holds
      <4> QED BY <1>1, <4>2, <4>3, <4>5, TwoHandles
    <3>2. CASE f.inc # "none"
      <4>1. \A h \in Handles \ {f.dst} : Unchanged(h) BY <1>2, <1>4, <2>1, <3>2 DEF Unchanged
      <4>2. held'[f.dst] \notin Ctrls BY <1>4, <1>8, <3>2, HandlesAssumption
      <4> QED BY <1>1, <2>1, <4>1, <4>2, NotOneMore
    <3> QED BY <3>1, <3>2
  <2>3. \A x \in Ctrls : Counted(x)' BY <1>3, <2>1, <2>2, CountsSame
  <2>4. \A x \in Ctrls : Lives(x)' BY <1>1, <1>3, <2>1, AllLive
  <2> QED BY <1>4, <1>5, <1>7, <2>1, <2>3, <2>4, Together
<1>9. CASE c # Null /\ f.inc # "none"
  <2>1. c \in Ctrls /\ f.inc \in {"strong", "weak"} BY <1>1, <1>9
  <2>2. PICK k \in Jobs : k = Inc(f, c) BY <1>1, <2>1 DEF Inc, Jobs
  <2>3. /\ k.dst = f.dst /\ k.src = f.src /\ k.path = f.path /\ k.ctrl = c
        /\ k.op = IF f.inc = "strong" THEN "inc_strong" ELSE "inc_weak"
    BY <2>2 DEF Inc
  <2>4. Continue(t, << k >>) BY <1>3, <1>9, <2>2
  <2>5. Footprint(k) \subseteq Footprint(f) /\ Writes(k) \subseteq Writes(f)
    BY <2>3 DEF Footprint, Writes
  <2>6. Guarded(k)'
    <3>1. held'[f.dst] = c /\ held'[f.src] = c /\ \A p \in f.path : held'[p] = held[p]
      BY <1>1, <1>2, <1>4, <1>9, Kinds DEF Guarded
    <3> QED BY <3>1, <1>1, <1>9, <2>1, <2>3 DEF Guarded
  <2>7. /\ Turns(t, {}, {}, {f}, {k}) /\ Calm(todo'[t]) /\ CallsOK' /\ SameNumbers
        /\ ~Settled(f.dst)' /\ ~Settled(f.dst)
        /\ \A h : Settled(h)' <=> Settled(h)
    BY <1>6, <2>3, <2>4, <2>5, <2>6, JobGoesOn
  <2>8. \A h \in Handles \ {f.dst} : Unchanged(h) BY <1>2, <1>4, <1>9, <2>7 DEF Unchanged
  <2>9. \A H \in {Owners, Weak}, x \in Ctrls : Holders(H, x)' = Holders(H, x)
    BY <1>1, <2>7, <2>8, NotOneMore
  <2>10. \A x \in Ctrls : Counted(x)' BY <1>3, <2>7, <2>9, CountsSame
  <2>11. \A x \in Ctrls : Lives(x)' BY <1>1, <1>3, <2>7, AllLive
  <2> QED BY <1>4, <1>5, <1>7, <2>7, <2>10, <2>11, Together
<1> QED BY <1>8, <1>9
-----------------------------------------------------------------------------
(* The invariant, and what follows from it *)

LEMMA InitInv == Init => Inv
<1> SUFFICES ASSUME Init PROVE Inv OBVIOUS
<1>1. TypeOK /\ ~fault BY DEF Init, TypeOK
<1>2. \A t \in Threads : todo[t] = << >> BY DEF Init
<1>3. \A t \in Threads : JobsOf(t) = {} BY <1>2, JobsAre, JustOne
<1>4. CallsOK BY <1>2, <1>3 DEF CallsOK, WellShaped
<1>5. ASSUME NEW c \in Ctrls PROVE Counted(c)
  <2>1. \A f : Places(todo, f) = {} BY <1>2 DEF Places
  <2>2. \A H \in {Owners, Weak} : HoldersOf(H, c) = {}
    BY HandlesAssumption, Kinds DEF Init, HoldersOf
  <2>3. strong[c] = 0 /\ weak[c] = 0 BY DEF Init
  <2> QED BY <2>1, <2>2, <2>3, FS_EmptySet DEF Counted
<1>6. ASSUME NEW c \in Ctrls PROVE Lives(c)
  <2>1. ~Dying(c) /\ ~Closing(c) BY <1>2 DEF Dying, Closing
  <2>2. Alone(Destroy(c)) /\ Alone(Dealloc(c)) BY <1>2 DEF Alone
  <2> QED BY <2>1, <2>2 DEF Init, Lives
<1> QED BY <1>1, <1>4, <1>5, <1>6 DEF Inv

LEMMA StepKeeps ==
  ASSUME Inv, NEW t \in Threads, Step(t)
  PROVE  Inv'
<1> DEFINE f == Head(todo[t])
<1>1. ~Idle(t) /\ Faces(todo, t, f) BY DEF Step, Faces, Idle
<1>2. f.op \in JobOps => f \in Jobs BY <1>1, Due DEF Faces
<1>3. CASE f.op = "dec_strong" /\ dec_strong(t, f) BY <1>1, <1>3, DecStrongKeeps
<1>4. CASE f.op = "destroy_object" /\ destroy_object(t, f) BY <1>1, <1>4, DestroyObjectKeeps
<1>5. CASE f.op = "dec_weak" /\ dec_weak(t, f) BY <1>1, <1>5, DecWeakKeeps
<1>6. CASE f.op = "destroy_control_block" /\ destroy_control_block(t, f)
  BY <1>1, <1>6, DestroyControlBlockKeeps
<1>7. CASE (f.op = "inc_strong" /\ inc_strong(t, f)) \/ (f.op = "inc_weak" /\ inc_weak(t, f))
  BY <1>1, <1>2, <1>7, IncKeeps DEF JobOps
<1>8. CASE f.op = "take" /\ take(t, f) BY <1>1, <1>2, <1>8, TakeKeeps DEF JobOps
<1>9. CASE (f.op = "load" /\ load(t, f)) \/ (f.op = "cas" /\ cas_fails(t, f))
  BY <1>1, <1>2, <1>9, TryAgainKeeps DEF JobOps
<1>10. CASE f.op = "cas" /\ cas_succeeds(t, f) BY <1>1, <1>2, <1>10, CasSucceedsKeeps DEF JobOps
<1> QED BY <1>3, <1>4, <1>5, <1>6, <1>7, <1>8, <1>9, <1>10 DEF Step

LEMMA NextInv == Inv /\ [Next]_vars => Inv'
<1> SUFFICES ASSUME Inv, [Next]_vars PROVE Inv' OBVIOUS
<1>1. CASE UNCHANGED vars
  <2>1. /\ held' = held /\ strong' = strong /\ weak' = weak
        /\ phase' = phase /\ todo' = todo /\ fault' = fault
    BY <1>1 DEF vars
  <2>2. (TypeOK /\ ~fault)' BY <2>1 DEF Inv, TypeOK
  <2>3. \A t : JobsOf(t)' = JobsOf(t) BY <2>1 DEF JobsOf, Steps
  <2>4. \A f : Guarded(f)' = Guarded(f) BY <2>1 DEF Guarded
  <2>5. CallsOK' BY <2>1, <2>3, <2>4 DEF Inv, CallsOK
  <2>6. \A H, c : HoldersOf(H, c)' = HoldersOf(H, c)
    BY <2>1 DEF HoldersOf, Settled, Assigned, Pending, Steps
  <2>7. \A c : Counted(c)' = Counted(c) BY <2>1, <2>6 DEF Counted
  <2>8. \A c : Lives(c)' = Lives(c) BY <2>1 DEF Lives, Dying, Closing, Alone
  <2> QED BY <2>2, <2>5, <2>7, <2>8 DEF Inv
<1>2. ASSUME NEW t \in Threads, SharedCall(t) PROVE Inv'
  <2>1. PICK d \in Shared :
          \/ allocate_shared(t, d)
          \/ destroy_shared(t, d)
          \/ \E w \in Weak : lock(t, d, w)
          \/ \E s \in Shared :
               \/ move_assign(t, d, s)
               \/ move_assign_related(t, d, s)
               \/ \E m \in BOOLEAN : copy_construct(t, d, s, m)
               \/ \E dm, sm \in BOOLEAN : copy_assign(t, d, dm, s, sm)
    BY <1>2 DEF SharedCall
  <2>2. CASE allocate_shared(t, d) BY <2>2, AllocateKeeps
  <2>3. CASE destroy_shared(t, d) BY <2>3, DestroyKeeps
  <2>4. CASE \E w \in Weak : lock(t, d, w) BY <2>4, LockKeeps
  <2>5. ASSUME NEW s \in Shared, move_assign(t, d, s) PROVE Inv' BY <2>5, MoveAssignKeeps
  <2>6. ASSUME NEW s \in Shared, move_assign_related(t, d, s) PROVE Inv'
    BY <2>6, MoveAssignRelatedKeeps
  <2>7. ASSUME NEW s \in Shared, NEW m \in BOOLEAN, copy_construct(t, d, s, m) PROVE Inv'
    BY <2>7, CopyConstructKeeps
  <2>8. ASSUME NEW s \in Shared, NEW dm \in BOOLEAN, NEW sm \in BOOLEAN, copy_assign(t, d, dm, s, sm)
        PROVE  Inv'
    BY <2>8, CopyAssignKeeps
  <2> QED BY <2>1, <2>2, <2>3, <2>4, <2>5, <2>6, <2>7, <2>8
<1>3. ASSUME NEW t \in Threads, WeakCall(t) PROVE Inv'
  <2>1. PICK w \in Weak :
          \/ destroy_weak(t, w)
          \/ \E s \in Shared : get_weak(t, w, s)
          \/ \E v \in Weak : weak_copy_assign(t, w, v) \/ move_assign(t, w, v)
    BY <1>3 DEF WeakCall
  <2>2. CASE destroy_weak(t, w) BY <2>2, DestroyKeeps
  <2>3. CASE \E s \in Shared : get_weak(t, w, s) BY <2>3, GetWeakKeeps
  <2>4. ASSUME NEW v \in Weak, weak_copy_assign(t, w, v) PROVE Inv' BY <2>4, WeakCopyAssignKeeps
  <2>5. ASSUME NEW v \in Weak, move_assign(t, w, v) PROVE Inv' BY <2>5, MoveAssignKeeps
  <2> QED BY <2>1, <2>2, <2>3, <2>4, <2>5
<1>4. ASSUME NEW t \in Threads, Step(t) PROVE Inv' BY <1>4, StepKeeps
<1> QED BY <1>1, <1>2, <1>3, <1>4 DEF Next

\* The invariant holds in every state, for any threads, blocks and handles.
THEOREM SpecInv == Spec => []Inv
BY InitInv, NextInv, PTL DEF Spec

\* Whatever copies, moves, locks and releases the threads interleave, no call
\* uses a block after it was freed, reads a member of a destroyed object or
\* destroys an object twice (shared_ptr_t.hpp, control_block.cpp).
THEOREM NothingFreedIsUsed == Spec => []NoFault
<1>1. Inv => NoFault BY DEF Inv, NoFault
<1> QED BY <1>1, SpecInv, PTL

\* m_strong and m_weak of every block are exact in every state: handles that
\* hold the block, plus releases on their way, plus one in m_weak for all the
\* shared_ptrs together (control_block.hpp).
THEOREM CountsStayExact == Spec => []CountsExact
<1>1. \A f : Count(f) = Cardinality(Places(todo, f)) BY DEF Count, Frames, Places
<1>2. Inv => CountsExact BY <1>1 DEF Inv, Counted, CountsExact, Owners
<1> QED BY <1>2, SpecInv, PTL

\* What the calls of a client have in common: they start in an idle thread,
\* give that thread steps or none, and leave the counts to those steps.
Own(t) == \A u \in Threads \ {t} : todo'[u] = todo[u]

LEMMA SharedCalls ==
  ASSUME todo \in Stacks, NEW t \in Threads, SharedCall(t)
  PROVE  /\ Idle(t) /\ Own(t)
         /\ strong' = strong \/ \E d \in Shared : allocate_shared(t, d)
<1>1. /\ \A q : Call(t, q) => Own(t)
      /\ todo' = todo => Own(t)
  BY DEF Call, Own, Stacks
<1>2. PICK d \in Shared :
        \/ allocate_shared(t, d)
        \/ destroy_shared(t, d)
        \/ \E w \in Weak : lock(t, d, w)
        \/ \E s \in Shared :
             \/ move_assign(t, d, s)
             \/ move_assign_related(t, d, s)
             \/ \E m \in BOOLEAN : copy_construct(t, d, s, m)
             \/ \E dm, sm \in BOOLEAN : copy_assign(t, d, dm, s, sm)
  BY DEF SharedCall
<1>3. CASE allocate_shared(t, d) BY <1>1, <1>3 DEF allocate_shared
<1>4. CASE destroy_shared(t, d) BY <1>1, <1>4 DEF destroy_shared
<1>5. ASSUME NEW w \in Weak, lock(t, d, w) PROVE Idle(t) /\ Own(t) /\ strong' = strong
  BY <1>1, <1>5 DEF lock
<1>6. ASSUME NEW s \in Shared, move_assign(t, d, s) PROVE Idle(t) /\ Own(t) /\ strong' = strong
  BY <1>1, <1>6 DEF move_assign
<1>7. ASSUME NEW s \in Shared, move_assign_related(t, d, s)
      PROVE  Idle(t) /\ Own(t) /\ strong' = strong
  BY <1>1, <1>7 DEF move_assign_related
<1>8. ASSUME NEW s \in Shared, NEW m \in BOOLEAN, copy_construct(t, d, s, m)
      PROVE  Idle(t) /\ Own(t) /\ strong' = strong
  BY <1>1, <1>8 DEF copy_construct
<1>9. ASSUME NEW s \in Shared, NEW dm \in BOOLEAN, NEW sm \in BOOLEAN, copy_assign(t, d, dm, s, sm)
      PROVE  Idle(t) /\ Own(t) /\ strong' = strong
  BY <1>1, <1>9 DEF copy_assign
<1> QED BY <1>2, <1>3, <1>4, <1>5, <1>6, <1>7, <1>8, <1>9

LEMMA WeakCalls ==
  ASSUME todo \in Stacks, NEW t \in Threads, WeakCall(t)
  PROVE  Idle(t) /\ Own(t) /\ strong' = strong
<1>1. /\ \A q : Call(t, q) => Own(t)
      /\ todo' = todo => Own(t)
  BY DEF Call, Own, Stacks
<1>2. PICK w \in Weak :
        \/ destroy_weak(t, w)
        \/ \E s \in Shared : get_weak(t, w, s)
        \/ \E v \in Weak : weak_copy_assign(t, w, v) \/ move_assign(t, w, v)
  BY DEF WeakCall
<1>3. CASE destroy_weak(t, w) BY <1>1, <1>3 DEF destroy_weak
<1>4. ASSUME NEW s \in Shared, get_weak(t, w, s) PROVE Idle(t) /\ Own(t) /\ strong' = strong
  BY <1>1, <1>4 DEF get_weak
<1>5. ASSUME NEW v \in Weak, weak_copy_assign(t, w, v) PROVE Idle(t) /\ Own(t) /\ strong' = strong
  BY <1>1, <1>5 DEF weak_copy_assign
<1>6. ASSUME NEW v \in Weak, move_assign(t, w, v) PROVE Idle(t) /\ Own(t) /\ strong' = strong
  BY <1>1, <1>6 DEF move_assign
<1> QED BY <1>2, <1>3, <1>4, <1>5, <1>6

\* A step changes what its own thread has to do and nothing of the others'.
LEMMA OwnSteps ==
  ASSUME todo \in Stacks, NEW t \in Threads, Step(t)
  PROVE  Own(t)
<1> DEFINE f == Head(todo[t])
<1>1. \A q : Continue(t, q) => Own(t) BY DEF Continue, Own, Stacks
<1>2. dec_strong(t, f) => Own(t) BY <1>1 DEF dec_strong
<1>3. destroy_object(t, f) => Own(t) BY <1>1 DEF destroy_object
<1>4. dec_weak(t, f) => Own(t) BY <1>1 DEF dec_weak
<1>5. destroy_control_block(t, f) => Own(t) BY <1>1 DEF destroy_control_block
<1>6. inc_strong(t, f) => Own(t) BY <1>1 DEF inc_strong
<1>7. inc_weak(t, f) => Own(t) BY <1>1 DEF inc_weak
<1>8. take(t, f) => Own(t) BY <1>1 DEF take
<1>9. load(t, f) => Own(t) BY <1>1 DEF load, TryAgain
<1>10. cas_fails(t, f) => Own(t) BY <1>1 DEF cas_fails, TryAgain
<1>11. cas_succeeds(t, f) => Own(t) BY <1>1 DEF cas_succeeds
<1> HIDE DEF f
<1> QED BY <1>2, <1>3, <1>4, <1>5, <1>6, <1>7, <1>8, <1>9, <1>10, <1>11 DEF Step, f

\* A count of zero stays zero: neither a copy nor try_inc_strong brings an
\* object back whose last owner has let go (control_block.cpp).
THEOREM NobodyRevives == Spec => NoRevival
<1>1. ASSUME Inv, Next, NEW c \in Ctrls, phase[c] # "unused", strong[c] = 0
      PROVE  strong'[c] = 0
  <2>1. strong \in [Ctrls -> Nat] /\ todo \in Stacks BY <1>1, Sums DEF Inv, TypeOK
  <2>2. ASSUME NEW t \in Threads, NEW d \in Shared, allocate_shared(t, d) PROVE strong'[c] = 0
    BY <2>2, <2>1, <1>1 DEF allocate_shared
  <2>3. ASSUME NEW t \in Threads, SharedCall(t) PROVE strong'[c] = 0
    BY <2>1, <2>2, <2>3, <1>1, SharedCalls
  <2>4. ASSUME NEW t \in Threads, WeakCall(t) PROVE strong'[c] = 0
    BY <2>1, <2>4, <1>1, WeakCalls
  <2>5. ASSUME NEW t \in Threads, Step(t) PROVE strong'[c] = 0
    <3> DEFINE f == Head(todo[t])
    <3>1. todo[t] # << >> /\ Faces(todo, t, f) BY <2>5 DEF Step, Idle, Faces
    <3>2. f.op \in JobOps => f \in Jobs BY <1>1, <3>1, Due
    <3>3. dec_strong(t, f) => strong'[c] = 0
      <4>1. dec_strong(t, f) => strong' = [strong EXCEPT ![f.ctrl] = Dec(@)] BY DEF dec_strong
      <4> HIDE DEF f
      <4> QED BY <4>1, <2>1, <1>1 DEF Dec
    <3>4. ASSUME f.op = "inc_strong", inc_strong(t, f) PROVE strong'[c] = 0
      <4>1. f.op \in JobOps BY <3>4 DEF JobOps
      <4>2. f \in Jobs /\ Guarded(f) /\ Settled(f.src) /\ f.ctrl \in Ctrls
        BY <1>1, <3>1, <3>2, <3>4, <4>1, JobDue, JobFields
      <4>3. held[f.src] = f.ctrl /\ f.src \in Owners BY <3>4, <4>2 DEF Guarded
      <4>4. strong[f.ctrl] > 0 BY <1>1, <4>2, <4>3, Owned
      <4>5. f.ctrl # c BY <4>4, <1>1
      <4>6. strong' = [strong EXCEPT ![f.ctrl] = @ + 1] BY <3>4 DEF inc_strong
      <4> HIDE DEF f
      <4> QED BY <4>5, <4>6, <1>1, <2>1
    <3>5. ASSUME f.op = "cas", cas_succeeds(t, f) PROVE strong'[c] = 0
      <4>1. f.op \in JobOps BY <3>5 DEF JobOps
      <4>2. f \in Jobs /\ Guarded(f) BY <1>1, <3>1, <3>2, <4>1, JobDue
      <4>3. f.val > 0 BY <3>5, <4>2 DEF Guarded
      <4>4. strong[held[f.src]] = f.val /\ strong' = [strong EXCEPT ![held[f.src]] = @ + 1]
        BY <3>5 DEF cas_succeeds
      <4>5. held[f.src] # c BY <4>3, <4>4, <1>1
      <4> HIDE DEF f
      <4> QED BY <4>4, <4>5, <1>1, <2>1
    <3>6. destroy_object(t, f) => strong' = strong BY DEF destroy_object
    <3>7. dec_weak(t, f) => strong' = strong BY DEF dec_weak
    <3>8. destroy_control_block(t, f) => strong' = strong BY DEF destroy_control_block
    <3>9. inc_weak(t, f) => strong' = strong BY DEF inc_weak
    <3>10. take(t, f) => strong' = strong BY DEF take
    <3>11. load(t, f) \/ cas_fails(t, f) => strong' = strong BY DEF load, cas_fails
    <3> HIDE DEF f
    <3> QED BY <3>3, <3>4, <3>5, <3>6, <3>7, <3>8, <3>9, <3>10, <3>11, <2>5, <1>1 DEF Step, f
  <2> QED BY <2>3, <2>4, <2>5, <1>1 DEF Next
<1>2. ASSUME Inv, [Next]_vars
      PROVE  [\A c \in Ctrls : (phase[c] # "unused" /\ strong[c] = 0) => strong'[c] = 0]_vars
  BY <1>1, <1>2
<1> QED BY <1>2, SpecInv, PTL DEF Spec, NoRevival

\* lock() comes back empty only when the object has no owner: a failed
\* compare-exchange or another thread's lock never makes it give up
\* (control_block.cpp, try_inc_strong).
THEOREM LockGivesUpOnlyWhenExpired == Spec => LockFailsOnlyWhenExpired
<1>1. ASSUME Inv, Next, NEW t \in Threads, todo[t] # << >>, Head(todo[t]).op \in {"load", "cas"},
             todo'[t] = << >>, held'[Head(todo[t]).dst] = Null
      PROVE  HoldersOf(Owners, held[Head(todo[t]).src]) = {}
  <2> DEFINE f == Head(todo[t])
  <2>1. Faces(todo, t, f) /\ f \in Jobs BY <1>1, Due DEF Faces, JobOps
  <2>2. /\ todo \in Stacks /\ Guarded(f) /\ held[f.src] \in Ctrls \cup {Null}
        /\ f.dst \in Handles /\ held[f.src] # Null
    BY <2>1, <1>1, JobDue DEF Guarded, Inv
  <2>3. PICK c \in Ctrls : held[f.src] = c BY <2>2
  <2>4. strong[c] = 0
    <3>1. PICK u \in Threads : SharedCall(u) \/ WeakCall(u) \/ Step(u) BY <1>1 DEF Next
    <3>2. CASE u # t
      <4>1. Own(u) BY <3>1, <2>2, SharedCalls, WeakCalls, OwnSteps
      <4>2. todo'[t] = todo[t] BY <3>2, <4>1 DEF Own
      <4> QED BY <4>2, <1>1
    <3>3. CASE u = t
      <4>1. Step(t) BY <3>1, <3>3, <1>1, <2>2, SharedCalls, WeakCalls DEF Idle
      <4>2. (f.op = "load" /\ load(t, f)) \/ (f.op = "cas" /\ (cas_fails(t, f) \/ cas_succeeds(t, f)))
        BY <4>1, <1>1 DEF Step
      <4>3. CASE cas_succeeds(t, f)
        <5> DEFINE d == f.dst
        <5>1. held' = [held EXCEPT ![d] = c] BY <4>3, <2>3 DEF cas_succeeds
        <5>2. d \in DOMAIN held BY <2>2, <1>1 DEF Inv, TypeOK
        <5> HIDE DEF d
        <5>3. held'[d] = c BY <5>1, <5>2
        <5> QED BY <5>3, <1>1, HandlesAssumption DEF d
      <4>4. CASE load(t, f) \/ cas_fails(t, f)
        <5>1. TryAgain(t, f, strong[c]) BY <4>4, <2>3 DEF load, cas_fails
        <5>2. ASSUME strong[c] # 0 PROVE FALSE
          <6>1. Continue(t, << Cas(f.dst, f.src, strong[c]) >>) BY <5>1, <5>2 DEF TryAgain
          <6>2. todo'[t] = << Cas(f.dst, f.src, strong[c]) >> \o Tail(todo[t])
            BY <6>1, <2>2 DEF Continue, Stacks
          <6>3. Tail(todo[t]) = << >>
            <7>1. todo[t] \in Seq(Known) /\ WellShaped(todo[t]) /\ f.op \in JobOps
              BY <2>1, <2>2, <1>1, JobFields DEF Stacks, Inv, CallsOK
            <7> QED BY <7>1, <1>1, TakeOff
          <6> QED BY <6>2, <6>3, <1>1
        <5> QED BY <5>2
      <4> QED BY <4>2, <4>3, <4>4
    <3> QED BY <3>2, <3>3
  <2>5. Holders(Owners, c) = 0 BY <2>4, <1>1, Sums
  <2> QED BY <2>3, <2>5, HoldersFinite, FS_EmptySet DEF Holders
<1>2. ASSUME Inv, [Next]_vars
      PROVE  [\A t \in Threads :
                (todo[t] # << >> /\ Head(todo[t]).op \in {"load", "cas"} /\ todo'[t] = << >>
                 /\ held'[Head(todo[t]).dst] = Null)
                => HoldersOf(Shared \cup Ctrls, held[Head(todo[t]).src]) = {}]_vars
  BY <1>1, <1>2 DEF Owners
<1> QED BY <1>2, SpecInv, PTL DEF Spec, LockFailsOnlyWhenExpired

\* Nothing outlives the calls: when every thread is done, a block that no
\* handle holds has been freed, and so its object was destroyed before.
AtRest == (\A t \in Threads : Idle(t)) =>
  \A c \in Ctrls : phase[c] # "unused" /\ ~Referenced(c) => phase[c] = "freed"

THEOREM NothingLeaks == Spec => []AtRest
<1>1. ASSUME Inv, \A t \in Threads : Idle(t), NEW c \in Ctrls, phase[c] # "unused", ~Referenced(c)
      PROVE  phase[c] = "freed"
  <2>1. \A t \in Threads : todo[t] = << >> BY <1>1 DEF Idle
  <2>2. ~Dying(c) /\ ~Closing(c) BY <2>1 DEF Dying, Closing
  <2>3. \A f : Number(todo, f) = 0
    <3>1. \A f : Places(todo, f) = {} BY <2>1 DEF Places
    <3> QED BY <3>1, FS_EmptySet DEF Number
  <2>4. \A H \in {Owners, Weak} : Holders(H, c) = 0
    <3>1. \A H \in {Owners, Weak} : HoldersOf(H, c) = {}
      BY <1>1, Kinds DEF HoldersOf, Referenced
    <3> QED BY <3>1, FS_EmptySet DEF Holders
  <2>5. strong[c] = 0 BY <2>3, <2>4, <1>1, Sums
  <2>6. weak[c] = 0 BY <2>3, <2>4, <2>5, <1>1, Sums DEF Common
  <2>7. Lives(c) /\ phase[c] \in {"unused", "live", "destroyed", "freed"}
    BY <1>1 DEF Inv, TypeOK
  <2> QED BY <2>2, <2>5, <2>6, <2>7, <1>1 DEF Lives
<1>2. Inv => AtRest BY <1>1 DEF AtRest
<1> QED BY <1>2, SpecInv, PTL
=============================================================================
